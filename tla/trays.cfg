\* Two callers, two connections and two exits of the daemon for the clients; two
\* approvals in modals, one approval counted and shown, and one restart or account
\* event under them.
SPECIFICATION LiveSpec
CONSTANTS
  Callers = {p, q}
  MaxCalls = 3
  MaxConns = 2
  MaxExits = 2
  Faults = {"exit", "overlap"}
  Approvals = {a, b}
  Counted = {a}
  MaxUpsets = 1
  None = None
\* The clients' calls are all made.
CHECK_DEADLOCK FALSE
INVARIANTS
  AnswerIsMine
  PendingIsUnderWay
PROPERTIES
  EveryCallReturns
  CountConverges
