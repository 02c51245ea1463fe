\* Two tool calls at once, of every kind, on two messages and a draft; for Gmail
\* another mail client beside them.
SPECIFICATION Spec
CONSTANTS
  Msgs = {m1, m2}
  DraftIds = {d1}
  Contents = {x1}
  Callers = {c1, c2}
  MaxCalls = 2
  None = None
  UserLabels = {"work"}
  Folders = {"INBOX", "SPAM"}
  Starts = {{"INBOX", "UNREAD"}}
  OtherClient = {"archive", "send", "delete"}
  Labels = {"work", "home"}
  Moves = {"inbox", "junkemail"}
SYMMETRY Symmetry
\* All calls are made.
CHECK_DEADLOCK FALSE
INVARIANTS
  BatchOutcome
  SendOutcome
  ListComplete
PROPERTIES
  ImplementsMailbox
