\* One sign-in with two local connections to its listener, and two clients that
\* complete, cancel and remove it.
SPECIFICATION SignInSpec
CONSTANTS
  Flows = {x1}
  Conns = {k1, k2}
  Peers = {p1, p2}
INVARIANTS
  ReportedIsUsable
  RemovedUnreachable
  ServedSurvivesRestart
  CallbackGenuine
PROPERTIES
  RequestsEnd
