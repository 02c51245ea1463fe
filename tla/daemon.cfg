\* Three daemons in turn or at once on Linux, each of which may be killed at any
\* step, be stopped, fail to start, lose its IPC server or take over the process
\* id of a dead one.
SPECIFICATION Spec
CONSTANTS
  Procs = {p1, p2, p3}
  Pids = {n1, n2}
  Ports = {h1, h2}
  Os = "linux"
  Ends = {"crash", "signal", "error", "accept"}
  MaxCalls = 1
  None = None
SYMMETRY Symmetry
CHECK_DEADLOCK FALSE
INVARIANTS
  OneDaemon
  ServingIsFound
PROPERTIES
  PausedUntilResumed
