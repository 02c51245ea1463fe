\* One connection that subscribes, re-subscribes and calls while events flow.
\* A daemon whose clients ask nothing more just waits.
SPECIFICATION Spec
CONSTANTS
  Conns = {c1}
  ApprovalMethods = {"approval.requested"}
  HandlerMethods = {"account.added"}
  Kinds = {"subscribe", "pause", "call", "malformed"}
  Filters = {{"approval.requested"}, {"approval.requested", "account.added"}}
  Readers = {c1}
  Cap = 2
  Buf = 2
  MaxEvents = 3
  MaxRequests = 2
CHECK_DEADLOCK FALSE
INVARIANTS
  FramesWhole
  InOrderOnce
  ForwardWithoutGaps
