\* A reading client beside one that never reads.
SPECIFICATION FairSpec
CONSTANTS
  Conns = {c1, c2}
  ApprovalMethods = {"approval.requested"}
  HandlerMethods = {}
  Kinds = {"subscribe"}
  Filters = {{"approval.requested"}}
  Readers = {c1}
  Cap = 1
  Buf = 1
  MaxEvents = 2
  MaxRequests = 1
CHECK_DEADLOCK FALSE
PROPERTIES
  DeliveredUnlessLagged
  RequestsAnswered
