\* ApprovalCoordinator beside AccountsViewModel, as MenuBarController starts them.
SPECIFICATION Spec
CONSTANTS
  Subs = {"accounts", "coordinator"}
  Refreshers = {}
  Approvals = {a}
  MaxUpsets = 0
  None = None
CHECK_DEADLOCK FALSE
INVARIANT EachIsUnderWay
