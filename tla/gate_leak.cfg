\* An approval whose client disconnected.
SPECIFICATION FairSpec
CONSTANTS
  Calls = {c1}
  Deciders = {d1}
  Accounts = {a1}
  Tools = {"trash"}
  Policies = {"session"}
PROPERTIES
  ApprovalsExpire
