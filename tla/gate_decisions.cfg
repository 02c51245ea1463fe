\* Every policy, the tools that the handlers treat specially, and two connections
\* that decide the same approvals while the timer fires and the client leaves.
SPECIFICATION FairSpec
CONSTANTS
  Calls = {c1}
  Deciders = {d1, d2}
  Accounts = {a1}
  Tools = {"list_accounts", "send_message", "send_draft"}
  Policies = {"allow", "confirm", "session", "draftify", "block"}
INVARIANTS
  ReplyTruthful
PROPERTIES
  ImplementsConsent
  EveryCallSettles
  RemovalCompletes
