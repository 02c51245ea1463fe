\* Two concurrent calls of two categories, one connection deciding.
SPECIFICATION Spec
CONSTANTS
  Calls = {c1, c2}
  Deciders = {d1}
  Accounts = {a1}
  Tools = {"send_message", "trash"}
  Policies = {"allow", "session"}
SYMMETRY Symmetry
INVARIANTS
  TypeOK
  EffectNeedsConsent
  TrustEarned
  AnsweredLeavesNoEntry
