\* Two calls at once; the token endpoint leaves the refresh token out, repeats
\* or rotates it, and a rotation revokes the old token.
SPECIFICATION Spec
CONSTANTS
  Callers = {c1, c2}
  Answers = {"none", "same", "rotate"}
  Revokes = TRUE
  MaxIssued = 4
SYMMETRY Symmetry
INVARIANTS
  AtMostOnce
  BearerUsable
  MemoryTokenGood
  KeychainCurrent
