--------------------------- MODULE MCTokenRefresh ---------------------------
(***************************************************************************)
(* Instances of TokenRefresh.  Callers are interchangeable.                *)
(***************************************************************************)
EXTENDS TokenRefresh, TLC

Symmetry == Permutations(Callers)
=============================================================================
