--------------------------- MODULE MCApprovalGate ---------------------------
(* Small instances of ApprovalGate for TLC. *)
EXTENDS ApprovalGate, TLC

\* Calls and connections that decide are interchangeable.
Symmetry == Permutations(Calls) \cup Permutations(Deciders)
=============================================================================
