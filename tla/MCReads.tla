------------------------------- MODULE MCReads -------------------------------
(***************************************************************************)
(* Reads for TLC: accounts, messages and values are interchangeable.       *)
(***************************************************************************)
EXTENDS Reads, TLC

Symmetry == Permutations(MsgIds) \union Permutations(Values) \union Permutations(Accounts)
==============================================================================
