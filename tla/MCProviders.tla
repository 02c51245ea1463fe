---------------------------- MODULE MCProviders ----------------------------
(***************************************************************************)
(* Instances of Providers.  Messages and callers are interchangeable.      *)
(***************************************************************************)
EXTENDS Providers, TLC

Symmetry == Permutations(Msgs) \union Permutations(Callers)
============================================================================
