------------------------- MODULE MCDaemonLifecycle -------------------------
(***************************************************************************)
(* Instances of DaemonLifecycle.  Processes, process ids and ports are     *)
(* interchangeable.                                                        *)
(***************************************************************************)
EXTENDS DaemonLifecycle, TLC

Symmetry == Permutations(Procs) \union Permutations(Pids) \union Permutations(Ports)
=============================================================================
