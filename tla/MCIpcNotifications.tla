------------------------- MODULE MCIpcNotifications -------------------------
(* IpcNotifications for TLC. *)
EXTENDS IpcNotifications, TLC

Symmetry == Permutations(Conns)
=============================================================================
