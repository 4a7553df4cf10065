------------------------------- MODULE MCPids -------------------------------
(* Pids.tla with one process more than there are pids. *)
EXTENDS Pids, TLC

Slots == Permutations(Slot)
=============================================================================
