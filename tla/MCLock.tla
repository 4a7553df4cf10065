------------------------------- MODULE MCLock -------------------------------
(* Lock.tla with three processes, two nested resources and two calls each. *)
EXTENDS Lock
=============================================================================
