------------------------------- MODULE MCTimer ------------------------------
(* Timer.tla with two sleepers and room for entries that signals leave behind. *)
EXTENDS Timer
=============================================================================
