------------------------------ MODULE MCMalloc ------------------------------
(* Malloc.tla with three pages of four units, and blocks of any size they hold. *)
EXTENDS Malloc
=============================================================================
