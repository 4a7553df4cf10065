----------------------------- MODULE MCTerminal -----------------------------
(* Terminal.tla with two readers and a ring of four places. *)
EXTENDS Terminal
=============================================================================
