------------------------------ MODULE MCSched ------------------------------
(* Sched.tla: First and one or two descendants, beside a resident sleeper. *)
EXTENDS Sched

Descendants == Permutations(Proc \ {First, Resident})
=============================================================================
