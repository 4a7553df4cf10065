------------------------------ MODULE ProcLife ------------------------------
(***************************************************************************)
(* What kern/proc.c and its callers promise about the life of a process:   *)
(* it is born once from a running parent, dies once, and is reaped once,   *)
(* by the process that bore it, which may be gone by then.                 *)
(***************************************************************************)
CONSTANTS Proc, NULL

VARIABLES alive,     \* processes that run or sleep
          dead,      \* processes that wait to be reaped
          mother     \* who bore each of them

vars == <<alive, dead, mother>>

Init ==
    /\ alive \in SUBSET Proc /\ dead = {}
    /\ mother \in [Proc -> alive \cup {NULL}]

Birth ==
    \E p \in alive, c \in Proc \ (alive \cup dead) :
        /\ alive' = alive \cup {c}
        /\ mother' = [mother EXCEPT ![c] = p]
        /\ UNCHANGED dead

Death ==
    \E p \in alive :
        /\ alive' = alive \ {p} /\ dead' = dead \cup {p}
        /\ UNCHANGED mother

Funeral ==
    \E c \in dead :
        /\ mother[c] \in alive
        /\ dead' = dead \ {c}
        /\ mother' = [mother EXCEPT ![c] = NULL]
        /\ UNCHANGED alive

Next == Birth \/ Death \/ Funeral

Spec == Init /\ [][Next]_vars
=============================================================================
