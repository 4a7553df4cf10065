------------------------------- MODULE Alarms -------------------------------
(***************************************************************************)
(* What kern/timer.c promises: alarms that each count down on their own.   *)
(* An alarm is armed with a number of ticks, loses one at every tick, and  *)
(* goes off at the tick that finds it at 0.  Timer.tla is shown to         *)
(* implement this with one list in which only the first entry counts down. *)
(***************************************************************************)
EXTENDS Integers

CONSTANTS Proc,      \* processes, which sleep until an alarm for them goes off
          KFunc,     \* kernel functions, which an alarm calls
          Horizon    \* bound: longest time an alarm is armed for

VARIABLES pending,   \* pending[a][n]: alarms for a that have n ticks to go
          asleep     \* processes that wait for an alarm

vars == <<pending, asleep>>

Time == 0..Horizon

Init ==
    /\ pending \in [Proc \cup KFunc -> [Time -> 0..1]]
    /\ asleep = {}

Sleep(p, n) ==
    /\ p \notin asleep
    /\ pending' = [pending EXCEPT ![p][n] = @ + 1]
    /\ asleep' = asleep \cup {p}

\* A kernel function has only one alarm at a time; there may be no memory for
\* the new one.
Arm(f, n) ==
    /\ \E k \in {0, 1} :
          pending' = [pending EXCEPT ![f] = [m \in Time |-> IF m = n THEN k ELSE 0]]
    /\ UNCHANGED asleep

Interrupt(p) ==
    /\ p \in asleep
    /\ asleep' = asleep \ {p}
    /\ UNCHANGED pending

\* Functions in again arm themselves anew, for n ticks, while they are called.
Tick(again, n) ==
    LET due    == {a \in Proc \cup KFunc : pending[a][0] > 0}
        before == [a \in Proc \cup KFunc |-> [m \in Time |->
                      pending[a][m] + IF a \in again /\ m = n THEN 1 ELSE 0]]
    IN  /\ again \subseteq due
        /\ pending' = [a \in Proc \cup KFunc |-> [m \in Time |->
                          IF m = Horizon THEN 0 ELSE before[a][m + 1]]]
        /\ asleep' = asleep \ due

Next ==
    \/ \E p \in Proc, n \in Time : Sleep(p, n)
    \/ \E f \in KFunc, n \in Time : Arm(f, n)
    \/ \E p \in Proc : Interrupt(p)
    \/ \E again \in SUBSET KFunc, n \in Time \ {0} : Tick(again, n)

Spec == Init /\ [][Next]_vars
=============================================================================
