------------------------------- MODULE Timer -------------------------------
(***************************************************************************)
(* The timer wakeup chain of kern/timer.c: timer() at every hardware tick, *)
(* timer_sleep() for nanosleep(), and timer_ksleep() with its two users,   *)
(* vfs_bcacheflush(), which arms itself anew each time it is called, and   *)
(* fdc_disablemotors(), armed anew by every floppy access.                 *)
(*                                                                         *)
(* Each of these works on the chain with interrupts disabled and is one    *)
(* step.  An entry holds the ticks it has to wait after the entry before   *)
(* it.  A process that a signal wakes leaves its entry in the chain.       *)
(*                                                                         *)
(* Left out: the clock (system_time), the accounting of ticks, the switch  *)
(* at the end of timer() (Sched.tla) and the width of the 64-bit counts.   *)
(***************************************************************************)
EXTENDS Integers, Sequences, FiniteSets

CONSTANTS Proc,                \* processes that call nanosleep()
          vfs_bcacheflush,     \* kernel function that arms itself anew
          fdc_disablemotors,   \* kernel function armed with resetflag
          FlushTicks,          \* 15 s and ...
          MotorTicks,          \* ... 3 s, in ticks
          Naps,                \* ticks of the nanosleep() calls
          MaxEntries           \* bound: entries malloc() has memory for

KFunc == {vfs_bcacheflush, fdc_disablemotors}

ASSUME ProcFinite == /\ IsFiniteSet(Proc) /\ Proc \cap KFunc = {}
                     /\ vfs_bcacheflush # fdc_disablemotors
ASSUME TicksOK == /\ FlushTicks \in Nat \ {0} /\ MotorTicks \in Nat \ {0}
                  /\ Naps \subseteq Nat /\ IsFiniteSet(Naps) /\ MaxEntries \in Nat \ {0}

VARIABLES first_twc,   \* the chain
          asleep,      \* processes asleep in timer_sleep()
          flushing,    \* not in the code: no malloc() of vfs_bcacheflush() failed yet
          left         \* not in the code: ticks left of p's present sleep

timerVars == <<first_twc, asleep, flushing, left>>

Entry(a, n) == [wakeup_addr |-> a, ticks |-> n]

TimerInit ==
    /\ first_twc = <<Entry(vfs_bcacheflush, FlushTicks)>>
    /\ asleep = {}
    /\ flushing = TRUE
    /\ left = [p \in Proc |-> 0]

(***************************************************************************)
(* The ticks an entry has to wait in all: its own and those before it.     *)
(***************************************************************************)
Due(chain) ==
    LET due[i \in 0..Len(chain)] ==
            IF i = 0 THEN 0 ELSE due[i-1] + chain[i].ticks
    IN  due

\* How many entries go off no later than n ticks from now.
Before(chain, n) ==
    LET due == Due(chain) IN Cardinality({i \in DOMAIN chain : due[i] <= n})

(***************************************************************************)
(* timer_sleep__internal(): the entry goes behind those that are not later *)
(* and the ticks of the next one are counted from it.                      *)
(***************************************************************************)
InsertOnly(chain, a, n) ==       \* mutant: the next entry keeps its ticks
    LET k == Before(chain, n)
    IN  SubSeq(chain, 1, k) \o <<Entry(a, n - Due(chain)[k])>>
          \o SubSeq(chain, k + 1, Len(chain))

Insert(chain, a, n) ==
    LET k     == Before(chain, n)
        entry == Entry(a, n - Due(chain)[k])
        later == SubSeq(chain, k + 1, Len(chain))
    IN  SubSeq(chain, 1, k) \o <<entry>> \o
          [i \in DOMAIN later |->
              IF i = 1 THEN [later[1] EXCEPT !.ticks = @ - entry.ticks] ELSE later[i]]

(***************************************************************************)
(* timer_ksleep() with resetflag: every entry of f leaves its ticks to the *)
(* one behind it.                                                          *)
(***************************************************************************)
Without(chain, f) ==
    LET passed[i \in 0..Len(chain)] ==
            IF i = 0 THEN [kept |-> <<>>, carry |-> 0]
            ELSE IF chain[i].wakeup_addr = f
            THEN [passed[i-1] EXCEPT !.carry = @ + chain[i].ticks]
            ELSE [kept  |-> Append(passed[i-1].kept,
                                   [chain[i] EXCEPT !.ticks = @ + passed[i-1].carry]),
                  carry |-> 0]
    IN  passed[Len(chain)].kept

nanosleep(p, n) ==
    /\ p \notin asleep /\ Len(first_twc) < MaxEntries
    /\ first_twc' = Insert(first_twc, p, n)
    /\ asleep' = asleep \cup {p}
    /\ left' = [left EXCEPT ![p] = n]
    /\ UNCHANGED flushing

\* sig_post() -> wakeup_proc()
Signal(p) ==
    /\ p \in asleep
    /\ asleep' = asleep \ {p}
    /\ UNCHANGED <<first_twc, flushing, left>>

fdc_set_disablemotor ==
    LET others == Without(first_twc, fdc_disablemotors) IN
    /\ first_twc' = IF Len(others) = MaxEntries THEN others     \* ENOMEM
                    ELSE Insert(others, fdc_disablemotors, MotorTicks)
    /\ UNCHANGED <<asleep, flushing, left>>

(***************************************************************************)
(* timer().  The entries at 0 go off, first to last, and each stays in the *)
(* chain until its function has returned, so a function that arms itself   *)
(* anew is inserted behind all of them.  The first entry that remains, be  *)
(* it new, then counts down.                                               *)
(***************************************************************************)
RearmLast(chain, again, k) ==    \* mutant: next was read before the call
    IF again /\ k < Len(chain) THEN Insert(chain, vfs_bcacheflush, FlushTicks) ELSE chain

Rearm(chain, again, k) ==
    IF again THEN Insert(chain, vfs_bcacheflush, FlushTicks) ELSE chain

CountNothing(chain) == chain     \* mutant

CountDown(chain) ==
    [i \in DOMAIN chain |-> IF i = 1 THEN [chain[1] EXCEPT !.ticks = @ - 1] ELSE chain[i]]

timer ==
    LET k     == Before(first_twc, 0)
        fired == {first_twc[i].wakeup_addr : i \in 1..k}
    IN  \E again \in BOOLEAN :     \* does malloc() find memory?
           /\ again => vfs_bcacheflush \in fired
           /\ flushing' = (flushing /\ (vfs_bcacheflush \in fired => again))
           /\ LET chain == Rearm(first_twc, again, k)
              IN  first_twc' = CountDown(SubSeq(chain, k + 1, Len(chain)))
           /\ asleep' = asleep \ fired
           /\ left' = [p \in Proc |-> IF left[p] > 0 THEN left[p] - 1 ELSE 0]

TimerNext ==
    \/ \E p \in Proc, n \in Naps : nanosleep(p, n)
    \/ \E p \in Proc : Signal(p)
    \/ fdc_set_disablemotor
    \/ timer

\* The clock interrupt comes HZ times per second; nothing else must happen.
TimerSpec == TimerInit /\ [][TimerNext]_timerVars /\ WF_timerVars(timer)

-----------------------------------------------------------------------------
Addr == Proc \cup KFunc
Count(a) == Cardinality({i \in DOMAIN first_twc : first_twc[i].wakeup_addr = a})

\* No entry ever has a negative number of ticks to wait after the one before it.
AlarmTypeOK ==
    /\ first_twc \in Seq([wakeup_addr : Addr, ticks : Nat])
    /\ Len(first_twc) <= MaxEntries
    /\ asleep \subseteq Proc
    /\ flushing \in BOOLEAN
    /\ left \in [Proc -> Nat]

KernelAlarms ==
    /\ Count(vfs_bcacheflush) = IF flushing THEN 1 ELSE 0
    /\ Count(fdc_disablemotors) <= 1

SleeperHasAlarm ==
    \A p \in asleep : \E i \in DOMAIN first_twc :
        first_twc[i].wakeup_addr = p /\ Due(first_twc)[i] <= left[p]

\* However resets, re-arming inside timer() and insertions interleave, the two
\* kernel functions never have a second entry, and the flush always has one,
\* unless malloc() failed it once: then nothing starts it again.  And a process
\* asleep in nanosleep() has an entry that will wake it, no more than the time it
\* asked for away.
AlarmsAreSet == AlarmTypeOK /\ KernelAlarms /\ SleeperHasAlarm

\* The chain implements alarms that count down independently: inserting before,
\* between and behind, removing from anywhere, firing several and re-arming
\* during the walk disturb no other alarm by a single tick.
Longest == CHOOSE n \in Naps \cup {FlushTicks, MotorTicks} :
               \A m \in Naps \cup {FlushTicks, MotorTicks} : m <= n

TimesToGo(a) ==
    LET due == Due(first_twc)
        mine == {i \in DOMAIN first_twc : first_twc[i].wakeup_addr = a}
    IN  [n \in 0..Longest |-> Cardinality({i \in mine : due[i] = n})]

A == INSTANCE Alarms WITH Horizon <- Longest,
                          pending <- [a \in Addr |-> TimesToGo(a)]
ImplementsAlarms == A!Spec

\* Whoever sleeps in nanosleep() wakes up.
SleepersWake == \A p \in Proc : p \in asleep ~> p \notin asleep
=============================================================================
