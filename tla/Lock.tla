-------------------------------- MODULE Lock --------------------------------
(***************************************************************************)
(* kern/lock.c: read/write locks on kernel resources.                      *)
(*                                                                         *)
(* lock() and unlock() do all their work with interrupts disabled, so on   *)
(* the one CPU each of them is a step; the exception is the loop of a      *)
(* blocking call, which enables interrupts between two tests, and there    *)
(* any other process may run.  A process that finds the resource taken is  *)
(* in waiting[p] until one of its tests succeeds.  hold[p][l] is not in    *)
(* the code: it is what the callers believe they hold, the view against    *)
(* which the two counters of the lockstruct are judged.                    *)
(*                                                                         *)
(* Callers follow the discipline read off the call sites: unlock only what *)
(* was locked, and nest only in one order (sys_lseek: descriptor, then     *)
(* vnode; vm_object_combine: object, then the object below it).            *)
(***************************************************************************)
EXTENDS Integers, FiniteSets

CONSTANTS Proc,       \* the processes
          Locks,      \* the lockstructs, numbered in their nesting order
          MaxCalls    \* bound: lock() calls each process makes

ASSUME ProcFinite  == IsFiniteSet(Proc)
ASSUME LocksAreNat == Locks \subseteq Nat
ASSUME MaxCallsNat == MaxCalls \in Nat

VARIABLES writelock_value,     \* [Locks -> BOOLEAN]: is the pointer non-NULL
          readlock_refcount,   \* [Locks -> Nat]
          hold,                \* [Proc -> [Locks -> {"none", "RO", "RW"}]]
          waiting,             \* [Proc -> set of at most one <<lock, mode>>]
          calls                \* [Proc -> 0..MaxCalls] lock() calls made

lockvars == <<writelock_value, readlock_refcount, hold, waiting, calls>>

Mode == {"RO", "RW"}

LockInit ==
    /\ writelock_value = [l \in Locks |-> FALSE]
    /\ readlock_refcount = [l \in Locks |-> 0]
    /\ hold = [p \in Proc |-> [l \in Locks |-> "none"]]
    /\ waiting = [p \in Proc |-> {}]
    /\ calls = [p \in Proc |-> 0]

(***************************************************************************)
(* The test made on entry and in the loop, and lock_and_return.            *)
(***************************************************************************)
AvailableIgnoringReaders(l, m) == ~writelock_value[l]             \* mutant
AvailableIgnoringWriter(l, m) == m = "RW" => ~writelock_value[l]  \* mutant

Available(l, m) ==
    /\ ~writelock_value[l]
    /\ m = "RW" => readlock_refcount[l] = 0

LockAndReturn(p, l, m) ==
    /\ hold' = [hold EXCEPT ![p][l] = m]
    /\ IF m = "RW"
         THEN /\ writelock_value' = [writelock_value EXCEPT ![l] = TRUE]
              /\ UNCHANGED readlock_refcount
         ELSE /\ readlock_refcount' = [readlock_refcount EXCEPT ![l] = @ + 1]
              /\ UNCHANGED writelock_value

(***************************************************************************)
(* The nesting discipline of the callers: nothing of the same or a later   *)
(* place in the order is held when a lock is asked for.                    *)
(***************************************************************************)
InAnyOrder(p, l) == hold[p][l] = "none"   \* mutant

InOrder(p, l) == \A k \in Locks : hold[p][k] # "none" => k < l

MayCall(p, l) ==
    /\ waiting[p] = {}
    /\ calls[p] < MaxCalls
    /\ InOrder(p, l)
    /\ calls' = [calls EXCEPT ![p] = @ + 1]

\* lock() whose first test succeeds, blocking or not.
LockAtOnce(p, l, m) ==
    /\ MayCall(p, l)
    /\ Available(l, m)
    /\ LockAndReturn(p, l, m)
    /\ UNCHANGED waiting

\* lock() without LOCK_BLOCKING on a taken resource returns -1.
LockRefused(p, l, m) ==
    /\ MayCall(p, l)
    /\ ~Available(l, m)
    /\ UNCHANGED <<writelock_value, readlock_refcount, hold, waiting>>

\* lock() with LOCK_BLOCKING on a taken resource enters the loop.
LockBlocks(p, l, m) ==
    /\ MayCall(p, l)
    /\ ~Available(l, m)
    /\ waiting' = [waiting EXCEPT ![p] = {<<l, m>>}]
    /\ UNCHANGED <<writelock_value, readlock_refcount, hold>>

\* A test of the loop that succeeds; one that fails changes nothing.
SpinAcquires(p) ==
    \E w \in waiting[p] :
        /\ Available(w[1], w[2])
        /\ LockAndReturn(p, w[1], w[2])
        /\ waiting' = [waiting EXCEPT ![p] = {}]
        /\ UNCHANGED calls

(***************************************************************************)
(* unlock() is told only the resource: it takes a non-NULL writelock_value *)
(* to mean that the caller holds the write lock.  A write lock with a      *)
(* reader count is panic(): ReleaseWrite is then disabled, and the machine *)
(* goes no further.  wakeup(lockaddr), which follows a read unlock, finds  *)
(* nobody: the sleep() of the loop is commented out.                       *)
(***************************************************************************)
ReleaseWrite(l) ==
    /\ writelock_value[l]
    /\ readlock_refcount[l] = 0
    /\ writelock_value' = [writelock_value EXCEPT ![l] = FALSE]
    /\ UNCHANGED readlock_refcount

ReleaseReadAll(l) ==     \* mutant: the count is reset
    /\ ~writelock_value[l]
    /\ readlock_refcount' = [readlock_refcount EXCEPT ![l] = 0]
    /\ UNCHANGED writelock_value

ReleaseRead(l) ==
    /\ ~writelock_value[l]
    /\ readlock_refcount' =
           [readlock_refcount EXCEPT ![l] = IF @ = 0 THEN 0 ELSE @ - 1]
    /\ UNCHANGED writelock_value

Unlock(p, l) ==
    /\ waiting[p] = {}
    /\ hold[p][l] # "none"
    /\ ReleaseWrite(l) \/ ReleaseRead(l)
    /\ hold' = [hold EXCEPT ![p][l] = "none"]
    /\ UNCHANGED <<waiting, calls>>

\* Every process has made its calls and given back what it held.
Finished ==
    /\ \A p \in Proc : calls[p] = MaxCalls /\ waiting[p] = {}
    /\ \A p \in Proc, l \in Locks : hold[p][l] = "none"
    /\ UNCHANGED lockvars

LockNext ==
    \/ \E p \in Proc, l \in Locks, m \in Mode :
           LockAtOnce(p, l, m) \/ LockRefused(p, l, m) \/ LockBlocks(p, l, m)
    \/ \E p \in Proc : SpinAcquires(p)
    \/ \E p \in Proc, l \in Locks : Unlock(p, l)
    \/ Finished

(***************************************************************************)
(* Fairness.  The timer interrupt gives every runnable process the CPU     *)
(* again and again, also the ones in the loop of lock(), so a test that    *)
(* stays successful is made, and a holder goes on to its unlock().  No     *)
(* process is obliged to call lock().                                      *)
(***************************************************************************)
Fairness ==
    \A p \in Proc : /\ WF_lockvars(SpinAcquires(p))
                    /\ WF_lockvars(\E l \in Locks : Unlock(p, l))

LockSpec == LockInit /\ [][LockNext]_lockvars /\ Fairness

-----------------------------------------------------------------------------
(***************************************************************************)
(* Properties                                                              *)
(***************************************************************************)
Holders(l, m) == {p \in Proc : hold[p][l] = m}

LockTypeOK ==
    /\ writelock_value \in [Locks -> BOOLEAN]
    /\ readlock_refcount \in [Locks -> Nat]
    /\ hold \in [Proc -> [Locks -> Mode \cup {"none"}]]
    /\ waiting \in [Proc -> SUBSET (Locks \X Mode)]
    /\ calls \in [Proc -> 0..MaxCalls]

\* A resource held for writing has one holder and no reader: what the users of
\* lock(.., LOCK_RW) in kern/sys_fd.c, vm/vm_object.c and vfs/ rely on.
WriterExcludes ==
    \A l \in Locks : \A p \in Holders(l, "RW") :
        Holders(l, "RW") = {p} /\ Holders(l, "RO") = {}

\* The lockstruct tells the truth about its holders.  A reader count that drifts
\* makes unlock() panic ("lock struct is inconsistent") or release another
\* process's lock, long after the call that went wrong.
LockstructAgrees ==
    \A l \in Locks :
        /\ writelock_value[l] <=> Holders(l, "RW") # {}
        /\ readlock_refcount[l] = Cardinality(Holders(l, "RO"))

\* lock.c implements the abstract read/write lock: every acquisition happens
\* when the abstract lock is free for it and every unlock() gives back what the
\* caller itself held, although unlock() is not told who calls it.
RW == INSTANCE RWLock WITH
          readers <- [l \in Locks |-> Holders(l, "RO")],
          writers <- [l \in Locks |-> Holders(l, "RW")]
ImplementsRWLock == RW!AbsSpec

\* A blocking lock() returns: no circle of processes waits in the loop, given the
\* nesting order of the call sites and a bounded number of calls (with an unbounded
\* number, readers that overlap for ever keep a writer out).
EveryCallReturns == \A p \in Proc : waiting[p] # {} ~> waiting[p] = {}
=============================================================================
