--------------------------- MODULE LockMallocProofs --------------------------
(***************************************************************************)
(* Proofs about the two services of the kernel that every other part       *)
(* relies on.                                                              *)
(*                                                                         *)
(* Lock.tla, for every finite set of processes, every set of locks and any *)
(* number of calls: the lockstructs agree with their holders, a writer     *)
(* excludes everybody else, and the code implements RWLock.                *)
(*                                                                         *)
(* Malloc.tla: malloc() hands out memory that nobody has, free() can take  *)
(* back every block in use, no page is lost, and a small block is refused  *)
(* only when at most one page has room for it.                             *)
(***************************************************************************)
EXTENDS Lock, Malloc, FiniteSetTheorems, TLAPS

-----------------------------------------------------------------------------
(***************************************************************************)
(* Lock.tla                                                                *)
(***************************************************************************)

(***************************************************************************)
(* The inductive invariant.  WriterExcludes alone is not inductive: that a *)
(* test of the two counters admits a caller only when the holders allow it *)
(* needs the counters to agree with the holders.                           *)
(***************************************************************************)
IInv == LockTypeOK /\ WriterExcludes /\ LockstructAgrees

\* Every set of holders is finite, and its size is a natural number.
LEMMA HoldersFinite ==
    ASSUME NEW l, NEW m
    PROVE  /\ IsFiniteSet(Holders(l, m))
           /\ Cardinality(Holders(l, m)) \in Nat
           /\ Cardinality(Holders(l, m)) = 0 <=> Holders(l, m) = {}
<1>1. Holders(l, m) \subseteq Proc
  BY DEF Holders
<1>2. IsFiniteSet(Holders(l, m))
  BY <1>1, ProcFinite, FS_Subset
<1>3. QED
  BY <1>2, FS_CardinalityType, FS_EmptySet

\* The initial lockstructs are free and nobody holds anything.
LEMMA InitIInv == LockInit => IInv
<1> SUFFICES ASSUME LockInit PROVE IInv
  OBVIOUS
<1>1. LockTypeOK
  BY MaxCallsNat DEF LockInit, LockTypeOK, Mode
<1>2. \A l \in Locks, m \in Mode : Holders(l, m) = {}
  BY DEF LockInit, Holders, Mode
<1>3. WriterExcludes
  BY <1>2 DEF WriterExcludes, Mode
<1>4. LockstructAgrees
  BY <1>2, FS_EmptySet DEF LockstructAgrees, LockInit, Mode
<1>5. QED
  BY <1>1, <1>3, <1>4 DEF IInv

\* lock_and_return after a successful test: the caller is added to the holders of
\* its lock, everybody else's holdings stay.
LEMMA AcquireIInv ==
    ASSUME IInv, NEW p \in Proc, NEW l \in Locks, NEW m \in Mode,
           hold[p][l] = "none", Available(l, m), LockAndReturn(p, l, m),
           waiting' \in [Proc -> SUBSET (Locks \X Mode)],
           calls' \in [Proc -> 0..MaxCalls]
    PROVE  IInv'
<1> USE DEF IInv, Mode
<1>1. LockTypeOK'
  <2>1. hold' \in [Proc -> [Locks -> Mode \cup {"none"}]]
    BY DEF LockTypeOK, LockAndReturn
  <2>2. writelock_value' \in [Locks -> BOOLEAN]
    BY DEF LockTypeOK, LockAndReturn
  <2>3. readlock_refcount' \in [Locks -> Nat]
    BY DEF LockTypeOK, LockAndReturn
  <2>4. QED
    BY <2>1, <2>2, <2>3 DEF LockTypeOK
<1>2. \A k \in Locks, n \in Mode :
         Holders(k, n)' = IF k = l /\ n = m THEN Holders(k, n) \cup {p}
                                            ELSE Holders(k, n)
  BY DEF LockTypeOK, LockAndReturn, Holders
<1>3. Holders(l, "RW") = {}
  BY DEF Available, LockstructAgrees
<1>4. m = "RW" => Holders(l, "RO") = {}
  BY HoldersFinite DEF Available, LockstructAgrees
<1>5. WriterExcludes'
  BY <1>2, <1>3, <1>4 DEF WriterExcludes
<1>6. LockstructAgrees'
  <2> SUFFICES ASSUME NEW k \in Locks
               PROVE  /\ writelock_value'[k] <=> Holders(k, "RW")' # {}
                      /\ readlock_refcount'[k] = Cardinality(Holders(k, "RO")')
    BY DEF LockstructAgrees, Holders
  <2>1. CASE k = l /\ m = "RO"
    <3>1. p \notin Holders(l, "RO")
      BY DEF Holders
    <3>2. Cardinality(Holders(l, "RO") \cup {p}) = Cardinality(Holders(l, "RO")) + 1
      BY <3>1, HoldersFinite, FS_AddElement
    <3>3. readlock_refcount'[l] = readlock_refcount[l] + 1
      BY <2>1 DEF LockAndReturn, LockTypeOK
    <3>4. writelock_value' = writelock_value
      BY <2>1 DEF LockAndReturn
    <3>5. QED
      BY <1>2, <2>1, <3>2, <3>3, <3>4 DEF LockstructAgrees
  <2>2. CASE k = l /\ m = "RW"
    <3>1. writelock_value'[l] /\ readlock_refcount' = readlock_refcount
      BY <2>2 DEF LockAndReturn, LockTypeOK
    <3>2. QED
      BY <1>2, <2>2, <3>1 DEF LockstructAgrees
  <2>3. CASE k # l
    <3>1. writelock_value'[k] = writelock_value[k] /\ readlock_refcount'[k] = readlock_refcount[k]
      BY <2>3 DEF LockAndReturn, LockTypeOK
    <3>2. QED
      BY <1>2, <2>3, <3>1 DEF LockstructAgrees
  <2>4. QED
    BY <2>1, <2>2, <2>3
<1>7. QED
  BY <1>1, <1>5, <1>6

\* unlock(): the caller leaves the holders of its lock, whichever way it held it.
LEMMA UnlockHolders ==
    ASSUME IInv, NEW p \in Proc, NEW l \in Locks, Unlock(p, l)
    PROVE  /\ \A k \in Locks, n \in Mode :
                  Holders(k, n)' = IF k = l THEN Holders(k, n) \ {p} ELSE Holders(k, n)
           /\ writelock_value[l] <=> p \in Holders(l, "RW")
           /\ ~writelock_value[l] <=> p \in Holders(l, "RO")
<1> USE DEF IInv, Mode
<1>1. \A k \in Locks, n \in Mode :
         Holders(k, n)' = IF k = l THEN Holders(k, n) \ {p} ELSE Holders(k, n)
  BY DEF LockTypeOK, Unlock, Holders
<1>2. p \in Holders(l, "RW") \/ p \in Holders(l, "RO")
  BY DEF LockTypeOK, Unlock, Holders
<1>3. ~(p \in Holders(l, "RW") /\ p \in Holders(l, "RO"))
  BY DEF Holders
<1>4. writelock_value[l] <=> p \in Holders(l, "RW")
  BY <1>2 DEF LockstructAgrees, WriterExcludes
<1>5. QED
  BY <1>1, <1>2, <1>3, <1>4

\* unlock() leaves the counters agreeing with the holders.
LEMMA UnlockIInv ==
    ASSUME IInv, NEW p \in Proc, NEW l \in Locks, Unlock(p, l)
    PROVE  IInv'
<1> USE DEF IInv, Mode
<1>1. LockTypeOK'
  <2>1. hold' \in [Proc -> [Locks -> Mode \cup {"none"}]]
    BY DEF LockTypeOK, Unlock
  <2>2. writelock_value' \in [Locks -> BOOLEAN]
    BY DEF LockTypeOK, Unlock, ReleaseWrite, ReleaseRead
  <2>3. readlock_refcount' \in [Locks -> Nat]
    <3>1. readlock_refcount[l] \in Nat
      BY DEF LockTypeOK
    <3>2. (IF readlock_refcount[l] = 0 THEN 0 ELSE readlock_refcount[l] - 1) \in Nat
      BY <3>1
    <3>3. CASE ReleaseWrite(l)
      BY <3>3 DEF LockTypeOK, ReleaseWrite
    <3>4. CASE ReleaseRead(l)
      BY <3>2, <3>4 DEF LockTypeOK, ReleaseRead
    <3>5. QED
      BY <3>3, <3>4 DEF Unlock
  <2>4. waiting' = waiting /\ calls' = calls
    BY DEF Unlock
  <2>5. QED
    BY <2>1, <2>2, <2>3, <2>4 DEF LockTypeOK
<1>2. \A k \in Locks, n \in Mode :
         Holders(k, n)' = IF k = l THEN Holders(k, n) \ {p} ELSE Holders(k, n)
  BY UnlockHolders
<1>3. WriterExcludes'
  BY <1>2 DEF WriterExcludes
<1>4. LockstructAgrees'
  <2> SUFFICES ASSUME NEW k \in Locks
               PROVE  /\ writelock_value'[k] <=> Holders(k, "RW")' # {}
                      /\ readlock_refcount'[k] = Cardinality(Holders(k, "RO")')
    BY DEF LockstructAgrees, Holders
  <2>1. CASE k = l /\ writelock_value[l]
    <3>1. p \in Holders(l, "RW") /\ p \notin Holders(l, "RO")
      BY <2>1, UnlockHolders
    <3>2. Holders(l, "RW")' = {} /\ Holders(l, "RO")' = Holders(l, "RO")
      BY <1>2, <3>1 DEF WriterExcludes
    <3>3. ~writelock_value'[l] /\ readlock_refcount' = readlock_refcount
      BY <2>1 DEF Unlock, ReleaseWrite, ReleaseRead, LockTypeOK
    <3>4. QED
      BY <2>1, <3>2, <3>3 DEF LockstructAgrees
  <2>2. CASE k = l /\ ~writelock_value[l]
    <3>1. p \in Holders(l, "RO") /\ Holders(l, "RW") = {}
      BY <2>2, UnlockHolders DEF LockstructAgrees
    <3>2. Cardinality(Holders(l, "RO") \ {p}) = Cardinality(Holders(l, "RO")) - 1
      BY <3>1, HoldersFinite, FS_RemoveElement
    <3>3. readlock_refcount[l] # 0
      BY <3>1, HoldersFinite DEF LockstructAgrees
    <3>4. /\ readlock_refcount'[l] = readlock_refcount[l] - 1
          /\ writelock_value' = writelock_value
      BY <2>2, <3>3 DEF Unlock, ReleaseWrite, ReleaseRead, LockTypeOK
    <3>5. Holders(l, "RO")' = Holders(l, "RO") \ {p} /\ Holders(l, "RW")' = {}
      BY <1>2, <3>1
    <3>6. QED
      BY <2>2, <3>2, <3>4, <3>5 DEF LockstructAgrees
  <2>3. CASE k # l
    <3>1. writelock_value'[k] = writelock_value[k] /\ readlock_refcount'[k] = readlock_refcount[k]
      BY <2>3 DEF Unlock, ReleaseWrite, ReleaseRead, LockTypeOK
    <3>2. QED
      BY <1>2, <2>3, <3>1 DEF LockstructAgrees
  <2>4. QED
    BY <2>1, <2>2, <2>3
<1>5. QED
  BY <1>1, <1>3, <1>4

\* The steps that leave the lockstructs and the holders alone.
LEMMA QuietIInv ==
    ASSUME IInv, UNCHANGED <<writelock_value, readlock_refcount, hold>>,
           waiting' \in [Proc -> SUBSET (Locks \X Mode)],
           calls' \in [Proc -> 0..MaxCalls]
    PROVE  IInv'
<1>1. \A l, m : Holders(l, m)' = Holders(l, m)
  BY DEF Holders
<1>2. LockTypeOK'
  BY DEF IInv, LockTypeOK
<1>3. WriterExcludes'
  BY <1>1 DEF IInv, WriterExcludes
<1>4. LockstructAgrees'
  BY <1>1 DEF IInv, LockstructAgrees
<1>5. QED
  BY <1>2, <1>3, <1>4 DEF IInv

\* A process that begins a lock() call has none under way and does not hold l.
LEMMA CallFacts ==
    ASSUME LockTypeOK, NEW p \in Proc, NEW l \in Locks, MayCall(p, l)
    PROVE  /\ hold[p][l] = "none"
           /\ calls' \in [Proc -> 0..MaxCalls]
<1>1. hold[p][l] = "none"
  BY LocksAreNat DEF MayCall, InOrder
<1>2. calls[p] + 1 \in 0..MaxCalls
  BY MaxCallsNat DEF MayCall, LockTypeOK
<1>3. calls' \in [Proc -> 0..MaxCalls]
  BY <1>2 DEF MayCall, LockTypeOK
<1>4. QED
  BY <1>1, <1>3

\* In the loop, the caller does not hold the lock it waits for: an invariant of
\* its own, because hold[p] and waiting[p] change in different steps.
WaitsUnheld == \A p \in Proc : \A w \in waiting[p] : hold[p][w[1]] = "none"

\* The invariant is inductive.
LEMMA NextIInv == IInv /\ WaitsUnheld /\ [LockNext]_lockvars => IInv' /\ WaitsUnheld'
<1> SUFFICES ASSUME IInv, WaitsUnheld, [LockNext]_lockvars
             PROVE  IInv' /\ WaitsUnheld'
  OBVIOUS
<1>t. LockTypeOK
  BY DEF IInv
<1>1. ASSUME NEW p \in Proc, NEW l \in Locks, NEW m \in Mode, LockAtOnce(p, l, m)
      PROVE  IInv' /\ WaitsUnheld'
  <2>1. hold[p][l] = "none" /\ calls' \in [Proc -> 0..MaxCalls]
    BY <1>t, <1>1, CallFacts DEF LockAtOnce
  <2>2. waiting' \in [Proc -> SUBSET (Locks \X Mode)]
    BY <1>t, <1>1 DEF LockAtOnce, LockTypeOK
  <2>3. IInv'
    BY <1>1, <2>1, <2>2, AcquireIInv DEF LockAtOnce
  <2>4. \A q \in Proc : q # p => hold'[q] = hold[q]
    BY <1>t, <1>1 DEF LockAtOnce, LockAndReturn, LockTypeOK
  <2>5. waiting'[p] = {} /\ waiting' = waiting
    BY <1>1 DEF LockAtOnce, MayCall
  <2>6. WaitsUnheld'
    BY <2>4, <2>5 DEF WaitsUnheld
  <2>7. QED
    BY <2>3, <2>6
<1>2. ASSUME NEW p \in Proc, NEW l \in Locks, NEW m \in Mode, LockRefused(p, l, m)
      PROVE  IInv' /\ WaitsUnheld'
  <2>1. calls' \in [Proc -> 0..MaxCalls]
    BY <1>t, <1>2, CallFacts DEF LockRefused
  <2>2. waiting' \in [Proc -> SUBSET (Locks \X Mode)]
    BY <1>t, <1>2 DEF LockRefused, LockTypeOK
  <2>3. IInv'
    BY <1>2, <2>1, <2>2, QuietIInv DEF LockRefused
  <2>4. WaitsUnheld'
    BY <1>2 DEF WaitsUnheld, LockRefused
  <2>5. QED
    BY <2>3, <2>4
<1>3. ASSUME NEW p \in Proc, NEW l \in Locks, NEW m \in Mode, LockBlocks(p, l, m)
      PROVE  IInv' /\ WaitsUnheld'
  <2>1. hold[p][l] = "none" /\ calls' \in [Proc -> 0..MaxCalls]
    BY <1>t, <1>3, CallFacts DEF LockBlocks
  <2>2. waiting' = [waiting EXCEPT ![p] = {<<l, m>>}]
    BY <1>3 DEF LockBlocks
  <2>3. waiting' \in [Proc -> SUBSET (Locks \X Mode)]
    BY <1>t, <2>2 DEF LockTypeOK
  <2>4. IInv'
    BY <1>3, <2>1, <2>3, QuietIInv DEF LockBlocks
  <2>5. hold' = hold
    BY <1>3 DEF LockBlocks
  <2>6. WaitsUnheld'
    BY <1>t, <2>1, <2>2, <2>5 DEF WaitsUnheld, LockTypeOK
  <2>7. QED
    BY <2>4, <2>6
<1>4. ASSUME NEW p \in Proc, SpinAcquires(p)
      PROVE  IInv' /\ WaitsUnheld'
  <2>1. PICK w \in waiting[p] : /\ Available(w[1], w[2])
                                /\ LockAndReturn(p, w[1], w[2])
                                /\ waiting' = [waiting EXCEPT ![p] = {}]
                                /\ UNCHANGED calls
    BY <1>4 DEF SpinAcquires
  <2>2. w[1] \in Locks /\ w[2] \in Mode
    BY <1>t DEF LockTypeOK
  <2>3. hold[p][w[1]] = "none"
    BY DEF WaitsUnheld
  <2>4. /\ waiting' \in [Proc -> SUBSET (Locks \X Mode)]
        /\ calls' \in [Proc -> 0..MaxCalls]
    BY <1>t, <2>1 DEF LockTypeOK
  <2>5. IInv'
    BY <2>1, <2>2, <2>3, <2>4, AcquireIInv
  <2>6. \A q \in Proc : q # p => hold'[q] = hold[q] /\ waiting'[q] = waiting[q]
    BY <1>t, <2>1 DEF LockAndReturn, LockTypeOK
  <2>7. waiting'[p] = {}
    BY <1>t, <2>1 DEF LockTypeOK
  <2>8. WaitsUnheld'
    BY <2>6, <2>7 DEF WaitsUnheld
  <2>9. QED
    BY <2>5, <2>8
<1>5. ASSUME NEW p \in Proc, NEW l \in Locks, Unlock(p, l)
      PROVE  IInv' /\ WaitsUnheld'
  <2>1. IInv'
    BY <1>5, UnlockIInv
  <2>2. /\ waiting' = waiting
        /\ hold' = [hold EXCEPT ![p][l] = "none"]
    BY <1>5 DEF Unlock
  <2>3. \A q \in Proc, k \in Locks : hold'[q][k] \in {"none", hold[q][k]}
    BY <1>t, <2>2 DEF LockTypeOK
  <2>4. \A q \in Proc : \A w \in waiting[q] : w[1] \in Locks
    BY <1>t DEF LockTypeOK
  <2>5. WaitsUnheld'
    BY <2>2, <2>3, <2>4 DEF WaitsUnheld
  <2>6. QED
    BY <2>1, <2>5
<1>6. CASE UNCHANGED lockvars
  <2>1. IInv'
    BY <1>t, <1>6, QuietIInv DEF lockvars, LockTypeOK
  <2>2. WaitsUnheld'
    BY <1>6 DEF lockvars, WaitsUnheld
  <2>3. QED
    BY <2>1, <2>2
<1>7. CASE Finished
  BY <1>6, <1>7 DEF Finished
<1>8. QED
  BY <1>1, <1>2, <1>3, <1>4, <1>5, <1>6, <1>7 DEF LockNext

\* The invariant as a temporal fact, for the theorems below.
LEMMA AlwaysIInv == LockSpec => [](IInv /\ WaitsUnheld)
<1>1. LockInit => IInv /\ WaitsUnheld
  BY InitIInv DEF LockInit, WaitsUnheld
<1>2. QED
  BY <1>1, NextIInv, PTL DEF LockSpec

\* The reader counts never go below zero and a caller waits for known locks only.
THEOREM TypeCorrect == LockSpec => []LockTypeOK
<1>1. IInv => LockTypeOK
  BY DEF IInv
<1>2. QED
  BY <1>1, AlwaysIInv, PTL

\* The lockstruct counters always agree with the processes that hold the lock, so
\* unlock() never meets the state it panics on.
THEOREM LockstructAlwaysAgrees == LockSpec => []LockstructAgrees
<1>1. IInv => LockstructAgrees
  BY DEF IInv
<1>2. QED
  BY <1>1, AlwaysIInv, PTL

\* Mutual exclusion: lock(.., LOCK_RW) shares the resource with nobody.
THEOREM MutualExclusion == LockSpec => []WriterExcludes
<1>1. IInv => WriterExcludes
  BY DEF IInv
<1>2. QED
  BY <1>1, AlwaysIInv, PTL

-----------------------------------------------------------------------------
(***************************************************************************)
(* Refinement: each acquisition is the abstract acquisition of the same    *)
(* mode, each unlock() the abstract release by its caller, and a refused   *)
(* or blocked call is invisible.                                           *)
(***************************************************************************)
LEMMA AcquireRefines ==
    ASSUME IInv, NEW p \in Proc, NEW l \in Locks, NEW m \in Mode,
           hold[p][l] = "none", Available(l, m), LockAndReturn(p, l, m)
    PROVE  RW!AcquireRead(p, l) \/ RW!AcquireWrite(p, l)
<1> USE DEF IInv, Mode
<1>1. \A k \in Locks, n \in Mode :
         Holders(k, n)' = IF k = l /\ n = m THEN Holders(k, n) \cup {p}
                                            ELSE Holders(k, n)
  BY DEF LockTypeOK, LockAndReturn, Holders
<1>2. Holders(l, "RW") = {}
  BY DEF Available, LockstructAgrees
<1>3. CASE m = "RO"
  <2>1. p \notin Holders(l, "RO")
    BY DEF Holders
  <2>2. RW!AcquireRead(p, l)
    BY <1>1, <1>2, <1>3, <2>1 DEF RW!AcquireRead
  <2>3. QED
    BY <2>2
<1>4. CASE m = "RW"
  <2>1. Holders(l, "RO") = {}
    BY <1>4, HoldersFinite DEF Available, LockstructAgrees
  <2>2. RW!AcquireWrite(p, l)
    BY <1>1, <1>2, <1>4, <2>1 DEF RW!AcquireWrite
  <2>3. QED
    BY <2>2
<1>5. QED
  BY <1>3, <1>4

\* unlock() gives back what its caller holds.
LEMMA ReleaseRefines ==
    ASSUME IInv, NEW p \in Proc, NEW l \in Locks, Unlock(p, l)
    PROVE  RW!Release(p, l)
<1> USE DEF Mode
<1>1. \A k \in Locks, n \in Mode :
         Holders(k, n)' = IF k = l THEN Holders(k, n) \ {p} ELSE Holders(k, n)
  BY UnlockHolders
<1>2. CASE writelock_value[l]
  <2>1. p \in Holders(l, "RW") /\ p \notin Holders(l, "RO")
    BY <1>2, UnlockHolders
  <2>2. \A k \in Locks : Holders(k, "RO")' = Holders(k, "RO")
    BY <1>1, <2>1
  <2>3. QED
    BY <1>1, <2>1, <2>2 DEF RW!Release
<1>3. CASE ~writelock_value[l]
  <2>1. p \in Holders(l, "RO") /\ p \notin Holders(l, "RW")
    BY <1>3, UnlockHolders
  <2>2. \A k \in Locks : Holders(k, "RW")' = Holders(k, "RW")
    BY <1>1, <2>1
  <2>3. QED
    BY <1>1, <2>1, <2>2 DEF RW!Release
<1>4. QED
  BY <1>2, <1>3

\* Every step is a step of the abstract lock or leaves it alone.
LEMMA NextRefines ==
    IInv /\ WaitsUnheld /\ [LockNext]_lockvars => [RW!AbsNext]_(RW!absVars)
<1> SUFFICES ASSUME IInv, WaitsUnheld, [LockNext]_lockvars
             PROVE  RW!AbsNext \/ UNCHANGED RW!absVars
  OBVIOUS
<1>t. LockTypeOK
  BY DEF IInv
<1>1. ASSUME NEW p \in Proc, NEW l \in Locks, NEW m \in Mode, LockAtOnce(p, l, m)
      PROVE  RW!AbsNext
  <2>1. hold[p][l] = "none"
    BY <1>t, <1>1, CallFacts DEF LockAtOnce
  <2>2. QED
    BY <1>1, <2>1, AcquireRefines DEF LockAtOnce, RW!AbsNext
<1>2. ASSUME UNCHANGED hold
      PROVE  UNCHANGED RW!absVars
  BY <1>2 DEF RW!absVars, Holders
<1>3. ASSUME NEW p \in Proc, NEW l \in Locks, NEW m \in Mode,
             LockRefused(p, l, m) \/ LockBlocks(p, l, m)
      PROVE  UNCHANGED hold
  BY <1>3 DEF LockRefused, LockBlocks
<1>4. ASSUME NEW p \in Proc, SpinAcquires(p)
      PROVE  RW!AbsNext
  <2>1. PICK w \in waiting[p] : Available(w[1], w[2]) /\ LockAndReturn(p, w[1], w[2])
    BY <1>4 DEF SpinAcquires
  <2>2. w[1] \in Locks /\ w[2] \in Mode
    BY <1>t DEF LockTypeOK
  <2>3. hold[p][w[1]] = "none"
    BY DEF WaitsUnheld
  <2>4. QED
    BY <2>1, <2>2, <2>3, AcquireRefines DEF RW!AbsNext
<1>5. ASSUME NEW p \in Proc, NEW l \in Locks, Unlock(p, l)
      PROVE  RW!AbsNext
  BY <1>5, ReleaseRefines DEF RW!AbsNext
<1>6. CASE UNCHANGED lockvars
  BY <1>2, <1>6 DEF lockvars
<1>7. CASE Finished
  BY <1>6, <1>7 DEF Finished
<1>8. QED
  BY <1>1, <1>2, <1>3, <1>4, <1>5, <1>6, <1>7 DEF LockNext

\* lock.c implements the abstract read/write lock.
THEOREM LockImplementsRWLock == LockSpec => ImplementsRWLock
<1>1. LockInit => RW!AbsInit
  <2> SUFFICES ASSUME LockInit PROVE RW!AbsInit
    OBVIOUS
  <2>1. \A l \in Locks, m \in Mode : Holders(l, m) = {}
    BY DEF LockInit, Holders, Mode
  <2>2. QED
    BY <2>1 DEF RW!AbsInit, Mode
<1>2. QED
  BY <1>1, AlwaysIInv, NextRefines, PTL DEF LockSpec, ImplementsRWLock, RW!AbsSpec

-----------------------------------------------------------------------------
(***************************************************************************)
(* Malloc.tla                                                              *)
(***************************************************************************)

\* The two kinds of blocks: n whole pages, and slot k of a page cut up.
PageBlock(f, n)    == [addr |-> PAGESIZE * f, size |-> PAGESIZE * n]
SlotBlock(i, s, k) == [addr |-> PAGESIZE * i + s * k, size |-> s]

Managed == mcbpages..(totpages - 1)

\* What the MCBs say of the pages of a block in use.
PagesHeld(f, n) ==
    /\ f..(f + n - 1) \subseteq Managed
    /\ mcb_size[f] = PAGESIZE * n \/ (n = 1 /\ mcb_size[f] = MCB_VMOBJECT_PAGE)
    /\ \A i \in (f + 1)..(f + n - 1) : mcb_size[i] = MCB_CONTINUED

SlotHeld(i, s, k) == i \in Managed /\ mcb_size[i] = s /\ k \in bitmap[i]

Typed ==
    /\ mcb_size \in [Page -> Int]
    /\ bitmap \in [Page -> SUBSET (0..(PAGESIZE - 1))]
    /\ malloc_mcbsearch_pos \in [SearchSizes -> Page]

\* Every block in use is recorded in the MCBs ..
Held(b) ==
    \/ \E f \in Page, n \in 1..totpages : b = PageBlock(f, n) /\ PagesHeld(f, n)
    \/ \E i \in Page, s \in SmallSizes :
       \E k \in Slots(s) : b = SlotBlock(i, s, k) /\ SlotHeld(i, s, k)

Located == \A b \in live : Held(b)

\* .. and what the MCBs record is in use.
ListedAt(i) ==
    /\ i \in Managed <=> mcb_size[i] \notin {MCB_RESERVED, MCB_NOTAVAILABLE}
    /\ mcb_size[i] \in SmallSizes =>
          /\ bitmap[i] # {} /\ bitmap[i] \subseteq Slots(mcb_size[i])
          /\ \A k \in bitmap[i] : SlotBlock(i, mcb_size[i], k) \in live
    /\ i \in Managed /\ mcb_size[i] \notin SmallSizes \cup {MCB_FREE} =>
          \E f \in Page, n \in 1..totpages :
              PageBlock(f, n) \in live /\ i \in f..(f + n - 1)

Listed == \A i \in Page : ListedAt(i)

\* The pages a block lies on.
Pages(b) == {a \div PAGESIZE : a \in H!Extent(b)}

Memory == (PAGESIZE * mcbpages)..(PAGESIZE * totpages - 1)
InUse  == UNION {H!Extent(b) : b \in live}

Accounted == malloc_totalfreememory = Cardinality(Memory \ InUse)

MallocInv == Typed /\ Located /\ Listed /\ Accounted

-----------------------------------------------------------------------------
\* Every set of naturals that is not empty has a least element.
LEMMA LeastNatural ==
    ASSUME NEW T \in SUBSET Nat, T # {}
    PROVE  \E m \in T : \A n \in T : m <= n
<1> DEFINE F == {S \in FiniteSubsetsOf(Nat) : \E m \in T : S = 0..m}
<1>1. IsWellFoundedOn(StrictSubsetOrdering(Nat), FiniteSubsetsOf(Nat))
  BY FS_StrictSubsetOrderingWellFounded
<1>2. \A m \in T : 0..m \in FiniteSubsetsOf(Nat)
  BY FS_Interval DEF FiniteSubsetsOf
<1>3. F # {} /\ F \subseteq FiniteSubsetsOf(Nat)
  BY <1>2
<1>4. PICK S \in F : \A U \in F : <<U, S>> \notin StrictSubsetOrdering(Nat)
  BY <1>1, <1>3, WFMin
<1>5. PICK m \in T : S = 0..m
  BY <1>4
<1>6. ASSUME NEW n \in T, n < m
      PROVE  FALSE
  <2>1. 0..n \in F
    BY <1>2
  <2>2. 0..n \subseteq 0..m /\ 0..n # 0..m /\ 0..n \subseteq Nat /\ 0..m \subseteq Nat
    <3>1. m \in 0..m /\ m \notin 0..n
      BY <1>6
    <3> QED
      BY <1>6, <3>1
  <2>3. <<0..n, 0..m>> \in StrictSubsetOrdering(Nat)
    BY <2>2 DEF StrictSubsetOrdering
  <2> QED
    BY <1>4, <1>5, <2>1, <2>3
<1> QED
  BY <1>6

\* Arithmetic.
LEMMA Monotone ==
    ASSUME NEW a \in Int, NEW b \in Int, NEW s \in Nat, a <= b
    PROVE  s * a <= s * b
OBVIOUS

\* Division by the size of a page or of a slot ..
LEMMA Divide ==
    ASSUME NEW a \in Nat, NEW p \in Nat \ {0}
    PROVE  a \div p \in Nat /\ a % p \in 0..(p - 1) /\ a = p * (a \div p) + (a % p)
<1>1. a % p \in 0..(p - 1) /\ a \div p \in Int /\ a = p * (a \div p) + (a % p)
  OBVIOUS
<1>2. a \div p >= 0
  <2>1. SUFFICES ASSUME a \div p <= -1 PROVE FALSE
    BY <1>1
  <2>2. p * (a \div p) <= p * (-1)
    BY <1>1, <2>1, Monotone
  <2> QED
    BY <1>1, <2>2
<1> QED
  BY <1>1, <1>2

\* .. has one quotient and one rest.
LEMMA DivideIs ==
    ASSUME NEW p \in Nat \ {0}, NEW q \in Nat, NEW r \in 0..(p - 1), NEW a, a = p * q + r
    PROVE  a \in Nat /\ a \div p = q /\ a % p = r
<1>1. a \in Nat
  OBVIOUS
<1>2. PICK u \in Nat, v \in 0..(p - 1) : u = a \div p /\ v = a % p /\ a = p * u + v
  BY <1>1, Divide
<1>3. CASE q < u
  <2>1. p * (q + 1) <= p * u
    BY <1>3, Monotone
  <2>2. p * (q + 1) = p * q + p
    OBVIOUS
  <2> QED
    BY <1>2, <2>1, <2>2
<1>4. CASE u < q
  <2>1. p * (u + 1) <= p * q
    BY <1>4, Monotone
  <2>2. p * (u + 1) = p * u + p
    OBVIOUS
  <2> QED
    BY <1>2, <2>1, <2>2
<1> QED
  BY <1>1, <1>2, <1>3, <1>4

\* A slot of a page ends within the page.
LEMMA SlotWithin ==
    ASSUME NEW s \in SmallSizes, NEW k \in Slots(s), NEW x \in 0..(s - 1)
    PROVE  s \in Nat \ {0} /\ s < PAGESIZE /\ k \in Nat /\ s * k + x \in 0..(PAGESIZE - 1)
<1>1. s \in Nat \ {0} /\ s < PAGESIZE /\ PAGESIZE \in Nat
  BY SizesOK
<1>6. PAGESIZE % s = 0
  BY SizesOK
<1>7. PICK m \in Nat, r \in 0..(s - 1) : m = PAGESIZE \div s /\ r = PAGESIZE % s /\ PAGESIZE = s * m + r
  BY <1>1, Divide
<1>2. m = PAGESIZE \div s /\ PAGESIZE = s * m
  BY <1>1, <1>6, <1>7
<1>3. k \in Nat /\ k + 1 <= m
  BY <1>2 DEF Slots
<1>4. s * (k + 1) <= s * m
  BY <1>1, <1>2, <1>3, Monotone
<1>5. s * (k + 1) = s * k + s /\ s * k \in Nat
  BY <1>1, <1>3
<1> QED
  BY <1>1, <1>2, <1>3, <1>4, <1>5

\* The addresses of a block tell the pages and the slot it takes.
LEMMA PageBlockExtent ==
    ASSUME NEW f \in Nat, NEW n \in Nat \ {0}
    PROVE  /\ PageBlock(f, n).addr \in Nat /\ PageBlock(f, n).size \in Nat
           /\ PageBlock(f, n).size >= PAGESIZE
           /\ PageBlock(f, n).addr \div PAGESIZE = f
           /\ PageBlock(f, n).size \div PAGESIZE = n
           /\ \A a : a \in H!Extent(PageBlock(f, n))
                       <=> a \in Nat /\ a \div PAGESIZE \in f..(f + n - 1)
<1>1. PAGESIZE \in Nat \ {0}
  BY SizesOK
<1>2. PICK u, v : u = PAGESIZE * f /\ v = PAGESIZE * n
  OBVIOUS
<1>3. PageBlock(f, n) = [addr |-> u, size |-> v]
  BY <1>2 DEF PageBlock
<1>4. u \in Nat /\ v \in Nat
  BY <1>1, <1>2
<1>5. v >= PAGESIZE
  BY <1>1, <1>2, Monotone
<1>6. u \div PAGESIZE = f /\ v \div PAGESIZE = n
  <2>1. u = PAGESIZE * f + 0 /\ v = PAGESIZE * n + 0 /\ 0 \in 0..(PAGESIZE - 1)
    BY <1>1, <1>2, <1>4
  <2> QED
    BY <1>1, <2>1, DivideIs
<1>7. ASSUME NEW a \in u..(u + v - 1)
      PROVE  a \in Nat /\ a \div PAGESIZE \in f..(f + n - 1)
  <2>1. a \in Nat
    BY <1>4
  <2>2. PICK q \in Nat, r \in 0..(PAGESIZE - 1) :
           q = a \div PAGESIZE /\ a = PAGESIZE * q + r
    BY <1>1, <2>1, Divide
  <2>3. ~(q < f)
    <3>1. SUFFICES ASSUME q + 1 <= f PROVE FALSE
      OBVIOUS
    <3>2. PAGESIZE * (q + 1) <= u
      BY <1>1, <1>2, <3>1, Monotone
    <3>3. PAGESIZE * (q + 1) = PAGESIZE * q + PAGESIZE
      BY <1>1
    <3> QED
      BY <1>1, <1>4, <2>2, <3>2, <3>3
  <2>4. ~(f + n <= q)
    <3>1. SUFFICES ASSUME f + n <= q PROVE FALSE
      OBVIOUS
    <3>2. PAGESIZE * (f + n) <= PAGESIZE * q
      BY <1>1, <3>1, Monotone
    <3>3. PAGESIZE * (f + n) = u + v
      BY <1>1, <1>2
    <3> QED
      BY <1>1, <1>4, <2>2, <3>2, <3>3
  <2> QED
    BY <2>1, <2>2, <2>3, <2>4
<1>8. ASSUME NEW a \in Nat, a \div PAGESIZE \in f..(f + n - 1)
      PROVE  a \in u..(u + v - 1)
  <2>1. PICK q \in Nat, r \in 0..(PAGESIZE - 1) :
           q = a \div PAGESIZE /\ a = PAGESIZE * q + r
    BY <1>1, Divide
  <2>2. f <= q /\ q + 1 <= f + n
    BY <1>8, <2>1
  <2>3. u <= PAGESIZE * q /\ PAGESIZE * (q + 1) <= PAGESIZE * (f + n)
    BY <1>1, <1>2, <2>2, Monotone
  <2>4. PAGESIZE * (q + 1) = PAGESIZE * q + PAGESIZE /\ PAGESIZE * (f + n) = u + v
    BY <1>1, <1>2
  <2> QED
    BY <1>1, <1>4, <2>1, <2>3, <2>4
<1>9. H!Extent(PageBlock(f, n)) = u..(u + v - 1)
  BY <1>3 DEF H!Extent
<1> QED
  BY <1>3, <1>4, <1>5, <1>6, <1>7, <1>8, <1>9

\* A slot lies in its page, and each of its addresses is of that slot.
LEMMA SlotBlockExtent ==
    ASSUME NEW i \in Nat, NEW s \in SmallSizes, NEW k \in Slots(s)
    PROVE  /\ SlotBlock(i, s, k).addr \in Nat /\ SlotBlock(i, s, k).size = s
           /\ SlotBlock(i, s, k).addr \div PAGESIZE = i
           /\ SlotOf(SlotBlock(i, s, k).addr, s) = k
           /\ SlotBlock(i, s, k).addr \in H!Extent(SlotBlock(i, s, k))
           /\ \A a \in H!Extent(SlotBlock(i, s, k)) :
                 a \in Nat /\ a \div PAGESIZE = i /\ SlotOf(a, s) = k
<1>1. PAGESIZE \in Nat \ {0} /\ s \in Nat \ {0} /\ k \in Nat
  BY SizesOK DEF Slots
<1>2. PICK u : u = PAGESIZE * i + s * k
  OBVIOUS
<1>3. u \in Nat
  BY <1>1, <1>2
<1>4. SlotBlock(i, s, k) = [addr |-> u, size |-> s]
  BY <1>2 DEF SlotBlock
<1>5. ASSUME NEW a \in u..(u + s - 1)
      PROVE  a \in Nat /\ a \div PAGESIZE = i /\ SlotOf(a, s) = k
  <2>1. PICK x \in 0..(s - 1) : a = u + x
    <3>1. a - u \in 0..(s - 1) /\ a = u + (a - u)
      BY <1>1, <1>3
    <3> QED
      BY <3>1
  <2>2. PICK r \in 0..(PAGESIZE - 1) : r = s * k + x
    BY <2>1, SlotWithin
  <2>3. a = PAGESIZE * i + r
    BY <1>1, <1>2, <2>1, <2>2
  <2>4. a \in Nat /\ a \div PAGESIZE = i /\ a % PAGESIZE = r
    BY <1>1, <2>3, DivideIs
  <2>5. r \div s = k
    BY <1>1, <2>1, <2>2, DivideIs
  <2> QED
    BY <2>4, <2>5 DEF SlotOf
<1>6. H!Extent(SlotBlock(i, s, k)) = u..(u + s - 1) /\ u \in u..(u + s - 1)
  BY <1>1, <1>3, <1>4 DEF H!Extent
<1>7. SlotBlock(i, s, k).addr = u /\ SlotBlock(i, s, k).size = s
  BY <1>4
<1>8. u \div PAGESIZE = i /\ SlotOf(u, s) = k
  BY <1>5, <1>6
<1> QED
  BY <1>3, <1>5, <1>6, <1>7, <1>8

\* So a block is known by its pages, or by its page, its size and its slot.
LEMMA BlocksDiffer ==
    /\ \A f, g \in Nat, n, m \in Nat \ {0} : PageBlock(f, n) = PageBlock(g, m) => f = g /\ n = m
    /\ \A i, j \in Nat, s, t \in SmallSizes : \A k \in Slots(s), l \in Slots(t) :
          SlotBlock(i, s, k) = SlotBlock(j, t, l) => i = j /\ s = t /\ k = l
    /\ \A f, i \in Nat, n \in Nat \ {0}, s \in SmallSizes : \A k \in Slots(s) :
          PageBlock(f, n) # SlotBlock(i, s, k)
<1>1. ASSUME NEW f \in Nat, NEW g \in Nat, NEW n \in Nat \ {0}, NEW m \in Nat \ {0},
             PageBlock(f, n) = PageBlock(g, m)
      PROVE  f = g /\ n = m
  <2>1. PageBlock(f, n).addr \div PAGESIZE = f /\ PageBlock(f, n).size \div PAGESIZE = n
    BY PageBlockExtent
  <2>2. PageBlock(g, m).addr \div PAGESIZE = g /\ PageBlock(g, m).size \div PAGESIZE = m
    BY PageBlockExtent
  <2> QED
    BY <1>1, <2>1, <2>2
<1>2. ASSUME NEW i \in Nat, NEW j \in Nat, NEW s \in SmallSizes, NEW t \in SmallSizes,
             NEW k \in Slots(s), NEW l \in Slots(t), SlotBlock(i, s, k) = SlotBlock(j, t, l)
      PROVE  i = j /\ s = t /\ k = l
  <2>1. /\ SlotBlock(i, s, k).addr \div PAGESIZE = i /\ SlotBlock(i, s, k).size = s
        /\ SlotOf(SlotBlock(i, s, k).addr, s) = k
    BY SlotBlockExtent
  <2>2. /\ SlotBlock(j, t, l).addr \div PAGESIZE = j /\ SlotBlock(j, t, l).size = t
        /\ SlotOf(SlotBlock(j, t, l).addr, t) = l
    BY SlotBlockExtent
  <2> QED
    BY <1>2, <2>1, <2>2
<1>3. ASSUME NEW f \in Nat, NEW i \in Nat, NEW n \in Nat \ {0}, NEW s \in SmallSizes,
             NEW k \in Slots(s)
      PROVE  PageBlock(f, n) # SlotBlock(i, s, k)
  <2>1. PageBlock(f, n).size >= PAGESIZE
    BY PageBlockExtent
  <2>2. SlotBlock(i, s, k).size = s
    BY SlotBlockExtent
  <2>3. s \in Nat /\ s < PAGESIZE /\ PAGESIZE \in Nat
    BY SizesOK
  <2> QED
    BY <2>1, <2>2, <2>3
<1> QED
  BY <1>1, <1>2, <1>3

-----------------------------------------------------------------------------
\* The pages a block lies on.
LEMMA PagesOf ==
    /\ \A f \in Nat, n \in Nat \ {0} : Pages(PageBlock(f, n)) = f..(f + n - 1)
    /\ \A i \in Nat, s \in SmallSizes : \A k \in Slots(s) : Pages(SlotBlock(i, s, k)) = {i}
<1>1. ASSUME NEW f \in Nat, NEW n \in Nat \ {0}
      PROVE  Pages(PageBlock(f, n)) = f..(f + n - 1)
  <2>1. Pages(PageBlock(f, n)) \subseteq f..(f + n - 1)
    BY PageBlockExtent DEF Pages
  <2>2. ASSUME NEW i \in f..(f + n - 1) PROVE i \in Pages(PageBlock(f, n))
    <3>1. PICK a : a = PAGESIZE * i + 0
      OBVIOUS
    <3>2. a \in Nat /\ a \div PAGESIZE = i
      <4>1. i \in Nat /\ PAGESIZE \in Nat \ {0} /\ 0 \in 0..(PAGESIZE - 1)
        BY SizesOK
      <4> QED
        BY <3>1, <4>1, DivideIs
    <3>3. a \in H!Extent(PageBlock(f, n))
      BY <3>2, PageBlockExtent
    <3> QED
      BY <3>2, <3>3 DEF Pages
  <2> QED
    BY <2>1, <2>2
<1>2. ASSUME NEW i \in Nat, NEW s \in SmallSizes, NEW k \in Slots(s)
      PROVE  Pages(SlotBlock(i, s, k)) = {i}
  BY SlotBlockExtent DEF Pages
<1> QED
  BY <1>1, <1>2

\* What the assumptions say of pages and sizes.
LEMMA Constants ==
    /\ PAGESIZE \in Nat \ {0} /\ SmallSizes \subseteq 1..(PAGESIZE - 1)
    /\ Managed \subseteq Page /\ Page \subseteq Nat
    /\ mcbpages \in Nat \ {0} /\ totpages \in Nat /\ mcbpages < totpages
    /\ \A n \in 1..totpages : n \in Nat \ {0}
BY SizesOK, PagesOK DEF Managed, Page

\* The sizes MCBs hold for pages in use.
LEMMA PagesHeldSizes ==
    ASSUME NEW f \in Page, NEW n \in 1..totpages, PagesHeld(f, n), NEW i \in f..(f + n - 1)
    PROVE  /\ i \in Managed
           /\ i = f => mcb_size[i] \in {PAGESIZE * n, MCB_VMOBJECT_PAGE}
           /\ i # f => mcb_size[i] = MCB_CONTINUED
           /\ mcb_size[i] \notin {MCB_FREE, MCB_RESERVED, MCB_NOTAVAILABLE} \cup SmallSizes
<1>1. f \in Nat /\ n \in Nat \ {0} /\ i \in Nat /\ PAGESIZE \in Nat \ {0}
      /\ SmallSizes \subseteq 1..(PAGESIZE - 1)
  BY Constants
<1>2. i \in Managed
  BY DEF PagesHeld
<1>3. i = f => mcb_size[i] \in {PAGESIZE * n, MCB_VMOBJECT_PAGE}
  BY DEF PagesHeld
<1>4. i # f => mcb_size[i] = MCB_CONTINUED
  <2>1. SUFFICES ASSUME i # f PROVE i \in (f + 1)..(f + n - 1)
    BY DEF PagesHeld
  <2> QED
    BY <1>1, <2>1
<1>5. PICK v : v = PAGESIZE * n
  OBVIOUS
<1>6. v \in Nat /\ v >= PAGESIZE
  BY <1>1, <1>5, Monotone
<1>7. {v, MCB_VMOBJECT_PAGE, MCB_CONTINUED}
        \cap ({MCB_FREE, MCB_RESERVED, MCB_NOTAVAILABLE} \cup SmallSizes) = {}
  BY <1>1, <1>6
     DEF MCB_FREE, MCB_RESERVED, MCB_NOTAVAILABLE, MCB_VMOBJECT_PAGE, MCB_CONTINUED
<1> QED
  BY <1>2, <1>3, <1>4, <1>5, <1>7

\* The pages of a block in use are neither free nor out of reach.
LEMMA HeldPages ==
    ASSUME NEW b, Held(b), NEW i \in Pages(b)
    PROVE  /\ i \in Managed
           /\ mcb_size[i] \notin {MCB_FREE, MCB_RESERVED, MCB_NOTAVAILABLE}
<1>1. CASE \E f \in Page, n \in 1..totpages : b = PageBlock(f, n) /\ PagesHeld(f, n)
  <2>1. PICK f \in Page, n \in 1..totpages : b = PageBlock(f, n) /\ PagesHeld(f, n)
    BY <1>1
  <2>2. i \in f..(f + n - 1)
    BY <2>1, Constants, PagesOf
  <2> QED
    BY <2>1, <2>2, PagesHeldSizes
<1>2. CASE \E j \in Page, s \in SmallSizes :
           \E k \in Slots(s) : b = SlotBlock(j, s, k) /\ SlotHeld(j, s, k)
  <2>1. PICK j \in Page, s \in SmallSizes :
             \E k \in Slots(s) : b = SlotBlock(j, s, k) /\ SlotHeld(j, s, k)
    BY <1>2
  <2>2. i = j
    BY <2>1, Constants, PagesOf
  <2>3. i \in Managed /\ mcb_size[i] = s
    BY <2>1, <2>2 DEF SlotHeld
  <2>4. s \notin {MCB_FREE, MCB_RESERVED, MCB_NOTAVAILABLE}
    BY Constants DEF MCB_FREE, MCB_RESERVED, MCB_NOTAVAILABLE
  <2> QED
    BY <2>3, <2>4
<1> QED
  BY <1>1, <1>2 DEF Held

\* Two blocks on one page are slots of it.
LEMMA HeldTogether ==
    ASSUME NEW b, NEW c, Held(b), Held(c), b # c, NEW i, i \in Pages(b), i \in Pages(c)
    PROVE  \E s \in SmallSizes : \E k, l \in Slots(s) :
              /\ k # l /\ b = SlotBlock(i, s, k) /\ c = SlotBlock(i, s, l)
              /\ i \in Page /\ SlotHeld(i, s, k) /\ SlotHeld(i, s, l)
<1> DEFINE Whole(x) == \E f \in Page, n \in 1..totpages :
                          x = PageBlock(f, n) /\ PagesHeld(f, n)
           Cut(x) == \E j \in Page, s \in SmallSizes :
                     \E k \in Slots(s) : x = SlotBlock(j, s, k) /\ SlotHeld(j, s, k)
<1>1. /\ Whole(b) \/ Cut(b)
      /\ Whole(c) \/ Cut(c)
  BY DEF Held
<1>2. ASSUME NEW x, Whole(x), i \in Pages(x) PROVE mcb_size[i] \notin SmallSizes
  <2>1. PICK f \in Page, n \in 1..totpages : x = PageBlock(f, n) /\ PagesHeld(f, n)
    BY <1>2
  <2>2. i \in f..(f + n - 1)
    BY <1>2, <2>1, Constants, PagesOf
  <2> QED
    BY <2>1, <2>2, PagesHeldSizes
<1>3. ASSUME NEW x, Cut(x), i \in Pages(x)
      PROVE  /\ i \in Page /\ mcb_size[i] \in SmallSizes
             /\ \E k \in Slots(mcb_size[i]) :
                   x = SlotBlock(i, mcb_size[i], k) /\ SlotHeld(i, mcb_size[i], k)
  <2>1. PICK j \in Page, s \in SmallSizes :
             \E k \in Slots(s) : x = SlotBlock(j, s, k) /\ SlotHeld(j, s, k)
    BY <1>3
  <2>2. i = j
    BY <1>3, <2>1, Constants, PagesOf
  <2>3. mcb_size[i] = s
    BY <2>1, <2>2 DEF SlotHeld
  <2> QED
    BY <2>1, <2>2, <2>3
<1>4. CASE Whole(b) /\ Whole(c)
  <2>1. PICK f \in Page, n \in 1..totpages : b = PageBlock(f, n) /\ PagesHeld(f, n)
    BY <1>4
  <2>2. PICK g \in Page, m \in 1..totpages : c = PageBlock(g, m) /\ PagesHeld(g, m)
    BY <1>4
  <2>3. i \in f..(f + n - 1) /\ i \in g..(g + m - 1)
    BY <2>1, <2>2, Constants, PagesOf
  <2>4. f \in Nat /\ g \in Nat /\ n \in Nat \ {0} /\ m \in Nat \ {0} /\ i \in Nat
    BY <2>3, Constants
  <2>5. f \in f..(f + n - 1) /\ g \in g..(g + m - 1)
    BY <2>4
  <2>6. mcb_size[f] # MCB_CONTINUED /\ mcb_size[g] # MCB_CONTINUED
    <3>1. PICK u, v : u = PAGESIZE * n /\ v = PAGESIZE * m
      OBVIOUS
    <3>2. u \in Nat /\ v \in Nat
      BY <2>4, <3>1, Constants
    <3>3. mcb_size[f] \in {u, MCB_VMOBJECT_PAGE} /\ mcb_size[g] \in {v, MCB_VMOBJECT_PAGE}
      BY <2>1, <2>2, <2>5, <3>1, PagesHeldSizes
    <3> QED
      BY <3>2, <3>3 DEF MCB_VMOBJECT_PAGE, MCB_CONTINUED
  <2>7. f = g
    <3>1. CASE f < g
      <4>1. g \in f..(f + n - 1)
        BY <2>3, <2>4, <3>1
      <4> QED
        BY <2>1, <2>4, <2>6, <3>1, <4>1, PagesHeldSizes
    <3>2. CASE g < f
      <4>1. f \in g..(g + m - 1)
        BY <2>3, <2>4, <3>2
      <4> QED
        BY <2>2, <2>4, <2>6, <3>2, <4>1, PagesHeldSizes
    <3> QED
      BY <2>4, <3>1, <3>2
  <2>8. n = m
    <3>1. PICK u, v : u = PAGESIZE * n /\ v = PAGESIZE * m
      OBVIOUS
    <3>2. u \in Nat /\ v \in Nat
      BY <2>4, <3>1, Constants
    <3>3. /\ mcb_size[f] = u \/ (n = 1 /\ mcb_size[f] = MCB_VMOBJECT_PAGE)
          /\ mcb_size[f] = v \/ (m = 1 /\ mcb_size[f] = MCB_VMOBJECT_PAGE)
      BY <2>1, <2>2, <2>7, <3>1 DEF PagesHeld
    <3>4. u = v \/ n = m
      BY <3>2, <3>3 DEF MCB_VMOBJECT_PAGE
    <3>5. u = v => n = m
      <4>1. PageBlock(f, n).size = u /\ PageBlock(f, m).size = v
        BY <3>1 DEF PageBlock
      <4> QED
        BY <2>4, <4>1, PageBlockExtent
    <3> QED
      BY <3>4, <3>5
  <2> QED
    BY <2>1, <2>2, <2>7, <2>8
<1>5. CASE Cut(b) /\ Cut(c)
  <2>1. PICK k \in Slots(mcb_size[i]) :
           b = SlotBlock(i, mcb_size[i], k) /\ SlotHeld(i, mcb_size[i], k)
    BY <1>3, <1>5
  <2>2. PICK l \in Slots(mcb_size[i]) :
           c = SlotBlock(i, mcb_size[i], l) /\ SlotHeld(i, mcb_size[i], l)
    BY <1>3, <1>5
  <2>3. mcb_size[i] \in SmallSizes /\ i \in Page
    BY <1>3, <1>5
  <2> QED
    BY <2>1, <2>2, <2>3
<1>6. CASE Whole(b) /\ Cut(c)
  <2>1. mcb_size[i] \notin SmallSizes
    BY <1>2, <1>6
  <2>2. mcb_size[i] \in SmallSizes
    BY <1>3, <1>6
  <2> QED
    BY <2>1, <2>2
<1>7. CASE Cut(b) /\ Whole(c)
  <2>1. mcb_size[i] \notin SmallSizes
    BY <1>2, <1>7
  <2>2. mcb_size[i] \in SmallSizes
    BY <1>3, <1>7
  <2> QED
    BY <2>1, <2>2
<1> QED
  BY <1>1, <1>4, <1>5, <1>6, <1>7

\* No two blocks share an address.
LEMMA HeldApart ==
    ASSUME NEW b, NEW c, Held(b), Held(c), b # c
    PROVE  H!Extent(b) \cap H!Extent(c) = {}
<1>1. SUFFICES ASSUME NEW a \in H!Extent(b), a \in H!Extent(c) PROVE FALSE
  OBVIOUS
<1>2. PICK i : i = a \div PAGESIZE
  OBVIOUS
<1>3. i \in Pages(b) /\ i \in Pages(c)
  BY <1>1, <1>2 DEF Pages
<1>4. PICK s \in SmallSizes : \E k, l \in Slots(s) :
         k # l /\ b = SlotBlock(i, s, k) /\ c = SlotBlock(i, s, l) /\ i \in Page
  BY <1>3, HeldTogether
<1>5. PICK k, l \in Slots(s) :
         k # l /\ b = SlotBlock(i, s, k) /\ c = SlotBlock(i, s, l) /\ i \in Page
  BY <1>4
<1>6. i \in Nat
  BY <1>5, Constants
<1>7. SlotOf(a, s) = k
  BY <1>1, <1>5, <1>6, SlotBlockExtent
<1>8. SlotOf(a, s) = l
  BY <1>1, <1>5, <1>6, SlotBlockExtent
<1> QED
  BY <1>5, <1>7, <1>8

\* A block on none of the pages whose MCBs a step writes to stays as it is.
LEMMA HeldKept ==
    ASSUME NEW b, Held(b), NEW X, Pages(b) \cap X = {},
           \A i \in Page \ X : mcb_size'[i] = mcb_size[i] /\ bitmap'[i] = bitmap[i]
    PROVE  Held(b)'
<1>1. CASE \E f \in Page, n \in 1..totpages : b = PageBlock(f, n) /\ PagesHeld(f, n)
  <2>1. PICK f \in Page, n \in 1..totpages : b = PageBlock(f, n) /\ PagesHeld(f, n)
    BY <1>1
  <2>2. Pages(b) = f..(f + n - 1) /\ f \in Nat /\ n \in Nat \ {0}
    BY <2>1, Constants, PagesOf
  <2>3. \A i \in f..(f + n - 1) : mcb_size'[i] = mcb_size[i]
    <3>1. f..(f + n - 1) \subseteq Page
      BY <2>1, Constants DEF PagesHeld
    <3> QED
      BY <2>2, <3>1
  <2>4. f \in f..(f + n - 1) /\ (f + 1)..(f + n - 1) \subseteq f..(f + n - 1)
    BY <2>2
  <2>5. PagesHeld(f, n)'
    BY <2>1, <2>3, <2>4 DEF PagesHeld, Managed
  <2> QED
    BY <2>1, <2>5 DEF Held, PageBlock
<1>2. CASE \E i \in Page, s \in SmallSizes :
           \E k \in Slots(s) : b = SlotBlock(i, s, k) /\ SlotHeld(i, s, k)
  <2>1. PICK i \in Page, s \in SmallSizes :
             \E k \in Slots(s) : b = SlotBlock(i, s, k) /\ SlotHeld(i, s, k)
    BY <1>2
  <2>2. PICK k \in Slots(s) : b = SlotBlock(i, s, k) /\ SlotHeld(i, s, k)
    BY <2>1
  <2>3. i \in Pages(b)
    <3>1. i \in Nat
      BY Constants
    <3>2. Pages(SlotBlock(i, s, k)) = {i}
      BY <3>1, PagesOf
    <3> QED
      BY <2>2, <3>2
  <2>4. SlotHeld(i, s, k)'
    BY <2>2, <2>3 DEF SlotHeld, Managed
  <2>5. \E l \in Slots(s) : b = SlotBlock(i, s, l) /\ SlotHeld(i, s, l)'
    BY <2>2, <2>4
  <2> QED
    BY <2>5 DEF Held
<1> QED
  BY <1>1, <1>2 DEF Held

-----------------------------------------------------------------------------
\* The addresses malloc() manages are those of the managed pages.
LEMMA MemoryIs ==
    /\ \A a : a \in Memory <=> a \in Nat /\ a \div PAGESIZE \in Managed
    /\ IsFiniteSet(Memory) /\ Cardinality(Memory) = PAGESIZE * (totpages - mcbpages)
<1>1. PICK n : n = totpages - mcbpages
  OBVIOUS
<1>2. n \in Nat \ {0} /\ mcbpages \in Nat /\ PAGESIZE \in Nat \ {0} /\ mcbpages + n = totpages
  BY <1>1, Constants
<1>3. PICK u, v, w : u = PAGESIZE * mcbpages /\ v = PAGESIZE * n /\ w = PAGESIZE * totpages
  OBVIOUS
<1>4. u \in Nat /\ v \in Nat /\ w = u + v
  BY <1>2, <1>3
<1>5. v > 0
  BY <1>2, <1>3, Monotone
<1>6. Memory = u..(u + v - 1)
  BY <1>3, <1>4 DEF Memory
<1>7. Memory = H!Extent(PageBlock(mcbpages, n))
  BY <1>3, <1>6 DEF H!Extent, PageBlock
<1>8. Managed = mcbpages..(mcbpages + n - 1)
  BY <1>2 DEF Managed
<1>9. IsFiniteSet(Memory) /\ Cardinality(Memory) = v
  BY <1>4, <1>5, <1>6, FS_Interval
<1> QED
  BY <1>1, <1>2, <1>3, <1>7, <1>8, <1>9, PageBlockExtent

\* The abstract heap counts as Malloc does.
LEMMA HeapCounts == \A S : H!Cardinality(S) = Cardinality(S)
BY DEF H!Cardinality, Cardinality

\* The number of pages in a run.
LEMMA IntervalCount ==
    ASSUME NEW u \in Nat, NEW v \in Nat \ {0}
    PROVE  IsFiniteSet(u..(u + v - 1)) /\ Cardinality(u..(u + v - 1)) = v
<1>1. PICK w \in Int : w = u + v - 1
  OBVIOUS
<1>2. IsFiniteSet(u..w) /\ Cardinality(u..w) = IF u > w THEN 0 ELSE w - u + 1
  BY FS_Interval
<1> QED
  BY <1>1, <1>2

\* Two sets apart are counted each by itself.
LEMMA ApartCount ==
    ASSUME NEW S, NEW T, IsFiniteSet(S), IsFiniteSet(T), S \cap T = {}
    PROVE  Cardinality(S \cup T) = Cardinality(S) + Cardinality(T)
<1>1. Cardinality(S \cup T) = Cardinality(S) + Cardinality(T) - Cardinality(S \cap T)
  BY FS_Union
<1>2. Cardinality(S \cap T) = 0 /\ Cardinality(S) \in Nat /\ Cardinality(T) \in Nat
  BY FS_EmptySet, FS_CardinalityType
<1> QED
  BY <1>1, <1>2

\* What malloc() hands out where nothing is in use is a step of Heap, and counted.
LEMMA TakeStep ==
    ASSUME Accounted, NEW addr \in Nat, NEW size \in Nat \ {0},
           NEW b, b = [addr |-> addr, size |-> size], Pages(b) \subseteq Managed,
           \A c \in live : H!Extent(c) \cap H!Extent(b) = {},
           live' = live \cup {b},
           malloc_totalfreememory' = malloc_totalfreememory - size
    PROVE  Accounted' /\ H!Next
<1> DEFINE E == H!Extent(b)
           F == Memory \ InUse
<1>1. E = addr..(addr + size - 1)
  BY DEF H!Extent
<1>2. IsFiniteSet(E) /\ Cardinality(E) = size /\ addr \in E
  BY <1>1, FS_Interval
<1>3. E \subseteq Memory
  <2>1. SUFFICES ASSUME NEW a \in E PROVE a \in Memory
    OBVIOUS
  <2>2. a \in Nat
    BY <1>1
  <2>3. a \div PAGESIZE \in Managed
    BY DEF Pages
  <2> QED
    BY <2>2, <2>3, MemoryIs
<1>4. E \cap InUse = {}
  BY DEF InUse
<1>5. InUse' = InUse \cup E
  BY DEF InUse
<1>6. IsFiniteSet(F) /\ Cardinality(F) \in Nat
  BY MemoryIs, FS_Subset, FS_CardinalityType
<1>7. Memory \ InUse' = F \ E /\ F \cap E = E
  BY <1>3, <1>4, <1>5
<1>8. Cardinality(F \ E) = Cardinality(F) - Cardinality(F \cap E)
  BY <1>6, FS_Difference
<1>9. Accounted'
  BY <1>2, <1>7, <1>8 DEF Accounted, Memory
<1>10. size \in 1..Cardinality(Memory)
  <2>1. Cardinality(E) <= Cardinality(Memory) /\ Cardinality(Memory) \in Nat
    BY <1>3, MemoryIs, FS_Subset, FS_CardinalityType
  <2> QED
    BY <1>2, <2>1
<1>11. H!Malloc
  <2>1. \E x \in Memory, z \in 1..Cardinality(Memory) :
           /\ H!Extent([addr |-> x, size |-> z]) \subseteq Memory
           /\ \A c \in live : H!Extent(c) \cap H!Extent([addr |-> x, size |-> z]) = {}
           /\ live' = live \cup {[addr |-> x, size |-> z]}
           /\ malloc_totalfreememory' = malloc_totalfreememory - z
    <3>1. addr \in Memory
      BY <1>2, <1>3
    <3> QED
      BY <1>3, <1>10, <3>1
  <2> QED
    BY <2>1, HeapCounts DEF H!Malloc, Memory
<1> QED
  BY <1>9, <1>11 DEF H!Next

\* The same for what free() takes back.
LEMMA GiveStep ==
    ASSUME Accounted, Located, NEW b \in live, b.addr \in Nat, b.size \in Nat \ {0},
           live' = live \ {b},
           malloc_totalfreememory' = malloc_totalfreememory + b.size
    PROVE  Accounted' /\ H!Next
<1> DEFINE E == H!Extent(b)
           F == Memory \ InUse
<1>0. Accounted => malloc_totalfreememory = Cardinality(F)
  BY DEF Accounted
<1>1. E = b.addr..(b.addr + b.size - 1)
  BY DEF H!Extent
<1>2. IsFiniteSet(E) /\ Cardinality(E) = b.size
  <2>1. PICK u \in Nat, v \in Nat \ {0} : u = b.addr /\ v = b.size
    OBVIOUS
  <2>2. E = u..(u + v - 1)
    BY <1>1, <2>1
  <2> QED
    BY <2>1, <2>2, IntervalCount
<1>3. E \subseteq Memory
  <2>1. SUFFICES ASSUME NEW a \in E PROVE a \in Memory
    OBVIOUS
  <2>2. a \in Nat
    BY <1>1
  <2>3. a \div PAGESIZE \in Managed
    BY HeldPages DEF Pages, Located
  <2> QED
    BY <2>2, <2>3, MemoryIs
<1>4. \A c \in live \ {b} : H!Extent(c) \cap E = {}
  BY HeldApart DEF Located
<1>5. InUse' = InUse \ E
  BY <1>4 DEF InUse
<1>6. E \cap F = {}
  BY DEF InUse
<1>7. IsFiniteSet(F) /\ Cardinality(F) \in Nat
  BY MemoryIs, FS_Subset, FS_CardinalityType
<1>8. Memory \ InUse' = F \cup E
  BY <1>3, <1>5
<1> HIDE DEF E, F
<1>9. Cardinality(F \cup E) = Cardinality(F) + Cardinality(E)
  BY <1>2, <1>6, <1>7, ApartCount
<1>10. Cardinality(Memory \ InUse') = Cardinality(F) + b.size
  BY <1>2, <1>8, <1>9
<1>11. Accounted'
  BY <1>0, <1>10 DEF Accounted, Memory
<1>12. H!Free
  BY DEF H!Free
<1> QED
  BY <1>11, <1>12 DEF H!Next

-----------------------------------------------------------------------------
\* A block is small, or whole pages.
LEMMA BlockSizeIs ==
    ASSUME NEW len \in Lengths
    PROVE  BlockSize(len) \in SmallSizes \/ \E n \in Nat \ {0} : BlockSize(len) = PAGESIZE * n
<1>1. len \in Nat \ {0} /\ PAGESIZE \in Nat \ {0}
  BY RequestsOK, Constants
<1>2. CASE len >= 2 * PAGESIZE
  <2>1. PICK a : a = len + PAGESIZE - 1
    OBVIOUS
  <2>2. a \in Nat /\ a >= PAGESIZE
    BY <1>1, <2>1
  <2>6. /\ a \div PAGESIZE \in Nat /\ a % PAGESIZE \in 0..(PAGESIZE - 1)
        /\ a = PAGESIZE * (a \div PAGESIZE) + (a % PAGESIZE)
    BY <1>1, <2>2, Divide
  <2>3. PICK q \in Nat, r \in 0..(PAGESIZE - 1) : q = a \div PAGESIZE /\ a = PAGESIZE * q + r
    BY <2>6
  <2>4. q # 0
    BY <1>1, <2>2, <2>3
  <2>5. BlockSize(len) = PAGESIZE * q
    BY <1>2, <2>1, <2>3 DEF BlockSize, RoundedUp
  <2> QED
    BY <2>4, <2>5
<1>3. CASE ~(len >= 2 * PAGESIZE)
  <2> DEFINE S == {s \in SmallSizes \cup {PAGESIZE, 2 * PAGESIZE} : s >= len}
  <2>6. PICK d \in Nat : d = 2 * PAGESIZE /\ d >= len
    BY <1>1, <1>3
  <2>7. SmallSizes \subseteq Nat
    BY Constants
  <2>1. S \subseteq Nat /\ 2 * PAGESIZE \in S
    BY <1>1, <2>6, <2>7
  <2>2. \E m \in S : \A n \in S : m <= n
    BY <2>1, LeastNatural
  <2>3. Min(S) \in S
    BY <2>2 DEF Min
  <2>4. BlockSize(len) = Min(S)
    BY <1>3 DEF BlockSize
  <2>5. PAGESIZE = PAGESIZE * 1 /\ 2 * PAGESIZE = PAGESIZE * 2
    BY <1>1
  <2> QED
    BY <2>3, <2>4, <2>5
<1> QED
  BY <1>2, <1>3

\* The scan finds a run of free pages, or none.
LEMMA RunsFoundAreFree ==
    ASSUME NEW n \in Nat \ {0}, NEW pos, NEW f \in RunsFound(n, pos)
    PROVE  f \in FreeRuns(n)
<1> DEFINE after  == {g \in FreeRuns(n) : g >= pos}
           before == {g \in FreeRuns(n) : g + n < pos}
<1>1. FreeRuns(n) \subseteq Nat
  BY Constants DEF FreeRuns
<1>2. ASSUME NEW S \in SUBSET FreeRuns(n), S # {} PROVE Min(S) \in FreeRuns(n)
  <2>1. \E m \in S : \A g \in S : m <= g
    BY <1>1, <1>2, LeastNatural
  <2>2. Min(S) \in S
    BY <2>1 DEF Min
  <2> QED
    BY <2>2
<1>3. CASE after # {}
  <2>1. f = Min(after)
    BY <1>3 DEF RunsFound
  <2> QED
    BY <1>2, <1>3, <2>1
<1>4. CASE after = {}
  <2>1. before # {} /\ f = Min(before)
    BY <1>4 DEF RunsFound
  <2> QED
    BY <1>2, <2>1
<1> QED
  BY <1>3, <1>4

\* A run of free pages that the search returns is free and managed.
LEMMA FreeRunIs ==
    ASSUME Typed, Listed, NEW n \in Nat \ {0}, NEW f \in FreeRuns(n)
    PROVE  /\ f \in Page /\ n \in 1..totpages /\ f + n \in Page
           /\ f..(f + n - 1) \subseteq Managed
           /\ \A i \in f..(f + n - 1) : mcb_size[i] = MCB_FREE
<1>1. /\ f \in Page /\ f + n < nr_of_mcbs /\ nr_of_mcbs \in Nat /\ f \in Nat
      /\ \A i \in f..(f + n - 1) : mcb_size[i] = MCB_FREE
  BY Constants, PagesOK DEF FreeRuns, BlockEndsInside
<1>2. f + n \in Page /\ f..(f + n - 1) \subseteq Page
  BY <1>1 DEF Page
<1>3. f..(f + n - 1) \subseteq Managed
  <2>1. MCB_FREE \notin {MCB_RESERVED, MCB_NOTAVAILABLE}
    BY DEF MCB_FREE, MCB_RESERVED, MCB_NOTAVAILABLE
  <2> QED
    BY <1>1, <1>2, <2>1 DEF Listed, ListedAt
<1>4. f + n - 1 \in Managed
  BY <1>1, <1>3
<1>5. n \in 1..totpages
  BY <1>1, <1>4, Constants DEF Managed
<1> QED
  BY <1>1, <1>2, <1>3, <1>5

-----------------------------------------------------------------------------
\* A page whose MCB a step leaves alone stays listed if the blocks on it stay.
LEMMA ListedKept ==
    ASSUME Listed, NEW i \in Page, mcb_size'[i] = mcb_size[i], bitmap'[i] = bitmap[i],
           \A c \in live : i \in Pages(c) => c \in live'
    PROVE  ListedAt(i)'
<1>1. ListedAt(i) /\ i \in Nat
  BY Constants DEF Listed
<1>2. i \in Managed' <=> mcb_size'[i] \notin {MCB_RESERVED, MCB_NOTAVAILABLE}
  BY <1>1 DEF ListedAt, Managed
<1>3. ASSUME mcb_size'[i] \in SmallSizes
      PROVE  /\ bitmap'[i] # {} /\ bitmap'[i] \subseteq Slots(mcb_size'[i])
             /\ \A k \in bitmap'[i] : SlotBlock(i, mcb_size'[i], k) \in live'
  <2>1. PICK s \in SmallSizes : s = mcb_size[i]
    BY <1>3
  <2>2. /\ bitmap[i] # {} /\ bitmap[i] \subseteq Slots(s)
        /\ \A k \in bitmap[i] : SlotBlock(i, s, k) \in live
    BY <1>1, <2>1 DEF ListedAt
  <2>3. \A k \in bitmap[i] : i \in Pages(SlotBlock(i, s, k))
    BY <1>1, <2>2, PagesOf
  <2> QED
    BY <2>1, <2>2, <2>3
<1>4. ASSUME i \in Managed, mcb_size'[i] \notin SmallSizes \cup {MCB_FREE}
      PROVE  \E f \in Page, n \in 1..totpages :
                PageBlock(f, n) \in live' /\ i \in f..(f + n - 1)
  <2>1. PICK f \in Page, n \in 1..totpages : PageBlock(f, n) \in live /\ i \in f..(f + n - 1)
    BY <1>1, <1>4 DEF ListedAt
  <2>2. i \in Pages(PageBlock(f, n))
    BY <2>1, Constants, PagesOf
  <2> QED
    BY <2>1, <2>2
<1> QED
  BY <1>2, <1>3, <1>4 DEF ListedAt, Managed

\* What lies on a page that is cut up is one of its slots.
LEMMA HeldOnCut ==
    ASSUME NEW c, Held(c), NEW i \in Pages(c), mcb_size[i] \in SmallSizes
    PROVE  \E l \in Slots(mcb_size[i]) :
              c = SlotBlock(i, mcb_size[i], l) /\ SlotHeld(i, mcb_size[i], l)
<1>1. CASE \E f \in Page, n \in 1..totpages : c = PageBlock(f, n) /\ PagesHeld(f, n)
  <2>1. PICK f \in Page, n \in 1..totpages : c = PageBlock(f, n) /\ PagesHeld(f, n)
    BY <1>1
  <2>2. i \in f..(f + n - 1)
    BY <2>1, Constants, PagesOf
  <2> QED
    BY <2>1, <2>2, PagesHeldSizes
<1>2. CASE \E j \in Page, s \in SmallSizes :
           \E k \in Slots(s) : c = SlotBlock(j, s, k) /\ SlotHeld(j, s, k)
  <2>1. PICK j \in Page, s \in SmallSizes :
             \E k \in Slots(s) : c = SlotBlock(j, s, k) /\ SlotHeld(j, s, k)
    BY <1>2
  <2>2. i = j
    BY <2>1, Constants, PagesOf
  <2>3. mcb_size[i] = s
    BY <2>1, <2>2 DEF SlotHeld
  <2> QED
    BY <2>1, <2>2, <2>3
<1> QED
  BY <1>1, <1>2 DEF Held

\* malloc() of whole pages
LEMMA MallocPagesStep ==
    ASSUME MallocInv, NEW n \in Nat \ {0}, NEW f \in FreeRuns(n), NEW k,
           mcb_size' = [MarkContinued(f, n) EXCEPT ![f] = PAGESIZE * n],
           malloc_mcbsearch_pos' = [malloc_mcbsearch_pos EXCEPT ![k] = f + n],
           bitmap' = bitmap, live' = live \cup {PageBlock(f, n)},
           malloc_totalfreememory' = malloc_totalfreememory - PAGESIZE * n
    PROVE  MallocInv' /\ H!Next
<1>1. Typed /\ Located /\ Listed /\ Accounted
  BY DEF MallocInv
<1>2. /\ f \in Page /\ n \in 1..totpages /\ f + n \in Page
      /\ f..(f + n - 1) \subseteq Managed
      /\ \A i \in f..(f + n - 1) : mcb_size[i] = MCB_FREE
  BY <1>1, FreeRunIs
<1>3. PICK v : v = PAGESIZE * n
  OBVIOUS
<1>4. v \in Nat /\ v >= PAGESIZE /\ f \in Nat
  BY <1>2, <1>3, Constants, Monotone
<1>5. \A i \in Page : mcb_size'[i] = IF i = f THEN v
                                     ELSE IF i \in f..(f + n - 1) THEN MCB_CONTINUED
                                     ELSE mcb_size[i]
  <2>1. \A i \in Page : mcb_size'[i] = IF i = f THEN v ELSE MarkContinued(f, n)[i]
    BY <1>3 DEF MarkContinued
  <2>2. \A i \in Page : i # f => (f < i /\ i < f + n <=> i \in f..(f + n - 1))
    BY <1>4, Constants
  <2> QED
    BY <2>1, <2>2 DEF MarkContinued
<1>6. mcb_size' \in [Page -> Int]
  <2>1. DOMAIN mcb_size' = Page /\ mcb_size' = [i \in Page |-> mcb_size'[i]]
    BY <1>3 DEF MarkContinued
  <2>2. \A i \in Page : mcb_size'[i] \in Int
    BY <1>1, <1>4, <1>5 DEF Typed, MCB_CONTINUED
  <2> QED
    BY <2>1, <2>2
<1>7. Typed'
  BY <1>1, <1>2, <1>6 DEF Typed
<1>8. {v, MCB_CONTINUED} \cap ({MCB_FREE, MCB_RESERVED, MCB_NOTAVAILABLE} \cup SmallSizes) = {}
  BY <1>4, Constants DEF MCB_FREE, MCB_RESERVED, MCB_NOTAVAILABLE, MCB_CONTINUED
<1>9. \A c \in live : Pages(c) \cap f..(f + n - 1) = {}
  BY <1>1, <1>2, HeldPages DEF Located
<1>10. Held(PageBlock(f, n))'
  <2>1. (f + 1)..(f + n - 1) \subseteq f..(f + n - 1) /\ f \notin (f + 1)..(f + n - 1)
    BY <1>4
  <2>2. PagesHeld(f, n)'
    BY <1>2, <1>3, <1>5, <2>1, Constants DEF PagesHeld, Managed
  <2>3. PageBlock(f, n) = PageBlock(f, n) /\ f \in Page /\ n \in 1..totpages
    BY <1>2
  <2> QED
    BY <2>2, <2>3 DEF Held
<1>11. Located'
  <2>1. SUFFICES ASSUME NEW c \in live' PROVE Held(c)'
    BY DEF Located
  <2>2. CASE c = PageBlock(f, n)
    BY <1>10, <2>2
  <2>3. CASE c \in live
    <3>1. Held(c) /\ Pages(c) \cap f..(f + n - 1) = {}
      BY <1>1, <1>9, <2>3 DEF Located
    <3>2. \A i \in Page \ (f..(f + n - 1)) :
             mcb_size'[i] = mcb_size[i] /\ bitmap'[i] = bitmap[i]
      <4>1. f \in f..(f + n - 1)
        BY <1>4
      <4> QED
        BY <1>5, <4>1
    <3> QED
      BY <3>1, <3>2, HeldKept
  <2> QED
    BY <2>2, <2>3
<1>12. Listed'
  <2>1. SUFFICES ASSUME NEW i \in Page PROVE ListedAt(i)'
    BY DEF Listed
  <2>2. CASE i \in f..(f + n - 1)
    <3>1. mcb_size'[i] \in {v, MCB_CONTINUED}
      BY <1>5, <2>2
    <3>2. /\ i \in Managed
          /\ mcb_size'[i] \notin {MCB_FREE, MCB_RESERVED, MCB_NOTAVAILABLE} \cup SmallSizes
      BY <1>2, <1>8, <2>2, <3>1
    <3>3. PageBlock(f, n) \in live'
      OBVIOUS
    <3>4. \E g \in Page, m \in 1..totpages : PageBlock(g, m) \in live' /\ i \in g..(g + m - 1)
      BY <1>2, <2>2, <3>3
    <3> QED
      BY <3>2, <3>4 DEF ListedAt, Managed
  <2>3. CASE i \notin f..(f + n - 1)
    <3>1. mcb_size'[i] = mcb_size[i] /\ bitmap'[i] = bitmap[i]
      <4>1. f \in f..(f + n - 1)
        BY <1>4
      <4> QED
        BY <1>5, <2>3, <4>1
    <3> QED
      BY <1>1, <3>1, ListedKept
  <2> QED
    BY <2>2, <2>3
<1>13. \A c \in live : H!Extent(c) \cap H!Extent(PageBlock(f, n)) = {}
  <2>1. SUFFICES ASSUME NEW c \in live, NEW a \in H!Extent(c), a \in H!Extent(PageBlock(f, n))
                 PROVE  FALSE
    OBVIOUS
  <2>2. a \div PAGESIZE \in Pages(c) /\ a \div PAGESIZE \in Pages(PageBlock(f, n))
    BY <2>1 DEF Pages
  <2>3. Pages(PageBlock(f, n)) = f..(f + n - 1)
    BY <1>4, PagesOf
  <2> QED
    BY <1>9, <2>2, <2>3
<1>14. Accounted' /\ H!Next
  <2>1. PICK u \in Nat : u = PAGESIZE * f
    BY <1>4, Constants
  <2>2. PageBlock(f, n) = [addr |-> u, size |-> v]
    BY <1>3, <2>1 DEF PageBlock
  <2>3. v \in Nat \ {0}
    BY <1>4, Constants
  <2>4. Pages(PageBlock(f, n)) \subseteq Managed
    BY <1>2, <1>4, PagesOf
  <2>5. malloc_totalfreememory' = malloc_totalfreememory - v
    BY <1>3
  <2> QED
    BY <1>1, <1>13, <2>2, <2>3, <2>4, <2>5, TakeStep
<1> QED
  BY <1>7, <1>11, <1>12, <1>14 DEF MallocInv


\* The slot that is found is free.
LEMMA FreeSlotIs ==
    ASSUME Typed, Listed, NEW i \in Page, NEW s \in SmallSizes,
           mcb_size[i] \in {MCB_FREE, s}, NEW k \in FreeSlot(i, s)
    PROVE  /\ i \in Managed /\ k \in Slots(s) /\ s # MCB_FREE
           /\ mcb_size[i] = MCB_FREE => k = 0
           /\ mcb_size[i] = s => k \notin bitmap[i] /\ bitmap[i] \subseteq Slots(s)
<1>1. s \in Nat \ {0} /\ PAGESIZE \in Nat \ {0} /\ PAGESIZE % s = 0
  BY SizesOK, Constants
<1>2. s # MCB_FREE /\ {MCB_FREE, s} \cap {MCB_RESERVED, MCB_NOTAVAILABLE} = {}
  BY <1>1 DEF MCB_FREE, MCB_RESERVED, MCB_NOTAVAILABLE
<1>3. i \in Managed /\ (mcb_size[i] = s => bitmap[i] \subseteq Slots(s))
  BY <1>2 DEF Listed, ListedAt
<1>4. CASE mcb_size[i] = MCB_FREE
  <2>1. k = 0
    BY <1>4 DEF FreeSlot
  <2>2. /\ PAGESIZE \div s \in Nat
        /\ PAGESIZE = s * (PAGESIZE \div s) + (PAGESIZE % s)
    BY <1>1, Divide
  <2>3. PICK m \in Nat : m = PAGESIZE \div s /\ PAGESIZE = s * m
    BY <1>1, <2>2
  <2>4. m # 0
    BY <1>1, <2>3
  <2>5. 0 \in Slots(s)
    BY <2>3, <2>4 DEF Slots
  <2> QED
    BY <1>2, <1>3, <1>4, <2>1, <2>5
<1>5. CASE mcb_size[i] = s
  <2> DEFINE S == Slots(s) \ bitmap[i]
  <2>1. S # {} /\ k = Min(S)
    BY <1>2, <1>5 DEF FreeSlot
  <2>2. S \subseteq Nat
    BY DEF Slots
  <2>3. \E m \in S : \A n \in S : m <= n
    BY <2>1, <2>2, LeastNatural
  <2>4. Min(S) \in S
    BY <2>3 DEF Min
  <2> QED
    BY <1>2, <1>3, <1>5, <2>1, <2>4
<1> QED
  BY <1>4, <1>5

\* There are fewer slots than bytes in a page.
LEMMA SlotsWithin ==
    ASSUME NEW s \in SmallSizes
    PROVE  Slots(s) \subseteq 0..(PAGESIZE - 1)
<1>1. SUFFICES ASSUME NEW k \in Slots(s) PROVE k \in 0..(PAGESIZE - 1)
  OBVIOUS
<1>2. s \in Nat \ {0} /\ 0 \in 0..(s - 1)
  BY Constants
<1>3. k \in Nat /\ s * k + 0 \in 0..(PAGESIZE - 1)
  BY <1>2, SlotWithin
<1>4. PICK u : u = s * k
  OBVIOUS
<1>5. k * 1 <= k * s
  BY <1>2, <1>3, Monotone
<1>6. k <= u /\ u \in Nat
  BY <1>2, <1>3, <1>4, <1>5
<1> QED
  BY <1>3, <1>4, <1>6, Constants

\* malloc() of a slot
LEMMA MallocSlotStep ==
    ASSUME MallocInv, NEW i \in Page, NEW s \in SmallSizes,
           mcb_size[i] \in {MCB_FREE, s}, NEW k \in FreeSlot(i, s),
           mcb_size' = [mcb_size EXCEPT ![i] = s],
           bitmap' = [bitmap EXCEPT ![i] =
                         IF mcb_size[i] = MCB_FREE THEN {0} ELSE @ \cup {k}],
           malloc_mcbsearch_pos' = [malloc_mcbsearch_pos EXCEPT ![s] = i],
           live' = live \cup {SlotBlock(i, s, k)},
           malloc_totalfreememory' = malloc_totalfreememory - s
    PROVE  MallocInv' /\ H!Next
<1> DEFINE B == IF mcb_size[i] = MCB_FREE THEN {0} ELSE bitmap[i] \cup {k}
<1>1. Typed /\ Located /\ Listed /\ Accounted
  BY DEF MallocInv
<1>2. /\ i \in Managed /\ k \in Slots(s) /\ s # MCB_FREE
      /\ mcb_size[i] = MCB_FREE => k = 0
      /\ mcb_size[i] = s => k \notin bitmap[i] /\ bitmap[i] \subseteq Slots(s)
  BY <1>1, FreeSlotIs
<1>3. /\ i \in Nat /\ s \in Nat \ {0}
      /\ s \notin {MCB_FREE, MCB_RESERVED, MCB_NOTAVAILABLE}
  BY Constants DEF MCB_FREE, MCB_RESERVED, MCB_NOTAVAILABLE
<1>4. /\ k \in B /\ B \subseteq Slots(s)
      /\ mcb_size[i] = s => bitmap[i] \subseteq B
      /\ \A l \in B : l = k \/ (mcb_size[i] = s /\ l \in bitmap[i])
  BY <1>2
<1>5. /\ mcb_size'[i] = s /\ bitmap'[i] = B
      /\ \A j \in Page \ {i} : mcb_size'[j] = mcb_size[j] /\ bitmap'[j] = bitmap[j]
  BY <1>1 DEF Typed
<1>6. B \subseteq 0..(PAGESIZE - 1)
  BY <1>4, SlotsWithin
<1>7. Typed'
  <2>1. mcb_size' \in [Page -> Int]
    BY <1>1, <1>3 DEF Typed
  <2>2. bitmap' = [bitmap EXCEPT ![i] = B]
    BY <1>1 DEF Typed
  <2>3. bitmap' \in [Page -> SUBSET (0..(PAGESIZE - 1))]
    BY <1>1, <1>6, <2>2 DEF Typed
  <2>4. malloc_mcbsearch_pos' \in [SearchSizes -> Page]
    BY <1>1 DEF Typed
  <2> QED
    BY <2>1, <2>3, <2>4 DEF Typed
<1> HIDE DEF B
<1>8. ASSUME NEW c \in live, i \in Pages(c)
      PROVE  \E l \in bitmap[i] : mcb_size[i] = s /\ l \in Slots(s) /\ c = SlotBlock(i, s, l)
  <2>1. Held(c)
    BY <1>1 DEF Located
  <2>2. mcb_size[i] # MCB_FREE
    BY <1>8, <2>1, HeldPages
  <2>3. mcb_size[i] = s
    BY <2>2
  <2>4. PICK l \in Slots(s) : c = SlotBlock(i, s, l) /\ SlotHeld(i, s, l)
    BY <1>8, <2>1, <2>3, HeldOnCut
  <2> QED
    BY <2>3, <2>4 DEF SlotHeld
<1>9. ASSUME NEW l \in B PROVE Held(SlotBlock(i, s, l))'
  <2>1. SlotHeld(i, s, l)' /\ l \in Slots(s)
    BY <1>2, <1>4, <1>5 DEF SlotHeld, Managed
  <2>2. \E x \in Slots(s) : SlotBlock(i, s, l) = SlotBlock(i, s, x) /\ SlotHeld(i, s, x)'
    BY <2>1
  <2> QED
    BY <2>2 DEF Held
<1>10. Located'
  <2>1. SUFFICES ASSUME NEW c \in live' PROVE Held(c)'
    BY DEF Located
  <2>2. CASE c = SlotBlock(i, s, k)
    BY <1>4, <1>9, <2>2
  <2>3. CASE c \in live /\ i \in Pages(c)
    <3>1. PICK l \in bitmap[i] : mcb_size[i] = s /\ c = SlotBlock(i, s, l)
      BY <1>8, <2>3
    <3>2. l \in B
      BY <1>4, <3>1
    <3> QED
      BY <1>9, <3>1, <3>2
  <2>4. CASE c \in live /\ i \notin Pages(c)
    <3>1. Held(c)
      BY <1>1, <2>4 DEF Located
    <3>2. Pages(c) \cap {i} = {}
      BY <2>4
    <3> QED
      BY <1>5, <3>1, <3>2, HeldKept
  <2> QED
    BY <2>2, <2>3, <2>4
<1>11. ListedAt(i)'
  <2>1. ASSUME NEW l \in B PROVE SlotBlock(i, s, l) \in live'
    <3>1. CASE l = k
      BY <3>1
    <3>2. CASE mcb_size[i] = s /\ l \in bitmap[i]
      BY <1>1, <3>2 DEF Listed, ListedAt
    <3> QED
      BY <1>4, <3>1, <3>2
  <2>2. B # {}
    BY <1>4
  <2> QED
    BY <1>2, <1>3, <1>4, <1>5, <2>1, <2>2 DEF ListedAt, Managed
<1>12. Listed'
  <2>1. ASSUME NEW j \in Page, j # i PROVE ListedAt(j)'
    BY <1>1, <1>5, <2>1, ListedKept
  <2> QED
    BY <1>11, <2>1 DEF Listed
<1>13. \A c \in live : H!Extent(c) \cap H!Extent(SlotBlock(i, s, k)) = {}
  <2>1. SUFFICES ASSUME NEW c \in live, NEW a \in H!Extent(c), a \in H!Extent(SlotBlock(i, s, k))
                 PROVE  FALSE
    OBVIOUS
  <2>2. a \div PAGESIZE = i /\ SlotOf(a, s) = k
    BY <1>2, <1>3, <2>1, SlotBlockExtent
  <2>3. i \in Pages(c)
    BY <2>2 DEF Pages
  <2>4. PICK l \in bitmap[i] : mcb_size[i] = s /\ l \in Slots(s) /\ c = SlotBlock(i, s, l)
    BY <1>8, <2>3
  <2>5. SlotOf(a, s) = l
    BY <1>3, <2>1, <2>4, SlotBlockExtent
  <2> QED
    BY <1>2, <2>2, <2>4, <2>5
<1>14. Accounted' /\ H!Next
  <2>1. PICK u \in Nat : u = PAGESIZE * i + s * k
    <3>1. SlotBlock(i, s, k).addr \in Nat
      BY <1>2, <1>3, SlotBlockExtent
    <3> QED
      BY <3>1 DEF SlotBlock
  <2>2. SlotBlock(i, s, k) = [addr |-> u, size |-> s]
    BY <2>1 DEF SlotBlock
  <2>3. Pages(SlotBlock(i, s, k)) \subseteq Managed
    BY <1>2, <1>3, PagesOf
  <2> QED
    BY <1>1, <1>3, <1>13, <2>2, <2>3, TakeStep
<1> QED
  BY <1>7, <1>10, <1>12, <1>14 DEF MallocInv

-----------------------------------------------------------------------------
\* Nothing else lies on the pages of a block of whole pages.
LEMMA PagesAlone ==
    ASSUME NEW f \in Page, NEW n \in 1..totpages, NEW c,
           Held(PageBlock(f, n)), Held(c), c # PageBlock(f, n)
    PROVE  Pages(c) \cap f..(f + n - 1) = {}
<1>1. f \in Nat /\ n \in Nat \ {0}
  BY Constants
<1>2. SUFFICES ASSUME NEW i \in Pages(c), i \in f..(f + n - 1) PROVE FALSE
  OBVIOUS
<1>3. i \in Pages(PageBlock(f, n))
  BY <1>1, <1>2, PagesOf
<1>4. PICK s \in SmallSizes : \E k, l \in Slots(s) :
         PageBlock(f, n) = SlotBlock(i, s, k) /\ i \in Page
  BY <1>2, <1>3, HeldTogether
<1>5. i \in Nat
  BY <1>4, Constants
<1> QED
  BY <1>1, <1>4, <1>5, BlocksDiffer

\* What free() reads of a block of whole pages, and of a slot.
LEMMA WholeFreed ==
    ASSUME NEW f \in Page, NEW n \in 1..totpages, PagesHeld(f, n)
    PROVE  /\ PageBlock(f, n).addr \in Nat /\ PageBlock(f, n).addr \div PAGESIZE = f
           /\ PageBlock(f, n).size = PAGESIZE * n /\ FreedSize(f) = PAGESIZE * n
           /\ PAGESIZE * n \in Nat \ {0} /\ PAGESIZE * n >= PAGESIZE
           /\ (PAGESIZE * n) \div PAGESIZE = n
           /\ Freeable(PageBlock(f, n).addr)
<1>1. f \in Nat /\ n \in Nat \ {0} /\ PAGESIZE \in Nat \ {0}
  BY Constants
<1>2. PICK v : v = PAGESIZE * n
  OBVIOUS
<1>3. /\ PageBlock(f, n).addr \in Nat /\ PageBlock(f, n).addr \div PAGESIZE = f
      /\ PageBlock(f, n).size = v /\ v \in Nat \ {0} /\ v >= PAGESIZE
      /\ v \div PAGESIZE = n
  <2>1. PageBlock(f, n).size = v
    BY <1>2 DEF PageBlock
  <2> QED
    BY <1>1, <2>1, PageBlockExtent
<1>4. FreedSize(f) = v
  <2>1. PAGESIZE * 1 = PAGESIZE
    BY <1>1
  <2>2. v # MCB_VMOBJECT_PAGE
    BY <1>3 DEF MCB_VMOBJECT_PAGE
  <2>3. mcb_size[f] = v \/ (n = 1 /\ mcb_size[f] = MCB_VMOBJECT_PAGE)
    BY <1>2 DEF PagesHeld
  <2>4. n = 1 => v = PAGESIZE
    BY <1>2, <2>1
  <2> QED
    BY <2>2, <2>3, <2>4 DEF FreedSize
<1>5. ASSUME NEW j \in 1..(n - 1)
      PROVE  f + j \in Page /\ mcb_size[f + j] = MCB_CONTINUED
  <2>1. PICK g : g = f + j
    OBVIOUS
  <2>2. g \in (f + 1)..(f + n - 1) /\ g \in f..(f + n - 1)
    BY <1>1, <2>1
  <2>3. g \in Page /\ mcb_size[g] = MCB_CONTINUED
    BY <2>2, Constants DEF PagesHeld
  <2> QED
    BY <2>1, <2>3
<1>6. Freeable(PageBlock(f, n).addr)
  BY <1>3, <1>4, <1>5 DEF Freeable
<1> QED
  BY <1>2, <1>3, <1>4, <1>6

\* free() finds the slot and the size of a small block.
LEMMA CutFreed ==
    ASSUME NEW i \in Page, NEW s \in SmallSizes, NEW k \in Slots(s), SlotHeld(i, s, k)
    PROVE  /\ SlotBlock(i, s, k).addr \in Nat /\ SlotBlock(i, s, k).addr \div PAGESIZE = i
           /\ SlotBlock(i, s, k).size = s /\ FreedSize(i) = s
           /\ s \in Nat \ {0} /\ s < PAGESIZE /\ SlotOf(SlotBlock(i, s, k).addr, s) = k
           /\ Freeable(SlotBlock(i, s, k).addr)
<1>1. i \in Nat /\ s \in Nat \ {0} /\ s < PAGESIZE /\ PAGESIZE \in Nat
  BY Constants
<1>2. /\ SlotBlock(i, s, k).addr \in Nat /\ SlotBlock(i, s, k).addr \div PAGESIZE = i
      /\ SlotBlock(i, s, k).size = s /\ SlotOf(SlotBlock(i, s, k).addr, s) = k
  BY <1>1, SlotBlockExtent
<1>3. FreedSize(i) = s
  BY <1>1 DEF SlotHeld, FreedSize, MCB_VMOBJECT_PAGE
<1>4. Freeable(SlotBlock(i, s, k).addr)
  BY <1>1, <1>2, <1>3 DEF Freeable, SlotHeld
<1> QED
  BY <1>1, <1>2, <1>3, <1>4

\* The vm takes a page over.
LEMMA MakeVmObjectPageStep ==
    ASSUME MallocInv, NEW b \in live, MakeVmObjectPage(b)
    PROVE  MallocInv' /\ UNCHANGED <<live, malloc_totalfreememory>>
<1>1. Typed /\ Located /\ Listed /\ Accounted
  BY DEF MallocInv
<1>2. Held(b)
  BY <1>1 DEF Located
<1>3. b.size = PAGESIZE /\ PAGESIZE \in Nat \ {0}
  BY Constants DEF MakeVmObjectPage
<1>4. PICK f \in Page, n \in 1..totpages : b = PageBlock(f, n) /\ PagesHeld(f, n)
  <2>1. ASSUME NEW i \in Page, NEW s \in SmallSizes, NEW k \in Slots(s),
               b = SlotBlock(i, s, k)
        PROVE  FALSE
    <3>1. b.size = s /\ s < PAGESIZE /\ s \in Nat
      BY <2>1, Constants DEF SlotBlock
    <3> QED
      BY <1>3, <3>1
  <2> QED
    BY <1>2, <2>1 DEF Held
<1>5. f \in Nat /\ n \in Nat \ {0} /\ b.addr \div PAGESIZE = f
  BY <1>4, Constants, WholeFreed
<1>6. n = 1
  <2>1. PAGESIZE * n = PAGESIZE * 1
    BY <1>3, <1>4, WholeFreed
  <2>2. (PAGESIZE * n) \div PAGESIZE = n
    BY <1>4, WholeFreed
  <2>3. PageBlock(f, 1).size \div PAGESIZE = 1 /\ PageBlock(f, 1).size = PAGESIZE * 1
    BY <1>5, PageBlockExtent DEF PageBlock
  <2> QED
    BY <2>1, <2>2, <2>3
<1>7. f..(f + n - 1) = {f}
  BY <1>5, <1>6
<1>8. f \in Managed
  BY <1>4, <1>7 DEF PagesHeld
<1>9. /\ mcb_size' = [mcb_size EXCEPT ![f] = MCB_VMOBJECT_PAGE]
      /\ bitmap' = [bitmap EXCEPT ![f] = {}]
      /\ UNCHANGED <<malloc_mcbsearch_pos, malloc_totalfreememory, live>>
  BY <1>5 DEF MakeVmObjectPage
<1>10. /\ mcb_size'[f] = MCB_VMOBJECT_PAGE
       /\ \A j \in Page \ {f} : mcb_size'[j] = mcb_size[j] /\ bitmap'[j] = bitmap[j]
  BY <1>1, <1>9 DEF Typed
<1>11. Typed'
  BY <1>1, <1>9 DEF Typed, MCB_VMOBJECT_PAGE
<1>12. Located'
  <2>1. SUFFICES ASSUME NEW c \in live PROVE Held(c)'
    BY <1>9 DEF Located
  <2>2. CASE c = b
    <3>1. PagesHeld(f, n)'
      <4>1. (f + 1)..(f + n - 1) = {}
        BY <1>5, <1>6
      <4> QED
        BY <1>6, <1>7, <1>8, <1>10, <4>1 DEF PagesHeld, Managed
    <3> QED
      BY <1>4, <2>2, <3>1 DEF Held, PageBlock
  <2>3. CASE c # b
    <3>1. Held(c)
      BY <1>1 DEF Located
    <3>2. Pages(c) \cap {f} = {}
      BY <1>2, <1>4, <1>7, <2>3, <3>1, PagesAlone
    <3> QED
      BY <1>10, <3>1, <3>2, HeldKept
  <2> QED
    BY <2>2, <2>3
<1>13. ListedAt(f)'
  <2>1. MCB_VMOBJECT_PAGE \notin {MCB_RESERVED, MCB_NOTAVAILABLE} \cup SmallSizes
    BY Constants DEF MCB_RESERVED, MCB_NOTAVAILABLE, MCB_VMOBJECT_PAGE
  <2>2. \E g \in Page, m \in 1..totpages : PageBlock(g, m) \in live' /\ f \in g..(g + m - 1)
    BY <1>4, <1>7, <1>9
  <2> QED
    BY <1>8, <1>10, <2>1, <2>2 DEF ListedAt, Managed
<1>14. Listed'
  <2>1. ASSUME NEW j \in Page, j # f PROVE ListedAt(j)'
    BY <1>1, <1>9, <1>10, <2>1, ListedKept
  <2> QED
    BY <1>13, <2>1 DEF Listed
<1>15. Accounted'
  BY <1>1, <1>9 DEF Accounted, Memory, InUse
<1> QED
  BY <1>9, <1>11, <1>12, <1>14, <1>15 DEF MallocInv

\* free() of whole pages
LEMMA FreePagesStep ==
    ASSUME MallocInv, NEW f \in Page, NEW n \in 1..totpages,
           PagesHeld(f, n), PageBlock(f, n) \in live, FreePages(f, n),
           malloc_totalfreememory' = malloc_totalfreememory + PAGESIZE * n,
           live' = live \ {PageBlock(f, n)}, UNCHANGED malloc_mcbsearch_pos
    PROVE  MallocInv' /\ H!Next
<1> DEFINE b == PageBlock(f, n)
           X == f..(f + n - 1)
<1>1. Typed /\ Located /\ Listed /\ Accounted
  BY DEF MallocInv
<1>2. f \in Nat /\ n \in Nat \ {0} /\ X \subseteq Managed /\ f \in X /\ Pages(b) = X
  <2>1. f \in Nat /\ n \in Nat \ {0}
    BY Constants
  <2> QED
    BY <2>1, PagesOf DEF PagesHeld
<1>3. \A j \in Page : /\ mcb_size'[j] = IF j \in X THEN MCB_FREE ELSE mcb_size[j]
                      /\ j \notin X => bitmap'[j] = bitmap[j]
  <2>1. \A j \in Page : mcb_size'[j] = IF f <= j /\ j < f + n THEN MCB_FREE ELSE mcb_size[j]
    BY DEF FreePages
  <2>2. \A j \in Page : j \in X <=> f <= j /\ j < f + n
    BY <1>2, Constants
  <2>3. \A j \in Page : j # f => bitmap'[j] = bitmap[j]
    BY <1>1 DEF FreePages, Typed
  <2> HIDE DEF X
  <2> QED
    BY <1>2, <2>1, <2>2, <2>3
<1>4. Typed'
  <2>1. mcb_size' \in [Page -> Int]
    BY <1>1 DEF FreePages, Typed, MCB_FREE
  <2>2. bitmap' \in [Page -> SUBSET (0..(PAGESIZE - 1))]
    BY <1>1 DEF FreePages, Typed
  <2> QED
    BY <1>1, <2>1, <2>2 DEF Typed
<1>5. \A c \in live : Held(c)
  BY <1>1 DEF Located
<1>6. \A c \in live : c # b => Pages(c) \cap X = {}
  BY <1>5, PagesAlone
<1> HIDE DEF X, b
<1>7. Located'
  <2>1. SUFFICES ASSUME NEW c \in live, c # b PROVE Held(c)'
    BY DEF Located, b
  <2>2. Held(c) /\ Pages(c) \cap X = {}
    BY <1>5, <1>6, <2>1
  <2>3. \A j \in Page \ X : mcb_size'[j] = mcb_size[j] /\ bitmap'[j] = bitmap[j]
    BY <1>3
  <2> QED
    BY <2>2, <2>3, HeldKept
<1>8. Listed'
  <2>1. SUFFICES ASSUME NEW i \in Page PROVE ListedAt(i)'
    BY DEF Listed
  <2>2. CASE i \in X
    <3>1. MCB_FREE \notin {MCB_RESERVED, MCB_NOTAVAILABLE} \cup SmallSizes
      BY Constants DEF MCB_FREE, MCB_RESERVED, MCB_NOTAVAILABLE
    <3> QED
      BY <1>2, <1>3, <2>2, <3>1 DEF ListedAt, Managed
  <2>3. CASE i \notin X
    <3>1. \A c \in live : i \in Pages(c) => c \in live'
      BY <1>2, <2>3 DEF b
    <3> QED
      BY <1>1, <1>3, <2>3, <3>1, ListedKept
  <2> QED
    BY <2>2, <2>3
<1>9. Accounted' /\ H!Next
  <2>1. b.addr \in Nat /\ b.size \in Nat \ {0} /\ b.size = PAGESIZE * n
    BY WholeFreed DEF b
  <2> QED
    BY <1>1, <2>1, GiveStep DEF b
<1> QED
  BY <1>4, <1>7, <1>8, <1>9 DEF MallocInv

\* free() of a slot
LEMMA FreeBitStep ==
    ASSUME MallocInv, NEW i \in Page, NEW s \in SmallSizes, NEW k \in Slots(s),
           SlotHeld(i, s, k), SlotBlock(i, s, k) \in live, FreeBit(i, k),
           malloc_totalfreememory' = malloc_totalfreememory + s,
           live' = live \ {SlotBlock(i, s, k)}, UNCHANGED malloc_mcbsearch_pos
    PROVE  MallocInv' /\ H!Next
<1> DEFINE b == SlotBlock(i, s, k)
<1>1. Typed /\ Located /\ Listed /\ Accounted
  BY DEF MallocInv
<1>2. /\ i \in Nat /\ i \in Managed /\ mcb_size[i] = s /\ k \in bitmap[i]
      /\ bitmap[i] \subseteq Slots(s) /\ Pages(b) = {i}
  <2>1. i \in Nat /\ i \in Managed /\ mcb_size[i] = s /\ k \in bitmap[i]
    BY Constants DEF SlotHeld
  <2>2. bitmap[i] \subseteq Slots(s)
    BY <1>1, <2>1 DEF Listed, ListedAt
  <2> QED
    BY <2>1, <2>2, PagesOf
<1>3. /\ bitmap'[i] = bitmap[i] \ {k}
      /\ mcb_size'[i] = IF bitmap[i] # {k} THEN s ELSE MCB_FREE
      /\ \A j \in Page \ {i} : mcb_size'[j] = mcb_size[j] /\ bitmap'[j] = bitmap[j]
  BY <1>1, <1>2 DEF FreeBit, PageStaysInUse, Typed
<1>4. s \in Int /\ MCB_FREE \in Int
      /\ {s, MCB_FREE} \cap {MCB_RESERVED, MCB_NOTAVAILABLE} = {} /\ MCB_FREE \notin SmallSizes
  BY Constants DEF MCB_FREE, MCB_RESERVED, MCB_NOTAVAILABLE
<1>5. Typed'
  <2>1. mcb_size' \in [Page -> Int]
    BY <1>1, <1>2, <1>4 DEF FreeBit, Typed
  <2>2. bitmap' \in [Page -> SUBSET (0..(PAGESIZE - 1))]
    BY <1>1 DEF FreeBit, Typed
  <2> QED
    BY <1>1, <2>1, <2>2 DEF Typed
<1> HIDE DEF b
<1>6. \A c \in live : Held(c)
  BY <1>1 DEF Located
<1>7. Located'
  <2>1. SUFFICES ASSUME NEW c \in live, c # b PROVE Held(c)'
    BY DEF Located, b
  <2>2. CASE i \in Pages(c)
    <3>1. PICK l \in Slots(s) : c = SlotBlock(i, s, l) /\ SlotHeld(i, s, l)
      BY <1>2, <1>6, <2>2, HeldOnCut
    <3>2. l # k /\ l \in bitmap[i]
      BY <2>1, <3>1 DEF b, SlotHeld
    <3>3. SlotHeld(i, s, l)'
      BY <1>2, <1>3, <3>2 DEF SlotHeld, Managed
    <3>4. \E x \in Slots(s) : c = SlotBlock(i, s, x) /\ SlotHeld(i, s, x)'
      BY <3>1, <3>3
    <3> QED
      BY <3>4 DEF Held
  <2>3. CASE i \notin Pages(c)
    <3>1. Held(c) /\ Pages(c) \cap {i} = {}
      BY <1>6, <2>3
    <3> QED
      BY <1>3, <3>1, HeldKept
  <2> QED
    BY <2>2, <2>3
<1>8. ListedAt(i)'
  <2>1. CASE bitmap[i] = {k}
    <3>1. mcb_size'[i] = MCB_FREE
      BY <1>3, <2>1
    <3> QED
      BY <1>2, <1>4, <3>1 DEF ListedAt, Managed
  <2>2. CASE bitmap[i] # {k}
    <3>1. mcb_size'[i] = s /\ bitmap'[i] # {} /\ bitmap'[i] \subseteq Slots(s)
      BY <1>2, <1>3, <2>2
    <3>2. ASSUME NEW l \in bitmap'[i] PROVE SlotBlock(i, s, l) \in live'
      <4>1. l \in bitmap[i] /\ l # k /\ l \in Slots(s)
        BY <1>2, <1>3, <3>2
      <4>2. SlotBlock(i, s, l) \in live
        BY <1>1, <1>2, <4>1 DEF Listed, ListedAt
      <4>3. SlotBlock(i, s, l) # SlotBlock(i, s, k)
        BY <1>2, <4>1, BlocksDiffer
      <4> QED
        BY <4>2, <4>3
    <3> QED
      BY <1>2, <1>4, <3>1, <3>2 DEF ListedAt, Managed
  <2> QED
    BY <2>1, <2>2
<1>9. Listed'
  <2>1. ASSUME NEW j \in Page, j # i PROVE ListedAt(j)'
    <3>1. \A c \in live : j \in Pages(c) => c \in live'
      BY <1>2, <2>1 DEF b
    <3> QED
      BY <1>1, <1>3, <2>1, <3>1, ListedKept
  <2> QED
    BY <1>8, <2>1 DEF Listed
<1>10. Accounted' /\ H!Next
  <2>1. b.addr \in Nat /\ b.size = s /\ s \in Nat \ {0}
    BY CutFreed DEF b
  <2> QED
    BY <1>1, <2>1, GiveStep DEF b
<1> QED
  BY <1>5, <1>7, <1>9, <1>10 DEF MallocInv

-----------------------------------------------------------------------------
\* The initial MCBs are those of an empty heap.
LEMMA MallocInit == Init => MallocInv /\ H!Init
<1> SUFFICES ASSUME Init PROVE MallocInv /\ H!Init
  OBVIOUS
<1>1. /\ mcbpages \in Nat \ {0} /\ totpages \in Nat /\ nr_of_mcbs \in Nat
      /\ mcbpages < totpages /\ totpages <= nr_of_mcbs
  BY PagesOK
<1>2. \A i \in Page : mcb_size[i] = IF i < mcbpages THEN MCB_RESERVED
                                    ELSE IF i >= totpages THEN MCB_NOTAVAILABLE
                                    ELSE MCB_FREE
  BY DEF Init
<1>3. Typed
  <2>1. mcb_size \in [Page -> Int]
    BY DEF Init, MCB_RESERVED, MCB_NOTAVAILABLE, MCB_FREE
  <2>2. bitmap \in [Page -> SUBSET (0..(PAGESIZE - 1))]
    BY DEF Init
  <2>3. 0 \in Page
    BY <1>1 DEF Page
  <2>4. malloc_mcbsearch_pos \in [SearchSizes -> Page]
    BY <2>3 DEF Init
  <2> QED
    BY <2>1, <2>2, <2>4 DEF Typed
<1>4. Located
  BY DEF Init, Located
<1>5. Listed
  <2>1. SUFFICES ASSUME NEW i \in Page PROVE ListedAt(i)
    BY DEF Listed
  <2>2. i \in Managed <=> ~(i < mcbpages) /\ ~(i >= totpages)
    BY <1>1, Constants DEF Managed
  <2>3. SmallSizes \cap {MCB_RESERVED, MCB_NOTAVAILABLE, MCB_FREE} = {}
        /\ MCB_FREE \notin {MCB_RESERVED, MCB_NOTAVAILABLE}
    BY Constants DEF MCB_RESERVED, MCB_NOTAVAILABLE, MCB_FREE
  <2> QED
    BY <1>2, <2>2, <2>3 DEF ListedAt
<1>6. malloc_totalfreememory = Cardinality(Memory) /\ InUse = {} /\ live = {}
  BY MemoryIs DEF Init, InUse
<1>7. Accounted
  BY <1>6 DEF Accounted
<1>8. H!Init
  BY <1>6, HeapCounts DEF H!Init, Memory
<1> QED
  BY <1>3, <1>4, <1>5, <1>7, <1>8 DEF MallocInv

\* malloc() keeps the invariant and is a step of the heap.
LEMMA MallocKeeps ==
    ASSUME MallocInv, NEW len \in Lengths, malloc(len)
    PROVE  MallocInv' /\ H!Next
<1>1. PICK bsize : bsize = BlockSize(len)
  OBVIOUS
<1>2. /\ IF bsize >= PAGESIZE THEN MallocPages(bsize) ELSE MallocSlot(bsize)
      /\ malloc_totalfreememory' = malloc_totalfreememory - bsize
  BY <1>1 DEF malloc
<1>3. CASE bsize \in SmallSizes
  <2>1. bsize \in Nat /\ PAGESIZE \in Nat /\ ~(bsize >= PAGESIZE)
    BY <1>3, Constants
  <2>2. PICK i \in PagesFound(bsize, malloc_mcbsearch_pos[bsize]) :
        \E bit \in FreeSlot(i, bsize) :
           /\ mcb_size' = [mcb_size EXCEPT ![i] = bsize]
           /\ bitmap' = [bitmap EXCEPT ![i] =
                            IF mcb_size[i] = MCB_FREE THEN {0} ELSE @ \cup {bit}]
           /\ malloc_mcbsearch_pos' = [malloc_mcbsearch_pos EXCEPT ![bsize] = i]
           /\ live' = live \cup {[addr |-> PAGESIZE * i + bsize * bit, size |-> bsize]}
    BY <1>2, <2>1 DEF MallocSlot
  <2>3. PICK bit \in FreeSlot(i, bsize) :
           /\ mcb_size' = [mcb_size EXCEPT ![i] = bsize]
           /\ bitmap' = [bitmap EXCEPT ![i] =
                            IF mcb_size[i] = MCB_FREE THEN {0} ELSE @ \cup {bit}]
           /\ malloc_mcbsearch_pos' = [malloc_mcbsearch_pos EXCEPT ![bsize] = i]
           /\ live' = live \cup {[addr |-> PAGESIZE * i + bsize * bit, size |-> bsize]}
    BY <2>2
  <2>4. i \in Page /\ mcb_size[i] \in {MCB_FREE, bsize}
    BY <2>2 DEF PagesFound
  <2>5. live' = live \cup {SlotBlock(i, bsize, bit)}
    BY <2>3 DEF SlotBlock
  <2> QED
    BY <1>2, <1>3, <2>3, <2>4, <2>5, MallocSlotStep
<1>4. CASE \E n \in Nat \ {0} : bsize = PAGESIZE * n
  <2>1. PICK n \in Nat \ {0} : bsize = PAGESIZE * n
    BY <1>4
  <2>2. bsize >= PAGESIZE /\ bsize \div PAGESIZE = n
    <3>1. PageBlock(0, n).size = bsize
      BY <2>1 DEF PageBlock
    <3> QED
      BY <3>1, PageBlockExtent
  <2>3. PICK k : k = SearchSize(bsize)
    OBVIOUS
  <2>4. PICK f \in RunsFound(n, malloc_mcbsearch_pos[k]) :
           /\ mcb_size' = [MarkContinued(f, n) EXCEPT ![f] = bsize]
           /\ malloc_mcbsearch_pos' = [malloc_mcbsearch_pos EXCEPT ![k] = f + n]
           /\ live' = live \cup {[addr |-> PAGESIZE * f, size |-> bsize]}
           /\ UNCHANGED bitmap
    BY <1>2, <2>2, <2>3 DEF MallocPages
  <2>5. f \in FreeRuns(n)
    BY RunsFoundAreFree
  <2>6. live' = live \cup {PageBlock(f, n)}
    BY <2>1, <2>4 DEF PageBlock
  <2>7. /\ mcb_size' = [MarkContinued(f, n) EXCEPT ![f] = PAGESIZE * n]
        /\ malloc_totalfreememory' = malloc_totalfreememory - PAGESIZE * n
    BY <1>2, <2>1, <2>4
  <2> QED
    BY <2>4, <2>5, <2>6, <2>7, MallocPagesStep
<1> QED
  BY <1>1, <1>3, <1>4, BlockSizeIs

\* free() keeps the invariant and is a step of the heap.
LEMMA FreeKeeps ==
    ASSUME MallocInv, NEW b \in live, free(b)
    PROVE  MallocInv' /\ H!Next
<1>1. Held(b)
  BY DEF MallocInv, Located
<1>2. CASE \E f \in Page, n \in 1..totpages : b = PageBlock(f, n) /\ PagesHeld(f, n)
  <2>1. PICK f \in Page, n \in 1..totpages : b = PageBlock(f, n) /\ PagesHeld(f, n)
    BY <1>2
  <2>2. PICK v : v = PAGESIZE * n
    OBVIOUS
  <2>3. /\ b.addr \div PAGESIZE = f /\ FreedSize(f) = v /\ v >= PAGESIZE
        /\ v \div PAGESIZE = n
    BY <2>1, <2>2, WholeFreed
  <2>4. /\ FreePages(f, n) /\ malloc_totalfreememory' = malloc_totalfreememory + v
        /\ live' = live \ {b} /\ UNCHANGED malloc_mcbsearch_pos
    BY <2>3 DEF free
  <2> QED
    BY <2>1, <2>2, <2>4, FreePagesStep
<1>3. CASE \E i \in Page, s \in SmallSizes :
           \E k \in Slots(s) : b = SlotBlock(i, s, k) /\ SlotHeld(i, s, k)
  <2>1. PICK i \in Page, s \in SmallSizes :
             \E k \in Slots(s) : b = SlotBlock(i, s, k) /\ SlotHeld(i, s, k)
    BY <1>3
  <2>2. PICK k \in Slots(s) : b = SlotBlock(i, s, k) /\ SlotHeld(i, s, k)
    BY <2>1
  <2>3. /\ b.addr \div PAGESIZE = i /\ FreedSize(i) = s /\ s < PAGESIZE /\ s \in Nat
        /\ SlotOf(b.addr, s) = k
    BY <2>2, CutFreed
  <2>4. ~(s >= PAGESIZE)
    BY <2>3, Constants
  <2>5. /\ FreeBit(i, k) /\ malloc_totalfreememory' = malloc_totalfreememory + s
        /\ live' = live \ {b} /\ UNCHANGED malloc_mcbsearch_pos
    BY <2>3, <2>4 DEF free
  <2> QED
    BY <2>2, <2>5, FreeBitStep
<1> QED
  BY <1>1, <1>2, <1>3 DEF Held

\* Every step keeps the invariant, and is a step of Heap or none.
THEOREM MallocStep ==
    MallocInv /\ [Next]_vars => MallocInv' /\ [H!Next]_<<live, malloc_totalfreememory>>
<1> SUFFICES ASSUME MallocInv, [Next]_vars
             PROVE  MallocInv' /\ [H!Next]_<<live, malloc_totalfreememory>>
  OBVIOUS
<1>1. ASSUME UNCHANGED vars
      PROVE  MallocInv' /\ UNCHANGED <<live, malloc_totalfreememory>>
  <2>1. Typed' /\ Located'
    BY <1>1 DEF vars, MallocInv, Typed, Located, Held, PagesHeld, SlotHeld
  <2>2. Listed'
    BY <1>1 DEF vars, MallocInv, Listed, ListedAt
  <2>3. Accounted'
    BY <1>1 DEF vars, MallocInv, Accounted, InUse
  <2> QED
    BY <1>1, <2>1, <2>2, <2>3 DEF MallocInv, vars
<1>2. CASE \E len \in Lengths : malloc(len)
  BY <1>2, MallocKeeps
<1>3. CASE \E len \in Lengths : mallocFails(len)
  BY <1>1, <1>3 DEF mallocFails
<1>4. CASE \E b \in live : MakeVmObjectPage(b)
  BY <1>4, MakeVmObjectPageStep
<1>5. CASE \E b \in live : free(b)
  BY <1>5, FreeKeeps
<1>6. CASE UNCHANGED vars
  BY <1>1, <1>6
<1> QED
  BY <1>2, <1>3, <1>4, <1>5, <1>6 DEF Next

\* The invariant holds in every state.
LEMMA MallocAlways == Spec => []MallocInv
BY MallocInit, MallocStep, PTL DEF Spec

\* malloc() never hands out an address twice, over any number of pages and of
\* searches that wrap; free() gives back what was handed out; and
\* malloc_totalfreememory is what is left: Malloc.tla implements Heap.tla.
THEOREM MallocImplementsHeap == Spec => ImplementsHeap
<1>1. Init => MallocInv /\ H!Init
  BY MallocInit
<1>2. MallocInv /\ [Next]_vars => MallocInv' /\ [H!Next]_<<live, malloc_totalfreememory>>
  BY MallocStep
<1> QED
  BY <1>1, <1>2, PTL DEF Spec, ImplementsHeap, H!Spec

-----------------------------------------------------------------------------
\* What the invariant says of a block in use suffices for free().
LEMMA FreeableInUse ==
    ASSUME MallocInv PROVE BlocksCanBeFreed
<1>1. Typed /\ Located /\ Accounted
  BY DEF MallocInv
<1>2. ASSUME NEW b \in live
      PROVE  /\ Freeable(b.addr) /\ FreedSize(b.addr \div PAGESIZE) = b.size
             /\ b.addr \in Nat /\ b.size \in Nat
  <2>1. Held(b)
    BY <1>1 DEF Located
  <2>2. CASE \E f \in Page, n \in 1..totpages : b = PageBlock(f, n) /\ PagesHeld(f, n)
    BY <2>2, WholeFreed
  <2>3. CASE \E i \in Page, s \in SmallSizes :
             \E k \in Slots(s) : b = SlotBlock(i, s, k) /\ SlotHeld(i, s, k)
    BY <2>3, CutFreed
  <2> QED
    BY <2>1, <2>2, <2>3 DEF Held
<1>3. malloc_totalfreememory \in 0..(PAGESIZE * (totpages - mcbpages))
  <2>1. /\ Cardinality(Memory \ InUse) <= Cardinality(Memory)
        /\ Cardinality(Memory \ InUse) \in Nat /\ Cardinality(Memory) \in Nat
    BY MemoryIs, FS_Subset, FS_CardinalityType
  <2>2. malloc_totalfreememory \in 0..Cardinality(Memory)
    BY <1>1, <2>1 DEF Accounted
  <2> QED
    BY <2>2, MemoryIs
<1> QED
  BY <1>1, <1>2, <1>3 DEF BlocksCanBeFreed, TypeOK, Typed

\* A page without a block is marked free, and only such a page.
LEMMA FreeAreListed ==
    ASSUME MallocInv PROVE NothingLeaks
<1>1. Located /\ Listed
  BY DEF MallocInv
<1>2. SUFFICES ASSUME NEW i \in Managed
               PROVE  mcb_size[i] = MCB_FREE <=> \A b \in live : i \notin Pages(b)
  BY DEF NothingLeaks, Managed, Pages
<1>3. i \in Page /\ i \in Nat
  BY Constants
<1>4. ASSUME NEW b \in live, i \in Pages(b) PROVE mcb_size[i] # MCB_FREE
  BY <1>1, <1>4, HeldPages DEF Located
<1>5. ASSUME mcb_size[i] # MCB_FREE PROVE \E b \in live : i \in Pages(b)
  <2>1. CASE mcb_size[i] \in SmallSizes
    <3>1. PICK s \in SmallSizes : s = mcb_size[i]
      BY <2>1
    <3>2. PICK k \in Slots(s) : SlotBlock(i, s, k) \in live
      BY <1>1, <1>3, <3>1 DEF Listed, ListedAt
    <3> QED
      BY <1>3, <3>2, PagesOf
  <2>2. CASE mcb_size[i] \notin SmallSizes
    <3>1. PICK f \in Page, n \in 1..totpages : PageBlock(f, n) \in live /\ i \in f..(f + n - 1)
      BY <1>1, <1>3, <1>5, <2>2 DEF Listed, ListedAt
    <3> QED
      BY <3>1, Constants, PagesOf
  <2> QED
    BY <2>1, <2>2
<1> QED
  BY <1>4, <1>5

\* How far the scan that starts at pos is from i.
LEMMA DistanceIs ==
    ASSUME NEW pos \in Page, NEW i \in Page
    PROVE  /\ Distance(pos, i) \in 0..(nr_of_mcbs - 1)
           /\ Distance(pos, i) = IF i >= pos THEN i - pos ELSE i - pos + nr_of_mcbs
<1>1. nr_of_mcbs \in Nat \ {0} /\ pos \in 0..(nr_of_mcbs - 1) /\ i \in 0..(nr_of_mcbs - 1)
  BY PagesOK DEF Page
<1>2. PICK p \in Nat \ {0} : p = nr_of_mcbs
  BY <1>1
<1>3. PICK a \in Int : a = i - pos
  BY <1>1
<1>4. a % p \in 0..(p - 1) /\ a \div p \in Int /\ a = p * (a \div p) + (a % p)
  OBVIOUS
<1>5. PICK q \in Int, r \in 0..(p - 1) : r = a % p /\ a = p * q + r
  BY <1>4
<1>6. a >= -(p - 1) /\ a <= p - 1
  BY <1>1, <1>2, <1>3
<1>7. q = 0 \/ q = -1
  <2>1. CASE q >= 1
    <3>1. p * 1 <= p * q
      BY <2>1, Monotone
    <3> QED
      BY <1>5, <1>6, <3>1
  <2>2. CASE q <= -2
    <3>1. p * q <= p * (-2)
      BY <2>2, Monotone
    <3>2. p * (-2) = -(2 * p)
      OBVIOUS
    <3> QED
      BY <1>5, <1>6, <3>1, <3>2
  <2> QED
    BY <2>1, <2>2
<1>8. r = IF a >= 0 THEN a ELSE a + p
  <2>1. CASE q = 0
    <3>1. p * q = 0
      BY <2>1
    <3> QED
      BY <1>5, <3>1
  <2>2. CASE q = -1
    <3>1. p * q = -p
      BY <2>2
    <3> QED
      BY <1>5, <3>1
  <2> QED
    BY <1>7, <2>1, <2>2
<1>9. Distance(pos, i) = r
  BY <1>2, <1>3, <1>5 DEF Distance
<1> QED
  BY <1>1, <1>2, <1>3, <1>8, <1>9

\* A scan for a slot that finds none has passed no page but the last.
LEMMA NoneFound ==
    ASSUME NEW s \in SmallSizes, NEW pos \in Page, PagesFound(s, pos) = {},
           NEW i \in Page, mcb_size[i] \in {MCB_FREE, s}, FreeSlot(i, s) # {}
    PROVE  Distance(pos, i) = nr_of_mcbs - 1
<1> DEFINE good == {j \in Page : /\ mcb_size[j] \in {MCB_FREE, s}
                                 /\ FreeSlot(j, s) # {}
                                 /\ Distance(pos, j) < nr_of_mcbs - 1}
           far == {Distance(pos, j) : j \in good}
<1>1. \A j \in Page : Distance(pos, j) \in 0..(nr_of_mcbs - 1)
  BY DistanceIs
<1>2. nr_of_mcbs \in Nat
  BY PagesOK
<1>3. good = {}
  <2>1. SUFFICES ASSUME good # {} PROVE FALSE
    OBVIOUS
  <2>2. far \subseteq Nat /\ far # {}
    BY <1>1, <2>1
  <2>3. PICK m \in far : \A n \in far : m <= n
    BY <2>2, LeastNatural
  <2>4. PICK j \in good : m = Distance(pos, j)
    BY <2>3
  <2>5. j \in PagesFound(s, pos)
    BY <2>3, <2>4 DEF PagesFound
  <2> QED
    BY <2>5
<1>4. ~(Distance(pos, i) < nr_of_mcbs - 1)
  BY <1>3
<1>5. PICK d \in 0..(nr_of_mcbs - 1) : d = Distance(pos, i)
  BY <1>1
<1> QED
  BY <1>2, <1>4, <1>5

\* A search that finds no slot has passed over one page at most.
LEMMA RefusedNearlyFull ==
    ASSUME MallocInv PROVE RefusesOnlyNearlyFull
<1>1. Typed /\ Listed
  BY DEF MallocInv
<1>2. SUFFICES ASSUME NEW len \in Lengths, NEW bsize, bsize = BlockSize(len),
                      bsize < PAGESIZE, Refuses(len)
               PROVE  Cardinality({i \in Page :
                        \/ mcb_size[i] = MCB_FREE
                        \/ /\ mcb_size[i] = bsize
                           /\ Cardinality(bitmap[i]) < PAGESIZE \div bsize}) <= 1
  BY DEF RefusesOnlyNearlyFull
<1> DEFINE HasRoom(i) == \/ mcb_size[i] = MCB_FREE
                         \/ /\ mcb_size[i] = bsize
                            /\ Cardinality(bitmap[i]) < PAGESIZE \div bsize
           R == {i \in Page : HasRoom(i)}
<1>3. bsize \in SmallSizes
  <2>1. ASSUME NEW n \in Nat \ {0}, bsize = PAGESIZE * n PROVE FALSE
    <3>1. PAGESIZE * 1 <= PAGESIZE * n
      BY Constants, Monotone
    <3>2. PAGESIZE * 1 = PAGESIZE /\ bsize \in Nat /\ PAGESIZE \in Nat
      BY <2>1, Constants
    <3> QED
      BY <1>2, <2>1, <3>1, <3>2
  <2> QED
    BY <1>2, <2>1, BlockSizeIs
<1>4. bsize \in Nat \ {0} /\ PAGESIZE \in Nat \ {0}
  BY <1>3, Constants
<1>5. SearchSize(bsize) = bsize /\ bsize \in SearchSizes
  <2> DEFINE S == {s \in SearchSizes : s <= bsize}
  <2>4. bsize \in SearchSizes
    BY <1>3, SizesOK
  <2>1. bsize \in S /\ S \subseteq Nat /\ \A y \in S : bsize >= y
    <3>1. SearchSizes \subseteq Nat /\ bsize <= bsize
      BY <1>4, SizesOK
    <3>2. \A y \in S : y \in Nat /\ y <= bsize
      BY <3>1
    <3> QED
      BY <1>4, <2>4, <3>1, <3>2
  <2>2. Max(S) \in S /\ \A y \in S : Max(S) >= y
    BY <2>1 DEF Max
  <2>3. Max(S) = bsize
    BY <2>1, <2>2
  <2> QED
    BY <2>3, <2>4 DEF SearchSize
<1>6. PICK pos \in Page : pos = malloc_mcbsearch_pos[bsize]
  BY <1>1, <1>5 DEF Typed
<1>7. PagesFound(bsize, pos) = {}
  BY <1>2, <1>4, <1>5, <1>6 DEF Refuses
<1>8. ASSUME NEW i \in Page, HasRoom(i)
      PROVE  mcb_size[i] \in {MCB_FREE, bsize} /\ FreeSlot(i, bsize) # {}
  <2>1. CASE mcb_size[i] = MCB_FREE
    BY <2>1 DEF FreeSlot
  <2>2. CASE mcb_size[i] = bsize /\ mcb_size[i] # MCB_FREE
    <3>1. Cardinality(bitmap[i]) < PAGESIZE \div bsize
      BY <1>8, <2>2
    <3>2. bitmap[i] \subseteq Slots(bsize)
      BY <1>1, <1>3, <2>2 DEF Listed, ListedAt
    <3>3. bitmap[i] # Slots(bsize)
      <4>1. PICK m \in Nat : m = PAGESIZE \div bsize
        BY <1>4, Divide
      <4>2. Slots(bsize) = 0..(m - 1)
        BY <4>1 DEF Slots
      <4>3. Cardinality(Slots(bsize)) = m
        <5>1. CASE m = 0
          <6>1. Slots(bsize) = {}
            BY <4>2, <5>1
          <6> QED
            BY <5>1, <6>1, FS_EmptySet
        <5>2. CASE m # 0
          <6>1. 0..(m - 1) = 0..(0 + m - 1)
            OBVIOUS
          <6> QED
            BY <4>2, <5>2, <6>1, IntervalCount
        <5> QED
          BY <5>1, <5>2
      <4> QED
        BY <3>1, <4>1, <4>3
    <3> QED
      BY <2>2, <3>2, <3>3 DEF FreeSlot
  <2> QED
    BY <1>8, <2>1, <2>2
<1>9. \A i \in R : i \in Page /\ Distance(pos, i) = nr_of_mcbs - 1
  BY <1>3, <1>7, <1>8, NoneFound
<1>10. \A i, j \in R : i = j
  <2>1. SUFFICES ASSUME NEW i \in R, NEW j \in R PROVE i = j
    OBVIOUS
  <2>2. /\ i \in Page /\ Distance(pos, i) = nr_of_mcbs - 1
        /\ j \in Page /\ Distance(pos, j) = nr_of_mcbs - 1
    BY <1>9
  <2> HIDE DEF R
  <2>3. /\ nr_of_mcbs - 1 = IF i >= pos THEN i - pos ELSE i - pos + nr_of_mcbs
        /\ nr_of_mcbs - 1 = IF j >= pos THEN j - pos ELSE j - pos + nr_of_mcbs
    BY <2>2, DistanceIs
  <2>4. /\ nr_of_mcbs \in Nat /\ pos \in 0..(nr_of_mcbs - 1)
        /\ i \in 0..(nr_of_mcbs - 1) /\ j \in 0..(nr_of_mcbs - 1)
    BY <2>2, PagesOK DEF Page
  <2> QED
    BY <2>3, <2>4
<1> HIDE DEF R
<1>11. Cardinality(R) <= 1
  <2>1. CASE R = {}
    BY <2>1, FS_EmptySet
  <2>2. CASE R # {}
    <3>1. PICK x \in R : TRUE
      BY <2>2
    <3>2. R = {x}
      BY <1>10, <3>1
    <3>3. Cardinality({x}) = 1
      BY FS_Singleton
    <3> QED
      BY <3>2, <3>3
  <2> QED
    BY <2>1, <2>2
<1> QED
  BY <1>11 DEF R

\* None of the consistency checks of free() strikes for a block in use.
THEOREM FreeNeverPanics == Spec => []BlocksCanBeFreed
BY MallocAlways, FreeableInUse, PTL

\* No page is lost, and none is handed out and free at once.
THEOREM AllPagesComeBack == Spec => []NothingLeaks
BY MallocAlways, FreeAreListed, PTL

\* A small block is refused only when at most one page has room for it.
THEOREM SearchMissesOnePageAtMost == Spec => []RefusesOnlyNearlyFull
BY MallocAlways, RefusedNearlyFull, PTL
=============================================================================
