--------------------------- MODULE PidsTimerProofs ---------------------------
(***************************************************************************)
(* Theorems about Pids.tla, for every number of processes and every range  *)
(* of pids: pids are unique, the bitmap agrees with them, and a scan that  *)
(* gives up has seen every bit set.  None of these is inductive.  IInv     *)
(* adds who holds pidbitmap_lock, so that at most one slot is inside a     *)
(* scan or a clearing; that the pid of a scan that has found one is still  *)
(* unmarked; and that what a scan has passed, from oldlastpid on and       *)
(* around the end of the range, is marked.                                 *)
(*                                                                         *)
(* Theorems about Timer.tla, for any processes, times and length of the    *)
(* chain: the alarms of the kernel and of the sleepers are set, and the    *)
(* chain implements alarms that count down independently.                  *)
(***************************************************************************)
EXTENDS Pids, Timer, FiniteSetTheorems, SequenceTheorems, TLAPS

Holding == {"scan", "found", "clear"}
Owning  == {"fork", "alive", "remove", "clear"}

LockHeld ==
    /\ \A s \in Slot : stage[s] \in Holding <=> s \in pidbitmap_lock
    /\ \A s, t \in pidbitmap_lock : s = t

LastpidFits == \A s \in Slot : stage[s] \in {"scan", "found"} => lastpid \in PidRangeSet

\* A slot has a pid from the end of its scan on.
PidsByStage ==
    \A s \in Slot :
        /\ stage[s] \in {"none", "get", "scan"} => pid[s] = 0
        /\ stage[s] = "found" => pid[s] = lastpid /\ lastpid \notin pidbitmap

\* Every marked pid has an owner, and every owned pid is marked.
Marked ==
    /\ \A s \in Slot : stage[s] \in Owning /\ pid[s] # 0 => pid[s] \in pidbitmap
    /\ \A n \in pidbitmap : \E s \in Slot : stage[s] \in Owning /\ pid[s] = n

\* The pids a scan has gone over.
Passed(s) ==
    IF oldlastpid[s] <= lastpid
      THEN {n \in PidRangeSet : oldlastpid[s] <= n /\ n < lastpid}
      ELSE {n \in PidRangeSet : oldlastpid[s] <= n \/ n < lastpid}

PassedMarked == \A s \in Slot : stage[s] = "scan" => Passed(s) \subseteq pidbitmap

IInv == /\ TypeOK /\ LockHeld /\ LastpidFits /\ PidsByStage
        /\ Marked /\ PidsUnique /\ PassedMarked

-----------------------------------------------------------------------------
\* At the start there are no pids and no scans.
LEMMA InitIInv == Init => IInv
  BY PidRange DEF Init, IInv, TypeOK, LockHeld, LastpidFits, PidsByStage, Marked,
     PidsUnique, PassedMarked, PidRangeSet, Stage, Holding, Owning


\* The successor of a pid is a pid; lastpid itself may end one beyond; 0 is none.
LEMMA NextPidFits ==
    ASSUME NEW n \in PidRangeSet
    PROVE  /\ NextPid(n) \in PidRangeSet
           /\ n + 1 \in PID_MIN..(PID_MAX + 1)
           /\ 0 \notin PidRangeSet
  BY PidRange DEF NextPid, PidRangeSet

\* A slot moves from one stage to another and keeps its pid; nothing else changes.
LEMMA MoveIInv ==
    ASSUME IInv, NEW s \in Slot,
           ForkBegin(s) \/ ForkDone(s) \/ RemoveBegin(s)
    PROVE  IInv'
<1> USE DEF IInv, ForkBegin, ForkDone, RemoveBegin
<1>1. UNCHANGED <<pidbitmap, pidbitmap_lock, lastpid, oldlastpid, pid>>
  OBVIOUS
<1>2. \A t \in Slot : t # s => stage'[t] = stage[t]
  BY DEF TypeOK
<1>3. /\ stage[s] \notin Holding /\ stage'[s] \notin Holding
      /\ stage[s] \in Owning <=> stage'[s] \in Owning
      /\ stage'[s] \in Stage /\ stage' \in [Slot -> Stage]
  BY DEF Holding, Owning, Stage, TypeOK
<1>4. TypeOK' /\ PidsUnique'
  BY <1>1, <1>3 DEF TypeOK, PidsUnique
<1>5. LockHeld' /\ LastpidFits'
  BY <1>1, <1>2, <1>3 DEF LockHeld, LastpidFits, Holding
<1>6. PidsByStage'
  BY <1>1, <1>2, <1>3 DEF PidsByStage, Holding, Owning, TypeOK
<1>7. Marked'
  <2>1. \A t \in Slot : stage'[t] \in Owning <=> stage[t] \in Owning
    BY <1>2, <1>3
  <2>2. QED
    BY <1>1, <2>1 DEF Marked
<1>8. PassedMarked'
  BY <1>1, <1>2, <1>3 DEF PassedMarked, Passed, Holding
<1>9. QED
  BY <1>4, <1>5, <1>6, <1>7, <1>8

\* lock() at the start of a scan.
LEMMA GetLockIInv ==
    ASSUME IInv, NEW s \in Slot, GetLock(s)
    PROVE  IInv'
<1> USE DEF IInv, GetLock
<1>1. LastpidInRange \in PidRangeSet
  BY PidRange DEF LastpidInRange, PidRangeSet
<1>2. TypeOK'
  BY <1>1, PidRange DEF TypeOK, PidRangeSet, Stage
<1>3. LockHeld'
  BY DEF LockHeld, LockFree, Holding, TypeOK
<1>4. LastpidFits'
  BY <1>1 DEF LastpidFits, TypeOK
<1>5. PidsByStage'
  BY DEF PidsByStage, TypeOK, LockHeld, LockFree, Holding
<1>6. Marked'
  BY DEF Marked, TypeOK, Owning
<1>7. PidsUnique'
  BY DEF PidsUnique
<1>8. PassedMarked'
  <2> SUFFICES ASSUME NEW t \in Slot, stage'[t] = "scan"
               PROVE  Passed(t)' \subseteq pidbitmap'
    BY DEF PassedMarked
  <2>1. t = s
    BY DEF TypeOK, LockHeld, LockFree, Holding
  <2>2. oldlastpid'[t] = lastpid'
    BY <2>1 DEF TypeOK
  <2>3. QED
    BY <2>2, <1>1, PidRange DEF Passed, PidRangeSet
<1>9. QED
  BY <1>2, <1>3, <1>4, <1>5, <1>6, <1>7, <1>8

\* A set bit: the scan goes on, around the end of the range if need be.
LEMMA ScanUsedIInv ==
    ASSUME IInv, NEW s \in Slot, ScanUsed(s)
    PROVE  IInv'
<1> USE DEF IInv, ScanUsed
<1>1. lastpid \in PidRangeSet /\ lastpid' \in PidRangeSet
  BY NextPidFits DEF LastpidFits
<1>2. TypeOK' /\ LockHeld' /\ LastpidFits' /\ PidsUnique' /\ Marked'
  BY <1>1, PidRange DEF TypeOK, LockHeld, LastpidFits, PidsUnique, Marked, PidRangeSet
<1>3. \A t \in Slot : stage[t] \in Holding => t = s
  BY DEF LockHeld, Holding
<1>4. PidsByStage'
  BY <1>3 DEF PidsByStage, Holding
<1>5. PassedMarked'
  <2> SUFFICES ASSUME NEW t \in Slot, stage'[t] = "scan"
               PROVE  Passed(t)' \subseteq pidbitmap'
    BY DEF PassedMarked
  <2>1. t = s
    BY <1>3 DEF Holding
  <2>2. Passed(s) \subseteq pidbitmap
    BY DEF PassedMarked
  <2>3. Passed(s)' \subseteq Passed(s) \cup {lastpid}
    BY <1>1, PidRange DEF TypeOK, Passed, PidRangeSet, NextPid
  <2>4. QED
    BY <2>1, <2>2, <2>3
<1>6. QED
  BY <1>2, <1>4, <1>5

\* A clear bit: the slot has its pid, which nobody else has.
LEMMA ScanFreeIInv ==
    ASSUME IInv, NEW s \in Slot, ScanFree(s)
    PROVE  IInv'
<1> USE DEF IInv, ScanFree
<1>1. lastpid \in PidRangeSet
  BY DEF LastpidFits
<1>2. \A t \in Slot : stage[t] \in Holding => t = s
  BY DEF LockHeld, Holding
<1>3. TypeOK' /\ LockHeld' /\ LastpidFits'
  BY <1>1 DEF TypeOK, LockHeld, LastpidFits, Stage, Holding
<1>4. PidsByStage'
  BY <1>1, <1>2 DEF PidsByStage, TypeOK, Holding
<1>5. \A t \in Slot : t # s => pid[t] # lastpid
  <2> SUFFICES ASSUME NEW t \in Slot, t # s, pid[t] = lastpid PROVE FALSE
    OBVIOUS
  <2>1. pid[t] # 0
    BY <1>1, PidRange DEF PidRangeSet
  <2>2. stage[t] \in Owning
    BY <2>1, <1>2 DEF PidsByStage, TypeOK, Stage, Owning, Holding
  <2>3. QED
    BY <2>1, <2>2 DEF Marked
<1>6. PidsUnique'
  BY <1>5 DEF PidsUnique, TypeOK
<1>7. Marked'
  BY DEF Marked, TypeOK, Owning
<1>8. PassedMarked'
  BY <1>2 DEF PassedMarked, TypeOK, Holding
<1>9. QED
  BY <1>3, <1>4, <1>6, <1>7, <1>8

\* The bit is set and the lock given back.
LEMMA FoundIInv ==
    ASSUME IInv, NEW s \in Slot, Found(s)
    PROVE  IInv'
<1> USE DEF IInv, Found, Mark
<1>1. lastpid \in PidRangeSet /\ pid[s] = lastpid
  BY DEF LastpidFits, PidsByStage
<1>2. \A t \in Slot : stage[t] \in Holding => t = s
  BY DEF LockHeld, Holding
<1>3. \A t \in Slot : stage'[t] \notin Holding
  BY <1>2 DEF Holding, TypeOK
<1>4. TypeOK'
  BY <1>1, NextPidFits DEF TypeOK, Stage
<1>5. LockHeld' /\ LastpidFits' /\ PassedMarked'
  BY <1>3 DEF LockHeld, LastpidFits, PassedMarked, Holding
<1>6. PidsByStage'
  BY <1>3 DEF PidsByStage, Holding, TypeOK
<1>7. PidsUnique'
  BY DEF PidsUnique
<1>8. Marked'
  BY <1>1 DEF Marked, Owning, TypeOK
<1>9. QED
  BY <1>4, <1>5, <1>6, <1>7, <1>8

\* Back where the scan began: the slot goes on without a pid.
LEMMA ScanFailsIInv ==
    ASSUME IInv, NEW s \in Slot, ScanFails(s)
    PROVE  IInv'
<1> USE DEF IInv, ScanFails
<1>1. lastpid' \in PidRangeSet
  BY NextPidFits DEF LastpidFits
<1>2. \A t \in Slot : stage[t] \in Holding => t = s
  BY DEF LockHeld, Holding
<1>3. \A t \in Slot : stage'[t] \notin Holding
  BY <1>2 DEF Holding, TypeOK
<1>4. TypeOK'
  BY <1>1, PidRange DEF TypeOK, Stage, PidRangeSet
<1>5. LockHeld' /\ LastpidFits' /\ PassedMarked'
  BY <1>3 DEF LockHeld, LastpidFits, PassedMarked, Holding
<1>6. PidsByStage' /\ PidsUnique'
  BY <1>3 DEF PidsByStage, PidsUnique, Holding, TypeOK
<1>7. Marked'
  BY DEF Marked, Owning, TypeOK
<1>8. QED
  BY <1>4, <1>5, <1>6, <1>7

\* remove_pid(): out of range, the lock, and the bit.
LEMMA RemoveIInv ==
    ASSUME IInv, NEW s \in Slot,
           RemoveOutOfRange(s) \/ RemoveLock(s) \/ RemoveClear(s)
    PROVE  IInv'
<1> USE DEF IInv
<1>1. CASE RemoveOutOfRange(s)
  <2>1. pid[s] = 0
    BY <1>1 DEF RemoveOutOfRange, TypeOK
  <2>2. TypeOK' /\ LockHeld' /\ LastpidFits' /\ PidsByStage'
    BY <1>1 DEF RemoveOutOfRange, TypeOK, LockHeld, LastpidFits, PidsByStage, Stage, Holding
  <2>3. Marked' /\ PidsUnique'
    BY <1>1, <2>1, PidRange
       DEF RemoveOutOfRange, TypeOK, Marked, PidsUnique, Owning, PidRangeSet
  <2>4. PassedMarked'
    BY <1>1 DEF RemoveOutOfRange, TypeOK, PassedMarked, Passed
  <2>5. QED
    BY <2>2, <2>3, <2>4
<1>2. CASE RemoveLock(s)
  <2>1. TypeOK' /\ LockHeld' /\ LastpidFits' /\ PidsByStage'
    BY <1>2 DEF RemoveLock, TypeOK, LockHeld, LockFree, LastpidFits, PidsByStage, Stage, Holding
  <2>2. Marked' /\ PidsUnique'
    BY <1>2 DEF RemoveLock, TypeOK, Marked, PidsUnique, Owning
  <2>3. PassedMarked'
    BY <1>2 DEF RemoveLock, TypeOK, PassedMarked, Passed
  <2>4. QED
    BY <2>1, <2>2, <2>3
<1>3. CASE RemoveClear(s)
  <2>1. \A t \in Slot : stage[t] \in Holding => t = s
    BY <1>3 DEF RemoveClear, LockHeld, Holding
  <2>2. \A t \in Slot : stage'[t] \notin Holding
    BY <1>3, <2>1 DEF RemoveClear, Holding, TypeOK
  <2>3. TypeOK'
    BY <1>3 DEF RemoveClear, TypeOK, Stage
  <2>4. LockHeld' /\ LastpidFits' /\ PassedMarked'
    BY <1>3, <2>2 DEF RemoveClear, LockHeld, LastpidFits, PassedMarked, Holding
  <2>5. PidsByStage' /\ PidsUnique'
    BY <1>3, <2>2 DEF RemoveClear, PidsByStage, PidsUnique, Holding, TypeOK
  <2>6. Marked'
    <3>1. ASSUME NEW t \in Slot, stage'[t] \in Owning, pid'[t] # 0
          PROVE  pid'[t] \in pidbitmap'
      BY <1>3, <3>1 DEF RemoveClear, Marked, PidsUnique, Owning, TypeOK
    <3>2. ASSUME NEW n \in pidbitmap'
          PROVE  \E t \in Slot : stage'[t] \in Owning /\ pid'[t] = n
      BY <1>3, <3>2 DEF RemoveClear, Marked, Owning, TypeOK
    <3>3. QED
      BY <3>1, <3>2 DEF Marked
  <2>7. QED
    BY <2>3, <2>4, <2>5, <2>6
<1>4. QED
  BY <1>1, <1>2, <1>3

\* Every step of every slot preserves the inductive invariant.
LEMMA NextIInv == IInv /\ [Next]_vars => IInv'
<1> SUFFICES ASSUME IInv, [Next]_vars PROVE IInv'
  OBVIOUS
<1>1. CASE UNCHANGED vars
  BY <1>1 DEF vars, IInv, TypeOK, LockHeld, LastpidFits, PidsByStage, Marked,
     PidsUnique, PassedMarked, Passed
<1>2. CASE Next
  BY <1>2, MoveIInv, GetLockIInv, ScanUsedIInv, ScanFreeIInv, FoundIInv, ScanFailsIInv,
     RemoveIInv DEF Next
<1>3. QED
  BY <1>1, <1>2

\* The inductive invariant holds throughout.
LEMMA AlwaysIInv == Spec => []IInv
  BY InitIInv, NextIInv, PTL DEF Spec

-----------------------------------------------------------------------------
\* lastpid never leaves the range by more than one, and every pid is in range.
THEOREM TypeCorrect == Spec => []TypeOK
<1>1. IInv => TypeOK
  BY DEF IInv
<1>2. QED
  BY <1>1, AlwaysIInv, PTL

\* No two processes have the same pid, whatever calls of get_unused_pid() and
\* remove_pid() are under way.
THEOREM PidsAlwaysUnique == Spec => []PidsUnique
<1>1. IInv => PidsUnique
  BY DEF IInv
<1>2. QED
  BY <1>1, AlwaysIInv, PTL

\* No pid leaks from the bitmap, and none in use is free in it.
THEOREM BitmapAlwaysAgrees == Spec => []BitmapAgrees
<1>1. ASSUME IInv PROVE BitmapAgrees
  <2> USE <1>1 DEF IInv
  <2>1. ASSUME NEW n \in pidbitmap
        PROVE  n \in {pid[s] : s \in {t \in Slot : stage[t] # "found"}} \ {0}
    BY <2>1, NextPidFits DEF Marked, Owning, TypeOK
  <2>2. ASSUME NEW s \in Slot, stage[s] # "found", pid[s] # 0
        PROVE  pid[s] \in pidbitmap
    BY <2>2 DEF Marked, Owning, PidsByStage, TypeOK, Stage
  <2>3. QED
    BY <2>1, <2>2 DEF BitmapAgrees
<1>2. QED
  BY <1>1, AlwaysIInv, PTL

\* get_unused_pid() returns 0 only when every pid is taken: a scan that comes back
\* to where it began has passed all of them, and none was freed meanwhile.
THEOREM GaveUpOnlyWhenFull == Spec => GivesUpOnlyWhenFull
<1>1. ASSUME IInv, [Next]_vars, NEW s \in Slot,
             stage[s] = "scan", stage'[s] = "fork"
      PROVE  pidbitmap = PidRangeSet
  <2> USE <1>1 DEF IInv
  <2>1. ScanFails(s)
    <3>1. CASE UNCHANGED vars
      BY <3>1 DEF vars
    <3>2. ASSUME NEW t \in Slot,
                 \/ ForkBegin(t) \/ GetLock(t) \/ ScanFree(t) \/ Found(t) \/ ForkDone(t)
                 \/ RemoveBegin(t) \/ RemoveOutOfRange(t) \/ RemoveLock(t) \/ RemoveClear(t)
          PROVE  FALSE
      BY <3>2 DEF ForkBegin, GetLock, ScanFree, Found, ForkDone, RemoveBegin,
         RemoveOutOfRange, RemoveLock, RemoveClear, TypeOK
    <3>3. ASSUME NEW t \in Slot, ScanUsed(t) PROVE FALSE
      BY <3>3 DEF ScanUsed
    <3>4. ASSUME NEW t \in Slot, ScanFails(t) PROVE t = s
      BY <3>4 DEF ScanFails, TypeOK
    <3>5. QED
      BY <3>1, <3>2, <3>3, <3>4 DEF Next
  <2>2. Passed(s) \subseteq pidbitmap /\ lastpid \in pidbitmap
    BY <2>1 DEF ScanFails, PassedMarked
  <2>3. PidRangeSet \subseteq Passed(s) \cup {lastpid}
    BY <2>1, PidRange DEF ScanFails, LastpidFits, TypeOK, Passed, PidRangeSet, NextPid
  <2>4. QED
    BY <2>2, <2>3 DEF TypeOK
<1>2. IInv /\ [Next]_vars =>
        [\A s \in Slot : stage[s] = "scan" /\ stage'[s] = "fork" /\ pid'[s] = 0
           => pidbitmap = PidRangeSet]_vars
  BY <1>1
<1>3. QED
  BY <1>2, AlwaysIInv, PTL DEF Spec, GivesUpOnlyWhenFull

-----------------------------------------------------------------------------
(***************************************************************************)
(* The timer chain.  The ticks an entry has to go are a sum over those     *)
(* before it, so nothing can be said of an entry alone.  Everything below  *)
(* is said instead of HowMany(chain, Q), how many entries there are whose  *)
(* address and time to go are in Q: an insertion adds one to it, the       *)
(* removal of f takes the entries of f out of Q, and a tick moves Q by     *)
(* one.  First, two facts about naturals, which take the place of          *)
(* induction here.                                                         *)
(***************************************************************************)
\* g is what N steps make of x.
Steps(N, S) == [(1..N) \X S -> S]
Iterates(g, x, N, step) == g[0] = x /\ \A n \in 1..N : g[n] = step[<<n, g[n - 1]>>]

\* Every set of naturals that is not empty has a least element.
LEMMA LeastNatural ==
    ASSUME NEW T \in SUBSET Nat, T # {}
    PROVE  \E m \in T : \A n \in T : m <= n
<1> DEFINE F == {S \in FiniteSubsetsOf(Nat) : \E m \in T : S = 0..m}
<1>1. IsWellFoundedOn(StrictSubsetOrdering(Nat), FiniteSubsetsOf(Nat))
  BY FS_StrictSubsetOrderingWellFounded
<1>2. \A m \in T : 0..m \in FiniteSubsetsOf(Nat)
  BY FS_Interval DEF FiniteSubsetsOf
<1>3. F # {} /\ F \subseteq FiniteSubsetsOf(Nat)
  BY <1>2
<1>4. PICK S \in F : \A U \in F : <<U, S>> \notin StrictSubsetOrdering(Nat)
  BY <1>1, <1>3, WFMin
<1>5. PICK m \in T : S = 0..m
  BY <1>4
<1>6. ASSUME NEW n \in T, n < m
      PROVE  FALSE
  <2>1. 0..n \in F
    BY <1>2
  <2>2. 0..n \subseteq 0..m /\ 0..n # 0..m /\ 0..n \subseteq Nat /\ 0..m \subseteq Nat
    <3>1. m \in 0..m /\ m \notin 0..n
      BY <1>6
    <3> QED
      BY <1>6, <3>1
  <2>3. <<0..n, 0..m>> \in StrictSubsetOrdering(Nat)
    BY <2>2 DEF StrictSubsetOrdering
  <2> QED
    BY <1>4, <1>5, <2>1, <2>3
<1> QED
  BY <1>6

\* A function of the naturals up to N may be defined step by step.
LEMMA Iterate ==
    ASSUME NEW S, NEW x \in S, NEW N \in Nat, NEW step \in Steps(N, S)
    PROVE  \E g \in [0..N -> S] : Iterates(g, x, N, step)
<1> USE DEF Iterates
<1> DEFINE Upto(n, g) == Iterates(g, x, n, step)
           bad == {n \in 0..N : ~ \E g \in [0..n -> S] : Upto(n, g)}
<1>1. step \in [(1..N) \X S -> S]
  BY DEF Steps
<1>2. SUFFICES bad = {}
  <2>1. N \in 0..N
    OBVIOUS
  <2> QED
    BY <2>1, <1>2
<1>3. SUFFICES ASSUME bad # {} PROVE FALSE
  OBVIOUS
<1>4. bad \in SUBSET Nat
  OBVIOUS
<1> HIDE DEF bad
<1>5. PICK m \in bad : \A n \in bad : m <= n
  BY <1>3, <1>4, LeastNatural
<1> USE DEF bad
<1>6. CASE m = 0
  <2> DEFINE g == [i \in 0..0 |-> x]
  <2>1. g \in [0..0 -> S] /\ Upto(0, g)
    OBVIOUS
  <2> QED
    BY <1>5, <1>6, <2>1
<1>7. CASE m # 0
  <2>1. m - 1 \in 0..N /\ m \in 1..N /\ m - 1 \notin bad
    BY <1>5, <1>7
  <2>2. PICK g \in [0..(m - 1) -> S] : Upto(m - 1, g)
    BY <2>1
  <2> DEFINE y == step[<<m, g[m - 1]>>]
             h == [i \in 0..m |-> IF i = m THEN y ELSE g[i]]
  <2>3. g[m - 1] \in S /\ y \in S
    BY <1>1, <2>1, <2>2
  <2>4. h \in [0..m -> S]
    BY <2>1, <2>2, <2>3
  <2>5. \A i \in 0..(m - 1) : h[i] = g[i]
    BY <2>1
  <2>6. h[m] = step[<<m, h[m - 1]>>]
    <3>1. m \in 0..m /\ m - 1 \in 0..(m - 1)
      BY <2>1
    <3>2. h[m] = y
      BY <3>1
    <3>3. h[m - 1] = g[m - 1]
      BY <2>5, <3>1
    <3> QED
      BY <3>2, <3>3
  <2>7. \A i \in 1..(m - 1) : i \in 0..(m - 1) /\ i - 1 \in 0..(m - 1)
    BY <2>1
  <2>8. \A i \in 1..(m - 1) : h[i] = step[<<i, h[i - 1]>>]
    BY <2>2, <2>5, <2>7
  <2>9. h[0] = x
    BY <2>1, <2>2, <2>5
  <2> HIDE DEF h
  <2>10. \A i \in 1..m : i = m \/ i \in 1..(m - 1)
    BY <2>1
  <2>11. Upto(m, h)
    BY <2>6, <2>8, <2>9, <2>10
  <2> QED
    BY <1>5, <2>4, <2>11
<1> QED
  BY <1>6, <1>7

\* What holds at 0 and of the next number, if of one, holds up to N.
LEMMA Climb ==
    ASSUME NEW N \in Nat, NEW T \in SUBSET Nat, 0 \in T,
           \A n \in 0..(N - 1) : n \in T => n + 1 \in T
    PROVE  \A n \in 0..N : n \in T
<1> DEFINE bad == {n \in 0..N : n \notin T}
<1>1. SUFFICES ASSUME bad # {} PROVE FALSE
  OBVIOUS
<1>2. bad \in SUBSET Nat
  OBVIOUS
<1>3. PICK m \in bad : \A n \in bad : m <= n
  <2> HIDE DEF bad
  <2> QED
    BY <1>1, <1>2, LeastNatural
<1>4. m # 0 /\ m - 1 \in 0..(N - 1) /\ m - 1 \notin bad
  BY <1>3
<1> QED
  BY <1>3, <1>4

-----------------------------------------------------------------------------
Entries == [wakeup_addr : Addr, ticks : Nat]

LEMMA EntryIs ==
  ASSUME NEW c \in Seq(Entries)
  PROVE  /\ Len(c) \in Nat /\ DOMAIN c = 1..Len(c)
         /\ \A i \in 1..Len(c) : /\ c[i] \in Entries
                                 /\ c[i].wakeup_addr \in Addr /\ c[i].ticks \in Nat
                                 /\ c[i] = Entry(c[i].wakeup_addr, c[i].ticks)
<1>1. Len(c) \in Nat /\ DOMAIN c = 1..Len(c) /\ \A i \in 1..Len(c) : c[i] \in Entries
  OBVIOUS
<1> QED
  BY <1>1 DEF Entries, Entry

\* The ticks to go of an entry, as a sum built from those before it.
LEMMA DueIs ==
  ASSUME NEW c \in Seq(Entries)
  PROVE  /\ Due(c) \in [0..Len(c) -> Nat] /\ Due(c)[0] = 0
         /\ \A i \in 1..Len(c) : Due(c)[i] = Due(c)[i - 1] + c[i].ticks
<1> DEFINE N     == Len(c)
           step  == [x \in (1..N) \X Nat |-> x[2] + c[x[1]].ticks]
           Is(f) == f = [i \in 0..N |-> IF i = 0 THEN 0 ELSE f[i - 1] + c[i].ticks]
<1>1. N \in Nat /\ \A i \in 1..N : c[i].ticks \in Nat
  BY EntryIs
<1>2. step \in Steps(N, Nat)
  BY <1>1 DEF Steps
<1>3. PICK g \in [0..N -> Nat] : Iterates(g, 0, N, step)
  <2> HIDE DEF N, step
  <2> QED
    BY <1>1, <1>2, Iterate
<1>4. g[0] = 0 /\ \A i \in 1..N : g[i] = g[i - 1] + c[i].ticks
  <2>1. \A i \in 1..N : i - 1 \in 0..N /\ g[i - 1] \in Nat
    <3> HIDE DEF N
    <3> QED
      BY <1>1, <1>3
  <2> QED
    BY <1>3, <2>1 DEF Iterates
<1>5. Is(g)
  <2>1. \A i \in 0..N : g[i] = IF i = 0 THEN 0 ELSE g[i - 1] + c[i].ticks
    <3> HIDE DEF N
    <3> QED
      BY <1>1, <1>4
  <2> QED
    BY <1>3, <2>1
<1> DEFINE f == CHOOSE h : Is(h)
<1>6. Is(f)
  <2> HIDE DEF Is
  <2> QED
    BY <1>5
<1>7. Due(c) = f
  BY DEF Due
<1> HIDE DEF f, N
<1>8. f[0] = 0 /\ \A i \in 1..N : f[i] = f[i - 1] + c[i].ticks
  BY <1>1, <1>6
<1>9. DOMAIN f = 0..N /\ f = [i \in 0..N |-> f[i]]
  BY <1>6
<1> HIDE DEF Is
<1> DEFINE T == {i \in 0..N : f[i] \in Nat}
<1>10. \A i \in 0..N : i \in T
  <2>1. 0 \in T
    BY <1>1, <1>8
  <2>2. \A i \in 0..(N - 1) : i \in T => i + 1 \in T
    <3> SUFFICES ASSUME NEW i \in 0..(N - 1), i \in T PROVE i + 1 \in T
      OBVIOUS
    <3>1. i + 1 \in 1..N /\ (i + 1) - 1 = i
      BY <1>1
    <3>2. f[i + 1] = f[i] + c[i + 1].ticks
      BY <1>8, <3>1
    <3> QED
      BY <1>1, <3>1, <3>2
  <2>3. T \in SUBSET Nat
    OBVIOUS
  <2> HIDE DEF T
  <2> QED
    BY <1>1, <2>1, <2>2, <2>3, Climb
<1>11. f \in [0..N -> Nat]
  BY <1>9, <1>10
<1> QED
  BY <1>7, <1>8, <1>11 DEF N

\* What adds up the ticks of the first m entries is Due there.
LEMMA Sums ==
  ASSUME NEW c \in Seq(Entries), NEW m \in 0..Len(c), NEW f, f[0] = 0,
         \A i \in 1..m : f[i] = f[i - 1] + c[i].ticks
  PROVE  \A i \in 0..m : f[i] = Due(c)[i]
<1> DEFINE T == {i \in 0..m : f[i] = Due(c)[i]}
<1>1. m \in Nat /\ m <= Len(c) /\ Len(c) \in Nat
  OBVIOUS
<1>2. 0 \in T
  BY <1>1, DueIs
<1>3. \A i \in 0..(m - 1) : i \in T => i + 1 \in T
  <2> SUFFICES ASSUME NEW i \in 0..(m - 1), i \in T PROVE i + 1 \in T
    OBVIOUS
  <2>1. i + 1 \in 1..m /\ i + 1 \in 1..Len(c) /\ (i + 1) - 1 = i /\ i + 1 \in 0..m
    BY <1>1
  <2>2. f[i + 1] = f[i] + c[i + 1].ticks
    BY <2>1
  <2>3. Due(c)[i + 1] = Due(c)[i] + c[i + 1].ticks
    BY <2>1, DueIs
  <2> QED
    BY <2>1, <2>2, <2>3
<1>4. T \in SUBSET Nat
  BY <1>1
<1>5. \A i \in 0..m : i \in T
  <2> HIDE DEF T
  <2> QED
    BY <1>1, <1>2, <1>3, <1>4, Climb
<1> QED
  BY <1>5

\* The entries of a chain are in the order they go off.
LEMMA DueGrows ==
  ASSUME NEW c \in Seq(Entries), NEW i \in 0..Len(c), NEW j \in 0..Len(c), i <= j
  PROVE  Due(c)[i] <= Due(c)[j]
<1> DEFINE T == {n \in Nat : i + n <= Len(c) => Due(c)[i] <= Due(c)[i + n]}
<1>1. i \in Nat /\ j - i \in Nat /\ Len(c) \in Nat
  OBVIOUS
<1>2. 0 \in T
  BY <1>1, DueIs
<1>3. \A n \in 0..((j - i) - 1) : n \in T => n + 1 \in T
  <2> SUFFICES ASSUME NEW n \in 0..((j - i) - 1), n \in T PROVE n + 1 \in T
    OBVIOUS
  <2>1. /\ i + (n + 1) \in 1..Len(c) /\ (i + (n + 1)) - 1 = i + n
        /\ i + n \in 0..Len(c) /\ n + 1 \in Nat
    BY <1>1
  <2>2. Due(c)[i + (n + 1)] = Due(c)[i + n] + c[i + (n + 1)].ticks
    BY <2>1, DueIs
  <2>3. Due(c)[i + n] \in Nat /\ c[i + (n + 1)].ticks \in Nat /\ Due(c)[i] \in Nat
    BY <2>1, DueIs, EntryIs
  <2> QED
    BY <1>1, <2>1, <2>2, <2>3
<1>4. j - i \in T
  <2>1. T \in SUBSET Nat /\ j - i \in 0..(j - i)
    BY <1>1
  <2> HIDE DEF T
  <2> QED
    BY <1>1, <1>2, <1>3, <2>1, Climb
<1> QED
  BY <1>1, <1>4

\* The entries that go off no later than n are the first ones.
LEMMA BeforeIs ==
  ASSUME NEW c \in Seq(Entries), NEW n \in Nat
  PROVE  /\ Before(c, n) \in 0..Len(c)
         /\ \A i \in 0..Before(c, n) : Due(c)[i] <= n
         /\ \A i \in (Before(c, n) + 1)..Len(c) : Due(c)[i] > n
<1> DEFINE S    == {i \in DOMAIN c : Due(c)[i] <= n}
           late == {i \in 1..Len(c) : Due(c)[i] > n}
<1>1. Len(c) \in Nat /\ DOMAIN c = 1..Len(c)
  OBVIOUS
<1>2. \A i \in 0..Len(c) : Due(c)[i] \in Nat
  BY DueIs
<1>3. PICK m \in 0..Len(c) : S = 1..m
  <2>1. CASE late = {}
    <3>1. \A i \in 1..Len(c) : i \in S
      BY <1>1, <1>2, <2>1
    <3> QED
      BY <1>1, <3>1
  <2>2. CASE late # {}
    <3>1. late \in SUBSET Nat
      OBVIOUS
    <3>2. PICK l \in late : \A i \in late : l <= i
      <4> HIDE DEF late
      <4> QED
        BY <2>2, <3>1, LeastNatural
    <3>3. l - 1 \in 0..Len(c) /\ l \in 0..Len(c)
      BY <1>1
    <3>4. \A i \in 1..(l - 1) : i \in S
      <4> SUFFICES ASSUME NEW i \in 1..(l - 1) PROVE i \in S
        OBVIOUS
      <4>1. i \in 1..Len(c) /\ i \in 0..Len(c) /\ i \notin late
        BY <1>1, <3>2
      <4> QED
        BY <1>1, <1>2, <4>1
    <3>5. \A i \in S : i \in 1..(l - 1)
      <4> SUFFICES ASSUME NEW i \in S, ~(i \in 1..(l - 1)) PROVE FALSE
        OBVIOUS
      <4>1. i \in 0..Len(c) /\ l <= i /\ i \in 1..Len(c)
        BY <1>1, <3>3
      <4>2. Due(c)[l] <= Due(c)[i]
        BY <3>3, <4>1, DueGrows
      <4> QED
        BY <1>2, <3>3, <4>1, <4>2
    <3> QED
      BY <3>3, <3>4, <3>5
  <2> QED
    BY <2>1, <2>2
<1>4. Before(c, n) = m
  <2>1. Before(c, n) = Cardinality(S)
    BY DEF Before
  <2>2. Cardinality(1..m) = m
    <3>1. m \in Nat /\ 1 \in Int
      OBVIOUS
    <3> QED
      BY <3>1, FS_Interval
  <2> QED
    BY <1>3, <2>1, <2>2
<1>5. \A i \in 0..m : Due(c)[i] <= n
  <2>1. \A i \in 1..m : Due(c)[i] <= n
    BY <1>3
  <2> QED
    BY <2>1, DueIs
<1>6. \A i \in (m + 1)..Len(c) : Due(c)[i] > n
  <2> SUFFICES ASSUME NEW i \in (m + 1)..Len(c) PROVE Due(c)[i] > n
    OBVIOUS
  <2>1. i \in 1..Len(c) /\ i \notin 1..m /\ i \in 0..Len(c)
    BY <1>1
  <2>2. i \notin S
    BY <1>3, <2>1
  <2> QED
    BY <1>1, <1>2, <2>1, <2>2
<1> QED
  BY <1>4, <1>5, <1>6

\* A new entry goes behind those that are not later; those behind it keep their time,
\* since the next one counts from it.
LEMMA InsertIs ==
  ASSUME NEW c \in Seq(Entries), NEW a \in Addr, NEW n \in Nat
  PROVE  LET k == Before(c, n)
             d == Insert(c, a, n)
         IN  /\ d \in Seq(Entries) /\ Len(d) = Len(c) + 1
             /\ d[k + 1].wakeup_addr = a /\ Due(d)[k + 1] = n
             /\ \A i \in 1..k : /\ d[i].wakeup_addr = c[i].wakeup_addr
                                /\ Due(d)[i] = Due(c)[i]
             /\ \A i \in (k + 1)..Len(c) : /\ d[i + 1].wakeup_addr = c[i].wakeup_addr
                                           /\ Due(d)[i + 1] = Due(c)[i]
<1> DEFINE k     == Before(c, n)
           d     == Insert(c, a, n)
           N     == Len(c)
           due   == Due(c)
           own   == n - due[k]
           entry == Entry(a, own)
           later == SubSeq(c, k + 1, N)
           rest  == [i \in DOMAIN later |->
                       IF i = 1 THEN [later[1] EXCEPT !.ticks = @ - entry.ticks] ELSE later[i]]
           front == SubSeq(c, 1, k)
<1>1. N \in Nat /\ k \in 0..N /\ due \in [0..N -> Nat]
  BY EntryIs, DueIs, BeforeIs
<1>2. due[k] \in Nat /\ due[k] <= n /\ own \in Nat
  <2>1. k \in 0..k
    BY <1>1
  <2>2. due[k] <= n
    BY <2>1, BeforeIs
  <2> QED
    BY <1>1, <2>2
<1>3. d = front \o <<entry>> \o rest
  BY DEF Insert
<1>4. front \in Seq(Entries) /\ Len(front) = k /\ \A i \in 1..k : front[i] = c[i]
  <2> HIDE DEF k, N
  <2>1. k \in Nat /\ k <= N
    BY <1>1
  <2> QED
    BY <2>1, EntryIs DEF N
<1>5. later \in Seq(Entries) /\ Len(later) = N - k /\ \A i \in 1..(N - k) : later[i] = c[k + i]
  <2> HIDE DEF k
  <2>1. k \in Nat /\ k <= N
    BY <1>1
  <2> QED
    BY <2>1, EntryIs
<1>6. entry \in Entries /\ entry.ticks = own /\ entry.wakeup_addr = a
  BY <1>2 DEF Entry, Entries
<1> HIDE DEF front, later, entry, own, k, d
<1>7. N - k \in Nat /\ DOMAIN later = 1..(N - k)
  BY <1>1, <1>5
<1>8. k < N => /\ k + 1 \in 1..N /\ 1 \in 1..(N - k) /\ later[1] = c[k + 1]
               /\ due[k + 1] = due[k] + c[k + 1].ticks /\ due[k + 1] > n
  <2> SUFFICES ASSUME k < N
               PROVE  /\ k + 1 \in 1..N /\ 1 \in 1..(N - k) /\ later[1] = c[k + 1]
                      /\ due[k + 1] = due[k] + c[k + 1].ticks /\ due[k + 1] > n
    OBVIOUS
  <2>1. k + 1 \in 1..N /\ 1 \in 1..(N - k) /\ (k + 1) - 1 = k
    BY <1>1
  <2>2. due[k + 1] = due[k] + c[k + 1].ticks
    BY <2>1, DueIs
  <2>3. due[k + 1] > n
    <3>1. \A i \in (k + 1)..N : due[i] > n
      BY BeforeIs DEF k
    <3>2. k + 1 \in (k + 1)..N
      BY <1>1, <2>1
    <3> QED
      BY <3>1, <3>2
  <2> QED
    BY <1>5, <2>1, <2>2, <2>3
<1>9. ASSUME NEW i \in 1..(N - k)
      PROVE  /\ rest[i] \in Entries /\ rest[i].wakeup_addr = c[k + i].wakeup_addr
             /\ rest[i].ticks = IF i = 1 THEN due[k + 1] - n ELSE c[k + i].ticks
  <2>1. k + i \in 1..N /\ later[i] = c[k + i]
    BY <1>1, <1>5, <1>7
  <2>2. c[k + i] \in Entries /\ c[k + i].wakeup_addr \in Addr /\ c[k + i].ticks \in Nat
    BY <2>1, EntryIs
  <2>3. CASE i # 1
    <3>1. rest[i] = c[k + i]
      BY <1>7, <2>1, <2>3
    <3> QED
      BY <2>2, <2>3, <3>1
  <2>4. CASE i = 1
    <3>1. k < N
      BY <1>1, <2>4
    <3>2. rest[i] = [c[k + 1] EXCEPT !.ticks = @ - own]
      BY <1>6, <1>7, <1>8, <2>4, <3>1
    <3>3. c[k + 1].ticks - own = due[k + 1] - n /\ due[k + 1] - n \in Nat
      BY <1>1, <1>2, <1>8, <2>2, <2>4, <3>1 DEF own
    <3>4. c[k + 1] \in [wakeup_addr : Addr, ticks : Nat]
      BY <2>2, <2>4 DEF Entries
    <3>5. rest[i] \in Entries /\ rest[i].wakeup_addr = c[k + 1].wakeup_addr
            /\ rest[i].ticks = c[k + 1].ticks - own
      BY <3>2, <3>3, <3>4 DEF Entries
    <3> QED
      BY <2>4, <3>3, <3>5
  <2> QED
    BY <2>3, <2>4
<1>10. rest \in Seq(Entries) /\ Len(rest) = N - k
  <2>1. rest \in [1..(N - k) -> Entries]
    BY <1>7, <1>9
  <2> HIDE DEF rest
  <2> QED
    BY <1>7, <2>1
<1> HIDE DEF rest
<1>11. /\ d \in Seq(Entries) /\ Len(d) = N + 1
       /\ \A i \in 1..k : d[i] = c[i]
       /\ d[k + 1] = entry
       /\ \A i \in 1..(N - k) : d[(k + 1) + i] = rest[i]
  <2> DEFINE mid == front \o <<entry>>
  <2>1. <<entry>> \in Seq(Entries) /\ Len(<<entry>>) = 1
    BY <1>6
  <2>2. mid \in Seq(Entries) /\ Len(mid) = k + 1
    BY <1>1, <1>4, <2>1
  <2>3. mid[k + 1] = entry /\ \A i \in 1..k : mid[i] = c[i]
    BY <1>1, <1>4, <2>1
  <2> HIDE DEF mid
  <2>4. d = mid \o rest
    BY <1>3 DEF mid
  <2>5. d \in Seq(Entries) /\ Len(d) = N + 1
    <3>1. d \in Seq(Entries) /\ Len(d) = Len(mid) + Len(rest)
      <4>1. rest \in Seq(Entries) /\ mid \in Seq(Entries)
        BY <1>10, <2>2
      <4> QED
        BY <2>4, <4>1, ConcatProperties
    <3>2. (k + 1) + (N - k) = N + 1
      BY <1>1
    <3> QED
      BY <1>10, <2>2, <3>1, <3>2
  <2>6. \A i \in 1..(k + 1) : d[i] = mid[i]
    BY <1>1, <1>10, <2>2, <2>4
  <2>7. \A i \in 1..(N - k) : d[(k + 1) + i] = rest[i]
    BY <1>1, <1>10, <2>2, <2>4
  <2>8. d[k + 1] = entry /\ \A i \in 1..k : d[i] = c[i]
    <3>1. k + 1 \in 1..(k + 1) /\ \A i \in 1..k : i \in 1..(k + 1)
      BY <1>1
    <3> QED
      BY <2>3, <2>6, <3>1
  <2> QED
    BY <2>5, <2>7, <2>8
<1> DEFINE f == [i \in 0..(N + 1) |->
                   IF i <= k THEN due[i] ELSE IF i = k + 1 THEN n ELSE due[i - 1]]
<1>12. \A i \in 0..(N + 1) : f[i] = Due(d)[i]
  <2>1. f[0] = 0
    BY <1>1, DueIs
  <2>2. ASSUME NEW i \in 1..(N + 1) PROVE f[i] = f[i - 1] + d[i].ticks
    <3>1. i \in 0..(N + 1) /\ i - 1 \in 0..(N + 1)
      BY <1>1
    <3>2. CASE i <= k
      <4>1. i \in 1..N /\ i \in 1..k /\ i - 1 <= k
        BY <1>1, <3>2
      <4>2. f[i] = due[i] /\ f[i - 1] = due[i - 1] /\ d[i] = c[i]
        BY <3>1, <3>2, <4>1, <1>11
      <4> QED
        BY <4>1, <4>2, DueIs
    <3>3. CASE i = k + 1
      <4>1. f[i] = n /\ f[i - 1] = due[k] /\ d[i] = entry
        BY <1>1, <3>1, <3>3, <1>11
      <4> QED
        BY <1>2, <1>6, <4>1 DEF own
    <3>4. CASE i = k + 2
      <4>1. k < N /\ 1 \in 1..(N - k) /\ i = (k + 1) + 1
        BY <1>1, <3>4
      <4>2. f[i] = due[k + 1] /\ f[i - 1] = n /\ d[i] = rest[1]
        BY <1>1, <3>1, <3>4, <4>1, <1>11
      <4>3. rest[1].ticks = due[k + 1] - n /\ due[k + 1] \in Nat
        BY <1>1, <1>9, <4>1
      <4> QED
        BY <4>2, <4>3
    <3>5. CASE i > k + 2
      <4> DEFINE j == i - (k + 1)
      <4>1. /\ j \in 1..(N - k) /\ i = (k + 1) + j /\ j # 1 /\ k + j = i - 1
            /\ i - 1 \in 1..N /\ (i - 1) - 1 \in 0..N
        BY <1>1, <3>5
      <4>2. f[i] = due[i - 1] /\ f[i - 1] = due[(i - 1) - 1]
        BY <1>1, <3>1, <3>5
      <4>3. d[i] = rest[j] /\ rest[j].ticks = c[i - 1].ticks
        BY <1>9, <1>11, <4>1
      <4>4. due[i - 1] = due[(i - 1) - 1] + c[i - 1].ticks
        BY <4>1, DueIs
      <4> QED
        BY <4>2, <4>3, <4>4
    <3> QED
      BY <1>1, <3>2, <3>3, <3>4, <3>5
  <2>3. N + 1 \in 0..Len(d)
    BY <1>1, <1>11
  <2> HIDE DEF f
  <2> QED
    BY <1>11, <2>1, <2>2, <2>3, Sums
<1>13. Due(d)[k + 1] = n
  BY <1>1, <1>12
<1>14. \A i \in 1..k : d[i].wakeup_addr = c[i].wakeup_addr /\ Due(d)[i] = due[i]
  <2> SUFFICES ASSUME NEW i \in 1..k
               PROVE  d[i].wakeup_addr = c[i].wakeup_addr /\ Due(d)[i] = due[i]
    OBVIOUS
  <2>1. i \in 0..(N + 1) /\ i <= k
    BY <1>1
  <2>2. f[i] = due[i]
    BY <2>1
  <2> QED
    BY <1>11, <1>12, <2>1, <2>2
<1>15. \A i \in (k + 1)..N : d[i + 1].wakeup_addr = c[i].wakeup_addr /\ Due(d)[i + 1] = due[i]
  <2> SUFFICES ASSUME NEW i \in (k + 1)..N
               PROVE  d[i + 1].wakeup_addr = c[i].wakeup_addr /\ Due(d)[i + 1] = due[i]
    OBVIOUS
  <2> DEFINE j == i - k
  <2>1. j \in 1..(N - k) /\ (k + 1) + j = i + 1 /\ k + j = i
    BY <1>1
  <2>2. i + 1 \in 0..(N + 1) /\ ~(i + 1 <= k) /\ i + 1 # k + 1 /\ (i + 1) - 1 = i
    BY <1>1
  <2>3. f[i + 1] = due[i]
    BY <2>2
  <2>4. d[i + 1] = rest[j] /\ rest[j].wakeup_addr = c[i].wakeup_addr
    BY <1>9, <1>11, <2>1
  <2> QED
    BY <1>12, <2>2, <2>3, <2>4
<1> QED
  BY <1>6, <1>11, <1>13, <1>14, <1>15 DEF k, d

\* The entries of a chain whose address and time to go are in Q.
Chosen(c, Q) == {i \in DOMAIN c : <<c[i].wakeup_addr, Due(c)[i]>> \in Q}

HowMany(c, Q) == Cardinality(Chosen(c, Q))

LEMMA ChosenIs ==
  ASSUME NEW c \in Seq(Entries), NEW Q
  PROVE  /\ Chosen(c, Q) \subseteq 1..Len(c) /\ IsFiniteSet(Chosen(c, Q))
         /\ HowMany(c, Q) \in Nat
         /\ HowMany(c, Q) = 0 <=> Chosen(c, Q) = {}
<1>1. Chosen(c, Q) \subseteq 1..Len(c) /\ Len(c) \in Nat
  BY EntryIs DEF Chosen
<1>2. IsFiniteSet(1..Len(c))
  BY <1>1, FS_Interval
<1>3. IsFiniteSet(Chosen(c, Q))
  BY <1>1, <1>2, FS_Subset
<1> QED
  BY <1>1, <1>3, FS_CardinalityType, FS_EmptySet DEF HowMany

\* Two chains that match entry for entry count alike.
LEMMA SameNumber ==
  ASSUME NEW S, NEW T, IsFiniteSet(S), NEW g \in [S -> T],
         \A i, j \in S : g[i] = g[j] => i = j,
         \A t \in T : \E i \in S : g[i] = t
  PROVE  IsFiniteSet(T) /\ Cardinality(T) = Cardinality(S)
<1>1. g \in Bijection(S, T)
  BY DEF Bijection, Injection, Surjection, IsInjective
<1>2. ExistsBijection(S, T)
  BY <1>1 DEF ExistsBijection
<1> QED
  BY <1>2, FS_Bijection

\* A number for an entry that is put in, with e in the set or not.
One(e, Q) == IF e \in Q THEN 1 ELSE 0

\* The time to go of an entry put at the end, which leaves the others theirs.
LEMMA AppendIs ==
  ASSUME NEW c \in Seq(Entries), NEW e \in Entries
  PROVE  LET d == Append(c, e)
             N == Len(c)
         IN  /\ d \in Seq(Entries) /\ Len(d) = N + 1
             /\ \A i \in 1..N : d[i] = c[i]
             /\ d[N + 1] = e
             /\ \A i \in 0..N : Due(d)[i] = Due(c)[i]
             /\ Due(d)[N + 1] = Due(c)[N] + e.ticks
<1> DEFINE d == Append(c, e)
           N == Len(c)
<1>1. /\ N \in Nat /\ d \in Seq(Entries) /\ Len(d) = N + 1
      /\ (\A i \in 1..N : d[i] = c[i]) /\ d[N + 1] = e
  BY EntryIs
<1> HIDE DEF d
<1>2. \A i \in 0..N : Due(c)[i] = Due(d)[i]
  <2>1. Due(c)[0] = 0 /\ \A i \in 1..N : Due(c)[i] = Due(c)[i - 1] + d[i].ticks
    BY <1>1, DueIs
  <2>2. N \in 0..Len(d)
    BY <1>1
  <2> QED
    BY <1>1, <2>1, <2>2, Sums
<1>3. Due(d)[N + 1] = Due(d)[N] + e.ticks
  <2>1. N + 1 \in 1..Len(d) /\ (N + 1) - 1 = N
    BY <1>1
  <2> QED
    BY <1>1, <2>1, DueIs
<1>4. Due(d)[N] = Due(c)[N]
  BY <1>1, <1>2
<1> QED
  BY <1>1, <1>2, <1>3, <1>4 DEF d

LEMMA AppendCounts ==
  ASSUME NEW c \in Seq(Entries), NEW e \in Entries, NEW Q
  PROVE  HowMany(Append(c, e), Q)
           = HowMany(c, Q) + One(<<e.wakeup_addr, Due(c)[Len(c)] + e.ticks>>, Q)
<1> DEFINE d == Append(c, e)
           N == Len(c)
           x == <<e.wakeup_addr, Due(c)[N] + e.ticks>>
<1>1. /\ d \in Seq(Entries) /\ Len(d) = N + 1
      /\ \A i \in 1..N : d[i] = c[i]
      /\ d[N + 1] = e
      /\ \A i \in 0..N : Due(d)[i] = Due(c)[i]
      /\ Due(d)[N + 1] = Due(c)[N] + e.ticks
  BY AppendIs
<1>2. N \in Nat /\ DOMAIN c = 1..N /\ DOMAIN d = 1..(N + 1)
  BY <1>1, EntryIs
<1> HIDE DEF d, N
<1>3. Chosen(d, Q) = IF x \in Q THEN Chosen(c, Q) \cup {N + 1} ELSE Chosen(c, Q)
  <2>1. \A i \in 1..N : i \in Chosen(d, Q) <=> i \in Chosen(c, Q)
    BY <1>1, <1>2 DEF Chosen
  <2>2. N + 1 \in Chosen(d, Q) <=> x \in Q
    BY <1>1, <1>2 DEF Chosen
  <2>3. Chosen(c, Q) \subseteq 1..N /\ Chosen(d, Q) \subseteq 1..(N + 1)
    BY <1>2 DEF Chosen
  <2>4. \A i \in 1..(N + 1) : i \in 1..N \/ i = N + 1
    BY <1>2
  <2> HIDE DEF x
  <2>5. CASE x \in Q
    <3>1. \A i : i \in Chosen(d, Q) <=> i \in Chosen(c, Q) \cup {N + 1}
      BY <2>1, <2>2, <2>3, <2>4, <2>5
    <3> QED
      BY <2>5, <3>1
  <2>6. CASE x \notin Q
    <3>1. \A i : i \in Chosen(d, Q) <=> i \in Chosen(c, Q)
      BY <2>1, <2>2, <2>3, <2>4, <2>6
    <3> QED
      BY <2>6, <3>1
  <2> QED
    BY <2>5, <2>6
<1>4. N + 1 \notin Chosen(c, Q) /\ IsFiniteSet(Chosen(c, Q)) /\ HowMany(c, Q) \in Nat
  BY <1>2, ChosenIs DEF N
<1>5. Cardinality(Chosen(c, Q) \cup {N + 1}) = Cardinality(Chosen(c, Q)) + 1
  BY <1>4, FS_AddElement
<1>6. CASE x \in Q
  BY <1>3, <1>5, <1>6 DEF HowMany, One, d, N
<1>7. CASE x \notin Q
  BY <1>3, <1>4, <1>7 DEF HowMany, One, d, N
<1> QED
  BY <1>6, <1>7

\* An entry put in disturbs no other.
LEMMA InsertCounts ==
  ASSUME NEW c \in Seq(Entries), NEW a \in Addr, NEW n \in Nat, NEW Q
  PROVE  HowMany(Insert(c, a, n), Q) = HowMany(c, Q) + One(<<a, n>>, Q)
<1> DEFINE k == Before(c, n)
           d == Insert(c, a, n)
           N == Len(c)
           M == Chosen(d, Q)
           T == M \ {k + 1}
           g == [i \in Chosen(c, Q) |-> IF i <= k THEN i ELSE i + 1]
<1>1. /\ d \in Seq(Entries) /\ Len(d) = N + 1
      /\ d[k + 1].wakeup_addr = a /\ Due(d)[k + 1] = n
      /\ \A i \in 1..k : d[i].wakeup_addr = c[i].wakeup_addr /\ Due(d)[i] = Due(c)[i]
      /\ \A i \in (k + 1)..N : /\ d[i + 1].wakeup_addr = c[i].wakeup_addr
                               /\ Due(d)[i + 1] = Due(c)[i]
  BY InsertIs, Zenon
<1>2. N \in Nat /\ DOMAIN c = 1..N /\ DOMAIN d = 1..(N + 1) /\ k \in 0..N
  BY <1>1, EntryIs, BeforeIs
<1>3. Chosen(c, Q) \subseteq 1..N /\ IsFiniteSet(Chosen(c, Q)) /\ HowMany(c, Q) \in Nat
  BY ChosenIs
<1>4. M \subseteq 1..(N + 1) /\ IsFiniteSet(M)
  BY <1>1, ChosenIs
<1> HIDE DEF k, d, N
<1>5. ASSUME NEW i \in 1..k PROVE i \in M <=> i \in Chosen(c, Q)
  <2>1. i \in DOMAIN c /\ i \in DOMAIN d
    BY <1>2
  <2>2. d[i].wakeup_addr = c[i].wakeup_addr /\ Due(d)[i] = Due(c)[i]
    BY <1>1
  <2> QED
    BY <2>1, <2>2 DEF Chosen
<1>6. ASSUME NEW i \in (k + 1)..N PROVE i + 1 \in M <=> i \in Chosen(c, Q)
  <2>1. i \in DOMAIN c /\ i + 1 \in DOMAIN d
    BY <1>2
  <2>2. d[i + 1].wakeup_addr = c[i].wakeup_addr /\ Due(d)[i + 1] = Due(c)[i]
    BY <1>1
  <2> QED
    BY <2>1, <2>2 DEF Chosen
<1>7. k + 1 \in M <=> <<a, n>> \in Q
  <2>1. k + 1 \in DOMAIN d
    BY <1>2
  <2>2. d[k + 1].wakeup_addr = a /\ Due(d)[k + 1] = n
    BY <1>1
  <2> QED
    BY <2>1, <2>2 DEF Chosen
<1> HIDE DEF M
<1>8. g \in [Chosen(c, Q) -> T]
  <2> SUFFICES ASSUME NEW i \in Chosen(c, Q)
               PROVE  (IF i <= k THEN i ELSE i + 1) \in T
    OBVIOUS
  <2>1. i \in 1..N
    BY <1>3
  <2>2. CASE i <= k
    BY <1>2, <1>5, <2>1, <2>2
  <2>3. CASE ~(i <= k)
    <3>1. i \in (k + 1)..N /\ i + 1 # k + 1
      BY <1>2, <2>1, <2>3
    <3> QED
      BY <1>6, <2>3, <3>1
  <2> QED
    BY <2>2, <2>3
<1>9. \A i, j \in Chosen(c, Q) : g[i] = g[j] => i = j
  BY <1>2, <1>3
<1>10. \A t \in T : \E i \in Chosen(c, Q) : g[i] = t
  <2> SUFFICES ASSUME NEW t \in T PROVE \E i \in Chosen(c, Q) : g[i] = t
    OBVIOUS
  <2>1. t \in 1..(N + 1) /\ t # k + 1 /\ t \in M
    BY <1>4
  <2>2. CASE t <= k
    BY <1>2, <1>5, <2>1, <2>2
  <2>3. CASE ~(t <= k)
    <3>1. t - 1 \in (k + 1)..N /\ (t - 1) + 1 = t /\ ~(t - 1 <= k)
      BY <1>2, <2>1, <2>3
    <3>2. t - 1 \in Chosen(c, Q)
      BY <1>6, <2>1, <3>1
    <3>3. g[t - 1] = t
      BY <3>1, <3>2
    <3> QED
      BY <3>2, <3>3
  <2> QED
    BY <2>2, <2>3
<1> HIDE DEF g, T
<1>11. IsFiniteSet(T) /\ Cardinality(T) = Cardinality(Chosen(c, Q))
  BY <1>3, <1>8, <1>9, <1>10, SameNumber
<1>12. CASE <<a, n>> \in Q
  <2>1. M = T \cup {k + 1} /\ k + 1 \notin T
    BY <1>7, <1>12 DEF T
  <2>2. Cardinality(M) = Cardinality(T) + 1
    BY <1>11, <2>1, FS_AddElement
  <2> QED
    BY <1>11, <1>12, <2>2 DEF HowMany, One, M, d
<1>13. CASE <<a, n>> \notin Q
  <2>1. M = T
    BY <1>7, <1>13 DEF T
  <2> QED
    BY <1>3, <1>11, <1>13, <2>1 DEF HowMany, One, M, d
<1> QED
  BY <1>12, <1>13

\* A tick brings every entry that stays one tick nearer.
Later(Q) == {x \in Addr \X Nat : x[2] > 0 /\ <<x[1], x[2] - 1>> \in Q}

Ticked(c) == CountDown(SubSeq(c, Before(c, 0) + 1, Len(c)))

\* A tick: the entries at 0 are gone and the first that remains counts down.
LEMMA TickIs ==
  ASSUME NEW c \in Seq(Entries)
  PROVE  LET k == Before(c, 0)
             d == Ticked(c)
         IN  /\ d \in Seq(Entries) /\ Len(d) = Len(c) - k
             /\ \A i \in 1..(Len(c) - k) :
                   d[i].wakeup_addr = c[k + i].wakeup_addr /\ Due(d)[i] = Due(c)[k + i] - 1
<1> DEFINE k     == Before(c, 0)
           d     == Ticked(c)
           N     == Len(c)
           due   == Due(c)
           tail  == SubSeq(c, k + 1, N)
<1>1. N \in Nat /\ k \in 0..N /\ due \in [0..N -> Nat] /\ due[k] = 0
  <2>1. N \in Nat /\ k \in 0..N /\ due \in [0..N -> Nat]
    BY EntryIs, DueIs, BeforeIs
  <2>2. due[k] <= 0
    <3>1. k \in 0..k
      BY <2>1
    <3> QED
      BY <3>1, BeforeIs
  <2> QED
    BY <2>1, <2>2
<1>2. tail \in Seq(Entries) /\ Len(tail) = N - k /\ \A i \in 1..(N - k) : tail[i] = c[k + i]
  <2> HIDE DEF k
  <2>1. k \in Nat /\ k <= N
    BY <1>1
  <2> QED
    BY <2>1, EntryIs
<1>3. d = [i \in DOMAIN tail |-> IF i = 1 THEN [tail[1] EXCEPT !.ticks = @ - 1] ELSE tail[i]]
  BY DEF Ticked, CountDown
<1>4. \A i \in (k + 1)..N : due[i] > 0
  BY BeforeIs
<1> HIDE DEF k, d, tail, N
<1>5. N - k \in Nat /\ DOMAIN tail = 1..(N - k)
  BY <1>1, <1>2
<1>6. ASSUME NEW i \in 1..(N - k)
      PROVE  /\ d[i] \in Entries /\ d[i].wakeup_addr = c[k + i].wakeup_addr
             /\ d[i].ticks = IF i = 1 THEN due[k + 1] - 1 ELSE c[k + i].ticks
  <2>1. k + i \in 1..N /\ tail[i] = c[k + i] /\ k + i \in (k + 1)..N
    <3>1. k + i \in 1..N /\ k + i \in (k + 1)..N
      BY <1>1, <1>5
    <3> QED
      BY <1>2, <3>1
  <2>2. c[k + i] \in Entries /\ c[k + i].wakeup_addr \in Addr /\ c[k + i].ticks \in Nat
    BY <2>1, EntryIs DEF N
  <2>3. CASE i # 1
    <3>1. d[i] = c[k + i]
      BY <1>3, <1>5, <2>1, <2>3
    <3> QED
      BY <2>2, <2>3, <3>1
  <2>4. CASE i = 1
    <3>1. d[i] = [c[k + 1] EXCEPT !.ticks = @ - 1]
      BY <1>3, <1>5, <2>1, <2>4
    <3>2. due[k + 1] = due[k] + c[k + 1].ticks
      <4>1. k + 1 \in 1..Len(c) /\ (k + 1) - 1 = k
        BY <1>1, <2>1, <2>4 DEF N
      <4> QED
        BY <4>1, DueIs
    <3>3. c[k + 1].ticks - 1 = due[k + 1] - 1 /\ due[k + 1] - 1 \in Nat
      BY <1>1, <1>4, <2>1, <2>2, <2>4, <3>2
    <3>4. c[k + 1] \in [wakeup_addr : Addr, ticks : Nat]
      BY <2>2, <2>4 DEF Entries
    <3>5. /\ d[i] \in Entries /\ d[i].wakeup_addr = c[k + 1].wakeup_addr
          /\ d[i].ticks = c[k + 1].ticks - 1
      BY <3>1, <3>3, <3>4 DEF Entries
    <3> QED
      BY <2>4, <3>3, <3>5
  <2> QED
    BY <2>3, <2>4
<1>7. d \in Seq(Entries) /\ Len(d) = N - k
  <2>1. DOMAIN d = 1..(N - k) /\ d = [i \in 1..(N - k) |-> d[i]]
    BY <1>3, <1>5
  <2>2. d \in [1..(N - k) -> Entries]
    BY <1>6, <2>1
  <2> QED
    BY <1>5, <2>2
<1> DEFINE f == [i \in 0..(N - k) |-> IF i = 0 THEN 0 ELSE due[k + i] - 1]
<1>8. \A i \in 0..(N - k) : f[i] = Due(d)[i]
  <2>1. f[0] = 0
    BY <1>5
  <2>2. ASSUME NEW i \in 1..(N - k) PROVE f[i] = f[i - 1] + d[i].ticks
    <3>1. i \in 0..(N - k) /\ i - 1 \in 0..(N - k) /\ k + i \in 1..N /\ k + i \in 0..N
      BY <1>1, <1>5
    <3>2. CASE i = 1
      <4>1. f[i] = due[k + 1] - 1 /\ f[i - 1] = 0 /\ d[i].ticks = due[k + 1] - 1
        BY <1>6, <3>1, <3>2
      <4>2. due[k + 1] \in Nat
        BY <1>1, <3>1, <3>2
      <4> QED
        BY <4>1, <4>2
    <3>3. CASE i # 1
      <4>1. k + (i - 1) \in 0..N /\ (k + i) - 1 = k + (i - 1) /\ i - 1 # 0
        BY <1>1, <3>1, <3>3
      <4>2. f[i] = due[k + i] - 1 /\ f[i - 1] = due[k + (i - 1)] - 1
        BY <3>1, <4>1
      <4>3. d[i].ticks = c[k + i].ticks
        BY <1>6, <3>3
      <4>4. due[k + i] = due[k + (i - 1)] + c[k + i].ticks
        BY <3>1, <4>1, DueIs DEF N
      <4>5. due[k + (i - 1)] \in Nat /\ c[k + i].ticks \in Nat
        BY <1>1, <3>1, <4>1, EntryIs DEF N
      <4> QED
        BY <4>2, <4>3, <4>4, <4>5
    <3> QED
      BY <3>2, <3>3
  <2>3. N - k \in 0..Len(d)
    BY <1>5, <1>7
  <2> HIDE DEF f
  <2> QED
    BY <1>7, <2>1, <2>2, <2>3, Sums
<1>9. \A i \in 1..(N - k) : Due(d)[i] = due[k + i] - 1
  BY <1>5, <1>8
<1> QED
  BY <1>6, <1>7, <1>9 DEF k, d, N

LEMMA TickCounts ==
  ASSUME NEW c \in Seq(Entries), NEW Q
  PROVE  HowMany(Ticked(c), Q) = HowMany(c, Later(Q))
<1> DEFINE k == Before(c, 0)
           d == Ticked(c)
           N == Len(c)
           S == Chosen(d, Q)
           T == Chosen(c, Later(Q))
           g == [i \in S |-> k + i]
<1>1. /\ d \in Seq(Entries) /\ Len(d) = N - k
      /\ \A i \in 1..(N - k) :
            d[i].wakeup_addr = c[k + i].wakeup_addr /\ Due(d)[i] = Due(c)[k + i] - 1
  BY TickIs
<1>2. /\ N \in Nat /\ DOMAIN c = 1..N /\ k \in 0..N /\ DOMAIN d = 1..(N - k)
      /\ \A i \in 1..N : c[i].wakeup_addr \in Addr /\ Due(c)[i] \in Nat
      /\ \A i \in 1..k : Due(c)[i] <= 0
      /\ \A i \in (k + 1)..N : Due(c)[i] > 0
  <2>1. N \in Nat /\ DOMAIN c = 1..N /\ k \in 0..N /\ DOMAIN d = 1..(N - k)
    BY <1>1, EntryIs, BeforeIs
  <2>2. \A i \in 0..N : Due(c)[i] \in Nat
    BY DueIs
  <2>3. \A i \in 1..N : i \in 0..N
    BY <2>1
  <2>4. \A i \in 1..N : c[i].wakeup_addr \in Addr
    BY EntryIs
  <2>5. \A i \in 0..k : Due(c)[i] <= 0
    BY BeforeIs
  <2>6. \A i \in (k + 1)..N : Due(c)[i] > 0
    BY BeforeIs
  <2> HIDE DEF k, d, N
  <2> QED
    BY <2>1, <2>2, <2>3, <2>4, <2>5, <2>6
<1>3. S \subseteq 1..(N - k) /\ IsFiniteSet(S)
  BY <1>1, ChosenIs
<1> HIDE DEF k, d, N
<1>4. \A i \in 1..(N - k) : i \in S <=> k + i \in T
  <2> SUFFICES ASSUME NEW i \in 1..(N - k) PROVE i \in S <=> k + i \in T
    OBVIOUS
  <2>1. k + i \in 1..N /\ k + i \in (k + 1)..N
    BY <1>2
  <2>2. Due(c)[k + i] > 0 /\ <<c[k + i].wakeup_addr, Due(c)[k + i]>> \in Addr \X Nat
    BY <1>2, <2>1
  <2>3. k + i \in T <=> <<c[k + i].wakeup_addr, Due(c)[k + i] - 1>> \in Q
    BY <1>2, <2>1, <2>2 DEF Chosen, Later
  <2> QED
    BY <1>1, <1>2, <2>3 DEF Chosen
<1>5. \A t \in T : t \in (k + 1)..N
  <2> SUFFICES ASSUME NEW t \in T PROVE t \in (k + 1)..N
    OBVIOUS
  <2>1. t \in 1..N /\ Due(c)[t] > 0
    BY <1>2 DEF Chosen, Later
  <2>2. t \notin 1..k
    BY <1>2, <2>1
  <2> QED
    BY <1>2, <2>1, <2>2
<1> HIDE DEF S, T
<1>6. g \in [S -> T] /\ \A i, j \in S : g[i] = g[j] => i = j
  BY <1>2, <1>3, <1>4
<1>7. \A t \in T : \E i \in S : g[i] = t
  <2> SUFFICES ASSUME NEW t \in T PROVE \E i \in S : g[i] = t
    OBVIOUS
  <2>1. t - k \in 1..(N - k) /\ k + (t - k) = t
    BY <1>2, <1>5
  <2>2. t - k \in S
    BY <1>4, <2>1
  <2> QED
    BY <2>1, <2>2
<1> HIDE DEF g
<1>8. Cardinality(T) = Cardinality(S)
  BY <1>3, <1>6, <1>7, SameNumber
<1> QED
  BY <1>8 DEF HowMany, S, T, d

\* What is left of a chain without f: the others, as far away as they were.
Passing == [kept : Seq(Entries), carry : Nat]

Pass(x, e, f) ==
  IF e.wakeup_addr = f THEN [x EXCEPT !.carry = @ + e.ticks]
  ELSE [kept |-> Append(x.kept, [e EXCEPT !.ticks = @ + x.carry]), carry |-> 0]

Others(f, Q) == {x \in Q : x[1] # f}

LEMMA PassTyped ==
  ASSUME NEW x \in Passing, NEW e \in Entries, NEW f
  PROVE  /\ Pass(x, e, f) \in Passing
         /\ e.wakeup_addr = f =>
              Pass(x, e, f).kept = x.kept /\ Pass(x, e, f).carry = x.carry + e.ticks
         /\ e.wakeup_addr # f =>
              /\ Pass(x, e, f).carry = 0
              /\ Entry(e.wakeup_addr, e.ticks + x.carry) \in Entries
              /\ Pass(x, e, f).kept = Append(x.kept, Entry(e.wakeup_addr, e.ticks + x.carry))
<1>1. x.kept \in Seq(Entries) /\ x.carry \in Nat /\ x = [kept |-> x.kept, carry |-> x.carry]
  BY DEF Passing
<1>2. e.wakeup_addr \in Addr /\ e.ticks \in Nat
  BY DEF Entries
<1>3. CASE e.wakeup_addr = f
  <2>1. Pass(x, e, f) = [kept |-> x.kept, carry |-> x.carry + e.ticks]
    BY <1>1, <1>3 DEF Pass
  <2> QED
    BY <1>1, <1>2, <1>3, <2>1 DEF Passing
<1>4. CASE e.wakeup_addr # f
  <2> DEFINE late == Entry(e.wakeup_addr, e.ticks + x.carry)
  <2>1. [e EXCEPT !.ticks = @ + x.carry] = late
    BY <1>2 DEF Entry, Entries
  <2>2. late \in Entries
    BY <1>1, <1>2 DEF Entry, Entries
  <2> HIDE DEF late
  <2>3. Pass(x, e, f) = [kept |-> Append(x.kept, late), carry |-> 0]
    BY <1>4, <2>1 DEF Pass
  <2>4. Append(x.kept, late) \in Seq(Entries)
    BY <1>1, <2>2
  <2> QED
    BY <1>4, <2>2, <2>3, <2>4 DEF Passing, late
<1> QED
  BY <1>3, <1>4

\* Without() as the walk it is, one entry at a time.
LEMMA PassedIs ==
  ASSUME NEW c \in Seq(Entries), NEW f
  PROVE  \E g \in [0..Len(c) -> Passing] :
            /\ g[0] = [kept |-> <<>>, carry |-> 0]
            /\ \A i \in 1..Len(c) : g[i] = Pass(g[i - 1], c[i], f)
            /\ Without(c, f) = g[Len(c)].kept
<1> DEFINE N     == Len(c)
           none  == [kept |-> <<>>, carry |-> 0]
           step  == [x \in (1..N) \X Passing |-> Pass(x[2], c[x[1]], f)]
           Is(h) == h = [i \in 0..N |->
                           IF i = 0 THEN [kept |-> <<>>, carry |-> 0]
                           ELSE IF c[i].wakeup_addr = f
                           THEN [h[i-1] EXCEPT !.carry = @ + c[i].ticks]
                           ELSE [kept  |-> Append(h[i-1].kept,
                                                  [c[i] EXCEPT !.ticks = @ + h[i-1].carry]),
                                 carry |-> 0]]
<1>1. N \in Nat /\ none \in Passing
  <2>1. <<>> \in Seq(Entries) /\ 0 \in Nat
    OBVIOUS
  <2> QED
    BY <2>1, EntryIs DEF Passing
<1>2. \A i \in 1..N : c[i] \in Entries
  BY EntryIs
<1>3. step \in Steps(N, Passing)
  BY <1>2, PassTyped DEF Steps
<1>4. PICK g \in [0..N -> Passing] : Iterates(g, none, N, step)
  <2> HIDE DEF none, N, step
  <2> QED
    BY <1>1, <1>3, Iterate
<1>5. \A i \in 1..N : i - 1 \in 0..N /\ g[i - 1] \in Passing /\ g[i] = Pass(g[i - 1], c[i], f)
  <2> SUFFICES ASSUME NEW i \in 1..N
               PROVE  i - 1 \in 0..N /\ g[i - 1] \in Passing /\ g[i] = Pass(g[i - 1], c[i], f)
    OBVIOUS
  <2>1. i - 1 \in 0..N /\ g[i - 1] \in Passing
    <3> HIDE DEF N
    <3>1. i - 1 \in 0..N
      BY <1>1
    <3> QED
      BY <1>4, <3>1
  <2>2. g[i] = step[<<i, g[i - 1]>>]
    BY <1>4 DEF Iterates
  <2> QED
    BY <2>1, <2>2
<1>6. g[0] = none
  BY <1>4 DEF Iterates
<1>7. Is(g)
  <2>1. \A i \in 0..N : g[i] = IF i = 0 THEN none ELSE Pass(g[i - 1], c[i], f)
    BY <1>5, <1>6
  <2>2. g = [i \in 0..N |-> IF i = 0 THEN none ELSE Pass(g[i - 1], c[i], f)]
    <3> HIDE DEF none
    <3> QED
      BY <1>4, <2>1
  <2> QED
    BY <2>2 DEF Pass
<1> DEFINE h == CHOOSE r : Is(r)
<1>8. Is(h)
  <2> HIDE DEF Is
  <2> QED
    BY <1>7
<1>9. h[0] = none /\ \A i \in 1..N : h[i] = Pass(h[i - 1], c[i], f)
  <2> HIDE DEF h
  <2>1. h = [i \in 0..N |-> IF i = 0 THEN none ELSE Pass(h[i - 1], c[i], f)]
    BY <1>8 DEF Pass
  <2> HIDE DEF none, Is, N
  <2> QED
    BY <1>1, <2>1
<1>10. Without(c, f) = h[N].kept
  BY DEF Without
<1> HIDE DEF h, none, Is, N
<1> DEFINE T == {i \in 0..N : h[i] = g[i]}
<1>11. \A i \in 0..N : i \in T
  <2>1. 0 \in T
    BY <1>1, <1>6, <1>9
  <2>2. \A i \in 0..(N - 1) : i \in T => i + 1 \in T
    <3> SUFFICES ASSUME NEW i \in 0..(N - 1), i \in T PROVE i + 1 \in T
      OBVIOUS
    <3>1. i + 1 \in 1..N /\ (i + 1) - 1 = i /\ i + 1 \in 0..N
      BY <1>1
    <3> QED
      BY <1>5, <1>9, <3>1
  <2>3. T \in SUBSET Nat
    OBVIOUS
  <2> HIDE DEF T
  <2> QED
    BY <1>1, <2>1, <2>2, <2>3, Climb
<1>12. Without(c, f) = g[N].kept
  BY <1>1, <1>10, <1>11
<1> QED
  BY <1>4, <1>5, <1>6, <1>12 DEF N, none

\* What remains without f is as far away as it was.
LEMMA WithoutIs ==
  ASSUME NEW c \in Seq(Entries), NEW f, NEW Q
  PROVE  /\ Without(c, f) \in Seq(Entries)
         /\ Len(Without(c, f)) <= Len(c)
         /\ HowMany(Without(c, f), Q) = HowMany(c, Others(f, Q))
<1> DEFINE N    == Len(c)
           M    == Chosen(c, Others(f, Q))
           P(i) == {j \in M : j <= i}
<1>1. N \in Nat /\ M \subseteq 1..N /\ IsFiniteSet(M) /\ DOMAIN c = 1..N
  BY ChosenIs, EntryIs
<1>2. PICK g \in [0..N -> Passing] :
            /\ g[0] = [kept |-> <<>>, carry |-> 0]
            /\ \A i \in 1..N : g[i] = Pass(g[i - 1], c[i], f)
            /\ Without(c, f) = g[N].kept
  BY PassedIs
<1>3. \A i \in 1..N : c[i] \in Entries /\ c[i].ticks \in Nat
  BY EntryIs
<1> HIDE DEF N, M
<1> DEFINE kept(i) == g[i].kept
           T == {i \in 0..N : /\ Len(kept(i)) <= i
                              /\ Due(kept(i))[Len(kept(i))] + g[i].carry = Due(c)[i]
                              /\ HowMany(kept(i), Q) = Cardinality(P(i))}
<1>4. \A i \in 0..N : kept(i) \in Seq(Entries) /\ g[i].carry \in Nat
  BY <1>2 DEF Passing
<1>5. 0 \in T
  <2>1. kept(0) = <<>> /\ g[0].carry = 0 /\ 0 \in 0..N
    BY <1>1, <1>2
  <2>2. <<>> \in Seq(Entries) /\ Len(<<>>) = 0
    OBVIOUS
  <2>3. Due(<<>>)[0] = 0 /\ Due(c)[0] = 0
    BY <2>2, DueIs
  <2>4. Chosen(<<>>, Q) = {}
    <3>1. Chosen(<<>>, Q) \subseteq 1..0
      BY <2>2, ChosenIs
    <3> QED
      BY <3>1
  <2>5. HowMany(<<>>, Q) = 0
    BY <2>4, FS_EmptySet DEF HowMany
  <2>6. P(0) = {} /\ Cardinality({}) = 0
    BY <1>1, FS_EmptySet
  <2> HIDE DEF P, kept
  <2>7. Len(kept(0)) = 0
    BY <2>1, <2>2
  <2>8. HowMany(kept(0), Q) = Cardinality(P(0))
    BY <2>1, <2>5, <2>6
  <2>9. Due(kept(0))[0] + g[0].carry = Due(c)[0]
    BY <2>1, <2>3
  <2> QED
    BY <2>1, <2>7, <2>8, <2>9
<1>6. ASSUME NEW i \in 0..(N - 1), i \in T PROVE i + 1 \in T
  <2> DEFINE j == i + 1
             e == c[j]
             w == g[i].carry
             late == Entry(e.wakeup_addr, e.ticks + w)
             x == <<e.wakeup_addr, Due(c)[j]>>
  <2>1. j \in 1..N /\ j - 1 = i /\ j \in 0..N /\ i \in 0..N /\ i \in Nat
    BY <1>1
  <2> SUFFICES /\ Len(kept(j)) <= j
               /\ Due(kept(j))[Len(kept(j))] + g[j].carry = Due(c)[j]
               /\ HowMany(kept(j), Q) = Cardinality(P(j))
    BY <2>1
  <2>2. g[j] = Pass(g[i], e, f) /\ e \in Entries /\ g[i] \in Passing
    BY <1>2, <1>3, <2>1
  <2>3. kept(i) \in Seq(Entries) /\ w \in Nat /\ e.ticks \in Nat /\ Len(kept(i)) \in Nat
    BY <1>3, <1>4, <2>1
  <2>4. Due(c)[j] = Due(c)[i] + e.ticks
    BY <2>1, DueIs DEF N
  <2>5. /\ Len(kept(i)) <= i /\ Due(kept(i))[Len(kept(i))] + w = Due(c)[i]
        /\ HowMany(kept(i), Q) = Cardinality(P(i))
    BY <1>6
  <2>6. Due(kept(i))[Len(kept(i))] \in Nat
    <3>1. Due(kept(i)) \in [0..Len(kept(i)) -> Nat]
      BY <2>3, DueIs
    <3> QED
      BY <2>3, <3>1
  <2>7. j \in M <=> x \in Q /\ e.wakeup_addr # f
    BY <1>1, <2>1 DEF M, Chosen, Others
  <2>8. IsFiniteSet(P(i)) /\ j \notin P(i) /\ Cardinality(P(i)) \in Nat
    <3>1. P(i) \in SUBSET M
      OBVIOUS
    <3>2. IsFiniteSet(P(i))
      BY <1>1, <3>1, FS_Subset
    <3>3. j \notin P(i)
      BY <2>1
    <3> QED
      BY <3>2, <3>3, FS_CardinalityType
  <2>9. P(j) = IF j \in M THEN P(i) \cup {j} ELSE P(i)
    <3>1. \A m \in M : m <= j <=> m <= i \/ m = j
      BY <1>1, <2>1
    <3>2. CASE j \in M
      BY <3>1, <3>2
    <3>3. CASE j \notin M
      BY <3>1, <3>3
    <3> QED
      BY <3>2, <3>3
  <2>10. Cardinality(P(i) \cup {j}) = Cardinality(P(i)) + 1
    BY <2>8, FS_AddElement
  <2> HIDE DEF P
  <2>11. CASE e.wakeup_addr = f
    <3>1. kept(j) = kept(i) /\ g[j].carry = w + e.ticks
      BY <2>2, <2>11, PassTyped
    <3>2. P(j) = P(i)
      BY <2>7, <2>9, <2>11
    <3>3. Due(kept(j))[Len(kept(j))] + g[j].carry = Due(c)[j]
      BY <2>3, <2>4, <2>5, <2>6, <3>1
    <3>4. Len(kept(j)) <= j
      BY <2>1, <2>3, <2>5, <3>1
    <3>5. HowMany(kept(j), Q) = Cardinality(P(j))
      BY <2>5, <3>1, <3>2
    <3> QED
      BY <3>3, <3>4, <3>5
  <2>12. CASE e.wakeup_addr # f
    <3>1. kept(j) = Append(kept(i), late) /\ g[j].carry = 0 /\ late \in Entries
      <4> HIDE DEF e
      <4>1. /\ Pass(g[i], e, f).kept = Append(g[i].kept, Entry(e.wakeup_addr, e.ticks + g[i].carry))
            /\ Pass(g[i], e, f).carry = 0
            /\ Entry(e.wakeup_addr, e.ticks + g[i].carry) \in Entries
        BY <2>2, <2>12, PassTyped
      <4> HIDE DEF j
      <4> QED
        BY <2>2, <4>1
    <3>2. late.wakeup_addr = e.wakeup_addr /\ late.ticks = e.ticks + w
      BY DEF Entry
    <3>3. Due(kept(i))[Len(kept(i))] + late.ticks = Due(c)[j]
      BY <2>3, <2>4, <2>5, <2>6, <3>2
    <3> HIDE DEF late, x
    <3>4. HowMany(kept(j), Q) = HowMany(kept(i), Q) + One(x, Q)
      <4>1. HowMany(Append(kept(i), late), Q)
              = HowMany(kept(i), Q)
                + One(<<late.wakeup_addr, Due(kept(i))[Len(kept(i))] + late.ticks>>, Q)
        BY <2>3, <3>1, AppendCounts
      <4> QED
        BY <3>1, <3>2, <3>3, <4>1 DEF x
    <3>5. Len(kept(j)) = Len(kept(i)) + 1 /\ Due(kept(j))[Len(kept(j))] = Due(c)[j]
      <4>1. /\ Len(Append(kept(i), late)) = Len(kept(i)) + 1
            /\ Due(Append(kept(i), late))[Len(kept(i)) + 1]
                 = Due(kept(i))[Len(kept(i))] + late.ticks
        BY <2>3, <3>1, AppendIs
      <4> QED
        BY <3>1, <3>3, <4>1
    <3>6. HowMany(kept(j), Q) = Cardinality(P(j))
      <4>1. CASE x \in Q
        BY <2>5, <2>7, <2>9, <2>10, <2>12, <3>4, <4>1 DEF One
      <4>2. CASE x \notin Q
        BY <2>5, <2>7, <2>8, <2>9, <3>4, <4>2 DEF One
      <4> QED
        BY <4>1, <4>2
    <3>7. Due(c)[j] \in Nat
      BY <2>1, DueIs DEF N
    <3>8. Due(kept(j))[Len(kept(j))] + g[j].carry = Due(c)[j] /\ Len(kept(j)) <= j
      BY <2>1, <2>3, <2>5, <3>1, <3>5, <3>7
    <3> QED
      BY <3>6, <3>8
  <2> QED
    BY <2>11, <2>12
<1>7. \A i \in 0..N : i \in T
  <2>1. T \in SUBSET Nat
    OBVIOUS
  <2> HIDE DEF T
  <2> QED
    BY <1>1, <1>5, <1>6, <2>1, Climb
<1>8. N \in T
  BY <1>1, <1>7
<1>9. P(N) = M
  <2>1. \A j \in M : j <= N
    BY <1>1
  <2> QED
    BY <2>1
<1>10. HowMany(kept(N), Q) = Cardinality(M) /\ Len(kept(N)) <= N
  BY <1>8, <1>9
<1>11. kept(N) \in Seq(Entries)
  BY <1>1, <1>4
<1> QED
  BY <1>2, <1>10, <1>11 DEF HowMany, M, N

-----------------------------------------------------------------------------
(***************************************************************************)
(* AlarmsAreSet is inductive: everything it says of the chain is how many  *)
(* entries there are of an address within a time.                          *)
(***************************************************************************)
Ever(a) == {a} \X Nat
Until(a, n) == {a} \X (0..n)

\* The parts of AlarmsAreSet, said in numbers of entries.
LEMMA Counted ==
  ASSUME AlarmTypeOK
  PROVE  /\ first_twc \in Seq(Entries)
         /\ \A a : Count(a) = HowMany(first_twc, Ever(a))
         /\ \A p \in Proc :
              (\E i \in DOMAIN first_twc :
                  first_twc[i].wakeup_addr = p /\ Due(first_twc)[i] <= left[p])
                <=> HowMany(first_twc, Until(p, left[p])) > 0
<1>1. first_twc \in Seq(Entries)
  BY DEF AlarmTypeOK, Entries
<1>2. /\ DOMAIN first_twc = 1..Len(first_twc) /\ Len(first_twc) \in Nat
      /\ \A i \in DOMAIN first_twc : Due(first_twc)[i] \in Nat
  <2>1. DOMAIN first_twc = 1..Len(first_twc) /\ Len(first_twc) \in Nat
    BY <1>1, EntryIs
  <2>2. \A i \in 1..Len(first_twc) : i \in 0..Len(first_twc)
    BY <2>1
  <2> QED
    BY <1>1, <2>1, <2>2, DueIs
<1>3. ASSUME NEW a PROVE Count(a) = HowMany(first_twc, Ever(a))
  <2>1. Chosen(first_twc, Ever(a)) = {i \in DOMAIN first_twc : first_twc[i].wakeup_addr = a}
    BY <1>2 DEF Chosen, Ever
  <2> QED
    BY <2>1 DEF Count, HowMany
<1>4. ASSUME NEW p \in Proc
      PROVE  (\E i \in DOMAIN first_twc :
                  first_twc[i].wakeup_addr = p /\ Due(first_twc)[i] <= left[p])
                <=> HowMany(first_twc, Until(p, left[p])) > 0
  <2> DEFINE Q == Until(p, left[p])
  <2>1. left[p] \in Nat
    BY DEF AlarmTypeOK
  <2>2. \A i \in DOMAIN first_twc :
           i \in Chosen(first_twc, Q)
             <=> first_twc[i].wakeup_addr = p /\ Due(first_twc)[i] <= left[p]
    BY <1>2, <2>1 DEF Chosen, Until
  <2>3. Chosen(first_twc, Q) \subseteq DOMAIN first_twc
    BY DEF Chosen
  <2>4. HowMany(first_twc, Q) \in Nat /\ (HowMany(first_twc, Q) = 0 <=> Chosen(first_twc, Q) = {})
    BY <1>1, ChosenIs
  <2> HIDE DEF Q
  <2>5. HowMany(first_twc, Q) > 0 <=> Chosen(first_twc, Q) # {}
    BY <2>4
  <2>6. Chosen(first_twc, Q) # {} <=> \E i \in DOMAIN first_twc : i \in Chosen(first_twc, Q)
    BY <2>3
  <2> QED
    BY <2>2, <2>5, <2>6 DEF Q
<1> QED
  BY <1>1, <1>3, <1>4

\* AlarmsAreSet in these numbers.
Set(c, sleepers, going, l) ==
  /\ c \in Seq(Entries) /\ Len(c) <= MaxEntries
  /\ sleepers \subseteq Proc /\ going \in BOOLEAN /\ l \in [Proc -> Nat]
  /\ HowMany(c, Ever(vfs_bcacheflush)) = IF going THEN 1 ELSE 0
  /\ HowMany(c, Ever(fdc_disablemotors)) <= 1
  /\ \A p \in sleepers : HowMany(c, Until(p, l[p])) > 0

LEMMA SetIs == AlarmsAreSet <=> Set(first_twc, asleep, flushing, left)
<1>1. AlarmTypeOK <=>
        /\ first_twc \in Seq(Entries) /\ Len(first_twc) <= MaxEntries
        /\ asleep \subseteq Proc /\ flushing \in BOOLEAN /\ left \in [Proc -> Nat]
  BY DEF AlarmTypeOK, Entries
<1>2. ASSUME AlarmTypeOK
      PROVE  KernelAlarms /\ SleeperHasAlarm <=> Set(first_twc, asleep, flushing, left)
  <2>1. asleep \subseteq Proc
    BY <1>2 DEF AlarmTypeOK
  <2>2. KernelAlarms <=>
          /\ HowMany(first_twc, Ever(vfs_bcacheflush)) = IF flushing THEN 1 ELSE 0
          /\ HowMany(first_twc, Ever(fdc_disablemotors)) <= 1
    BY <1>2, Counted DEF KernelAlarms
  <2>3. SleeperHasAlarm <=> \A p \in asleep : HowMany(first_twc, Until(p, left[p])) > 0
    BY <1>2, <2>1, Counted DEF SleeperHasAlarm
  <2> QED
    BY <1>1, <1>2, <2>2, <2>3 DEF Set
<1> QED
  BY <1>1, <1>2 DEF AlarmsAreSet, Set

SetNow == Set(first_twc, asleep, flushing, left)

LEMMA SetNext == AlarmsAreSet' <=> SetNow'
<1>1. AlarmsAreSet <=> SetNow
  BY SetIs DEF SetNow
<1> QED
  BY <1>1, PTL

LEMMA NoneChosen ==
  ASSUME NEW c \in Seq(Entries)
  PROVE  HowMany(c, {}) = 0
BY FS_EmptySet DEF HowMany, Chosen

\* Entries of two kinds, none of them both, are counted one kind after the other.
LEMMA ChosenSplit ==
  ASSUME NEW c \in Seq(Entries), NEW Q, NEW R, Q \cap R = {}
  PROVE  HowMany(c, Q \cup R) = HowMany(c, Q) + HowMany(c, R)
<1>1. Chosen(c, Q \cup R) = Chosen(c, Q) \cup Chosen(c, R)
  BY DEF Chosen
<1>2. Chosen(c, Q) \cap Chosen(c, R) = {}
  BY DEF Chosen
<1>3. /\ IsFiniteSet(Chosen(c, Q)) /\ IsFiniteSet(Chosen(c, R))
      /\ HowMany(c, Q) \in Nat /\ HowMany(c, R) \in Nat
  BY ChosenIs
<1>4. Cardinality(Chosen(c, Q) \cup Chosen(c, R))
        = Cardinality(Chosen(c, Q)) + Cardinality(Chosen(c, R)) - Cardinality({})
  BY <1>2, <1>3, FS_Union
<1>5. Cardinality({}) = 0
  BY FS_EmptySet
<1>6. HowMany(c, Q \cup R) = HowMany(c, Q) + HowMany(c, R) - 0
  BY <1>1, <1>4, <1>5 DEF HowMany
<1> QED
  BY <1>3, <1>6

LEMMA AddrIs ==
  /\ vfs_bcacheflush \in Addr /\ fdc_disablemotors \in Addr /\ Proc \subseteq Addr
  /\ vfs_bcacheflush # fdc_disablemotors
  /\ vfs_bcacheflush \notin Proc /\ fdc_disablemotors \notin Proc
  /\ FlushTicks \in Nat /\ FlushTicks > 0 /\ MotorTicks \in Nat /\ MotorTicks > 0
  /\ Naps \subseteq Nat /\ MaxEntries \in Nat /\ MaxEntries > 0
BY ProcFinite, TicksOK DEF Addr, KFunc

\* The chain the kernel starts with.
LEMMA FirstChain ==
  /\ <<Entry(vfs_bcacheflush, FlushTicks)>> \in Seq(Entries)
  /\ Len(<<Entry(vfs_bcacheflush, FlushTicks)>>) = 1
  /\ \A Q : HowMany(<<Entry(vfs_bcacheflush, FlushTicks)>>, Q)
              = One(<<vfs_bcacheflush, FlushTicks>>, Q)
<1> DEFINE e == Entry(vfs_bcacheflush, FlushTicks)
<1>1. e \in Entries /\ e.wakeup_addr = vfs_bcacheflush /\ e.ticks = FlushTicks
  BY AddrIs DEF Entry, Entries
<1>2. <<>> \in Seq(Entries) /\ Len(<<>>) = 0
  OBVIOUS
<1> HIDE DEF e
<1>3. <<e>> = Append(<<>>, e) /\ <<e>> \in Seq(Entries) /\ Len(<<e>>) = 1
  BY <1>1
<1>4. Due(<<>>)[0] = 0
  BY <1>2, DueIs
<1>5. ASSUME NEW Q PROVE HowMany(<<e>>, Q) = One(<<vfs_bcacheflush, FlushTicks>>, Q)
  <2>1. Chosen(<<>>, Q) \subseteq 1..0
    BY <1>2, ChosenIs
  <2>2. Chosen(<<>>, Q) = {}
    BY <2>1
  <2>3. HowMany(<<>>, Q) = 0
    BY <2>2, FS_EmptySet DEF HowMany
  <2>4. HowMany(Append(<<>>, e), Q)
          = HowMany(<<>>, Q) + One(<<e.wakeup_addr, Due(<<>>)[Len(<<>>)] + e.ticks>>, Q)
    BY <1>1, <1>2, AppendCounts
  <2>5. Due(<<>>)[Len(<<>>)] + e.ticks = FlushTicks
    BY <1>1, <1>2, <1>4, AddrIs
  <2>6. One(<<vfs_bcacheflush, FlushTicks>>, Q) \in Nat
    BY DEF One
  <2>7. HowMany(<<e>>, Q) = 0 + One(<<vfs_bcacheflush, FlushTicks>>, Q)
    BY <1>1, <1>3, <2>3, <2>4, <2>5
  <2> QED
    BY <2>6, <2>7
<1> QED
  BY <1>3, <1>5 DEF e

LEMMA SetInit == TimerInit => AlarmsAreSet
<1> SUFFICES ASSUME TimerInit PROVE Set(first_twc, asleep, flushing, left)
  BY SetIs
<1>1. first_twc = <<Entry(vfs_bcacheflush, FlushTicks)>>
  BY DEF TimerInit
<1>2. first_twc \in Seq(Entries) /\ Len(first_twc) = 1
  BY <1>1, FirstChain
<1>3. HowMany(first_twc, Ever(vfs_bcacheflush)) = 1
  <2>1. <<vfs_bcacheflush, FlushTicks>> \in Ever(vfs_bcacheflush)
    BY AddrIs DEF Ever
  <2> QED
    BY <1>1, <2>1, FirstChain DEF One
<1>4. HowMany(first_twc, Ever(fdc_disablemotors)) = 0
  <2>1. <<vfs_bcacheflush, FlushTicks>> \notin Ever(fdc_disablemotors)
    BY AddrIs DEF Ever
  <2> QED
    BY <1>1, <2>1, FirstChain DEF One
<1>5. 1 <= MaxEntries
  BY AddrIs
<1> QED
  BY <1>2, <1>3, <1>4, <1>5 DEF TimerInit, Set

LEMMA SetNanosleep ==
  ASSUME AlarmsAreSet, NEW p \in Proc, NEW n \in Naps, nanosleep(p, n)
  PROVE  AlarmsAreSet'
<1> USE DEF One
<1>1. Set(first_twc, asleep, flushing, left)
  BY SetIs
<1>2. /\ first_twc' = Insert(first_twc, p, n) /\ Len(first_twc) < MaxEntries
      /\ asleep' = asleep \cup {p} /\ flushing' = flushing
      /\ left' = [left EXCEPT ![p] = n]
  BY DEF nanosleep
<1>3. p \in Addr /\ n \in Nat /\ p # vfs_bcacheflush /\ p # fdc_disablemotors /\ MaxEntries \in Nat
  BY AddrIs
<1>4. first_twc \in Seq(Entries) /\ Len(first_twc) \in Nat
  BY <1>1, EntryIs DEF Set
<1>5. first_twc' \in Seq(Entries) /\ Len(first_twc') = Len(first_twc) + 1
  BY <1>2, <1>3, <1>4, InsertIs
<1>6. \A Q : HowMany(first_twc, Q) \in Nat
  BY <1>4, ChosenIs
<1>7. \A Q : HowMany(first_twc', Q) = HowMany(first_twc, Q) + One(<<p, n>>, Q)
  BY <1>2, <1>3, <1>4, InsertCounts
<1>8. \A a : a # p => HowMany(first_twc', Ever(a)) = HowMany(first_twc, Ever(a))
  <2> SUFFICES ASSUME NEW a, a # p
               PROVE  HowMany(first_twc', Ever(a)) = HowMany(first_twc, Ever(a))
    OBVIOUS
  <2>1. <<p, n>> \notin Ever(a)
    BY DEF Ever
  <2> QED
    BY <1>6, <1>7, <2>1
<1>9. left' \in [Proc -> Nat] /\ asleep' \subseteq Proc
  BY <1>1, <1>2, <1>3 DEF Set
<1>10. ASSUME NEW q \in asleep' PROVE HowMany(first_twc', Until(q, left'[q])) > 0
  <2>1. CASE q = p
    <3>1. left'[q] = n
      BY <1>1, <1>2, <2>1 DEF Set
    <3>2. <<p, n>> \in Until(p, n)
      BY <1>3 DEF Until
    <3> QED
      BY <1>6, <1>7, <2>1, <3>1, <3>2
  <2>2. CASE q # p
    <3>1. left'[q] = left[q] /\ q \in asleep
      BY <1>1, <1>2, <2>2 DEF Set
    <3>2. HowMany(first_twc, Until(q, left[q])) > 0
      BY <1>1, <3>1 DEF Set
    <3> QED
      BY <1>6, <1>7, <3>1, <3>2
  <2> QED
    BY <2>1, <2>2
<1>11. Len(first_twc') <= MaxEntries
  BY <1>2, <1>3, <1>4, <1>5
<1>12. Set(first_twc', asleep', flushing', left')
  BY <1>1, <1>2, <1>3, <1>5, <1>8, <1>9, <1>10, <1>11 DEF Set
<1> QED
  BY <1>12, SetNext DEF SetNow

LEMMA SetSignal ==
  ASSUME AlarmsAreSet, NEW p \in Proc, Signal(p)
  PROVE  AlarmsAreSet'
<1>1. Set(first_twc, asleep, flushing, left)
  BY SetIs
<1>2. asleep' \subseteq asleep /\ UNCHANGED <<first_twc, flushing, left>>
  BY DEF Signal
<1>3. \A q \in asleep' : HowMany(first_twc, Until(q, left[q])) > 0
  BY <1>1, <1>2 DEF Set
<1>4. Set(first_twc', asleep', flushing', left')
  BY <1>1, <1>2, <1>3 DEF Set
<1> QED
  BY <1>4, SetNext DEF SetNow

\* A kernel function armed anew.
LEMMA MotorSet ==
  ASSUME NEW c \in Seq(Entries), Len(c) <= MaxEntries
  PROVE  LET others == Without(c, fdc_disablemotors)
             d == IF Len(others) = MaxEntries THEN others
                  ELSE Insert(others, fdc_disablemotors, MotorTicks)
         IN  /\ d \in Seq(Entries) /\ Len(d) <= MaxEntries
             /\ \A Q : HowMany(d, Q) =
                    HowMany(c, Others(fdc_disablemotors, Q))
                      + IF Len(others) = MaxEntries THEN 0
                        ELSE One(<<fdc_disablemotors, MotorTicks>>, Q)
<1> DEFINE others == Without(c, fdc_disablemotors)
           d == Insert(others, fdc_disablemotors, MotorTicks)
<1>1. others \in Seq(Entries) /\ Len(others) <= Len(c)
  BY WithoutIs
<1>2. \A Q : HowMany(others, Q) = HowMany(c, Others(fdc_disablemotors, Q))
  BY WithoutIs
<1>3. Len(others) \in Nat /\ Len(c) \in Nat /\ MaxEntries \in Nat
  BY <1>1, EntryIs, AddrIs
<1> HIDE DEF others
<1>4. d \in Seq(Entries) /\ Len(d) = Len(others) + 1
  BY <1>1, AddrIs, InsertIs
<1>5. \A Q : HowMany(d, Q) = HowMany(others, Q) + One(<<fdc_disablemotors, MotorTicks>>, Q)
  BY <1>1, AddrIs, InsertCounts
<1>6. \A Q : HowMany(c, Others(fdc_disablemotors, Q)) \in Nat
  BY ChosenIs
<1> HIDE DEF d
<1>7. CASE Len(others) = MaxEntries
  BY <1>1, <1>2, <1>3, <1>6, <1>7 DEF others
<1>8. CASE Len(others) # MaxEntries
  <2>1. Len(d) <= MaxEntries
    BY <1>1, <1>3, <1>4, <1>8
  <2> QED
    BY <1>2, <1>4, <1>5, <1>8, <2>1 DEF others, d
<1> QED
  BY <1>7, <1>8

LEMMA SetMotor ==
  ASSUME AlarmsAreSet, fdc_set_disablemotor
  PROVE  AlarmsAreSet'
<1>1. Set(first_twc, asleep, flushing, left)
  BY SetIs
<1> DEFINE f == fdc_disablemotors
           extra(Q) == IF Len(Without(first_twc, f)) = MaxEntries THEN 0
                       ELSE One(<<f, MotorTicks>>, Q)
<1>2. first_twc \in Seq(Entries) /\ Len(first_twc) <= MaxEntries
  BY <1>1 DEF Set
<1>3. /\ first_twc' \in Seq(Entries) /\ Len(first_twc') <= MaxEntries
      /\ \A Q : HowMany(first_twc', Q) = HowMany(first_twc, Others(f, Q)) + extra(Q)
  BY <1>2, MotorSet DEF fdc_set_disablemotor
<1>4. UNCHANGED <<asleep, flushing, left>>
  BY DEF fdc_set_disablemotor
<1>5. \A Q : extra(Q) \in 0..1 /\ (<<f, MotorTicks>> \notin Q => extra(Q) = 0)
  BY DEF One
<1> HIDE DEF extra
<1>6. \A Q : HowMany(first_twc, Q) \in Nat
  BY <1>2, ChosenIs
<1>7. \A a : a # f => Others(f, Ever(a)) = Ever(a) /\ <<f, MotorTicks>> \notin Ever(a)
  BY DEF Others, Ever
<1>8. Others(f, Ever(f)) = {}
  BY DEF Others, Ever
<1>9. \A a, n : a # f => Others(f, Until(a, n)) = Until(a, n)
  BY DEF Others, Until
<1>10. HowMany(first_twc', Ever(vfs_bcacheflush)) = HowMany(first_twc, Ever(vfs_bcacheflush))
  BY <1>3, <1>5, <1>6, <1>7, AddrIs
<1>11. HowMany(first_twc', Ever(f)) <= 1
  <2>1. HowMany(first_twc, {}) = 0
    BY <1>2, NoneChosen
  <2>2. HowMany(first_twc', Ever(f)) = HowMany(first_twc, Others(f, Ever(f))) + extra(Ever(f))
    BY <1>3
  <2>3. extra(Ever(f)) \in 0..1
    BY <1>5
  <2> QED
    BY <1>8, <2>1, <2>2, <2>3
<1>12. ASSUME NEW p \in asleep PROVE HowMany(first_twc', Until(p, left[p])) > 0
  <2>1. p # f
    BY <1>1, AddrIs DEF Set
  <2>2. HowMany(first_twc', Until(p, left[p]))
          = HowMany(first_twc, Until(p, left[p])) + extra(Until(p, left[p]))
    BY <1>3, <1>9, <2>1
  <2>3. HowMany(first_twc, Until(p, left[p])) > 0
    BY <1>1 DEF Set
  <2> QED
    BY <1>5, <1>6, <2>2, <2>3
<1>13. Set(first_twc', asleep', flushing', left')
  BY <1>1, <1>3, <1>4, <1>10, <1>11, <1>12 DEF Set
<1> QED
  BY <1>13, SetNext DEF SetNow

\* What a tick does to a chain, with vfs_bcacheflush() armed anew or not.
Rearmed(c, again) == Rearm(c, again, Before(c, 0))

\* As many entries are removed by a tick as have no ticks to go.
LEMMA BeforeCounts ==
  ASSUME NEW c \in Seq(Entries)
  PROVE  Before(c, 0) = HowMany(c, Addr \X {0})
<1>1. DOMAIN c = 1..Len(c) /\ Len(c) \in Nat /\ \A i \in 1..Len(c) : c[i].wakeup_addr \in Addr
  BY EntryIs
<1>2. \A i \in DOMAIN c : Due(c)[i] \in Nat
  <2>1. \A i \in 1..Len(c) : i \in 0..Len(c)
    BY <1>1
  <2> QED
    BY <1>1, <2>1, DueIs
<1>3. Chosen(c, Addr \X {0}) = {i \in DOMAIN c : Due(c)[i] <= 0}
  <2>1. \A i \in DOMAIN c : Due(c)[i] <= 0 <=> Due(c)[i] = 0
    BY <1>2
  <2> QED
    BY <1>1, <2>1 DEF Chosen
<1> QED
  BY <1>3 DEF Before, HowMany

\* timer() in numbers: what is left are the entries that were one tick later, and the
\* flush armed anew.
LEMMA TimerChain ==
  ASSUME NEW c \in Seq(Entries), NEW again \in BOOLEAN
  PROVE  LET k == Before(c, 0)
             d == Rearmed(c, again)
             e == CountDown(SubSeq(d, k + 1, Len(d)))
         IN  /\ e \in Seq(Entries)
             /\ Len(e) = IF again THEN Len(c) + 1 - k ELSE Len(c) - k
             /\ \A Q : HowMany(e, Q) =
                   HowMany(c, Later(Q))
                     + IF again THEN One(<<vfs_bcacheflush, FlushTicks>>, Later(Q)) ELSE 0
<1> DEFINE k == Before(c, 0)
           d == Rearmed(c, again)
           e == CountDown(SubSeq(d, k + 1, Len(d)))
<1>1. /\ d \in Seq(Entries) /\ Before(d, 0) = k
      /\ Len(d) = IF again THEN Len(c) + 1 ELSE Len(c)
      /\ \A Q : HowMany(d, Q) =
            HowMany(c, Q) + IF again THEN One(<<vfs_bcacheflush, FlushTicks>>, Q) ELSE 0
  <2>1. \A Q : HowMany(c, Q) \in Nat
    BY ChosenIs
  <2>2. CASE again
    <3>1. d = Insert(c, vfs_bcacheflush, FlushTicks)
      BY <2>2 DEF Rearmed, Rearm
    <3>2. d \in Seq(Entries) /\ Len(d) = Len(c) + 1
      BY <3>1, AddrIs, InsertIs
    <3>3. \A Q : HowMany(d, Q) = HowMany(c, Q) + One(<<vfs_bcacheflush, FlushTicks>>, Q)
      BY <3>1, AddrIs, InsertCounts
    <3>4. <<vfs_bcacheflush, FlushTicks>> \notin Addr \X {0}
      BY AddrIs
    <3> HIDE DEF d, k
    <3>5. HowMany(d, Addr \X {0}) = HowMany(c, Addr \X {0}) + 0
      BY <3>3, <3>4 DEF One
    <3>6. Before(d, 0) = k
      <4>1. Before(d, 0) = HowMany(d, Addr \X {0})
        BY <3>2, BeforeCounts
      <4>2. k = HowMany(c, Addr \X {0}) /\ HowMany(c, Addr \X {0}) \in Nat
        BY <2>1, BeforeCounts DEF k
      <4> QED
        BY <3>5, <4>1, <4>2
    <3> QED
      BY <2>2, <3>2, <3>3, <3>6
  <2>3. CASE ~again
    <3>1. d = c
      BY <2>3 DEF Rearmed, Rearm
    <3> QED
      BY <2>1, <2>3, <3>1
  <2> QED
    BY <2>2, <2>3
<1> HIDE DEF k, d
<1>2. e = Ticked(d)
  BY <1>1 DEF Ticked
<1>3. e \in Seq(Entries) /\ Len(e) = Len(d) - k
  BY <1>1, <1>2, TickIs
<1>4. \A Q : HowMany(e, Q) = HowMany(d, Later(Q))
  BY <1>1, <1>2, TickCounts
<1> HIDE DEF e
<1>5. Len(e) = IF again THEN Len(c) + 1 - k ELSE Len(c) - k
  <2>1. Len(c) \in Nat /\ k \in Nat
    BY EntryIs, BeforeIs DEF k
  <2>2. Len(e) = Len(d) - k /\ Len(d) = IF again THEN Len(c) + 1 ELSE Len(c)
    BY <1>1, <1>3
  <2> QED
    BY <2>1, <2>2
<1>6. ASSUME NEW Q
      PROVE  HowMany(e, Q) =
               HowMany(c, Later(Q))
                 + IF again THEN One(<<vfs_bcacheflush, FlushTicks>>, Later(Q)) ELSE 0
  <2>1. CASE again
    BY <1>1, <1>4, <2>1
  <2>2. CASE ~again
    BY <1>1, <1>4, <2>2
  <2> QED
    BY <2>1, <2>2
<1>7. /\ e \in Seq(Entries)
      /\ Len(e) = IF again THEN Len(c) + 1 - k ELSE Len(c) - k
      /\ \A Q : HowMany(e, Q) =
            HowMany(c, Later(Q))
              + IF again THEN One(<<vfs_bcacheflush, FlushTicks>>, Later(Q)) ELSE 0
  BY <1>3, <1>5, <1>6
<1> QED
  BY <1>7, Zenon DEF k, d, e

After(a) == {a} \X (Nat \ {0})

LEMMA Times ==
  ASSUME NEW a \in Addr
  PROVE  /\ Ever(a) = {<<a, 0>>} \cup After(a) /\ {<<a, 0>>} \cap After(a) = {}
         /\ Later(Ever(a)) = After(a)
         /\ \A n \in Nat :
              /\ Until(a, n) = {<<a, 0>>} \cup Later(Until(a, n - 1))
              /\ {<<a, 0>>} \cap Later(Until(a, n - 1)) = {}
<1>1. Ever(a) = {<<a, 0>>} \cup After(a) /\ {<<a, 0>>} \cap After(a) = {}
  BY DEF Ever, After
<1>2. Later(Ever(a)) = After(a)
  <2>1. \A n \in Nat : n > 0 <=> n \in Nat \ {0}
    OBVIOUS
  <2>2. \A n \in Nat : n > 0 => n - 1 \in Nat
    OBVIOUS
  <2>3. \A x \in Addr \X Nat : x = <<x[1], x[2]>> /\ x[1] \in Addr /\ x[2] \in Nat
    OBVIOUS
  <2>4. ASSUME NEW x \in Later(Ever(a)) PROVE x \in After(a)
    BY <2>1, <2>3, <2>4 DEF Later, Ever, After
  <2>5. ASSUME NEW x \in After(a) PROVE x \in Later(Ever(a))
    BY <2>1, <2>2, <2>5 DEF Later, Ever, After
  <2> QED
    BY <2>4, <2>5
<1>3. ASSUME NEW n \in Nat
      PROVE  /\ Until(a, n) = {<<a, 0>>} \cup Later(Until(a, n - 1))
             /\ {<<a, 0>>} \cap Later(Until(a, n - 1)) = {}
  <2>1. ASSUME NEW x \in Until(a, n), x # <<a, 0>> PROVE x \in Later(Until(a, n - 1))
    <3>1. PICK m \in 0..n : x = <<a, m>>
      BY DEF Until
    <3>2. m # 0 /\ m \in Nat /\ m > 0 /\ m - 1 \in 0..(n - 1)
      BY <2>1, <3>1
    <3> QED
      BY <3>1, <3>2 DEF Later, Until
  <2>2. ASSUME NEW x \in Later(Until(a, n - 1)) PROVE x \in Until(a, n) /\ x # <<a, 0>>
    <3>1. x \in Addr \X Nat /\ x[2] > 0 /\ x[1] = a /\ x[2] - 1 \in 0..(n - 1)
      BY DEF Later, Until
    <3>2. x = <<a, x[2]>> /\ x[2] \in 0..n /\ x[2] # 0
      BY <3>1
    <3> QED
      BY <3>2 DEF Until
  <2>3. <<a, 0>> \in Until(a, n)
    BY DEF Until
  <2> QED
    BY <2>1, <2>2, <2>3
<1> QED
  BY <1>1, <1>2, <1>3

LEMMA SomeChosen ==
  ASSUME NEW c \in Seq(Entries), NEW Q
  PROVE  HowMany(c, Q) > 0 <=> Chosen(c, Q) # {}
<1>1. HowMany(c, Q) \in Nat /\ (HowMany(c, Q) = 0 <=> Chosen(c, Q) = {})
  BY ChosenIs
<1> QED
  BY <1>1

\* Who goes off at a tick: those that have an entry with no ticks to go.
Fired == {first_twc[i].wakeup_addr : i \in 1..Before(first_twc, 0)}

\* An address goes off exactly if it has an entry that is due.
LEMMA FiredIs ==
  ASSUME first_twc \in Seq(Entries)
  PROVE  /\ Fired \subseteq Addr
         /\ Fired # {} => Before(first_twc, 0) > 0
         /\ \A a : a \in Fired <=> HowMany(first_twc, {<<a, 0>>}) > 0
<1> DEFINE c == first_twc
           k == Before(c, 0)
<1>1. /\ k \in 0..Len(c) /\ Len(c) \in Nat /\ DOMAIN c = 1..Len(c)
      /\ \A i \in 1..Len(c) : c[i].wakeup_addr \in Addr
  BY BeforeIs, EntryIs
<1>2. \A i \in 1..Len(c) : Due(c)[i] = 0 <=> i \in 1..k
  <2>1. \A i \in 1..Len(c) : Due(c)[i] \in Nat
    <3>1. \A i \in 1..Len(c) : i \in 0..Len(c)
      BY <1>1
    <3> QED
      BY <3>1, DueIs
  <2>2. \A i \in 0..k : Due(c)[i] <= 0
    BY BeforeIs
  <2>3. \A i \in (k + 1)..Len(c) : Due(c)[i] > 0
    BY BeforeIs
  <2> HIDE DEF k, c
  <2> SUFFICES ASSUME NEW i \in 1..Len(c) PROVE Due(c)[i] = 0 <=> i \in 1..k
    OBVIOUS
  <2>4. Due(c)[i] \in Nat
    BY <2>1
  <2>5. CASE i \in 1..k
    <3>1. i \in 0..k
      BY <1>1, <2>5
    <3> QED
      BY <2>2, <2>4, <2>5, <3>1
  <2>6. CASE i \notin 1..k
    <3>1. i \in (k + 1)..Len(c)
      BY <1>1, <2>6
    <3> QED
      BY <2>3, <2>4, <2>6, <3>1
  <2> QED
    BY <2>5, <2>6
<1>3. ASSUME NEW a PROVE a \in Fired <=> HowMany(c, {<<a, 0>>}) > 0
  <2>2. Chosen(c, {<<a, 0>>}) = {i \in 1..k : c[i].wakeup_addr = a}
    <3>1. \A i \in 1..k : i \in 1..Len(c)
      BY <1>1
    <3>2. \A i \in 1..Len(c) : i \in Chosen(c, {<<a, 0>>}) <=> i \in 1..k /\ c[i].wakeup_addr = a
      BY <1>1, <1>2 DEF Chosen
    <3>3. Chosen(c, {<<a, 0>>}) \subseteq 1..Len(c)
      BY <1>1 DEF Chosen
    <3> HIDE DEF k, c
    <3> QED
      BY <3>1, <3>2, <3>3
  <2>3. a \in Fired <=> {i \in 1..k : c[i].wakeup_addr = a} # {}
    BY DEF Fired
  <2>4. HowMany(c, {<<a, 0>>}) > 0 <=> Chosen(c, {<<a, 0>>}) # {}
    BY SomeChosen
  <2> QED
    BY <2>2, <2>3, <2>4, Zenon
<1>4. Fired \subseteq Addr
  <2>1. \A i \in 1..k : i \in 1..Len(c)
    BY <1>1
  <2> QED
    BY <1>1, <2>1 DEF Fired
<1>5. Fired # {} => k > 0
  <2>1. k \in Nat
    BY <1>1
  <2> QED
    BY <2>1 DEF Fired
<1> QED
  BY <1>3, <1>4, <1>5

LEMMA TimerIs ==
  ASSUME timer
  PROVE  \E again \in BOOLEAN :
            /\ again => vfs_bcacheflush \in Fired
            /\ flushing' = (flushing /\ (vfs_bcacheflush \in Fired => again))
            /\ first_twc' =
                 LET d == Rearmed(first_twc, again)
                 IN  CountDown(SubSeq(d, Before(first_twc, 0) + 1, Len(d)))
            /\ asleep' = asleep \ Fired
            /\ left' = [p \in Proc |-> IF left[p] > 0 THEN left[p] - 1 ELSE 0]
BY Zenon DEF timer, Fired, Rearmed

\* A tick: who is still asleep had no entry that was due, so one is left, and the ticks
\* left of the sleep count down with it.
LEMMA SetTimer ==
  ASSUME AlarmsAreSet, timer
  PROVE  AlarmsAreSet'
<1> DEFINE c  == first_twc
           fl == vfs_bcacheflush
           fd == fdc_disablemotors
           k  == Before(c, 0)
<1>1. Set(c, asleep, flushing, left)
  BY SetIs
<1>2. PICK again \in BOOLEAN :
            /\ again => fl \in Fired
            /\ flushing' = (flushing /\ (fl \in Fired => again))
            /\ first_twc' =
                 LET d == Rearmed(c, again)
                 IN  CountDown(SubSeq(d, k + 1, Len(d)))
            /\ asleep' = asleep \ Fired
            /\ left' = [p \in Proc |-> IF left[p] > 0 THEN left[p] - 1 ELSE 0]
  BY TimerIs
<1> DEFINE extra(Q) == IF again THEN One(<<fl, FlushTicks>>, Later(Q)) ELSE 0
<1>3. c \in Seq(Entries) /\ Len(c) \in Nat /\ Len(c) <= MaxEntries /\ k \in 0..Len(c)
  BY <1>1, EntryIs, BeforeIs DEF Set
<1>4. /\ first_twc' \in Seq(Entries)
      /\ Len(first_twc') = IF again THEN Len(c) + 1 - k ELSE Len(c) - k
      /\ \A Q : HowMany(first_twc', Q) = HowMany(c, Later(Q)) + extra(Q)
  <2> DEFINE d == Rearmed(c, again)
             e == CountDown(SubSeq(d, k + 1, Len(d)))
  <2>1. first_twc' = e
    BY <1>2, Zenon
  <2>2. /\ e \in Seq(Entries)
        /\ Len(e) = IF again THEN Len(c) + 1 - k ELSE Len(c) - k
        /\ \A Q : HowMany(e, Q) =
              HowMany(c, Later(Q)) + IF again THEN One(<<fl, FlushTicks>>, Later(Q)) ELSE 0
    BY <1>3, TimerChain, Zenon
  <2> HIDE DEF e
  <2> QED
    BY <2>1, <2>2, Zenon DEF extra
<1>5. \A Q : HowMany(c, Q) \in Nat
  BY <1>3, ChosenIs
<1>6. \A Q : extra(Q) \in 0..1 /\ (~again \/ <<fl, FlushTicks>> \notin Later(Q) => extra(Q) = 0)
             /\ (again /\ <<fl, FlushTicks>> \in Later(Q) => extra(Q) = 1)
  BY DEF One
<1>7. /\ again => k > 0
      /\ \A a : a \in Fired <=> HowMany(c, {<<a, 0>>}) > 0
  BY <1>2, <1>3, FiredIs
<1> HIDE DEF extra, k, c
<1>8. Len(first_twc') <= MaxEntries
  <2>1. MaxEntries \in Nat
    BY AddrIs
  <2> QED
    BY <1>3, <1>4, <1>7, <2>1
<1>9. \A a \in Addr : HowMany(c, Ever(a)) = HowMany(c, {<<a, 0>>}) + HowMany(c, After(a))
  BY <1>3, Times, ChosenSplit
<1>10. HowMany(first_twc', Ever(fl)) = IF flushing' THEN 1 ELSE 0
  <2>1. HowMany(first_twc', Ever(fl)) = HowMany(c, After(fl)) + extra(Ever(fl))
    BY <1>4, AddrIs, Times
  <2>2. <<fl, FlushTicks>> \in Later(Ever(fl))
    <3>1. <<fl, FlushTicks>> \in After(fl)
      BY AddrIs DEF After
    <3> QED
      BY <3>1, AddrIs, Times
  <2>3. extra(Ever(fl)) = IF again THEN 1 ELSE 0
    BY <1>6, <2>2
  <2>4. HowMany(c, {<<fl, 0>>}) + HowMany(c, After(fl)) = IF flushing THEN 1 ELSE 0
    BY <1>1, <1>9, AddrIs DEF Set, c
  <2>5. HowMany(c, {<<fl, 0>>}) \in Nat /\ HowMany(c, After(fl)) \in Nat
    BY <1>5
  <2>6. flushing \in BOOLEAN
    BY <1>1 DEF Set
  <2>7. CASE fl \in Fired
    <3>1. HowMany(c, {<<fl, 0>>}) > 0
      BY <1>7, <2>7
    <3>2. flushing /\ HowMany(c, After(fl)) = 0
      BY <2>4, <2>5, <2>6, <3>1
    <3>3. flushing' = again
      BY <1>2, <2>7, <3>2
    <3> QED
      BY <2>1, <2>3, <3>2, <3>3
  <2>8. CASE fl \notin Fired
    <3>1. HowMany(c, {<<fl, 0>>}) = 0
      BY <1>7, <2>5, <2>8
    <3>2. HowMany(c, After(fl)) = IF flushing THEN 1 ELSE 0
      BY <2>4, <2>5, <3>1
    <3>3. ~again /\ (flushing' <=> flushing)
      BY <1>2, <2>6, <2>8
    <3> QED
      BY <2>1, <2>3, <2>5, <3>2, <3>3
  <2> QED
    BY <2>7, <2>8
<1>11. HowMany(first_twc', Ever(fd)) <= 1
  <2>1. HowMany(first_twc', Ever(fd)) = HowMany(c, After(fd)) + extra(Ever(fd))
    BY <1>4, AddrIs, Times
  <2>2. <<fl, FlushTicks>> \notin Later(Ever(fd))
    <3>1. <<fl, FlushTicks>> \notin After(fd)
      BY AddrIs DEF After
    <3> QED
      BY <3>1, AddrIs, Times
  <2>3. HowMany(c, {<<fd, 0>>}) + HowMany(c, After(fd)) <= 1
    BY <1>1, <1>9, AddrIs DEF Set, c
  <2>4. HowMany(c, {<<fd, 0>>}) \in Nat /\ HowMany(c, After(fd)) \in Nat
    BY <1>5
  <2> QED
    BY <1>6, <2>1, <2>2, <2>3, <2>4
<1>12. left' \in [Proc -> Nat] /\ asleep' \subseteq Proc /\ flushing' \in BOOLEAN
  <2>1. left \in [Proc -> Nat] /\ asleep \subseteq Proc /\ flushing \in BOOLEAN
    BY <1>1 DEF Set
  <2>2. left' \in [Proc -> Nat]
    BY <1>2, <2>1
  <2> QED
    BY <1>2, <2>1, <2>2
<1>13. ASSUME NEW q \in asleep' PROVE HowMany(first_twc', Until(q, left'[q])) > 0
  <2>1. q \in asleep /\ q \in Proc /\ q \notin Fired /\ q \in Addr /\ left[q] \in Nat
    BY <1>1, <1>2, <1>13, AddrIs DEF Set
  <2>2. HowMany(c, {<<q, 0>>}) = 0 /\ HowMany(c, Until(q, left[q])) > 0
    BY <1>1, <1>5, <1>7, <2>1 DEF Set
  <2>3. HowMany(c, Until(q, left[q]))
          = HowMany(c, {<<q, 0>>}) + HowMany(c, Later(Until(q, left[q] - 1)))
    BY <1>3, <2>1, Times, ChosenSplit
  <2>4. HowMany(c, Later(Until(q, left[q] - 1))) \in Nat
    BY <1>5
  <2>5. HowMany(c, Later(Until(q, left[q] - 1))) > 0
    BY <2>2, <2>3, <2>4
  <2>6. left[q] # 0
    <3> SUFFICES ASSUME left[q] = 0 PROVE FALSE
      OBVIOUS
    <3>1. Later(Until(q, left[q] - 1)) = {}
      <4>1. 0..(0 - 1) = {}
        OBVIOUS
      <4>2. Until(q, left[q] - 1) = {}
        BY <4>1 DEF Until
      <4> QED
        BY <4>2 DEF Later
    <3>2. HowMany(c, {}) = 0
      BY <1>3, NoneChosen
    <3> QED
      BY <2>5, <3>1, <3>2
  <2>7. left'[q] = left[q] - 1
    BY <1>2, <2>1, <2>6
  <2>8. HowMany(first_twc', Until(q, left'[q]))
          = HowMany(c, Later(Until(q, left[q] - 1))) + extra(Until(q, left[q] - 1))
    BY <1>4, <2>7
  <2>9. extra(Until(q, left[q] - 1)) \in 0..1
    BY <1>6
  <2> QED
    BY <2>4, <2>5, <2>8, <2>9
<1>14. Set(first_twc', asleep', flushing', left')
  BY <1>4, <1>8, <1>10, <1>11, <1>12, <1>13 DEF Set
<1> QED
  BY <1>14, SetNext DEF SetNow

LEMMA SetStep == AlarmsAreSet /\ [TimerNext]_timerVars => AlarmsAreSet'
<1> SUFFICES ASSUME AlarmsAreSet, [TimerNext]_timerVars PROVE AlarmsAreSet'
  OBVIOUS
<1>1. CASE \E p \in Proc, n \in Naps : nanosleep(p, n)
  BY <1>1, SetNanosleep
<1>2. CASE \E p \in Proc : Signal(p)
  BY <1>2, SetSignal
<1>3. CASE fdc_set_disablemotor
  BY <1>3, SetMotor
<1>4. CASE timer
  BY <1>4, SetTimer
<1>5. CASE UNCHANGED timerVars
  <2>1. SetNow
    BY SetIs DEF SetNow
  <2>2. SetNow'
    BY <1>5, <2>1 DEF timerVars, SetNow
  <2> QED
    BY <2>2, SetNext
<1> QED
  BY <1>1, <1>2, <1>3, <1>4, <1>5 DEF TimerNext

\* However signals, resets and re-arming inside timer() interleave, no entry of the
\* chain ever waits a negative number of ticks, the flush of the block cache stays
\* armed once and the motor alarm at most once, and a process asleep in nanosleep()
\* has an entry that wakes it in time (kern/timer.c:200-394).
THEOREM AlarmsStaySet == TimerSpec => []AlarmsAreSet
BY SetInit, SetStep, PTL DEF TimerSpec

-----------------------------------------------------------------------------
(***************************************************************************)
(* The refinement of Alarms.tla.  The number of alarms for a that have n   *)
(* ticks to go is the number of entries for a with n ticks to go, and no   *)
(* entry is further away than the longest time an alarm is set for.        *)
(***************************************************************************)
\* A finite set of naturals that is not empty has a greatest element.
LEMMA Greatest ==
  ASSUME NEW S, IsFiniteSet(S), S \subseteq Nat, S # {}
  PROVE  \E n \in S : \A m \in S : m <= n
<1> DEFINE Above(n) == {m \in S : m > n}
           T == {Cardinality(Above(n)) : n \in S}
<1>1. \A n \in S : IsFiniteSet(Above(n)) /\ Cardinality(Above(n)) \in Nat
  BY FS_Subset, FS_CardinalityType
<1>2. T \in SUBSET Nat /\ T # {}
  BY <1>1
<1>3. PICK t \in T : \A u \in T : t <= u
  <2> HIDE DEF T
  <2> QED
    BY <1>2, LeastNatural
<1>4. PICK n \in S : t = Cardinality(Above(n))
  OBVIOUS
<1>5. ASSUME NEW m \in S, m > n PROVE FALSE
  <2>1. Above(m) \subseteq Above(n) /\ m \in Above(n) /\ m \notin Above(m)
    <3>1. m \in Nat /\ n \in Nat /\ \A x \in S : x \in Nat
      OBVIOUS
    <3>2. \A x \in S : x > m => x > n
      BY <1>5, <3>1
    <3>3. ~(m > m)
      BY <3>1
    <3> QED
      BY <1>5, <3>2, <3>3, Zenon
  <2>2. /\ Cardinality(Above(m)) <= Cardinality(Above(n))
        /\ Cardinality(Above(m)) # Cardinality(Above(n))
    <3> HIDE DEF Above
    <3> QED
      BY <1>1, <2>1, FS_Subset
  <2>3. t <= Cardinality(Above(m))
    BY <1>3
  <2> HIDE DEF Above
  <2> QED
    BY <1>1, <1>4, <2>2, <2>3
<1>6. \A m \in S : m <= n
  BY <1>5
<1> QED
  BY <1>6

LEMMA LongestIs ==
  /\ Longest \in Nat /\ Naps \subseteq 0..Longest
  /\ FlushTicks \in 0..Longest /\ MotorTicks \in 0..Longest
<1> DEFINE S == Naps \cup {FlushTicks, MotorTicks}
<1>1. S \subseteq Nat /\ S # {}
  BY AddrIs
<1>2. IsFiniteSet(S)
  <2>1. IsFiniteSet(Naps \cup {FlushTicks})
    BY TicksOK, FS_AddElement
  <2>2. IsFiniteSet((Naps \cup {FlushTicks}) \cup {MotorTicks})
    BY <2>1, FS_AddElement
  <2>3. S = (Naps \cup {FlushTicks}) \cup {MotorTicks}
    OBVIOUS
  <2> QED
    BY <2>2, <2>3
<1>3. \E n \in S : \A m \in S : m <= n
  <2> HIDE DEF S
  <2> QED
    BY <1>1, <1>2, Greatest
<1>4. Longest \in S /\ \A m \in S : m <= Longest
  BY <1>3 DEF Longest
<1> QED
  BY <1>1, <1>4

\* How many alarms for a have n ticks to go, for every a and n: what Alarms.tla
\* calls pending.
Togo(c)    == [a \in Addr |-> [n \in 0..Longest |-> HowMany(c, {<<a, n>>})]]
TogoNow    == Togo(first_twc)
PendingNow == [a \in Addr |-> TimesToGo(a)]

\* The abstract state is this table of numbers.
LEMMA PendingIs == AlarmTypeOK => PendingNow = TogoNow
<1> SUFFICES ASSUME AlarmTypeOK, NEW a \in Addr, NEW n \in 0..Longest
             PROVE  TimesToGo(a)[n] = HowMany(first_twc, {<<a, n>>})
  BY DEF PendingNow, TogoNow, Togo, TimesToGo
<1>1. {i \in {i \in DOMAIN first_twc : first_twc[i].wakeup_addr = a} : Due(first_twc)[i] = n}
        = Chosen(first_twc, {<<a, n>>})
  BY DEF Chosen
<1> QED
  BY <1>1 DEF TimesToGo, HowMany

PendingAsCounted == PendingNow = TogoNow

LEMMA PendingNext == AlarmTypeOK' => PendingNow' = TogoNow'
<1>1. AlarmTypeOK => PendingAsCounted
  BY PendingIs DEF PendingAsCounted
<1>2. AlarmTypeOK' => PendingAsCounted'
  BY <1>1, PTL
<1> QED
  BY <1>2 DEF PendingAsCounted

\* No entry is further away than the longest time an alarm is set for.
Near == \A a \in Addr, n \in Nat : n > Longest => HowMany(first_twc, {<<a, n>>}) = 0

LEMMA NapMoves ==
  ASSUME AlarmsAreSet, Near, NEW p \in Proc, NEW n \in Naps, nanosleep(p, n)
  PROVE  Near' /\ TogoNow' = [TogoNow EXCEPT ![p][n] = @ + 1]
<1>1. first_twc \in Seq(Entries)
  BY SetIs DEF Set
<1>2. p \in Addr /\ n \in 0..Longest /\ n \in Nat /\ Longest \in Nat
  BY AddrIs, LongestIs
<1>3. \A Q : HowMany(first_twc', Q) = HowMany(first_twc, Q) + One(<<p, n>>, Q)
  BY <1>1, <1>2, InsertCounts DEF nanosleep
<1>4. \A Q : HowMany(first_twc, Q) \in Nat
  BY <1>1, ChosenIs
<1>5. \A a, m : One(<<p, n>>, {<<a, m>>}) = IF a = p /\ m = n THEN 1 ELSE 0
  BY DEF One
<1>6. \A a, m : HowMany(first_twc', {<<a, m>>}) =
                  HowMany(first_twc, {<<a, m>>}) + IF a = p /\ m = n THEN 1 ELSE 0
  BY <1>3, <1>5
<1>7. \A a, m : a # p \/ m # n => HowMany(first_twc', {<<a, m>>}) = HowMany(first_twc, {<<a, m>>})
  <2> SUFFICES ASSUME NEW a, NEW m, a # p \/ m # n
               PROVE  HowMany(first_twc', {<<a, m>>}) = HowMany(first_twc, {<<a, m>>})
    OBVIOUS
  <2>1. HowMany(first_twc', {<<a, m>>}) = HowMany(first_twc, {<<a, m>>}) + 0
    BY <1>6
  <2>2. HowMany(first_twc, {<<a, m>>}) \in Nat
    BY <1>4
  <2> QED
    BY <2>1, <2>2
<1>8. Near'
  BY <1>2, <1>7 DEF Near
<1>9. HowMany(first_twc', {<<p, n>>}) = HowMany(first_twc, {<<p, n>>}) + 1
  BY <1>6
<1>10. TogoNow' = [TogoNow EXCEPT ![p][n] = @ + 1]
  BY <1>2, <1>7, <1>9 DEF TogoNow, Togo
<1> QED
  BY <1>8, <1>10

LEMMA MotorMoves ==
  ASSUME AlarmsAreSet, Near, fdc_set_disablemotor
  PROVE  /\ Near'
         /\ \E k \in {0, 1} :
               TogoNow' = [TogoNow EXCEPT ![fdc_disablemotors] =
                              [m \in 0..Longest |-> IF m = MotorTicks THEN k ELSE 0]]
<1> DEFINE f == fdc_disablemotors
           k == IF Len(Without(first_twc, f)) = MaxEntries THEN 0 ELSE 1
<1>1. first_twc \in Seq(Entries) /\ Len(first_twc) <= MaxEntries
  BY SetIs DEF Set
<1>2. f \in Addr /\ MotorTicks \in 0..Longest /\ Longest \in Nat
  BY AddrIs, LongestIs
<1>3. \A Q : HowMany(first_twc', Q) =
                HowMany(first_twc, Others(f, Q))
                  + IF Len(Without(first_twc, f)) = MaxEntries THEN 0
                    ELSE One(<<f, MotorTicks>>, Q)
  BY <1>1, MotorSet DEF fdc_set_disablemotor
<1>4. \A Q : HowMany(first_twc, Q) \in Nat
  BY <1>1, ChosenIs
<1>5. \A a, m : Others(f, {<<a, m>>}) = IF a = f THEN {} ELSE {<<a, m>>}
  BY DEF Others
<1>6. HowMany(first_twc, {}) = 0
  BY <1>1, NoneChosen
<1>7. \A a, m : One(<<f, MotorTicks>>, {<<a, m>>}) = IF a = f /\ m = MotorTicks THEN 1 ELSE 0
  BY DEF One
<1>8. k \in {0, 1}
  OBVIOUS
<1>9. \A m : HowMany(first_twc', {<<f, m>>}) = IF m = MotorTicks THEN k ELSE 0
  <2> SUFFICES ASSUME NEW m PROVE HowMany(first_twc', {<<f, m>>}) = IF m = MotorTicks THEN k ELSE 0
    OBVIOUS
  <2>1. HowMany(first_twc, Others(f, {<<f, m>>})) = 0
    BY <1>5, <1>6
  <2>2. HowMany(first_twc', {<<f, m>>}) =
          0 + IF Len(Without(first_twc, f)) = MaxEntries THEN 0
              ELSE One(<<f, MotorTicks>>, {<<f, m>>})
    BY <1>3, <2>1
  <2>3. One(<<f, MotorTicks>>, {<<f, m>>}) = IF m = MotorTicks THEN 1 ELSE 0
    BY <1>7
  <2>4. CASE Len(Without(first_twc, f)) = MaxEntries
    BY <2>2, <2>4
  <2>5. CASE Len(Without(first_twc, f)) # MaxEntries
    BY <2>2, <2>3, <2>5
  <2> QED
    BY <2>4, <2>5
<1>10. \A a, m : a # f => HowMany(first_twc', {<<a, m>>}) = HowMany(first_twc, {<<a, m>>})
  <2> SUFFICES ASSUME NEW a, NEW m, a # f
               PROVE  HowMany(first_twc', {<<a, m>>}) = HowMany(first_twc, {<<a, m>>})
    OBVIOUS
  <2>1. HowMany(first_twc, Others(f, {<<a, m>>})) = HowMany(first_twc, {<<a, m>>})
    BY <1>5
  <2>2. HowMany(first_twc', {<<a, m>>}) =
          HowMany(first_twc, {<<a, m>>})
            + IF Len(Without(first_twc, f)) = MaxEntries THEN 0
              ELSE One(<<f, MotorTicks>>, {<<a, m>>})
    BY <1>3, <2>1
  <2>3. HowMany(first_twc', {<<a, m>>}) = HowMany(first_twc, {<<a, m>>}) + 0
    BY <1>7, <2>2
  <2>4. HowMany(first_twc, {<<a, m>>}) \in Nat
    BY <1>4
  <2> QED
    BY <2>3, <2>4
<1> HIDE DEF k
<1>11. Near'
  <2> SUFFICES ASSUME NEW a \in Addr, NEW m \in Nat, m > Longest
               PROVE  HowMany(first_twc', {<<a, m>>}) = 0
    BY DEF Near
  <2>1. m # MotorTicks
    BY <1>2
  <2> QED
    BY <1>9, <1>10, <2>1 DEF Near
<1>12. TogoNow' = [TogoNow EXCEPT ![f] = [m \in 0..Longest |-> IF m = MotorTicks THEN k ELSE 0]]
  BY <1>2, <1>9, <1>10 DEF TogoNow, Togo
<1> QED
  BY <1>8, <1>11, <1>12

\* A tick moves every number one place down.
LEMMA TickMoves ==
  ASSUME AlarmsAreSet, Near, timer
  PROVE  /\ Near'
         /\ \E again \in SUBSET KFunc :
               /\ again \subseteq Fired
               /\ TogoNow' = [a \in Addr |-> [m \in 0..Longest |->
                     IF m = Longest THEN 0
                     ELSE TogoNow[a][m + 1] + IF a \in again /\ m + 1 = FlushTicks THEN 1 ELSE 0]]
         /\ asleep' = asleep \ Fired
<1> DEFINE c  == first_twc
           fl == vfs_bcacheflush
           k  == Before(c, 0)
<1>1. c \in Seq(Entries)
  BY SetIs DEF Set
<1>2. PICK again \in BOOLEAN :
            /\ again => fl \in Fired
            /\ first_twc' =
                 LET d == Rearmed(c, again)
                 IN  CountDown(SubSeq(d, k + 1, Len(d)))
            /\ asleep' = asleep \ Fired
  BY TimerIs
<1>3. \A Q : HowMany(first_twc', Q) =
               HowMany(c, Later(Q)) + IF again THEN One(<<fl, FlushTicks>>, Later(Q)) ELSE 0
  <2> DEFINE d == Rearmed(c, again)
             e == CountDown(SubSeq(d, k + 1, Len(d)))
  <2>1. first_twc' = e
    BY <1>2, Zenon
  <2>2. \A Q : HowMany(e, Q) =
              HowMany(c, Later(Q)) + IF again THEN One(<<fl, FlushTicks>>, Later(Q)) ELSE 0
    BY <1>1, TimerChain, Zenon
  <2> HIDE DEF e
  <2> QED
    BY <2>1, <2>2, Zenon
<1> DEFINE extra(a, m) == IF again /\ a = fl /\ m = FlushTicks THEN 1 ELSE 0
<1>4. /\ fl \in Addr /\ FlushTicks \in 0..Longest /\ FlushTicks > 0 /\ Longest \in Nat
  BY AddrIs, LongestIs
<1>5. \A a \in Addr, m \in Nat : Later({<<a, m>>}) = {<<a, m + 1>>}
  <2> SUFFICES ASSUME NEW a \in Addr, NEW m \in Nat
               PROVE  Later({<<a, m>>}) = {<<a, m + 1>>}
    OBVIOUS
  <2>1. ASSUME NEW x \in Later({<<a, m>>}) PROVE x = <<a, m + 1>>
    <3>1. x \in Addr \X Nat /\ <<x[1], x[2] - 1>> = <<a, m>>
      BY DEF Later
    <3>2. x[1] = a /\ x[2] = m + 1 /\ x = <<x[1], x[2]>>
      BY <3>1
    <3> QED
      BY <3>2
  <2>2. <<a, m + 1>> \in Later({<<a, m>>})
    BY DEF Later
  <2> QED
    BY <2>1, <2>2
<1>6. \A a, m : One(<<fl, FlushTicks>>, {<<a, m>>}) = IF a = fl /\ m = FlushTicks THEN 1 ELSE 0
  BY DEF One
<1>7. \A Q : HowMany(c, Q) \in Nat
  BY <1>1, ChosenIs
<1> HIDE DEF c, fl, k
<1>8. \A a \in Addr, m \in Nat :
         HowMany(first_twc', {<<a, m>>}) = HowMany(c, {<<a, m + 1>>}) + extra(a, m + 1)
  <2> SUFFICES ASSUME NEW a \in Addr, NEW m \in Nat
               PROVE  HowMany(first_twc', {<<a, m>>}) = HowMany(c, {<<a, m + 1>>}) + extra(a, m + 1)
    OBVIOUS
  <2>1. Later({<<a, m>>}) = {<<a, m + 1>>}
    BY <1>5
  <2>2. HowMany(first_twc', {<<a, m>>}) =
          HowMany(c, {<<a, m + 1>>})
            + IF again THEN One(<<fl, FlushTicks>>, {<<a, m + 1>>}) ELSE 0
    BY <1>3, <2>1
  <2>3. One(<<fl, FlushTicks>>, {<<a, m + 1>>})
          = IF a = fl /\ m + 1 = FlushTicks THEN 1 ELSE 0
    BY <1>6
  <2>4. CASE again
    BY <2>2, <2>3, <2>4
  <2>5. CASE ~again
    BY <2>2, <2>5
  <2> QED
    BY <2>4, <2>5
<1>9. \A a \in Addr, m \in Nat : m >= Longest => HowMany(first_twc', {<<a, m>>}) = 0
  <2> SUFFICES ASSUME NEW a \in Addr, NEW m \in Nat, m >= Longest
               PROVE  HowMany(first_twc', {<<a, m>>}) = 0
    OBVIOUS
  <2>1. m + 1 \in Nat /\ m + 1 > Longest
    BY <1>4
  <2>2. HowMany(c, {<<a, m + 1>>}) = 0
    BY <2>1 DEF Near, c
  <2>3. m + 1 # FlushTicks
    BY <1>4, <2>1
  <2>4. extra(a, m + 1) = 0
    BY <2>3
  <2> QED
    BY <1>8, <2>2, <2>4
<1>10. Near'
  <2>1. \A m \in Nat : m > Longest => m >= Longest
    BY <1>4
  <2> QED
    BY <1>9, <2>1 DEF Near
<1> DEFINE anew == IF again THEN {fl} ELSE {}
<1>11. anew \in SUBSET KFunc /\ anew \subseteq Fired
  BY <1>2 DEF KFunc, fl
<1>12. \A a, m : extra(a, m) = IF a \in anew /\ m = FlushTicks THEN 1 ELSE 0
  OBVIOUS
<1> HIDE DEF extra, anew
<1>13. ASSUME NEW a \in Addr, NEW m \in 0..Longest
       PROVE  HowMany(first_twc', {<<a, m>>}) =
                IF m = Longest THEN 0
                ELSE TogoNow[a][m + 1] + IF a \in anew /\ m + 1 = FlushTicks THEN 1 ELSE 0
  <2>1. m \in Nat
    BY <1>4
  <2>2. CASE m = Longest
    BY <1>4, <1>9, <2>1, <2>2
  <2>3. CASE m # Longest
    <3>1. m + 1 \in 0..Longest
      BY <1>4, <2>3
    <3>2. TogoNow[a][m + 1] = HowMany(c, {<<a, m + 1>>})
      BY <3>1 DEF TogoNow, Togo, c
    <3> QED
      BY <1>8, <1>12, <2>1, <2>3, <3>2
  <2> QED
    BY <2>2, <2>3
<1>14. TogoNow' = [a \in Addr |-> [m \in 0..Longest |-> HowMany(first_twc', {<<a, m>>})]]
  BY DEF TogoNow, Togo
<1> QED
  BY <1>2, <1>10, <1>11, <1>13, <1>14

LEMMA AlarmsBegin == TimerInit => Near /\ A!Init
<1> SUFFICES ASSUME TimerInit PROVE Near /\ A!Init
  OBVIOUS
<1>1. \A Q : HowMany(first_twc, Q) = One(<<vfs_bcacheflush, FlushTicks>>, Q)
  BY FirstChain DEF TimerInit
<1>2. \A a, n : HowMany(first_twc, {<<a, n>>})
                  = IF a = vfs_bcacheflush /\ n = FlushTicks THEN 1 ELSE 0
  BY <1>1 DEF One
<1>3. Near
  <2> SUFFICES ASSUME NEW a \in Addr, NEW n \in Nat, n > Longest
               PROVE  HowMany(first_twc, {<<a, n>>}) = 0
    BY DEF Near
  <2>1. n # FlushTicks
    BY LongestIs
  <2> QED
    BY <1>2, <2>1
<1>4. PendingNow = TogoNow
  BY SetInit, PendingIs DEF AlarmsAreSet
<1>5. TogoNow \in [Addr -> [0..Longest -> 0..1]]
  <2>1. \A a, n : HowMany(first_twc, {<<a, n>>}) \in 0..1
    <3> SUFFICES ASSUME NEW a, NEW n PROVE HowMany(first_twc, {<<a, n>>}) \in 0..1
      OBVIOUS
    <3> QED
      BY <1>2
  <2> QED
    BY <2>1 DEF TogoNow, Togo
<1> QED
  BY <1>3, <1>4, <1>5 DEF TimerInit, A!Init, A!Time, PendingNow, Addr

\* Every step of the chain is a step of the alarms, or changes none of them.
LEMMA AlarmsMove ==
  ASSUME AlarmsAreSet, AlarmsAreSet', Near, [TimerNext]_timerVars
  PROVE  Near' /\ [A!Next]_A!vars
<1>1. PendingNow = TogoNow /\ PendingNow' = TogoNow'
  BY PendingIs, PendingNext DEF AlarmsAreSet
<1>2. Longest \in Nat /\ 0 \in 0..Longest
  BY LongestIs
<1>3. CASE \E p \in Proc, n \in Naps : nanosleep(p, n)
  <2>1. PICK p \in Proc, n \in Naps : nanosleep(p, n)
    BY <1>3
  <2>2. Near' /\ TogoNow' = [TogoNow EXCEPT ![p][n] = @ + 1]
    BY <2>1, NapMoves
  <2>3. p \notin asleep /\ asleep' = asleep \cup {p}
    BY <2>1 DEF nanosleep
  <2>4. A!Sleep(p, n)
    BY <1>1, <2>2, <2>3 DEF A!Sleep, PendingNow
  <2>5. n \in A!Time
    BY LongestIs DEF A!Time
  <2> QED
    BY <2>2, <2>4, <2>5 DEF A!Next
<1>4. CASE \E p \in Proc : Signal(p)
  <2>1. PICK p \in Proc : Signal(p)
    BY <1>4
  <2>2. p \in asleep /\ asleep' = asleep \ {p} /\ first_twc' = first_twc
    BY <2>1 DEF Signal
  <2>3. TogoNow' = TogoNow /\ Near'
    BY <2>2 DEF TogoNow, Togo, Near
  <2>4. A!Interrupt(p)
    BY <1>1, <2>2, <2>3 DEF A!Interrupt, PendingNow
  <2> QED
    BY <2>3, <2>4 DEF A!Next
<1>5. CASE fdc_set_disablemotor
  <2>1. Near'
    BY <1>5, MotorMoves
  <2>2. PICK k \in {0, 1} :
          TogoNow' = [TogoNow EXCEPT ![fdc_disablemotors] =
                         [m \in 0..Longest |-> IF m = MotorTicks THEN k ELSE 0]]
    BY <1>5, MotorMoves
  <2>3. UNCHANGED asleep
    BY <1>5 DEF fdc_set_disablemotor
  <2>4. A!Arm(fdc_disablemotors, MotorTicks)
    BY <1>1, <2>2, <2>3 DEF A!Arm, A!Time, PendingNow
  <2>5. fdc_disablemotors \in KFunc /\ MotorTicks \in A!Time
    BY LongestIs DEF KFunc, A!Time
  <2> QED
    BY <2>1, <2>4, <2>5 DEF A!Next
<1>6. CASE timer
  <2>1. Near' /\ asleep' = asleep \ Fired
    BY <1>6, TickMoves
  <2>2. PICK again \in SUBSET KFunc :
          /\ again \subseteq Fired
          /\ TogoNow' = [a \in Addr |-> [m \in 0..Longest |->
                IF m = Longest THEN 0
                ELSE TogoNow[a][m + 1] + IF a \in again /\ m + 1 = FlushTicks THEN 1 ELSE 0]]
    BY <1>6, TickMoves
  <2> DEFINE due == {a \in Addr : TogoNow[a][0] > 0}
             before == [a \in Addr |-> [m \in 0..Longest |->
                           TogoNow[a][m] + IF a \in again /\ m = FlushTicks THEN 1 ELSE 0]]
  <2>3. due = Fired
    <3>1. first_twc \in Seq(Entries)
      BY SetIs DEF Set
    <3>2. Fired \subseteq Addr /\ \A a : a \in Fired <=> HowMany(first_twc, {<<a, 0>>}) > 0
      BY <3>1, FiredIs
    <3>3. \A a \in Addr : TogoNow[a][0] = HowMany(first_twc, {<<a, 0>>})
      BY <1>2 DEF TogoNow, Togo
    <3> QED
      BY <3>2, <3>3
  <2>4. TogoNow' = [a \in Addr |-> [m \in 0..Longest |->
                       IF m = Longest THEN 0 ELSE before[a][m + 1]]]
    <3>1. \A m \in 0..Longest : m # Longest => m + 1 \in 0..Longest
      BY <1>2
    <3>2. ASSUME NEW a \in Addr, NEW m \in 0..Longest, m # Longest
          PROVE  before[a][m + 1] =
                   TogoNow[a][m + 1] + IF a \in again /\ m + 1 = FlushTicks THEN 1 ELSE 0
      BY <3>1, <3>2
    <3> HIDE DEF before
    <3> QED
      BY <2>2, <3>2
  <2>5. A!Tick(again, FlushTicks)
    <3> HIDE DEF due, before
    <3>1. again \subseteq due /\ asleep' = asleep \ due
      BY <2>1, <2>2, <2>3
    <3>2. /\ again \subseteq {a \in Addr : PendingNow[a][0] > 0}
          /\ asleep' = asleep \ {a \in Addr : PendingNow[a][0] > 0}
      BY <1>1, <3>1 DEF due
    <3>3. PendingNow' =
            LET was == [a \in Addr |-> [m \in 0..Longest |->
                          PendingNow[a][m] + IF a \in again /\ m = FlushTicks THEN 1 ELSE 0]]
            IN  [a \in Addr |-> [m \in 0..Longest |->
                    IF m = Longest THEN 0 ELSE was[a][m + 1]]]
      BY <1>1, <2>4 DEF before
    <3> QED
      BY <3>2, <3>3 DEF A!Tick, A!Time, PendingNow, Addr
  <2>6. FlushTicks \in A!Time \ {0}
    BY AddrIs, LongestIs DEF A!Time
  <2> QED
    BY <2>1, <2>5, <2>6 DEF A!Next
<1>7. CASE UNCHANGED timerVars
  <2>1. TogoNow' = TogoNow /\ Near' /\ asleep' = asleep
    BY <1>7 DEF timerVars, TogoNow, Togo, Near
  <2>2. PendingNow' = PendingNow
    BY <1>1, <2>1
  <2> QED
    BY <2>1, <2>2 DEF A!vars, PendingNow
<1> QED
  BY <1>3, <1>4, <1>5, <1>6, <1>7 DEF TimerNext

\* Each alarm counts down on its own: inserting before, between and behind, removing
\* from anywhere, firing several and re-arming during the walk disturb no other
\* alarm by a single tick, although only the first entry of the chain counts down
\* (kern/timer.c:200-394).
THEOREM ChainImplementsAlarms == TimerSpec => ImplementsAlarms
<1>1. TimerInit => AlarmsAreSet /\ Near /\ A!Init
  BY SetInit, AlarmsBegin
<1>2. AlarmsAreSet /\ Near /\ [TimerNext]_timerVars => AlarmsAreSet' /\ Near' /\ [A!Next]_A!vars
  BY SetStep, AlarmsMove
<1> QED
  BY <1>1, <1>2, PTL DEF TimerSpec, ImplementsAlarms, A!Spec
=============================================================================
