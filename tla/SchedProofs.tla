----------------------------- MODULE SchedProofs -----------------------------
(***************************************************************************)
(* Proofs about Sched.tla and ProcQueues.tla, for any finite set of        *)
(* processes and any channels.  The pointers of the three queues always    *)
(* close up into rings, a process is on the queue its status says, the     *)
(* CPU idles exactly while nobody can run, a parent in wait4() misses no   *)
(* dead child and counts its children right, and fork, exit, kill and      *)
(* wait4 implement ProcLife.                                               *)
(*                                                                         *)
(* The walk around a queue is a recursive function, about which a proof by *)
(* induction over data would be needed.  Instead a queue is described      *)
(* without a walk, as a circle of pointers that no smaller set is closed   *)
(* under (Circle, RingOf), each piece of pointer surgery is shown to turn  *)
(* rings into rings (Unlinked ... WakeupMoves), and RingIs proves that the *)
(* walk finds just the processes of the ring.                              *)
(*                                                                         *)
(* The invariant IInv adds to the properties who runs (CpuSound), that the *)
(* process a caller holds is still there (VictimNamed, Reaping) and that   *)
(* nobody is its own parent: without the last a dying process could be     *)
(* woken as its own parent.                                                *)
(***************************************************************************)
EXTENDS Sched, FiniteSetTheorems, SequenceTheorems, TLAPS

\* The pointers of the processes of M close up into one circle.
Circle(next, prev, M) ==
    /\ \A p \in M : /\ next[p] \in M /\ prev[p] \in M
                    /\ prev[next[p]] = p /\ next[prev[p]] = p
    /\ \A S \in SUBSET M : S # {} /\ (\A p \in S : next[p] \in S) => S = M

\* Queue q of the pointers l is the ring of the processes of M.
RingOf(l, q, M) ==
    /\ M \subseteq Proc
    /\ Circle(l.next, l.prev, M)
    /\ IF M = {} THEN l.head[q] = NULL ELSE l.head[q] \in M

\* Walks along next from the head of q that meet nobody twice.
Path(l, q, M) ==
    {r \in Seq(M) : /\ Len(r) > 0 /\ r[1] = l.head[q]
                    /\ \A i \in 1..(Len(r) - 1) : r[i + 1] = l.next[r[i]]
                    /\ \A i, j \in 1..Len(r) : r[i] = r[j] => i = j}

\* g is what N steps make of x, and w a walk from the head of q in N steps.
Steps(N, S) == [(1..N) \X S -> S]

Iterates(g, x, N, step) == g[0] = x /\ \A n \in 1..N : g[n] = step[<<n, g[n - 1]>>]

NextOf(l, r) == l.next[Last(r)]

Longer(l, r) == IF Contains(r, NextOf(l, r)) THEN r ELSE Append(r, NextOf(l, r))

RingWalked(w, l, q) ==
    w = [n \in 0..Cardinality(Proc) |->
             IF n = 0 \/ l.head[q] = NULL THEN <<>>
             ELSE IF n = 1 THEN <<l.head[q]>>
             ELSE IF NextOf(l, w[n - 1]) = NULL THEN w[n - 1]
             ELSE Longer(l, w[n - 1])]

Walks(w, l, q, N) == w[1] = <<l.head[q]>> /\ \A n \in 2..N : w[n] = Longer(l, w[n - 1])

-----------------------------------------------------------------------------
\* Every set of naturals that is not empty has a least element.
LEMMA LeastNatural ==
    ASSUME NEW T \in SUBSET Nat, T # {}
    PROVE  \E m \in T : \A n \in T : m <= n
<1> DEFINE F == {S \in FiniteSubsetsOf(Nat) : \E m \in T : S = 0..m}
<1>1. IsWellFoundedOn(StrictSubsetOrdering(Nat), FiniteSubsetsOf(Nat))
  BY FS_StrictSubsetOrderingWellFounded
<1>2. \A m \in T : 0..m \in FiniteSubsetsOf(Nat)
  BY FS_Interval DEF FiniteSubsetsOf
<1>3. F # {} /\ F \subseteq FiniteSubsetsOf(Nat)
  BY <1>2
<1>4. PICK S \in F : \A U \in F : <<U, S>> \notin StrictSubsetOrdering(Nat)
  BY <1>1, <1>3, WFMin
<1>5. PICK m \in T : S = 0..m
  BY <1>4
<1>6. ASSUME NEW n \in T, n < m
      PROVE  FALSE
  <2>1. 0..n \in F
    BY <1>2
  <2>2. 0..n \subseteq 0..m /\ 0..n # 0..m /\ 0..n \subseteq Nat /\ 0..m \subseteq Nat
    <3>1. m \in 0..m /\ m \notin 0..n
      BY <1>6
    <3> QED
      BY <1>6, <3>1
  <2>3. <<0..n, 0..m>> \in StrictSubsetOrdering(Nat)
    BY <2>2 DEF StrictSubsetOrdering
  <2> QED
    BY <1>4, <1>5, <2>1, <2>3
<1> QED
  BY <1>6

\* A function of the naturals up to N may be defined step by step.
LEMMA Iterate ==
    ASSUME NEW S, NEW x \in S, NEW N \in Nat, NEW step \in Steps(N, S)
    PROVE  \E g \in [0..N -> S] : Iterates(g, x, N, step)
<1> USE DEF Iterates
<1> DEFINE Upto(n, g) == Iterates(g, x, n, step)
           bad == {n \in 0..N : ~ \E g \in [0..n -> S] : Upto(n, g)}
<1>1. step \in [(1..N) \X S -> S]
  BY DEF Steps
<1>2. SUFFICES bad = {}
  <2>1. N \in 0..N
    OBVIOUS
  <2> QED
    BY <2>1, <1>2
<1>3. SUFFICES ASSUME bad # {} PROVE FALSE
  OBVIOUS
<1>4. bad \in SUBSET Nat
  OBVIOUS
<1> HIDE DEF bad
<1>5. PICK m \in bad : \A n \in bad : m <= n
  BY <1>3, <1>4, LeastNatural
<1> USE DEF bad
<1>6. CASE m = 0
  <2> DEFINE g == [i \in 0..0 |-> x]
  <2>1. g \in [0..0 -> S] /\ Upto(0, g)
    OBVIOUS
  <2> QED
    BY <1>5, <1>6, <2>1
<1>7. CASE m # 0
  <2>1. m - 1 \in 0..N /\ m \in 1..N /\ m - 1 \notin bad
    BY <1>5, <1>7
  <2>2. PICK g \in [0..(m - 1) -> S] : Upto(m - 1, g)
    BY <2>1
  <2> DEFINE y == step[<<m, g[m - 1]>>]
             h == [i \in 0..m |-> IF i = m THEN y ELSE g[i]]
  <2>3. g[m - 1] \in S /\ y \in S
    BY <1>1, <2>1, <2>2
  <2>4. h \in [0..m -> S]
    BY <2>1, <2>2, <2>3
  <2>5. \A i \in 0..(m - 1) : h[i] = g[i]
    BY <2>1
  <2>6. h[m] = step[<<m, h[m - 1]>>]
    <3>1. m \in 0..m /\ m - 1 \in 0..(m - 1)
      BY <2>1
    <3>2. h[m] = y
      BY <3>1
    <3>3. h[m - 1] = g[m - 1]
      BY <2>5, <3>1
    <3> QED
      BY <3>2, <3>3
  <2>7. \A i \in 1..(m - 1) : i \in 0..(m - 1) /\ i - 1 \in 0..(m - 1)
    BY <2>1
  <2>8. \A i \in 1..(m - 1) : h[i] = step[<<i, h[i - 1]>>]
    BY <2>2, <2>5, <2>7
  <2>9. h[0] = x
    BY <2>1, <2>2, <2>5
  <2> HIDE DEF h
  <2>10. \A i \in 1..m : i = m \/ i \in 1..(m - 1)
    BY <2>1
  <2>11. Upto(m, h)
    BY <2>6, <2>8, <2>9, <2>10
  <2> QED
    BY <1>5, <2>4, <2>11
<1> QED
  BY <1>6, <1>7

-----------------------------------------------------------------------------
\* The next step of a walk around a ring closes it or goes on.
LEMMA PathStep ==
    ASSUME NEW l \in Links, NEW q \in Queue, NEW M, RingOf(l, q, M),
           NEW r \in Path(l, q, M), NEW p, p = l.next[Last(r)]
    PROVE  /\ p \in M /\ p # NULL
           /\ Contains(r, p) => p = r[1] /\ ToSet(r) = M
           /\ ~Contains(r, p) => Append(r, p) \in Path(l, q, M)
<1>1. /\ r \in Seq(M) /\ Len(r) \in Nat /\ Len(r) > 0 /\ r[1] = l.head[q]
      /\ \A i \in 1..(Len(r) - 1) : r[i + 1] = l.next[r[i]]
      /\ \A i, j \in 1..Len(r) : r[i] = r[j] => i = j
  BY DEF Path
<1>2. \A i \in 1..Len(r) : r[i] \in M
  BY <1>1
<1>3. Len(r) \in 1..Len(r) /\ Last(r) = r[Len(r)] /\ Last(r) \in M
  BY <1>1, <1>2 DEF Last
<1>4. /\ \A x \in M : l.next[x] \in M /\ l.prev[l.next[x]] = x
      /\ \A S \in SUBSET M : S # {} /\ (\A x \in S : l.next[x] \in S) => S = M
      /\ M \subseteq Proc
  BY DEF RingOf, Circle
<1>5. p \in M /\ p # NULL
  BY <1>3, <1>4, ProcFinite
<1>6. ASSUME Contains(r, p)
      PROVE  p = r[1] /\ ToSet(r) = M
  <2>1. PICK j \in 1..Len(r) : r[j] = p
    BY <1>6 DEF Contains
  <2>2. j = 1
    <3>1. SUFFICES ASSUME j # 1 PROVE FALSE
      OBVIOUS
    <3>2. j - 1 \in 1..(Len(r) - 1) /\ j - 1 \in 1..Len(r) /\ j - 1 + 1 = j
      BY <1>1, <2>1, <3>1
    <3>3. r[j] = l.next[r[j - 1]]
      BY <1>1, <3>2
    <3>4. r[j - 1] = Last(r)
      BY <1>2, <1>3, <1>4, <2>1, <3>2, <3>3
    <3>5. j - 1 = Len(r)
      BY <1>1, <1>3, <3>2, <3>4
    <3> QED
      BY <1>1, <3>2, <3>5
  <2>3. ToSet(r) \subseteq M /\ ToSet(r) # {}
    BY <1>1, <1>2 DEF ToSet
  <2>4. ASSUME NEW x \in ToSet(r)
        PROVE  l.next[x] \in ToSet(r)
    <3>1. PICK i \in 1..Len(r) : x = r[i]
      BY <1>1 DEF ToSet
    <3>2. CASE i = Len(r)
      BY <1>1, <1>3, <2>1, <3>1, <3>2 DEF ToSet
    <3>3. CASE i # Len(r)
      <4>1. i \in 1..(Len(r) - 1) /\ i + 1 \in 1..Len(r)
        BY <1>1, <3>1, <3>3
      <4> QED
        BY <1>1, <3>1, <4>1 DEF ToSet
    <3> QED
      BY <3>2, <3>3
  <2>5. ToSet(r) = M
    <3>1. PICK S : S = ToSet(r)
      OBVIOUS
    <3>2. S \in SUBSET M /\ S # {} /\ \A x \in S : l.next[x] \in S
      BY <2>3, <2>4, <3>1
    <3> QED
      BY <1>4, <3>1, <3>2
  <2>6. p = r[1]
    BY <2>1, <2>2
  <2> QED
    BY <2>5, <2>6
<1>7. ASSUME ~Contains(r, p)
      PROVE  Append(r, p) \in Path(l, q, M)
  <2>1. PICK s \in Seq(M) : s = Append(r, p)
    BY <1>1, <1>5, AppendProperties
  <2>2. /\ Len(s) = Len(r) + 1 /\ s[Len(r) + 1] = p
        /\ \A i \in 1..Len(r) : s[i] = r[i]
    BY <1>1, <1>5, <2>1, AppendProperties
  <2>3. \A i \in 1..Len(r) : r[i] # p
    BY <1>7 DEF Contains
  <2>4. \A i \in 1..Len(s) : i = Len(r) + 1 \/ i \in 1..Len(r)
    BY <1>1, <2>2
  <2>5. \A i, j \in 1..Len(s) : s[i] = s[j] => i = j
    BY <1>1, <2>2, <2>3, <2>4
  <2>6. s[1] = l.head[q] /\ Len(s) > 0
    BY <1>1, <2>2
  <2>7. ASSUME NEW i \in 1..(Len(s) - 1)
        PROVE  s[i + 1] = l.next[s[i]]
    <3>1. CASE i = Len(r)
      BY <1>1, <1>3, <2>2, <3>1
    <3>2. CASE i # Len(r)
      <4>1. i \in 1..(Len(r) - 1) /\ i + 1 \in 1..Len(r) /\ i \in 1..Len(r)
        BY <1>1, <2>2, <2>7, <3>2
      <4> QED
        BY <1>1, <2>2, <4>1
    <3> QED
      BY <3>1, <3>2
  <2> QED
    BY <2>1, <2>5, <2>6, <2>7 DEF Path
<1> QED
  BY <1>5, <1>6, <1>7

\* The pointers of a ring that is not empty can be walked.
LEMMA WalkExists ==
    ASSUME NEW l \in Links, NEW q \in Queue, NEW M, RingOf(l, q, M), M # {},
           NEW N \in Nat \ {0}
    PROVE  \E w \in [1..N -> Path(l, q, M)] : Walks(w, l, q, N)
<1> DEFINE S == Path(l, q, M)
           step == [x \in (1..(N - 1)) \X S |-> Longer(l, x[2])]
<1>1. \A r \in S : Longer(l, r) \in S
  BY PathStep DEF Longer, NextOf
<1>2. <<l.head[q]>> \in S
  <2>1. PICK h \in M : h = l.head[q]
    BY DEF RingOf
  <2>2. <<h>> \in Seq(M) /\ Len(<<h>>) = 1 /\ <<h>>[1] = h
    BY <2>1
  <2>3. PICK s : s = <<h>>
    OBVIOUS
  <2>4. s \in Path(l, q, M)
    BY <2>1, <2>2, <2>3 DEF Path
  <2> QED
    BY <2>1, <2>3, <2>4
<1> HIDE DEF S
<1>3. step \in [(1..(N - 1)) \X S -> S]
  BY <1>1
<1>4. \A n \in 1..(N - 1), r \in S : step[<<n, r>>] = Longer(l, r)
  OBVIOUS
<1> HIDE DEF step
<1>5. PICK K \in Nat, x \in S : K = N - 1 /\ x = <<l.head[q]>>
  BY <1>2
<1>6. PICK g \in [0..K -> S] : Iterates(g, x, K, step)
  <2>1. step \in Steps(K, S)
    BY <1>3, <1>5 DEF Steps
  <2> QED
    BY <2>1, Iterate
<1>7. /\ g \in [0..(N - 1) -> S] /\ g[0] = <<l.head[q]>>
      /\ \A n \in 1..(N - 1) : g[n] = step[<<n, g[n - 1]>>]
  BY <1>5, <1>6 DEF Iterates
<1> DEFINE w == [n \in 1..N |-> g[n - 1]]
<1>8. w \in [1..N -> S]
  <2>1. \A n \in 1..N : n - 1 \in 0..(N - 1)
    OBVIOUS
  <2> QED
    BY <1>7, <2>1
<1>9. w[1] = <<l.head[q]>>
  BY <1>7
<1>10. ASSUME NEW n \in 2..N
       PROVE  w[n] = Longer(l, w[n - 1])
  <2>1. n - 1 \in 1..(N - 1) /\ n - 1 \in 1..N /\ n \in 1..N /\ n - 1 - 1 \in 0..(N - 1)
    OBVIOUS
  <2>2. w[n] = g[n - 1] /\ w[n - 1] = g[n - 1 - 1]
    BY <2>1
  <2>3. g[n - 1] = step[<<n - 1, g[n - 1 - 1]>>]
    BY <1>7, <2>1
  <2>4. g[n - 1 - 1] \in S
    BY <1>7, <2>1
  <2> QED
    BY <1>4, <2>1, <2>2, <2>3, <2>4
<1> HIDE DEF w
<1> QED
  BY <1>8, <1>9, <1>10 DEF S, Walks

\* The recursive definition of Ring has a solution when the queue is a ring.
LEMMA RingWalk ==
    ASSUME NEW l \in Links, NEW q \in Queue, NEW M, RingOf(l, q, M)
    PROVE  \E w : Ring(l, q) = w[Cardinality(Proc)] /\ RingWalked(w, l, q)
<1> DEFINE N == Cardinality(Proc)
           Walk(w) == w = [n \in 0..N |->
                            IF n = 0 \/ l.head[q] = NULL THEN <<>>
                            ELSE IF n = 1 THEN <<l.head[q]>>
                            ELSE IF \/ l.next[Last(w[n - 1])] = NULL
                                    \/ Contains(w[n - 1], l.next[Last(w[n - 1])])
                              THEN w[n - 1]
                              ELSE Append(w[n - 1], l.next[Last(w[n - 1])])]
           Goes(w) == w = [n \in 0..N |->
                            IF n = 0 \/ l.head[q] = NULL THEN <<>>
                            ELSE IF n = 1 THEN <<l.head[q]>>
                            ELSE IF NextOf(l, w[n - 1]) = NULL THEN w[n - 1]
                            ELSE Longer(l, w[n - 1])]
<1>1. Ring(l, q) = (CHOOSE w : Walk(w))[N]
  BY DEF Ring
<1>2. \A w : Walk(w) = Goes(w)
  BY DEF Longer, NextOf
<1> HIDE DEF Walk
<1>3. SUFFICES \E w : Goes(w)
  <2>1. PICK w : w = CHOOSE v : Walk(v)
    OBVIOUS
  <2>2. Walk(w)
    BY <1>2, <1>3, <2>1
  <2>3. Goes(w)
    BY <1>2, <2>2
  <2>4. RingWalked(w, l, q)
    BY <2>3 DEF RingWalked
  <2> QED
    BY <1>1, <2>1, <2>4
<1>4. N \in Nat
  BY ProcFinite, FS_CardinalityType
<1> HIDE DEF N
<1>5. CASE M = {}
  <2>1. l.head[q] = NULL
    BY <1>5 DEF RingOf
  <2> DEFINE e == [n \in 0..N |-> <<>>]
  <2>2. Goes(e)
    BY <2>1
  <2> QED
    BY <2>2
<1>6. CASE M # {}
  <2>1. l.head[q] \in M /\ l.head[q] # NULL /\ M \subseteq Proc
    BY <1>6, ProcFinite DEF RingOf
  <2>2. CASE N = 0
    <3> DEFINE e == [n \in 0..N |-> <<>>]
    <3>1. \A n \in 0..N : n = 0
      BY <2>2
    <3>2. Goes(e)
      BY <3>1
    <3> QED
      BY <3>2
  <2>3. CASE N # 0
    <3>1. PICK g \in [1..N -> Path(l, q, M)] : Walks(g, l, q, N)
      <4>1. N \in Nat \ {0}
        BY <1>4, <2>3
      <4> QED
        BY <1>6, <4>1, WalkExists
    <3> DEFINE w == [n \in 0..N |-> IF n = 0 THEN <<>> ELSE g[n]]
    <3>2. \A n \in 2..N : /\ n \in 0..N /\ n - 1 \in 0..N /\ n # 0 /\ n - 1 # 0
                          /\ n - 1 \in 1..N /\ n # 1
      BY <1>4
    <3>3. \A n \in 2..N : NextOf(l, g[n - 1]) # NULL
      BY <3>1, <3>2, PathStep DEF NextOf
    <3>4. \A n \in 2..N : w[n] = g[n] /\ w[n - 1] = g[n - 1]
      BY <3>2
    <3>5. w[0] = <<>> /\ w[1] = <<l.head[q]>>
      BY <1>4, <2>3, <3>1 DEF Walks
    <3>6. \A n \in 0..N : n = 0 \/ n = 1 \/ n \in 2..N
      BY <1>4
    <3>7. w = [n \in 0..N |-> w[n]]
      OBVIOUS
    <3> HIDE DEF w
    <3>8. \A n \in 2..N : w[n] = Longer(l, w[n - 1]) /\ NextOf(l, w[n - 1]) # NULL
      BY <3>1, <3>3, <3>4 DEF Walks
    <3>9. \A n \in 0..N : w[n] = IF n = 0 \/ l.head[q] = NULL THEN <<>>
                                 ELSE IF n = 1 THEN <<l.head[q]>>
                                 ELSE IF NextOf(l, w[n - 1]) = NULL THEN w[n - 1]
                                 ELSE Longer(l, w[n - 1])
      BY <2>1, <3>2, <3>5, <3>6, <3>8
    <3>10. Goes(w)
      BY <3>7, <3>9
    <3> QED
      BY <3>10
  <2> QED
    BY <2>2, <2>3
<1> QED
  BY <1>5, <1>6

\* A path that has met everybody comes back to where it began.
LEMMA FullPath ==
    ASSUME NEW l \in Links, NEW q \in Queue, NEW M, RingOf(l, q, M),
           NEW r \in Path(l, q, M), Len(r) = Cardinality(Proc)
    PROVE  NextOf(l, r) = r[1] /\ ToSet(r) = M
<1>1. r \in Seq(M) /\ \A i, j \in 1..Len(r) : r[i] = r[j] => i = j
  BY DEF Path
<1>2. M \subseteq Proc /\ \A i \in 1..Len(r) : r[i] \in Proc
  BY <1>1 DEF RingOf
<1>3. PICK N \in Nat : N = Cardinality(Proc)
  BY ProcFinite, FS_CardinalityType
<1>4. PICK f : N = Cardinality(Proc) /\ f = [i \in 1..N |-> r[i]]
  BY <1>3
<1>5. f \in Injection(1..N, Proc)
  BY <1>1, <1>2, <1>4 DEF Injection, IsInjective
<1>6. IsFiniteSet(1..N) /\ Cardinality(1..N) = N
  BY <1>4, FS_Interval
<1>7. f \in Surjection(1..N, Proc)
  BY <1>4, <1>5, <1>6, ProcFinite, FS_Injection
<1>8. \A p \in Proc : \E i \in 1..Len(r) : r[i] = p
  BY <1>4, <1>7 DEF Surjection
<1>9. NextOf(l, r) \in M
  BY PathStep DEF NextOf
<1>10. Contains(r, NextOf(l, r))
  BY <1>2, <1>8, <1>9 DEF Contains
<1> QED
  BY <1>10, PathStep DEF NextOf

\* Ring lists the members of a ring, each of them once.
LEMMA RingIs ==
    ASSUME NEW l \in Links, NEW q \in Queue, NEW M, RingOf(l, q, M)
    PROVE  /\ Members(l, q) = M /\ SoundQueue(l, q)
           /\ Ring(l, q) \in Seq(M)
           /\ \A i, j \in 1..Len(Ring(l, q)) : Ring(l, q)[i] = Ring(l, q)[j] => i = j
<1>1. PICK N \in Nat : N = Cardinality(Proc)
  BY ProcFinite, FS_CardinalityType
<1>2. PICK w : Ring(l, q) = w[N] /\ RingWalked(w, l, q)
  BY <1>1, RingWalk
<1>3. \A n \in 0..N : w[n] = IF n = 0 \/ l.head[q] = NULL THEN <<>>
                             ELSE IF n = 1 THEN <<l.head[q]>>
                             ELSE IF NextOf(l, w[n - 1]) = NULL THEN w[n - 1]
                             ELSE Longer(l, w[n - 1])
  BY <1>1, <1>2 DEF RingWalked
<1>4. CASE M = {}
  <2>1. Ring(l, q) = <<>>
    BY <1>2, <1>3, <1>4 DEF RingOf
  <2> QED
    BY <1>4, <2>1 DEF Members, SoundQueue, ToSet
<1>5. CASE M # {}
  <2> DEFINE Done(r) == NextOf(l, r) = r[1] /\ ToSet(r) = M
             bad == {n \in 1..N : ~(w[n] \in Path(l, q, M) /\ (Len(w[n]) = n \/ Done(w[n])))}
  <2>1. l.head[q] \in M /\ l.head[q] # NULL /\ M \subseteq Proc
    BY <1>5, ProcFinite DEF RingOf
  <2>2. N \in Nat \ {0}
    BY <1>1, <2>1, ProcFinite, FS_EmptySet
  <2>3. bad = {}
    <3>1. SUFFICES ASSUME bad # {} PROVE FALSE
      OBVIOUS
    <3>2. bad \in SUBSET Nat
      BY <1>1
    <3> HIDE DEF bad
    <3>3. PICK n \in bad : \A k \in bad : n <= k
      BY <3>1, <3>2, LeastNatural
    <3> USE DEF bad
    <3>4. CASE n = 1
      <4>1. w[n] = <<l.head[q]>>
        BY <1>3, <2>1, <2>2, <3>4
      <4>2. PICK h \in M : h = l.head[q]
        BY <2>1
      <4>3. <<h>> \in Seq(M) /\ Len(<<h>>) = 1 /\ <<h>>[1] = h
        BY <4>2
      <4>4. w[n] \in Path(l, q, M) /\ Len(w[n]) = n
        BY <3>4, <4>1, <4>2, <4>3 DEF Path
      <4> QED
        BY <3>3, <4>4
    <3>5. CASE n # 1
      <4>1. n \in 1..N /\ n \in 0..N /\ n # 0 /\ n - 1 \in 1..N /\ n - 1 \notin bad
        BY <1>1, <3>3, <3>5
      <4>2. PICK r \in Path(l, q, M) : r = w[n - 1]
        BY <4>1
      <4>3. Len(r) = n - 1 \/ Done(r)
        BY <4>1, <4>2
      <4>4. NextOf(l, r) \in M /\ NextOf(l, r) # NULL
        BY PathStep DEF NextOf
      <4>5. w[n] = Longer(l, r)
        BY <1>3, <2>1, <3>5, <4>1, <4>2, <4>4
      <4>6. CASE Contains(r, NextOf(l, r))
        <5>1. Done(r)
          BY <4>6, PathStep DEF NextOf
        <5>2. w[n] = r
          BY <4>5, <4>6 DEF Longer
        <5> QED
          BY <3>3, <5>1, <5>2
      <4>7. CASE ~Contains(r, NextOf(l, r))
        <5>1. Append(r, NextOf(l, r)) \in Path(l, q, M)
          BY <4>7, PathStep DEF NextOf
        <5>2. w[n] = Append(r, NextOf(l, r))
          BY <4>5, <4>7 DEF Longer
        <5>3. r \in Seq(M) /\ Len(r) > 0 /\ Len(r) \in Nat
          BY DEF Path
        <5>4. ~Done(r)
          BY <4>7, <5>3 DEF Contains
        <5>5. Len(Append(r, NextOf(l, r))) = Len(r) + 1
          BY <4>4, <5>3, AppendProperties
        <5>6. Len(w[n]) = n
          BY <4>1, <4>3, <5>2, <5>4, <5>5
        <5> QED
          BY <3>3, <5>1, <5>2, <5>6
      <4> QED
        BY <4>6, <4>7
    <3> QED
      BY <3>4, <3>5
  <2>4. PICK r \in Path(l, q, M) : r = Ring(l, q) /\ (Len(r) = N \/ Done(r))
    BY <1>2, <2>2, <2>3
  <2>5. Done(r)
    BY <1>1, <2>4, FullPath
  <2>6. /\ r \in Seq(M) /\ Len(r) \in Nat /\ Len(r) > 0 /\ Last(r) = r[Len(r)]
        /\ \A i \in 1..(Len(r) - 1) : r[i + 1] = l.next[r[i]]
        /\ \A i, j \in 1..Len(r) : r[i] = r[j] => i = j
    BY DEF Path, Last
  <2>7. \A i \in 1..Len(r) : r[i] \in M
    BY <2>6
  <2>8. \A p \in M : l.prev[l.next[p]] = p
    BY DEF RingOf, Circle
  <2>9. \A i \in 1..Len(r) : l.next[r[i]] = r[IF i = Len(r) THEN 1 ELSE i + 1]
    <3>1. SUFFICES ASSUME NEW i \in 1..Len(r)
                   PROVE  l.next[r[i]] = r[IF i = Len(r) THEN 1 ELSE i + 1]
      OBVIOUS
    <3>2. CASE i = Len(r)
      BY <2>5, <2>6, <3>2 DEF NextOf
    <3>3. CASE i # Len(r)
      BY <2>6, <3>1, <3>3
    <3> QED
      BY <3>2, <3>3
  <2>10. SoundQueue(l, q)
    <3>1. SUFFICES ASSUME NEW i \in DOMAIN r, NEW succ,
                          succ = r[IF i = Len(r) THEN 1 ELSE i + 1]
                   PROVE  l.next[r[i]] = succ /\ l.prev[succ] = r[i]
      BY <2>4 DEF SoundQueue
    <3>2. i \in 1..Len(r)
      BY <2>6
    <3> QED
      BY <2>7, <2>8, <2>9, <3>1, <3>2
  <2>11. Members(l, q) = M
    BY <2>4, <2>5 DEF Members
  <2> QED
    BY <2>4, <2>6, <2>10, <2>11
<1> QED
  BY <1>4, <1>5

-----------------------------------------------------------------------------
\* Edits of a circle, on constants: next and prev of all processes.
Pointers == [Proc -> Proc \cup {NULL}]

LEMMA CircleIs ==
    ASSUME NEW next, NEW prev, NEW M, Circle(next, prev, M)
    PROVE  /\ \A p \in M : /\ next[p] \in M /\ prev[p] \in M
                           /\ prev[next[p]] = p /\ next[prev[p]] = p
           /\ \A S : S \subseteq M /\ S # {} /\ (\A p \in S : next[p] \in S) => S = M
  BY DEF Circle

\* Who follows itself is alone.
LEMMA Alone ==
    ASSUME NEW next, NEW prev, NEW M, Circle(next, prev, M), NEW p \in M
    PROVE  /\ next[p] = p <=> M = {p}
           /\ prev[p] = p <=> M = {p}
<1>1. next[p] = p => M = {p}
  <2>1. {p} \subseteq M /\ {p} # {}
    OBVIOUS
  <2>2. next[p] = p => \A x \in {p} : next[x] \in {p}
    OBVIOUS
  <2> QED
    BY <2>1, <2>2, CircleIs
<1>2. M = {p} => next[p] = p /\ prev[p] = p
  BY CircleIs
<1>3. prev[p] = p => next[p] = p
  BY CircleIs
<1> QED
  BY <1>1, <1>2, <1>3

\* A circle is seen only through the pointers of its members.
LEMMA CircleKept ==
    ASSUME NEW next, NEW prev, NEW M, Circle(next, prev, M), NEW n2, NEW v2,
           \A p \in M : n2[p] = next[p] /\ v2[p] = prev[p]
    PROVE  Circle(n2, v2, M)
<1>1. \A p \in M : /\ n2[p] \in M /\ v2[p] \in M /\ v2[n2[p]] = p /\ n2[v2[p]] = p
  BY CircleIs
<1>2. ASSUME NEW S \in SUBSET M, S # {}, \A p \in S : n2[p] \in S
      PROVE  S = M
  <2>1. \A p \in S : next[p] \in S
    BY <1>2
  <2> QED
    BY <1>2, <2>1, CircleIs
<1> QED
  BY <1>1, <1>2 DEF Circle

LEMMA CircleOfOne ==
    ASSUME NEW next, NEW prev, NEW p, next[p] = p, prev[p] = p
    PROVE  Circle(next, prev, {p})
  BY DEF Circle

\* The neighbours of p are linked to each other.
LEMMA CircleWithout ==
    ASSUME NEW next \in Pointers, NEW prev \in Pointers, NEW M \in SUBSET Proc,
           Circle(next, prev, M), NEW p \in M, M # {p},
           NEW n2, n2 = [next EXCEPT ![prev[p]] = next[p]],
           NEW v2, v2 = [prev EXCEPT ![next[p]] = prev[p]]
    PROVE  Circle(n2, v2, M \ {p})
<1>1. /\ next[p] \in M \ {p} /\ prev[p] \in M \ {p}
      /\ prev[next[p]] = p /\ next[prev[p]] = p
  BY CircleIs, Alone
<1>2. /\ n2[prev[p]] = next[p] /\ v2[next[p]] = prev[p]
      /\ \A x \in M : x # prev[p] => n2[x] = next[x]
      /\ \A x \in M : x # next[p] => v2[x] = prev[x]
  BY <1>1 DEF Pointers
<1>3. ASSUME NEW x \in M \ {p}
      PROVE  n2[x] \in M \ {p} /\ v2[n2[x]] = x
  <2>1. CASE x = prev[p]
    BY <1>1, <1>2, <2>1
  <2>2. CASE x # prev[p]
    <3>1. next[x] \in M /\ prev[next[x]] = x /\ next[x] # p /\ next[x] # next[p]
      BY <1>1, <2>2, CircleIs
    <3> QED
      BY <1>2, <2>2, <3>1
  <2> QED
    BY <2>1, <2>2
<1>4. ASSUME NEW x \in M \ {p}
      PROVE  v2[x] \in M \ {p} /\ n2[v2[x]] = x
  <2>1. CASE x = next[p]
    BY <1>1, <1>2, <2>1
  <2>2. CASE x # next[p]
    <3>1. prev[x] \in M /\ next[prev[x]] = x /\ prev[x] # p /\ prev[x] # prev[p]
      BY <1>1, <2>2, CircleIs
    <3> QED
      BY <1>2, <2>2, <3>1
  <2> QED
    BY <2>1, <2>2
<1>5. ASSUME NEW S \in SUBSET (M \ {p}), S # {}, \A x \in S : n2[x] \in S
      PROVE  S = M \ {p}
  <2>1. CASE prev[p] \in S
    <3>1. PICK U : U = S \cup {p}
      OBVIOUS
    <3>2. U \subseteq M /\ U # {}
      BY <1>5, <3>1
    <3>3. ASSUME NEW x \in U
          PROVE  next[x] \in U
      <4>1. CASE x = p
        BY <1>2, <1>5, <2>1, <3>1, <4>1
      <4>2. CASE x = prev[p]
        BY <1>1, <3>1, <4>2
      <4>3. CASE x # p /\ x # prev[p]
        BY <1>2, <1>5, <3>1, <4>3
      <4> QED
        BY <4>1, <4>2, <4>3
    <3>4. U = M
      BY <3>2, <3>3, CircleIs
    <3> QED
      BY <1>5, <3>1, <3>4
  <2>2. CASE prev[p] \notin S
    <3>1. \A x \in S : next[x] \in S
      BY <1>2, <1>5, <2>2
    <3>2. S = M
      BY <1>5, <3>1, CircleIs
    <3> QED
      BY <1>5, <3>2
  <2> QED
    BY <2>1, <2>2
<1> QED
  BY <1>3, <1>4, <1>5 DEF Circle

\* p is put between h and its successor.
LEMMA CircleWith ==
    ASSUME NEW next, NEW prev, NEW M \in SUBSET Proc,
           Circle(next, prev, M), NEW h \in M, NEW p \in Proc \ M,
           NEW n2, n2[p] = next[h], n2[h] = p, \A x \in M \ {h} : n2[x] = next[x],
           NEW v2, v2[p] = h, v2[next[h]] = p, \A x \in M \ {next[h]} : v2[x] = prev[x]
    PROVE  Circle(n2, v2, M \cup {p})
<1>1. next[h] \in M /\ prev[next[h]] = h /\ next[h] # p /\ h # p
  BY CircleIs
<1>2. ASSUME NEW x \in M \cup {p}
      PROVE  n2[x] \in M \cup {p} /\ v2[n2[x]] = x
  <2>1. CASE x = p \/ x = h
    BY <1>1, <2>1
  <2>2. CASE x # p /\ x # h
    <3>1. next[x] \in M /\ prev[next[x]] = x /\ next[x] # next[h] /\ x \in M
      BY <1>1, <1>2, <2>2, CircleIs
    <3> QED
      BY <2>2, <3>1
  <2> QED
    BY <2>1, <2>2
<1>3. ASSUME NEW x \in M \cup {p}
      PROVE  v2[x] \in M \cup {p} /\ n2[v2[x]] = x
  <2>1. CASE x = p \/ x = next[h]
    BY <1>1, <2>1
  <2>2. CASE x # p /\ x # next[h]
    <3>1. prev[x] \in M /\ next[prev[x]] = x /\ prev[x] # h /\ x \in M
      BY <1>1, <1>3, <2>2, CircleIs
    <3> QED
      BY <2>2, <3>1
  <2> QED
    BY <2>1, <2>2
<1>4. ASSUME NEW S \in SUBSET (M \cup {p}), S # {}, \A x \in S : n2[x] \in S
      PROVE  S = M \cup {p}
  <2>1. PICK U : U = S \ {p}
    OBVIOUS
  <2>2. U \subseteq M
    BY <1>4, <2>1
  <2>3. U # {}
    <3>1. p \in S => next[h] \in U
      BY <1>1, <1>4, <2>1
    <3> QED
      BY <1>4, <2>1, <3>1
  <2>4. ASSUME NEW x \in U
        PROVE  next[x] \in U
    <3>1. CASE x = h
      BY <1>1, <1>4, <2>1, <3>1
    <3>2. CASE x # h
      <4>1. x \in M \ {h} /\ next[x] \in M
        BY <2>2, <3>2, CircleIs
      <4> QED
        BY <1>4, <2>1, <4>1
    <3> QED
      BY <3>1, <3>2
  <2>5. U = M
    BY <2>2, <2>3, <2>4, CircleIs
  <2>6. p \in S
    BY <1>4, <2>1, <2>5
  <2> QED
    BY <1>4, <2>1, <2>5, <2>6
<1> QED
  BY <1>2, <1>3, <1>4 DEF Circle

-----------------------------------------------------------------------------
\* Edits of the pointers.
WithNext(l, x, y) == [l EXCEPT !.next[x] = y]

WithPrev(l, x, y) == [l EXCEPT !.prev[x] = y]

WithHead(l, q, y) == [l EXCEPT !.head[q] = y]

LEMMA SetNext ==
    ASSUME NEW l \in Links, NEW x \in Proc, NEW y \in Proc \cup {NULL}
    PROVE  /\ WithNext(l, x, y) \in Links
           /\ WithNext(l, x, y).prev = l.prev /\ WithNext(l, x, y).head = l.head
           /\ WithNext(l, x, y).next = [l.next EXCEPT ![x] = y]
  BY DEF Links, WithNext

LEMMA SetPrev ==
    ASSUME NEW l \in Links, NEW x \in Proc, NEW y \in Proc \cup {NULL}
    PROVE  /\ WithPrev(l, x, y) \in Links
           /\ WithPrev(l, x, y).next = l.next /\ WithPrev(l, x, y).head = l.head
           /\ WithPrev(l, x, y).prev = [l.prev EXCEPT ![x] = y]
  BY DEF Links, WithPrev

LEMMA SetHead ==
    ASSUME NEW l \in Links, NEW q \in Queue, NEW y \in Proc \cup {NULL}
    PROVE  /\ WithHead(l, q, y) \in Links
           /\ WithHead(l, q, y).next = l.next /\ WithHead(l, q, y).prev = l.prev
           /\ WithHead(l, q, y).head = [l.head EXCEPT ![q] = y]
  BY DEF Links, WithHead

LEMMA LinksAre ==
    ASSUME NEW l \in Links
    PROVE  /\ l.next \in Pointers /\ l.prev \in Pointers
           /\ l.head \in [Queue -> Proc \cup {NULL}]
           /\ \A p \in Proc : l.next[p] \in Proc \cup {NULL} /\ l.prev[p] \in Proc \cup {NULL}
           /\ \A q \in Queue : l.head[q] \in Proc \cup {NULL}
  BY DEF Links, Pointers

\* The processes of M keep their pointers, the queues other than q their heads.
Same(l, l2, M) == \A x \in M : l2.next[x] = l.next[x] /\ l2.prev[x] = l.prev[x]

OtherHeads(l, l2, q) == \A r \in Queue \ {q} : l2.head[r] = l.head[r]

SameHeads(l, l2) == l2.head = l.head

LEMMA RingKept ==
    ASSUME NEW l, NEW l2, NEW q, NEW M, RingOf(l, q, M), Same(l, l2, M), l2.head[q] = l.head[q]
    PROVE  RingOf(l2, q, M)
  BY CircleKept DEF RingOf, Same

LEMMA Unlinked ==
    ASSUME NEW l \in Links, NEW M \in SUBSET Proc, Circle(l.next, l.prev, M), NEW p \in M,
           NEW l2, l2 = Unlink(l, p)
    PROVE  /\ l2 \in Links /\ SameHeads(l, l2)
           /\ Same(l, l2, {p})
           /\ l.next[p] \in M /\ l.prev[p] \in M
           /\ Same(l, l2, Proc \ M)
           /\ M # {p} => /\ Circle(l2.next, l2.prev, M \ {p})
                         /\ l.next[p] \in M \ {p} /\ l.prev[p] \in M \ {p}
           /\ M = {p} => l.next[p] = p /\ Same(l, l2, Proc)
<1>1. l.next[p] \in M /\ l.prev[p] \in M /\ l.next \in Pointers /\ l.prev \in Pointers
  BY CircleIs, LinksAre
<1>2. PICK x \in Proc, y \in Proc : x = l.prev[p] /\ y = l.next[p]
  BY <1>1
<1>3. PICK l1 : l1 = WithNext(l, x, y)
  OBVIOUS
<1>4. /\ l1 \in Links /\ l1.prev = l.prev /\ l1.head = l.head
      /\ l1.next = [l.next EXCEPT ![x] = y]
  BY <1>2, <1>3, SetNext
<1>5. l1.next[p] = y /\ l1.prev[p] = x
  BY <1>1, <1>2, <1>4 DEF Pointers
<1>6. l2 = WithPrev(l1, y, x)
  BY <1>2, <1>3, <1>5 DEF Unlink, WithNext, WithPrev
<1>7. /\ l2 \in Links /\ l2.next = [l.next EXCEPT ![x] = y] /\ l2.head = l.head
      /\ l2.prev = [l.prev EXCEPT ![y] = x]
  BY <1>2, <1>4, <1>6, SetPrev
<1>8. l2.next[p] = l.next[p] /\ l2.prev[p] = l.prev[p]
  BY <1>1, <1>2, <1>7 DEF Pointers
<1>9. Same(l, l2, Proc \ M)
  BY <1>1, <1>2, <1>7 DEF Pointers, Same
<1>10. M # {p} => /\ Circle(l2.next, l2.prev, M \ {p})
                  /\ l.next[p] \in M \ {p} /\ l.prev[p] \in M \ {p}
  <2>1. SUFFICES ASSUME M # {p}
                 PROVE  /\ Circle(l2.next, l2.prev, M \ {p})
                        /\ l.next[p] \in M \ {p} /\ l.prev[p] \in M \ {p}
    OBVIOUS
  <2>2. Circle(l2.next, l2.prev, M \ {p})
    BY <1>1, <1>2, <1>7, <2>1, CircleWithout
  <2> QED
    BY <1>1, <2>1, <2>2, Alone
<1>11. M = {p} => l.next[p] = p /\ Same(l, l2, Proc)
  <2>1. SUFFICES ASSUME M = {p}
                 PROVE  l.next[p] = p /\ Same(l, l2, Proc)
    OBVIOUS
  <2>2. l.next[p] = p /\ l.prev[p] = p /\ x = p /\ y = p
    BY <1>1, <1>2, <2>1
  <2> QED
    BY <1>1, <1>7, <2>2 DEF Pointers, Same
<1>12. Same(l, l2, {p})
  BY <1>8 DEF Same
<1> QED
  BY <1>1, <1>7, <1>9, <1>10, <1>11, <1>12 DEF SameHeads

LEMMA Inserted ==
    ASSUME NEW l \in Links, NEW q \in Queue, NEW M, RingOf(l, q, M), NEW p \in Proc \ M,
           NEW l2, l2 = InsertAfterHead(l, q, p)
    PROVE  /\ l2 \in Links /\ RingOf(l2, q, M \cup {p})
           /\ OtherHeads(l, l2, q) /\ Same(l, l2, Proc \ (M \cup {p}))
           /\ M # {} => l2.head[q] = l.head[q]
<1>1. M \subseteq Proc /\ Circle(l.next, l.prev, M)
  BY DEF RingOf
<1>2. l.next \in Pointers /\ l.prev \in Pointers /\ l.head \in [Queue -> Proc \cup {NULL}]
  BY LinksAre
<1>3. CASE M = {}
  <2>1. l.head[q] = NULL
    BY <1>3 DEF RingOf
  <2>2. l2 = WithHead(WithPrev(WithNext(l, p, p), p, p), q, p)
    BY <2>1 DEF InsertAfterHead, WithHead, WithPrev, WithNext
  <2>3. /\ l2 \in Links
        /\ l2.next = [l.next EXCEPT ![p] = p] /\ l2.prev = [l.prev EXCEPT ![p] = p]
        /\ l2.head = [l.head EXCEPT ![q] = p]
    BY <2>2, SetHead, SetPrev, SetNext
  <2>4. /\ l2.next[p] = p /\ l2.prev[p] = p /\ l2.head[q] = p
        /\ Same(l, l2, Proc \ {p}) /\ OtherHeads(l, l2, q)
    BY <1>2, <2>3 DEF Pointers, Same, OtherHeads
  <2>5. Circle(l2.next, l2.prev, {p})
    BY <2>4, CircleOfOne
  <2>6. RingOf(l2, q, {p})
    BY <2>4, <2>5 DEF RingOf
  <2>7. M \cup {p} = {p}
    BY <1>3
  <2> QED
    BY <1>3, <2>3, <2>4, <2>6, <2>7
<1>4. CASE M # {}
  <2>1. PICK h \in M : h = l.head[q]
    BY <1>4 DEF RingOf
  <2>2. h \in Proc /\ h # NULL /\ h # p
    BY <1>1, ProcFinite
  <2>3. PICK g \in M : g = l.next[h]
    BY <1>1, CircleIs
  <2>4. g \in Proc /\ g # p
    BY <1>1
  <2>5. PICK l1 : l1 = [l EXCEPT !.next[p] = g, !.prev[p] = h]
    OBVIOUS
  <2>6. /\ l1 \in Links /\ l1.head = l.head
        /\ l1.next = [l.next EXCEPT ![p] = g] /\ l1.prev = [l.prev EXCEPT ![p] = h]
    BY <2>2, <2>4, <2>5 DEF Links
  <2>7. l1.next[h] = g
    BY <1>2, <2>2, <2>3, <2>6 DEF Pointers
  <2>8. PICK l3 : l3 = WithPrev(l1, g, p)
    OBVIOUS
  <2>9. l2 = WithNext(l3, h, p)
    BY <2>1, <2>2, <2>3, <2>5, <2>7, <2>8 DEF InsertAfterHead, WithNext, WithPrev
  <2>10. l3 \in Links /\ l3.next = l1.next /\ l3.head = l.head
         /\ l3.prev = [l1.prev EXCEPT ![g] = p]
    BY <2>4, <2>6, <2>8, SetPrev
  <2>11. l2 \in Links /\ l2.prev = l3.prev /\ l2.head = l.head
         /\ l2.next = [l1.next EXCEPT ![h] = p]
    BY <2>2, <2>9, <2>10, SetNext
  <2>12. /\ l2.next[p] = l.next[h] /\ l2.next[h] = p
         /\ \A x \in Proc \ {h, p} : l2.next[x] = l.next[x]
    BY <1>2, <2>2, <2>3, <2>6, <2>11 DEF Pointers
  <2>13. /\ l2.prev[p] = h /\ l2.prev[l.next[h]] = p
         /\ \A x \in Proc \ {g, p} : l2.prev[x] = l.prev[x]
    BY <1>2, <2>3, <2>4, <2>6, <2>10, <2>11 DEF Pointers
  <2>14. /\ \A x \in M \ {h} : l2.next[x] = l.next[x]
         /\ \A x \in M \ {l.next[h]} : l2.prev[x] = l.prev[x]
    BY <1>1, <2>3, <2>12, <2>13
  <2>15. Circle(l2.next, l2.prev, M \cup {p})
    <3>1. PICK nx, pv, n2, v2 : /\ nx = l.next /\ pv = l.prev
                                /\ n2 = l2.next /\ v2 = l2.prev
      OBVIOUS
    <3>2. Circle(nx, pv, M) /\ M \in SUBSET Proc /\ p \in Proc \ M
      BY <1>1, <3>1
    <3>3. n2[p] = nx[h] /\ n2[h] = p /\ \A x \in M \ {h} : n2[x] = nx[x]
      BY <2>12, <2>14, <3>1
    <3>4. v2[p] = h /\ v2[nx[h]] = p /\ \A x \in M \ {nx[h]} : v2[x] = pv[x]
      BY <2>13, <2>14, <3>1
    <3>5. Circle(n2, v2, M \cup {p})
      BY <3>2, <3>3, <3>4, CircleWith
    <3> QED
      BY <3>1, <3>5
  <2>16. RingOf(l2, q, M \cup {p})
    BY <1>1, <2>1, <2>11, <2>15 DEF RingOf
  <2>17. Same(l, l2, Proc \ (M \cup {p}))
    BY <2>12, <2>13 DEF Same
  <2> QED
    BY <2>11, <2>16, <2>17 DEF OtherHeads
<1> QED
  BY <1>3, <1>4

\* p leaves its ring, and the head moves to y, a member that stays.
LEMMA Taken ==
    ASSUME NEW l \in Links, NEW q \in Queue, NEW M, RingOf(l, q, M), NEW p \in M,
           NEW y, IF M = {p} THEN y = NULL ELSE y \in M \ {p},
           NEW l2, l2 = WithHead(Unlink(l, p), q, y)
    PROVE  /\ l2 \in Links /\ RingOf(l2, q, M \ {p})
           /\ OtherHeads(l, l2, q) /\ Same(l, l2, Proc \ M)
           /\ l2.next[p] = l.next[p]
<1>1. M \subseteq Proc /\ Circle(l.next, l.prev, M) /\ y \in Proc \cup {NULL}
  BY DEF RingOf
<1>2. PICK l1 : l1 = Unlink(l, p)
  OBVIOUS
<1>3. /\ l1 \in Links /\ SameHeads(l, l1) /\ Same(l, l1, {p})
      /\ Same(l, l1, Proc \ M)
      /\ M # {p} => Circle(l1.next, l1.prev, M \ {p})
  BY <1>1, <1>2, Unlinked
<1>4. /\ l2 \in Links /\ l2.next = l1.next /\ l2.prev = l1.prev
      /\ l2.head = [l.head EXCEPT ![q] = y]
  BY <1>1, <1>2, <1>3, SetHead DEF SameHeads
<1>5. l2.head[q] = y /\ OtherHeads(l, l2, q)
  BY <1>4, LinksAre DEF OtherHeads
<1>6. Same(l, l2, Proc \ M)
  BY <1>3, <1>4 DEF Same
<1>7. RingOf(l2, q, M \ {p})
  <2>1. CASE M = {p}
    <3>1. M \ {p} = {} /\ Circle(l2.next, l2.prev, {})
      BY <2>1 DEF Circle
    <3> QED
      BY <1>5, <2>1, <3>1 DEF RingOf
  <2>2. CASE M # {p}
    <3>1. M \ {p} # {} /\ M \ {p} \subseteq Proc /\ y \in M \ {p}
      BY <1>1, <2>2
    <3> QED
      BY <1>3, <1>4, <1>5, <2>2, <3>1 DEF RingOf
  <2> QED
    BY <2>1, <2>2
<1>8. l2.next[p] = l.next[p]
  BY <1>3, <1>4 DEF Same
<1> QED
  BY <1>4, <1>5, <1>6, <1>7, <1>8

\* p is the head of the run queue.
RunHead(l, p) == l.head["run"] = p

LEMMA LeftRunQueue ==
    ASSUME NEW l \in Links, NEW M, RingOf(l, "run", M), NEW p \in M, RunHead(l, p),
           NEW l2, l2 = LeaveRunQueue(l, p)
    PROVE  /\ l2 \in Links /\ RingOf(l2, "run", M \ {p})
           /\ OtherHeads(l, l2, "run") /\ Same(l, l2, Proc \ M)
<1>1. p \in M /\ M \subseteq Proc /\ M \in SUBSET Proc /\ Circle(l.next, l.prev, M)
  BY DEF RingOf
<1>2. PICK l1 : l1 = Unlink(l, p)
  OBVIOUS
<1>3. SameHeads(l, l1) /\ Same(l, l1, {p})
  BY <1>1, <1>2, Unlinked
<1>4. PICK x \in M, y \in M : x = l.prev[p] /\ y = l.next[p]
  BY <1>1, CircleIs
<1>5. x \in Proc /\ y \in Proc /\ p \in Proc /\ l.next \in Pointers /\ l.prev \in Pointers
  BY <1>1, LinksAre
<1>6. PICK k : k = WithPrev(l, y, x)
  OBVIOUS
<1>7. /\ k \in Links /\ k.next = l.next /\ k.head = l.head
      /\ k.prev = [l.prev EXCEPT ![y] = x]
  BY <1>5, <1>6, SetPrev
<1>8. k.prev[p] = x /\ k.next[p] = y
  BY <1>4, <1>5, <1>7 DEF Pointers
<1>9. PICK k2 : k2 = WithNext(k, x, y)
  OBVIOUS
<1>10. /\ k2 \in Links /\ k2.prev = [l.prev EXCEPT ![y] = x] /\ k2.head = l.head
      /\ k2.next = [l.next EXCEPT ![x] = y]
  BY <1>5, <1>7, <1>9, SetNext
<1>11. k2 = l1
  <2>1. PICK h : h = WithNext(l, x, y)
    OBVIOUS
  <2>2. /\ h \in Links /\ h.prev = l.prev /\ h.head = l.head
        /\ h.next = [l.next EXCEPT ![x] = y]
    BY <1>5, <2>1, SetNext
  <2>3. h.next[p] = y /\ h.prev[p] = x
    BY <1>4, <1>5, <2>2 DEF Pointers
  <2>4. l1 = WithPrev(h, y, x)
    BY <1>4, <1>2, <2>1, <2>3 DEF Unlink, WithNext, WithPrev
  <2>5. /\ l1 \in Links /\ l1.prev = [l.prev EXCEPT ![y] = x] /\ l1.head = l.head
        /\ l1.next = [l.next EXCEPT ![x] = y]
    BY <1>5, <2>2, <2>4, SetPrev
  <2>6. l1.next = k2.next /\ l1.prev = k2.prev /\ l1.head = k2.head
    BY <1>10, <2>5
  <2> QED
    BY <1>10, <2>5, <2>6 DEF Links
<1>12. l1.next[p] = y /\ l1.head["run"] = p
  BY <1>4, <1>3 DEF RunHead, SameHeads, Same
<1>13. l2 = IF l1.next[p] = p THEN WithHead(l1, "run", NULL)
            ELSE WithHead(l1, "run", l1.next[p])
  <2>1. l2 = IF k2.next[p] = p THEN [k2 EXCEPT !.head["run"] = NULL]
             ELSE [k2 EXCEPT !.head["run"] = k2.next[k2.head["run"]]]
    <3>1. k2 = [k EXCEPT !.next[k.prev[p]] = k.next[p]]
      BY <1>8, <1>9 DEF WithNext
    <3>2. k = [l EXCEPT !.prev[l.next[p]] = l.prev[p]]
      BY <1>4, <1>6 DEF WithPrev
    <3> QED
      BY <3>1, <3>2 DEF LeaveRunQueue
  <2> QED
    BY <1>11, <1>12, <2>1 DEF WithHead
<1>14. PICK z : z = IF M = {p} THEN NULL ELSE y
  OBVIOUS
<1>15. l2 = WithHead(l1, "run", z)
  BY <1>1, <1>4, <1>12, <1>13, <1>14, Alone
<1>16. IF M = {p} THEN z = NULL ELSE z \in M \ {p}
  BY <1>1, <1>4, <1>14, Alone
<1>17. "run" \in Queue
  BY DEF Queue
<1>18. l2 = WithHead(Unlink(l, p), "run", z)
  BY <1>2, <1>15
<1>19. /\ l2 \in Links /\ RingOf(l2, "run", M \ {p})
       /\ OtherHeads(l, l2, "run") /\ Same(l, l2, Proc \ M)
  BY <1>1, <1>16, <1>17, <1>18, Taken
<1> QED
  BY <1>1, <1>19

LEMMA EnteredSleepQueue ==
    ASSUME NEW l \in Links, NEW M, RingOf(l, "sleep", M), NEW p \in Proc \ M,
           NEW l2, l2 = EnterSleepQueue(l, p)
    PROVE  /\ l2 \in Links /\ RingOf(l2, "sleep", M \cup {p})
           /\ OtherHeads(l, l2, "sleep") /\ Same(l, l2, Proc \ (M \cup {p}))
<1>1. M \subseteq Proc /\ Circle(l.next, l.prev, M) /\ "sleep" \in Queue
  BY DEF RingOf, Queue
<1>2. l.next \in Pointers /\ l.prev \in Pointers /\ l.head \in [Queue -> Proc \cup {NULL}]
  BY LinksAre
<1>3. CASE M = {}
  <2>1. l.head["sleep"] = NULL
    BY <1>3 DEF RingOf
  <2>2. l2 = WithHead(WithPrev(WithNext(l, p, p), p, p), "sleep", p)
    BY <2>1 DEF EnterSleepQueue, WithHead, WithPrev, WithNext
  <2>3. /\ l2 \in Links
        /\ l2.next = [l.next EXCEPT ![p] = p] /\ l2.prev = [l.prev EXCEPT ![p] = p]
        /\ l2.head = [l.head EXCEPT !["sleep"] = p]
    BY <1>1, <2>2, SetHead, SetPrev, SetNext
  <2>4. /\ l2.next[p] = p /\ l2.prev[p] = p /\ l2.head["sleep"] = p
        /\ Same(l, l2, Proc \ {p}) /\ OtherHeads(l, l2, "sleep")
    BY <1>1, <1>2, <2>3 DEF Pointers, Same, OtherHeads
  <2>5. Circle(l2.next, l2.prev, {p})
    BY <2>4, CircleOfOne
  <2>6. RingOf(l2, "sleep", {p})
    BY <2>4, <2>5 DEF RingOf
  <2>7. M \cup {p} = {p}
    BY <1>3
  <2> QED
    BY <1>3, <2>3, <2>4, <2>6, <2>7
<1>4. CASE M # {}
  <2>1. PICK h \in M : h = l.head["sleep"]
    BY <1>4 DEF RingOf
  <2>2. PICK g \in M : g = l.prev[h] /\ l.next[g] = h
    BY <1>1, CircleIs
  <2>3. h \in Proc /\ h # NULL /\ h # p /\ g \in Proc /\ g # p
    BY <1>1, ProcFinite
  <2>4. PICK l1 : l1 = WithNext(l, g, p)
    OBVIOUS
  <2>5. l1 \in Links /\ l1.prev = l.prev /\ l1.head = l.head /\ l1.next = [l.next EXCEPT ![g] = p]
    BY <2>3, <2>4, SetNext
  <2>6. PICK l3 : l3 = WithPrev(l1, p, g)
    OBVIOUS
  <2>7. l3 \in Links /\ l3.next = l1.next /\ l3.head = l.head /\ l3.prev = [l.prev EXCEPT ![p] = g]
    BY <2>3, <2>5, <2>6, SetPrev
  <2>8. PICK l4 : l4 = WithNext(l3, p, h)
    OBVIOUS
  <2>9. l4 \in Links /\ l4.prev = l3.prev /\ l4.head = l.head /\ l4.next = [l1.next EXCEPT ![p] = h]
    BY <2>3, <2>7, <2>8, SetNext
  <2>10. l2 = WithHead(WithPrev(l4, h, p), "sleep", p)
    BY <2>1, <2>2, <2>3, <2>4, <2>5, <2>6, <2>8
       DEF EnterSleepQueue, WithNext, WithPrev, WithHead
  <2>11. /\ l2 \in Links /\ l2.next = l4.next /\ l2.prev = [l4.prev EXCEPT ![h] = p]
         /\ l2.head = [l.head EXCEPT !["sleep"] = p]
    BY <1>1, <2>3, <2>9, <2>10, SetPrev, SetHead
  <2>12. PICK nx, pv, n2, v2 : /\ nx = l.next /\ pv = l.prev
                               /\ n2 = l2.next /\ v2 = l2.prev
    OBVIOUS
  <2>13. /\ n2[p] = nx[g] /\ n2[g] = p /\ \A x \in Proc \ {g, p} : n2[x] = nx[x]
    BY <1>2, <2>2, <2>3, <2>5, <2>7, <2>9, <2>11, <2>12 DEF Pointers
  <2>14. /\ v2[p] = g /\ v2[nx[g]] = p /\ \A x \in Proc \ {nx[g], p} : v2[x] = pv[x]
    BY <1>2, <2>2, <2>3, <2>5, <2>7, <2>9, <2>11, <2>12 DEF Pointers
  <2>15. Circle(nx, pv, M) /\ M \in SUBSET Proc /\ p \in Proc \ M
    BY <1>1, <2>12
  <2>16. /\ \A x \in M \ {g} : n2[x] = nx[x]
         /\ \A x \in M \ {nx[g]} : v2[x] = pv[x]
    BY <2>13, <2>14, <2>15
  <2>17. Circle(n2, v2, M \cup {p})
    BY <2>13, <2>14, <2>15, <2>16, CircleWith
  <2>18. l2.head["sleep"] = p /\ OtherHeads(l, l2, "sleep")
    BY <1>1, <1>2, <2>11 DEF OtherHeads
  <2>19. RingOf(l2, "sleep", M \cup {p})
    BY <1>1, <2>12, <2>17, <2>18 DEF RingOf
  <2>20. nx[g] \in M
    BY <2>2, <2>12
  <2>21. Same(l, l2, Proc \ (M \cup {p}))
    BY <2>12, <2>13, <2>14, <2>20 DEF Same
  <2> QED
    BY <2>11, <2>18, <2>19, <2>21
<1> QED
  BY <1>3, <1>4

-----------------------------------------------------------------------------
\* The three queues are the rings of R, S and Z.
Rings(l, R, S, Z) ==
    l \in Links /\ RingOf(l, "run", R) /\ RingOf(l, "sleep", S) /\ RingOf(l, "zombie", Z)

Apart(R, S, Z) == R \cap S = {} /\ R \cap Z = {} /\ S \cap Z = {}

LEMMA RingsAre ==
    ASSUME NEW l, NEW R, NEW S, NEW Z, Rings(l, R, S, Z)
    PROVE  R \subseteq Proc /\ S \subseteq Proc /\ Z \subseteq Proc /\ l \in Links
  BY DEF Rings, RingOf

LEMMA QueuesAre == "run" \in Queue /\ "sleep" \in Queue /\ "zombie" \in Queue
  BY DEF Queue

LEMMA HeadAsItIs ==
    ASSUME NEW l \in Links, NEW q \in Queue
    PROVE  WithHead(l, q, l.head[q]) = l
  BY DEF Links, WithHead

\* Launch: the head of the run queue moves on.
LEMMA HeadMoved ==
    ASSUME NEW l, NEW R, NEW S, NEW Z, Rings(l, R, S, Z), R # {},
           NEW p, p = l.next[l.head["run"]],
           NEW l2, l2 = [l EXCEPT !.head["run"] = p]
    PROVE  Rings(l2, R, S, Z) /\ p \in R
<1>1. l.head["run"] \in R /\ R \subseteq Proc /\ l \in Links /\ Circle(l.next, l.prev, R)
  BY DEF Rings, RingOf
<1>2. p \in R /\ p \in Proc
  BY <1>1, CircleIs
<1>3. /\ l2 \in Links /\ l2.next = l.next /\ l2.prev = l.prev
      /\ l2.head = [l.head EXCEPT !["run"] = p]
  BY <1>1, <1>2, QueuesAre, SetHead DEF WithHead
<1>4. /\ l2.head["run"] = p /\ l2.head["sleep"] = l.head["sleep"]
      /\ l2.head["zombie"] = l.head["zombie"]
  BY <1>1, <1>3, LinksAre, QueuesAre
<1> QED
  BY <1>2, <1>3, <1>4 DEF Rings, RingOf

\* sleep(): the running process goes from the run queue to the sleep queue.
LEMMA PutToSleep ==
    ASSUME NEW l, NEW R, NEW S, NEW Z, Rings(l, R, S, Z), Apart(R, S, Z),
           NEW p \in R, RunHead(l, p),
           NEW l2, l2 = EnterSleepQueue(LeaveRunQueue(l, p), p)
    PROVE  Rings(l2, R \ {p}, S \cup {p}, Z)
<1>1. /\ RingOf(l, "run", R) /\ RingOf(l, "sleep", S) /\ RingOf(l, "zombie", Z)
      /\ l \in Links /\ R \subseteq Proc /\ S \subseteq Proc /\ Z \subseteq Proc
  BY RingsAre DEF Rings
<1>2. PICK l1 : l1 = LeaveRunQueue(l, p)
  OBVIOUS
<1>3. /\ l1 \in Links /\ RingOf(l1, "run", R \ {p})
      /\ OtherHeads(l, l1, "run") /\ Same(l, l1, Proc \ R)
  BY <1>1, <1>2, LeftRunQueue
<1>4. Same(l, l1, S) /\ Same(l, l1, Z)
  BY <1>1, <1>3 DEF Same, Apart
<1>5. l1.head["sleep"] = l.head["sleep"] /\ l1.head["zombie"] = l.head["zombie"]
  BY <1>3, QueuesAre DEF OtherHeads
<1>6. RingOf(l1, "sleep", S) /\ RingOf(l1, "zombie", Z)
  BY <1>1, <1>4, <1>5, RingKept
<1>7. p \in Proc \ S /\ l2 = EnterSleepQueue(l1, p)
  BY <1>1, <1>2 DEF Apart
<1>8. /\ l2 \in Links /\ RingOf(l2, "sleep", S \cup {p})
      /\ OtherHeads(l1, l2, "sleep") /\ Same(l1, l2, Proc \ (S \cup {p}))
  BY <1>3, <1>6, <1>7, EnteredSleepQueue
<1>9. Same(l1, l2, R \ {p}) /\ Same(l1, l2, Z)
  BY <1>1, <1>8 DEF Same, Apart
<1>10. l2.head["run"] = l1.head["run"] /\ l2.head["zombie"] = l1.head["zombie"]
  BY <1>8, QueuesAre DEF OtherHeads
<1>11. RingOf(l2, "run", R \ {p}) /\ RingOf(l2, "zombie", Z)
  BY <1>3, <1>6, <1>9, <1>10, RingKept
<1> QED
  BY <1>8, <1>11 DEF Rings

\* fork, and the second half of a wakeup.
LEMMA PutToRun ==
    ASSUME NEW l, NEW R, NEW S, NEW Z, Rings(l, R, S, Z), NEW p \in Proc \ (R \cup S \cup Z),
           Apart(R, S, Z), NEW l2, l2 = InsertAfterHead(l, "run", p)
    PROVE  Rings(l2, R \cup {p}, S, Z)
<1>1. /\ RingOf(l, "run", R) /\ RingOf(l, "sleep", S) /\ RingOf(l, "zombie", Z)
      /\ l \in Links /\ R \subseteq Proc /\ S \subseteq Proc /\ Z \subseteq Proc
  BY RingsAre DEF Rings
<1>2. /\ l2 \in Links /\ RingOf(l2, "run", R \cup {p})
      /\ OtherHeads(l, l2, "run") /\ Same(l, l2, Proc \ (R \cup {p}))
  BY <1>1, QueuesAre, Inserted
<1>3. Same(l, l2, S) /\ Same(l, l2, Z)
  BY <1>1, <1>2 DEF Same, Apart
<1>4. l2.head["sleep"] = l.head["sleep"] /\ l2.head["zombie"] = l.head["zombie"]
  BY <1>2, QueuesAre DEF OtherHeads
<1>5. RingOf(l2, "sleep", S) /\ RingOf(l2, "zombie", Z)
  BY <1>1, <1>3, <1>4, RingKept
<1> QED
  BY <1>2, <1>5 DEF Rings

\* The end of proc_exit().
LEMMA PutToZombies ==
    ASSUME NEW l, NEW R, NEW S, NEW Z, Rings(l, R, S, Z), NEW p \in Proc \ (R \cup S \cup Z),
           Apart(R, S, Z), NEW l2, l2 = InsertAfterHead(l, "zombie", p)
    PROVE  Rings(l2, R, S, Z \cup {p})
<1>1. /\ RingOf(l, "run", R) /\ RingOf(l, "sleep", S) /\ RingOf(l, "zombie", Z)
      /\ l \in Links /\ R \subseteq Proc /\ S \subseteq Proc /\ Z \subseteq Proc
  BY RingsAre DEF Rings
<1>2. /\ l2 \in Links /\ RingOf(l2, "zombie", Z \cup {p})
      /\ OtherHeads(l, l2, "zombie") /\ Same(l, l2, Proc \ (Z \cup {p}))
  BY <1>1, QueuesAre, Inserted
<1>3. Same(l, l2, S) /\ Same(l, l2, R)
  BY <1>1, <1>2 DEF Same, Apart
<1>4. l2.head["sleep"] = l.head["sleep"] /\ l2.head["run"] = l.head["run"]
  BY <1>2, QueuesAre DEF OtherHeads
<1>5. RingOf(l2, "sleep", S) /\ RingOf(l2, "run", R)
  BY <1>1, <1>3, <1>4, RingKept
<1> QED
  BY <1>2, <1>5 DEF Rings

\* A sleeper leaves its queue, and the head moves to y.
LEMMA SleeperTaken ==
    ASSUME NEW l, NEW R, NEW S, NEW Z, Rings(l, R, S, Z), Apart(R, S, Z), NEW p \in S,
           NEW y, IF S = {p} THEN y = NULL ELSE y \in S \ {p},
           NEW l2, l2 = WithHead(Unlink(l, p), "sleep", y)
    PROVE  Rings(l2, R, S \ {p}, Z)
<1>1. /\ RingOf(l, "run", R) /\ RingOf(l, "sleep", S) /\ RingOf(l, "zombie", Z)
      /\ l \in Links /\ R \subseteq Proc /\ S \subseteq Proc /\ Z \subseteq Proc
  BY RingsAre DEF Rings
<1>2. /\ l2 \in Links /\ RingOf(l2, "sleep", S \ {p})
      /\ OtherHeads(l, l2, "sleep") /\ Same(l, l2, Proc \ S)
  BY <1>1, QueuesAre, Taken
<1>3. Same(l, l2, R) /\ Same(l, l2, Z)
  BY <1>1, <1>2 DEF Same, Apart
<1>4. l2.head["run"] = l.head["run"] /\ l2.head["zombie"] = l.head["zombie"]
  BY <1>2, QueuesAre DEF OtherHeads
<1>5. RingOf(l2, "run", R) /\ RingOf(l2, "zombie", Z)
  BY <1>1, <1>3, <1>4, RingKept
<1> QED
  BY <1>2, <1>5 DEF Rings

\* wakeup() moves a sleeper, be it the last one, to the run queue.
LEMMA AwakenMoves ==
    ASSUME NEW l, NEW R, NEW S, NEW Z, Rings(l, R, S, Z), Apart(R, S, Z), NEW p \in S,
           NEW l2, l2 = Awaken(l, p)
    PROVE  Rings(l2, R \cup {p}, S \ {p}, Z) /\ Apart(R \cup {p}, S \ {p}, Z)
<1>1. Circle(l.next, l.prev, S) /\ S \subseteq Proc
  BY DEF Rings, RingOf
<1>2. PICK y : y = IF l.next[p] = p THEN NULL ELSE l.next[p]
  OBVIOUS
<1>3. IF S = {p} THEN y = NULL ELSE y \in S \ {p}
  BY <1>1, <1>2, Alone, CircleIs
<1>4. PICK l1 : l1 = WithHead(Unlink(l, p), "sleep", y)
  OBVIOUS
<1>5. Rings(l1, R, S \ {p}, Z)
  BY <1>3, <1>4, SleeperTaken
<1>6. p \in Proc \ (R \cup (S \ {p}) \cup Z) /\ Apart(R, S \ {p}, Z)
  BY <1>1 DEF Apart
<1>7. l2 = InsertAfterHead(l1, "run", p)
  BY <1>2, <1>4 DEF Awaken, WithHead
<1>8. Apart(R \cup {p}, S \ {p}, Z)
  BY DEF Apart
<1> QED
  BY <1>5, <1>6, <1>7, <1>8, PutToRun

\* wakeup_proc() moves one sleeper of several; a lone one remains the head of
\* the sleep queue, which then is the run queue.
LEMMA AwakenProcMoves ==
    ASSUME NEW l, NEW R, NEW S, NEW Z, Rings(l, R, S, Z), Apart(R, S, Z), NEW p \in S,
           NEW l2, l2 = AwakenProc(l, p)
    PROVE  /\ S = {p} <=> l.next[p] = p
           /\ S # {p} => Rings(l2, R \cup {p}, S \ {p}, Z) /\ Apart(R \cup {p}, S \ {p}, Z)
           /\ S = {p} => Rings(l2, R \cup {p}, R \cup {p}, Z)
<1>1. /\ Circle(l.next, l.prev, S) /\ S \subseteq Proc /\ S \in SUBSET Proc /\ l \in Links
      /\ Z \subseteq Proc
  BY DEF Rings, RingOf
<1>2. S = {p} <=> l.next[p] = p
  BY <1>1, Alone
<1>3. PICK l1 : l1 = Unlink(l, p)
  OBVIOUS
<1>4. /\ l1 \in Links /\ SameHeads(l, l1) /\ Same(l, l1, {p}) /\ Same(l, l1, Proc \ S)
      /\ S = {p} => Same(l, l1, Proc)
  BY <1>1, <1>3, Unlinked
<1>5. l1.head = l.head /\ l1.next[p] = l.next[p]
  BY <1>4 DEF SameHeads, Same
<1>6. l.head["sleep"] \in S
  BY DEF Rings, RingOf
<1>7. PICK y : y = IF l.head["sleep"] = p THEN l.next[p] ELSE l.head["sleep"]
  OBVIOUS
<1>8. PICK l3 : l3 = WithHead(l1, "sleep", y)
  OBVIOUS
<1>9. l2 = InsertAfterHead(l3, "run", p)
  <2>1. l3 = IF l1.head["sleep"] = p THEN [l1 EXCEPT !.head["sleep"] = l1.next[p]] ELSE l1
    BY <1>4, <1>5, <1>7, <1>8, HeadAsItIs, QueuesAre DEF WithHead
  <2> QED
    BY <1>3, <2>1 DEF AwakenProc
<1>10. ASSUME S # {p}
       PROVE  Rings(l2, R \cup {p}, S \ {p}, Z) /\ Apart(R \cup {p}, S \ {p}, Z)
  <2>1. y \in S \ {p}
    BY <1>1, <1>2, <1>6, <1>7, <1>10, CircleIs
  <2>2. Rings(l3, R, S \ {p}, Z)
    BY <1>3, <1>8, <1>10, <2>1, SleeperTaken
  <2>3. p \in Proc \ (R \cup (S \ {p}) \cup Z) /\ Apart(R, S \ {p}, Z)
    BY <1>1 DEF Apart
  <2>4. Rings(l2, R \cup {p}, S \ {p}, Z)
    BY <1>9, <2>2, <2>3, PutToRun
  <2> QED
    BY <2>4 DEF Apart
<1>11. ASSUME S = {p}
       PROVE  Rings(l2, R \cup {p}, R \cup {p}, Z)
  <2>1. y = p
    BY <1>2, <1>6, <1>7, <1>11
  <2>2. p \in Proc
    BY <1>1
  <2>3. /\ l3 \in Links /\ l3.next = l1.next /\ l3.prev = l1.prev
        /\ l3.head = [l1.head EXCEPT !["sleep"] = p]
    BY <1>4, <1>8, <2>1, <2>2, SetHead, QueuesAre
  <2>4. /\ l3.head["sleep"] = p /\ l3.head["run"] = l.head["run"]
        /\ l3.head["zombie"] = l.head["zombie"]
    BY <1>1, <1>5, <2>3, LinksAre, QueuesAre
  <2>5. Same(l, l3, Proc)
    BY <1>4, <1>11, <2>3 DEF Same
  <2>6. RingOf(l, "run", R) /\ RingOf(l, "zombie", Z) /\ R \subseteq Proc
    BY DEF Rings, RingOf
  <2>7. Same(l, l3, R) /\ Same(l, l3, Z)
    BY <1>1, <2>5, <2>6 DEF Same
  <2>8. RingOf(l3, "run", R) /\ RingOf(l3, "zombie", Z)
    BY <2>4, <2>6, <2>7, RingKept
  <2>9. p \in Proc \ R
    BY <2>2 DEF Apart
  <2>10. /\ l2 \in Links /\ RingOf(l2, "run", R \cup {p})
         /\ OtherHeads(l3, l2, "run") /\ Same(l3, l2, Proc \ (R \cup {p}))
    BY <1>9, <2>3, <2>8, <2>9, QueuesAre, Inserted
  <2>11. l2.head["sleep"] = p /\ l2.head["zombie"] = l3.head["zombie"]
    BY <2>4, <2>10, QueuesAre DEF OtherHeads
  <2>12. Same(l3, l2, Z)
    BY <1>1, <2>10 DEF Same, Apart
  <2>13. RingOf(l2, "zombie", Z)
    BY <2>8, <2>11, <2>12, RingKept
  <2>14. RingOf(l2, "sleep", R \cup {p})
    BY <2>10, <2>11 DEF RingOf
  <2> QED
    BY <2>10, <2>13, <2>14 DEF Rings
<1> QED
  BY <1>2, <1>10, <1>11

\* proc_exit() takes p out of one queue, if it is there.
LEMMA RemovedFrom ==
    ASSUME NEW l \in Links, NEW q \in Queue, NEW M, RingOf(l, q, M), NEW p \in Proc,
           NEW l2, l2 = RemoveFrom(l, q, p)
    PROVE  /\ l2 \in Links /\ RingOf(l2, q, M \ {p})
           /\ OtherHeads(l, l2, q) /\ Same(l, l2, Proc \ M)
<1>1. Members(l, q) = M /\ M \subseteq Proc /\ Circle(l.next, l.prev, M)
  BY RingIs DEF RingOf
<1>2. CASE p \notin M
  <2>1. l2 = l /\ M \ {p} = M
    BY <1>1, <1>2 DEF RemoveFrom
  <2> QED
    BY <2>1 DEF OtherHeads, Same
<1>3. CASE p \in M /\ M = {p}
  <2>1. l2 = WithHead(l, q, NULL)
    BY <1>1, <1>3, Alone DEF RemoveFrom, WithHead
  <2>2. /\ l2 \in Links /\ l2.next = l.next /\ l2.prev = l.prev
        /\ l2.head = [l.head EXCEPT ![q] = NULL]
    BY <2>1, SetHead
  <2>3. l2.head[q] = NULL /\ OtherHeads(l, l2, q)
    BY <2>2, LinksAre DEF OtherHeads
  <2>4. Same(l, l2, Proc \ M)
    BY <2>2 DEF Same
  <2>5. M \ {p} = {} /\ Circle(l2.next, l2.prev, {})
    BY <1>3 DEF Circle
  <2>6. RingOf(l2, q, {})
    BY <2>3, <2>5 DEF RingOf
  <2> QED
    BY <2>2, <2>3, <2>4, <2>5, <2>6
<1>4. CASE p \in M /\ M # {p}
  <2>1. PICK y : y = l.prev[p]
    OBVIOUS
  <2>2. l2 = WithHead(Unlink(l, p), q, y)
    BY <1>1, <1>4, <2>1, Alone DEF RemoveFrom, WithHead
  <2>3. y \in M \ {p}
    BY <1>1, <1>4, <2>1, Alone, CircleIs
  <2> QED
    BY <1>4, <2>2, <2>3, Taken
<1> QED
  BY <1>2, <1>3, <1>4

LEMMA RemovedFromRings ==
    ASSUME NEW l, NEW R, NEW S, NEW Z, Rings(l, R, S, Z), Apart(R, S, Z), NEW p \in Proc,
           NEW l2, l2 = RemoveFromAll(l, p)
    PROVE  Rings(l2, R \ {p}, S \ {p}, Z \ {p}) /\ Apart(R \ {p}, S \ {p}, Z \ {p})
<1>1. /\ RingOf(l, "run", R) /\ RingOf(l, "sleep", S) /\ RingOf(l, "zombie", Z)
      /\ l \in Links /\ R \subseteq Proc /\ S \subseteq Proc /\ Z \subseteq Proc
  BY RingsAre DEF Rings
<1>2. PICK l1 : l1 = RemoveFrom(l, "run", p)
  OBVIOUS
<1>3. /\ l1 \in Links /\ RingOf(l1, "run", R \ {p})
      /\ OtherHeads(l, l1, "run") /\ Same(l, l1, Proc \ R)
  BY <1>1, <1>2, QueuesAre, RemovedFrom
<1>4. RingOf(l1, "sleep", S) /\ RingOf(l1, "zombie", Z)
  <2>1. Same(l, l1, S) /\ Same(l, l1, Z)
    BY <1>1, <1>3 DEF Same, Apart
  <2>2. l1.head["sleep"] = l.head["sleep"] /\ l1.head["zombie"] = l.head["zombie"]
    BY <1>3, QueuesAre DEF OtherHeads
  <2> QED
    BY <1>1, <2>1, <2>2, RingKept
<1>5. PICK l3 : l3 = RemoveFrom(l1, "sleep", p)
  OBVIOUS
<1>6. /\ l3 \in Links /\ RingOf(l3, "sleep", S \ {p})
      /\ OtherHeads(l1, l3, "sleep") /\ Same(l1, l3, Proc \ S)
  BY <1>3, <1>4, <1>5, QueuesAre, RemovedFrom
<1>7. RingOf(l3, "run", R \ {p}) /\ RingOf(l3, "zombie", Z)
  <2>1. Same(l1, l3, R \ {p}) /\ Same(l1, l3, Z)
    BY <1>1, <1>6 DEF Same, Apart
  <2>2. l3.head["run"] = l1.head["run"] /\ l3.head["zombie"] = l1.head["zombie"]
    BY <1>6, QueuesAre DEF OtherHeads
  <2> QED
    BY <1>3, <1>4, <2>1, <2>2, RingKept
<1>8. l2 = RemoveFrom(l3, "zombie", p)
  BY <1>2, <1>5 DEF RemoveFromAll
<1>9. /\ l2 \in Links /\ RingOf(l2, "zombie", Z \ {p})
      /\ OtherHeads(l3, l2, "zombie") /\ Same(l3, l2, Proc \ Z)
  BY <1>6, <1>7, <1>8, QueuesAre, RemovedFrom
<1>10. RingOf(l2, "run", R \ {p}) /\ RingOf(l2, "sleep", S \ {p})
  <2>1. Same(l3, l2, R \ {p}) /\ Same(l3, l2, S \ {p})
    BY <1>1, <1>9 DEF Same, Apart
  <2>2. l2.head["run"] = l3.head["run"] /\ l2.head["sleep"] = l3.head["sleep"]
    BY <1>9, QueuesAre DEF OtherHeads
  <2> QED
    BY <1>6, <1>7, <2>1, <2>2, RingKept
<1>11. Apart(R \ {p}, S \ {p}, Z \ {p})
  BY DEF Apart
<1> QED
  BY <1>9, <1>10, <1>11 DEF Rings

\* proc_exit(): p goes from wherever it is to the zombies.
LEMMA ToZombies ==
    ASSUME NEW l, NEW R, NEW S, NEW Z, Rings(l, R, S, Z), Apart(R, S, Z), NEW p \in Proc,
           NEW l2, l2 = InsertAfterHead(RemoveFromAll(l, p), "zombie", p)
    PROVE  /\ Rings(l2, R \ {p}, S \ {p}, Z \cup {p})
           /\ Apart(R \ {p}, S \ {p}, Z \cup {p})
<1>1. PICK l1 : l1 = RemoveFromAll(l, p)
  OBVIOUS
<1>2. PICK R1, S1, Z1 : R1 = R \ {p} /\ S1 = S \ {p} /\ Z1 = Z \ {p}
  OBVIOUS
<1>3. Rings(l1, R1, S1, Z1) /\ Apart(R1, S1, Z1)
  BY <1>1, <1>2, RemovedFromRings
<1>4. p \in Proc \ (R1 \cup S1 \cup Z1) /\ l2 = InsertAfterHead(l1, "zombie", p)
  BY <1>1, <1>2
<1>5. Rings(l2, R1, S1, Z1 \cup {p})
  BY <1>3, <1>4, PutToZombies
<1>6. Z1 \cup {p} = Z \cup {p}
  BY <1>2
<1> QED
  BY <1>2, <1>5, <1>6 DEF Apart

\* proc_remove(): p leaves the zombies for good.
LEMMA Discarded ==
    ASSUME NEW l, NEW R, NEW S, NEW Z, Rings(l, R, S, Z), Apart(R, S, Z), NEW p \in Z,
           NEW l2, l2 = Discard(l, p)
    PROVE  Rings(l2, R, S, Z \ {p}) /\ Apart(R, S, Z \ {p})
<1>1. /\ RingOf(l, "run", R) /\ RingOf(l, "sleep", S) /\ RingOf(l, "zombie", Z)
      /\ l \in Links /\ R \subseteq Proc /\ S \subseteq Proc /\ Z \subseteq Proc
      /\ Z \in SUBSET Proc /\ Circle(l.next, l.prev, Z)
  BY RingsAre DEF Rings, RingOf
<1>2. PICK l1 : l1 = Unlink(l, p)
  OBVIOUS
<1>3. /\ l1 \in Links /\ SameHeads(l, l1) /\ Same(l, l1, {p}) /\ Same(l, l1, Proc \ Z)
      /\ Z # {p} => Circle(l1.next, l1.prev, Z \ {p})
  BY <1>1, <1>2, Unlinked
<1>4. l1.head = l.head /\ l1.next[p] = l.next[p]
  BY <1>3 DEF SameHeads, Same
<1>5. PICK y : y = IF l.head["zombie"] # p THEN l.head["zombie"]
                   ELSE IF l.next[p] = p THEN NULL ELSE l.next[p]
  OBVIOUS
<1>6. IF Z = {p} THEN y = NULL ELSE y \in Z \ {p}
  <2>1. l.head["zombie"] \in Z
    BY <1>1 DEF RingOf
  <2> QED
    BY <1>1, <1>5, <2>1, Alone, CircleIs
<1>7. l.head["run"] # p /\ l.head["sleep"] # p
  BY <1>1, ProcFinite DEF RingOf, Apart
<1>8. PICK h : h = [q \in Queue |-> IF l1.head[q] # p THEN l1.head[q]
                                    ELSE IF l1.next[p] = p THEN NULL ELSE l1.next[p]]
  OBVIOUS
<1>9. h["zombie"] = y /\ h["run"] = l.head["run"] /\ h["sleep"] = l.head["sleep"]
  BY <1>4, <1>5, <1>7, <1>8, QueuesAre
<1>10. h \in [Queue -> Proc \cup {NULL}]
  BY <1>3, <1>8, LinksAre, <1>1
<1>11. PICK l3 : l3 = [l1 EXCEPT !.head = h]
  OBVIOUS
<1>12. l3 \in Links /\ l3.next = l1.next /\ l3.prev = l1.prev /\ l3.head = h
  BY <1>3, <1>10, <1>11 DEF Links
<1>13. l2 = WithPrev(WithNext(l3, p, NULL), p, NULL)
  BY <1>2, <1>8, <1>11 DEF Discard, WithNext, WithPrev
<1>14. /\ l2 \in Links /\ l2.head = h
       /\ l2.next = [l1.next EXCEPT ![p] = NULL] /\ l2.prev = [l1.prev EXCEPT ![p] = NULL]
  <2>1. p \in Proc /\ NULL \in Proc \cup {NULL}
    BY <1>1
  <2>2. PICK l4 : l4 = WithNext(l3, p, NULL)
    OBVIOUS
  <2>3. /\ l4 \in Links /\ l4.head = h /\ l4.prev = l1.prev
        /\ l4.next = [l1.next EXCEPT ![p] = NULL]
    BY <1>12, <2>1, <2>2, SetNext
  <2>4. l2 = WithPrev(l4, p, NULL)
    BY <1>13, <2>2
  <2> QED
    BY <2>1, <2>3, <2>4, SetPrev
<1>15. Same(l1, l2, Proc \ {p})
  BY <1>3, <1>14, LinksAre DEF Same, Pointers
<1>16. RingOf(l2, "zombie", Z \ {p})
  <2>1. CASE Z = {p}
    <3>1. Z \ {p} = {} /\ Circle(l2.next, l2.prev, {}) /\ l2.head["zombie"] = NULL
      BY <1>6, <1>9, <1>14, <2>1 DEF Circle
    <3> QED
      BY <3>1 DEF RingOf
  <2>2. CASE Z # {p}
    <3>1. Circle(l1.next, l1.prev, Z \ {p}) /\ Z \ {p} # {} /\ l2.head["zombie"] \in Z \ {p}
      BY <1>3, <1>6, <1>9, <1>14, <2>2
    <3>2. \A x \in Z \ {p} : l2.next[x] = l1.next[x] /\ l2.prev[x] = l1.prev[x]
      BY <1>1, <1>15 DEF Same
    <3>3. Circle(l2.next, l2.prev, Z \ {p})
      BY <3>1, <3>2, CircleKept
    <3> QED
      BY <1>1, <3>1, <3>3 DEF RingOf
  <2> QED
    BY <2>1, <2>2
<1>17. Same(l, l2, R) /\ Same(l, l2, S)
  <2>1. /\ R \subseteq Proc \ Z /\ S \subseteq Proc \ Z
        /\ R \subseteq Proc \ {p} /\ S \subseteq Proc \ {p}
    BY <1>1 DEF Apart
  <2> QED
    BY <1>3, <1>15, <2>1 DEF Same
<1>18. RingOf(l2, "run", R) /\ RingOf(l2, "sleep", S)
  BY <1>1, <1>9, <1>14, <1>17, RingKept
<1>19. Apart(R, S, Z \ {p})
  BY DEF Apart
<1> QED
  BY <1>14, <1>16, <1>18, <1>19 DEF Rings

\* The queues of the first process, with or without the resident sleeper.
LEMMA FirstRings ==
    ASSUME NEW l, l = InsertAfterHead(NoLinks, "run", First)
    PROVE  /\ Rings(l, {First}, {}, {})
           /\ Rings(EnterSleepQueue(l, Resident), {First}, {Resident}, {})
<1>1. PICK k : k = NoLinks
  OBVIOUS
<1>2. k \in Links /\ \A q \in Queue : k.head[q] = NULL
  BY <1>1 DEF NoLinks, Links
<1>3. Circle(k.next, k.prev, {})
  BY DEF Circle
<1>4. Rings(k, {}, {}, {}) /\ Apart({}, {}, {})
  BY <1>2, <1>3, QueuesAre DEF Rings, RingOf, Apart
<1>5. First \in Proc \ ({} \cup {} \cup {}) /\ l = InsertAfterHead(k, "run", First)
  BY <1>1, StartOK
<1>6. Rings(l, {} \cup {First}, {}, {})
  BY <1>4, <1>5, PutToRun
<1>7. Rings(l, {First}, {}, {})
  <2>1. {} \cup {First} = {First}
    OBVIOUS
  <2> QED
    BY <1>6, <2>1
<1>8. PICK l2 : l2 = EnterSleepQueue(l, Resident)
  OBVIOUS
<1>9. /\ l \in Links /\ RingOf(l, "sleep", {}) /\ RingOf(l, "run", {First})
      /\ RingOf(l, "zombie", {}) /\ Resident \in Proc \ {} /\ Resident # First
  BY <1>7, StartOK DEF Rings
<1>10. /\ l2 \in Links /\ RingOf(l2, "sleep", {} \cup {Resident})
       /\ OtherHeads(l, l2, "sleep") /\ Same(l, l2, Proc \ ({} \cup {Resident}))
  BY <1>8, <1>9, EnteredSleepQueue
<1>11. {} \cup {Resident} = {Resident}
  OBVIOUS
<1>12. Same(l, l2, {First}) /\ Same(l, l2, {})
  BY <1>9, <1>10, <1>11, StartOK DEF Same
<1>13. l2.head["run"] = l.head["run"] /\ l2.head["zombie"] = l.head["zombie"]
  BY <1>10, QueuesAre DEF OtherHeads
<1>14. RingOf(l2, "run", {First}) /\ RingOf(l2, "zombie", {})
  BY <1>9, <1>12, <1>13, RingKept
<1> QED
  BY <1>7, <1>8, <1>10, <1>11, <1>14 DEF Rings

-----------------------------------------------------------------------------
\* The second round of wakeup(): r is the sleep queue, W whom it moves.
Moved(r, W, i) == {r[j] : j \in {k \in 1..i : r[k] \in W}}

RoundStep(l, r, W, i) == IF r[i] \in W THEN Awaken(l, r[i]) ELSE l

\* The queues when everybody up to the i-th sleeper has been looked at.
AtRound(l, R, S, Z, r, W, i) == Rings(l, R \cup Moved(r, W, i), S \ Moved(r, W, i), Z)

LEMMA MovedMore ==
    ASSUME NEW S, NEW r \in Seq(S), NEW W, NEW i \in 1..Len(r),
           \A j, k \in 1..Len(r) : r[j] = r[k] => j = k
    PROVE  /\ r[i] \in W => Moved(r, W, i) = Moved(r, W, i - 1) \cup {r[i]}
           /\ r[i] \notin W => Moved(r, W, i) = Moved(r, W, i - 1)
           /\ r[i] \notin Moved(r, W, i - 1) /\ r[i] \in S
<1>1. \A k \in 1..i : k \in 1..(i - 1) \/ k = i
  OBVIOUS
<1>2. \A k \in 1..(i - 1) : k \in 1..i /\ k \in 1..Len(r) /\ k # i
  OBVIOUS
<1>3. i \in 1..i
  OBVIOUS
<1>4. r[i] \notin Moved(r, W, i - 1)
  BY <1>2 DEF Moved
<1>5. r[i] \in W => Moved(r, W, i) = Moved(r, W, i - 1) \cup {r[i]}
  BY <1>1, <1>2, <1>3 DEF Moved
<1>6. r[i] \notin W => Moved(r, W, i) = Moved(r, W, i - 1)
  BY <1>1, <1>2, <1>3 DEF Moved
<1> QED
  BY <1>4, <1>5, <1>6

LEMMA RoundGoes ==
    ASSUME NEW R, NEW S, NEW Z, Apart(R, S, Z), NEW W, NEW r \in Seq(S),
           \A j, k \in 1..Len(r) : r[j] = r[k] => j = k,
           NEW f, Rings(f[0], R, S, Z),
           \A i \in 1..Len(r) : AtRound(f[i - 1], R, S, Z, r, W, i - 1)
                                  => f[i] = RoundStep(f[i - 1], r, W, i)
    PROVE  \A i \in 0..Len(r) : AtRound(f[i], R, S, Z, r, W, i)
<1> DEFINE bad == {i \in 0..Len(r) : ~AtRound(f[i], R, S, Z, r, W, i)}
<1>1. SUFFICES ASSUME bad # {} PROVE FALSE
  OBVIOUS
<1>2. bad \in SUBSET Nat
  OBVIOUS
<1> HIDE DEF bad
<1>3. PICK i \in bad : \A j \in bad : i <= j
  BY <1>1, <1>2, LeastNatural
<1>4. i \in 0..Len(r) /\ ~AtRound(f[i], R, S, Z, r, W, i)
  BY <1>3 DEF bad
<1>5. CASE i = 0
  <2>1. Moved(r, W, 0) = {}
    BY DEF Moved
  <2>2. R \cup {} = R /\ S \ {} = S
    OBVIOUS
  <2> QED
    BY <1>4, <1>5, <2>1, <2>2 DEF AtRound
<1>6. CASE i # 0
  <2>1. i \in 1..Len(r) /\ i - 1 \in 0..Len(r) /\ i - 1 < i
    BY <1>4, <1>6
  <2>2. i - 1 \notin bad
    BY <1>3, <2>1
  <2>3. PICK k : k = f[i - 1]
    OBVIOUS
  <2>4. AtRound(k, R, S, Z, r, W, i - 1)
    BY <2>1, <2>2, <2>3 DEF bad
  <2>5. f[i] = RoundStep(k, r, W, i)
    BY <2>1, <2>3, <2>4
  <2>6. PICK V : V = Moved(r, W, i - 1)
    OBVIOUS
  <2>7. /\ r[i] \in W => Moved(r, W, i) = V \cup {r[i]}
        /\ r[i] \notin W => Moved(r, W, i) = V
        /\ r[i] \notin V /\ r[i] \in S
    BY <2>1, <2>6, MovedMore
  <2>8. V \subseteq S
    BY <2>1, <2>6 DEF Moved
  <2>9. Rings(k, R \cup V, S \ V, Z) /\ Apart(R \cup V, S \ V, Z)
    BY <2>4, <2>6, <2>8 DEF AtRound, Apart
  <2>10. CASE r[i] \in W
    <3>1. f[i] = Awaken(k, r[i]) /\ r[i] \in S \ V
      BY <2>5, <2>7, <2>10 DEF RoundStep
    <3>2. Rings(f[i], (R \cup V) \cup {r[i]}, (S \ V) \ {r[i]}, Z)
      BY <2>9, <3>1, AwakenMoves
    <3>3. /\ (R \cup V) \cup {r[i]} = R \cup (V \cup {r[i]})
          /\ (S \ V) \ {r[i]} = S \ (V \cup {r[i]})
      OBVIOUS
    <3> QED
      BY <1>4, <2>7, <2>10, <3>2, <3>3 DEF AtRound
  <2>11. CASE r[i] \notin W
    BY <1>4, <2>5, <2>7, <2>9, <2>11 DEF AtRound, RoundStep
  <2> QED
    BY <2>10, <2>11
<1> QED
  BY <1>5, <1>6

\* The recursive definition of SecondRound has a solution.
RoundWalked(f, l, r, W) ==
    f = [i \in 0..Len(r) |-> IF i = 0 THEN l ELSE RoundStep(f[i - 1], r, W, i)]

LEMMA RoundExists ==
    ASSUME NEW l, NEW R, NEW S, NEW Z, Rings(l, R, S, Z), Apart(R, S, Z), NEW W,
           NEW r \in Seq(S), \A j, k \in 1..Len(r) : r[j] = r[k] => j = k
    PROVE  \E f : RoundWalked(f, l, r, W)
<1> DEFINE Try(k, i) == IF RoundStep(k, r, W, i) \in Links THEN RoundStep(k, r, W, i) ELSE k
<1>1. PICK N \in Nat : N = Len(r)
  OBVIOUS
<1>2. PICK step : step = [x \in (1..N) \X Links |-> Try(x[2], x[1])]
  OBVIOUS
<1>3. \A i \in 1..N, k \in Links : step[<<i, k>>] = Try(k, i)
  BY <1>2
<1>4. step \in Steps(N, Links)
  BY <1>2, <1>1 DEF Steps
<1>5. l \in Links
  BY DEF Rings
<1>6. PICK f \in [0..N -> Links] : Iterates(f, l, N, step)
  BY <1>4, <1>5, Iterate
<1>7. f[0] = l /\ \A i \in 1..N : f[i] = step[<<i, f[i - 1]>>]
  BY <1>6 DEF Iterates
<1>8. \A i \in 1..N : f[i] = Try(f[i - 1], i)
  <2>1. \A i \in 1..N : f[i - 1] \in Links
    BY <1>6
  <2> QED
    BY <1>3, <1>7, <2>1
<1> HIDE DEF Try
<1>9. ASSUME NEW i \in 1..N, AtRound(f[i - 1], R, S, Z, r, W, i - 1)
      PROVE  f[i] = RoundStep(f[i - 1], r, W, i)
  <2>1. PICK V : V = Moved(r, W, i - 1)
    OBVIOUS
  <2>2. r[i] \notin V /\ r[i] \in S /\ V \subseteq S
    <3>1. i \in 1..Len(r)
      BY <1>1
    <3>2. r[i] \notin V /\ r[i] \in S
      BY <2>1, <3>1, MovedMore
    <3> QED
      BY <1>1, <2>1, <3>2 DEF Moved
  <2>3. PICK k : k = f[i - 1]
    OBVIOUS
  <2>4. Rings(k, R \cup V, S \ V, Z) /\ Apart(R \cup V, S \ V, Z)
    BY <1>9, <2>1, <2>2, <2>3 DEF AtRound, Apart
  <2>5. r[i] \in S \ V
    BY <2>2
  <2>6. Awaken(k, r[i]) \in Links /\ k \in Links
    <3>1. PICK k2 : k2 = Awaken(k, r[i])
      OBVIOUS
    <3>2. Rings(k2, (R \cup V) \cup {r[i]}, (S \ V) \ {r[i]}, Z)
      BY <2>4, <2>5, <3>1, AwakenMoves
    <3> QED
      BY <2>4, <3>1, <3>2 DEF Rings
  <2>7. RoundStep(k, r, W, i) \in Links
    BY <2>6 DEF RoundStep
  <2> QED
    BY <1>8, <2>3, <2>7 DEF Try
<1>10. \A i \in 0..N : AtRound(f[i], R, S, Z, r, W, i)
  BY <1>1, <1>7, <1>9, RoundGoes
<1>11. \A i \in 1..N : i - 1 \in 0..N
  OBVIOUS
<1>12. \A i \in 1..N : f[i] = RoundStep(f[i - 1], r, W, i)
  BY <1>9, <1>10, <1>11
<1>13. f = [i \in 0..N |-> f[i]]
  BY <1>6
<1>14. \A i \in 0..N : f[i] = IF i = 0 THEN l ELSE RoundStep(f[i - 1], r, W, i)
  BY <1>7, <1>12
<1>15. f = [i \in 0..N |-> IF i = 0 THEN l ELSE RoundStep(f[i - 1], r, W, i)]
  BY <1>13, <1>14
<1>16. RoundWalked(f, l, r, W)
  BY <1>1, <1>15 DEF RoundWalked
<1> QED
  BY <1>16

\* wakeup() moves all the sleepers of the channel, and nobody else.
LEMMA WakeupMoves ==
    ASSUME NEW R, NEW S, NEW Z, Rings(links, R, S, Z), Apart(R, S, Z), NEW addr,
           NEW W, W = Sleepers(addr)
    PROVE  /\ W = {p \in S : wchan[p] = addr \/ status[p] = "run"}
           /\ Rings(SecondRound(addr), R \cup W, S \ W, Z)
           /\ Apart(R \cup W, S \ W, Z)
<1>1. links \in Links /\ RingOf(links, "sleep", S)
  BY DEF Rings
<1>2. /\ Members(links, "sleep") = S /\ Ring(links, "sleep") \in Seq(S)
      /\ \A i, j \in 1..Len(Ring(links, "sleep")) :
            Ring(links, "sleep")[i] = Ring(links, "sleep")[j] => i = j
  BY <1>1, QueuesAre, RingIs
<1>3. PICK r \in Seq(S) : r = Ring(links, "sleep")
  BY <1>2
<1>4. /\ \A i, j \in 1..Len(r) : r[i] = r[j] => i = j
      /\ ToSet(r) = S
  BY <1>2, <1>3 DEF Members
<1>5. W = {p \in S : wchan[p] = addr \/ status[p] = "run"}
  BY <1>2 DEF Sleepers
<1>6. SecondRound(addr) = (CHOOSE f : RoundWalked(f, links, r, W))[Len(r)]
  BY <1>3 DEF SecondRound, RoundWalked, RoundStep
<1>7. PICK f : f = CHOOSE g : RoundWalked(g, links, r, W)
  OBVIOUS
<1>8. RoundWalked(f, links, r, W)
  BY <1>4, <1>7, RoundExists
<1>9. PICK N \in Nat : N = Len(r)
  OBVIOUS
<1>10. \A i \in 0..N : f[i] = IF i = 0 THEN links ELSE RoundStep(f[i - 1], r, W, i)
  BY <1>8, <1>9 DEF RoundWalked
<1>11. f[0] = links /\ \A i \in 1..N : f[i] = RoundStep(f[i - 1], r, W, i)
  BY <1>10
<1>12. \A i \in 0..N : AtRound(f[i], R, S, Z, r, W, i)
  BY <1>4, <1>9, <1>11, RoundGoes
<1>13. AtRound(f[N], R, S, Z, r, W, N)
  BY <1>12
<1>14. Moved(r, W, N) = W
  BY <1>4, <1>5, <1>9 DEF Moved, ToSet
<1>15. Rings(SecondRound(addr), R \cup W, S \ W, Z)
  BY <1>6, <1>7, <1>9, <1>13, <1>14 DEF AtRound
<1> QED
  BY <1>5, <1>15 DEF Apart
-----------------------------------------------------------------------------
(***************************************************************************)
(* The invariant.  R, S and Z are the processes of the three queues.       *)
(***************************************************************************)
Status == {"unused", "run", "sleep", "idl", "zombie"}
Halt == {"no", "sleepqueue_lost", "sleep_panic", "lock_panic", "freed", "exit_twice"}
Place == {"user", "wait4", "reap", "exit", "exited", "kill", "killexit"}

\* Where the processes are whose statuses are st.
Placed(st, R, S, Z) ==
    \A p \in Proc :
        /\ st[p] = "unused" => p \notin R \cup S \cup Z
        /\ st[p] = "run" => p \in R
        /\ st[p] = "sleep" => p \in S
        /\ st[p] = "idl" => p \in R \cup S
        /\ st[p] = "zombie" <=> p \in Z
        /\ p \in R => st[p] \in {"run", "idl"}

Queued(l, st, h, R, S, Z) ==
    /\ Rings(l, R, S, Z) /\ Placed(st, R, S, Z)
    /\ h # "sleepqueue_lost" => Apart(R, S, Z)

InQueues == \E R, S, Z : Queued(links, status, halt, R, S, Z)

CoreTypes ==
    /\ status \in [Proc -> Status]
    /\ wchan \in [Proc -> Address \cup {NULL}]
    /\ curproc \in Proc
    /\ idle \in BOOLEAN /\ in_pswitch \in BOOLEAN /\ need_to_pswitch \in BOOLEAN
    /\ halt \in Halt

OtherTypes ==
    /\ parent \in [Proc -> Proc \cup {NULL}]
    /\ nr_of_children \in [Proc -> Nat]
    /\ disposition \in [Proc -> Disposition]
    /\ pc \in [Proc -> Place]
    /\ victim \in [Proc -> Proc \cup {NULL}]

\* Who runs is not asleep; a dead process runs only until it switches away.
CpuSound ==
    halt = "no" /\ ~in_pswitch =>
        \/ status[curproc] \in {"run", "idl"}
        \/ status[curproc] = "zombie" /\ pc[curproc] \in {"user", "exited"}

Core == CoreTypes /\ InQueues /\ CpuSound /\ IdleOnlyWhenNobodyRuns

VictimNamed ==
    \A p \in Proc : pc[p] \in {"reap", "exit", "exited", "kill", "killexit"}
                        => victim[p] \in Proc

\* The dead child that a parent is about to discard is still there.
Reaping ==
    \A p \in Proc : pc[p] = "reap" => /\ victim[p] \in Proc
                                      /\ status[victim[p]] = "zombie"
                                      /\ parent[victim[p]] = p

ParentOther == \A p \in Proc : status[p] # "unused" => parent[p] # p

Family == Reaping /\ ParentOther /\ ChildrenCounted

NoneMissed ==
    \A p, c \in Proc : status[p] = "sleep" /\ wchan[p] = p /\ status[c] = "zombie"
                           => parent[c] # p

IInv == Core /\ OtherTypes /\ VictimNamed /\ Family /\ NoneMissed

-----------------------------------------------------------------------------
LEMMA TypesTogether == InQueues => (TypeOK <=> CoreTypes /\ OtherTypes)
<1> SUFFICES ASSUME InQueues PROVE TypeOK <=> CoreTypes /\ OtherTypes
  OBVIOUS
<1>1. links \in Links
  BY DEF InQueues, Queued, Rings
<1> QED
  BY <1>1 DEF TypeOK, CoreTypes, OtherTypes, Status, Halt, Place

\* What walks over the queues see.
LEMMA RingsSeen ==
    ASSUME NEW l, NEW R, NEW S, NEW Z, Rings(l, R, S, Z)
    PROVE  /\ Members(l, "run") = R /\ Members(l, "sleep") = S /\ Members(l, "zombie") = Z
           /\ \A q \in Queue : SoundQueue(l, q)
           /\ l.head["run"] = NULL <=> R = {}
           /\ l.head["sleep"] = NULL <=> S = {}
           /\ l.head["run"] # NULL => l.head["run"] \in R
<1>1. l \in Links /\ RingOf(l, "run", R) /\ RingOf(l, "sleep", S) /\ RingOf(l, "zombie", Z)
  BY DEF Rings
<1>2. Members(l, "run") = R /\ SoundQueue(l, "run")
  BY <1>1, QueuesAre, RingIs
<1>3. Members(l, "sleep") = S /\ SoundQueue(l, "sleep")
  BY <1>1, QueuesAre, RingIs
<1>4. Members(l, "zombie") = Z /\ SoundQueue(l, "zombie")
  BY <1>1, QueuesAre, RingIs
<1>5. \A q \in Queue : SoundQueue(l, q)
  BY <1>2, <1>3, <1>4 DEF Queue
<1>6. /\ l.head["run"] = NULL <=> R = {}
      /\ l.head["run"] # NULL => l.head["run"] \in R
  BY <1>1, ProcFinite DEF RingOf
<1>7. l.head["sleep"] = NULL <=> S = {}
  BY <1>1, ProcFinite DEF RingOf
<1> QED
  BY <1>2, <1>3, <1>4, <1>5, <1>6, <1>7

\* While the model runs, the queues tell the status.
LEMMA QueuesNow ==
    ASSUME InQueues, halt = "no"
    PROVE  \E R, S, Z : /\ Rings(links, R, S, Z) /\ Placed(status, R, S, Z)
                        /\ Apart(R, S, Z)
  BY DEF InQueues, Queued

\* What a step leaves to the families when it neither makes nor discards a
\* process and takes no child.
Quiet ==
    /\ parent' = parent /\ nr_of_children' = nr_of_children
    /\ \A p \in Proc : /\ status'[p] = "unused" <=> status[p] = "unused"
                       /\ status[p] = "zombie" => status'[p] = "zombie"
                       /\ pc'[p] = "reap" <=> pc[p] = "reap"
                       /\ pc[p] = "reap" => victim'[p] = victim[p]

LEMMA FamilyKept ==
    ASSUME Family, Quiet, CoreTypes, CoreTypes'
    PROVE  Family'
<1>1. Reaping'
  BY DEF Family, Reaping, Quiet
<1>2. ParentOther'
  BY DEF Family, ParentOther, Quiet
<1>3. ASSUME NEW p \in Proc, Alive(p)'
      PROVE  nr_of_children'[p] = Cardinality({c \in Proc :
                /\ status'[c] # "unused" /\ parent'[c] = p
                /\ ~(pc'[p] = "reap" /\ victim'[p] = c)})
  <2>1. Alive(p)
    BY <1>3 DEF Alive, Quiet
  <2>2. {c \in Proc : /\ status'[c] # "unused" /\ parent'[c] = p
                      /\ ~(pc'[p] = "reap" /\ victim'[p] = c)}
      = {c \in Proc : /\ status[c] # "unused" /\ parent[c] = p
                      /\ ~(pc[p] = "reap" /\ victim[p] = c)}
    BY DEF Quiet
  <2> QED
    BY <2>1, <2>2 DEF Family, ChildrenCounted, Quiet
<1>4. ChildrenCounted'
  BY <1>3 DEF ChildrenCounted
<1> QED
  BY <1>1, <1>2, <1>4 DEF Family

-----------------------------------------------------------------------------
(***************************************************************************)
(* What the procedures of kern/proc.c do to the core of the invariant.     *)
(***************************************************************************)
CpuTypes ==
    /\ curproc \in Proc
    /\ idle \in BOOLEAN /\ in_pswitch \in BOOLEAN /\ need_to_pswitch \in BOOLEAN

\* The CPU runs one of R or idles.
CpuOn(R) == CpuTypes /\ IdleOnlyWhenNobodyRuns /\ (~in_pswitch => curproc \in R)

LEMMA Launched ==
    ASSUME NEW l, NEW R, NEW S, NEW Z, Rings(l, R, S, Z), R # {},
           idle' = FALSE, Launch(l)
    PROVE  Rings(links', R, S, Z) /\ CpuOn(R)'
<1>1. PICK p : p = l.next[l.head["run"]]
  OBVIOUS
<1>2. links' = [l EXCEPT !.head["run"] = p] /\ curproc' = p
      /\ in_pswitch' = FALSE /\ need_to_pswitch' = FALSE
  BY <1>1 DEF Launch
<1>3. Rings(links', R, S, Z) /\ p \in R
  BY <1>1, <1>2, HeadMoved
<1>4. p \in Proc
  BY <1>3, RingsAre
<1>5. CpuTypes' /\ (~in_pswitch' => curproc' \in R)
  BY <1>2, <1>3, <1>4 DEF CpuTypes
<1>6. IdleOnlyWhenNobodyRuns'
  BY <1>2 DEF IdleOnlyWhenNobodyRuns
<1> QED
  BY <1>3, <1>5, <1>6 DEF CpuOn

LEMMA Switched ==
    ASSUME NEW l, NEW R, NEW S, NEW Z, Rings(l, R, S, Z), CpuTypes, ~in_pswitch, ~idle,
           NEW need \in BOOLEAN, Pswitch(l, need)
    PROVE  Rings(links', R, S, Z) /\ CpuOn(R)'
<1>1. l.head["run"] = NULL <=> R = {}
  BY RingsSeen
<1>2. CASE l.head["run"] = NULL /\ StartIdle(l, need)
  <2>1. Rings(links', R, S, Z)
    BY <1>2 DEF StartIdle
  <2>2. CpuOn(R)'
    BY <1>2 DEF StartIdle, CpuOn, CpuTypes, IdleOnlyWhenNobodyRuns
  <2> QED
    BY <2>1, <2>2
<1>3. CASE l.head["run"] # NULL /\ Launch(l) /\ idle' = idle
  <2>1. R # {} /\ idle' = FALSE
    BY <1>1, <1>3 DEF CpuTypes
  <2> QED
    BY <1>3, <2>1, Launched
<1> QED
  BY <1>2, <1>3 DEF Pswitch

\* The core follows from where the queues and the CPU are.
LEMMA CoreNext ==
    ASSUME CoreTypes', NEW R, NEW S, NEW Z, Queued(links', status', halt', R, S, Z),
           CpuOn(R)'
    PROVE  Core'
<1>1. InQueues'
  BY DEF InQueues
<1>2. CpuSound'
  BY DEF CpuSound, CpuOn, CpuTypes, Queued, Placed
<1> QED
  BY <1>1, <1>2 DEF Core, CpuOn

\* sleep() puts the process to sleep at addr, or panics.
AsleepAt(p, addr) ==
    \/ status' = status /\ wchan' = wchan
    \/ /\ status' = [status EXCEPT ![p] = "sleep"]
       /\ wchan' = [wchan EXCEPT ![p] = addr]

LEMMA SleepMoves ==
    ASSUME Core, NEW p \in Proc, Running(p), status[p] \in {"run", "idl"},
           NEW addr \in Address, Sleep(p, addr)
    PROVE  Core' /\ AsleepAt(p, addr)
<1>1. CoreTypes /\ halt = "no" /\ ~in_pswitch /\ ~idle /\ curproc = p
  BY DEF Core, Running, IdleOnlyWhenNobodyRuns
<1>2. PICK R, S, Z : /\ Rings(links, R, S, Z) /\ Placed(status, R, S, Z)
                     /\ Apart(R, S, Z)
  BY <1>1, QueuesNow DEF Core
<1>3. CASE /\ halt' = "sleep_panic"
           /\ UNCHANGED <<links, status, wchan, cpuVars>>
  <2>1. CoreTypes' /\ Queued(links', status', halt', R, S, Z)
    BY <1>1, <1>2, <1>3 DEF CoreTypes, Queued, cpuVars, Halt
  <2>2. InQueues'
    BY <2>1 DEF InQueues
  <2>3. CpuSound' /\ IdleOnlyWhenNobodyRuns'
    BY <1>3 DEF Core, CpuSound, IdleOnlyWhenNobodyRuns, cpuVars
  <2> QED
    BY <1>3, <2>1, <2>2, <2>3 DEF AsleepAt, Core
<1>4. CASE /\ status[p] \in {"run", "idl"} /\ links.head["run"] = p
           /\ status' = [status EXCEPT ![p] = "sleep"]
           /\ wchan' = [wchan EXCEPT ![p] = addr]
           /\ Pswitch(EnterSleepQueue(LeaveRunQueue(links, p), p), need_to_pswitch)
           /\ UNCHANGED halt
  <2>1. PICK l : l = EnterSleepQueue(LeaveRunQueue(links, p), p)
    OBVIOUS
  <2>2. p \in R /\ RunHead(links, p)
    BY <1>2, <1>4, ProcFinite, RingsSeen DEF RunHead
  <2>3. Rings(l, R \ {p}, S \cup {p}, Z)
    BY <1>2, <2>1, <2>2, PutToSleep
  <2>4. CpuTypes
    BY <1>1 DEF CoreTypes, CpuTypes
  <2>5. Rings(links', R \ {p}, S \cup {p}, Z) /\ CpuOn(R \ {p})'
    <3>1. PICK Q, T2 : Q = R \ {p} /\ T2 = S \cup {p}
      OBVIOUS
    <3>2. PICK need \in BOOLEAN : need = need_to_pswitch
      BY <2>4 DEF CpuTypes
    <3>3. Rings(l, Q, T2, Z) /\ Pswitch(l, need)
      BY <1>4, <2>1, <2>3, <3>1, <3>2
    <3>4. Rings(links', Q, T2, Z) /\ CpuOn(Q)'
      BY <1>1, <2>4, <3>2, <3>3, Switched
    <3> QED
      BY <3>1, <3>4
  <2>6. CoreTypes'
    BY <1>1, <1>4, <2>5 DEF CoreTypes, CpuOn, CpuTypes, Status
  <2>7. Placed(status', R \ {p}, S \cup {p}, Z)
    BY <1>1, <1>2, <1>4, <2>2 DEF Placed, CoreTypes
  <2>8. Apart(R \ {p}, S \cup {p}, Z)
    BY <1>2, <2>2 DEF Apart
  <2>9. Queued(links', status', halt', R \ {p}, S \cup {p}, Z)
    BY <2>5, <2>7, <2>8 DEF Queued
  <2>10. Core'
    BY <2>5, <2>6, <2>9, CoreNext
  <2> QED
    BY <1>4, <2>10 DEF AsleepAt
<1> QED
  BY <1>3, <1>4 DEF Sleep

\* wakeup_proc() changes q alone, and runs it if it slept.
Roused(q, st) ==
    /\ \A x \in Proc \ {q} : status'[x] = st[x] /\ wchan'[x] = wchan[x]
    /\ st[q] = "sleep" => status'[q] = "run"
    /\ st[q] # "sleep" => status'[q] = st[q] /\ wchan'[q] = wchan[q]

SideTypes ==
    /\ status \in [Proc -> Status] /\ wchan \in [Proc -> Address \cup {NULL}]
    /\ halt \in Halt

LEMMA WakeupProcMoves ==
    ASSUME SideTypes, halt = "no", NEW l, NEW R, NEW S, NEW Z, Rings(l, R, S, Z),
           NEW st \in [Proc -> Status], Placed(st, R, S, Z), Apart(R, S, Z),
           NEW q \in Proc, st[q] = status[q], WakeupProc(q, l, st)
    PROVE  /\ \E R2, S2 : Queued(links', status', halt', R2, S2, Z)
           /\ SideTypes' /\ Roused(q, st)
<1>1. CASE status[q] # "sleep"
  <2>1. links' = l /\ status' = st /\ wchan' = wchan /\ halt' = halt
    BY <1>1 DEF WakeupProc
  <2>2. Queued(links', status', halt', R, S, Z)
    BY <2>1 DEF Queued
  <2> QED
    BY <1>1, <2>1, <2>2 DEF SideTypes, Roused
<1>2. CASE status[q] = "sleep"
  <2>1. /\ links' = AwakenProc(l, q)
        /\ status' = [st EXCEPT ![q] = "run"] /\ wchan' = [wchan EXCEPT ![q] = NULL]
        /\ halt' = IF l.next[q] = q THEN "sleepqueue_lost" ELSE halt
    BY <1>2 DEF WakeupProc
  <2>2. q \in S
    BY <1>2 DEF Placed
  <2>3. PICK l2 : l2 = AwakenProc(l, q)
    OBVIOUS
  <2>4. /\ S = {q} <=> l.next[q] = q
        /\ S # {q} => Rings(l2, R \cup {q}, S \ {q}, Z) /\ Apart(R \cup {q}, S \ {q}, Z)
        /\ S = {q} => Rings(l2, R \cup {q}, R \cup {q}, Z)
    <3>1. S = {q} <=> l.next[q] = q
      <4>1. PICK next, prev : next = l.next /\ prev = l.prev
        OBVIOUS
      <4>2. Circle(next, prev, S)
        BY <4>1 DEF Rings, RingOf
      <4>3. next[q] = q <=> S = {q}
        BY <2>2, <4>2, Alone
      <4> QED
        BY <4>1, <4>3
    <3>2. S # {q} => Rings(l2, R \cup {q}, S \ {q}, Z) /\ Apart(R \cup {q}, S \ {q}, Z)
      BY <2>2, <2>3, AwakenProcMoves
    <3>3. S = {q} => Rings(l2, R \cup {q}, R \cup {q}, Z)
      BY <2>2, <2>3, AwakenProcMoves
    <3> QED
      BY <3>1, <3>2, <3>3
  <2>5. SideTypes'
    BY <2>1 DEF SideTypes, Status, Halt
  <2>6. Roused(q, st)
    BY <1>2, <2>1 DEF Roused, SideTypes
  <2>7. CASE S # {q}
    <3>1. Placed(status', R \cup {q}, S \ {q}, Z)
      BY <2>1, <2>2 DEF Placed, Apart
    <3>2. Queued(links', status', halt', R \cup {q}, S \ {q}, Z)
      BY <2>1, <2>3, <2>4, <2>7, <3>1 DEF Queued
    <3> QED
      BY <2>5, <2>6, <3>2
  <2>8. CASE S = {q}
    <3>1. Placed(status', R \cup {q}, R \cup {q}, Z)
      BY <2>1, <2>2, <2>8 DEF Placed, Apart
    <3>2. Queued(links', status', halt', R \cup {q}, R \cup {q}, Z)
      BY <2>1, <2>3, <2>4, <2>8, <3>1 DEF Queued
    <3> QED
      BY <2>5, <2>6, <3>2
  <2> QED
    BY <2>7, <2>8
<1> QED
  BY <1>1, <1>2

\* The second half of proc_exit(): v dies, its parent may wake.
Dead(v) ==
    /\ ~Alive(v) => status' = status
    /\ Alive(v) =>
          /\ status'[v] = "zombie"
          /\ \A x \in Proc \ {v} : \/ status'[x] = status[x]
                                   \/ status[x] = "sleep" /\ status'[x] = "run"

LEMMA NotParent ==
    ASSUME NoneMissed, NEW v \in Proc, UNCHANGED parent,
           \A x \in Proc \ {v} : status'[x] = "zombie" => status[x] = "zombie",
           \A x \in Proc : status'[x] = "sleep" => status[x] = "sleep" /\ wchan'[x] = wchan[x],
           ASSUME parent[v] \in Proc, status[parent[v]] = "sleep",
                  wchan[parent[v]] = parent[v]
           PROVE  status'[parent[v]] # "sleep"
    PROVE  NoneMissed'
<1>1. SUFFICES ASSUME NEW p \in Proc, NEW c \in Proc, status'[p] = "sleep",
                      wchan'[p] = p, status'[c] = "zombie", parent[c] = p
               PROVE  FALSE
  BY DEF NoneMissed
<1>2. status[p] = "sleep" /\ wchan[p] = p
  BY <1>1
<1>3. CASE c = v
  BY <1>1, <1>2, <1>3
<1>4. CASE c # v
  BY <1>1, <1>2, <1>4 DEF NoneMissed
<1> QED
  BY <1>3, <1>4

LEMMA DeathMoves ==
    ASSUME Core, OtherTypes, ParentOther, NoneMissed, halt = "no", ~in_pswitch,
           NEW v \in Proc, ExitFinish(v), UNCHANGED cpuVars, UNCHANGED parent
    PROVE  /\ CoreTypes' /\ InQueues' /\ IdleOnlyWhenNobodyRuns' /\ NoneMissed'
           /\ Dead(v)
<1>1. /\ CoreTypes /\ ~idle /\ SideTypes
      /\ curproc' = curproc /\ idle' = idle /\ in_pswitch' = in_pswitch
      /\ need_to_pswitch' = need_to_pswitch
  BY DEF Core, CoreTypes, IdleOnlyWhenNobodyRuns, cpuVars, SideTypes
<1>2. PICK R, S, Z : /\ Rings(links, R, S, Z) /\ Placed(status, R, S, Z)
                     /\ Apart(R, S, Z)
  BY QueuesNow DEF Core
<1>3. IdleOnlyWhenNobodyRuns'
  BY <1>1 DEF IdleOnlyWhenNobodyRuns
<1>4. SideTypes' => CoreTypes'
  BY <1>1 DEF SideTypes, CoreTypes
<1>5. CASE ~Alive(v)
  <2>1. links' = links /\ status' = status /\ wchan' = wchan /\ halt' \in Halt
    BY <1>5 DEF ExitFinish, Halt
  <2>2. Queued(links', status', halt', R, S, Z)
    BY <1>2, <2>1 DEF Queued
  <2>3. SideTypes' /\ NoneMissed'
    BY <1>1, <2>1 DEF SideTypes, NoneMissed
  <2> QED
    BY <1>3, <1>4, <1>5, <2>1, <2>2, <2>3 DEF InQueues, Dead
<1>6. CASE Alive(v)
  <2>1. PICK l : l = InsertAfterHead(RemoveFromAll(links, v), "zombie", v)
    OBVIOUS
  <2>2. PICK st \in [Proc -> Status] : st = [status EXCEPT ![v] = "zombie"]
    BY <1>1 DEF CoreTypes, Status
  <2>3. PICK Q, U, Y : Q = R \ {v} /\ U = S \ {v} /\ Y = Z \cup {v}
    OBVIOUS
  <2>4. Rings(l, Q, U, Y) /\ Apart(Q, U, Y)
    BY <1>2, <2>1, <2>3, ToZombies
  <2>5. st[v] = "zombie" /\ \A x \in Proc \ {v} : st[x] = status[x]
    BY <1>1, <2>2 DEF CoreTypes
  <2>6. Placed(st, Q, U, Y)
    BY <1>2, <1>6, <2>3, <2>5 DEF Placed, Alive
  <2>7. NotifyParent(v, l, st)
    BY <1>6, <2>1, <2>2 DEF ExitFinish
  <2>8. CASE /\ links' = l /\ status' = st /\ wchan' = wchan /\ halt' \in Halt
             /\ parent[v] = NULL \/ status[parent[v]] = "unused" \/ ~InWait4(parent[v])
    <3>1. Queued(links', status', halt', Q, U, Y)
      BY <2>4, <2>6, <2>8 DEF Queued
    <3>2. SideTypes' /\ Dead(v)
      BY <1>1, <1>6, <2>5, <2>8 DEF SideTypes, Dead
    <3>3. /\ \A x \in Proc \ {v} : status'[x] = "zombie" => status[x] = "zombie"
          /\ \A x \in Proc : status'[x] = "sleep" => status[x] = "sleep" /\ wchan'[x] = wchan[x]
      BY <2>5, <2>8
    <3>4. ASSUME parent[v] \in Proc, status[parent[v]] = "sleep",
                  wchan[parent[v]] = parent[v]
          PROVE  status'[parent[v]] # "sleep"
      BY <2>8, <3>4, ProcFinite DEF InWait4
    <3>5. NoneMissed'
      BY <3>3, <3>4, NotParent
    <3> QED
      BY <1>3, <1>4, <3>1, <3>2, <3>5 DEF InQueues
  <2>9. CASE parent[v] # NULL /\ WakeupProc(parent[v], l, st)
    <3>1. PICK q \in Proc : q = parent[v]
      BY <2>9 DEF OtherTypes
    <3>2. q # v
      BY <1>6, <3>1 DEF ParentOther, Alive
    <3>3. st[q] = status[q] /\ WakeupProc(q, l, st)
      BY <2>5, <2>9, <3>1, <3>2
    <3>4. /\ \E R2, S2 : Queued(links', status', halt', R2, S2, Y)
          /\ SideTypes' /\ Roused(q, st)
      BY <1>1, <2>4, <2>6, <3>3, WakeupProcMoves
    <3>5. Dead(v)
      BY <1>6, <2>5, <3>2, <3>4 DEF Roused, Dead
    <3>6. /\ \A x \in Proc \ {v} : status'[x] = "zombie" => status[x] = "zombie"
          /\ \A x \in Proc : status'[x] = "sleep" => status[x] = "sleep" /\ wchan'[x] = wchan[x]
      BY <2>5, <3>2, <3>3, <3>4 DEF Roused
    <3>7. ASSUME status[parent[v]] = "sleep"
          PROVE  status'[parent[v]] # "sleep"
      BY <3>1, <3>3, <3>4, <3>7 DEF Roused
    <3>8. NoneMissed'
      BY <3>6, <3>7, NotParent
    <3> QED
      BY <1>3, <1>4, <3>4, <3>5, <3>8 DEF InQueues
  <2> QED
    BY <1>1, <2>7, <2>8, <2>9 DEF NotifyParent, FatalToParent, Halt, SideTypes
<1> QED
  BY <1>5, <1>6

-----------------------------------------------------------------------------
(***************************************************************************)
(* Every action keeps the invariant.                                       *)
(***************************************************************************)
LEMMA WhoRuns ==
    ASSUME IInv, NEW p, Running(p)
    PROVE  /\ halt = "no" /\ ~in_pswitch /\ ~idle /\ curproc = p /\ p \in Proc
           /\ \/ status[p] \in {"run", "idl"}
              \/ status[p] = "zombie" /\ pc[p] \in {"user", "exited"}
  BY DEF IInv, Core, CoreTypes, CpuSound, IdleOnlyWhenNobodyRuns, Running

\* The part of the state that most actions leave alone.
LEMMA SameWhere ==
    ASSUME OtherTypes, VictimNamed,
           UNCHANGED <<parent, nr_of_children, disposition, whereVars>>
    PROVE  OtherTypes' /\ VictimNamed'
  BY DEF OtherTypes, VictimNamed, whereVars

LEMMA StutterKeeps == ASSUME IInv, UNCHANGED vars PROVE IInv'
<1>1. /\ links' = links /\ UNCHANGED procVars /\ UNCHANGED cpuVars
      /\ UNCHANGED whereVars /\ halt' = halt
  BY DEF vars
<1>2. CoreTypes' /\ InQueues' /\ CpuSound' /\ IdleOnlyWhenNobodyRuns'
  <2>1. CoreTypes'
    BY <1>1 DEF IInv, Core, CoreTypes, procVars, cpuVars
  <2>2. InQueues'
    BY <1>1 DEF IInv, Core, InQueues, procVars
  <2>3. CpuSound' /\ IdleOnlyWhenNobodyRuns'
    BY <1>1 DEF IInv, Core, CpuSound, IdleOnlyWhenNobodyRuns, procVars, cpuVars, whereVars
  <2> QED
    BY <2>1, <2>2, <2>3
<1>3. OtherTypes' /\ VictimNamed'
  BY <1>1, SameWhere DEF IInv, procVars
<1>4. Quiet
  BY <1>1 DEF Quiet, procVars, whereVars
<1>5. Family'
  BY <1>2, <1>4, FamilyKept DEF IInv, Core
<1>6. NoneMissed'
  BY <1>1 DEF IInv, NoneMissed, procVars
<1> QED
  BY <1>2, <1>3, <1>5, <1>6 DEF IInv, Core

\* A step that only says who runs.
LEMMA OnlyTheCpu ==
    ASSUME IInv, halt = "no", NEW R, NEW S, NEW Z, Placed(status, R, S, Z), Apart(R, S, Z),
           Rings(links', R, S, Z), CpuOn(R)', UNCHANGED <<procVars, whereVars, halt>>
    PROVE  IInv'
<1>1. UNCHANGED procVars /\ UNCHANGED whereVars /\ halt' = halt
  OBVIOUS
<1>2. CoreTypes'
  BY <1>1 DEF IInv, Core, CoreTypes, CpuOn, CpuTypes, procVars
<1>3. Queued(links', status', halt', R, S, Z)
  BY <1>1 DEF Queued, procVars
<1>4. Core'
  BY <1>2, <1>3, CoreNext
<1>5. OtherTypes' /\ VictimNamed'
  BY <1>1, SameWhere DEF IInv, procVars
<1>6. Quiet
  BY <1>1 DEF Quiet, procVars, whereVars
<1>7. Family'
  BY <1>2, <1>6, FamilyKept DEF IInv, Core
<1>8. NoneMissed'
  BY <1>1 DEF IInv, NoneMissed, procVars
<1> QED
  BY <1>4, <1>5, <1>7, <1>8 DEF IInv

LEMMA LeaveIdleKeeps == ASSUME IInv, LeaveIdle PROVE IInv'
<1>1. /\ halt = "no" /\ in_pswitch /\ ~idle /\ Launch(links)
      /\ UNCHANGED <<procVars, idle, whereVars, halt>>
  BY DEF LeaveIdle
<1>2. PICK R, S, Z : /\ Rings(links, R, S, Z) /\ Placed(status, R, S, Z)
                     /\ Apart(R, S, Z)
  BY <1>1, QueuesNow DEF IInv, Core
<1>3. links.head["run"] # NULL /\ idle' = FALSE
  BY <1>1 DEF IInv, Core, CoreTypes, IdleOnlyWhenNobodyRuns
<1>4. R # {}
  BY <1>2, <1>3, RingsSeen
<1>5. Rings(links', R, S, Z) /\ CpuOn(R)'
  BY <1>1, <1>2, <1>3, <1>4, Launched
<1> QED
  BY <1>1, <1>2, <1>5, OnlyTheCpu

\* A switch without anything before it.
LEMMA SwitchKeeps ==
    ASSUME IInv, halt = "no", Pswitch(links, need_to_pswitch),
           UNCHANGED <<procVars, whereVars, halt>>
    PROVE  IInv'
<1>1. PICK R, S, Z : /\ Rings(links, R, S, Z) /\ Placed(status, R, S, Z)
                     /\ Apart(R, S, Z)
  BY QueuesNow DEF IInv, Core
<1>2. CASE in_pswitch
  <2>1. UNCHANGED vars
    BY <1>2 DEF Pswitch, StartIdle, Launch, vars, cpuVars
  <2> QED
    BY <2>1, StutterKeeps
<1>3. CASE ~in_pswitch
  <2>1. ~idle /\ CpuTypes
    BY <1>3 DEF IInv, Core, CoreTypes, CpuTypes, IdleOnlyWhenNobodyRuns
  <2>2. PICK need \in BOOLEAN : need = need_to_pswitch
    BY <2>1 DEF CpuTypes
  <2>3. Rings(links', R, S, Z) /\ CpuOn(R)'
    BY <1>1, <1>3, <2>1, <2>2, Switched
  <2> QED
    BY <1>1, <2>3, OnlyTheCpu
<1> QED
  BY <1>2, <1>3

LEMMA TickKeeps == ASSUME IInv, Tick PROVE IInv'
  BY SwitchKeeps DEF Tick, InterruptsOn

LEMMA ReturnFromSyscallKeeps ==
    ASSUME IInv, NEW p \in Proc, ReturnFromSyscall(p) PROVE IInv'
  BY SwitchKeeps DEF ReturnFromSyscall, Running

LEMMA ExitSwitchKeeps == ASSUME IInv, NEW p \in Proc, ExitSwitch(p) PROVE IInv'
  BY SwitchKeeps DEF ExitSwitch, Running

LEMMA IrqWakeupKeeps == ASSUME IInv, NEW c \in Chan, IrqWakeup(c) PROVE IInv'
<1>1. /\ halt = "no" /\ halt' = halt /\ UNCHANGED <<parent, nr_of_children, disposition>>
      /\ UNCHANGED whereVars
  BY DEF IrqWakeup, InterruptsOn
<1>2. PICK R, S, Z : /\ Rings(links, R, S, Z) /\ Placed(status, R, S, Z)
                     /\ Apart(R, S, Z)
  BY <1>1, QueuesNow DEF IInv, Core
<1>3. PICK W : W = Sleepers(c)
  OBVIOUS
<1>4. PICK l : l = SecondRound(c)
  OBVIOUS
<1>5. PICK Q, U : Q = R \cup W /\ U = S \ W
  OBVIOUS
<1>6. /\ W = {p \in S : wchan[p] = c \/ status[p] = "run"}
      /\ Rings(l, Q, U, Z) /\ Apart(Q, U, Z)
  BY <1>2, <1>3, <1>4, <1>5, WakeupMoves
<1>7. /\ status' = [p \in Proc |-> IF p \in W THEN "run" ELSE status[p]]
      /\ wchan' = [p \in Proc |-> IF p \in W THEN NULL ELSE wchan[p]]
  BY <1>3 DEF IrqWakeup, Awakened
<1>8. /\ status' \in [Proc -> Status] /\ wchan' \in [Proc -> Address \cup {NULL}]
  BY <1>7 DEF IInv, Core, CoreTypes, Status
<1>9. Placed(status', Q, U, Z)
  BY <1>2, <1>5, <1>6, <1>7 DEF Placed, Apart
<1>10. CpuTypes
  BY DEF IInv, Core, CoreTypes, CpuTypes
<1>11. PICK need \in BOOLEAN : need = (need_to_pswitch \/ W # {})
  OBVIOUS
<1>12. Awakened(c).links = l /\ Awakened(c).any = (W # {})
  BY <1>3, <1>4 DEF Awakened
<1>13. Core'
  <2>1. CASE /\ in_pswitch
             /\ links' = l /\ need_to_pswitch' = need
             /\ idle' = StaysIdle(l)
             /\ UNCHANGED <<curproc, in_pswitch>>
    <3>1. CoreTypes'
      BY <1>1, <1>8, <1>10, <2>1 DEF CoreTypes, CpuTypes, IInv, Core, StaysIdle
    <3>2. Queued(links', status', halt', Q, U, Z)
      BY <1>6, <1>9, <2>1 DEF Queued
    <3>3. /\ links.head["run"] = NULL <=> R = {}
          /\ links.head["sleep"] = NULL <=> S = {}
      BY <1>2, RingsSeen
    <3>4. l.head["run"] = NULL <=> Q = {}
      BY <1>6, RingsSeen
    <3>5. IdleOnlyWhenNobodyRuns'
      <4>1. /\ idle => R = {}
            /\ ~idle => R # {}
        BY <2>1, <3>3 DEF IInv, Core, IdleOnlyWhenNobodyRuns
      <4>2. CASE idle'
        BY <1>5, <1>6, <2>1, <3>3, <3>4, <4>1, <4>2 DEF IdleOnlyWhenNobodyRuns, StaysIdle
      <4>3. CASE ~idle'
        BY <1>5, <1>6, <2>1, <3>3, <3>4, <4>1, <4>3 DEF IdleOnlyWhenNobodyRuns, StaysIdle
      <4> QED
        BY <4>2, <4>3
    <3>6. CpuSound'
      BY <2>1 DEF CpuSound
    <3> QED
      BY <3>1, <3>2, <3>5, <3>6 DEF Core, InQueues
  <2>2. CASE ~in_pswitch /\ need /\ Pswitch(l, need)
    <3>1. ~idle
      BY <2>2 DEF IInv, Core, IdleOnlyWhenNobodyRuns
    <3>2. Rings(links', Q, U, Z) /\ CpuOn(Q)'
      BY <1>6, <1>10, <2>2, <3>1, Switched
    <3>3. CoreTypes'
      BY <1>1, <1>8, <3>2 DEF CoreTypes, CpuOn, CpuTypes, IInv, Core
    <3>4. Queued(links', status', halt', Q, U, Z)
      BY <1>6, <1>9, <3>2 DEF Queued
    <3> QED
      BY <3>2, <3>3, <3>4, CoreNext
  <2>3. CASE ~in_pswitch /\ ~need /\ UNCHANGED <<links, cpuVars>>
    <3>1. W = {}
      BY <1>11, <2>3
    <3>2. status' = status /\ wchan' = wchan
      BY <1>7, <3>1 DEF IInv, Core, CoreTypes
    <3> QED
      BY <1>1, <2>3, <3>2
         DEF IInv, Core, CoreTypes, InQueues, CpuSound, IdleOnlyWhenNobodyRuns,
             cpuVars, whereVars
  <2> QED
    BY <1>11, <1>12, <2>1, <2>2, <2>3 DEF IrqWakeup
<1>14. OtherTypes' /\ VictimNamed'
  BY <1>1, SameWhere DEF IInv
<1>15. Quiet
  BY <1>1, <1>2, <1>6, <1>7 DEF Quiet, Placed, whereVars, Apart
<1>16. Family'
  BY <1>13, <1>15, FamilyKept DEF IInv, Core
<1>17. NoneMissed'
  BY <1>1, <1>2, <1>6, <1>7 DEF IInv, NoneMissed, Placed, Apart
<1> QED
  BY <1>13, <1>14, <1>16, <1>17 DEF IInv

\* What sleep() leaves alone.
LEMMA AsleepQuiet ==
    ASSUME CoreTypes, NEW p \in Proc, status[p] \in {"run", "idl"}, NEW addr, AsleepAt(p, addr)
    PROVE  /\ \A x \in Proc : /\ status'[x] = "unused" <=> status[x] = "unused"
                              /\ status'[x] = "zombie" <=> status[x] = "zombie"
           /\ \A x \in Proc : status'[x] = "sleep" =>
                 \/ x = p /\ wchan'[x] = addr
                 \/ status[x] = "sleep" /\ wchan'[x] = wchan[x]
  BY DEF AsleepAt, CoreTypes

LEMMA DriverSleepKeeps ==
    ASSUME IInv, NEW p \in Proc, NEW c \in Chan, DriverSleep(p, c) PROVE IInv'
<1>1. /\ Running(p) /\ pc[p] = "user" /\ status[p] # "zombie" /\ Sleep(p, c)
      /\ UNCHANGED <<parent, nr_of_children, disposition, whereVars>>
  BY DEF DriverSleep, Ready
<1>2. status[p] \in {"run", "idl"} /\ c \in Address
  BY <1>1, WhoRuns DEF Address
<1>3. Core' /\ AsleepAt(p, c)
  BY <1>1, <1>2, SleepMoves DEF IInv
<1>4. /\ \A x \in Proc : /\ status'[x] = "unused" <=> status[x] = "unused"
                         /\ status'[x] = "zombie" <=> status[x] = "zombie"
      /\ \A x \in Proc : status'[x] = "sleep" =>
            \/ x = p /\ wchan'[x] = c
            \/ status[x] = "sleep" /\ wchan'[x] = wchan[x]
  BY <1>2, <1>3, AsleepQuiet DEF IInv, Core
<1>5. OtherTypes' /\ VictimNamed'
  BY <1>1, SameWhere DEF IInv
<1>6. Quiet
  BY <1>1, <1>4 DEF Quiet, whereVars
<1>7. Family'
  BY <1>3, <1>6, FamilyKept DEF IInv, Core
<1>8. \A x \in Proc : c # x
  BY AddressesDiffer
<1>9. NoneMissed'
  BY <1>1, <1>4, <1>8 DEF IInv, NoneMissed
<1> QED
  BY <1>3, <1>5, <1>7, <1>9 DEF IInv

LEMMA SetDispositionKeeps ==
    ASSUME IInv, NEW p \in Proc, NEW d \in Disposition, SetDisposition(p, d) PROVE IInv'
<1>1. /\ disposition' = [disposition EXCEPT ![p] = d]
      /\ UNCHANGED <<links, status, wchan, parent, nr_of_children,
                     cpuVars, whereVars, halt>>
  BY DEF SetDisposition
<1>2. Core'
  <2>1. CoreTypes'
    BY <1>1 DEF IInv, Core, CoreTypes, cpuVars
  <2>2. InQueues'
    BY <1>1 DEF IInv, Core, InQueues
  <2>3. CpuSound' /\ IdleOnlyWhenNobodyRuns'
    BY <1>1 DEF IInv, Core, CpuSound, IdleOnlyWhenNobodyRuns, cpuVars, whereVars
  <2> QED
    BY <2>1, <2>2, <2>3 DEF Core
<1>3. OtherTypes' /\ VictimNamed'
  BY <1>1 DEF IInv, OtherTypes, VictimNamed, whereVars
<1>4. Quiet
  BY <1>1 DEF Quiet, whereVars
<1>5. Family'
  BY <1>2, <1>4, FamilyKept DEF IInv, Core
<1>6. NoneMissed'
  BY <1>1 DEF IInv, NoneMissed
<1> QED
  BY <1>2, <1>3, <1>5, <1>6 DEF IInv

\* Who has been counted as a child of p.
Kids(p) == {c \in Proc : /\ status[c] # "unused" /\ parent[c] = p
                         /\ ~(pc[p] = "reap" /\ victim[p] = c)}

LEMMA KidsFinite == \A p \in Proc : IsFiniteSet(Kids(p)) /\ Cardinality(Kids(p)) \in Nat
<1>1. \A p \in Proc : Kids(p) \subseteq Proc
  BY DEF Kids
<1> QED
  BY <1>1, ProcFinite, FS_Subset, FS_CardinalityType

LEMMA ForkKeeps == ASSUME IInv, NEW p \in Proc, NEW c \in Proc, Fork(p, c) PROVE IInv'
<1>1. /\ Running(p) /\ pc[p] = "user" /\ status[p] # "zombie" /\ Fresh(c)
      /\ status' = [status EXCEPT ![c] = status[p]]
      /\ wchan' = [wchan EXCEPT ![c] = wchan[p]]
      /\ disposition' = [disposition EXCEPT ![c] =
                            IF disposition[p] = "masked" THEN "masked" ELSE "default"]
      /\ parent' = [parent EXCEPT ![c] = p]
      /\ nr_of_children' = [nr_of_children EXCEPT ![p] = @ + 1, ![c] = 0]
      /\ links' = InsertAfterHead(links, "run", c)
      /\ need_to_pswitch' = TRUE
      /\ curproc' = curproc /\ idle' = idle /\ in_pswitch' = in_pswitch
      /\ UNCHANGED whereVars /\ halt' = halt
  BY DEF Fork, Ready
<1>2. /\ halt = "no" /\ ~in_pswitch /\ ~idle /\ curproc = p
      /\ status[p] \in {"run", "idl"}
  BY <1>1, WhoRuns
<1>3. /\ status[c] = "unused" /\ c # p
      /\ \A q \in Proc : status[q] # "unused" => parent[q] # c /\ victim[q] # c
  BY <1>1, <1>2 DEF Fresh
<1>4. CoreTypes /\ OtherTypes
  BY DEF IInv, Core
<1>5. /\ status'[c] = status[p] /\ parent'[c] = p /\ wchan'[c] = wchan[p]
      /\ nr_of_children'[p] = nr_of_children[p] + 1 /\ nr_of_children'[c] = 0
      /\ \A x \in Proc \ {c} : /\ status'[x] = status[x] /\ parent'[x] = parent[x]
                               /\ wchan'[x] = wchan[x]
      /\ \A x \in Proc \ {p, c} : nr_of_children'[x] = nr_of_children[x]
  BY <1>1, <1>3, <1>4 DEF CoreTypes, OtherTypes
<1>6. PICK R, S, Z : /\ Rings(links, R, S, Z) /\ Placed(status, R, S, Z)
                     /\ Apart(R, S, Z)
  BY <1>2, QueuesNow DEF IInv, Core
<1>7. PICK Q : Q = R \cup {c}
  OBVIOUS
<1>8. c \in Proc \ (R \cup S \cup Z)
  BY <1>3, <1>6 DEF Placed
<1>9. Rings(links', Q, S, Z) /\ Apart(Q, S, Z)
  BY <1>1, <1>6, <1>7, <1>8, PutToRun DEF Apart
<1>10. Placed(status', Q, S, Z)
  BY <1>2, <1>3, <1>5, <1>6, <1>7 DEF Placed
<1>11. CoreTypes'
  BY <1>1, <1>4 DEF CoreTypes
<1>12. Core'
  <2>1. Queued(links', status', halt', Q, S, Z)
    BY <1>9, <1>10 DEF Queued
  <2>2. CpuSound'
    BY <1>1, <1>2, <1>3, <1>5 DEF CpuSound
  <2>3. IdleOnlyWhenNobodyRuns'
    BY <1>1, <1>2 DEF IdleOnlyWhenNobodyRuns
  <2> QED
    BY <1>11, <2>1, <2>2, <2>3 DEF Core, InQueues
<1>13. OtherTypes'
  <2>1. disposition' \in [Proc -> Disposition]
    BY <1>1, <1>4 DEF OtherTypes, Disposition
  <2>2. nr_of_children' \in [Proc -> Nat]
    BY <1>1, <1>4 DEF OtherTypes
  <2> QED
    BY <1>1, <1>4, <2>1, <2>2 DEF OtherTypes, whereVars
<1>14. VictimNamed'
  BY <1>1 DEF IInv, VictimNamed, whereVars
<1>15. Reaping'
  BY <1>1, <1>3, <1>5 DEF IInv, Family, Reaping, whereVars
<1>16. ParentOther'
  BY <1>3, <1>5 DEF IInv, Family, ParentOther
<1>17. ChildrenCounted'
  <2>1. ASSUME NEW x \in Proc, Alive(x)'
        PROVE  nr_of_children'[x] = Cardinality(Kids(x)')
    <3>1. pc'[x] = pc[x] /\ victim'[x] = victim[x]
      BY <1>1 DEF whereVars
    <3>2. CASE x = c
      <4>1. Kids(c)' = {}
        BY <1>3, <1>5 DEF Kids
      <4> QED
        BY <1>5, <3>2, <4>1, FS_EmptySet
    <3>3. CASE x = p
      <4>1. Kids(p)' = Kids(p) \cup {c} /\ c \notin Kids(p)
        BY <1>1, <1>2, <1>3, <1>5, <3>1, <3>3 DEF Kids
      <4>2. Cardinality(Kids(p)') = Cardinality(Kids(p)) + 1
        BY <4>1, KidsFinite, FS_AddElement
      <4>3. nr_of_children[p] = Cardinality(Kids(p))
        BY <1>2 DEF IInv, Family, ChildrenCounted, Alive, Kids
      <4> QED
        BY <1>5, <3>3, <4>2, <4>3
    <3>4. CASE x \notin {p, c}
      <4>1. Kids(x)' = Kids(x)
        BY <1>3, <1>5, <3>1, <3>4 DEF Kids
      <4>2. Alive(x)
        BY <1>5, <2>1, <3>4 DEF Alive
      <4>3. nr_of_children[x] = Cardinality(Kids(x))
        BY <4>2 DEF IInv, Family, ChildrenCounted, Kids
      <4> QED
        BY <1>5, <3>4, <4>1, <4>3
    <3> QED
      BY <3>2, <3>3, <3>4
  <2> QED
    BY <2>1 DEF ChildrenCounted, Kids
<1>18. NoneMissed'
  BY <1>2, <1>3, <1>5 DEF IInv, NoneMissed
<1> QED
  BY <1>12, <1>13, <1>14, <1>15, <1>16, <1>17, <1>18 DEF IInv, Family

\* A step that stops the model and does nothing else.
LEMMA HaltKeeps ==
    ASSUME IInv, halt = "no", halt' \in Halt \ {"no"},
           UNCHANGED <<links, procVars, cpuVars, whereVars>>
    PROVE  IInv'
<1>1. /\ links' = links /\ UNCHANGED procVars /\ UNCHANGED cpuVars
      /\ UNCHANGED whereVars
  OBVIOUS
<1>2. PICK R, S, Z : /\ Rings(links, R, S, Z) /\ Placed(status, R, S, Z)
                     /\ Apart(R, S, Z)
  BY QueuesNow DEF IInv, Core
<1>3. CoreTypes'
  BY <1>1 DEF IInv, Core, CoreTypes, procVars, cpuVars
<1>4. Queued(links', status', halt', R, S, Z)
  BY <1>1, <1>2 DEF Queued, procVars
<1>5. CpuSound' /\ IdleOnlyWhenNobodyRuns'
  BY <1>1 DEF IInv, Core, CpuSound, IdleOnlyWhenNobodyRuns, cpuVars
<1>6. OtherTypes' /\ VictimNamed'
  BY <1>1, SameWhere DEF IInv, procVars
<1>7. Quiet
  BY <1>1 DEF Quiet, procVars, whereVars
<1>8. Family'
  BY <1>3, <1>7, FamilyKept DEF IInv, Core
<1>9. NoneMissed'
  BY <1>1 DEF IInv, NoneMissed, procVars
<1> QED
  BY <1>3, <1>4, <1>5, <1>6, <1>8, <1>9 DEF IInv, Core, InQueues

\* The first half of proc_exit(), by p for itself or for the target of kill().
LEMMA ExitBeginKeeps ==
    ASSUME IInv, NEW p \in Proc, NEW v \in Proc, Running(p), status[p] \in {"run", "idl"},
           pc[p] \in {"user", "kill"}, NEW where \in {"exit", "killexit"},
           ExitBegin(p, v, where),
           UNCHANGED <<links, wchan, parent, nr_of_children, disposition, cpuVars>>
    PROVE  IInv'
<1>1. /\ links' = links /\ wchan' = wchan /\ parent' = parent /\ UNCHANGED cpuVars
      /\ nr_of_children' = nr_of_children /\ disposition' = disposition
  OBVIOUS
<1>2. halt = "no" /\ ~in_pswitch /\ curproc = p
  BY WhoRuns
<1>3. CASE halt' \in {"freed", "exit_twice"} /\ UNCHANGED <<status, whereVars>>
  BY <1>1, <1>2, <1>3, HaltKeeps DEF Halt, procVars
<1>4. CASE /\ Alive(v)
           /\ status' = [status EXCEPT ![v] = "idl"]
           /\ pc' = [pc EXCEPT ![p] = where]
           /\ victim' = [victim EXCEPT ![p] = v]
           /\ UNCHANGED halt
  <2>1. CoreTypes /\ OtherTypes
    BY DEF IInv, Core
  <2>2. PICK R, S, Z : /\ Rings(links, R, S, Z) /\ Placed(status, R, S, Z)
                       /\ Apart(R, S, Z)
    BY <1>2, QueuesNow DEF IInv, Core
  <2>3. /\ status'[v] = "idl" /\ \A x \in Proc \ {v} : status'[x] = status[x]
        /\ pc'[p] = where /\ \A x \in Proc \ {p} : pc'[x] = pc[x]
        /\ victim'[p] = v /\ \A x \in Proc \ {p} : victim'[x] = victim[x]
    BY <1>4, <2>1 DEF CoreTypes, OtherTypes
  <2>4. CoreTypes'
    BY <1>1, <1>4, <2>1 DEF CoreTypes, cpuVars, Status
  <2>5. Placed(status', R, S, Z)
    BY <1>4, <2>1, <2>2, <2>3 DEF Placed, Alive, CoreTypes, Status
  <2>6. Queued(links', status', halt', R, S, Z)
    BY <1>1, <2>2, <2>5 DEF Queued
  <2>7. CpuSound'
    BY <1>1, <1>2, <2>3 DEF CpuSound, cpuVars
  <2>8. IdleOnlyWhenNobodyRuns'
    BY <1>1 DEF IInv, Core, IdleOnlyWhenNobodyRuns, cpuVars
  <2>9. OtherTypes'
    BY <1>1, <1>4, <2>1 DEF OtherTypes, Place
  <2>10. VictimNamed'
    BY <2>3 DEF IInv, VictimNamed
  <2>11. Quiet
    BY <1>1, <1>4, <2>3 DEF Quiet, Alive
  <2>12. Family'
    BY <2>1, <2>4, <2>11, FamilyKept DEF IInv
  <2>13. NoneMissed'
    BY <1>1, <2>3 DEF IInv, NoneMissed
  <2> QED
    BY <2>4, <2>6, <2>7, <2>8, <2>9, <2>10, <2>12, <2>13 DEF IInv, Core, InQueues
<1> QED
  BY <1>3, <1>4 DEF ExitBegin

LEMMA ExitStartKeeps == ASSUME IInv, NEW p \in Proc, ExitStart(p) PROVE IInv'
<1>1. /\ Running(p) /\ pc[p] = "user" /\ status[p] # "zombie" /\ ExitBegin(p, p, "exit")
      /\ UNCHANGED <<links, wchan, parent, nr_of_children, disposition, cpuVars>>
  BY DEF ExitStart, Ready
<1>2. status[p] \in {"run", "idl"}
  BY <1>1, WhoRuns
<1> QED
  BY <1>1, <1>2, ExitBeginKeeps

\* The second half of proc_exit(), after which p is at where.
LEMMA ExitFinishKeeps ==
    ASSUME IInv, NEW p \in Proc, NEW v \in Proc, Running(p), status[p] \in {"run", "idl"},
           pc[p] \in {"exit", "killexit"}, ExitFinish(v), NEW where \in {"user", "exited"},
           pc' = [pc EXCEPT ![p] = where], where = "exited" => victim' = victim,
           where = "user" => victim' = [victim EXCEPT ![p] = NULL],
           UNCHANGED <<parent, nr_of_children, disposition, cpuVars>>
    PROVE  IInv'
<1>1. /\ parent' = parent /\ UNCHANGED cpuVars
      /\ nr_of_children' = nr_of_children /\ disposition' = disposition
  OBVIOUS
<1>2. halt = "no" /\ ~in_pswitch /\ curproc = p
  BY WhoRuns
<1>3. Core /\ CoreTypes /\ OtherTypes /\ ParentOther /\ NoneMissed
  BY DEF IInv, Core, Family
<1>4. /\ CoreTypes' /\ InQueues' /\ IdleOnlyWhenNobodyRuns' /\ NoneMissed'
      /\ Dead(v)
  BY <1>1, <1>2, <1>3, DeathMoves
<1>5. pc'[p] = where /\ \A x \in Proc \ {p} : pc'[x] = pc[x] /\ victim'[x] = victim[x]
  BY <1>3 DEF OtherTypes
<1>6. status'[p] = status[p] \/ status'[p] = "zombie"
  BY <1>4 DEF Dead
<1>7. CpuSound'
  BY <1>1, <1>2, <1>5, <1>6 DEF CpuSound, cpuVars
<1>8. OtherTypes'
  BY <1>1, <1>3 DEF OtherTypes, Place
<1>9. VictimNamed'
  BY <1>5 DEF IInv, VictimNamed
<1>10. Quiet
  BY <1>1, <1>4, <1>5 DEF Quiet, Dead, Alive
<1>11. Family'
  BY <1>3, <1>4, <1>10, FamilyKept DEF IInv
<1> QED
  BY <1>4, <1>7, <1>8, <1>9, <1>11 DEF IInv, Core

LEMMA ExitEndKeeps == ASSUME IInv, NEW p \in Proc, ExitEnd(p) PROVE IInv'
<1>1. /\ Running(p) /\ pc[p] = "exit" /\ ExitFinish(victim[p])
      /\ pc' = [pc EXCEPT ![p] = "exited"] /\ victim' = victim
      /\ UNCHANGED <<parent, nr_of_children, disposition, cpuVars>>
  BY DEF ExitEnd
<1>2. status[p] \in {"run", "idl"}
  BY <1>1, WhoRuns
<1>3. PICK v \in Proc : v = victim[p]
  BY <1>1 DEF IInv, VictimNamed
<1> QED
  BY <1>1, <1>2, <1>3, ExitFinishKeeps

LEMMA KillEndKeeps == ASSUME IInv, NEW p \in Proc, KillEnd(p) PROVE IInv'
<1>1. /\ Running(p) /\ pc[p] = "killexit" /\ ExitFinish(victim[p])
      /\ pc' = [pc EXCEPT ![p] = "user"] /\ victim' = [victim EXCEPT ![p] = NULL]
      /\ UNCHANGED <<parent, nr_of_children, disposition, cpuVars>>
  BY DEF KillEnd
<1>2. status[p] \in {"run", "idl"}
  BY <1>1, WhoRuns
<1>3. PICK v \in Proc : v = victim[p]
  BY <1>1 DEF IInv, VictimNamed
<1> QED
  BY <1>1, <1>2, <1>3, ExitFinishKeeps

LEMMA ZombieFaultKeeps == ASSUME IInv, NEW p \in Proc, ZombieFault(p) PROVE IInv'
<1>1. /\ halt = "no" /\ halt' = "exit_twice"
      /\ UNCHANGED <<links, procVars, cpuVars, whereVars>>
  BY DEF ZombieFault, Running
<1>2. halt' \in Halt \ {"no"}
  BY <1>1 DEF Halt
<1> QED
  BY <1>1, <1>2, HaltKeeps

\* A step by which p only moves on in the kernel.
LEMMA MovesOnKeeps ==
    ASSUME IInv, NEW p \in Proc, Running(p), status[p] \in {"run", "idl"},
           UNCHANGED <<links, procVars, cpuVars, halt>>, pc[p] # "reap",
           NEW where \in Place \ {"reap"}, pc' = [pc EXCEPT ![p] = where],
           NEW v \in Proc \cup {NULL}, victim' = [victim EXCEPT ![p] = v],
           where \in {"user", "wait4"} \/ v \in Proc
    PROVE  IInv'
<1>1. links' = links /\ UNCHANGED procVars /\ UNCHANGED cpuVars /\ halt' = halt
  OBVIOUS
<1>2. halt = "no" /\ ~in_pswitch /\ curproc = p
  BY WhoRuns
<1>3. CoreTypes /\ OtherTypes
  BY DEF IInv, Core
<1>4. /\ pc'[p] = where /\ victim'[p] = v
      /\ \A x \in Proc \ {p} : pc'[x] = pc[x] /\ victim'[x] = victim[x]
  BY <1>3 DEF OtherTypes
<1>5. CoreTypes'
  BY <1>1, <1>3 DEF CoreTypes, procVars, cpuVars
<1>6. InQueues'
  BY <1>1 DEF IInv, Core, InQueues, procVars
<1>7. CpuSound' /\ IdleOnlyWhenNobodyRuns'
  BY <1>1, <1>2 DEF IInv, Core, CpuSound, IdleOnlyWhenNobodyRuns, cpuVars, procVars
<1>8. OtherTypes'
  BY <1>1, <1>3 DEF OtherTypes, procVars
<1>9. VictimNamed'
  BY <1>4 DEF IInv, VictimNamed
<1>10. Quiet
  BY <1>1, <1>4 DEF Quiet, procVars
<1>11. Family'
  BY <1>3, <1>5, <1>10, FamilyKept DEF IInv
<1>12. NoneMissed'
  BY <1>1 DEF IInv, NoneMissed, procVars
<1> QED
  BY <1>5, <1>6, <1>7, <1>8, <1>9, <1>11, <1>12 DEF IInv, Core

LEMMA KillLookupKeeps ==
    ASSUME IInv, NEW p \in Proc, NEW v \in Killable, KillLookup(p, v) PROVE IInv'
<1>1. /\ Running(p) /\ pc[p] = "user" /\ status[p] # "zombie"
      /\ pc' = [pc EXCEPT ![p] = "kill"] /\ victim' = [victim EXCEPT ![p] = v]
      /\ UNCHANGED <<links, procVars, cpuVars, halt>>
  BY DEF KillLookup, Ready
<1>2. status[p] \in {"run", "idl"} /\ v \in Proc /\ "kill" \in Place \ {"reap"}
  BY <1>1, WhoRuns, StartOK DEF Place
<1> QED
  BY <1>1, <1>2, MovesOnKeeps

LEMMA KillPostKeeps == ASSUME IInv, NEW p \in Proc, KillPost(p) PROVE IInv'
<1>1. /\ Running(p) /\ pc[p] = "kill"
      /\ UNCHANGED <<parent, nr_of_children, disposition, cpuVars>>
  BY DEF KillPost
<1>2. status[p] \in {"run", "idl"} /\ halt = "no" /\ ~in_pswitch /\ ~idle /\ curproc = p
  BY <1>1, WhoRuns
<1>3. PICK v \in Proc : v = victim[p]
  BY <1>1 DEF IInv, VictimNamed
<1>4. CASE halt' = "freed" /\ UNCHANGED <<links, status, wchan, whereVars>>
  BY <1>1, <1>2, <1>4, HaltKeeps DEF Halt, procVars
<1>5. CASE ExitBegin(p, v, "killexit") /\ UNCHANGED <<links, wchan>>
  BY <1>1, <1>2, <1>5, ExitBeginKeeps
<1>6. CASE /\ pc' = [pc EXCEPT ![p] = "user"]
           /\ victim' = [victim EXCEPT ![p] = NULL]
           /\ UNCHANGED <<links, status, wchan, halt>>
  <2>1. UNCHANGED <<links, procVars, cpuVars, halt>> /\ "user" \in Place \ {"reap"}
    BY <1>1, <1>6 DEF procVars, Place
  <2>2. PICK n \in Proc \cup {NULL} : n = NULL
    OBVIOUS
  <2> QED
    BY <1>1, <1>2, <1>6, <2>1, <2>2, MovesOnKeeps
<1>7. CASE /\ WakeupProc(v, links, status)
           /\ pc' = [pc EXCEPT ![p] = "user"]
           /\ victim' = [victim EXCEPT ![p] = NULL]
  <2>1. CoreTypes /\ OtherTypes /\ SideTypes
    BY DEF IInv, Core, CoreTypes, SideTypes
  <2>2. PICK R, S, Z : /\ Rings(links, R, S, Z) /\ Placed(status, R, S, Z)
                       /\ Apart(R, S, Z)
    BY <1>2, QueuesNow DEF IInv, Core
  <2>3. PICK l : l = links
    OBVIOUS
  <2>4. PICK st \in [Proc -> Status] : st = status
    BY <2>1 DEF SideTypes
  <2>5. /\ \E R2, S2 : Queued(links', status', halt', R2, S2, Z)
        /\ SideTypes' /\ Roused(v, st)
    BY <1>2, <1>7, <2>1, <2>2, <2>3, <2>4, WakeupProcMoves
  <2>6. CoreTypes'
    BY <1>1, <2>1, <2>5 DEF CoreTypes, SideTypes, cpuVars
  <2>7. \A x \in Proc : \/ status'[x] = status[x] /\ wchan'[x] = wchan[x]
                        \/ status[x] = "sleep" /\ status'[x] = "run"
    BY <2>4, <2>5 DEF Roused
  <2>8. CpuSound' /\ IdleOnlyWhenNobodyRuns'
    BY <1>1, <1>2, <2>7 DEF CpuSound, IdleOnlyWhenNobodyRuns, cpuVars
  <2>9. /\ pc'[p] = "user" /\ \A x \in Proc \ {p} : pc'[x] = pc[x] /\ victim'[x] = victim[x]
    BY <1>7, <2>1 DEF OtherTypes
  <2>10. OtherTypes'
    BY <1>1, <1>7, <2>1 DEF OtherTypes, Place
  <2>11. VictimNamed'
    BY <2>9 DEF IInv, VictimNamed
  <2>12. Quiet
    BY <1>1, <2>7, <2>9 DEF Quiet
  <2>13. Family'
    BY <2>1, <2>6, <2>12, FamilyKept DEF IInv
  <2>14. NoneMissed'
    BY <1>1, <2>7 DEF IInv, NoneMissed
  <2> QED
    BY <2>5, <2>6, <2>8, <2>10, <2>11, <2>13, <2>14 DEF IInv, Core, InQueues
<1> QED
  BY <1>3, <1>4, <1>5, <1>6, <1>7 DEF KillPost

\* What the scan of sys_wait4() sees: the children of p among the zombies.
LEMMA ZombiesSeen ==
    ASSUME InQueues, halt = "no"
    PROVE  /\ \A i \in DOMAIN Zombies : Zombies[i] \in Proc /\ status[Zombies[i]] = "zombie"
           /\ \A c \in Proc : status[c] = "zombie" => \E i \in DOMAIN Zombies : Zombies[i] = c
<1>1. PICK R, S, Z : /\ Rings(links, R, S, Z) /\ Placed(status, R, S, Z)
                     /\ Apart(R, S, Z)
  BY QueuesNow
<1>2. Members(links, "zombie") = Z
  BY <1>1, RingsSeen
<1>3. Z = {Zombies[i] : i \in DOMAIN Zombies}
  BY <1>2 DEF Members, Zombies, ToSet
<1>4. Z \subseteq Proc
  BY <1>1, RingsAre
<1> QED
  BY <1>1, <1>3, <1>4 DEF Placed

LEMMA Wait4Keeps == ASSUME IInv, NEW p \in Proc, Wait4(p) PROVE IInv'
<1>1. /\ Running(p) /\ UNCHANGED <<parent, disposition>>
      /\ (pc[p] = "user" /\ status[p] # "zombie") \/ pc[p] = "wait4"
  BY DEF Wait4, Ready
<1>2. status[p] \in {"run", "idl"} /\ halt = "no" /\ ~in_pswitch /\ curproc = p
  BY <1>1, WhoRuns
<1>3. CoreTypes /\ OtherTypes /\ InQueues
  BY DEF IInv, Core
<1>4. CASE /\ \E i \in ZombieChildren(p) :
                /\ \A j \in ZombieChildren(p) : i <= j
                /\ victim' = [victim EXCEPT ![p] = Zombies[i]]
           /\ nr_of_children' = [nr_of_children EXCEPT ![p] = ChildrenLeft(p)]
           /\ pc' = [pc EXCEPT ![p] = "reap"]
           /\ UNCHANGED <<links, status, wchan, cpuVars, halt>>
  <2>1. PICK i \in ZombieChildren(p) : victim' = [victim EXCEPT ![p] = Zombies[i]]
    BY <1>4
  <2>2. PICK c \in Proc : c = Zombies[i] /\ status[c] = "zombie" /\ parent[c] = p
    BY <1>2, <1>3, <2>1, ZombiesSeen DEF ZombieChildren
  <2>3. /\ pc'[p] = "reap" /\ victim'[p] = c
        /\ \A x \in Proc \ {p} : pc'[x] = pc[x] /\ victim'[x] = victim[x]
    BY <1>3, <1>4, <2>1, <2>2 DEF OtherTypes
  <2>4. CoreTypes' /\ InQueues'
    BY <1>3, <1>4 DEF CoreTypes, InQueues, cpuVars
  <2>5. CpuSound' /\ IdleOnlyWhenNobodyRuns'
    BY <1>2, <1>4 DEF IInv, Core, CpuSound, IdleOnlyWhenNobodyRuns, cpuVars
  <2>6. Kids(p)' = Kids(p) \ {c} /\ c \in Kids(p)
    BY <1>1, <1>4, <2>2, <2>3 DEF Kids
  <2>7. nr_of_children[p] = Cardinality(Kids(p))
    BY <1>2 DEF IInv, Family, ChildrenCounted, Alive, Kids
  <2>8. /\ Cardinality(Kids(p)') = nr_of_children[p] - 1 /\ nr_of_children[p] \in Nat
        /\ nr_of_children[p] > 0
    <3>1. Cardinality(Kids(p) \ {c}) = Cardinality(Kids(p)) - 1
      BY <2>6, KidsFinite, FS_RemoveElement
    <3>2. Kids(p) # {} /\ IsFiniteSet(Kids(p)) /\ Cardinality(Kids(p)) \in Nat
      BY <2>6, KidsFinite
    <3>3. Cardinality(Kids(p)) # 0
      BY <3>2, FS_EmptySet
    <3> QED
      BY <2>6, <2>7, <3>1, <3>2, <3>3
  <2>9. OtherTypes'
    <3>1. nr_of_children' \in [Proc -> Nat]
      BY <1>3, <1>4, <2>8 DEF OtherTypes, ChildrenLeft
    <3> QED
      BY <1>1, <1>3, <1>4, <2>1, <2>2, <3>1 DEF OtherTypes, Place
  <2>10. VictimNamed'
    BY <2>3 DEF IInv, VictimNamed
  <2>11. Reaping'
    BY <1>1, <1>4, <2>2, <2>3 DEF IInv, Family, Reaping
  <2>12. ParentOther'
    BY <1>1, <1>4 DEF IInv, Family, ParentOther
  <2>13. ASSUME NEW x \in Proc, Alive(x)'
         PROVE  nr_of_children'[x] = Cardinality(Kids(x)')
    <3>1. CASE x = p
      BY <1>3, <1>4, <2>8, <3>1 DEF OtherTypes, ChildrenLeft
    <3>2. CASE x # p
      <4>1. Kids(x)' = Kids(x)
        BY <1>1, <1>4, <2>3, <3>2 DEF Kids
      <4>2. nr_of_children'[x] = nr_of_children[x] /\ Alive(x)
        BY <1>3, <1>4, <2>13, <3>2 DEF OtherTypes, Alive
      <4>3. nr_of_children[x] = Cardinality(Kids(x))
        BY <4>2 DEF IInv, Family, ChildrenCounted, Kids
      <4> QED
        BY <4>1, <4>2, <4>3
    <3> QED
      BY <3>1, <3>2
  <2>14. ChildrenCounted'
    BY <2>13 DEF ChildrenCounted, Kids
  <2>15. NoneMissed'
    BY <1>1, <1>4 DEF IInv, NoneMissed
  <2> QED
    BY <2>4, <2>5, <2>9, <2>10, <2>11, <2>12, <2>14, <2>15 DEF IInv, Core, Family
<1>5. CASE /\ ZombieChildren(p) = {}
           /\ Sleep(p, p)
           /\ pc' = [pc EXCEPT ![p] = "wait4"]
           /\ UNCHANGED <<nr_of_children, victim>>
  <2>1. p \in Address
    BY DEF Address
  <2>2. PICK a \in Address : a = p
    BY <2>1
  <2>3. Core' /\ AsleepAt(p, a)
    BY <1>1, <1>2, <1>5, <2>2, SleepMoves DEF IInv
  <2>4. /\ \A x \in Proc : /\ status'[x] = "unused" <=> status[x] = "unused"
                           /\ status'[x] = "zombie" <=> status[x] = "zombie"
        /\ \A x \in Proc : status'[x] = "sleep" =>
              \/ x = p /\ wchan'[x] = a
              \/ status[x] = "sleep" /\ wchan'[x] = wchan[x]
    BY <1>2, <1>3, <2>3, AsleepQuiet
  <2>5. pc'[p] = "wait4" /\ \A x \in Proc \ {p} : pc'[x] = pc[x]
    BY <1>3, <1>5 DEF OtherTypes
  <2>6. OtherTypes' /\ VictimNamed'
    BY <1>1, <1>3, <1>5, <2>5 DEF IInv, OtherTypes, VictimNamed, Place
  <2>7. Quiet
    BY <1>1, <1>5, <2>4, <2>5 DEF Quiet
  <2>8. Family'
    BY <1>3, <2>3, <2>7, FamilyKept DEF IInv, Core
  <2>9. \A c \in Proc : status[c] = "zombie" => parent[c] # p
    BY <1>2, <1>3, <1>5, ZombiesSeen DEF ZombieChildren
  <2>10. NoneMissed'
    BY <1>1, <2>4, <2>9 DEF IInv, NoneMissed
  <2> QED
    BY <2>3, <2>6, <2>8, <2>10 DEF IInv
<1> QED
  BY <1>4, <1>5 DEF Wait4

LEMMA ReapKeeps == ASSUME IInv, NEW p \in Proc, Reap(p) PROVE IInv'
<1>1. /\ Running(p) /\ pc[p] = "reap"
      /\ links' = Discard(links, victim[p])
      /\ status' = [status EXCEPT ![victim[p]] = "unused"]
      /\ wchan' = [wchan EXCEPT ![victim[p]] = NULL]
      /\ parent' = [parent EXCEPT ![victim[p]] = NULL]
      /\ nr_of_children' = [nr_of_children EXCEPT ![victim[p]] = 0]
      /\ pc' = [pc EXCEPT ![p] = "user", ![victim[p]] = "user"]
      /\ victim' = [victim EXCEPT ![p] = NULL, ![victim[p]] = NULL]
      /\ disposition' = [disposition EXCEPT ![victim[p]] = "default"]
      /\ UNCHANGED cpuVars /\ halt' = halt
  BY DEF Reap
<1>2. status[p] \in {"run", "idl"} /\ halt = "no" /\ ~in_pswitch /\ curproc = p
  BY <1>1, WhoRuns
<1>3. CoreTypes /\ OtherTypes /\ InQueues
  BY DEF IInv, Core
<1>4. PICK c \in Proc : c = victim[p] /\ status[c] = "zombie" /\ parent[c] = p
  BY <1>1 DEF IInv, Family, Reaping
<1>5. c # p
  BY <1>2, <1>4
<1>6. /\ status'[c] = "unused" /\ parent'[c] = NULL /\ pc'[p] = "user" /\ pc'[c] = "user"
      /\ \A x \in Proc \ {c} : /\ status'[x] = status[x] /\ parent'[x] = parent[x]
                               /\ wchan'[x] = wchan[x]
                               /\ nr_of_children'[x] = nr_of_children[x]
      /\ \A x \in Proc \ {c, p} : pc'[x] = pc[x] /\ victim'[x] = victim[x]
  BY <1>1, <1>3, <1>4, <1>5 DEF CoreTypes, OtherTypes
<1>7. PICK R, S, Z : /\ Rings(links, R, S, Z) /\ Placed(status, R, S, Z)
                     /\ Apart(R, S, Z)
  BY <1>2, <1>3, QueuesNow
<1>8. PICK Y : Y = Z \ {c}
  OBVIOUS
<1>9. c \in Z
  BY <1>4, <1>7 DEF Placed
<1>10. Rings(links', R, S, Y) /\ Apart(R, S, Y)
  BY <1>1, <1>4, <1>7, <1>8, <1>9, Discarded
<1>11. Placed(status', R, S, Y)
  BY <1>6, <1>7, <1>8, <1>9 DEF Placed, Apart
<1>12. Core'
  <2>1. CoreTypes'
    BY <1>1, <1>3, <1>4 DEF CoreTypes, cpuVars, Status
  <2>2. Queued(links', status', halt', R, S, Y)
    BY <1>10, <1>11 DEF Queued
  <2>3. CpuSound'
    BY <1>1, <1>2, <1>5, <1>6 DEF CpuSound, cpuVars
  <2>4. ~idle
    BY <1>2 DEF IInv, Core, IdleOnlyWhenNobodyRuns
  <2>5. IdleOnlyWhenNobodyRuns'
    BY <1>1, <1>2, <2>4 DEF IdleOnlyWhenNobodyRuns, cpuVars
  <2> QED
    BY <2>1, <2>2, <2>3, <2>5 DEF Core, InQueues
<1>13. OtherTypes'
  BY <1>1, <1>3, <1>4 DEF OtherTypes, Place, Disposition
<1>14. VictimNamed'
  BY <1>6 DEF IInv, VictimNamed
<1>15. Reaping'
  BY <1>4, <1>6 DEF IInv, Family, Reaping
<1>16. ParentOther'
  BY <1>6 DEF IInv, Family, ParentOther
<1>17. ASSUME NEW x \in Proc, Alive(x)'
       PROVE  nr_of_children'[x] = Cardinality(Kids(x)')
  <2>1. x # c /\ Alive(x) /\ nr_of_children'[x] = nr_of_children[x]
    BY <1>6, <1>17 DEF Alive
  <2>2. Kids(x)' = Kids(x)
    <3>1. c \notin Kids(x) /\ c \notin Kids(x)'
      BY <1>1, <1>4, <1>6 DEF Kids
    <3>2. CASE x = p
      <4>1. \A y \in Proc \ {c} : y \in Kids(p) <=> status[y] # "unused" /\ parent[y] = p
        BY <1>4 DEF Kids
      <4>2. \A y \in Proc \ {c} : y \in Kids(p)' <=> status[y] # "unused" /\ parent[y] = p
        BY <1>6 DEF Kids
      <4>3. Kids(p) \subseteq Proc /\ Kids(p)' \subseteq Proc
        BY DEF Kids
      <4> QED
        BY <3>1, <3>2, <4>1, <4>2, <4>3
    <3>3. CASE x # p
      BY <1>6, <2>1, <3>1, <3>3 DEF Kids
    <3> QED
      BY <3>2, <3>3
  <2>3. nr_of_children[x] = Cardinality(Kids(x))
    BY <2>1 DEF IInv, Family, ChildrenCounted, Kids
  <2> QED
    BY <2>1, <2>2, <2>3
<1>18. ChildrenCounted'
  BY <1>17 DEF ChildrenCounted, Kids
<1>19. NoneMissed'
  BY <1>6 DEF IInv, NoneMissed
<1> QED
  BY <1>12, <1>13, <1>14, <1>15, <1>16, <1>18, <1>19 DEF IInv, Family

LEMMA InitHolds == Init => IInv
<1> SUFFICES ASSUME Init PROVE IInv
  OBVIOUS
<1>1. PICK r \in {NULL, Resident} :
          /\ status = [p \in Proc |-> IF p = First THEN "run"
                                      ELSE IF p = r THEN "sleep" ELSE "unused"]
          /\ links = LET l == InsertAfterHead(NoLinks, "run", First)
                     IN  IF r = NULL THEN l ELSE EnterSleepQueue(l, r)
          /\ wchan = [p \in Proc |-> IF p = r THEN Console ELSE NULL]
          /\ parent = [p \in Proc |-> IF p = r THEN First ELSE NULL]
          /\ nr_of_children = [p \in Proc |-> IF p = First /\ r # NULL THEN 1 ELSE 0]
  BY DEF Init
<1>2. /\ disposition = [p \in Proc |-> IF p = First THEN "caught" ELSE "default"]
      /\ curproc = First
      /\ idle = FALSE /\ in_pswitch = FALSE /\ need_to_pswitch = FALSE
      /\ pc = [p \in Proc |-> "user"]
      /\ victim = [p \in Proc |-> NULL]
      /\ halt = "no"
  BY DEF Init
<1>3. First \in Proc /\ Resident \in Proc /\ Resident # First /\ NULL \notin Proc
  BY StartOK, ProcFinite
<1>4. CoreTypes
  BY <1>1, <1>2, <1>3 DEF CoreTypes, Status, Halt, Address
<1>5. OtherTypes
  BY <1>1, <1>2, <1>3 DEF OtherTypes, Disposition, Place
<1>6. PICK l : l = InsertAfterHead(NoLinks, "run", First)
  OBVIOUS
<1>7. /\ Rings(l, {First}, {}, {})
      /\ Rings(EnterSleepQueue(l, Resident), {First}, {Resident}, {})
  BY <1>6, FirstRings
<1>8. PICK S : S = IF r = NULL THEN {} ELSE {Resident}
  OBVIOUS
<1>9. Rings(links, {First}, S, {})
  BY <1>1, <1>3, <1>6, <1>7, <1>8
<1>10. Placed(status, {First}, S, {}) /\ Apart({First}, S, {})
  BY <1>1, <1>3, <1>8 DEF Placed, Apart
<1>11. Core
  <2>1. InQueues
    BY <1>9, <1>10 DEF InQueues, Queued
  <2>2. CpuSound /\ IdleOnlyWhenNobodyRuns
    BY <1>1, <1>2, <1>3 DEF CpuSound, IdleOnlyWhenNobodyRuns
  <2> QED
    BY <1>4, <2>1, <2>2 DEF Core
<1>12. VictimNamed /\ Reaping
  BY <1>2 DEF VictimNamed, Reaping
<1>13. ParentOther
  BY <1>1, <1>3 DEF ParentOther
<1>14. ASSUME NEW p \in Proc, Alive(p)
       PROVE  nr_of_children[p] = Cardinality(Kids(p))
  <2>1. CASE p = First /\ r = Resident
    <3>1. Kids(First) = {Resident}
      BY <1>1, <1>2, <1>3, <2>1 DEF Kids
    <3>2. nr_of_children[First] = 1
      BY <1>1, <1>3, <2>1
    <3> QED
      BY <2>1, <3>1, <3>2, FS_Singleton
  <2>2. CASE ~(p = First /\ r = Resident)
    <3>1. Kids(p) = {} /\ nr_of_children[p] = 0
      BY <1>1, <1>3, <2>2 DEF Kids
    <3> QED
      BY <3>1, FS_EmptySet
  <2> QED
    BY <2>1, <2>2
<1>15. ChildrenCounted
  BY <1>14 DEF ChildrenCounted, Kids
<1>16. NoneMissed
  BY <1>1, <1>3 DEF NoneMissed
<1> QED
  BY <1>5, <1>11, <1>12, <1>13, <1>15, <1>16 DEF IInv, Family

LEMMA NextKeeps == IInv /\ [Next]_vars => IInv'
<1> SUFFICES ASSUME IInv, [Next]_vars PROVE IInv'
  OBVIOUS
<1>1. ASSUME NEW p \in Proc, ReturnFromSyscall(p) \/ ExitStart(p) \/ ExitEnd(p) \/ ExitSwitch(p)
      PROVE  IInv'
  BY <1>1, ReturnFromSyscallKeeps, ExitStartKeeps, ExitEndKeeps, ExitSwitchKeeps
<1>2. ASSUME NEW p \in Proc, Wait4(p) \/ Reap(p) \/ KillPost(p) \/ KillEnd(p) \/ ZombieFault(p)
      PROVE  IInv'
  BY <1>2, Wait4Keeps, ReapKeeps, KillPostKeeps, KillEndKeeps, ZombieFaultKeeps
<1>3. ASSUME NEW p \in Proc, NEW c \in Chan, DriverSleep(p, c)
      PROVE  IInv'
  BY <1>3, DriverSleepKeeps
<1>4. ASSUME NEW p \in Handling, NEW d \in Disposition, SetDisposition(p, d)
      PROVE  IInv'
  <2>1. p \in Proc
    BY StartOK
  <2> QED
    BY <1>4, <2>1, SetDispositionKeeps
<1>5. ASSUME NEW p \in Proc, NEW c \in Proc, Fork(p, c)
      PROVE  IInv'
  BY <1>5, ForkKeeps
<1>6. ASSUME NEW p \in Proc, NEW v \in Killable, KillLookup(p, v)
      PROVE  IInv'
  BY <1>6, KillLookupKeeps
<1>7. ASSUME NEW c \in Chan, IrqWakeup(c)
      PROVE  IInv'
  BY <1>7, IrqWakeupKeeps
<1>8. ASSUME LeaveIdle \/ Tick
      PROVE  IInv'
  BY <1>8, LeaveIdleKeeps, TickKeeps
<1>9. ASSUME Halted \/ UNCHANGED vars
      PROVE  IInv'
  BY <1>9, StutterKeeps DEF Halted
<1> QED
  BY <1>1, <1>2, <1>3, <1>4, <1>5, <1>6, <1>7, <1>8, <1>9 DEF Next

LEMMA InvariantHolds == Spec => []IInv
  BY InitHolds, NextKeeps, PTL DEF Spec

-----------------------------------------------------------------------------
(***************************************************************************)
(* The properties of Sched.tla.                                            *)
(***************************************************************************)
\* The queues of kern/proc.c stay sound rings that share nobody, whatever the
\* number of processes, unless wakeup_proc() meets a lone sleeper.
THEOREM QueuesAreSound == Spec => []QueuesSound
<1>1. IInv => QueuesSound
  <2> SUFFICES ASSUME IInv PROVE QueuesSound
    OBVIOUS
  <2>1. TypeOK
    BY TypesTogether DEF IInv, Core
  <2>2. PICK R, S, Z : Queued(links, status, halt, R, S, Z)
    BY DEF IInv, Core, InQueues
  <2>3. /\ Members(links, "run") = R /\ Members(links, "sleep") = S
        /\ Members(links, "zombie") = Z /\ \A q \in Queue : SoundQueue(links, q)
    BY <2>2, RingsSeen DEF Queued
  <2>4. ASSUME halt # "sleepqueue_lost", NEW q \in Queue, NEW r \in Queue, q # r
        PROVE  Members(links, q) \cap Members(links, r) = {}
    BY <2>2, <2>3, <2>4 DEF Queued, Apart, Queue
  <2> QED
    BY <2>1, <2>3, <2>4 DEF QueuesSound
<1> QED
  BY <1>1, InvariantHolds, PTL

\* A process is always on the queue its status says.
THEOREM StatusNamesQueue == Spec => []QueueMatchesStatus
<1>1. IInv => QueueMatchesStatus
  <2> SUFFICES ASSUME IInv PROVE QueueMatchesStatus
    OBVIOUS
  <2>1. PICK R, S, Z : Rings(links, R, S, Z) /\ Placed(status, R, S, Z)
    BY DEF IInv, Core, InQueues, Queued
  <2>2. PICK on : on = [q \in Queue |-> Members(links, q)]
    OBVIOUS
  <2>3. on["run"] = R /\ on["sleep"] = S /\ on["zombie"] = Z
    BY <2>1, <2>2, RingsSeen, QueuesAre
  <2>4. ASSUME NEW p \in Proc
        PROVE  CASE status[p] = "unused" -> \A q \in Queue : p \notin on[q]
                 [] status[p] = "idl"    -> p \in on["run"] \cup on["sleep"]
                 [] OTHER                -> p \in on[status[p]]
    <3>1. status[p] \in Status
      BY DEF IInv, Core, CoreTypes
    <3>2. status[p] = "unused" => \A q \in Queue : p \notin on[q]
      BY <2>1, <2>3 DEF Placed, Queue
    <3>3. status[p] = "idl" => p \in on["run"] \cup on["sleep"]
      BY <2>1, <2>3 DEF Placed
    <3>4. status[p] \notin {"unused", "idl"} => p \in on[status[p]]
      BY <2>1, <2>3, <3>1 DEF Placed, Status
    <3> QED
      BY <3>1, <3>2, <3>3, <3>4 DEF Status
  <2> QED
    BY <2>2, <2>4 DEF QueueMatchesStatus
<1> QED
  BY <1>1, InvariantHolds, PTL

\* pswitch() idles exactly while the run queue is empty.
THEOREM IdlesOnlyWhenNobodyRuns == Spec => []IdleOnlyWhenNobodyRuns
<1>1. IInv => IdleOnlyWhenNobodyRuns
  BY DEF IInv, Core
<1> QED
  BY <1>1, InvariantHolds, PTL

\* wait4() sleeps only while no child is dead, and nr_of_children is the number
\* of children that it has not taken.
THEOREM ChildrenAreAccounted == Spec => []ChildrenAccounted
<1>1. IInv => ChildrenAccounted
  <2> SUFFICES ASSUME IInv PROVE ChildrenAccounted
    OBVIOUS
  <2>1. PICK R, S, Z : Rings(links, R, S, Z) /\ Placed(status, R, S, Z)
    BY DEF IInv, Core, InQueues, Queued
  <2>2. Z = {Zombies[i] : i \in DOMAIN Zombies} /\ Z \subseteq Proc
    BY <2>1, RingsSeen, RingsAre DEF Members, Zombies, ToSet
  <2>3. NoDeadChildMissed
    BY <2>1, <2>2 DEF IInv, NoneMissed, NoDeadChildMissed, ZombieChildren, Placed
  <2> QED
    BY <2>3 DEF IInv, Family, ChildrenAccounted
<1> QED
  BY <1>1, InvariantHolds, PTL

-----------------------------------------------------------------------------
(***************************************************************************)
(* The refinement of ProcLife.tla: who is alive, who is dead.              *)
(***************************************************************************)
Living == {p \in Proc : Alive(p)}
Zombified == {p \in Proc : status[p] = "zombie"}

\* The three steps of ProcLife, and the steps that it does not see.
Born == \E p \in Living, c \in Proc \ (Living \cup Zombified) :
            /\ Living' = Living \cup {c} /\ parent' = [parent EXCEPT ![c] = p]
            /\ Zombified' = Zombified

Died == \E p \in Living : /\ Living' = Living \ {p} /\ Zombified' = Zombified \cup {p}
                          /\ parent' = parent

Buried == \E c \in Zombified : /\ parent[c] \in Living
                               /\ Zombified' = Zombified \ {c} /\ Living' = Living
                               /\ parent' = [parent EXCEPT ![c] = NULL]

Unseen == Living' = Living /\ Zombified' = Zombified /\ parent' = parent

LEMMA UnseenIf ==
    ASSUME parent' = parent,
           \A p \in Proc : \/ status'[p] = status[p]
                           \/ /\ status[p] \notin {"unused", "zombie"}
                              /\ status'[p] \notin {"unused", "zombie"}
    PROVE  Unseen
<1>1. \A p \in Proc : /\ status'[p] \in {"unused", "zombie"} <=> status[p] \in {"unused", "zombie"}
                      /\ status'[p] = "zombie" <=> status[p] = "zombie"
  OBVIOUS
<1> QED
  BY <1>1 DEF Unseen, Living, Zombified, Alive

LEMMA SleepUnseen ==
    ASSUME CoreTypes, NEW p \in Proc, NEW addr, Sleep(p, addr), parent' = parent
    PROVE  Unseen
<1>1. \A x \in Proc : \/ status'[x] = status[x]
                      \/ status[x] \in {"run", "idl"} /\ status'[x] = "sleep"
  BY DEF Sleep, CoreTypes
<1> QED
  BY <1>1, UnseenIf

LEMMA ExitBeginUnseen ==
    ASSUME CoreTypes, NEW p, NEW v \in Proc, NEW where, ExitBegin(p, v, where),
           parent' = parent
    PROVE  Unseen
<1>1. \A x \in Proc : \/ status'[x] = status[x]
                      \/ Alive(x) /\ status'[x] = "idl"
  BY DEF ExitBegin, CoreTypes
<1> QED
  BY <1>1, UnseenIf DEF Alive

LEMMA DeathSeen ==
    ASSUME IInv, NEW p \in Proc, Running(p), NEW v \in Proc, ExitFinish(v),
           UNCHANGED cpuVars, parent' = parent
    PROVE  Died \/ Unseen
<1>1. Dead(v)
  BY WhoRuns, DeathMoves DEF IInv, Family
<1>2. CASE ~Alive(v)
  BY <1>1, <1>2, UnseenIf DEF Dead
<1>3. CASE Alive(v)
  <2>1. /\ status'[v] = "zombie"
        /\ \A x \in Proc \ {v} : \/ status'[x] = status[x]
                                 \/ status[x] = "sleep" /\ status'[x] = "run"
    BY <1>1, <1>3 DEF Dead
  <2>2. v \in Living /\ Living' = Living \ {v} /\ Zombified' = Zombified \cup {v}
    BY <1>3, <2>1 DEF Living, Zombified, Alive
  <2> QED
    BY <2>2 DEF Died
<1> QED
  BY <1>2, <1>3

LEMMA ForkSeen ==
    ASSUME IInv, NEW p \in Proc, NEW c \in Proc, Fork(p, c)
    PROVE  Born
<1>1. /\ Running(p) /\ status[p] # "zombie" /\ status[c] = "unused"
      /\ status' = [status EXCEPT ![c] = status[p]]
      /\ parent' = [parent EXCEPT ![c] = p]
  BY DEF Fork, Ready, Fresh
<1>2. status[p] \in {"run", "idl"} /\ CoreTypes
  BY <1>1, WhoRuns DEF IInv, Core
<1>3. status'[c] = status[p] /\ \A x \in Proc \ {c} : status'[x] = status[x]
  BY <1>1, <1>2 DEF CoreTypes
<1>4. /\ p \in Living /\ c \in Proc \ (Living \cup Zombified)
      /\ Living' = Living \cup {c} /\ Zombified' = Zombified
  BY <1>1, <1>2, <1>3 DEF Living, Zombified, Alive
<1> QED
  BY <1>1, <1>4 DEF Born

LEMMA ReapSeen == ASSUME IInv, NEW p \in Proc, Reap(p) PROVE Buried
<1>1. /\ Running(p) /\ pc[p] = "reap"
      /\ status' = [status EXCEPT ![victim[p]] = "unused"]
      /\ parent' = [parent EXCEPT ![victim[p]] = NULL]
  BY DEF Reap
<1>2. status[p] \in {"run", "idl"} /\ CoreTypes
  BY <1>1, WhoRuns DEF IInv, Core
<1>3. PICK c \in Proc : c = victim[p] /\ status[c] = "zombie" /\ parent[c] = p
  BY <1>1 DEF IInv, Family, Reaping
<1>4. status'[c] = "unused" /\ \A x \in Proc \ {c} : status'[x] = status[x]
  BY <1>1, <1>2, <1>3 DEF CoreTypes
<1>5. /\ c \in Zombified /\ parent[c] \in Living
      /\ Living' = Living /\ Zombified' = Zombified \ {c}
  BY <1>2, <1>3, <1>4 DEF Living, Zombified, Alive
<1> QED
  BY <1>1, <1>3, <1>5 DEF Buried

LEMMA IrqUnseen == ASSUME IInv, NEW c \in Chan, IrqWakeup(c) PROVE Unseen
<1>1. halt = "no" /\ parent' = parent
  BY DEF IrqWakeup, InterruptsOn
<1>2. PICK R, S, Z : /\ Rings(links, R, S, Z) /\ Placed(status, R, S, Z)
                     /\ Apart(R, S, Z)
  BY <1>1, QueuesNow DEF IInv, Core
<1>3. PICK W : W = Sleepers(c)
  OBVIOUS
<1>4. W \subseteq S
  <2>1. /\ W = {p \in S : wchan[p] = c \/ status[p] = "run"}
        /\ Rings(SecondRound(c), R \cup W, S \ W, Z)
    BY <1>2, <1>3, WakeupMoves
  <2> QED
    BY <2>1
<1>5. status' = [p \in Proc |-> IF p \in W THEN "run" ELSE status[p]]
  BY <1>3 DEF IrqWakeup, Awakened
<1>6. \A p \in S : status[p] \notin {"unused", "zombie"}
  BY <1>2, RingsAre DEF Placed, Apart
<1> QED
  BY <1>1, <1>4, <1>5, <1>6, UnseenIf

LEMMA KillPostUnseen == ASSUME IInv, NEW p \in Proc, KillPost(p) PROVE Unseen
<1>1. parent' = parent /\ pc[p] = "kill" /\ CoreTypes
  BY DEF KillPost, IInv, Core
<1>2. PICK v \in Proc : v = victim[p]
  BY <1>1 DEF IInv, VictimNamed
<1>3. CASE UNCHANGED <<links, status>>
  BY <1>1, <1>3, UnseenIf
<1>4. CASE ExitBegin(p, v, "killexit")
  BY <1>1, <1>4, ExitBeginUnseen
<1>5. CASE WakeupProc(v, links, status)
  <2>1. \A x \in Proc : \/ status'[x] = status[x]
                        \/ status[x] = "sleep" /\ status'[x] = "run"
    BY <1>1, <1>5 DEF WakeupProc, CoreTypes
  <2> QED
    BY <1>1, <2>1, UnseenIf
<1> QED
  BY <1>2, <1>3, <1>4, <1>5 DEF KillPost

\* Every step is one of the life of a process, or not seen there.
LEMMA LifeStep == IInv /\ [Next]_vars => Born \/ Died \/ Buried \/ Unseen
<1> SUFFICES ASSUME IInv, [Next]_vars PROVE Born \/ Died \/ Buried \/ Unseen
  OBVIOUS
<1>1. CoreTypes
  BY DEF IInv, Core
<1>2. ASSUME UNCHANGED procVars
      PROVE  Unseen
  BY <1>2, UnseenIf DEF procVars
<1>3. ASSUME NEW p \in Proc, ReturnFromSyscall(p) \/ ExitSwitch(p) \/ ZombieFault(p)
      PROVE  Unseen
  BY <1>2, <1>3 DEF ReturnFromSyscall, ExitSwitch, ZombieFault
<1>4. ASSUME NEW p \in Proc, ExitStart(p)
      PROVE  Unseen
  BY <1>1, <1>4, ExitBeginUnseen DEF ExitStart
<1>5. ASSUME NEW p \in Proc, ExitEnd(p) \/ KillEnd(p)
      PROVE  Died \/ Unseen
  <2>1. /\ Running(p) /\ pc[p] \in {"exit", "killexit"} /\ ExitFinish(victim[p])
        /\ UNCHANGED cpuVars /\ parent' = parent
    BY <1>5 DEF ExitEnd, KillEnd
  <2>2. PICK v \in Proc : v = victim[p]
    BY <2>1 DEF IInv, VictimNamed
  <2> QED
    BY <2>1, <2>2, DeathSeen
<1>6. ASSUME NEW p \in Proc, Wait4(p)
      PROVE  Unseen
  <2>1. parent' = parent
    BY <1>6 DEF Wait4
  <2>2. CASE status' = status
    BY <2>1, <2>2, UnseenIf
  <2>3. CASE Sleep(p, p)
    BY <1>1, <2>1, <2>3, SleepUnseen
  <2> QED
    BY <1>6, <2>2, <2>3 DEF Wait4
<1>7. ASSUME NEW p \in Proc, NEW c \in Chan, DriverSleep(p, c)
      PROVE  Unseen
  BY <1>1, <1>7, SleepUnseen DEF DriverSleep
<1>8. ASSUME NEW p, NEW d, SetDisposition(p, d)
      PROVE  Unseen
  BY <1>8, UnseenIf DEF SetDisposition
<1>9. ASSUME NEW p, NEW v, KillLookup(p, v)
      PROVE  Unseen
  BY <1>2, <1>9 DEF KillLookup
<1>10. ASSUME LeaveIdle \/ Tick \/ Halted \/ UNCHANGED vars
       PROVE  Unseen
  BY <1>2, <1>10 DEF LeaveIdle, Tick, Halted, vars
<1> QED
  BY <1>3, <1>4, <1>5, <1>6, <1>7, <1>8, <1>9, <1>10,
     ForkSeen, ReapSeen, IrqUnseen, KillPostUnseen DEF Next

\* fork, exit, kill and wait4 together implement the life of a process: nobody
\* dies twice, and only the living parent of a dead process reaps it.
THEOREM ProcessesLive == Spec => ImplementsProcLife
<1>1. Init => Life!Init
  <2> SUFFICES ASSUME Init PROVE Life!Init
    OBVIOUS
  <2>1. PICK r \in {NULL, Resident} :
            /\ status = [p \in Proc |-> IF p = First THEN "run"
                                        ELSE IF p = r THEN "sleep" ELSE "unused"]
            /\ parent = [p \in Proc |-> IF p = r THEN First ELSE NULL]
    BY DEF Init
  <2>2. Zombified = {} /\ First \in Living
    BY <2>1, StartOK DEF Zombified, Living, Alive
  <2>3. Living \in SUBSET Proc /\ parent \in [Proc -> Living \cup {NULL}]
    BY <2>1, <2>2 DEF Living
  <2> QED
    BY <2>2, <2>3 DEF Life!Init, Living, Zombified
<1>2. IInv /\ [Next]_vars => [Life!Next]_(Life!vars)
  <2> SUFFICES ASSUME IInv, [Next]_vars PROVE [Life!Next]_(Life!vars)
    OBVIOUS
  <2>1. CASE Born
    BY <2>1 DEF Born, Life!Next, Life!Birth, Living, Zombified
  <2>2. CASE Died
    BY <2>2 DEF Died, Life!Next, Life!Death, Living, Zombified
  <2>3. CASE Buried
    BY <2>3 DEF Buried, Life!Next, Life!Funeral, Living, Zombified
  <2>4. CASE Unseen
    BY <2>4 DEF Unseen, Life!vars, Living, Zombified
  <2> QED
    BY <2>1, <2>2, <2>3, <2>4, LifeStep
<1> QED
  BY <1>1, <1>2, InvariantHolds, PTL DEF Spec, ImplementsProcLife, Life!Spec
=============================================================================
