------------------------------ MODULE VmProofs ------------------------------
(***************************************************************************)
(* Vm.tla: reference counts.  An operation changes several objects and the *)
(* references of one process, so the invariant is a predicate of values    *)
(* (Holds, below) that each step is shown to take from the old values to   *)
(* the new ones: first what one object created, shadowed, given back or    *)
(* combined does to it, then the loops over the regions of a process, then *)
(* one lemma for every action.                                             *)
(***************************************************************************)
EXTENDS Vm, FiniteSetTheorems, TLAPS

\* Objects by what the counts depend on; the pages may be anything.
Types == {"free", "file", "anon", "shadow"}

Cell(P) == [type : Types, next : 0..NObj, refcount : Int, ref1 : 0..NObj, ref2 : 0..NObj,
            pages : P]
PageLists(objs)  == {objs[o].pages : o \in Obj} \cup {<<>>}
Objects(P)      == [Obj -> Cell(P)]

Area == [lo : Int, hi : Int, src : Obj, off : Int, type : {"ro", "rw", "cow"},
           data : BOOLEAN]

\* The number of times o occurs in a sequence, and among its first n.
Times(s, o)   == Cardinality(Hits(s, o))
Among(s, n, o) == Cardinality({i \in 1..n : s[i] = o})

\* The references to o of one process, and of some; what some have given back.
Now(t, o)          == IF t.at = "enter" /\ t.obj = o THEN 1 ELSE 0
Mine(chain, t, o)  == Times(Sources(chain), o) + Times(t.todo, o) + Now(t, o)
AllUses(rg, ops, P, o) == UNION {UsesOf(q, rg[q], ops[q], o) : q \in P}
UsesBy(rg, ops, P, o)  == Cardinality(AllUses(rg, ops, P, o))
GoneBy(ops, P)         == UNION {GaveBack(ops[q]) : q \in P}

\* Every object counts f references besides those of the objects over it.
Balanced(objs, gone, f) ==
    \A o \in Obj : objs[o].refcount = Cardinality(Over(objs, gone, o)) + f[o]

\* A free object refers to nothing and counts nothing.
FreeIsBlank(objs) ==
    \A o \in Obj : objs[o].type = "free" => objs[o].next = 0 /\ objs[o].refcount = 0

\* The object of the executable stays, and nothing is below an object of a file.
FileStays(objs) ==
    /\ objs[File].type = "file" /\ objs[File].next = 0
    /\ \A o \in Obj : objs[o].type = "file" => objs[o].next = 0

\* A shadow object that has objects over it knows two of them: vm_object_free() does
\* not lose the reference it takes away.
RefsSet(objs, gone) ==
    \A x \in Obj \ gone :
        LET s == objs[x].next
        IN  s # 0 /\ objs[s].type = "shadow" => objs[s].ref1 # 0 /\ objs[s].ref2 # 0

\* What is known of the objects, if f counts the references of processes and those in
\* gone have given back the one to the object below.
Sound(objs, gone, f) ==
    /\ objs \in Objects(PageLists(objs))
    /\ gone \in SUBSET Obj /\ \A x \in gone : objs[x].type # "free"
    /\ Balanced(objs, gone, f) /\ FreeIsBlank(objs) /\ FileStays(objs)
    /\ RefsSet(objs, gone)

\* A shadow object that a process shows is shown by no other and has none over it.
ShadowsPrivate(objs, chain, t) ==
    \A i \in DOMAIN chain :
        LET s == chain[i].src
        IN  objs[s].type = "shadow" =>
              chain[i].type # "ro" /\ objs[s].refcount = Mine(chain, t, s)

\* What a process is doing.
Searching == {"search", "pagein", "found"}
Quiet     == {"user", "unused", "segv", "freed"} \cup Searching
Locking   == {"lock_new", "lock_sub"}

\* The types of a task.
Tasks(t) == [at : Quiet \cup Deciding \cup {"enter", "leave"}, addr : {t.addr},
             write : {t.write}, obj : {t.obj}, new : 0..NObj, todo : Seq(Obj),
             held : Seq(Obj), then : {"user", "map", "exit"}, map : Seq(Wanted)]

\* What can be said of a task without the objects.
Distinct(s) == \A i, j \in DOMAIN s : s[i] = s[j] => i = j

TaskSound(t, chain) ==
    /\ t \in Tasks(t) /\ Distinct(t.held)
    /\ t.at \in Quiet => t.held = <<>> /\ t.todo = <<>>
    /\ t.at \in Deciding \cup {"leave"} => t.held # <<>>
    /\ t.at \in {"enter"} \cup Locking => t.obj \in Obj
    /\ t.at = "unused" \/ t.then = "exit" => chain = <<>>
    /\ t.at = "freed" \/ t.then = "map" => t.map # <<>>
    /\ t.at \in Locking => t.new \in Obj
    /\ t.at = "lock_sub" => t.new \notin ToSet(t.held)
    /\ t.at \in Searching => \E i \in DOMAIN chain : Covers(chain[i], t.addr)

\* What it frees has no references left, and where it takes locks to combine there are
\* at most two.
FreesDead(objs, t) ==
    /\ \A o \in ToSet(t.held) :
          objs[o].type = "file" \/ (objs[o].type # "free" /\ objs[o].refcount = 0)
    /\ t.at \in Locking => /\ t.obj = objs[Head(t.held)].next
                           /\ objs[t.obj].type = "shadow" /\ objs[t.obj].refcount <= 2
    /\ t.at = "lock_sub" => objs[t.new].next = t.obj

\* The locks it holds are those its recursion has taken.
Locks(p, t, locked) ==
    /\ \A o \in ToSet(t.held) : locked[o] = p
    /\ t.at = "lock_sub" => locked[t.new] = p

\* All that is known of one process.
Process(p, objs, chain, t, locked) ==
    /\ chain \in Seq(Area)
    /\ TaskSound(t, chain) /\ FreesDead(objs, t) /\ Locks(p, t, locked)
    /\ ShadowsPrivate(objs, chain, t)

\* All of it, of the values of the variables.
Holds(objs, rg, ops, locked) ==
    /\ rg \in [Proc -> Seq(Area)] /\ ops = [p \in Proc |-> ops[p]]
    /\ locked = [o \in Obj |-> locked[o]]
    /\ Sound(objs, GoneBy(ops, Proc), [o \in Obj |-> UsesBy(rg, ops, Proc, o)])
    /\ \A p \in Proc : Process(p, objs, rg[p], ops[p], locked)

\* The inductive invariant: where the model has stopped it says nothing.
VmInv == halt = "" => Holds(object, regions, op, olock)

\* g is what N steps make of x.
Steps(N, S) == [(1..N) \X S -> S]
Iterates(g, x, N, step) == g[0] = x /\ \A n \in 1..N : g[n] = step[<<n, g[n - 1]>>]

\* Every set of naturals that is not empty has a least element.
LEMMA LeastNatural ==
    ASSUME NEW T \in SUBSET Nat, T # {}
    PROVE  \E m \in T : \A n \in T : m <= n
<1> DEFINE F == {S \in FiniteSubsetsOf(Nat) : \E m \in T : S = 0..m}
<1>1. IsWellFoundedOn(StrictSubsetOrdering(Nat), FiniteSubsetsOf(Nat))
  BY FS_StrictSubsetOrderingWellFounded
<1>2. \A m \in T : 0..m \in FiniteSubsetsOf(Nat)
  BY FS_Interval DEF FiniteSubsetsOf
<1>3. F # {} /\ F \subseteq FiniteSubsetsOf(Nat)
  BY <1>2
<1>4. PICK S \in F : \A U \in F : <<U, S>> \notin StrictSubsetOrdering(Nat)
  BY <1>1, <1>3, WFMin
<1>5. PICK m \in T : S = 0..m
  BY <1>4
<1>6. ASSUME NEW n \in T, n < m
      PROVE  FALSE
  <2>1. 0..n \in F
    BY <1>2
  <2>2. 0..n \subseteq 0..m /\ 0..n # 0..m /\ 0..n \subseteq Nat /\ 0..m \subseteq Nat
    <3>1. m \in 0..m /\ m \notin 0..n
      BY <1>6
    <3> QED
      BY <1>6, <3>1
  <2>3. <<0..n, 0..m>> \in StrictSubsetOrdering(Nat)
    BY <2>2 DEF StrictSubsetOrdering
  <2> QED
    BY <1>4, <1>5, <2>1, <2>3
<1> QED
  BY <1>6

\* A function of the naturals up to N may be defined step by step.
LEMMA Iterate ==
    ASSUME NEW S, NEW x \in S, NEW N \in Nat, NEW step \in Steps(N, S)
    PROVE  \E g \in [0..N -> S] : Iterates(g, x, N, step)
<1> USE DEF Iterates
<1> DEFINE Upto(n, g) == Iterates(g, x, n, step)
           bad == {n \in 0..N : ~ \E g \in [0..n -> S] : Upto(n, g)}
<1>1. step \in [(1..N) \X S -> S]
  BY DEF Steps
<1>2. SUFFICES bad = {}
  <2>1. N \in 0..N
    OBVIOUS
  <2> QED
    BY <2>1, <1>2
<1>3. SUFFICES ASSUME bad # {} PROVE FALSE
  OBVIOUS
<1>4. bad \in SUBSET Nat
  OBVIOUS
<1> HIDE DEF bad
<1>5. PICK m \in bad : \A n \in bad : m <= n
  BY <1>3, <1>4, LeastNatural
<1> USE DEF bad
<1>6. CASE m = 0
  <2> DEFINE g == [i \in 0..0 |-> x]
  <2>1. g \in [0..0 -> S] /\ Upto(0, g)
    OBVIOUS
  <2> QED
    BY <1>5, <1>6, <2>1
<1>7. CASE m # 0
  <2>1. m - 1 \in 0..N /\ m \in 1..N /\ m - 1 \notin bad
    BY <1>5, <1>7
  <2>2. PICK g \in [0..(m - 1) -> S] : Upto(m - 1, g)
    BY <2>1
  <2> DEFINE y == step[<<m, g[m - 1]>>]
             h == [i \in 0..m |-> IF i = m THEN y ELSE g[i]]
  <2>3. g[m - 1] \in S /\ y \in S
    BY <1>1, <2>1, <2>2
  <2>4. h \in [0..m -> S]
    BY <2>1, <2>2, <2>3
  <2>5. \A i \in 0..(m - 1) : h[i] = g[i]
    BY <2>1
  <2>6. h[m] = step[<<m, h[m - 1]>>]
    <3>1. m \in 0..m /\ m - 1 \in 0..(m - 1)
      BY <2>1
    <3>2. h[m] = y
      BY <3>1
    <3>3. h[m - 1] = g[m - 1]
      BY <2>5, <3>1
    <3> QED
      BY <3>2, <3>3
  <2>7. \A i \in 1..(m - 1) : i \in 0..(m - 1) /\ i - 1 \in 0..(m - 1)
    BY <2>1
  <2>8. \A i \in 1..(m - 1) : h[i] = step[<<i, h[i - 1]>>]
    BY <2>2, <2>5, <2>7
  <2>9. h[0] = x
    BY <2>1, <2>2, <2>5
  <2> HIDE DEF h
  <2>10. \A i \in 1..m : i = m \/ i \in 1..(m - 1)
    BY <2>1
  <2>11. Upto(m, h)
    BY <2>6, <2>8, <2>9, <2>10
  <2> QED
    BY <1>5, <2>4, <2>11
<1> QED
  BY <1>6, <1>7

\* What holds at 0 and of the next number, if of one, holds up to N.
LEMMA Climb ==
    ASSUME NEW N \in Nat, NEW T \in SUBSET Nat, 0 \in T,
           \A n \in 0..(N - 1) : n \in T => n + 1 \in T
    PROVE  \A n \in 0..N : n \in T
<1> DEFINE bad == {n \in 0..N : n \notin T}
<1>1. SUFFICES ASSUME bad # {} PROVE FALSE
  OBVIOUS
<1>2. bad \in SUBSET Nat
  OBVIOUS
<1>3. PICK m \in bad : \A n \in bad : m <= n
  <2> HIDE DEF bad
  <2> QED
    BY <1>1, <1>2, LeastNatural
<1>4. m # 0 /\ m - 1 \in 0..(N - 1) /\ m - 1 \notin bad
  BY <1>3
<1> QED
  BY <1>3, <1>4

-----------------------------------------------------------------------------
\* Occurrences in a sequence.
LEMMA ObjFinite == IsFiniteSet(Obj) /\ \A S \in SUBSET Obj : IsFiniteSet(S) /\ Cardinality(S) \in Nat
<1>1. IsFiniteSet(Obj)
  BY VmAssumption, FS_Interval DEF Obj
<1> QED
  BY <1>1, FS_Subset, FS_CardinalityType

\* The NULL pointer is no object; the vm_object of the executable is one.
LEMMA ZeroNotObj == 0 \notin Obj /\ Obj \subseteq 0..NObj /\ Obj \subseteq Nat /\ File \in Obj
BY VmAssumption DEF Obj, File

\* Sets of indices are finite.
LEMMA PrefixFinite ==
    ASSUME NEW n \in Nat, NEW S \in SUBSET (1..n)
    PROVE  IsFiniteSet(S) /\ Cardinality(S) \in Nat
<1>1. IsFiniteSet(1..n)
  BY FS_Interval
<1>2. IsFiniteSet(S)
  BY <1>1, FS_Subset
<1> QED
  BY <1>2, FS_CardinalityType

\* What an object is counted by in a sequence is finite.
LEMMA HitsFinite ==
    ASSUME NEW T, NEW s \in Seq(T), NEW o
    PROVE  IsFiniteSet(Hits(s, o)) /\ Times(s, o) \in Nat
<1>1. Hits(s, o) \in SUBSET (1..Len(s)) /\ Len(s) \in Nat
  BY DEF Hits
<1> QED
  BY <1>1, PrefixFinite DEF Times

\* One more.
LEMMA CountMore ==
    ASSUME NEW S, IsFiniteSet(S), NEW x, x \notin S
    PROVE  Cardinality(S \cup {x}) = Cardinality(S) + 1 /\ Cardinality(S) \in Nat
BY FS_AddElement, FS_CardinalityType

\* The members of S moved up by one.
LEMMA CountMoved ==
    ASSUME NEW n \in Nat, NEW S \in SUBSET (1..n)
    PROVE  Cardinality({i + 1 : i \in S}) = Cardinality(S)
<1> DEFINE T == {i + 1 : i \in S}
           f == [i \in S |-> i + 1]
<1>1. IsFiniteSet(S)
  BY PrefixFinite
<1>2. f \in Bijection(S, T)
  <2>1. f \in [S -> T]
    OBVIOUS
  <2>2. \A a, b \in S : f[a] = f[b] => a = b
    OBVIOUS
  <2>3. \A t \in T : \E s \in S : f[s] = t
    OBVIOUS
  <2> QED
    BY <2>1, <2>2, <2>3 DEF Bijection, Injection, Surjection, IsInjective
<1> QED
  BY <1>1, <1>2, FS_Bijection DEF ExistsBijection

\* Nothing occurs in the empty sequence.
LEMMA TimesNone == ASSUME NEW o PROVE Times(<<>>, o) = 0
<1>1. Hits(<<>>, o) = {}
  BY DEF Hits
<1> QED
  BY <1>1, FS_EmptySet DEF Times

\* One entry more at the end ..
LEMMA TimesAppend ==
    ASSUME NEW T, NEW s \in Seq(T), NEW e \in T, NEW o
    PROVE  Times(Append(s, e), o) = Times(s, o) + (IF e = o THEN 1 ELSE 0)
<1> DEFINE t == Append(s, e)
           n == Len(s) + 1
<1>1. t \in Seq(T) /\ DOMAIN t = 1..n /\ t[n] = e /\ \A i \in 1..Len(s) : t[i] = s[i]
  OBVIOUS
<1>2. DOMAIN s = 1..Len(s) /\ Len(s) \in Nat
  OBVIOUS
<1>3. IsFiniteSet(Hits(s, o)) /\ Times(s, o) \in Nat
  BY HitsFinite
<1> HIDE DEF t
<1>4. CASE e = o
  <2>1. Hits(t, o) = Hits(s, o) \cup {n} /\ n \notin Hits(s, o)
    BY <1>1, <1>2, <1>4 DEF Hits
  <2> QED
    BY <1>3, <1>4, <2>1, CountMore DEF Times, t
<1>5. CASE e # o
  <2>1. Hits(t, o) = Hits(s, o)
    BY <1>1, <1>2, <1>5 DEF Hits
  <2> QED
    BY <1>3, <1>5, <2>1 DEF Times, t
<1> QED
  BY <1>4, <1>5

\* .. or at the front.
LEMMA TimesFirst ==
    ASSUME NEW T, NEW s \in Seq(T), NEW e \in T, NEW o
    PROVE  Times(<<e>> \o s, o) = Times(s, o) + (IF e = o THEN 1 ELSE 0)
<1> DEFINE t == <<e>> \o s
           U == {i + 1 : i \in Hits(s, o)}
<1>1. t \in Seq(T) /\ DOMAIN t = 1..(Len(s) + 1) /\ t[1] = e /\ \A i \in 1..Len(s) : t[i + 1] = s[i]
  OBVIOUS
<1>2. DOMAIN s = 1..Len(s) /\ Len(s) \in Nat
  OBVIOUS
<1>3. IsFiniteSet(Hits(s, o)) /\ Times(s, o) \in Nat /\ Hits(s, o) \in SUBSET (1..Len(s))
  BY HitsFinite, <1>2 DEF Hits
<1>4. Cardinality(U) = Times(s, o)
  BY <1>2, <1>3, CountMoved DEF Times
<1>5. IsFiniteSet(U) /\ 1 \notin U
  <2>1. U \in SUBSET (1..(Len(s) + 1))
    BY <1>2, <1>3
  <2>2. 1 \notin U
    BY <1>2, <1>3
  <2> HIDE DEF U
  <2>3. Len(s) + 1 \in Nat
    BY <1>2
  <2> QED
    BY <2>1, <2>2, <2>3, PrefixFinite
<1>6. \A i \in 2..(Len(s) + 1) : t[i] = s[i - 1]
  <2> TAKE i \in 2..(Len(s) + 1)
  <2>1. i - 1 \in 1..Len(s)
    BY <1>2
  <2> QED
    BY <1>1, <2>1
<1> HIDE DEF t
<1>7. \A i \in 2..(Len(s) + 1) : i \in Hits(t, o) <=> i \in U
  <2> TAKE i \in 2..(Len(s) + 1)
  <2>1. i - 1 \in 1..Len(s) /\ i \in DOMAIN t /\ t[i] = s[i - 1]
    BY <1>1, <1>2, <1>6
  <2>2. i \in Hits(t, o) <=> i - 1 \in Hits(s, o)
    BY <1>2, <2>1 DEF Hits
  <2>3. i \in U <=> i - 1 \in Hits(s, o)
    BY <1>3
  <2> QED
    BY <2>2, <2>3
<1>8. 1 \in Hits(t, o) <=> e = o
  BY <1>1, <1>2 DEF Hits
<1>9. Hits(t, o) \subseteq 1..(Len(s) + 1) /\ U \subseteq 2..(Len(s) + 1)
  BY <1>1, <1>2, <1>3 DEF Hits
<1>10. CASE e = o
  <2>1. Hits(t, o) = U \cup {1}
    <3>1. 1..(Len(s) + 1) = {1} \cup 2..(Len(s) + 1)
      BY <1>2
    <3> HIDE DEF U
    <3> QED
      BY <1>7, <1>8, <1>9, <1>10, <3>1
  <2> HIDE DEF U
  <2> QED
    BY <1>4, <1>5, <1>10, <2>1, CountMore DEF Times, t
<1>11. CASE e # o
  <2>1. Hits(t, o) = U
    <3>1. 1..(Len(s) + 1) = {1} \cup 2..(Len(s) + 1)
      BY <1>2
    <3> HIDE DEF U
    <3> QED
      BY <1>7, <1>8, <1>9, <1>11, <3>1
  <2> HIDE DEF U
  <2> QED
    BY <1>3, <1>4, <1>11, <2>1 DEF Times, t
<1> QED
  BY <1>10, <1>11

\* One entry less at the front.
LEMMA TimesTail ==
    ASSUME NEW T, NEW s \in Seq(T), s # <<>>, NEW o
    PROVE  Times(s, o) = Times(Tail(s), o) + (IF Head(s) = o THEN 1 ELSE 0)
<1>1. Tail(s) \in Seq(T) /\ Head(s) \in T /\ s = <<Head(s)>> \o Tail(s)
  OBVIOUS
<1> DEFINE e == Head(s)  t == Tail(s)
<1> HIDE DEF e, t
<1>2. t \in Seq(T) /\ e \in T
  BY <1>1 DEF e, t
<1>3. Times(<<e>> \o t, o) = Times(t, o) + (IF e = o THEN 1 ELSE 0)
  BY <1>2, TimesFirst
<1> QED
  BY <1>1, <1>3 DEF e, t

\* An entry that is there counts.
LEMMA TimesThere ==
    ASSUME NEW T, NEW s \in Seq(T), NEW i \in DOMAIN s
    PROVE  Times(s, s[i]) >= 1
<1>1. i \in Hits(s, s[i]) /\ IsFiniteSet(Hits(s, s[i])) /\ Times(s, s[i]) \in Nat
  BY HitsFinite DEF Hits
<1>2. Cardinality(Hits(s, s[i])) # 0
  BY <1>1, FS_EmptySet
<1> QED
  BY <1>1, <1>2 DEF Times

\* What occurs no time is not there ..
LEMMA TimesZero ==
    ASSUME NEW T, NEW s \in Seq(T), NEW o, Times(s, o) = 0
    PROVE  \A i \in DOMAIN s : s[i] # o
<1> SUFFICES ASSUME NEW i \in DOMAIN s, s[i] = o PROVE FALSE
  OBVIOUS
<1> QED
  BY TimesThere

\* .. and the other way round.
LEMMA TimesAbsent ==
    ASSUME NEW s, NEW o, \A i \in DOMAIN s : s[i] # o
    PROVE  Times(s, o) = 0
<1>1. Hits(s, o) = {}
  BY DEF Hits
<1> QED
  BY <1>1, FS_EmptySet DEF Times

\* One entry replaced.
LEMMA TimesReplaced ==
    ASSUME NEW T, NEW s \in Seq(T), NEW i \in DOMAIN s, NEW e \in T, NEW o
    PROVE  Times([s EXCEPT ![i] = e], o) + (IF s[i] = o THEN 1 ELSE 0)
             = Times(s, o) + (IF e = o THEN 1 ELSE 0)
<1> DEFINE t == [s EXCEPT ![i] = e]
           B == Hits(s, o) \ {i}
<1>1. DOMAIN t = DOMAIN s /\ t[i] = e /\ \A j \in DOMAIN s : j # i => t[j] = s[j]
  OBVIOUS
<1>2. IsFiniteSet(Hits(s, o)) /\ IsFiniteSet(B) /\ Cardinality(B) \in Nat
  <2>1. IsFiniteSet(Hits(s, o))
    BY HitsFinite
  <2>2. IsFiniteSet(B)
    BY <2>1, FS_Subset
  <2> QED
    BY <2>1, <2>2, FS_CardinalityType
<1> HIDE DEF t
<1>3. Hits(t, o) = IF e = o THEN B \cup {i} ELSE B
  BY <1>1 DEF Hits
<1>4. Hits(s, o) = IF s[i] = o THEN B \cup {i} ELSE B
  BY DEF Hits
<1>5. Cardinality(B \cup {i}) = Cardinality(B) + 1
  <2> HIDE DEF B
  <2>1. i \notin B
    BY DEF B
  <2> QED
    BY <1>2, <2>1, CountMore
<1> HIDE DEF B
<1>6. Times(t, o) = IF e = o THEN Cardinality(B) + 1 ELSE Cardinality(B)
  BY <1>3, <1>5 DEF Times
<1>7. Times(s, o) = IF s[i] = o THEN Cardinality(B) + 1 ELSE Cardinality(B)
  BY <1>4, <1>5 DEF Times
<1> QED
  BY <1>2, <1>6, <1>7 DEF t

\* Among the first n.
LEMMA AmongNone == ASSUME NEW s, NEW o PROVE Among(s, 0, o) = 0
<1>1. {i \in 1..0 : s[i] = o} = {}
  OBVIOUS
<1> QED
  BY <1>1, FS_EmptySet DEF Among

\* One index more.
LEMMA AmongNext ==
    ASSUME NEW s, NEW o, NEW n \in Nat
    PROVE  Among(s, n + 1, o) = Among(s, n, o) + (IF s[n + 1] = o THEN 1 ELSE 0)
<1> DEFINE S == {i \in 1..n : s[i] = o}
           R == {i \in 1..(n + 1) : s[i] = o}
<1>1. IsFiniteSet(S) /\ Cardinality(S) \in Nat /\ n + 1 \notin S
  <2>1. S \in SUBSET (1..n) /\ n + 1 \notin S
    OBVIOUS
  <2> HIDE DEF S
  <2> QED
    BY <2>1, PrefixFinite
<1>2. R = IF s[n + 1] = o THEN S \cup {n + 1} ELSE S
  OBVIOUS
<1> HIDE DEF S, R
<1>3. Cardinality(S \cup {n + 1}) = Cardinality(S) + 1
  BY <1>1, CountMore
<1>4. Cardinality(R) = Cardinality(S) + (IF s[n + 1] = o THEN 1 ELSE 0)
  BY <1>1, <1>2, <1>3
<1> QED
  BY <1>4 DEF S, R, Among

\* All of the indices.
LEMMA AmongAll ==
    ASSUME NEW T, NEW s \in Seq(T), NEW o
    PROVE  Among(s, Len(s), o) = Times(s, o)
<1>1. {i \in 1..Len(s) : s[i] = o} = Hits(s, o)
  BY DEF Hits
<1> QED
  BY <1>1 DEF Among, Times

\* Some of the indices count at most what all do.
LEMMA AmongWithin ==
    ASSUME NEW T, NEW s \in Seq(T), NEW o, NEW n \in 0..Len(s)
    PROVE  Among(s, n, o) \in Nat /\ Among(s, n, o) <= Times(s, o)
<1> DEFINE S == {i \in 1..n : s[i] = o}
<1>1. S \subseteq Hits(s, o)
  BY DEF Hits
<1>2. IsFiniteSet(Hits(s, o))
  BY HitsFinite
<1> HIDE DEF S
<1>3. IsFiniteSet(S) /\ Cardinality(S) <= Cardinality(Hits(s, o)) /\ Cardinality(S) \in Nat
  BY <1>1, <1>2, FS_Subset, FS_CardinalityType
<1> QED
  BY <1>3 DEF Among, Times, S

\* Every region shows an object.
LEMMA SrcIsObj == \A r \in Area : r.src \in Obj
BY DEF Area

\* The sources of a chain.
LEMMA SourcesOf ==
    ASSUME NEW chain \in Seq(Area)
    PROVE  /\ Sources(chain) \in Seq(Obj) /\ Len(Sources(chain)) = Len(chain)
           /\ DOMAIN Sources(chain) = DOMAIN chain
           /\ \A i \in DOMAIN chain : Sources(chain)[i] = chain[i].src
<1>1. \A i \in DOMAIN chain : chain[i].src \in Obj
  <2>1. \A i \in DOMAIN chain : chain[i] \in Area
    OBVIOUS
  <2> QED
    BY <2>1, SrcIsObj
<1>2. DOMAIN chain = 1..Len(chain) /\ Len(chain) \in Nat
  OBVIOUS
<1> QED
  BY <1>1, <1>2 DEF Sources

\* The sources of a chain with a region more at the end ..
LEMMA SourcesAppend ==
    ASSUME NEW chain \in Seq(Area), NEW r \in Area
    PROVE  Sources(Append(chain, r)) = Append(Sources(chain), r.src)
<1> DEFINE c == Append(chain, r)
           a == Sources(c)
           b == Append(Sources(chain), r.src)
<1>1. c \in Seq(Area) /\ r.src \in Obj /\ Sources(chain) \in Seq(Obj) /\ Len(c) = Len(chain) + 1
      /\ Len(chain) \in Nat /\ DOMAIN chain = 1..Len(chain) /\ DOMAIN c = 1..Len(c)
  <2>1. c \in Seq(Area) /\ Len(c) = Len(chain) + 1
    OBVIOUS
  <2> HIDE DEF c
  <2> QED
    BY <2>1, SourcesOf, SrcIsObj
<1>2. a \in Seq(Obj) /\ b \in Seq(Obj) /\ Len(a) = Len(chain) + 1 /\ Len(b) = Len(chain) + 1
  <2>1. Len(Sources(chain)) = Len(chain)
    BY SourcesOf
  <2>2. b \in Seq(Obj) /\ Len(b) = Len(chain) + 1
    BY <1>1, <2>1
  <2> HIDE DEF c, b
  <2> QED
    BY <1>1, <2>2, SourcesOf
<1>3. \A i \in 1..(Len(chain) + 1) : a[i] = b[i]
  <2> TAKE i \in 1..(Len(chain) + 1)
  <2>1. i \in DOMAIN c /\ a[i] = c[i].src
    <3> HIDE DEF c
    <3> QED
      BY <1>1, SourcesOf DEF a
  <2>2. CASE i = Len(chain) + 1
    BY <1>1, <2>1, <2>2, SourcesOf
  <2>3. CASE i # Len(chain) + 1
    <3>1. i \in DOMAIN chain
      BY <2>3
    <3> QED
      BY <1>1, <2>1, <3>1, SourcesOf
  <2> QED
    BY <2>2, <2>3
<1> HIDE DEF a, b
<1>4. a = b
  BY <1>2, <1>3
<1> QED
  BY <1>4 DEF a, b

\* .. or at the front.
LEMMA SourcesFirst ==
    ASSUME NEW chain \in Seq(Area), NEW r \in Area
    PROVE  Sources(<<r>> \o chain) = <<r.src>> \o Sources(chain)
<1> DEFINE c == <<r>> \o chain
           a == Sources(c)
           b == <<r.src>> \o Sources(chain)
<1>1. c \in Seq(Area) /\ r.src \in Obj /\ Sources(chain) \in Seq(Obj) /\ Len(c) = Len(chain) + 1
      /\ Len(chain) \in Nat /\ DOMAIN chain = 1..Len(chain) /\ DOMAIN c = 1..Len(c)
  <2>1. c \in Seq(Area) /\ Len(c) = Len(chain) + 1
    OBVIOUS
  <2> HIDE DEF c
  <2> QED
    BY <2>1, SourcesOf, SrcIsObj
<1>2. a \in Seq(Obj) /\ b \in Seq(Obj) /\ Len(a) = Len(chain) + 1 /\ Len(b) = Len(chain) + 1
  <2>1. Len(Sources(chain)) = Len(chain)
    BY SourcesOf
  <2>2. b \in Seq(Obj) /\ Len(b) = Len(chain) + 1
    BY <1>1, <2>1
  <2> HIDE DEF c, b
  <2> QED
    BY <1>1, <2>2, SourcesOf
<1>3. \A i \in 1..(Len(chain) + 1) : a[i] = b[i]
  <2> TAKE i \in 1..(Len(chain) + 1)
  <2>1. i \in DOMAIN c /\ a[i] = c[i].src
    <3> HIDE DEF c
    <3> QED
      BY <1>1, SourcesOf DEF a
  <2>2. CASE i = 1
    BY <1>1, <2>1, <2>2, SourcesOf
  <2>3. CASE i # 1
    <3>1. i - 1 \in DOMAIN chain /\ (<<r>> \o chain)[i] = chain[i - 1]
      BY <2>3
    <3>2. Sources(chain)[i - 1] = chain[i - 1].src
      BY <3>1, SourcesOf
    <3>3. b[i] = Sources(chain)[i - 1]
      BY <1>1, <2>3, SourcesOf
    <3> QED
      BY <2>1, <3>1, <3>2, <3>3
  <2> QED
    BY <2>2, <2>3
<1> HIDE DEF a, b
<1>4. a = b
  BY <1>2, <1>3
<1> QED
  BY <1>4 DEF a, b
-----------------------------------------------------------------------------
\* What one change of the objects does to the counts.
LEMMA Reshaped ==
    ASSUME NEW P, NEW objs \in Objects(P)
    PROVE  objs \in Objects(PageLists(objs))
<1>1. \A o \in Obj : objs[o] \in Cell(P) /\ objs[o].pages \in PageLists(objs)
  BY DEF Objects, PageLists
<1>2. \A o \in Obj : objs[o] \in Cell(PageLists(objs))
  BY <1>1 DEF Cell
<1> QED
  BY <1>2 DEF Objects

\* A shadow object that vm_object_create() makes and vm_fork() or vm_fault() puts over o.
LEMMA ShadowIs ==
    ASSUME NEW o \in Obj, NEW P, <<>> \in P
    PROVE  /\ NoObject \in Cell(P) /\ Shadow(o) \in Cell(P)
           /\ Shadow(o).type = "shadow" /\ Shadow(o).next = o /\ Shadow(o).refcount = 1
<1> DEFINE a == [NoObject EXCEPT !.type = "shadow"]
           b == [a EXCEPT !.next = o]
           c == [b EXCEPT !.refcount = 1]
<1>1. 0 \in 0..NObj /\ o \in 0..NObj
  BY VmAssumption DEF Obj
<1>2. NoObject \in Cell(P)
  BY <1>1 DEF NoObject, Cell, Types
<1>3. a \in Cell(P)
  BY <1>2 DEF Cell, Types
<1>4. b \in Cell(P)
  <2> HIDE DEF a
  <2> QED
    BY <1>1, <1>3 DEF Cell
<1>5. c \in Cell(P)
  <2> HIDE DEF b
  <2> QED
    BY <1>4 DEF Cell
<1>6. Shadow(o) = c
  BY DEF Shadow
<1>7. Shadow(o).type = "shadow" /\ Shadow(o).next = o /\ Shadow(o).refcount = 1
  BY DEF Shadow, NoObject
<1> QED
  BY <1>2, <1>5, <1>6, <1>7

\* Objects that are free or just made are cells, whatever pages there are.
LEMMA NewCells ==
    ASSUME NEW objs
    PROVE  /\ NoObject \in Cell(PageLists(objs)) /\ NoObject.type = "free"
           /\ NoObject.next = 0 /\ NoObject.refcount = 0
           /\ LET a == [NoObject EXCEPT !.type = "anon"]
              IN  a \in Cell(PageLists(objs)) /\ a.type = "anon" /\ a.next = 0 /\ a.refcount = 0
           /\ \A o \in Obj : /\ Shadow(o) \in Cell(PageLists(objs)) /\ Shadow(o).type = "shadow"
                             /\ Shadow(o).next = o /\ Shadow(o).refcount = 1
<1>1. <<>> \in PageLists(objs)
  BY DEF PageLists
<1>2. \A o \in Obj : /\ NoObject \in Cell(PageLists(objs)) /\ Shadow(o) \in Cell(PageLists(objs))
                    /\ Shadow(o).type = "shadow" /\ Shadow(o).next = o /\ Shadow(o).refcount = 1
  BY <1>1, ShadowIs
<1>3. NoObject \in Cell(PageLists(objs)) /\ NoObject.type = "free"
      /\ NoObject.next = 0 /\ NoObject.refcount = 0
  BY <1>2, ZeroNotObj DEF NoObject
<1> DEFINE a == [NoObject EXCEPT !.type = "anon"]
<1>4. a \in Cell(PageLists(objs)) /\ a.type = "anon" /\ a.next = 0 /\ a.refcount = 0
  BY <1>3 DEF Cell, Types
<1> QED
  BY <1>2, <1>3, <1>4

\* What one object of the table is.
LEMMA CellOf ==
    ASSUME NEW objs, objs \in Objects(PageLists(objs)), NEW o \in Obj
    PROVE  /\ objs[o] \in Cell(PageLists(objs))
           /\ objs[o].type \in Types /\ objs[o].next \in 0..NObj /\ objs[o].refcount \in Int
           /\ objs[o].ref1 \in 0..NObj /\ objs[o].ref2 \in 0..NObj
BY DEF Objects, Cell

\* The objects over another are finitely many.
LEMMA OverCount ==
    ASSUME NEW objs, NEW gone, NEW o
    PROVE  /\ IsFiniteSet(Over(objs, gone, o)) /\ Cardinality(Over(objs, gone, o)) \in Nat
           /\ Over(objs, gone, o) \subseteq Obj
           /\ \A x \in Over(objs, gone, o) : Cardinality(Over(objs, gone, o)) >= 1
<1>1. Over(objs, gone, o) \in SUBSET Obj
  BY DEF Over
<1>2. IsFiniteSet(Over(objs, gone, o)) /\ Cardinality(Over(objs, gone, o)) \in Nat
  BY <1>1, ObjFinite
<1>3. Over(objs, gone, o) # {} => Cardinality(Over(objs, gone, o)) # 0
  BY <1>2, FS_EmptySet
<1> QED
  BY <1>1, <1>2, <1>3

\* Changes of the pages only.
Alike(a, b) == /\ a.type = b.type /\ a.next = b.next /\ a.refcount = b.refcount
               /\ a.ref1 = b.ref1 /\ a.ref2 = b.ref2

\* The counts see nothing of an object but its type, what is below it and its count.
LEMMA SoundAlike ==
    ASSUME NEW objs, NEW gone, NEW f, Sound(objs, gone, f),
           NEW objs2, objs2 \in Objects(PageLists(objs2)),
           \A o \in Obj : Alike(objs[o], objs2[o])
    PROVE  Sound(objs2, gone, f)
<1>1. \A o \in Obj : Over(objs2, gone, o) = Over(objs, gone, o)
  BY DEF Over, Alike
<1>2. Balanced(objs2, gone, f)
  BY <1>1 DEF Sound, Balanced, Alike
<1>3. FreeIsBlank(objs2) /\ FileStays(objs2)
  BY ZeroNotObj DEF Sound, FreeIsBlank, FileStays, Alike
<1>4. RefsSet(objs2, gone)
  <2> SUFFICES ASSUME NEW x \in Obj \ gone, objs2[x].next # 0,
                      objs2[objs2[x].next].type = "shadow"
               PROVE  objs2[objs2[x].next].ref1 # 0 /\ objs2[objs2[x].next].ref2 # 0
    BY DEF RefsSet
  <2>1. objs2[x].next = objs[x].next /\ objs2[x].next \in Obj
    BY CellOf DEF Alike, Obj
  <2> QED
    BY <2>1 DEF Sound, RefsSet, Alike
<1>5. \A x \in gone : objs2[x].type # "free"
  BY DEF Sound, Alike
<1> QED
  BY <1>2, <1>3, <1>4, <1>5 DEF Sound

\* One more reference to an object.
LEMMA SoundAttached ==
    ASSUME NEW objs, NEW gone, NEW f, Sound(objs, gone, f),
           NEW o \in Obj, objs[o].type # "free",
           NEW f2, \A x \in Obj : f2[x] = IF x = o THEN f[x] + 1 ELSE f[x],
           \A x \in Obj : f[x] \in Nat
    PROVE  Sound([objs EXCEPT ![o].refcount = @ + 1], gone, f2)
<1> DEFINE objs2 == [objs EXCEPT ![o].refcount = @ + 1]
<1>1. objs2 \in Objects(PageLists(objs))
  BY DEF Sound, Objects, Cell
<1>2. \A x \in Obj : /\ objs2[x].type = objs[x].type /\ objs2[x].next = objs[x].next
                     /\ objs2[x].ref1 = objs[x].ref1 /\ objs2[x].ref2 = objs[x].ref2
                     /\ objs2[x].refcount = IF x = o THEN objs[x].refcount + 1 ELSE objs[x].refcount
  BY DEF Sound, Objects, Cell
<1> HIDE DEF objs2
<1>3. \A x \in Obj : Over(objs2, gone, x) = Over(objs, gone, x)
  BY <1>2 DEF Over
<1>4. Balanced(objs2, gone, f2)
  <2> SUFFICES ASSUME NEW x \in Obj
               PROVE  objs2[x].refcount = Cardinality(Over(objs2, gone, x)) + f2[x]
    BY DEF Balanced
  <2>1. objs[x].refcount = Cardinality(Over(objs, gone, x)) + f[x]
    BY DEF Sound, Balanced
  <2> QED
    BY <1>2, <1>3, <2>1, OverCount
<1>5. FreeIsBlank(objs2) /\ FileStays(objs2)
  BY <1>2, ZeroNotObj DEF Sound, FreeIsBlank, FileStays
<1>6. RefsSet(objs2, gone)
  <2> SUFFICES ASSUME NEW x \in Obj \ gone, objs2[x].next # 0,
                      objs2[objs2[x].next].type = "shadow"
               PROVE  objs2[objs2[x].next].ref1 # 0 /\ objs2[objs2[x].next].ref2 # 0
    BY DEF RefsSet
  <2>1. objs2[x].next = objs[x].next /\ objs2[x].next \in Obj
    BY <1>2, CellOf DEF Obj, Sound
  <2> QED
    BY <1>2, <2>1 DEF Sound, RefsSet
<1>7. \A x \in gone : objs2[x].type # "free"
  BY <1>2 DEF Sound
<1>8. Sound(objs2, gone, f2)
  BY <1>1, <1>4, <1>5, <1>6, <1>7, Reshaped DEF Sound
<1> QED
  BY <1>8 DEF objs2

\* A new anonymous object.
LEMMA SoundNew ==
    ASSUME NEW objs, NEW gone, NEW f, Sound(objs, gone, f), NEW s \in Spare(objs)
    PROVE  Sound([objs EXCEPT ![s] = [NoObject EXCEPT !.type = "anon"]], gone, f)
<1> DEFINE new == [NoObject EXCEPT !.type = "anon"]
           objs2 == [objs EXCEPT ![s] = new]
<1>1. new \in Cell(PageLists(objs)) /\ new.type = "anon" /\ new.next = 0 /\ new.refcount = 0
  BY NewCells
<1>2. s \in Obj /\ objs[s].type = "free" /\ objs[s].next = 0 /\ objs[s].refcount = 0
      /\ s \notin gone /\ s # File
  BY DEF Spare, Sound, FreeIsBlank, FileStays
<1>3. objs2 \in Objects(PageLists(objs))
  BY <1>1, <1>2 DEF Sound, Objects
<1>4. objs2[s] = new /\ \A x \in Obj \ {s} : objs2[x] = objs[x]
  BY <1>2 DEF Sound, Objects
<1> HIDE DEF objs2, new
<1>5. \A x \in Obj : objs2[x].next = objs[x].next /\ objs2[x].refcount = objs[x].refcount
  BY <1>1, <1>2, <1>4
<1>6. \A x \in Obj : Over(objs2, gone, x) = Over(objs, gone, x)
  BY <1>5 DEF Over
<1>7. Balanced(objs2, gone, f)
  BY <1>5, <1>6 DEF Sound, Balanced
<1>8. FreeIsBlank(objs2) /\ FileStays(objs2)
  BY <1>1, <1>2, <1>4, ZeroNotObj DEF Sound, FreeIsBlank, FileStays
<1>9. RefsSet(objs2, gone)
  <2> SUFFICES ASSUME NEW x \in Obj \ gone, objs2[x].next # 0,
                      objs2[objs2[x].next].type = "shadow"
               PROVE  objs2[objs2[x].next].ref1 # 0 /\ objs2[objs2[x].next].ref2 # 0
    BY DEF RefsSet
  <2>1. objs2[x].next = objs[x].next /\ objs2[x].next \in Obj
    BY <1>5, CellOf DEF Obj, Sound
  <2>2. objs2[x].next # s
    BY <1>1, <1>4
  <2> QED
    BY <1>4, <2>1, <2>2 DEF Sound, RefsSet
<1>10. \A x \in gone : objs2[x].type # "free"
  BY <1>2, <1>4 DEF Sound
<1>11. Sound(objs2, gone, f)
  BY <1>3, <1>7, <1>8, <1>9, <1>10, Reshaped DEF Sound
<1> QED
  BY <1>11 DEF objs2, new

\* An object that is not free, or has references, and one without any.
LEMMA Unreferenced ==
    ASSUME NEW objs, NEW gone, NEW f, Sound(objs, gone, f), NEW o \in Obj,
           objs[o].refcount = 0, f[o] \in Nat
    PROVE  f[o] = 0 /\ \A x \in Obj \ gone : objs[x].next # o
<1>1. Cardinality(Over(objs, gone, o)) + f[o] = 0
  BY DEF Sound, Balanced
<1>2. f[o] = 0 /\ Cardinality(Over(objs, gone, o)) = 0
  BY <1>1, OverCount
<1>3. Over(objs, gone, o) = {}
  BY <1>2, OverCount, FS_EmptySet
<1> QED
  BY <1>2, <1>3 DEF Over

\* An object with a reference is in use and has counted it.
LEMMA ReferencedInUse ==
    ASSUME NEW objs, NEW gone, NEW f, Sound(objs, gone, f), NEW o \in Obj,
           f[o] \in Nat, f[o] >= 1
    PROVE  objs[o].type # "free" /\ objs[o].refcount >= 1
<1>1. objs[o].refcount = Cardinality(Over(objs, gone, o)) + f[o]
  BY DEF Sound, Balanced
<1>2. objs[o].refcount >= 1
  BY <1>1, OverCount
<1> QED
  BY <1>2 DEF Sound, FreeIsBlank

\* A new shadow object, with pages, over one that is no shadow object itself.
LEMMA SoundOver ==
    ASSUME NEW objs, NEW gone, NEW f, Sound(objs, gone, f),
           NEW s \in Spare(objs), NEW o \in Obj, objs[o].type \notin {"free", "shadow"},
           NEW new, NEW P, new \in Cell(P), new.type = "shadow", new.next = o,
           new.refcount = 1,
           \A x \in Obj : f[x] \in Nat,
           NEW f2, f2[s] = f[s] + 1, f2[o] = f[o] - 1,
           \A x \in Obj \ {s, o} : f2[x] = f[x]
    PROVE  Sound([objs EXCEPT ![s] = new], gone, f2)
<1> DEFINE objs2 == [objs EXCEPT ![s] = new]
           Q == PageLists(objs) \cup P
<1>1. s \in Obj /\ objs[s].type = "free" /\ objs[s].next = 0 /\ objs[s].refcount = 0
      /\ s \notin gone /\ s # File /\ s # o
  BY DEF Spare, Sound, FreeIsBlank, FileStays
<1>2. objs2 \in Objects(Q)
  BY <1>1 DEF Sound, Objects, Cell
<1>3. objs2[s] = new /\ \A x \in Obj \ {s} : objs2[x] = objs[x]
  BY <1>1 DEF Sound, Objects
<1> HIDE DEF objs2, Q
<1>12. /\ objs2[s].next = o /\ o # 0
       /\ \A x \in Obj : x # s => objs2[x].next = objs[x].next
  BY <1>3, ZeroNotObj
<1>4. Over(objs2, gone, o) = Over(objs, gone, o) \cup {s} /\ s \notin Over(objs, gone, o)
  BY <1>1, <1>12 DEF Over
<1>5. \A x \in Obj \ {o} : Over(objs2, gone, x) = Over(objs, gone, x)
  <2> TAKE x \in Obj \ {o}
  <2>1. x # 0
    BY ZeroNotObj
  <2> QED
    BY <1>1, <1>12, <2>1 DEF Over
<1>6. Cardinality(Over(objs2, gone, o)) = Cardinality(Over(objs, gone, o)) + 1
  BY <1>4, CountMore, OverCount
<1>7. Balanced(objs2, gone, f2)
  <2> SUFFICES ASSUME NEW x \in Obj
               PROVE  objs2[x].refcount = Cardinality(Over(objs2, gone, x)) + f2[x]
    BY DEF Balanced
  <2>1. objs[x].refcount = Cardinality(Over(objs, gone, x)) + f[x] /\ f[x] \in Nat
    BY DEF Sound, Balanced
  <2>2. Cardinality(Over(objs, gone, x)) \in Nat
    BY OverCount
  <2>3. CASE x = s
    BY <1>1, <1>3, <1>5, <2>1, <2>2, <2>3
  <2>4. CASE x = o
    BY <1>1, <1>3, <1>6, <2>1, <2>2, <2>4
  <2>5. CASE x \notin {s, o}
    BY <1>3, <1>5, <2>1, <2>2, <2>5
  <2> QED
    BY <2>3, <2>4, <2>5
<1>8. FreeIsBlank(objs2) /\ FileStays(objs2)
  BY <1>1, <1>3, ZeroNotObj DEF Sound, FreeIsBlank, FileStays
<1>9. RefsSet(objs2, gone)
  <2> SUFFICES ASSUME NEW x \in Obj \ gone, objs2[x].next # 0,
                      objs2[objs2[x].next].type = "shadow"
               PROVE  objs2[objs2[x].next].ref1 # 0 /\ objs2[objs2[x].next].ref2 # 0
    BY DEF RefsSet
  <2>1. x # s
    BY <1>1, <1>3
  <2>2. objs2[x].next = objs[x].next /\ objs2[x].next \in Obj
    BY <1>3, <2>1, CellOf DEF Obj, Sound
  <2>3. objs2[x].next # s
    BY <1>1, <2>2, Unreferenced
  <2> QED
    BY <1>3, <2>2, <2>3 DEF Sound, RefsSet
<1>10. \A x \in gone : objs2[x].type # "free"
  BY <1>1, <1>3 DEF Sound
<1>11. Sound(objs2, gone, f2)
  BY <1>2, <1>7, <1>8, <1>9, <1>10, Reshaped DEF Sound
<1> QED
  BY <1>11 DEF objs2

\* Two new shadow objects in place of one reference, as fork() makes them.
Split(objs, o, s1, s2) ==
    LET isShadow == objs[o].type = "shadow"
    IN  [objs EXCEPT ![s1] = Shadow(o), ![s2] = Shadow(o), ![o].refcount = @ + 1,
                     ![o].ref1 = IF isShadow THEN s1 ELSE @,
                     ![o].ref2 = IF isShadow THEN s2 ELSE @]

\* The two shadow objects that fork puts over an object: what changes.
LEMMA SplitIs ==
    ASSUME NEW P, NEW objs \in Objects(P), <<>> \in P, NEW o \in Obj, NEW s1 \in Obj,
           NEW s2 \in Obj, o # s1, o # s2, s1 # s2
    PROVE  LET objs2 == Split(objs, o, s1, s2)
           IN  /\ objs2 \in Objects(P) /\ objs2[s1] = Shadow(o) /\ objs2[s2] = Shadow(o)
               /\ objs2[o].type = objs[o].type /\ objs2[o].next = objs[o].next
               /\ objs2[o].refcount = objs[o].refcount + 1
               /\ objs2[o].type = "shadow" => objs2[o].ref1 # 0 /\ objs2[o].ref2 # 0
               /\ \A x \in Obj \ {o, s1, s2} : objs2[x] = objs[x]
<1> DEFINE isShadow == objs[o].type = "shadow"
           cell == [objs[o] EXCEPT !.refcount = @ + 1,
                                   !.ref1 = IF isShadow THEN s1 ELSE @,
                                   !.ref2 = IF isShadow THEN s2 ELSE @]
           objs2 == [x \in Obj |-> IF x = o THEN cell ELSE IF x \in {s1, s2} THEN Shadow(o)
                                   ELSE objs[x]]
<1>1. objs[o] \in Cell(P) /\ DOMAIN objs = Obj
  BY DEF Objects
<1>2. cell \in Cell(P) /\ cell.type = objs[o].type /\ cell.next = objs[o].next
      /\ cell.refcount = objs[o].refcount + 1
      /\ (isShadow => cell.ref1 = s1 /\ cell.ref2 = s2)
  <2> DEFINE a == [objs[o] EXCEPT !.refcount = @ + 1]
             b == [a EXCEPT !.ref1 = IF isShadow THEN s1 ELSE @]
             c == [b EXCEPT !.ref2 = IF isShadow THEN s2 ELSE @]
  <2>1. s1 \in 0..NObj /\ s2 \in 0..NObj
    BY ZeroNotObj
  <2>2. a \in Cell(P) /\ a.type = objs[o].type /\ a.next = objs[o].next
        /\ a.refcount = objs[o].refcount + 1
    BY <1>1 DEF Cell
  <2>3. b \in Cell(P) /\ b.type = a.type /\ b.next = a.next /\ b.refcount = a.refcount
        /\ (isShadow => b.ref1 = s1)
    <3> HIDE DEF a
    <3> QED
      BY <2>1, <2>2 DEF Cell
  <2>4. c \in Cell(P) /\ c.type = b.type /\ c.next = b.next /\ c.refcount = b.refcount
        /\ c.ref1 = b.ref1 /\ (isShadow => c.ref2 = s2)
    <3> HIDE DEF b
    <3> QED
      BY <2>1, <2>3 DEF Cell
  <2>5. cell = c
    OBVIOUS
  <2> HIDE DEF a, b, c, cell
  <2> QED
    BY <2>2, <2>3, <2>4, <2>5
<1>3. Shadow(o) \in Cell(P)
  BY ShadowIs
<1>4. Split(objs, o, s1, s2) = objs2
  <2> DEFINE a == [objs EXCEPT ![s1] = Shadow(o)]
             b == [a EXCEPT ![s2] = Shadow(o)]
             c == [b EXCEPT ![o].refcount = @ + 1]
             d == [c EXCEPT ![o].ref1 = IF isShadow THEN s1 ELSE @]
             e == [d EXCEPT ![o].ref2 = IF isShadow THEN s2 ELSE @]
  <2>1. Split(objs, o, s1, s2) = e
    BY ZenonT(120) DEF Split
  <2>2. b = [x \in Obj |-> IF x \in {s1, s2} THEN Shadow(o) ELSE objs[x]]
    BY <1>1
  <2>3. e = [b EXCEPT ![o] = cell]
    <3>1. DOMAIN b = Obj /\ b[o] = objs[o]
      BY <1>1, <2>2
    <3> HIDE DEF b
    <3> QED
      BY <1>1, <3>1 DEF Cell
  <2> HIDE DEF b, cell, e
  <2>4. [b EXCEPT ![o] = cell] = objs2
    BY <2>2
  <2> QED
    BY <2>1, <2>3, <2>4
<1> HIDE DEF cell
<1>5. objs2 \in Objects(P)
  BY <1>2, <1>3 DEF Objects
<1>6. objs2[s1] = Shadow(o) /\ objs2[s2] = Shadow(o) /\ objs2[o] = cell
      /\ \A x \in Obj \ {o, s1, s2} : objs2[x] = objs[x]
  OBVIOUS
<1> HIDE DEF objs2
<1> QED
  BY <1>2, <1>4, <1>5, <1>6, ZeroNotObj

\* A fork leaves the counts exact: each side shows its own shadow object.
LEMMA SoundSplit ==
    ASSUME NEW objs, NEW gone, NEW f, Sound(objs, gone, f),
           NEW o \in Obj, objs[o].type # "free",
           NEW s1 \in Spare(objs), NEW s2 \in Spare(objs), s1 # s2,
           \A x \in Obj : f[x] \in Nat,
           NEW f2, f2[s1] = f[s1] + 1, f2[s2] = f[s2] + 1, f2[o] = f[o] - 1,
           \A x \in Obj \ {o, s1, s2} : f2[x] = f[x]
    PROVE  Sound(Split(objs, o, s1, s2), gone, f2)
<1> DEFINE objs2 == Split(objs, o, s1, s2)
<1>1. /\ s1 \in Obj /\ s2 \in Obj /\ o # s1 /\ o # s2 /\ File \notin {s1, s2}
      /\ \A x \in {s1, s2} : /\ objs[x].type = "free" /\ objs[x].next = 0
                             /\ objs[x].refcount = 0 /\ x \notin gone
  BY DEF Spare, Sound, FreeIsBlank, FileStays
<1>2. <<>> \in PageLists(objs)
  BY DEF PageLists
<1>3. /\ objs2 \in Objects(PageLists(objs)) /\ objs2[s1] = Shadow(o) /\ objs2[s2] = Shadow(o)
      /\ objs2[o].type = objs[o].type /\ objs2[o].next = objs[o].next
      /\ objs2[o].refcount = objs[o].refcount + 1
      /\ objs2[o].type = "shadow" => objs2[o].ref1 # 0 /\ objs2[o].ref2 # 0
      /\ \A x \in Obj \ {o, s1, s2} : objs2[x] = objs[x]
  BY <1>1, <1>2, SplitIs DEF Sound
<1> HIDE DEF objs2
<1>4. Shadow(o).type = "shadow" /\ Shadow(o).next = o /\ Shadow(o).refcount = 1
  BY NewCells
<1>13. /\ objs2[s1].next = o /\ objs2[s2].next = o /\ o # 0
       /\ objs[s1].next = 0 /\ objs[s2].next = 0 /\ s1 \notin gone /\ s2 \notin gone
       /\ \A x \in Obj \ {s1, s2} : objs2[x].next = objs[x].next
  BY <1>1, <1>3, <1>4, ZeroNotObj
<1>5. Over(objs2, gone, o) = (Over(objs, gone, o) \cup {s1}) \cup {s2}
      /\ s1 \notin Over(objs, gone, o) /\ s2 \notin Over(objs, gone, o) \cup {s1}
  BY <1>1, <1>13 DEF Over
<1>6. \A x \in Obj \ {o} : Over(objs2, gone, x) = Over(objs, gone, x)
  <2> TAKE x \in Obj \ {o}
  <2>1. x # 0
    BY ZeroNotObj
  <2> QED
    BY <1>1, <1>13, <2>1 DEF Over
<1>7. Cardinality(Over(objs2, gone, o)) = Cardinality(Over(objs, gone, o)) + 2
  <2>1. Cardinality(Over(objs, gone, o) \cup {s1}) = Cardinality(Over(objs, gone, o)) + 1
        /\ IsFiniteSet(Over(objs, gone, o) \cup {s1})
    BY <1>5, CountMore, OverCount, FS_AddElement
  <2>2. Cardinality(Over(objs2, gone, o)) = Cardinality(Over(objs, gone, o) \cup {s1}) + 1
    BY <1>5, <2>1, CountMore
  <2> QED
    BY <2>1, <2>2, OverCount
<1>8. Balanced(objs2, gone, f2)
  <2> SUFFICES ASSUME NEW x \in Obj
               PROVE  objs2[x].refcount = Cardinality(Over(objs2, gone, x)) + f2[x]
    BY DEF Balanced
  <2>1. objs[x].refcount = Cardinality(Over(objs, gone, x)) + f[x] /\ f[x] \in Nat
    BY DEF Sound, Balanced
  <2>2. Cardinality(Over(objs, gone, x)) \in Nat
    BY OverCount
  <2>3. CASE x \in {s1, s2}
    BY <1>1, <1>3, <1>4, <1>6, <2>1, <2>2, <2>3
  <2>4. CASE x = o
    BY <1>1, <1>3, <1>7, <2>1, <2>2, <2>4
  <2>5. CASE x \notin {o, s1, s2}
    BY <1>3, <1>6, <2>1, <2>2, <2>5
  <2> QED
    BY <2>3, <2>4, <2>5
<1>9. FreeIsBlank(objs2) /\ FileStays(objs2)
  BY <1>1, <1>3, <1>4, ZeroNotObj DEF Sound, FreeIsBlank, FileStays
<1>10. RefsSet(objs2, gone)
  <2> SUFFICES ASSUME NEW x \in Obj \ gone, objs2[x].next # 0,
                      objs2[objs2[x].next].type = "shadow"
               PROVE  objs2[objs2[x].next].ref1 # 0 /\ objs2[objs2[x].next].ref2 # 0
    BY DEF RefsSet
  <2>1. CASE objs2[x].next = o
    BY <1>3, <2>1
  <2>2. CASE objs2[x].next # o
    <3>1. x \notin {s1, s2}
      BY <1>3, <1>4, <2>2
    <3>2. objs2[x].next = objs[x].next /\ objs2[x].next \in Obj
      BY <1>3, <3>1, CellOf DEF Obj, Sound
    <3>3. objs2[x].next \notin {s1, s2}
      BY <1>1, <3>2, Unreferenced
    <3> QED
      BY <1>3, <2>2, <3>2, <3>3 DEF Sound, RefsSet
  <2> QED
    BY <2>1, <2>2
<1>11. \A x \in gone : objs2[x].type # "free"
  BY <1>1, <1>3 DEF Sound
<1>12. Sound(objs2, gone, f2)
  BY <1>3, <1>8, <1>9, <1>10, <1>11, Reshaped DEF Sound
<1> QED
  BY <1>12 DEF objs2

\* An object with no references left that has given back its own.
LEMMA SoundFreed ==
    ASSUME NEW objs, NEW gone, NEW f, Sound(objs, gone, f), \A x \in Obj : f[x] \in Nat,
           NEW o \in gone, objs[o].refcount = 0, objs[o].type # "file"
    PROVE  Sound([objs EXCEPT ![o] = NoObject], gone \ {o}, f)
<1> DEFINE objs2 == [objs EXCEPT ![o] = NoObject]
           gone2 == gone \ {o}
<1>1. o \in Obj /\ o # File /\ gone \in SUBSET Obj
  BY ZeroNotObj DEF Sound, FileStays
<1>2. NoObject \in Cell(PageLists(objs)) /\ NoObject.type = "free"
      /\ NoObject.next = 0 /\ NoObject.refcount = 0
  BY NewCells
<1>3. objs2 \in Objects(PageLists(objs))
  BY <1>1, <1>2 DEF Sound, Objects
<1>4. objs2[o] = NoObject /\ \A x \in Obj \ {o} : objs2[x] = objs[x]
  BY <1>1 DEF Sound, Objects
<1> HIDE DEF objs2
<1>5. \A x \in Obj : Over(objs2, gone2, x) = Over(objs, gone, x)
  <2> TAKE x \in Obj
  <2>1. x # 0 /\ objs2[o].next = 0
    BY <1>2, <1>4, ZeroNotObj
  <2>2. \A y \in Obj \ {o} : objs2[y].next = objs[y].next
    BY <1>4
  <2> QED
    BY <2>1, <2>2 DEF Over
<1>6. Balanced(objs2, gone2, f)
  <2> SUFFICES ASSUME NEW x \in Obj
               PROVE  objs2[x].refcount = Cardinality(Over(objs2, gone2, x)) + f[x]
    BY DEF Balanced
  <2>1. objs2[x].refcount = objs[x].refcount
    BY <1>2, <1>4
  <2> HIDE DEF gone2
  <2> QED
    BY <1>5, <2>1 DEF Sound, Balanced
<1>7. FreeIsBlank(objs2) /\ FileStays(objs2)
  BY <1>1, <1>2, <1>4, ZeroNotObj DEF Sound, FreeIsBlank, FileStays
<1>8. RefsSet(objs2, gone2)
  <2> SUFFICES ASSUME NEW x \in Obj \ gone2, objs2[x].next # 0,
                      objs2[objs2[x].next].type = "shadow"
               PROVE  objs2[objs2[x].next].ref1 # 0 /\ objs2[objs2[x].next].ref2 # 0
    BY DEF RefsSet
  <2>1. x # o /\ x \notin gone
    BY <1>2, <1>4
  <2>2. objs2[x].next = objs[x].next /\ objs2[x].next \in Obj
    BY <1>4, <2>1, CellOf DEF Obj, Sound
  <2>3. objs2[x].next # o
    BY <1>2, <1>4
  <2> QED
    BY <1>4, <2>1, <2>2, <2>3 DEF Sound, RefsSet
<1>9. \A x \in gone2 : objs2[x].type # "free"
  BY <1>1, <1>4 DEF Sound
<1>10. gone2 \in SUBSET Obj
  BY <1>1
<1> HIDE DEF gone2
<1>11. Sound(objs2, gone2, f)
  BY <1>3, <1>6, <1>7, <1>8, <1>9, <1>10, Reshaped DEF Sound
<1> QED
  BY <1>11 DEF objs2, gone2

\* An object of a file has nothing below it that it could give back.
LEMMA SoundNoneBelow ==
    ASSUME NEW objs, NEW gone, NEW f, Sound(objs, gone, f), NEW o \in Obj,
           objs[o].next = 0, objs[o].type # "free", NEW gone2,
           gone2 = gone \ {o} \/ gone2 = gone \cup {o}
    PROVE  Sound(objs, gone2, f)
<1>1. gone \in SUBSET Obj /\ gone2 \in SUBSET Obj
  BY DEF Sound
<1>2. \A x \in Obj : Over(objs, gone2, x) = Over(objs, gone, x)
  BY ZeroNotObj DEF Over
<1>3. Balanced(objs, gone2, f)
  BY <1>2 DEF Sound, Balanced
<1>4. RefsSet(objs, gone2)
  BY DEF Sound, RefsSet
<1>5. \A x \in gone2 : objs[x].type # "free"
  BY DEF Sound
<1> QED
  BY <1>1, <1>3, <1>4, <1>5 DEF Sound

\* An object gives back its reference to the one below, for vm_object_free() to count.
LEMMA SoundGiven ==
    ASSUME NEW objs, NEW gone, NEW f, Sound(objs, gone, f), \A x \in Obj : f[x] \in Nat,
           NEW o \in Obj \ gone, objs[o].next # 0, objs[o].type # "free",
           NEW f2, f2[objs[o].next] = f[objs[o].next] + 1,
           \A x \in Obj \ {objs[o].next} : f2[x] = f[x]
    PROVE  Sound(objs, gone \cup {o}, f2)
<1> DEFINE gone2 == gone \cup {o}
           b == objs[o].next
<1>1. b \in Obj /\ gone2 \in SUBSET Obj
  BY CellOf DEF Sound, Obj
<1>2. Over(objs, gone, b) = Over(objs, gone2, b) \cup {o} /\ o \notin Over(objs, gone2, b)
  BY DEF Over
<1>3. \A x \in Obj \ {b} : Over(objs, gone2, x) = Over(objs, gone, x)
  BY DEF Over
<1> HIDE DEF gone2, b
<1>4. Cardinality(Over(objs, gone, b)) = Cardinality(Over(objs, gone2, b)) + 1
      /\ Cardinality(Over(objs, gone2, b)) \in Nat
  BY <1>2, CountMore, OverCount
<1>5. Balanced(objs, gone2, f2)
  <2> SUFFICES ASSUME NEW x \in Obj
               PROVE  objs[x].refcount = Cardinality(Over(objs, gone2, x)) + f2[x]
    BY DEF Balanced
  <2>1. objs[x].refcount = Cardinality(Over(objs, gone, x)) + f[x] /\ f[x] \in Nat
    BY DEF Sound, Balanced
  <2>2. CASE x = b
    <3>1. f2[x] = f[x] + 1
      BY <2>2 DEF b
    <3> QED
      BY <1>4, <2>1, <2>2, <3>1
  <2>3. CASE x # b
    <3>1. f2[x] = f[x]
      BY <2>3 DEF b
    <3> QED
      BY <1>3, <2>1, <2>3, <3>1
  <2> QED
    BY <2>2, <2>3
<1>6. RefsSet(objs, gone2)
  BY DEF Sound, RefsSet, gone2
<1>7. \A x \in gone2 : objs[x].type # "free"
  BY DEF Sound, gone2
<1>8. Sound(objs, gone2, f2)
  BY <1>1, <1>5, <1>6, <1>7 DEF Sound
<1> QED
  BY <1>8 DEF gone2

\* One reference less.
LEMMA SoundDetached ==
    ASSUME NEW objs, NEW gone, NEW f, Sound(objs, gone, f), \A x \in Obj : f[x] \in Nat,
           NEW o \in Obj, f[o] >= 1,
           NEW f2, f2[o] = f[o] - 1, \A x \in Obj \ {o} : f2[x] = f[x]
    PROVE  LET left == objs[o].refcount - 1
           IN  Sound([objs EXCEPT ![o].refcount = left], gone, f2) /\ left >= 0
<1> DEFINE left == objs[o].refcount - 1
           objs2 == [objs EXCEPT ![o].refcount = left]
<1>1. objs[o].type # "free" /\ objs[o].refcount >= 1 /\ objs[o].refcount \in Int
  BY ReferencedInUse, CellOf DEF Sound
<1>2. left \in Int /\ left >= 0
  BY <1>1
<1>3. objs2 \in Objects(PageLists(objs))
  BY <1>2 DEF Sound, Objects, Cell
<1>4. \A x \in Obj : /\ objs2[x].type = objs[x].type /\ objs2[x].next = objs[x].next
                     /\ objs2[x].ref1 = objs[x].ref1 /\ objs2[x].ref2 = objs[x].ref2
                     /\ objs2[x].refcount = IF x = o THEN left ELSE objs[x].refcount
  BY DEF Sound, Objects, Cell
<1> HIDE DEF objs2
<1>5. \A x \in Obj : Over(objs2, gone, x) = Over(objs, gone, x)
  BY <1>4 DEF Over
<1>6. Balanced(objs2, gone, f2)
  <2> SUFFICES ASSUME NEW x \in Obj
               PROVE  objs2[x].refcount = Cardinality(Over(objs2, gone, x)) + f2[x]
    BY DEF Balanced
  <2>1. objs[x].refcount = Cardinality(Over(objs, gone, x)) + f[x]
    BY DEF Sound, Balanced
  <2>2. Cardinality(Over(objs, gone, x)) \in Nat
    BY OverCount
  <2> QED
    BY <1>4, <1>5, <2>1, <2>2
<1>7. FreeIsBlank(objs2) /\ FileStays(objs2)
  BY <1>1, <1>4, ZeroNotObj DEF Sound, FreeIsBlank, FileStays
<1>8. RefsSet(objs2, gone)
  <2> SUFFICES ASSUME NEW x \in Obj \ gone, objs2[x].next # 0,
                      objs2[objs2[x].next].type = "shadow"
               PROVE  objs2[objs2[x].next].ref1 # 0 /\ objs2[objs2[x].next].ref2 # 0
    BY DEF RefsSet
  <2>1. objs2[x].next = objs[x].next /\ objs2[x].next \in Obj
    BY <1>4, CellOf DEF Obj, Sound
  <2> QED
    BY <1>4, <2>1 DEF Sound, RefsSet
<1>9. \A x \in gone : objs2[x].type # "free"
  BY <1>4 DEF Sound
<1>10. Sound(objs2, gone, f2)
  BY <1>3, <1>6, <1>7, <1>8, <1>9, Reshaped DEF Sound
<1> QED
  BY <1>2, <1>10 DEF objs2

\* A shadow object and the last one over it become one: the latter takes its place.
Merged(objs, sub, new, pages) ==
    LET bottom == objs[sub].next
    IN  [objs EXCEPT ![new].next = bottom, ![new].pages = pages,
                     ![bottom].ref1 = IF @ = sub THEN new ELSE @,
                     ![bottom].ref2 = IF @ = sub THEN new ELSE @,
                     ![sub] = NoObject]

\* vm_object_combine() takes an object out of the middle of a chain: what changes.
LEMMA MergedIs ==
    ASSUME NEW P, NEW objs \in Objects(P), <<>> \in P, NEW pages \in P,
           NEW sub \in Obj, NEW new \in Obj, sub # new, objs[sub].next # sub
    PROVE  LET objs2 == Merged(objs, sub, new, pages)
           IN  /\ objs2 \in Objects(P) /\ objs2[sub] = NoObject
               /\ objs2[new].next = objs[sub].next
               /\ \A x \in Obj \ {sub} :
                    /\ objs2[x].type = objs[x].type /\ objs2[x].refcount = objs[x].refcount
                    /\ x # new => objs2[x].next = objs[x].next
                    /\ objs[x].ref1 # 0 => objs2[x].ref1 # 0
                    /\ objs[x].ref2 # 0 => objs2[x].ref2 # 0
<1> DEFINE bottom == objs[sub].next
           a == [objs EXCEPT ![new].next = bottom]
           b == [a EXCEPT ![new].pages = pages]
           c == [b EXCEPT ![bottom].ref1 = IF @ = sub THEN new ELSE @]
           d == [c EXCEPT ![bottom].ref2 = IF @ = sub THEN new ELSE @]
           e == [d EXCEPT ![sub] = NoObject]
<1>1. Merged(objs, sub, new, pages) = e
  BY ZenonT(120) DEF Merged
<1>2. bottom \in 0..NObj /\ new # 0 /\ new \in 0..NObj /\ sub # 0
  BY ZeroNotObj DEF Objects, Cell
<1> HIDE DEF bottom
<1>3. /\ a \in Objects(P) /\ a[new].next = bottom
      /\ \A x \in Obj : /\ a[x].type = objs[x].type /\ a[x].refcount = objs[x].refcount
                        /\ x # new => a[x].next = objs[x].next
                        /\ a[x].ref1 = objs[x].ref1 /\ a[x].ref2 = objs[x].ref2
  BY <1>2 DEF Objects, Cell
<1> HIDE DEF a
<1>4. /\ b \in Objects(P)
      /\ \A x \in Obj : Alike(b[x], a[x])
  <2> DEFINE r == [a[new] EXCEPT !.pages = pages]
  <2>1. \A x \in Obj : a[x] \in Cell(P)
    BY <1>3 DEF Objects
  <2>2. r \in Cell(P) /\ Alike(r, a[new])
    BY <2>1 DEF Cell, Alike
  <2>3. b = [a EXCEPT ![new] = r]
    OBVIOUS
  <2> HIDE DEF b, r
  <2>4. b \in Objects(P) /\ b[new] = r /\ \A x \in Obj \ {new} : b[x] = a[x]
    BY <1>3, <2>2, <2>3 DEF Objects
  <2> QED
    BY <2>2, <2>4 DEF Alike
<1> HIDE DEF b
<1>5. /\ c \in Objects(P)
      /\ \A x \in Obj : /\ c[x].type = b[x].type /\ c[x].refcount = b[x].refcount
                        /\ c[x].next = b[x].next /\ c[x].ref2 = b[x].ref2
                        /\ b[x].ref1 # 0 => c[x].ref1 # 0
  <2>1. \A x \in Obj : b[x] \in Cell(P)
    BY <1>4 DEF Objects
  <2>2. ASSUME bottom \in Obj
        PROVE  LET r == [b[bottom] EXCEPT !.ref1 = IF @ = sub THEN new ELSE @]
               IN  /\ c = [b EXCEPT ![bottom] = r]
                   /\ r \in Cell(P) /\ r.type = b[bottom].type /\ r.refcount = b[bottom].refcount
                   /\ r.next = b[bottom].next /\ r.ref2 = b[bottom].ref2
                   /\ b[bottom].ref1 # 0 => r.ref1 # 0
    BY <1>2, <2>1, <2>2 DEF Cell
  <2>3. ASSUME bottom \notin Obj PROVE c = b
    BY <1>4, <2>3 DEF Objects
  <2> DEFINE r == [b[bottom] EXCEPT !.ref1 = IF @ = sub THEN new ELSE @]
  <2>4. CASE bottom \in Obj
    <3> HIDE DEF c, r
    <3>1. c = [b EXCEPT ![bottom] = r] /\ r \in Cell(P) /\ r.type = b[bottom].type /\ r.refcount = b[bottom].refcount
          /\ r.next = b[bottom].next /\ r.ref2 = b[bottom].ref2
          /\ (b[bottom].ref1 # 0 => r.ref1 # 0)
      BY <2>2, <2>4 DEF c, r
    <3>2. c \in Objects(P) /\ c[bottom] = r /\ \A x \in Obj \ {bottom} : c[x] = b[x]
      BY <1>4, <2>4, <3>1 DEF Objects
    <3> QED
      BY <3>1, <3>2
  <2> QED
    BY <1>4, <2>3, <2>4
<1> HIDE DEF c
<1>6. /\ d \in Objects(P)
      /\ \A x \in Obj : /\ d[x].type = c[x].type /\ d[x].refcount = c[x].refcount
                        /\ d[x].next = c[x].next /\ d[x].ref1 = c[x].ref1
                        /\ c[x].ref2 # 0 => d[x].ref2 # 0
  <2>1. \A x \in Obj : c[x] \in Cell(P)
    BY <1>5 DEF Objects
  <2>2. ASSUME bottom \in Obj
        PROVE  LET r == [c[bottom] EXCEPT !.ref2 = IF @ = sub THEN new ELSE @]
               IN  /\ d = [c EXCEPT ![bottom] = r]
                   /\ r \in Cell(P) /\ r.type = c[bottom].type /\ r.refcount = c[bottom].refcount
                   /\ r.next = c[bottom].next /\ r.ref1 = c[bottom].ref1
                   /\ c[bottom].ref2 # 0 => r.ref2 # 0
    BY <1>2, <2>1, <2>2 DEF Cell
  <2>3. ASSUME bottom \notin Obj PROVE d = c
    BY <1>5, <2>3 DEF Objects
  <2> DEFINE r == [c[bottom] EXCEPT !.ref2 = IF @ = sub THEN new ELSE @]
  <2>4. CASE bottom \in Obj
    <3> HIDE DEF d, r
    <3>1. d = [c EXCEPT ![bottom] = r] /\ r \in Cell(P) /\ r.type = c[bottom].type /\ r.refcount = c[bottom].refcount
          /\ r.next = c[bottom].next /\ r.ref1 = c[bottom].ref1
          /\ (c[bottom].ref2 # 0 => r.ref2 # 0)
      BY <2>2, <2>4 DEF d, r
    <3>2. d \in Objects(P) /\ d[bottom] = r /\ \A x \in Obj \ {bottom} : d[x] = c[x]
      BY <1>5, <2>4, <3>1 DEF Objects
    <3> QED
      BY <3>1, <3>2
  <2> QED
    BY <1>5, <2>3, <2>4
<1> HIDE DEF d
<1>7. NoObject \in Cell(P)
  BY ShadowIs
<1>8. e \in Objects(P) /\ e[sub] = NoObject /\ \A x \in Obj \ {sub} : e[x] = d[x]
  BY <1>6, <1>7 DEF Objects
<1> HIDE DEF e
<1>9. e[new].next = bottom
  BY <1>3, <1>4, <1>5, <1>6, <1>8 DEF Alike
<1>10. \A x \in Obj \ {sub} :
          /\ e[x].type = objs[x].type /\ e[x].refcount = objs[x].refcount
          /\ x # new => e[x].next = objs[x].next
          /\ objs[x].ref1 # 0 => e[x].ref1 # 0
          /\ objs[x].ref2 # 0 => e[x].ref2 # 0
  BY <1>3, <1>4, <1>5, <1>6, <1>8 DEF Alike
<1> QED
  BY <1>1, <1>8, <1>9, <1>10 DEF bottom

\* What vm_object_free() has found out when it calls vm_object_combine().
Mergeable(objs, gone, o, sub, new) ==
    /\ o \in Obj \ gone /\ new \in Obj \ gone /\ sub \in Obj \ gone
    /\ o # new /\ o # sub /\ new # sub /\ objs[o].next = sub /\ objs[new].next = sub
    /\ objs[o].type # "free" /\ objs[sub].type = "shadow" /\ objs[sub].refcount <= 2

\* The object taken out is referred to by the two around it only.
LEMMA MergeableIs ==
    ASSUME NEW objs, NEW gone, NEW f, Sound(objs, gone, f), \A x \in Obj : f[x] \in Nat,
           NEW o, NEW sub, NEW new, Mergeable(objs, gone, o, sub, new)
    PROVE  /\ objs[sub].next # sub /\ f[sub] = 0 /\ Over(objs, gone, sub) = {o, new}
           /\ Cardinality(Over(objs, gone, sub)) = 2
<1>0. /\ o \in Obj \ gone /\ new \in Obj \ gone /\ sub \in Obj \ gone
      /\ o # new /\ o # sub /\ new # sub /\ objs[o].next = sub /\ objs[new].next = sub
      /\ objs[o].type # "free" /\ objs[sub].type = "shadow" /\ objs[sub].refcount <= 2
  BY DEF Mergeable
<1> USE <1>0
<1> DEFINE bottom == objs[sub].next
<1>1. objs[sub].refcount = Cardinality(Over(objs, gone, sub)) + f[sub] /\ f[sub] \in Nat
  BY DEF Sound, Balanced
<1>2. {o, new} \subseteq Over(objs, gone, sub) /\ Cardinality({o, new}) = 2
  <2>1. IsFiniteSet({o}) /\ Cardinality({o}) = 1
    BY FS_Singleton
  <2>2. Cardinality({o} \cup {new}) = Cardinality({o}) + 1
    BY <2>1, CountMore
  <2>3. {o} \cup {new} = {o, new}
    OBVIOUS
  <2> QED
    BY <2>1, <2>2, <2>3 DEF Over
<1>3. Over(objs, gone, sub) = {o, new} /\ f[sub] = 0 /\ Cardinality(Over(objs, gone, sub)) = 2
  <2>1. Cardinality({o, new}) <= Cardinality(Over(objs, gone, sub))
    BY <1>2, OverCount, FS_Subset
  <2>2. Cardinality(Over(objs, gone, sub)) = 2 /\ f[sub] = 0
    BY <1>1, <1>2, <2>1, OverCount
  <2>3. {o, new} = Over(objs, gone, sub)
    BY <1>2, <2>2, OverCount, FS_Subset
  <2> QED
    BY <2>2, <2>3
<1>4. bottom # sub
  <2> SUFFICES ASSUME bottom = sub PROVE FALSE
    OBVIOUS
  <2>1. sub \in Over(objs, gone, sub)
    BY DEF Over
  <2> QED
    BY <1>3, <2>1
<1> QED
  BY <1>3, <1>4

\* vm_object_combine() leaves the counts exact.
LEMMA SoundMerged ==
    ASSUME NEW objs, NEW gone, NEW f, Sound(objs, gone, f), \A x \in Obj : f[x] \in Nat,
           NEW o, NEW sub, NEW new, Mergeable(objs, gone, o, sub, new), NEW pages
    PROVE  /\ Sound(Merged(objs, sub, new, pages), gone \cup {o}, f)
           /\ objs[sub].next # sub /\ f[sub] = 0 /\ Over(objs, gone, sub) = {o, new}
<1>0. /\ o \in Obj \ gone /\ new \in Obj \ gone /\ sub \in Obj \ gone
      /\ o # new /\ o # sub /\ new # sub /\ objs[o].next = sub /\ objs[new].next = sub
      /\ objs[o].type # "free" /\ objs[sub].type = "shadow" /\ objs[sub].refcount <= 2
  BY DEF Mergeable
<1> USE <1>0
<1> DEFINE objs2 == Merged(objs, sub, new, pages)
           gone2 == gone \cup {o}
           bottom == objs[sub].next
           P == PageLists(objs) \cup {pages}
<1>3. Over(objs, gone, sub) = {o, new} /\ f[sub] = 0 /\ bottom # sub
      /\ Cardinality(Over(objs, gone, sub)) = 2
  BY MergeableIs
<1>4. bottom # sub
  BY <1>3
<1>5. objs \in Objects(P) /\ <<>> \in P /\ pages \in P
  BY DEF Sound, Objects, Cell, PageLists
<1>6. /\ objs2 \in Objects(P) /\ objs2[sub] = NoObject /\ objs2[new].next = bottom
      /\ \A x \in Obj \ {sub} :
           /\ objs2[x].type = objs[x].type /\ objs2[x].refcount = objs[x].refcount
           /\ x # new => objs2[x].next = objs[x].next
           /\ objs[x].ref1 # 0 => objs2[x].ref1 # 0
           /\ objs[x].ref2 # 0 => objs2[x].ref2 # 0
  <2> HIDE DEF P
  <2> QED
    BY <1>4, <1>5, MergedIs
<1>7. NoObject.type = "free" /\ NoObject.next = 0 /\ NoObject.refcount = 0
  BY NewCells
<1>8. bottom \in 0..NObj /\ sub # 0
  BY CellOf, ZeroNotObj DEF Sound
<1>9. sub # File
  BY DEF Sound, FileStays
<1> HIDE DEF objs2, P
<1>10. /\ objs2[sub].next = 0 /\ objs2[new].next = bottom /\ objs2[o].next = sub
       /\ \A x \in Obj \ {sub, new} : objs2[x].next = objs[x].next
       /\ \A x \in Obj \ {sub, new, o} : x \notin gone => objs[x].next # sub
  BY <1>3, <1>6, <1>7 DEF Over
<1>11. Over(objs2, gone2, sub) = {}
  BY <1>3, <1>4, <1>8, <1>10 DEF Over
<1>12. \A x \in Obj \ {sub, bottom} : Over(objs2, gone2, x) = Over(objs, gone, x)
  <2> TAKE x \in Obj \ {sub, bottom}
  <2>1. x # 0
    BY ZeroNotObj
  <2> HIDE DEF bottom
  <2>2. objs[o].next # x /\ objs[new].next # x /\ objs[sub].next # x
        /\ objs2[sub].next # x /\ objs2[new].next # x
    BY <1>10, <2>1 DEF bottom
  <2> QED
    BY <1>10, <2>2 DEF Over
<1>13. ASSUME bottom # 0
       PROVE  /\ bottom \in Obj
              /\ Cardinality(Over(objs2, gone2, bottom)) = Cardinality(Over(objs, gone, bottom))
  <2> DEFINE T == Over(objs, gone, bottom) \ {sub}
  <2>1. bottom \in Obj
    BY <1>8, <1>13 DEF Obj
  <2>2. sub \in Over(objs, gone, bottom) /\ Over(objs, gone, bottom) = T \cup {sub}
    BY DEF Over
  <2>3. Over(objs2, gone2, bottom) = T \cup {new} /\ new \notin T
    <3> HIDE DEF bottom
    <3>1. objs[sub].next = bottom
      BY DEF bottom
    <3> QED
      BY <1>4, <1>10, <1>13, <3>1 DEF Over
  <2>4. IsFiniteSet(T)
    BY OverCount, FS_Subset
  <2> HIDE DEF T, bottom
  <2>5. sub \notin T
    BY DEF T
  <2> QED
    BY <2>1, <2>2, <2>3, <2>4, <2>5, CountMore
<1>14. Balanced(objs2, gone2, f)
  <2> SUFFICES ASSUME NEW x \in Obj
               PROVE  objs2[x].refcount = Cardinality(Over(objs2, gone2, x)) + f[x]
    BY DEF Balanced
  <2>1. objs[x].refcount = Cardinality(Over(objs, gone, x)) + f[x]
    BY DEF Sound, Balanced
  <2> HIDE DEF gone2, bottom
  <2>2. CASE x = sub
    <3>1. Cardinality(Over(objs2, gone2, sub)) = 0
      BY <1>11, FS_EmptySet
    <3> QED
      BY <1>3, <1>6, <1>7, <2>2, <3>1
  <2>3. CASE x = bottom /\ x # sub
    BY <1>6, <1>13, <2>1, <2>3, ZeroNotObj
  <2>4. CASE x \notin {sub, bottom}
    BY <1>6, <1>12, <2>1, <2>4
  <2> QED
    BY <2>2, <2>3, <2>4
<1>15. FreeIsBlank(objs2)
  <2> SUFFICES ASSUME NEW x \in Obj, objs2[x].type = "free"
               PROVE  objs2[x].next = 0 /\ objs2[x].refcount = 0
    BY DEF FreeIsBlank
  <2>1. CASE x = sub
    BY <1>6, <1>7, <2>1
  <2>2. CASE x # sub
    <3>1. objs[x].next = 0 /\ objs[x].refcount = 0
      BY <1>6, <2>2 DEF Sound, FreeIsBlank
    <3>2. x # new
      BY <3>1, <1>8
    <3> QED
      BY <1>6, <2>2, <3>1, <3>2
  <2> QED
    BY <2>1, <2>2
<1>16. FileStays(objs2)
  <2>1. objs[File].type = "file" /\ objs[File].next = 0
    BY DEF Sound, FileStays
  <2>2. File # new /\ File \in Obj
    BY <1>8, <2>1, ZeroNotObj
  <2>3. ASSUME NEW x \in Obj, objs2[x].type = "file" PROVE objs2[x].next = 0
    <3>1. x # sub
      BY <1>6, <1>7, <2>3
    <3>2. objs[x].next = 0
      BY <1>6, <2>3, <3>1 DEF Sound, FileStays
    <3>3. x # new
      BY <1>8, <3>2
    <3> QED
      BY <1>6, <3>1, <3>2, <3>3
  <2> QED
    BY <1>6, <1>9, <2>1, <2>2, <2>3 DEF FileStays
<1>17. RefsSet(objs2, gone2)
  <2> SUFFICES ASSUME NEW x \in Obj \ gone2, objs2[x].next # 0,
                      objs2[objs2[x].next].type = "shadow"
               PROVE  objs2[objs2[x].next].ref1 # 0 /\ objs2[objs2[x].next].ref2 # 0
    BY DEF RefsSet
  <2> HIDE DEF bottom
  <2>1. x # sub /\ objs2[x].next # sub
    BY <1>6, <1>7
  <2>2. PICK y \in Obj \ gone : objs[y].next = objs2[x].next
    <3>1. CASE x = new
      BY <1>6, <3>1 DEF bottom
    <3>2. CASE x # new
      BY <1>6, <2>1, <3>2
    <3> QED
      BY <3>1, <3>2
  <2>3. objs2[x].next \in Obj
    BY <2>2, CellOf DEF Obj, Sound
  <2>4. objs[objs2[x].next].type = "shadow"
    BY <1>6, <2>1, <2>3
  <2>5. objs[objs2[x].next].ref1 # 0 /\ objs[objs2[x].next].ref2 # 0
    BY <2>2, <2>4 DEF Sound, RefsSet
  <2> QED
    BY <1>6, <2>1, <2>3, <2>5
<1>18. gone2 \in SUBSET Obj /\ \A x \in gone2 : objs2[x].type # "free"
  <2>1. \A x \in gone : x \in Obj /\ x # sub /\ objs[x].type # "free"
    BY DEF Sound
  <2> QED
    BY <1>6, <2>1
<1> HIDE DEF gone2
<1>19. Sound(objs2, gone2, f)
  BY <1>6, <1>14, <1>15, <1>16, <1>17, <1>18, Reshaped DEF Sound
<1> QED
  BY <1>3, <1>4, <1>19 DEF objs2, gone2
-----------------------------------------------------------------------------
\* The uses of one process and those of the others.
LEMMA UsesCounted ==
    ASSUME NEW p, NEW chain \in Seq(Area), NEW t, t.todo \in Seq(Obj), NEW o
    PROVE  /\ IsFiniteSet(UsesOf(p, chain, t, o))
           /\ Cardinality(UsesOf(p, chain, t, o)) = Mine(chain, t, o)
           /\ Mine(chain, t, o) \in Nat
           /\ Times(Sources(chain), o) \in Nat /\ Times(t.todo, o) \in Nat
<1> DEFINE A == Hits(Sources(chain), o)
           B == Hits(t.todo, o)
           a == {<<p, "region", i>> : i \in A}
           b == {<<p, "todo", i>> : i \in B}
           c == IF t.at = "enter" /\ t.obj = o THEN {<<p, "now", 0>>} ELSE {}
<1>1. IsFiniteSet(A) /\ Cardinality(A) = Times(Sources(chain), o) /\ Times(Sources(chain), o) \in Nat
  BY SourcesOf, HitsFinite DEF Times
<1>2. IsFiniteSet(B) /\ Cardinality(B) = Times(t.todo, o) /\ Times(t.todo, o) \in Nat
  BY HitsFinite DEF Times
<1>3. IsFiniteSet(a) /\ Cardinality(a) = Cardinality(A)
  <2> DEFINE g == [i \in A |-> <<p, "region", i>>]
  <2> HIDE DEF A
  <2>1. g \in Bijection(A, a)
    BY DEF Bijection, Injection, Surjection, IsInjective
  <2> QED
    BY <1>1, <2>1, FS_Bijection DEF ExistsBijection
<1>4. IsFiniteSet(b) /\ Cardinality(b) = Cardinality(B)
  <2> DEFINE g == [i \in B |-> <<p, "todo", i>>]
  <2> HIDE DEF B
  <2>1. g \in Bijection(B, b)
    BY DEF Bijection, Injection, Surjection, IsInjective
  <2> QED
    BY <1>2, <2>1, FS_Bijection DEF ExistsBijection
<1>5. IsFiniteSet(c) /\ Cardinality(c) = Now(t, o)
  BY FS_Singleton, FS_EmptySet DEF Now
<1>6. a \cap b = {} /\ (a \cup b) \cap c = {}
  <2>1. \A x \in a : x[2] = "region"
    OBVIOUS
  <2>2. \A x \in b : x[2] = "todo"
    OBVIOUS
  <2>3. \A x \in c : x[2] = "now"
    OBVIOUS
  <2> HIDE DEF a, b, c
  <2> QED
    BY <2>1, <2>2, <2>3
<1>7. UsesOf(p, chain, t, o) = (a \cup b) \cup c
  BY DEF UsesOf
<1> HIDE DEF a, b, c, A, B
<1>8. IsFiniteSet(a \cup b) /\ Cardinality(a \cup b) = Cardinality(a) + Cardinality(b)
  <2>1. Cardinality(a \cup b) = Cardinality(a) + Cardinality(b) - Cardinality(a \cap b)
        /\ IsFiniteSet(a \cup b)
    BY <1>3, <1>4, FS_Union
  <2>2. Cardinality(a \cap b) = 0
    BY <1>6, FS_EmptySet
  <2> QED
    BY <1>1, <1>2, <1>3, <1>4, <2>1, <2>2
<1>9. Cardinality((a \cup b) \cup c)
        = Cardinality(a \cup b) + Cardinality(c) - Cardinality((a \cup b) \cap c)
      /\ IsFiniteSet((a \cup b) \cup c)
  BY <1>5, <1>8, FS_Union
<1>10. Now(t, o) \in Nat
  BY DEF Now
<1>11. Cardinality((a \cup b) \cap c) = 0
  BY <1>6, FS_EmptySet
<1> QED
  BY <1>1, <1>2, <1>3, <1>4, <1>5, <1>7, <1>8, <1>9, <1>10, <1>11 DEF Mine

\* The uses of different processes differ.
LEMMA UsesTagged ==
    ASSUME NEW p, NEW chain, NEW t, NEW o, NEW u \in UsesOf(p, chain, t, o)
    PROVE  u[1] = p
BY DEF UsesOf

\* Processes as far as their uses go.
Usable(rg, ops) == \A q \in Proc : rg[q] \in Seq(Area) /\ ops[q].todo \in Seq(Obj)

\* The uses of an object by some processes are finitely many.
LEMMA AllUsesFinite ==
    ASSUME NEW rg, NEW ops, Usable(rg, ops), NEW P \in SUBSET Proc, NEW o
    PROVE  IsFiniteSet(AllUses(rg, ops, P, o)) /\ UsesBy(rg, ops, P, o) \in Nat
<1> DEFINE F == {UsesOf(q, rg[q], ops[q], o) : q \in P}
<1>1. IsFiniteSet(P)
  BY VmAssumption, FS_Subset
<1>2. IsFiniteSet(F)
  <2> DEFINE g == [q \in P |-> UsesOf(q, rg[q], ops[q], o)]
  <2>1. g \in Surjection(P, F)
    BY DEF Surjection
  <2> HIDE DEF F, g
  <2> QED
    BY <1>1, <2>1, FS_Surjection
<1>3. \A S \in F : IsFiniteSet(S)
  BY UsesCounted DEF Usable
<1> HIDE DEF F
<1>4. IsFiniteSet(UNION F)
  BY <1>2, <1>3, FS_UNION
<1>5. AllUses(rg, ops, P, o) = UNION F
  BY DEF AllUses, F
<1> QED
  BY <1>4, <1>5, FS_CardinalityType DEF UsesBy

\* The uses of all are those of one and those of the others.
LEMMA UsesSplit ==
    ASSUME NEW rg, NEW ops, Usable(rg, ops), NEW P \in SUBSET Proc, NEW p \in P, NEW o
    PROVE  UsesBy(rg, ops, P, o) = Mine(rg[p], ops[p], o) + UsesBy(rg, ops, P \ {p}, o)
<1> DEFINE A == UsesOf(p, rg[p], ops[p], o)
           B == AllUses(rg, ops, P \ {p}, o)
<1>1. AllUses(rg, ops, P, o) = A \cup B
  BY DEF AllUses
<1>2. A \cap B = {}
  <2>1. \A u \in A : u[1] = p
    BY UsesTagged
  <2>2. \A u \in B : u[1] # p
    BY UsesTagged DEF AllUses
  <2> HIDE DEF A, B
  <2> QED
    BY <2>1, <2>2
<1>3. IsFiniteSet(A) /\ Cardinality(A) = Mine(rg[p], ops[p], o) /\ Cardinality(A) \in Nat
  BY UsesCounted DEF Usable
<1>4. IsFiniteSet(B) /\ Cardinality(B) \in Nat
  BY AllUsesFinite DEF UsesBy
<1> HIDE DEF A, B
<1>5. Cardinality(A \cup B) = Cardinality(A) + Cardinality(B) - Cardinality(A \cap B)
  BY <1>3, <1>4, FS_Union
<1>6. Cardinality(A \cap B) = 0
  BY <1>2, FS_EmptySet
<1> QED
  BY <1>1, <1>3, <1>4, <1>5, <1>6 DEF UsesBy, B

\* Uses depend on the regions and tasks of those processes only.
LEMMA UsesSame ==
    ASSUME NEW rg, NEW ops, NEW rg2, NEW ops2, NEW P, NEW o,
           \A q \in P : rg2[q] = rg[q] /\ ops2[q] = ops[q]
    PROVE  UsesBy(rg2, ops2, P, o) = UsesBy(rg, ops, P, o)
<1>1. \A q \in P : UsesOf(q, rg2[q], ops2[q], o) = UsesOf(q, rg[q], ops[q], o)
  OBVIOUS
<1>2. AllUses(rg2, ops2, P, o) = AllUses(rg, ops, P, o)
  BY <1>1 DEF AllUses
<1> QED
  BY <1>2 DEF UsesBy

\* What all have given back is what one has and what the others have.
LEMMA GoneSplit ==
    ASSUME NEW ops, NEW p \in Proc
    PROVE  GoneBy(ops, Proc) = GoneBy(ops, Proc \ {p}) \cup GaveBack(ops[p])
BY DEF GoneBy

\* What some have given back depends on their tasks only.
LEMMA GoneSame ==
    ASSUME NEW ops, NEW ops2, NEW P, \A q \in P : ops2[q] = ops[q]
    PROVE  GoneBy(ops2, P) = GoneBy(ops, P)
BY DEF GoneBy

\* What is freed, as a set.
LEMMA HeadAndTail ==
    ASSUME NEW T, NEW s \in Seq(T), s # <<>>
    PROVE  /\ Head(s) \in T /\ Tail(s) \in Seq(T) /\ ToSet(s) = {Head(s)} \cup ToSet(Tail(s))
           /\ Distinct(s) => Distinct(Tail(s)) /\ Head(s) \notin ToSet(Tail(s))
<1> DEFINE n == Len(s)
<1>1. n \in Nat /\ n >= 1 /\ DOMAIN s = 1..n /\ Head(s) = s[1] /\ Tail(s) \in Seq(T)
      /\ Len(Tail(s)) = n - 1 /\ DOMAIN Tail(s) = 1..(n - 1)
      /\ \A i \in 1..(n - 1) : Tail(s)[i] = s[i + 1]
  OBVIOUS
<1>2. s[1] \in T
  BY <1>1
<1> DEFINE t == Tail(s)
<1> HIDE DEF n, t
<1>3. ToSet(s) \subseteq {s[1]} \cup ToSet(t)
  <2> SUFFICES ASSUME NEW i \in 1..n PROVE s[i] \in {s[1]} \cup ToSet(t)
    BY <1>1 DEF ToSet
  <2>1. CASE i = 1
    BY <2>1
  <2>2. CASE i # 1
    <3>1. i - 1 \in 1..(n - 1) /\ (i - 1) + 1 = i
      BY <1>1, <2>2
    <3>2. t[i - 1] = s[i]
      BY <1>1, <3>1 DEF t
    <3> QED
      BY <1>1, <3>1, <3>2 DEF ToSet, t
  <2> QED
    BY <2>1, <2>2
<1>4. {s[1]} \cup ToSet(t) \subseteq ToSet(s)
  <2>1. \A i \in 1..(n - 1) : i + 1 \in 1..n
    BY <1>1
  <2> QED
    BY <1>1, <2>1 DEF ToSet, t
<1>5. ASSUME Distinct(s) PROVE Distinct(t) /\ s[1] \notin ToSet(t)
  <2>1. \A i \in 1..(n - 1) : i + 1 \in 1..n /\ i + 1 # 1 /\ 1 \in 1..n
    BY <1>1
  <2>2. \A i, j \in 1..(n - 1) : i + 1 = j + 1 => i = j
    BY <1>1
  <2> QED
    BY <1>1, <1>5, <2>1, <2>2 DEF Distinct, ToSet, t
<1> QED
  BY <1>1, <1>2, <1>3, <1>4, <1>5 DEF t

\* A sequence with an entry more at the front.
LEMMA OneInFront ==
    ASSUME NEW T, NEW s \in Seq(T), NEW e \in T
    PROVE  /\ <<e>> \o s \in Seq(T) /\ <<e>> \o s # <<>> /\ Head(<<e>> \o s) = e
           /\ Tail(<<e>> \o s) = s /\ ToSet(<<e>> \o s) = {e} \cup ToSet(s)
           /\ Distinct(s) /\ e \notin ToSet(s) => Distinct(<<e>> \o s)
<1> DEFINE t == <<e>> \o s
<1>1. t \in Seq(T) /\ t # <<>> /\ Head(t) = e /\ Tail(t) = s
  OBVIOUS
<1>2. Len(t) = Len(s) + 1 /\ Len(s) \in Nat /\ DOMAIN t = 1..Len(t) /\ DOMAIN s = 1..Len(s)
      /\ t[1] = e /\ \A i \in 1..Len(s) : t[i + 1] = s[i]
  OBVIOUS
<1>3. ASSUME Distinct(s), e \notin ToSet(s) PROVE Distinct(t)
  <2> SUFFICES ASSUME NEW i \in DOMAIN t, NEW j \in DOMAIN t, t[i] = t[j] PROVE i = j
    BY DEF Distinct
  <2>1. ASSUME NEW k \in DOMAIN t, k # 1
        PROVE  k - 1 \in DOMAIN s /\ t[k] = s[k - 1] /\ t[k] \in ToSet(s)
    <3>1. k - 1 \in 1..Len(s) /\ (k - 1) + 1 = k
      BY <1>2, <2>1
    <3> HIDE DEF t
    <3> QED
      BY <1>2, <3>1 DEF ToSet
  <2> HIDE DEF t
  <2>2. CASE i = 1 \/ j = 1
    BY <1>2, <1>3, <2>1, <2>2
  <2>3. CASE i # 1 /\ j # 1
    <3>1. i - 1 = j - 1
      BY <1>3, <2>1, <2>3 DEF Distinct
    <3> QED
      BY <1>2, <3>1
  <2> QED
    BY <2>2, <2>3
<1>4. ToSet(t) = {Head(t)} \cup ToSet(Tail(t))
  <2> HIDE DEF t
  <2> QED
    BY <1>1, HeadAndTail
<1> HIDE DEF t
<1> QED
  BY <1>1, <1>3, <1>4 DEF t
-----------------------------------------------------------------------------
\* A step of one process: what the others know stays true.
Counts(rg, ops, p) ==
    [o \in Obj |-> Mine(rg[p], ops[p], o) + UsesBy(rg, ops, Proc \ {p}, o)]

\* What the others have given back.
Rest(ops, p) == GoneBy(ops, Proc \ {p})

\* The invariant types the chains and tasks.
LEMMA HoldsUsable ==
    ASSUME NEW objs, NEW rg, NEW ops, NEW locked, Holds(objs, rg, ops, locked)
    PROVE  /\ Usable(rg, ops)
           /\ \A q \in Proc : /\ rg[q] \in Seq(Area) /\ ops[q] \in Tasks(ops[q])
                              /\ ops[q].todo \in Seq(Obj) /\ ops[q].held \in Seq(Obj)
BY DEF Holds, Usable, Process, TaskSound, Tasks

\* The invariant seen from one process: its uses and those of the others.
LEMMA HoldsFor ==
    ASSUME NEW objs, NEW rg, NEW ops, NEW locked, Holds(objs, rg, ops, locked), NEW p \in Proc
    PROVE  /\ \A o \in Obj : /\ Counts(rg, ops, p)[o]
                                    = Mine(rg[p], ops[p], o) + UsesBy(rg, ops, Proc \ {p}, o)
                             /\ Counts(rg, ops, p)[o] \in Nat
                             /\ Mine(rg[p], ops[p], o) \in Nat
                             /\ UsesBy(rg, ops, Proc \ {p}, o) \in Nat
           /\ GoneBy(ops, Proc) = Rest(ops, p) \cup GaveBack(ops[p])
           /\ Sound(objs, GoneBy(ops, Proc), Counts(rg, ops, p))
<1>1. Usable(rg, ops)
  BY HoldsUsable
<1>2. ASSUME NEW o \in Obj
      PROVE  /\ Counts(rg, ops, p)[o] = UsesBy(rg, ops, Proc, o)
             /\ Counts(rg, ops, p)[o]
                  = Mine(rg[p], ops[p], o) + UsesBy(rg, ops, Proc \ {p}, o)
             /\ Counts(rg, ops, p)[o] \in Nat
             /\ Mine(rg[p], ops[p], o) \in Nat
             /\ UsesBy(rg, ops, Proc \ {p}, o) \in Nat
  <2>1. UsesBy(rg, ops, Proc \ {p}, o) \in Nat
    BY <1>1, AllUsesFinite
  <2>2. Mine(rg[p], ops[p], o) \in Nat
    BY <1>1, UsesCounted DEF Usable
  <2>3. UsesBy(rg, ops, Proc, o) = Mine(rg[p], ops[p], o) + UsesBy(rg, ops, Proc \ {p}, o)
    BY <1>1, UsesSplit
  <2>4. Counts(rg, ops, p)[o] = Mine(rg[p], ops[p], o) + UsesBy(rg, ops, Proc \ {p}, o)
    BY DEF Counts
  <2> QED
    BY <2>1, <2>2, <2>3, <2>4
<1>3. [o \in Obj |-> UsesBy(rg, ops, Proc, o)] = [o \in Obj |-> Counts(rg, ops, p)[o]]
  BY <1>2
<1>4. [o \in Obj |-> Counts(rg, ops, p)[o]] = Counts(rg, ops, p)
  BY DEF Counts
<1>5. GoneBy(ops, Proc) = Rest(ops, p) \cup GaveBack(ops[p])
  BY GoneSplit DEF Rest
<1> QED
  BY <1>2, <1>3, <1>4, <1>5 DEF Holds

\* The objects that a process frees are its own, and it gave back references of those
\* only.
LEMMA GaveBackHeld ==
    ASSUME NEW t, t.held \in Seq(Obj), t.at \in Deciding => t.held # <<>>
    PROVE  GaveBack(t) \subseteq ToSet(t.held) /\ ToSet(t.held) \subseteq Obj
<1>1. ToSet(t.held) \subseteq Obj
  BY DEF ToSet
<1>2. t.at \in Deciding => ToSet(Tail(t.held)) \subseteq ToSet(t.held)
  BY HeadAndTail
<1> QED
  BY <1>1, <1>2 DEF GaveBack

\* An object that has given back its reference is locked by the one who frees it.
LEMMA GoneLocked ==
    ASSUME NEW objs, NEW rg, NEW ops, NEW locked, Holds(objs, rg, ops, locked),
           NEW P \in SUBSET Proc, NEW o \in GoneBy(ops, P)
    PROVE  o \in Obj /\ locked[o] \in P
<1>1. PICK q \in P : o \in GaveBack(ops[q])
  BY DEF GoneBy
<1>2. ops[q].held \in Seq(Obj)
  BY HoldsUsable
<1>3. ops[q].at \in Deciding => ops[q].held # <<>>
  BY DEF Holds, Process, TaskSound
<1>4. o \in ToSet(ops[q].held) /\ o \in Obj
  BY <1>1, <1>2, <1>3, GaveBackHeld
<1>5. locked[o] = q
  BY <1>4 DEF Holds, Process, Locks
<1> QED
  BY <1>4, <1>5

\* Of the objects that are there: D may be freed, N put over others, and only S counted
\* anew.
Kept(objs, objs2, D, N, S) ==
    \A o \in Obj \ D :
        objs[o].type # "free" =>
          /\ objs2[o].type = objs[o].type
          /\ o \notin N => objs2[o].next = objs[o].next
          /\ o \notin S => objs2[o].refcount = objs[o].refcount

\* .. where no other process has locked D or N or refers to D, and only an object that p
\* shows, or the executable, counts more.
Undisturbed(objs, rg, ops, locked, p, objs2, locked2, D, N, S) ==
    /\ D \in SUBSET Obj /\ N \in SUBSET Obj /\ S \in SUBSET Obj
    /\ Kept(objs, objs2, D, N, S)
    /\ \A o \in D \cup N : locked[o] \notin Proc \ {p}
    /\ \A o \in D : /\ UsesBy(rg, ops, Proc \ {p}, o) = 0
                    /\ \A x \in Obj \ GoneBy(ops, Proc) :
                          objs[x].next = o => locked[x] \notin Proc \ {p}
    /\ \A o \in S : /\ o = File \/ Mine(rg[p], ops[p], o) >= 1
                    /\ \/ o = File \/ objs2[o].refcount <= objs[o].refcount
                       \/ \E i \in DOMAIN rg[p] : rg[p][i].src = o
    /\ \A o \in Obj : locked[o] \in Proc \ {p} => locked2[o] = locked[o]

\* What the invariant says of a process survives what another may do.
LEMMA OthersKept ==
    ASSUME NEW objs, NEW rg, NEW ops, NEW locked, Holds(objs, rg, ops, locked),
           NEW p \in Proc, NEW objs2, NEW locked2, NEW D, NEW N, NEW S,
           Undisturbed(objs, rg, ops, locked, p, objs2, locked2, D, N, S),
           \A o \in Obj : objs2[o].refcount \in Int
    PROVE  \A q \in Proc \ {p} : Process(q, objs2, rg[q], ops[q], locked2)
<1>0. /\ D \in SUBSET Obj /\ N \in SUBSET Obj /\ S \in SUBSET Obj
      /\ Kept(objs, objs2, D, N, S)
      /\ \A o \in D \cup N : locked[o] \notin Proc \ {p}
      /\ \A o \in D : /\ UsesBy(rg, ops, Proc \ {p}, o) = 0
                      /\ \A x \in Obj \ GoneBy(ops, Proc) :
                            objs[x].next = o => locked[x] \notin Proc \ {p}
      /\ \A o \in S : /\ o = File \/ Mine(rg[p], ops[p], o) >= 1
                      /\ \/ o = File \/ objs2[o].refcount <= objs[o].refcount
                         \/ \E i \in DOMAIN rg[p] : rg[p][i].src = o
      /\ \A o \in Obj : locked[o] \in Proc \ {p} => locked2[o] = locked[o]
  BY DEF Undisturbed
<1> USE <1>0
<1> SUFFICES ASSUME NEW q \in Proc, q # p
             PROVE  Process(q, objs2, rg[q], ops[q], locked2)
  OBVIOUS
<1> DEFINE t == ops[q]
           chain == rg[q]
           f == Counts(rg, ops, q)
           gone == GoneBy(ops, Proc)
<1>1. /\ \A o \in Obj : /\ f[o] = Mine(chain, t, o) + UsesBy(rg, ops, Proc \ {q}, o)
                        /\ f[o] \in Nat /\ Mine(chain, t, o) \in Nat
                        /\ UsesBy(rg, ops, Proc \ {q}, o) \in Nat
      /\ Sound(objs, gone, f)
  <2>1. \A o \in Obj : /\ Counts(rg, ops, q)[o]
                              = Mine(rg[q], ops[q], o) + UsesBy(rg, ops, Proc \ {q}, o)
                       /\ Counts(rg, ops, q)[o] \in Nat
                       /\ Mine(rg[q], ops[q], o) \in Nat
                       /\ UsesBy(rg, ops, Proc \ {q}, o) \in Nat
    BY HoldsFor, Zenon
  <2>2. Sound(objs, GoneBy(ops, Proc), Counts(rg, ops, q))
    BY HoldsFor, Zenon
  <2> QED
    BY <2>1, <2>2
<1> HIDE DEF f, gone
<1>2. ASSUME NEW o \in Obj, Mine(rg[p], ops[p], o) >= 1
      PROVE  UsesBy(rg, ops, Proc \ {q}, o) >= 1 /\ f[o] >= 1
  <2>1. Usable(rg, ops)
    BY HoldsUsable
  <2>2. UsesBy(rg, ops, Proc \ {q}, o)
          = Mine(rg[p], ops[p], o) + UsesBy(rg, ops, (Proc \ {q}) \ {p}, o)
    BY <2>1, UsesSplit
  <2>3. UsesBy(rg, ops, (Proc \ {q}) \ {p}, o) \in Nat /\ Mine(rg[p], ops[p], o) \in Nat
    BY <2>1, AllUsesFinite, UsesCounted DEF Usable
  <2>4. f[o] = Mine(chain, t, o) + UsesBy(rg, ops, Proc \ {q}, o)
        /\ Mine(chain, t, o) \in Nat
    BY <1>1
  <2> HIDE DEF chain, t
  <2> QED
    BY <1>2, <2>2, <2>3, <2>4
<1>3. Process(q, objs, chain, t, locked) /\ t.held \in Seq(Obj) /\ chain \in Seq(Area)
      /\ t.todo \in Seq(Obj)
  BY HoldsUsable DEF Holds
<1>4. ASSUME NEW o \in Obj, f[o] >= 1
      PROVE  objs[o].type # "free" /\ objs[o].refcount >= 1
  BY <1>1, <1>4, ReferencedInUse
<1>5. ASSUME NEW o \in ToSet(t.held)
      PROVE  o \in Obj /\ locked[o] = q /\ locked2[o] = q /\ o \notin D \cup N
  <2>1. o \in Obj /\ locked[o] = q
    BY <1>3 DEF Process, Locks, ToSet
  <2> QED
    BY <2>1
<1>6. ASSUME NEW o \in ToSet(t.held)
      PROVE  /\ objs2[o].type = objs[o].type
             /\ objs[o].type = "file" \/ (objs[o].type # "free" /\ objs2[o].refcount = 0)
             /\ objs2[o].next = objs[o].next
  <2>1. objs[o].type = "file" \/ (objs[o].type # "free" /\ objs[o].refcount = 0)
    BY <1>3 DEF Process, FreesDead
  <2>2. objs2[o].type = objs[o].type /\ objs2[o].next = objs[o].next
        /\ (o \notin S => objs2[o].refcount = objs[o].refcount)
    BY <1>5, <2>1 DEF Kept
  <2>3. CASE objs[o].type # "file"
    <3>1. o # File
      BY <1>1, <2>3 DEF Sound, FileStays
    <3>2. o \notin S
      BY <1>2, <1>4, <1>5, <2>1, <2>3, <3>1
    <3> QED
      BY <2>1, <2>2, <2>3, <3>2
  <2> QED
    BY <2>1, <2>2, <2>3
<1>7. ASSUME t.at \in Locking
      PROVE  /\ t.obj = objs2[Head(t.held)].next /\ t.obj \in Obj
             /\ objs2[t.obj].type = "shadow" /\ objs2[t.obj].refcount <= 2
  <2> DEFINE h == Head(t.held)
             s == t.obj
  <2>1. t.held # <<>> /\ s \in Obj /\ s = objs[h].next /\ objs[s].type = "shadow"
        /\ objs[s].refcount <= 2 /\ Distinct(t.held) /\ t.at \in Deciding
    BY <1>3, <1>7 DEF Process, TaskSound, FreesDead, Locking, Deciding
  <2>2. h \in ToSet(t.held) /\ h \notin ToSet(Tail(t.held))
    BY <1>3, <2>1, HeadAndTail
  <2>3. objs2[h].next = s /\ h \in Obj /\ locked[h] = q
    BY <1>5, <1>6, <2>1, <2>2
  <2>4. h \notin gone
    <3>1. GaveBack(t) = ToSet(Tail(t.held))
      BY <2>1 DEF GaveBack
    <3>2. h \notin Rest(ops, q)
      <4> SUFFICES ASSUME h \in GoneBy(ops, Proc \ {q}) PROVE FALSE
        BY DEF Rest
      <4>1. locked[h] \in Proc \ {q}
        BY GoneLocked
      <4> QED
        BY <2>3, <4>1
    <3>3. gone = Rest(ops, q) \cup GaveBack(t)
      BY GoneSplit DEF Rest, gone
    <3> QED
      BY <2>2, <3>1, <3>2, <3>3
  <2>5. s \notin D
    BY <2>1, <2>3, <2>4 DEF gone
  <2>6. objs2[s].type = "shadow" /\ (s \notin S => objs2[s].refcount = objs[s].refcount)
    BY <2>1, <2>5 DEF Kept
  <2>7. ASSUME NEW i \in DOMAIN rg[p], rg[p][i].src = s PROVE FALSE
    <3> HIDE DEF s
    <3>1. objs[s].refcount = Mine(rg[p], ops[p], s)
      <4>1. ShadowsPrivate(objs, rg[p], ops[p])
        BY DEF Holds, Process
      <4> QED
        BY <2>1, <2>7, <4>1 DEF ShadowsPrivate
    <3>2. /\ Counts(rg, ops, p)[s] = Mine(rg[p], ops[p], s) + UsesBy(rg, ops, Proc \ {p}, s)
          /\ Mine(rg[p], ops[p], s) \in Nat /\ UsesBy(rg, ops, Proc \ {p}, s) \in Nat
      <4>1. \A o \in Obj : /\ Counts(rg, ops, p)[o]
                                = Mine(rg[p], ops[p], o) + UsesBy(rg, ops, Proc \ {p}, o)
                           /\ Counts(rg, ops, p)[o] \in Nat
                           /\ Mine(rg[p], ops[p], o) \in Nat
                           /\ UsesBy(rg, ops, Proc \ {p}, o) \in Nat
        BY HoldsFor, Zenon
      <4> QED
        BY <2>1, <4>1
    <3>3. Sound(objs, gone, Counts(rg, ops, p))
      BY HoldsFor DEF gone
    <3>4. objs[s].refcount = Cardinality(Over(objs, gone, s)) + Counts(rg, ops, p)[s]
      BY <2>1, <3>3 DEF Sound, Balanced
    <3>5. h \in Over(objs, gone, s)
      BY <2>1, <2>3, <2>4 DEF Over
    <3>6. Cardinality(Over(objs, gone, s)) >= 1 /\ Cardinality(Over(objs, gone, s)) \in Nat
      BY <3>5, OverCount
    <3> QED
      BY <3>1, <3>2, <3>4, <3>6
  <2>8. s # File
    BY <1>1, <2>1 DEF Sound, FileStays
  <2>9. objs2[s].refcount <= 2
    <3>1. CASE s \notin S
      BY <2>1, <2>6, <3>1
    <3>2. CASE s \in S
      <4>1. objs2[s].refcount <= objs[s].refcount
        BY <2>7, <2>8, <3>2
      <4>2. objs[s].refcount \in Int
        BY <1>1, <2>1, CellOf DEF Sound
      <4>3. objs2[s].refcount \in Int
        BY <2>1
      <4> QED
        BY <2>1, <4>1, <4>2, <4>3, SMTT(40)
    <3> QED
      BY <3>1, <3>2
  <2> QED
    BY <2>1, <2>3, <2>6, <2>9
<1>8. ASSUME t.at = "lock_sub" PROVE objs2[t.new].next = t.obj /\ locked2[t.new] = q
  <2>1. t.new \in Obj /\ objs[t.new].next = t.obj /\ locked[t.new] = q /\ t.obj \in Obj
    BY <1>3, <1>8 DEF Process, TaskSound, FreesDead, Locks, Locking
  <2>2. t.new \notin D \cup N /\ locked2[t.new] = q
    BY <2>1
  <2>3. objs[t.new].type # "free"
    BY <1>1, <2>1, ZeroNotObj DEF Sound, FreeIsBlank
  <2> QED
    BY <2>1, <2>2, <2>3 DEF Kept
<1>9. FreesDead(objs2, t)
  BY <1>6, <1>7, <1>8 DEF FreesDead
<1>10. Locks(q, t, locked2)
  BY <1>5, <1>8 DEF Locks
<1>11. ShadowsPrivate(objs2, chain, t)
  <2> SUFFICES ASSUME NEW i \in DOMAIN chain, objs2[chain[i].src].type = "shadow"
               PROVE  /\ chain[i].type # "ro"
                      /\ objs2[chain[i].src].refcount = Mine(chain, t, chain[i].src)
    BY DEF ShadowsPrivate
  <2> DEFINE s == chain[i].src
  <2>1. s \in Obj /\ Times(Sources(chain), s) >= 1
    <3>1. Sources(chain) \in Seq(Obj) /\ i \in DOMAIN Sources(chain) /\ Sources(chain)[i] = s
      BY <1>3, SourcesOf
    <3> HIDE DEF s
    <3> QED
      BY <3>1, TimesThere
  <2>2. Mine(chain, t, s) >= 1
    <3>1. Times(t.todo, s) \in Nat /\ Times(Sources(chain), s) \in Nat
      BY <1>3, UsesCounted
    <3> QED
      BY <2>1, <3>1 DEF Mine, Now
  <2>3. f[s] >= 1
    BY <1>1, <2>1, <2>2
  <2>4. objs[s].type # "free" /\ s \notin D
    <3>1. objs[s].type # "free"
      BY <1>4, <2>1, <2>3
    <3>2. ASSUME s \in D PROVE FALSE
      <4>1. UsesBy(rg, ops, Proc \ {p}, s) = 0
        BY <3>2
      <4>2. Usable(rg, ops)
        BY HoldsUsable
      <4>3. UsesBy(rg, ops, Proc \ {p}, s) = Mine(chain, t, s) + UsesBy(rg, ops, (Proc \ {p}) \ {q}, s)
        BY <4>2, UsesSplit
      <4>4. UsesBy(rg, ops, (Proc \ {p}) \ {q}, s) \in Nat
        BY <4>2, AllUsesFinite
      <4> QED
        BY <1>1, <2>1, <2>2, <4>1, <4>3, <4>4
    <3> QED
      BY <3>1, <3>2
  <2>5. objs[s].type = "shadow"
    BY <2>1, <2>4 DEF Kept
  <2>6. chain[i].type # "ro" /\ objs[s].refcount = Mine(chain, t, s)
    BY <1>3, <2>5 DEF Process, ShadowsPrivate
  <2>7. s \notin S
    <3> SUFFICES ASSUME s \in S PROVE FALSE
      OBVIOUS
    <3>1. s # File
      BY <1>1, <2>5 DEF Sound, FileStays
    <3>2. Mine(rg[p], ops[p], s) >= 1
      BY <3>1
    <3>3. UsesBy(rg, ops, Proc \ {q}, s) >= 1
      BY <1>2, <2>1, <3>2
    <3>4. objs[s].refcount = Cardinality(Over(objs, gone, s)) + f[s]
      BY <1>1, <2>1 DEF Sound, Balanced
    <3>5. Cardinality(Over(objs, gone, s)) \in Nat
      BY OverCount
    <3>6. f[s] = Mine(chain, t, s) + UsesBy(rg, ops, Proc \ {q}, s)
          /\ Mine(chain, t, s) \in Nat /\ UsesBy(rg, ops, Proc \ {q}, s) \in Nat
      BY <1>1, <2>1
    <3> HIDE DEF s, chain, t
    <3> QED
      BY <2>6, <3>3, <3>4, <3>5, <3>6
  <2> QED
    BY <2>1, <2>4, <2>6, <2>7 DEF Kept
<1>12. TaskSound(t, chain)
  BY <1>3 DEF Process
<1> QED
  BY <1>3, <1>9, <1>10, <1>11, <1>12 DEF Process

\* The state after it.
LEMMA HoldsAfter ==
    ASSUME NEW objs, NEW rg, NEW ops, NEW locked, Holds(objs, rg, ops, locked),
           NEW p \in Proc, NEW objs2, NEW chain2, NEW t2, NEW locked2,
           locked2 = [o \in Obj |-> locked2[o]],
           \A q \in Proc \ {p} : Process(q, objs2, rg[q], ops[q], locked2),
           Process(p, objs2, chain2, t2, locked2),
           NEW f2, Sound(objs2, Rest(ops, p) \cup GaveBack(t2), f2),
           \A o \in Obj : f2[o] = Mine(chain2, t2, o) + UsesBy(rg, ops, Proc \ {p}, o)
    PROVE  Holds(objs2, [rg EXCEPT ![p] = chain2], [ops EXCEPT ![p] = t2], locked2)
<1> DEFINE rg2 == [rg EXCEPT ![p] = chain2]
           ops2 == [ops EXCEPT ![p] = t2]
           u == [o \in Obj |-> UsesBy(rg2, ops2, Proc, o)]
<1>1. rg2 \in [Proc -> Seq(Area)] /\ ops2 = [q \in Proc |-> ops2[q]]
  <2>1. chain2 \in Seq(Area)
    BY DEF Process
  <2> QED
    BY <2>1 DEF Holds
<1>2. rg2[p] = chain2 /\ ops2[p] = t2 /\ \A q \in Proc \ {p} : rg2[q] = rg[q] /\ ops2[q] = ops[q]
  BY DEF Holds
<1> HIDE DEF rg2, ops2
<1>3. \A q \in Proc : Process(q, objs2, rg2[q], ops2[q], locked2)
  BY <1>2
<1>4. Usable(rg2, ops2)
  <2>1. \A q \in Proc : rg2[q] \in Seq(Area) /\ ops2[q].todo \in Seq(Obj)
    BY <1>3 DEF Process, TaskSound, Tasks
  <2> QED
    BY <2>1 DEF Usable
<1>5. \A o \in Obj : u[o] = f2[o]
  <2> TAKE o \in Obj
  <2>1. u[o] = Mine(rg2[p], ops2[p], o) + UsesBy(rg2, ops2, Proc \ {p}, o)
    BY <1>4, UsesSplit
  <2>2. UsesBy(rg2, ops2, Proc \ {p}, o) = UsesBy(rg, ops, Proc \ {p}, o)
    BY <1>2, UsesSame
  <2> QED
    BY <1>2, <2>1, <2>2
<1>6. GoneBy(ops2, Proc) = Rest(ops, p) \cup GaveBack(t2)
  <2>1. GoneBy(ops2, Proc \ {p}) = GoneBy(ops, Proc \ {p})
    BY <1>2, GoneSame
  <2>2. GoneBy(ops2, Proc) = GoneBy(ops2, Proc \ {p}) \cup GaveBack(ops2[p])
    BY GoneSplit
  <2> QED
    BY <1>2, <2>1, <2>2 DEF Rest
<1> HIDE DEF u
<1>7. Sound(objs2, GoneBy(ops2, Proc), u)
  BY <1>5, <1>6 DEF Sound, Balanced
<1> QED
  BY <1>1, <1>3, <1>7 DEF Holds, rg2, ops2, u
-----------------------------------------------------------------------------
\* Other fields of a task.
Ats == Quiet \cup Deciding \cup {"enter", "leave"}

\* The parts of a task.
LEMMA TaskParts ==
    ASSUME NEW t, t \in Tasks(t)
    PROVE  /\ t.at \in Ats /\ t.new \in 0..NObj /\ t.todo \in Seq(Obj)
           /\ t.held \in Seq(Obj) /\ t.then \in {"user", "map", "exit"} /\ t.map \in Seq(Wanted)
BY DEF Tasks, Ats

\* A task of which one field changes, for each of its fields.
LEMMA AtChanged ==
    ASSUME NEW t, t \in Tasks(t), NEW a \in Ats, NEW t2, t2 = [t EXCEPT !.at = a]
    PROVE  /\ t2 \in Tasks(t2) /\ t2.at = a
           /\ t2.obj = t.obj /\ t2.new = t.new /\ t2.todo = t.todo /\ t2.held = t.held
           /\ t2.then = t.then /\ t2.map = t.map /\ t2.addr = t.addr
BY DEF Tasks, Ats

LEMMA ObjChanged ==
    ASSUME NEW t, t \in Tasks(t), NEW a, NEW t2, t2 = [t EXCEPT !.obj = a]
    PROVE  /\ t2 \in Tasks(t2) /\ t2.obj = a
           /\ t2.at = t.at /\ t2.new = t.new /\ t2.todo = t.todo /\ t2.held = t.held
           /\ t2.then = t.then /\ t2.map = t.map /\ t2.addr = t.addr
BY DEF Tasks, Ats

LEMMA NewChanged ==
    ASSUME NEW t, t \in Tasks(t), NEW a \in 0..NObj, NEW t2, t2 = [t EXCEPT !.new = a]
    PROVE  /\ t2 \in Tasks(t2) /\ t2.new = a
           /\ t2.at = t.at /\ t2.obj = t.obj /\ t2.todo = t.todo /\ t2.held = t.held
           /\ t2.then = t.then /\ t2.map = t.map /\ t2.addr = t.addr
BY DEF Tasks, Ats

LEMMA HeldChanged ==
    ASSUME NEW t, t \in Tasks(t), NEW a \in Seq(Obj), NEW t2, t2 = [t EXCEPT !.held = a]
    PROVE  /\ t2 \in Tasks(t2) /\ t2.held = a
           /\ t2.at = t.at /\ t2.obj = t.obj /\ t2.new = t.new /\ t2.todo = t.todo
           /\ t2.then = t.then /\ t2.map = t.map /\ t2.addr = t.addr
BY DEF Tasks, Ats

LEMMA TodoChanged ==
    ASSUME NEW t, t \in Tasks(t), NEW a \in Seq(Obj), NEW t2, t2 = [t EXCEPT !.todo = a]
    PROVE  /\ t2 \in Tasks(t2) /\ t2.todo = a
           /\ t2.at = t.at /\ t2.obj = t.obj /\ t2.new = t.new /\ t2.held = t.held
           /\ t2.then = t.then /\ t2.map = t.map /\ t2.addr = t.addr
BY DEF Tasks, Ats

LEMMA ThenChanged ==
    ASSUME NEW t, t \in Tasks(t), NEW a \in {"user", "map", "exit"}, NEW t2, t2 = [t EXCEPT !.then = a]
    PROVE  /\ t2 \in Tasks(t2) /\ t2.then = a
           /\ t2.at = t.at /\ t2.obj = t.obj /\ t2.new = t.new /\ t2.todo = t.todo
           /\ t2.held = t.held /\ t2.map = t.map /\ t2.addr = t.addr
BY DEF Tasks, Ats

LEMMA MapChanged ==
    ASSUME NEW t, t \in Tasks(t), NEW a \in Seq(Wanted), NEW t2, t2 = [t EXCEPT !.map = a]
    PROVE  /\ t2 \in Tasks(t2) /\ t2.map = a
           /\ t2.at = t.at /\ t2.obj = t.obj /\ t2.new = t.new /\ t2.todo = t.todo
           /\ t2.held = t.held /\ t2.then = t.then /\ t2.addr = t.addr
BY DEF Tasks, Ats

LEMMA AddrChanged ==
    ASSUME NEW t, t \in Tasks(t), NEW a, NEW t2, t2 = [t EXCEPT !.addr = a]
    PROVE  /\ t2 \in Tasks(t2) /\ t2.addr = a
           /\ t2.at = t.at /\ t2.obj = t.obj /\ t2.new = t.new /\ t2.todo = t.todo
           /\ t2.held = t.held /\ t2.then = t.then /\ t2.map = t.map
BY DEF Tasks, Ats

LEMMA WriteChanged ==
    ASSUME NEW t, t \in Tasks(t), NEW a, NEW t2, t2 = [t EXCEPT !.write = a]
    PROVE  /\ t2 \in Tasks(t2)
           /\ t2.at = t.at /\ t2.obj = t.obj /\ t2.new = t.new /\ t2.todo = t.todo
           /\ t2.held = t.held /\ t2.then = t.then /\ t2.map = t.map /\ t2.addr = t.addr
BY DEF Tasks, Ats

\* The tasks of a process in user mode and of an unused one.
LEMMA Users ==
    /\ User \in Tasks(User) /\ User.at = "user" /\ User.held = <<>> /\ User.todo = <<>>
    /\ User.map = <<>> /\ User.then = "user"
    /\ Unused \in Tasks(Unused) /\ Unused.at = "unused" /\ Unused.held = <<>>
    /\ Unused.todo = <<>> /\ Unused.map = <<>> /\ Unused.then = "user"
<1>1. /\ User \in Tasks(User) /\ User.at = "user" /\ User.held = <<>> /\ User.todo = <<>>
      /\ User.map = <<>> /\ User.then = "user"
  BY VmAssumption DEF User, Tasks, Quiet
<1>2. "unused" \in Ats
  BY DEF Ats, Quiet
<1>3. LET t == [User EXCEPT !.at = "unused"]
      IN  /\ t \in Tasks(t) /\ t.at = "unused" /\ t.todo = User.todo /\ t.held = User.held
          /\ t.then = User.then /\ t.map = User.map
  BY <1>1, <1>2, AtChanged
<1> QED
  BY <1>1, <1>3 DEF Unused

\* A step of one process p.
LEMMA OneStep ==
    ASSUME NEW objs, NEW rg, NEW ops, NEW locked, Holds(objs, rg, ops, locked),
           NEW p \in Proc, NEW objs2, NEW chain2, NEW t2, NEW locked2,
           locked2 = [o \in Obj |-> locked2[o]],
           NEW D, NEW N, NEW S,
           Undisturbed(objs, rg, ops, locked, p, objs2, locked2, D, N, S),
           Process(p, objs2, chain2, t2, locked2),
           NEW f2, Sound(objs2, Rest(ops, p) \cup GaveBack(t2), f2),
           \A o \in Obj : f2[o] = Mine(chain2, t2, o) + UsesBy(rg, ops, Proc \ {p}, o)
    PROVE  Holds(objs2, [rg EXCEPT ![p] = chain2], [ops EXCEPT ![p] = t2], locked2)
<1>1. \A o \in Obj : objs2[o].refcount \in Int
  BY CellOf DEF Sound
<1>2. \A q \in Proc \ {p} : Process(q, objs2, rg[q], ops[q], locked2)
  BY <1>1, OthersKept
<1> QED
  BY <1>2, HoldsAfter

\* No step of those that neither count nor free anything changes what is known.
LEMMA AlikeKept ==
    ASSUME NEW objs, NEW objs2, \A o \in Obj : Alike(objs[o], objs2[o])
    PROVE  Kept(objs, objs2, {}, {}, {})
BY DEF Kept, Alike

\* .. nor does it disturb the other processes.
LEMMA AlikeUndisturbed ==
    ASSUME NEW objs, NEW rg, NEW ops, NEW locked, NEW p, NEW objs2, NEW locked2,
           \A o \in Obj : Alike(objs[o], objs2[o]),
           \A o \in Obj : locked[o] \in Proc \ {p} => locked2[o] = locked[o]
    PROVE  Undisturbed(objs, rg, ops, locked, p, objs2, locked2, {}, {}, {})
BY AlikeKept DEF Undisturbed

\* The empty sequence has no members.
LEMMA EmptySet ==
    ASSUME NEW s, s = <<>>
    PROVE  ToSet(s) = {}
BY DEF ToSet

\* A process that frees nothing has given nothing back and has nothing left to give.
LEMMA QuietTask ==
    ASSUME NEW t, NEW chain, TaskSound(t, chain), t.at \in Quiet
    PROVE  /\ t.held = <<>> /\ t.todo = <<>> /\ GaveBack(t) = {}
           /\ t.at \notin Deciding \cup Locking \cup {"enter", "leave", "lock_sub"}
           /\ \A o : Now(t, o) = 0 /\ Times(t.todo, o) = 0
<1>1. t.held = <<>> /\ t.todo = <<>>
  BY DEF TaskSound
<1>2. t.at \notin Deciding \cup Locking \cup {"enter", "leave", "lock_sub"}
  BY DEF Deciding, Locking, Quiet, Searching
<1>3. GaveBack(t) = {}
  BY <1>1, <1>2, EmptySet DEF GaveBack
<1>4. \A o : Now(t, o) = 0 /\ Times(t.todo, o) = 0
  BY <1>1, <1>2, TimesNone DEF Now
<1> QED
  BY <1>1, <1>2, <1>3, <1>4

\* All that is to be known of such a process.
LEMMA QuietProcess ==
    ASSUME NEW p, NEW objs, NEW chain \in Seq(Area), NEW t, NEW locked, TaskSound(t, chain),
           t.at \in Quiet, ShadowsPrivate(objs, chain, t)
    PROVE  Process(p, objs, chain, t, locked)
<1>1. ToSet(t.held) = {}
  BY QuietTask, EmptySet
<1>2. t.at \notin Deciding \cup Locking \cup {"enter", "leave", "lock_sub"}
  BY QuietTask
<1> QED
  BY <1>1, <1>2 DEF Process, FreesDead, Locks

\* Its uses are its regions.
LEMMA QuietMine ==
    ASSUME NEW chain \in Seq(Area), NEW t, TaskSound(t, chain), t.at \in Quiet, NEW o
    PROVE  Mine(chain, t, o) = Times(Sources(chain), o) /\ Times(Sources(chain), o) \in Nat
<1>1. Now(t, o) = 0 /\ Times(t.todo, o) = 0
  BY QuietTask
<1>2. Times(Sources(chain), o) \in Nat
  BY SourcesOf, HitsFinite
<1> QED
  BY <1>1, <1>2 DEF Mine

\* From one such task to another, with the objects alike.
LEMMA QuietStep ==
    ASSUME NEW objs, NEW rg, NEW ops, NEW locked, Holds(objs, rg, ops, locked),
           NEW p \in Proc, ops[p].at \in Quiet,
           NEW objs2, objs2 \in Objects(PageLists(objs2)),
           \A o \in Obj : Alike(objs[o], objs2[o]),
           NEW t2, TaskSound(t2, rg[p]), t2.at \in Quiet
    PROVE  Holds(objs2, rg, [ops EXCEPT ![p] = t2], locked)
<1> DEFINE t == ops[p]
           f == Counts(rg, ops, p)
<1>1. Process(p, objs, rg[p], t, locked) /\ rg[p] \in Seq(Area)
  BY DEF Holds
<1>2. TaskSound(t, rg[p]) /\ ShadowsPrivate(objs, rg[p], t)
  BY <1>1 DEF Process
<1>3. GaveBack(t) = {} /\ GaveBack(t2) = {}
  BY <1>2, QuietTask
<1>4. \A o : Mine(rg[p], t2, o) = Mine(rg[p], t, o)
  BY <1>1, <1>2, QuietMine
<1>5. Sound(objs2, Rest(ops, p) \cup GaveBack(t2), f)
  <2>1. Sound(objs, GoneBy(ops, Proc), f)
    BY HoldsFor
  <2>2. GoneBy(ops, Proc) = Rest(ops, p) \cup GaveBack(t2)
    <3>1. GoneBy(ops, Proc) = Rest(ops, p) \cup GaveBack(ops[p])
      BY GoneSplit DEF Rest
    <3> QED
      BY <1>3, <3>1
  <2> HIDE DEF f
  <2> QED
    BY <2>1, <2>2, SoundAlike
<1>6. ShadowsPrivate(objs2, rg[p], t2)
  <2>1. \A i \in DOMAIN rg[p] : rg[p][i].src \in Obj
    BY <1>1, SrcIsObj
  <2> QED
    BY <1>2, <1>4, <2>1 DEF ShadowsPrivate, Alike
<1>7. Process(p, objs2, rg[p], t2, locked)
  BY <1>1, <1>6, QuietProcess
<1>8. Undisturbed(objs, rg, ops, locked, p, objs2, locked, {}, {}, {})
  BY AlikeUndisturbed
<1>9. \A o \in Obj : f[o] = Mine(rg[p], t2, o) + UsesBy(rg, ops, Proc \ {p}, o)
  BY <1>4, HoldsFor
<1>10. locked = [o \in Obj |-> locked[o]]
  BY DEF Holds
<1>11. [rg EXCEPT ![p] = rg[p]] = rg
  BY DEF Holds
<1> HIDE DEF f
<1>12. Holds(objs2, [rg EXCEPT ![p] = rg[p]], [ops EXCEPT ![p] = t2], locked)
  BY <1>5, <1>7, <1>8, <1>9, <1>10, OneStep
<1> QED
  BY <1>11, <1>12

-----------------------------------------------------------------------------
\* The steps of user mode and of a fault.
LEMMA UserSound ==
    ASSUME NEW chain
    PROVE  /\ TaskSound(User, chain) /\ User.at \in Quiet
           /\ chain = <<>> => TaskSound(Unused, chain) /\ Unused.at \in Quiet
<1>1. Distinct(<<>>)
  BY DEF Distinct
<1>2. "user" \in Quiet /\ "unused" \in Quiet
  BY DEF Quiet
<1>3. \A s \in {"user", "unused"} : s \notin Deciding \cup {"leave"} \cup {"enter"} \cup Locking \cup Searching
        /\ s # "freed" /\ s # "lock_sub"
  BY DEF Deciding, Locking, Searching
<1>4. /\ User \in Tasks(User) /\ User.at = "user" /\ User.held = <<>> /\ User.todo = <<>>
      /\ User.then = "user"
  BY Users
<1>5. /\ Unused \in Tasks(Unused) /\ Unused.at = "unused" /\ Unused.held = <<>>
      /\ Unused.todo = <<>> /\ Unused.then = "user"
  BY Users
<1>6. TaskSound(User, chain)
  BY <1>1, <1>3, <1>4 DEF TaskSound
<1>7. chain = <<>> => TaskSound(Unused, chain)
  BY <1>1, <1>3, <1>5 DEF TaskSound
<1> QED
  BY <1>2, <1>4, <1>5, <1>6, <1>7

\* What the invariant says of one process, conjunct by conjunct.
LEMMA HoldsParts ==
    ASSUME NEW objs, NEW rg, NEW ops, NEW locked, Holds(objs, rg, ops, locked), NEW p \in Proc
    PROVE  /\ objs \in Objects(PageLists(objs)) /\ \A o \in Obj : Alike(objs[o], objs[o])
           /\ rg[p] \in Seq(Area) /\ TaskSound(ops[p], rg[p]) /\ ops[p] \in Tasks(ops[p])
           /\ FreesDead(objs, ops[p]) /\ Locks(p, ops[p], locked)
           /\ ShadowsPrivate(objs, rg[p], ops[p])
           /\ rg = [rg EXCEPT ![p] = rg[p]] /\ ops = [ops EXCEPT ![p] = ops[p]]
           /\ locked = [o \in Obj |-> locked[o]]
<1>1. Process(p, objs, rg[p], ops[p], locked)
  BY DEF Holds
<1>2. /\ objs \in Objects(PageLists(objs))
      /\ rg = [rg EXCEPT ![p] = rg[p]] /\ ops = [ops EXCEPT ![p] = ops[p]]
      /\ locked = [o \in Obj |-> locked[o]]
  BY DEF Holds, Sound
<1>3. \A o \in Obj : Alike(objs[o], objs[o])
  BY DEF Alike
<1>4. ops[p] \in Tasks(ops[p])
  BY <1>1 DEF Process, TaskSound
<1> QED
  BY <1>1, <1>2, <1>3, <1>4 DEF Process

\* The invariant before and after a step.
InvNow == Holds(object, regions, op, olock)
InvNext == Holds(object', regions', op', olock')
GoesOn  == halt' = ""

\* A process that goes back to user mode with the objects, but for their pages, as they were.
LEMMA BackToUser ==
    ASSUME InvNow, NEW p \in Proc, op[p].at \in Quiet,
           object' \in Objects(PageLists(object')), \A o \in Obj : Alike(object[o], object'[o]),
           op' = [op EXCEPT ![p] = User], UNCHANGED <<regions, olock>>
    PROVE  InvNext
<1>1. TaskSound(User, regions[p]) /\ User.at \in Quiet
  BY UserSound
<1>2. Holds(object', regions, [op EXCEPT ![p] = User], olock)
  BY <1>1, QuietStep DEF InvNow
<1> QED
  BY <1>2 DEF InvNext

\* A write to a page that is mapped.
LEMMA WriteKeeps ==
    ASSUME InvNow, NEW p \in Proc, NEW a, NEW v, Write(p, a, v)
    PROVE  InvNext
BY DEF InvNow, InvNext, Write, locks

\* A segmentation fault.
LEMMA SegvKeeps ==
    ASSUME InvNow, NEW p \in Proc, Segv(p), GoesOn
    PROVE  InvNext
<1>1. op' = [op EXCEPT ![p] = User] /\ UNCHANGED <<object, regions, olock>>
  BY DEF Segv, Halt, memory, locks, GoesOn
<1>2. op[p].at \in Quiet
  BY DEF Segv, Quiet
<1> QED
  BY <1>1, <1>2, BackToUser, HoldsParts DEF InvNow

\* The entry of vm_fault().
LEMMA FaultKeeps ==
    ASSUME InvNow, NEW p \in Proc, NEW a, NEW write, Fault(p, a, write)
    PROVE  InvNext
<1> DEFINE t == op[p]
           chain == regions[p]
<1>0. /\ object \in Objects(PageLists(object)) /\ \A o \in Obj : Alike(object[o], object[o])
      /\ chain \in Seq(Area) /\ TaskSound(t, chain) /\ t \in Tasks(t)
      /\ op = [op EXCEPT ![p] = op[p]]
  BY HoldsParts DEF InvNow
<1>1. t = User /\ UNCHANGED <<object, regions, olock>>
  BY DEF Fault, memory
<1>2. User.at \in Quiet /\ User.at = "user" /\ TaskSound(User, chain)
  BY UserSound, Users
<1>3. SUFFICES \E t2 : op' = [op EXCEPT ![p] = t2] /\ TaskSound(t2, chain) /\ t2.at \in Quiet
  <2>1. PICK t2 : op' = [op EXCEPT ![p] = t2] /\ TaskSound(t2, chain) /\ t2.at \in Quiet
    BY <1>3
  <2>2. Holds(object, regions, [op EXCEPT ![p] = t2], olock)
    BY <1>0, <1>1, <1>2, <2>1, QuietStep DEF InvNow
  <2> QED
    BY <1>1, <2>1, <2>2 DEF InvNext
<1>4. CASE op' = [op EXCEPT ![p].at = "segv"]
  <2> DEFINE t2 == [t EXCEPT !.at = "segv"]
  <2>1. op' = [op EXCEPT ![p] = t2]
    BY <1>0, <1>4
  <2>2. "segv" \in Ats /\ "segv" \in Quiet /\ "segv" \notin Searching \cup Deciding \cup Locking
    BY DEF Ats, Quiet, Deciding, Searching, Locking
  <2>3. /\ t2 \in Tasks(t2) /\ t2.at = "segv" /\ t2.held = t.held /\ t2.todo = t.todo
        /\ t2.then = t.then
    BY <1>0, <2>2, AtChanged
  <2> HIDE DEF t2
  <2>4. TaskSound(t2, chain)
    BY <1>1, <1>2, <2>2, <2>3, Users DEF TaskSound
  <2> QED
    BY <2>1, <2>2, <2>3, <2>4
<1>5. ASSUME NEW b, NEW c, b \in Searching, RegionsAt(p, a) # {},
             op' = [op EXCEPT ![p].at = b, ![p].addr = a, ![p].write = write, ![p].obj = c]
      PROVE  \E t2 : op' = [op EXCEPT ![p] = t2] /\ TaskSound(t2, chain) /\ t2.at \in Quiet
  <2> DEFINE t2 == [t EXCEPT !.at = b]
             t3 == [t2 EXCEPT !.addr = a]
             t4 == [t3 EXCEPT !.write = write]
             t5 == [t4 EXCEPT !.obj = c]
  <2>1. op' = [op EXCEPT ![p] = t5]
    BY <1>0, <1>5
  <2> HIDE DEF t2, t3, t4, t5
  <2>2. b \in Ats /\ b \in Quiet /\ b \notin Deciding \cup Locking
        /\ b \notin {"unused", "freed", "enter", "leave", "lock_sub"}
    BY <1>5 DEF Ats, Quiet, Deciding, Searching, Locking
  <2>3. /\ t2 \in Tasks(t2) /\ t2.at = b /\ t2.held = t.held /\ t2.todo = t.todo
        /\ t2.then = t.then
    BY <1>0, <2>2, AtChanged DEF t2
  <2>4. /\ t3 \in Tasks(t3) /\ t3.at = b /\ t3.held = t.held /\ t3.todo = t.todo
        /\ t3.then = t.then /\ t3.addr = a
    BY <2>3, AddrChanged DEF t3
  <2>5. /\ t4 \in Tasks(t4) /\ t4.at = b /\ t4.held = t.held /\ t4.todo = t.todo
        /\ t4.then = t.then /\ t4.addr = a
    BY <2>4, WriteChanged DEF t4
  <2>6. /\ t5 \in Tasks(t5) /\ t5.at = b /\ t5.held = t.held /\ t5.todo = t.todo
        /\ t5.then = t.then /\ t5.addr = a
    BY <2>5, ObjChanged DEF t5
  <2>7. \E i \in DOMAIN chain : Covers(chain[i], a)
    BY <1>5 DEF RegionsAt
  <2>8. TaskSound(t5, chain)
    BY <1>1, <1>2, <2>2, <2>6, <2>7, Users DEF TaskSound
  <2> QED
    BY <2>1, <2>2, <2>6, <2>8
<1>6. \A o, nr : Searched(o, nr) \in Searching
  BY DEF Searched, Searching
<1> QED
  BY <1>4, <1>5, <1>6 DEF Fault

\* The search for the page along the shadow chain.
LEMMA SearchKeeps ==
    ASSUME InvNow, NEW p \in Proc, Search(p)
    PROVE  InvNext
<1> DEFINE t == op[p]
           chain == regions[p]
           c == object[t.obj].next
           b == Searched(c, PageOf(RegionAt(p, t.addr), t.addr))
           t2 == [t EXCEPT !.obj = c]
           t3 == [t2 EXCEPT !.at = b]
<1>1. /\ object \in Objects(PageLists(object)) /\ \A o \in Obj : Alike(object[o], object[o])
      /\ TaskSound(t, chain) /\ t \in Tasks(t) /\ op = [op EXCEPT ![p] = op[p]]
  BY HoldsParts DEF InvNow
<1>2. t.at = "search" /\ UNCHANGED <<object, regions, olock>>
  BY DEF Search, memory, locks
<1>3. op' = [op EXCEPT ![p] = t3]
  BY <1>1 DEF Search
<1>4. b \in Searching
  BY DEF Searched, Searching
<1>5. t.at \in Quiet /\ t.at \in Searching
  BY <1>2 DEF Quiet, Searching
<1> HIDE DEF t, c, b, t2, t3
<1>6. b \in Ats /\ b \in Quiet /\ b \notin Deciding \cup Locking
      /\ b \notin {"unused", "freed", "enter", "leave", "lock_sub"}
  BY <1>4 DEF Ats, Quiet, Deciding, Searching, Locking
<1>7. /\ t2 \in Tasks(t2) /\ t2.held = t.held /\ t2.todo = t.todo
      /\ t2.then = t.then /\ t2.addr = t.addr /\ t2.map = t.map
  BY <1>1, ObjChanged DEF t2
<1>8. /\ t3 \in Tasks(t3) /\ t3.at = b /\ t3.held = t.held /\ t3.todo = t.todo
      /\ t3.then = t.then /\ t3.addr = t.addr /\ t3.map = t.map
  BY <1>6, <1>7, AtChanged DEF t3
<1>9. TaskSound(t3, chain)
  BY <1>1, <1>5, <1>6, <1>8 DEF TaskSound
<1>10. t3.at \in Quiet /\ op[p].at \in Quiet
  BY <1>5, <1>6, <1>8 DEF t
<1>11. Holds(object, regions, [op EXCEPT ![p] = t3], olock)
  BY <1>1, <1>9, <1>10, QuietStep DEF InvNow
<1> QED
  BY <1>2, <1>3, <1>11 DEF InvNext

\* A page found is mapped as it is.
LEMMA MapFoundKeeps ==
    ASSUME InvNow, NEW p \in Proc, MapFound(p), GoesOn
    PROVE  InvNext
<1>1. ptable[p][op[p].addr].frame = 0
  BY DEF MapFound, Halt, GoesOn
<1>2. op' = [op EXCEPT ![p] = User] /\ UNCHANGED <<object, regions, olock>>
  BY <1>1 DEF MapFound, FaultDone
<1>3. op[p].at \in Quiet
  BY DEF MapFound, Quiet, Searching
<1> QED
  BY <1>2, <1>3, BackToUser, HoldsParts DEF InvNow

\* Pages that join the chain of an object change nothing else.
LEMMA PagesChanged ==
    ASSUME NEW objs, objs \in Objects(PageLists(objs)), NEW x, NEW pages, NEW objs2,
           objs2 = [objs EXCEPT ![x].pages = pages]
    PROVE  objs2 \in Objects(PageLists(objs2)) /\ \A o \in Obj : Alike(objs[o], objs2[o])
<1> DEFINE P == PageLists(objs) \cup {pages}
<1>1. objs \in Objects(P)
  BY DEF Objects, Cell
<1>2. \A o \in Obj : objs[o] \in Cell(P)
  BY <1>1 DEF Objects
<1>3. objs2 \in Objects(P)
  <2>1. CASE x \in Obj
    <3>1. [objs[x] EXCEPT !.pages = pages] \in Cell(P)
      BY <1>2, <2>1 DEF Cell
    <3> QED
      BY <1>1, <2>1, <3>1 DEF Objects
  <2>2. CASE x \notin Obj
    BY <1>1, <2>2 DEF Objects
  <2> QED
    BY <2>1, <2>2
<1>4. \A o \in Obj : Alike(objs[o], objs2[o])
  <2> TAKE o \in Obj
  <2>1. CASE o # x
    <3>1. objs2[o] = objs[o]
      BY <1>1, <2>1 DEF Objects
    <3> QED
      BY <3>1 DEF Alike
  <2>2. CASE o = x
    <3>1. objs2[o] = [objs[o] EXCEPT !.pages = pages]
      BY <1>1, <2>2 DEF Objects
    <3>2. objs[o] \in Cell(P)
      BY <1>2
    <3> QED
      BY <3>1, <3>2 DEF Alike, Cell
  <2> QED
    BY <2>1, <2>2
<1> QED
  BY <1>3, <1>4, Reshaped

\* A page is read, or filled with zeroes.
LEMMA PageinKeeps ==
    ASSUME InvNow, NEW p \in Proc, Pagein(p)
    PROVE  InvNext
<1> DEFINE r == RegionAt(p, op[p].addr)
           e == Entry(PageOf(r, op[p].addr), Min(SpareFrames))
           x == IF object[op[p].obj].type = "file" THEN op[p].obj ELSE r.src
<1>1. object' = [object EXCEPT ![x].pages = <<e>> \o @]
  BY DEF Pagein
<1>2. op' = [op EXCEPT ![p] = User] /\ UNCHANGED <<regions, olock>>
  BY DEF Pagein, FaultDone
<1>3. op[p].at \in Quiet
  BY DEF Pagein, Quiet, Searching
<1>4. object \in Objects(PageLists(object))
  BY HoldsParts DEF InvNow
<1> HIDE DEF x, e
<1>5. object' = [object EXCEPT ![x].pages = <<e>> \o object[x].pages]
  BY <1>1
<1>6. object' \in Objects(PageLists(object')) /\ \A o \in Obj : Alike(object[o], object'[o])
  BY <1>4, <1>5, PagesChanged
<1> QED
  BY <1>2, <1>3, <1>6, BackToUser

\* The least of some natural numbers is one of them.
LEMMA LeastIsIn ==
    ASSUME NEW S \in SUBSET Nat, S # {}
    PROVE  Min(S) \in S
<1>1. PICK m \in S : \A n \in S : m <= n
  BY LeastNatural
<1> QED
  BY <1>1 DEF Min

-----------------------------------------------------------------------------
\* A shadow object with the first page in it.
ShadowOf(o, pages) ==
    [NoObject EXCEPT !.type = "shadow", !.next = o, !.refcount = 1, !.pages = pages]

\* A new shadow object that has pages.
LEMMA ShadowWith ==
    ASSUME NEW o \in Obj, NEW pages, NEW new, new = ShadowOf(o, pages)
    PROVE  /\ new \in Cell({<<>>, pages}) /\ new.type = "shadow" /\ new.next = o
           /\ new.refcount = 1
<1> DEFINE P == {<<>>, pages}
           a == [NoObject EXCEPT !.type = "shadow"]
           b == [a EXCEPT !.next = o]
           c == [b EXCEPT !.refcount = 1]
           d == [c EXCEPT !.pages = pages]
<1>1. new = d
  BY DEF ShadowOf
<1>2. 0 \in 0..NObj /\ o \in 0..NObj /\ "shadow" \in Types /\ "free" \in Types
  BY VmAssumption, ZeroNotObj DEF Types
<1> HIDE DEF a, b, c, d, P
<1>3. NoObject \in Cell(P)
  BY <1>2 DEF NoObject, Cell, P
<1>4. a \in Cell(P) /\ a.type = "shadow"
  BY <1>2, <1>3 DEF a, Cell
<1>5. b \in Cell(P) /\ b.type = "shadow" /\ b.next = o
  BY <1>2, <1>4 DEF b, Cell
<1>6. c \in Cell(P) /\ c.type = "shadow" /\ c.next = o /\ c.refcount = 1
  BY <1>5 DEF c, Cell
<1>7. d \in Cell(P) /\ d.type = "shadow" /\ d.next = o /\ d.refcount = 1
  BY <1>6 DEF d, Cell, P
<1> QED
  BY <1>1, <1>7 DEF P

\* An object that a process shows.
LEMMA Shown ==
    ASSUME NEW chain \in Seq(Area), NEW t, t.todo \in Seq(Obj), NEW i \in DOMAIN chain
    PROVE  /\ chain[i].src \in Obj /\ Times(Sources(chain), chain[i].src) >= 1
           /\ Mine(chain, t, chain[i].src) >= 1
<1> DEFINE s == chain[i].src
<1>1. Sources(chain) \in Seq(Obj) /\ i \in DOMAIN Sources(chain) /\ Sources(chain)[i] = s
  BY SourcesOf
<1>2. s \in Obj
  BY SrcIsObj
<1> HIDE DEF s
<1>3. Times(Sources(chain), s) >= 1
  BY <1>1, TimesThere
<1>4. Times(t.todo, s) \in Nat /\ Times(Sources(chain), s) \in Nat
  BY UsesCounted
<1>5. Mine(chain, t, s) >= 1
  BY <1>3, <1>4 DEF Mine, Now
<1> QED
  BY <1>2, <1>3, <1>5 DEF s

\* A region that shows another object.
Showing(chain, i, s) == [chain EXCEPT ![i].src = s]

\* A region that shows another object than before.
LEMMA SourceReplaced ==
    ASSUME NEW chain \in Seq(Area), NEW i \in DOMAIN chain, NEW s \in Obj, NEW chain2,
           chain2 = Showing(chain, i, s)
    PROVE  /\ chain2 \in Seq(Area) /\ DOMAIN chain2 = DOMAIN chain
           /\ chain2[i].src = s /\ chain2[i].type = chain[i].type
           /\ \A j \in DOMAIN chain : j # i => chain2[j] = chain[j]
           /\ \A o : Times(Sources(chain2), o) + (IF chain[i].src = o THEN 1 ELSE 0)
                       = Times(Sources(chain), o) + (IF s = o THEN 1 ELSE 0)
<1> DEFINE r == chain[i]
           r2 == [r EXCEPT !.src = s]
<1>1. r \in Area
  OBVIOUS
<1>2. r2 \in Area /\ r2.src = s /\ r2.type = r.type
  BY <1>1 DEF Area
<1>3. chain2 = [chain EXCEPT ![i] = r2]
  BY DEF Showing
<1> HIDE DEF r2
<1>4. chain2 \in Seq(Area) /\ DOMAIN chain2 = DOMAIN chain /\ Len(chain2) = Len(chain)
  BY <1>2, <1>3
<1>5. chain2[i] = r2 /\ \A j \in DOMAIN chain : j # i => chain2[j] = chain[j]
  BY <1>3
<1>6. Sources(chain2) = [Sources(chain) EXCEPT ![i] = s]
  <2>1. \A j \in DOMAIN chain : chain2[j].src = IF j = i THEN s ELSE chain[j].src
    BY <1>2, <1>5
  <2> HIDE DEF r
  <2> QED
    BY <1>4, <2>1 DEF Sources
<1>7. Sources(chain) \in Seq(Obj) /\ i \in DOMAIN Sources(chain) /\ Sources(chain)[i] = r.src
  BY SourcesOf
<1>8. \A o : Times(Sources(chain2), o) + (IF r.src = o THEN 1 ELSE 0)
               = Times(Sources(chain), o) + (IF s = o THEN 1 ELSE 0)
  <2> DEFINE q == Sources(chain)
  <2> HIDE DEF q
  <2>1. \A o : Times([q EXCEPT ![i] = s], o) + (IF q[i] = o THEN 1 ELSE 0)
                 = Times(q, o) + (IF s = o THEN 1 ELSE 0)
    BY <1>7, TimesReplaced DEF q
  <2> QED
    BY <1>6, <1>7, <2>1 DEF q
<1> QED
  BY <1>2, <1>4, <1>5, <1>8

\* What is known of p's counts.
LEMMA CountsNow ==
    ASSUME InvNow, NEW p \in Proc
    PROVE  /\ \A o \in Obj : /\ Counts(regions, op, p)[o] = Mine(regions[p], op[p], o)
                                                           + UsesBy(regions, op, Proc \ {p}, o)
                             /\ Counts(regions, op, p)[o] \in Nat
                             /\ Mine(regions[p], op[p], o) \in Nat
                             /\ UsesBy(regions, op, Proc \ {p}, o) \in Nat
           /\ GoneBy(op, Proc) = Rest(op, p) \cup GaveBack(op[p])
           /\ Sound(object, GoneBy(op, Proc), Counts(regions, op, p))
<1>1. Holds(object, regions, op, olock)
  BY DEF InvNow
<1>2. \A o \in Obj : /\ Counts(regions, op, p)[o] = Mine(regions[p], op[p], o)
                                                    + UsesBy(regions, op, Proc \ {p}, o)
                     /\ Counts(regions, op, p)[o] \in Nat
                     /\ Mine(regions[p], op[p], o) \in Nat
                     /\ UsesBy(regions, op, Proc \ {p}, o) \in Nat
  BY <1>1, HoldsFor, Zenon
<1>3. Sound(object, GoneBy(op, Proc), Counts(regions, op, p))
  BY <1>1, HoldsFor, Zenon
<1> QED
  BY <1>2, <1>3, GoneSplit DEF Rest

\* A write to a page found below: the page is copied, into a new shadow object if the
\* region shows an object that is none.
LEMMA CopyPageKeeps ==
    ASSUME InvNow, NEW p \in Proc, CopyPage(p)
    PROVE  InvNext
<1> DEFINE t == op[p]
           chain == regions[p]
           i == Min(RegionsAt(p, op[p].addr))
           r == chain[i]
           e == Entry(PageOf(r, op[p].addr), Min(SpareFrames))
           s == Min(Spare(object))
           x == r.src
           new == ShadowOf(x, <<e>>)
           f == Counts(regions, op, p)
           gone == GoneBy(op, Proc)
<1>1. /\ object \in Objects(PageLists(object)) /\ chain \in Seq(Area) /\ TaskSound(t, chain)
      /\ ShadowsPrivate(object, chain, t) /\ olock = [o \in Obj |-> olock[o]]
      /\ t.todo \in Seq(Obj)
  BY HoldsParts, HoldsUsable DEF InvNow
<1>2. op' = [op EXCEPT ![p] = User] /\ UNCHANGED olock /\ r.type = "cow" /\ t.at = "found"
  BY DEF CopyPage, CopyNeeded, RegionAt
<1>3. t.at \in Quiet /\ t.at \in Searching
  BY <1>2 DEF Quiet, Searching
<1>4. i \in DOMAIN chain
  <2>1. RegionsAt(p, t.addr) # {}
    BY <1>1, <1>3 DEF TaskSound, RegionsAt
  <2>2. RegionsAt(p, t.addr) \subseteq DOMAIN chain /\ DOMAIN chain \subseteq Nat
    BY <1>1 DEF RegionsAt
  <2>3. i \in RegionsAt(p, t.addr)
    BY <2>1, <2>2, LeastIsIn
  <2> QED
    BY <2>2, <2>3
<1>5. CASE object[x].type = "shadow"
  <2>1. object' = [object EXCEPT ![x].pages = <<e>> \o @] /\ UNCHANGED regions
    BY <1>5 DEF CopyPage
  <2> HIDE DEF x, e
  <2>2. object' = [object EXCEPT ![x].pages = <<e>> \o object[x].pages]
    BY <2>1
  <2>3. object' \in Objects(PageLists(object')) /\ \A o \in Obj : Alike(object[o], object'[o])
    BY <1>1, <2>2, PagesChanged
  <2> QED
    BY <1>2, <1>3, <2>1, <2>3, BackToUser
<1>6. CASE object[x].type # "shadow"
  <2> DEFINE chain2 == Showing(chain, i, s)
             f2 == [o \in Obj |-> Mine(chain2, User, o) + UsesBy(regions, op, Proc \ {p}, o)]
  <2>1. /\ Spare(object) # {} /\ object' = [object EXCEPT ![s] = new]
        /\ regions' = [regions EXCEPT ![p][i].src = s]
    BY <1>6 DEF CopyPage, ShadowOf
  <2> HIDE DEF f, new, chain2, s, i, e, gone
  <2>2. regions' = [regions EXCEPT ![p] = chain2]
    BY <2>1 DEF chain2, Showing
  <2>3. s \in Spare(object) /\ s \in Obj /\ object[s].type = "free"
    <3>1. Spare(object) \subseteq Nat
      BY DEF Spare, Obj
    <3>2. s \in Spare(object)
      BY <2>1, <3>1, LeastIsIn DEF s
    <3> QED
      BY <3>2 DEF Spare
  <2>4. x \in Obj /\ Mine(chain, t, x) >= 1
    BY <1>1, <1>4, Shown
  <2> HIDE DEF x
  <2>5. new \in Cell({<<>>, <<e>>}) /\ new.type = "shadow" /\ new.next = x /\ new.refcount = 1
    <3>1. new = ShadowOf(x, <<e>>)
      BY DEF new
    <3> QED
      BY <2>4, <3>1, ShadowWith
  <2>6. /\ chain2 \in Seq(Area) /\ DOMAIN chain2 = DOMAIN chain
        /\ chain2[i].src = s /\ chain2[i].type = r.type
        /\ \A j \in DOMAIN chain : j # i => chain2[j] = chain[j]
        /\ \A o : Times(Sources(chain2), o) + (IF x = o THEN 1 ELSE 0)
                    = Times(Sources(chain), o) + (IF s = o THEN 1 ELSE 0)
    <3>1. chain2 = Showing(chain, i, s) /\ x = chain[i].src
      BY DEF chain2, x
    <3> HIDE DEF chain
    <3> QED
      BY <1>1, <1>4, <2>3, <3>1, SourceReplaced
  <2>7. /\ \A o \in Obj : /\ f[o] = Mine(chain, t, o) + UsesBy(regions, op, Proc \ {p}, o)
                          /\ f[o] \in Nat /\ Mine(chain, t, o) \in Nat
                          /\ UsesBy(regions, op, Proc \ {p}, o) \in Nat
    BY CountsNow DEF f
  <2>8. Sound(object, gone, f) /\ gone = Rest(op, p)
    <3>1. Sound(object, gone, f)
      BY CountsNow DEF f, gone
    <3>2. GaveBack(t) = {}
      BY <1>1, <1>3, QuietTask
    <3> QED
      BY <3>1, <3>2, GoneSplit DEF gone, Rest
  <2>9. object[x].type # "free"
    BY <2>4, <2>7, <2>8, ReferencedInUse
  <2>10. x # s
    BY <2>3, <2>9
  <2>11. \A o \in Obj : /\ f2[o] + (IF x = o THEN 1 ELSE 0) = f[o] + (IF s = o THEN 1 ELSE 0)
                        /\ f2[o] = Mine(chain2, User, o) + UsesBy(regions, op, Proc \ {p}, o)
                        /\ Mine(chain2, User, o) + (IF x = o THEN 1 ELSE 0)
                             = Mine(chain, t, o) + (IF s = o THEN 1 ELSE 0)
                        /\ f2[o] \in Nat /\ Mine(chain2, User, o) \in Nat
    <3> TAKE o \in Obj
    <3>1. Mine(chain2, User, o) = Times(Sources(chain2), o) /\ Times(Sources(chain2), o) \in Nat
      BY <2>6, UserSound, QuietMine
    <3>2. Mine(chain, t, o) = Times(Sources(chain), o) /\ Times(Sources(chain), o) \in Nat
      BY <1>1, <1>3, QuietMine
    <3>3. Times(Sources(chain2), o) + (IF x = o THEN 1 ELSE 0)
            = Times(Sources(chain), o) + (IF s = o THEN 1 ELSE 0)
      BY <2>6
    <3>4. f2[o] = Mine(chain2, User, o) + UsesBy(regions, op, Proc \ {p}, o)
      OBVIOUS
    <3>5. /\ f[o] = Mine(chain, t, o) + UsesBy(regions, op, Proc \ {p}, o)
          /\ f[o] \in Nat /\ Mine(chain, t, o) \in Nat
          /\ UsesBy(regions, op, Proc \ {p}, o) \in Nat
      BY <2>7
    <3> HIDE DEF f2, chain, t
    <3> QED
      BY <3>1, <3>2, <3>3, <3>4, <3>5
  <2> HIDE DEF f2
  <2>12. Sound(object', gone, f2)
    <3>1. f2[s] = f[s] + 1 /\ f2[x] = f[x] - 1 /\ \A o \in Obj \ {s, x} : f2[o] = f[o]
      BY <2>3, <2>4, <2>7, <2>10, <2>11
    <3>2. object[x].type \notin {"free", "shadow"}
      BY <1>6, <2>9 DEF x
    <3>3. Sound(object, gone, f) /\ \A o \in Obj : f[o] \in Nat
      BY <2>7, <2>8
    <3> HIDE DEF chain, t
    <3> QED
      <4>1. Sound([object EXCEPT ![s] = new], gone, f2)
        BY <2>3, <2>4, <2>5, <3>1, <3>2, <3>3, SoundOver
      <4> QED
        BY <2>1, <4>1
  <2>13. object'[s] = new /\ \A o \in Obj \ {s} : object'[o] = object[o]
    BY <1>1, <2>1, <2>3 DEF Objects
  <2>14. Undisturbed(object, regions, op, olock, p, object', olock, {}, {}, {})
    BY <2>3, <2>13 DEF Undisturbed, Kept
  <2>15. f[s] = 0
    <3>1. object[s].refcount = 0
      BY <2>3, <2>8 DEF Sound, FreeIsBlank
    <3> QED
      BY <2>3, <2>7, <2>8, <3>1, Unreferenced
  <2>16. Mine(chain2, User, s) = 1 /\ Mine(chain, t, s) = 0
    <3>1. Mine(chain, t, s) = 0
      BY <2>3, <2>7, <2>15
    <3> QED
      BY <2>3, <2>10, <2>11, <3>1
  <2>17. ShadowsPrivate(object', chain2, User)
    <3> SUFFICES ASSUME NEW j \in DOMAIN chain2, object'[chain2[j].src].type = "shadow"
                 PROVE  /\ chain2[j].type # "ro"
                        /\ object'[chain2[j].src].refcount = Mine(chain2, User, chain2[j].src)
      BY DEF ShadowsPrivate
    <3>1. CASE j = i
      BY <1>2, <2>5, <2>6, <2>13, <2>16, <3>1
    <3>2. CASE j # i
      <4> DEFINE y == chain[j].src
      <4>1. chain2[j] = chain[j] /\ y \in Obj /\ Mine(chain, t, y) >= 1
        BY <1>1, <2>6, <3>2, Shown
      <4>2. y # s
        BY <2>16, <4>1
      <4>3. object'[y] = object[y] /\ object[y].type = "shadow"
        BY <2>13, <4>1, <4>2
      <4>4. y # x
        BY <1>6, <4>3 DEF x
      <4>5. chain[j].type # "ro" /\ object[y].refcount = Mine(chain, t, y)
        BY <1>1, <2>6, <4>3 DEF ShadowsPrivate
      <4>6. Mine(chain2, User, y) = Mine(chain, t, y)
        <5> HIDE DEF y
        <5> QED
          BY <2>7, <2>11, <4>1, <4>2, <4>4
      <4> QED
        BY <4>1, <4>3, <4>5, <4>6
    <3> QED
      BY <3>1, <3>2
  <2>18. Process(p, object', chain2, User, olock) /\ GaveBack(User) = {}
    BY <2>6, <2>17, UserSound, QuietProcess, QuietTask
  <2>19. Holds(object', [regions EXCEPT ![p] = chain2], [op EXCEPT ![p] = User], olock)
    <3>1. Sound(object', Rest(op, p) \cup GaveBack(User), f2)
      BY <2>8, <2>12, <2>18
    <3>2. \A o \in Obj : f2[o] = Mine(chain2, User, o) + UsesBy(regions, op, Proc \ {p}, o)
      BY <2>11
    <3> QED
      BY <1>1, <2>14, <2>18, <3>1, <3>2, OneStep DEF InvNow
  <2> QED
    BY <1>2, <2>2, <2>19 DEF InvNext
<1> QED
  BY <1>5, <1>6

-----------------------------------------------------------------------------
\* vm_object_free(): what it goes on with.
FreeingAts == {"user", "unused", "freed", "enter"}

\* The steps of a task, told apart.
LEMMA NotDeciding ==
    /\ FreeingAts \cup {"leave"} \subseteq Ats
    /\ \A a \in FreeingAts \cup {"leave"} :
          a \notin Deciding \cup Locking \cup Searching \cup {"lock_sub"}
    /\ "leave" \notin Quiet /\ "enter" \notin Quiet
    /\ \A a \in FreeingAts : a # "leave" /\ (a # "enter" => a \in Quiet)
    /\ \A a \in Deciding : a \notin Quiet \cup {"enter", "leave"} /\ a \in Ats
BY DEF FreeingAts, Ats, Deciding, Locking, Searching, Quiet

\* The uses of a task that go on.
Coming(t, o) == Times(t.todo, o) + Now(t, o)

\* The task of a process that starts to free a list of objects.
LEMMA FreeingIs ==
    ASSUME NEW p, NEW chain, NEW todo \in Seq(Obj), NEW then \in {"user", "map", "exit"},
           NEW map \in Seq(Wanted), then = "map" => map # <<>>, then = "exit" => chain = <<>>
    PROVE  LET t2 == Freeing(p, todo, then, map)
           IN  /\ TaskSound(t2, chain) /\ t2.held = <<>> /\ t2.at \in FreeingAts
               /\ \A o : Coming(t2, o) = Times(todo, o)
<1> DEFINE t2 == Freeing(p, todo, then, map)
<1> HIDE DEF t2
<1> SUFFICES /\ TaskSound(t2, chain) /\ t2.held = <<>> /\ t2.at \in FreeingAts
             /\ \A o : Coming(t2, o) = Times(todo, o)
  BY DEF t2
<1>1. CASE todo = <<>> /\ then # "map"
  <2>1. t2 \in {User, Unused} /\ (t2 = Unused => chain = <<>>)
    <3>1. CASE then = "exit"
      BY <1>1, <3>1 DEF Freeing, t2
    <3>2. CASE then = "user"
      BY <1>1, <3>2, Users DEF Freeing, t2
    <3> QED
      BY <1>1, <3>1, <3>2
  <2>2. TaskSound(t2, chain) /\ t2.held = <<>> /\ t2.at \in FreeingAts /\ t2.at # "enter"
        /\ t2.todo = <<>>
    BY <2>1, UserSound, Users DEF FreeingAts
  <2>3. \A o : Coming(t2, o) = 0 /\ Times(todo, o) = 0
    BY <1>1, <2>2, TimesNone DEF Coming, Now
  <2> QED
    BY <2>2, <2>3
<1>2. CASE todo = <<>> /\ then = "map"
  <2> DEFINE a == [User EXCEPT !.at = "freed"]
             b == [a EXCEPT !.map = map]
  <2>1. t2 = b
    BY <1>2 DEF Freeing, t2
  <2> HIDE DEF a, b
  <2>2. "freed" \in Ats
    BY DEF Ats, Quiet
  <2>3. a \in Tasks(a) /\ a.at = "freed" /\ a.held = User.held /\ a.todo = User.todo
        /\ a.then = User.then
    BY <2>2, Users, AtChanged DEF a
  <2>4. b \in Tasks(b) /\ b.at = "freed" /\ b.held = <<>> /\ b.todo = <<>> /\ b.map = map
        /\ b.then = "user"
    BY <2>3, Users, MapChanged DEF b
  <2>5. Distinct(<<>>)
    BY DEF Distinct
  <2>6. "freed" \notin Deciding \cup {"leave"} \cup {"enter"} \cup Locking \cup Searching
    BY DEF Deciding, Locking, Searching
  <2>7. TaskSound(b, chain)
    BY <1>2, <2>4, <2>5, <2>6 DEF TaskSound
  <2>8. \A o : Coming(b, o) = 0 /\ Times(todo, o) = 0
    BY <1>2, <2>4, TimesNone DEF Coming, Now
  <2> QED
    BY <2>1, <2>4, <2>7, <2>8 DEF FreeingAts
<1>3. CASE todo # <<>>
  <2> DEFINE a == [User EXCEPT !.at = "enter"]
             head == Head(todo)
             tail == Tail(todo)
             b == [a EXCEPT !.obj = head]
             c == [b EXCEPT !.todo = tail]
             d == [c EXCEPT !.then = then]
             e == [d EXCEPT !.map = map]
  <2>1. t2 = e
    BY <1>3 DEF Freeing, t2
  <2> HIDE DEF a, b, c, d, e
  <2>2. "enter" \in Ats
    BY DEF Ats
  <2>3. Head(todo) \in Obj /\ Tail(todo) \in Seq(Obj)
    BY <1>3
  <2>12. head \in Obj /\ tail \in Seq(Obj) /\ head = Head(todo) /\ tail = Tail(todo)
    BY <2>3
  <2> HIDE DEF head, tail
  <2>4. a \in Tasks(a) /\ a.at = "enter" /\ a.held = <<>>
    BY <2>2, Users, AtChanged DEF a
  <2>5. b \in Tasks(b) /\ b.at = "enter" /\ b.held = <<>> /\ b.obj = head
    <3>1. b = [a EXCEPT !.obj = head]
      BY DEF b
    <3> QED
      BY <2>4, <3>1, ObjChanged
  <2>6. c \in Tasks(c) /\ c.at = "enter" /\ c.held = <<>> /\ c.obj = head
        /\ c.todo = tail
    <3>1. c = [b EXCEPT !.todo = tail]
      BY DEF c
    <3>2. tail \in Seq(Obj)
      BY <2>12
    <3> QED
      <4>1. /\ c \in Tasks(c) /\ c.todo = tail /\ c.at = b.at /\ c.obj = b.obj
            /\ c.held = b.held
        BY <2>5, <3>1, <3>2, TodoChanged
      <4> QED
        BY <2>5, <4>1
  <2>7. d \in Tasks(d) /\ d.at = "enter" /\ d.held = <<>> /\ d.obj = head
        /\ d.todo = tail /\ d.then = then
    BY <2>6, ThenChanged DEF d
  <2>8. e \in Tasks(e) /\ e.at = "enter" /\ e.held = <<>> /\ e.obj = head
        /\ e.todo = tail /\ e.then = then /\ e.map = map
    BY <2>7, MapChanged DEF e
  <2>9. Distinct(<<>>)
    BY DEF Distinct
  <2>10. TaskSound(e, chain)
    BY <2>12, <2>8, <2>9, NotDeciding DEF TaskSound, FreeingAts
  <2>11. \A o : Coming(e, o) = Times(todo, o)
    BY <1>3, <2>8, <2>12, TimesTail DEF Coming, Now
  <2> QED
    BY <2>1, <2>8, <2>10, <2>11 DEF FreeingAts
<1> QED
  BY <1>1, <1>2, <1>3

\* The task of a process that one call of vm_object_free() returns to.
LEMMA ReturnedIs ==
    ASSUME NEW p, NEW chain, TaskSound(op[p], chain), op[p].at \in Deciding \cup {"enter", "leave"},
           NEW held \in Seq(Obj), Distinct(held)
    PROVE  LET t2 == Returned(p, held)
           IN  /\ TaskSound(t2, chain) /\ t2.held = held /\ t2.at \in FreeingAts \cup {"leave"}
               /\ \A o : Coming(t2, o) = Times(op[p].todo, o)
               /\ GaveBack(t2) = ToSet(held) /\ t2.at \notin Locking
<1> DEFINE t2 == Returned(p, held)
<1> HIDE DEF t2
<1>0. SUFFICES /\ TaskSound(t2, chain) /\ t2.held = held /\ t2.at \in FreeingAts \cup {"leave"}
               /\ \A o : Coming(t2, o) = Times(op[p].todo, o)
  <2>1. t2.at \notin Deciding /\ t2.at \notin Locking
    BY <1>0, NotDeciding
  <2> QED
    BY <1>0, <2>1 DEF t2, GaveBack
<1> DEFINE t == op[p]
<1>1. /\ t \in Tasks(t) /\ t.todo \in Seq(Obj) /\ t.then \in {"user", "map", "exit"}
      /\ t.map \in Seq(Wanted) /\ (t.then = "map" => t.map # <<>>)
      /\ (t.then = "exit" => chain = <<>>)
  BY TaskParts DEF TaskSound
<1>2. CASE held # <<>>
  <2> DEFINE a == [t EXCEPT !.at = "leave"]
             b == [a EXCEPT !.held = held]
  <2>1. t2 = b
    BY <1>2 DEF Returned, t2
  <2> HIDE DEF a, b
  <2>2. "leave" \in Ats
    BY DEF Ats
  <2>3. a \in Tasks(a) /\ a.at = "leave" /\ a.todo = t.todo /\ a.then = t.then /\ a.map = t.map
    BY <1>1, <2>2, AtChanged DEF a
  <2>4. b \in Tasks(b) /\ b.at = "leave" /\ b.todo = t.todo /\ b.then = t.then /\ b.map = t.map
        /\ b.held = held
    BY <2>3, HeldChanged DEF b
  <2>5. TaskSound(b, chain)
    BY <1>1, <1>2, <2>4, NotDeciding DEF TaskSound
  <2>6. \A o : Now(b, o) = 0
    BY <2>4 DEF Now
  <2>7. \A o : Times(t.todo, o) \in Nat
    BY <1>1, HitsFinite
  <2>8. \A o : Coming(b, o) = Times(t.todo, o)
    BY <2>4, <2>6, <2>7 DEF Coming
  <2> QED
    BY <2>1, <2>4, <2>5, <2>8
<1>3. CASE held = <<>>
  <2>1. t2 = Freeing(p, t.todo, t.then, t.map)
    BY <1>3 DEF Returned, t2
  <2> HIDE DEF t
  <2>2. /\ TaskSound(t2, chain) /\ t2.held = <<>> /\ t2.at \in FreeingAts
        /\ \A o : Coming(t2, o) = Times(t.todo, o)
    <3>1. LET q == Freeing(p, t.todo, t.then, t.map)
          IN  /\ TaskSound(q, chain) /\ q.held = <<>> /\ q.at \in FreeingAts
              /\ \A o : Coming(q, o) = Times(t.todo, o)
      BY <1>1, FreeingIs, ZenonT(60)
    <3> QED
      BY <2>1, <3>1
  <2> QED
    BY <1>3, <2>2 DEF t
<1> QED
  BY <1>2, <1>3

\* The uses of a process are those of its chain and those it is still to give back.
LEMMA MineIs ==
    ASSUME NEW chain \in Seq(Area), NEW t, t.todo \in Seq(Obj), NEW o
    PROVE  /\ Mine(chain, t, o) = Times(Sources(chain), o) + Coming(t, o)
           /\ Times(Sources(chain), o) \in Nat /\ Coming(t, o) \in Nat
           /\ Times(t.todo, o) \in Nat
<1>1. Times(t.todo, o) \in Nat /\ Times(Sources(chain), o) \in Nat
  BY UsesCounted
<1>2. Now(t, o) \in Nat
  BY DEF Now
<1> QED
  BY <1>1, <1>2 DEF Mine, Coming

\* A process that does not combine: what it holds is dead and locked.
LEMMA FreeingProcess ==
    ASSUME NEW p, NEW objs, NEW chain \in Seq(Area), NEW t, NEW locked, TaskSound(t, chain),
           t.at \notin Locking \cup {"lock_sub"}, ShadowsPrivate(objs, chain, t),
           \A o \in ToSet(t.held) :
              /\ objs[o].type = "file" \/ (objs[o].type # "free" /\ objs[o].refcount = 0)
              /\ locked[o] = p
    PROVE  Process(p, objs, chain, t, locked)
BY DEF Process, FreesDead, Locks

\* A process p with chain as it was.
LEMMA ChainStays ==
    ASSUME InvNow, NEW p \in Proc, NEW t2, NEW D, NEW N, NEW S, NEW f2,
           olock' = [o \in Obj |-> olock'[o]],
           Undisturbed(object, regions, op, olock, p, object', olock', D, N, S),
           Process(p, object', regions[p], t2, olock'),
           Sound(object', Rest(op, p) \cup GaveBack(t2), f2),
           \A o \in Obj : f2[o] = Mine(regions[p], t2, o) + UsesBy(regions, op, Proc \ {p}, o),
           op' = [op EXCEPT ![p] = t2], regions' = regions
    PROVE  InvNext
<1>1. Holds(object, regions, op, olock) /\ regions = [regions EXCEPT ![p] = regions[p]]
  BY HoldsParts DEF InvNow
<1>2. Holds(object', [regions EXCEPT ![p] = regions[p]], [op EXCEPT ![p] = t2], olock')
  BY <1>1, OneStep
<1> QED
  BY <1>1, <1>2 DEF InvNext

\* Where the references are that others gave back.
LEMMA NotGone ==
    ASSUME InvNow, NEW p \in Proc, NEW o
    PROVE  /\ olock[o] \notin Proc \ {p} => o \notin Rest(op, p)
           /\ olock[o] \notin Proc => o \notin GoneBy(op, Proc)
BY GoneLocked DEF InvNow, Rest

\* What is known of p.
LEMMA PartsNow ==
    ASSUME InvNow, NEW p \in Proc
    PROVE  /\ object \in Objects(PageLists(object)) /\ \A o \in Obj : Alike(object[o], object[o])
           /\ regions[p] \in Seq(Area) /\ TaskSound(op[p], regions[p]) /\ op[p] \in Tasks(op[p])
           /\ FreesDead(object, op[p]) /\ Locks(p, op[p], olock)
           /\ ShadowsPrivate(object, regions[p], op[p])
           /\ regions = [regions EXCEPT ![p] = regions[p]] /\ op = [op EXCEPT ![p] = op[p]]
           /\ olock = [o \in Obj |-> olock[o]]
<1>1. Holds(object, regions, op, olock)
  BY DEF InvNow
<1> QED
  BY <1>1, HoldsParts

\* What p holds.
LEMMA HeldNow ==
    ASSUME InvNow, NEW p \in Proc
    PROVE  /\ op[p].held \in Seq(Obj) /\ op[p].todo \in Seq(Obj) /\ Distinct(op[p].held)
           /\ \A x \in ToSet(op[p].held) :
                 /\ x \in Obj /\ olock[x] = p /\ x \notin Rest(op, p)
                 /\ object[x].type = "file" \/ (object[x].type # "free" /\ object[x].refcount = 0)
<1>1. /\ TaskSound(op[p], regions[p]) /\ FreesDead(object, op[p]) /\ Locks(p, op[p], olock)
  BY HoldsParts DEF InvNow
<1>2. op[p].held \in Seq(Obj) /\ op[p].todo \in Seq(Obj) /\ Distinct(op[p].held)
  BY <1>1, TaskParts DEF TaskSound
<1>3. ASSUME NEW x \in ToSet(op[p].held)
      PROVE  /\ x \in Obj /\ olock[x] = p /\ x \notin Rest(op, p)
             /\ object[x].type = "file" \/ (object[x].type # "free" /\ object[x].refcount = 0)
  <2>1. x \in Obj
    BY <1>2 DEF ToSet
  <2>2. olock[x] = p
    BY <1>1 DEF Locks
  <2>3. x \notin Rest(op, p)
    BY <2>2, NotGone
  <2> QED
    BY <1>1, <2>1, <2>2, <2>3 DEF FreesDead
<1> QED
  BY <1>2, <1>3

\* vm_object_free() takes the reference away.
LEMMA EnterKeeps ==
    ASSUME InvNow, NEW p \in Proc, Enter(p)
    PROVE  InvNext
<1> DEFINE t == op[p]
           chain == regions[p]
           o == t.obj
           left == object[o].refcount - 1
           f == Counts(regions, op, p)
           gone == GoneBy(op, Proc)
<1>1. /\ object \in Objects(PageLists(object)) /\ chain \in Seq(Area) /\ TaskSound(t, chain)
      /\ ShadowsPrivate(object, chain, t)
      /\ olock = [x \in Obj |-> olock[x]] /\ op = [op EXCEPT ![p] = op[p]] /\ t \in Tasks(t)
  BY HoldsParts DEF InvNow
<1>2. /\ t.at = "enter" /\ olock[o] = Nobody /\ UNCHANGED regions
      /\ object' = [object EXCEPT ![o].refcount = left]
  BY DEF Enter
<1>3. /\ o \in Obj /\ t.held \in Seq(Obj) /\ t.todo \in Seq(Obj) /\ Distinct(t.held)
      /\ \A x \in ToSet(t.held) :
            /\ x \in Obj /\ olock[x] = p
            /\ object[x].type = "file" \/ (object[x].type # "free" /\ object[x].refcount = 0)
  <2>1. o \in Obj
    BY <1>1, <1>2 DEF TaskSound
  <2> QED
    BY <2>1, HeldNow
<1>4. o \notin ToSet(t.held) /\ Nobody \notin Proc
  BY <1>2, <1>3, VmAssumption
<1>5. GaveBack(t) = ToSet(t.held)
  BY <1>2 DEF GaveBack, Deciding
<1>6. /\ \A x \in Obj : /\ f[x] = Mine(chain, t, x) + UsesBy(regions, op, Proc \ {p}, x)
                        /\ f[x] \in Nat /\ Mine(chain, t, x) \in Nat
                        /\ UsesBy(regions, op, Proc \ {p}, x) \in Nat
      /\ gone = Rest(op, p) \cup GaveBack(t)
      /\ Sound(object, gone, f)
  BY CountsNow
<1> HIDE DEF f, gone, left, chain, t, o
<1>7. \A x : /\ Mine(chain, t, x) = Times(Sources(chain), x) + Coming(t, x)
             /\ Coming(t, x) = Times(t.todo, x) + (IF x = o THEN 1 ELSE 0)
             /\ Times(Sources(chain), x) \in Nat /\ Times(t.todo, x) \in Nat
  BY <1>1, <1>2, <1>3, MineIs DEF Coming, Now, o
<1>8. Mine(chain, t, o) >= 1 /\ f[o] >= 1
  BY <1>3, <1>6, <1>7
<1>9. object[o].type # "free" /\ object[o].refcount \in Nat /\ left \in Nat
      /\ left = object[o].refcount - 1
  <2>1. object[o].type # "free" /\ object[o].refcount >= 1
    BY <1>3, <1>6, <1>8, ReferencedInUse
  <2>2. object[o].refcount \in Int
    BY <1>1, <1>3, CellOf
  <2> QED
    BY <2>1, <2>2 DEF left
<1>10. /\ \A x \in Obj : object'[x].type = object[x].type /\ object'[x].next = object[x].next
       /\ object'[o].refcount = left
       /\ \A x \in Obj : x # o => object'[x].refcount = object[x].refcount
  BY <1>1, <1>2, <1>3 DEF Objects, Cell
<1>11. ASSUME NEW u, op' = [op EXCEPT ![p] = u], TaskSound(u, chain), u.at \notin Locking,
              \A x : Coming(u, x) = Times(t.todo, x), GaveBack(u) = ToSet(t.held),
              olock' = [x \in Obj |-> olock'[x]],
              \A x \in Obj : olock[x] \in Proc \ {p} => olock'[x] = olock[x],
              \A x \in ToSet(u.held) : olock'[x] = p /\ (x \in ToSet(t.held) \/ (x = o /\ left = 0))
       PROVE  InvNext
  <2> DEFINE f2 == [x \in Obj |-> Mine(chain, u, x) + UsesBy(regions, op, Proc \ {p}, x)]
  <2>1. u.todo \in Seq(Obj)
    BY <1>11, TaskParts DEF TaskSound
  <2>2. \A x \in Obj : /\ Mine(chain, u, x) + (IF x = o THEN 1 ELSE 0) = Mine(chain, t, x)
                       /\ Mine(chain, u, x) \in Nat
    <3> TAKE x \in Obj
    <3>1. Mine(chain, u, x) = Times(Sources(chain), x) + Coming(u, x) /\ Coming(u, x) \in Nat
      BY <1>1, <2>1, MineIs
    <3> QED
      BY <1>7, <1>11, <3>1
  <2>3. \A x \in Obj : f2[x] = Mine(chain, u, x) + UsesBy(regions, op, Proc \ {p}, x)
    OBVIOUS
  <2> HIDE DEF f2
  <2>4. f2[o] = f[o] - 1 /\ \A x \in Obj \ {o} : f2[x] = f[x]
    <3>1. \A x \in Obj : f2[x] + (IF x = o THEN 1 ELSE 0) = f[x] /\ f2[x] \in Nat /\ f[x] \in Nat
      <4> TAKE x \in Obj
      <4>1. /\ f[x] = Mine(chain, t, x) + UsesBy(regions, op, Proc \ {p}, x)
            /\ f[x] \in Nat /\ Mine(chain, t, x) \in Nat
            /\ UsesBy(regions, op, Proc \ {p}, x) \in Nat
        BY <1>6
      <4>2. f2[x] = Mine(chain, u, x) + UsesBy(regions, op, Proc \ {p}, x)
        BY <2>3
      <4>3. /\ Mine(chain, u, x) + (IF x = o THEN 1 ELSE 0) = Mine(chain, t, x)
            /\ Mine(chain, u, x) \in Nat
        BY <2>2
      <4> QED
        BY <4>1, <4>2, <4>3
    <3> QED
      BY <1>3, <3>1
  <2>5. Sound(object', Rest(op, p) \cup GaveBack(u), f2)
    <3>1. Sound([object EXCEPT ![o].refcount = object[o].refcount - 1], gone, f2)
      BY <1>3, <1>6, <1>8, <2>4, SoundDetached, ZenonT(60)
    <3> QED
      BY <1>2, <1>5, <1>6, <1>11, <3>1 DEF left
  <2>6. Undisturbed(object, regions, op, olock, p, object', olock', {}, {}, {o})
    <3>1. Kept(object, object', {}, {}, {o})
      BY <1>10 DEF Kept
    <3>2. object'[o].refcount <= object[o].refcount
      BY <1>9, <1>10
    <3>3. Mine(regions[p], op[p], o) >= 1
      BY <1>8 DEF chain, t
    <3> QED
      BY <1>3, <1>11, <3>1, <3>2, <3>3 DEF Undisturbed
  <2>7. ShadowsPrivate(object', chain, u)
    <3> SUFFICES ASSUME NEW i \in DOMAIN chain, object'[chain[i].src].type = "shadow"
                 PROVE  /\ chain[i].type # "ro"
                        /\ object'[chain[i].src].refcount = Mine(chain, u, chain[i].src)
      BY DEF ShadowsPrivate
    <3> DEFINE s == chain[i].src
    <3>1. s \in Obj
      BY <1>1, SrcIsObj
    <3>2. object[s].type = "shadow"
      BY <1>10, <3>1
    <3>3. chain[i].type # "ro" /\ object[s].refcount = Mine(chain, t, s)
      BY <1>1, <3>2 DEF ShadowsPrivate
    <3> HIDE DEF s
    <3>4. object'[s].refcount = Mine(chain, u, s)
      BY <1>6, <1>9, <1>10, <2>2, <3>1, <3>3
    <3> QED
      BY <3>3, <3>4 DEF s
  <2>8. Process(p, object', chain, u, olock')
    <3>1. \A x \in ToSet(u.held) :
              /\ object'[x].type = "file" \/ (object'[x].type # "free" /\ object'[x].refcount = 0)
              /\ olock'[x] = p
      BY <1>3, <1>4, <1>9, <1>10, <1>11
    <3>2. u.at \notin Locking \cup {"lock_sub"}
      BY <1>11 DEF Locking
    <3> QED
      BY <1>1, <1>11, <2>7, <3>1, <3>2, FreeingProcess
  <2> QED
    <3>1. regions' = regions /\ op' = [op EXCEPT ![p] = u] /\ olock' = [x \in Obj |-> olock'[x]]
      BY <1>2, <1>11
    <3>2. Process(p, object', regions[p], u, olock')
      BY <2>8 DEF chain
    <3>3. \A x \in Obj : f2[x] = Mine(regions[p], u, x) + UsesBy(regions, op, Proc \ {p}, x)
      BY <2>3 DEF chain
    <3> QED
      BY <2>5, <2>6, <3>1, <3>2, <3>3, ChainStays
<1>12. CASE left > 0
  <2> DEFINE u == Returned(p, t.held)
  <2>1. op' = [op EXCEPT ![p] = u] /\ olock' = olock
    BY <1>12 DEF Enter, left, o, t
  <2>2. /\ TaskSound(u, chain) /\ u.held = t.held /\ u.at \notin Locking
        /\ \A x : Coming(u, x) = Times(t.todo, x)
        /\ GaveBack(u) = ToSet(t.held)
    <3>1. TaskSound(op[p], chain) /\ op[p].at \in Deciding \cup {"enter", "leave"}
          /\ t.held \in Seq(Obj) /\ Distinct(t.held) /\ t = op[p]
      BY <1>1, <1>2, <1>3 DEF t
    <3>2. /\ TaskSound(u, chain) /\ u.held = t.held /\ u.at \notin Locking
          /\ \A x : Coming(u, x) = Times(op[p].todo, x)
          /\ GaveBack(u) = ToSet(t.held)
      BY <3>1, ReturnedIs
    <3> QED
      BY <3>1, <3>2
  <2> HIDE DEF u
  <2> QED
    BY <1>1, <1>3, <1>11, <2>1, <2>2
<1>13. CASE ~(left > 0)
  <2> DEFINE held == <<o>> \o t.held
             a == [t EXCEPT !.at = "decide"]
             u == [a EXCEPT !.held = held]
  <2>1. olock' = [olock EXCEPT ![o] = p]
    BY <1>13 DEF Enter, left, o, t
  <2>2. op' = [op EXCEPT ![p] = u]
    <3>1. op' = [op EXCEPT ![p].at = "decide", ![p].held = <<o>> \o @]
      BY <1>13 DEF Enter, left, o, t
    <3> QED
      BY <1>1, <3>1 DEF t
  <2>3. /\ held \in Seq(Obj) /\ held # <<>> /\ Tail(held) = t.held /\ Distinct(held)
        /\ ToSet(held) = {o} \cup ToSet(t.held)
    BY <1>3, <1>4, OneInFront
  <2> HIDE DEF held, a, u
  <2>4. "decide" \in Ats /\ "decide" \in Deciding
    BY DEF Ats, Deciding
  <2>5. /\ a \in Tasks(a) /\ a.at = "decide" /\ a.todo = t.todo /\ a.then = t.then
        /\ a.map = t.map
    BY <1>1, <2>4, AtChanged DEF a
  <2>6. /\ u \in Tasks(u) /\ u.at = "decide" /\ u.todo = t.todo /\ u.then = t.then
        /\ u.map = t.map /\ u.held = held
    BY <2>3, <2>5, HeldChanged DEF u
  <2>7. "decide" \notin Quiet \cup {"enter", "leave", "unused", "freed"} \cup Locking \cup Searching
    BY DEF Quiet, Locking, Searching
  <2>8. TaskSound(u, chain)
    BY <1>1, <2>3, <2>6, <2>7 DEF TaskSound, Locking
  <2>9. \A x : Coming(u, x) = Times(t.todo, x)
    BY <1>7, <2>6 DEF Coming, Now
  <2>10. GaveBack(u) = ToSet(t.held)
    BY <2>3, <2>4, <2>6 DEF GaveBack
  <2>11. left = 0
    BY <1>9, <1>13
  <2>12. /\ olock' = [x \in Obj |-> olock'[x]]
         /\ \A x \in Obj : olock[x] \in Proc \ {p} => olock'[x] = olock[x]
         /\ \A x \in ToSet(held) : olock'[x] = p
    BY <1>1, <1>2, <1>3, <1>4, <2>1, <2>3
  <2> QED
    BY <1>11, <2>2, <2>3, <2>6, <2>7, <2>8, <2>9, <2>10, <2>11, <2>12
<1> QED
  BY <1>12, <1>13

\* A step that changes what p does alone: no object, no lock.
LEMMA ObjectsStay ==
    ASSUME InvNow, NEW p \in Proc, NEW u, NEW f2,
           UNCHANGED <<object, regions, olock>>, op' = [op EXCEPT ![p] = u],
           Process(p, object, regions[p], u, olock),
           Sound(object, Rest(op, p) \cup GaveBack(u), f2),
           \A o \in Obj : f2[o] = Mine(regions[p], u, o) + UsesBy(regions, op, Proc \ {p}, o)
    PROVE  InvNext
<1>1. olock' = [o \in Obj |-> olock'[o]] /\ \A o \in Obj : Alike(object[o], object'[o])
  BY HoldsParts DEF InvNow
<1>2. Undisturbed(object, regions, op, olock, p, object', olock', {}, {}, {})
  BY <1>1, AlikeUndisturbed
<1>3. Process(p, object', regions[p], u, olock') /\ Sound(object', Rest(op, p) \cup GaveBack(u), f2)
      /\ regions' = regions
  OBVIOUS
<1> QED
  BY <1>1, <1>2, <1>3, ChainStays

\* vm_object_free() looks whether the object is to be freed or combined.
LEMMA DecideKeeps ==
    ASSUME InvNow, NEW p \in Proc, Decide(p)
    PROVE  InvNext
<1> DEFINE t == op[p]
           chain == regions[p]
           o == Head(t.held)
           below == object[o].next
           f == Counts(regions, op, p)
           gone == GoneBy(op, Proc)
           W(u) == [x \in Obj |-> Mine(chain, u, x) + UsesBy(regions, op, Proc \ {p}, x)]
<1>1. /\ object \in Objects(PageLists(object)) /\ chain \in Seq(Area) /\ TaskSound(t, chain)
      /\ ShadowsPrivate(object, chain, t) /\ op = [op EXCEPT ![p] = op[p]] /\ t \in Tasks(t)
  BY HoldsParts DEF InvNow
<1>2. /\ t.at = "decide" /\ UNCHANGED <<object, regions, olock>>
      /\ t.at \in Deciding
  BY DEF Decide, memory, locks, Deciding
<1>3. /\ t.held \in Seq(Obj) /\ t.todo \in Seq(Obj) /\ Distinct(t.held)
      /\ \A x \in ToSet(t.held) :
            /\ x \in Obj /\ olock[x] = p /\ x \notin Rest(op, p)
            /\ object[x].type = "file" \/ (object[x].type # "free" /\ object[x].refcount = 0)
  BY HeldNow
<1>4. /\ t.held # <<>> /\ o \in ToSet(t.held) /\ o \notin ToSet(Tail(t.held))
      /\ ToSet(t.held) = {o} \cup ToSet(Tail(t.held))
  <2>1. t.held # <<>>
    BY <1>1, <1>2 DEF TaskSound
  <2> QED
    BY <1>3, <2>1, HeadAndTail
<1>5. GaveBack(t) = ToSet(Tail(t.held))
  BY <1>2 DEF GaveBack
<1>6. /\ \A x \in Obj : /\ f[x] = Mine(chain, t, x) + UsesBy(regions, op, Proc \ {p}, x)
                        /\ f[x] \in Nat /\ Mine(chain, t, x) \in Nat
                        /\ UsesBy(regions, op, Proc \ {p}, x) \in Nat
      /\ gone = Rest(op, p) \cup GaveBack(t)
      /\ Sound(object, gone, f)
  BY CountsNow
<1>7. /\ o \in Obj /\ object[o].type # "free" /\ o \notin gone /\ below \in 0..NObj
      /\ Rest(op, p) \cup ToSet(t.held) = gone \cup {o}
  <2>1. o \in Obj /\ object[o].type # "free" /\ o \notin Rest(op, p)
    BY <1>3, <1>4
  <2>2. below \in 0..NObj
    BY <1>1, <2>1, CellOf
  <2> QED
    BY <1>4, <1>5, <1>6, <2>1, <2>2
<1>8. op' = [op EXCEPT ![p] =
               IF below = 0 THEN Returned(p, t.held)
               ELSE IF ~CombineBelow(o) THEN [t EXCEPT !.at = "enter", !.obj = below]
               ELSE IF Other(o) = 0 THEN Returned(p, t.held)
               ELSE [t EXCEPT !.at = "lock_new", !.obj = below, !.new = Other(o)]]
  BY <1>1 DEF Decide
<1> HIDE DEF t, chain, o, below, f, gone, W
<1>9. \A x : /\ Mine(chain, t, x) = Times(Sources(chain), x) + Coming(t, x)
             /\ Coming(t, x) = Times(t.todo, x)
             /\ Times(Sources(chain), x) \in Nat /\ Times(t.todo, x) \in Nat
  <2> TAKE x
  <2>1. /\ Mine(chain, t, x) = Times(Sources(chain), x) + Coming(t, x)
        /\ Times(Sources(chain), x) \in Nat /\ Times(t.todo, x) \in Nat
    BY <1>1, <1>3, MineIs
  <2>2. Now(t, x) = 0
    BY <1>2 DEF Now
  <2> QED
    BY <2>1, <2>2 DEF Coming
<1>10. ASSUME NEW u, u.todo \in Seq(Obj), \A x : Coming(u, x) = Times(t.todo, x)
       PROVE  /\ \A x \in Obj : Mine(chain, u, x) = Mine(chain, t, x)
              /\ \A x \in Obj : f[x] = Mine(chain, u, x) + UsesBy(regions, op, Proc \ {p}, x)
  <2>1. \A x \in Obj : Mine(chain, u, x) = Mine(chain, t, x)
    BY <1>1, <1>9, <1>10, MineIs
  <2> QED
    BY <1>6, <2>1
<1>11. ASSUME NEW u, \A x \in Obj : Mine(chain, u, x) = Mine(chain, t, x)
       PROVE  ShadowsPrivate(object, chain, u)
  <2>1. \A i \in DOMAIN chain : chain[i].src \in Obj
    BY <1>1, SrcIsObj
  <2> QED
    BY <1>1, <1>11, <2>1 DEF ShadowsPrivate
<1>12. CASE below = 0
  <2> DEFINE u == Returned(p, t.held)
  <2>1. op' = [op EXCEPT ![p] = u]
    BY <1>8, <1>12
  <2>2. /\ TaskSound(u, chain) /\ u.held = t.held /\ u.at \notin Locking
        /\ \A x : Coming(u, x) = Times(t.todo, x)
        /\ GaveBack(u) = ToSet(t.held)
    <3>1. TaskSound(op[p], chain) /\ op[p].at \in Deciding \cup {"enter", "leave"}
          /\ t.held \in Seq(Obj) /\ Distinct(t.held) /\ t = op[p]
      BY <1>1, <1>2, <1>3 DEF t
    <3>2. /\ TaskSound(u, chain) /\ u.held = t.held /\ u.at \notin Locking
          /\ \A x : Coming(u, x) = Times(op[p].todo, x)
          /\ GaveBack(u) = ToSet(t.held)
      BY <3>1, ReturnedIs
    <3> QED
      BY <3>1, <3>2
  <2> HIDE DEF u
  <2>3. u.todo \in Seq(Obj)
    BY <2>2, TaskParts DEF TaskSound
  <2>4. Sound(object, Rest(op, p) \cup GaveBack(u), f)
    BY <1>6, <1>7, <1>12, <2>2, SoundNoneBelow DEF below
  <2>5. Process(p, object, chain, u, olock)
    <3>1. ShadowsPrivate(object, chain, u)
      BY <1>10, <1>11, <2>2, <2>3
    <3>2. u.at \notin Locking \cup {"lock_sub"}
      BY <2>2 DEF Locking
    <3> QED
      BY <1>1, <1>3, <2>2, <3>1, <3>2, FreeingProcess
  <2>6. \A x \in Obj : f[x] = Mine(chain, u, x) + UsesBy(regions, op, Proc \ {p}, x)
    BY <1>10, <2>2, <2>3
  <2> QED
    BY <1>2, <2>1, <2>4, <2>5, <2>6, ObjectsStay DEF chain
<1>13. ASSUME below # 0
       PROVE  /\ below \in Obj
              /\ object[below].refcount >= 1 + f[below]
              /\ object[below].type = "shadow" => object[below].ref1 # 0 /\ object[below].ref2 # 0
              /\ ~ \E i \in DOMAIN chain : chain[i].src = below /\ object[below].type = "shadow"
  <2>1. below \in Obj
    BY <1>7, <1>13 DEF Obj
  <2>2. object[below].refcount = Cardinality(Over(object, gone, below)) + f[below]
    BY <1>6, <2>1 DEF Sound, Balanced
  <2>3. o \in Over(object, gone, below)
    BY <1>7 DEF Over, below
  <2>4. Cardinality(Over(object, gone, below)) >= 1 /\ Cardinality(Over(object, gone, below)) \in Nat
    BY <2>3, OverCount
  <2>5. object[below].refcount >= 1 + f[below]
    BY <1>6, <2>1, <2>2, <2>4
  <2>6. object[below].type = "shadow" => object[below].ref1 # 0 /\ object[below].ref2 # 0
    BY <1>6, <1>7, <1>13 DEF Sound, RefsSet, below
  <2>7. ASSUME NEW i \in DOMAIN chain, chain[i].src = below, object[below].type = "shadow"
        PROVE  FALSE
    <3>1. object[below].refcount = Mine(chain, t, below)
      BY <1>1, <2>7 DEF ShadowsPrivate
    <3> QED
      BY <1>6, <2>1, <2>5, <3>1
  <2> QED
    BY <2>1, <2>5, <2>6, <2>7
<1>14. CASE below # 0 /\ ~CombineBelow(o)
  <2> DEFINE a == [t EXCEPT !.at = "enter"]
             u == [a EXCEPT !.obj = below]
             f2 == [x \in Obj |-> Mine(chain, u, x) + UsesBy(regions, op, Proc \ {p}, x)]
  <2>1. op' = [op EXCEPT ![p] = u]
    BY <1>8, <1>14
  <2> HIDE DEF a, u
  <2>2. "enter" \in Ats /\ "enter" \notin Deciding
    BY DEF Ats, Deciding
  <2>3. /\ a \in Tasks(a) /\ a.at = "enter" /\ a.todo = t.todo /\ a.then = t.then
        /\ a.map = t.map /\ a.held = t.held
    BY <1>1, <2>2, AtChanged DEF a
  <2>4. /\ u \in Tasks(u) /\ u.at = "enter" /\ u.todo = t.todo /\ u.then = t.then
        /\ u.map = t.map /\ u.held = t.held /\ u.obj = below
    <3>1. u = [a EXCEPT !.obj = below]
      BY DEF u
    <3> QED
      BY <2>3, <3>1, ObjChanged
  <2>5. "enter" \notin Quiet \cup {"leave", "unused", "freed", "lock_sub"} \cup Locking \cup Searching
    BY DEF Quiet, Locking, Searching
  <2>6. TaskSound(u, chain)
    BY <1>1, <1>4, <1>13, <1>14, <2>2, <2>4, <2>5 DEF TaskSound
  <2>7. GaveBack(u) = ToSet(t.held)
    BY <2>2, <2>4 DEF GaveBack
  <2>8. \A x \in Obj : /\ Mine(chain, u, x) = Mine(chain, t, x) + (IF x = below THEN 1 ELSE 0)
    <3> TAKE x \in Obj
    <3>1. Coming(u, x) = Times(t.todo, x) + (IF x = below THEN 1 ELSE 0)
      BY <2>4 DEF Coming, Now
    <3>2. Mine(chain, u, x) = Times(Sources(chain), x) + Coming(u, x)
      BY <1>1, <1>3, <2>4, MineIs
    <3> QED
      BY <1>9, <3>1, <3>2
  <2>9. \A x \in Obj : f2[x] = Mine(chain, u, x) + UsesBy(regions, op, Proc \ {p}, x)
    OBVIOUS
  <2> HIDE DEF f2
  <2>10. \A x \in Obj : f2[x] = f[x] + (IF x = below THEN 1 ELSE 0)
    <3> TAKE x \in Obj
    <3>1. /\ f[x] = Mine(chain, t, x) + UsesBy(regions, op, Proc \ {p}, x)
          /\ Mine(chain, t, x) \in Nat /\ UsesBy(regions, op, Proc \ {p}, x) \in Nat
      BY <1>6
    <3>2. Mine(chain, u, x) = Mine(chain, t, x) + (IF x = below THEN 1 ELSE 0)
      BY <2>8
    <3>3. f2[x] = Mine(chain, u, x) + UsesBy(regions, op, Proc \ {p}, x)
      BY <2>9
    <3>4. CASE x = below
      BY <3>1, <3>2, <3>3, <3>4
    <3>5. CASE x # below
      BY <3>1, <3>2, <3>3, <3>5
    <3> QED
      BY <3>4, <3>5
  <2>11. Sound(object, Rest(op, p) \cup GaveBack(u), f2)
    <3>1. f2[object[o].next] = f[object[o].next] + 1
          /\ \A x \in Obj \ {object[o].next} : f2[x] = f[x]
      BY <1>13, <1>14, <2>10, <1>6 DEF below
    <3>2. o \in Obj \ gone /\ object[o].next # 0 /\ object[o].type # "free"
      BY <1>7, <1>14 DEF below
    <3>3. Sound(object, gone \cup {o}, f2)
      BY <1>6, <3>1, <3>2, SoundGiven
    <3> QED
      BY <1>7, <2>7, <3>3
  <2>12. ShadowsPrivate(object, chain, u)
    <3> SUFFICES ASSUME NEW i \in DOMAIN chain, object[chain[i].src].type = "shadow"
                 PROVE  /\ chain[i].type # "ro"
                        /\ object[chain[i].src].refcount = Mine(chain, u, chain[i].src)
      BY DEF ShadowsPrivate
    <3> DEFINE s == chain[i].src
    <3>1. s \in Obj
      BY <1>1, SrcIsObj
    <3>2. s # below
      BY <1>13, <1>14
    <3>3. chain[i].type # "ro" /\ object[s].refcount = Mine(chain, t, s)
      BY <1>1 DEF ShadowsPrivate
    <3> HIDE DEF s
    <3>4. object[s].refcount = Mine(chain, u, s)
      BY <1>6, <2>8, <3>1, <3>2, <3>3
    <3> QED
      BY <3>3, <3>4 DEF s
  <2>13. Process(p, object, chain, u, olock)
    <3>1. u.at \notin Locking \cup {"lock_sub"}
      BY <2>4, <2>5
    <3> QED
      BY <1>1, <1>3, <2>4, <2>6, <2>12, <3>1, FreeingProcess
  <2> QED
    BY <1>2, <2>1, <2>9, <2>11, <2>13, ObjectsStay DEF chain
<1>15. CASE below # 0 /\ CombineBelow(o)
  <2> DEFINE other == Other(o)
             a == [t EXCEPT !.at = "lock_new"]
             b == [a EXCEPT !.obj = below]
             u == [b EXCEPT !.new = other]
  <2>1. object[below].type = "shadow" /\ object[below].refcount = 2
    BY <1>15 DEF CombineBelow, below
  <2>2. other # 0 /\ other \in Obj
    <3>1. other \in {object[below].ref1, object[below].ref2}
      BY DEF Other, below
    <3>2. object[below].ref1 \in 0..NObj /\ object[below].ref2 \in 0..NObj
      BY <1>1, <1>13, <1>15, CellOf
    <3> QED
      BY <1>13, <1>15, <2>1, <3>1, <3>2 DEF Obj
  <2>3. op' = [op EXCEPT ![p] = u]
    BY <1>8, <1>15, <2>2
  <2> HIDE DEF a, b, u, other
  <2>4. "lock_new" \in Ats /\ "lock_new" \in Deciding
    BY DEF Ats, Deciding
  <2>5. /\ a \in Tasks(a) /\ a.at = "lock_new" /\ a.todo = t.todo /\ a.then = t.then
        /\ a.map = t.map /\ a.held = t.held
    BY <1>1, <2>4, AtChanged DEF a
  <2>6. /\ b \in Tasks(b) /\ b.at = "lock_new" /\ b.todo = t.todo /\ b.then = t.then
        /\ b.map = t.map /\ b.held = t.held /\ b.obj = below
    <3>1. b = [a EXCEPT !.obj = below]
      BY DEF b
    <3> QED
      BY <2>5, <3>1, ObjChanged
  <2>7. /\ u \in Tasks(u) /\ u.at = "lock_new" /\ u.todo = t.todo /\ u.then = t.then
        /\ u.map = t.map /\ u.held = t.held /\ u.obj = below /\ u.new = other
    <3>1. u = [b EXCEPT !.new = other] /\ other \in 0..NObj
      BY <2>2, ZeroNotObj DEF u
    <3> QED
      BY <2>6, <3>1, NewChanged
  <2>8. "lock_new" \notin Quiet \cup {"leave", "unused", "freed", "lock_sub", "enter"} \cup Searching
    BY DEF Quiet, Searching
  <2>9. TaskSound(u, chain)
    BY <1>1, <1>4, <1>13, <1>15, <2>2, <2>7, <2>8 DEF TaskSound
  <2>10. GaveBack(u) = GaveBack(t)
    BY <1>5, <2>4, <2>7 DEF GaveBack
  <2>11. \A x : Coming(u, x) = Times(t.todo, x)
    BY <1>9, <2>7 DEF Coming, Now
  <2>12. /\ \A x \in Obj : Mine(chain, u, x) = Mine(chain, t, x)
         /\ \A x \in Obj : f[x] = Mine(chain, u, x) + UsesBy(regions, op, Proc \ {p}, x)
    BY <1>3, <1>10, <2>7, <2>11
  <2>13. FreesDead(object, u)
    <3>1. u.obj = object[Head(u.held)].next
      BY <2>7 DEF below, o
    <3> QED
      BY <1>3, <2>1, <2>7, <3>1 DEF FreesDead
  <2>14. Locks(p, u, olock)
    BY <1>3, <2>7 DEF Locks
  <2>15. Process(p, object, chain, u, olock)
    BY <1>1, <1>11, <2>9, <2>12, <2>13, <2>14 DEF Process
  <2>16. Sound(object, Rest(op, p) \cup GaveBack(u), f)
    BY <1>6, <2>10
  <2> QED
    BY <1>2, <2>3, <2>12, <2>15, <2>16, ObjectsStay DEF chain
<1> QED
  BY <1>12, <1>14, <1>15

\* vm_object_combine() locks the object over the one it takes out.
LEMMA LockNewKeeps ==
    ASSUME InvNow, NEW p \in Proc, LockNew(p), GoesOn
    PROVE  InvNext
<1> DEFINE t == op[p]
           chain == regions[p]
           f == Counts(regions, op, p)
           u == [t EXCEPT !.at = "lock_sub"]
<1>1. /\ chain \in Seq(Area) /\ TaskSound(t, chain) /\ FreesDead(object, t)
      /\ ShadowsPrivate(object, chain, t) /\ op = [op EXCEPT ![p] = op[p]] /\ t \in Tasks(t)
      /\ olock = [x \in Obj |-> olock[x]] /\ \A x \in Obj : Alike(object[x], object[x])
  BY PartsNow
<1>2. /\ t.at = "lock_new" /\ object[t.new].next = t.obj /\ olock[t.new] = Nobody
      /\ olock' = [olock EXCEPT ![t.new] = p] /\ UNCHANGED <<object, regions>>
      /\ op' = [op EXCEPT ![p].at = "lock_sub"]
  BY DEF LockNew, Halt, memory, GoesOn
<1>3. op' = [op EXCEPT ![p] = u]
  BY <1>1, <1>2
<1> HIDE DEF u, f, chain, t
<1>4. /\ t.held \in Seq(Obj) /\ t.todo \in Seq(Obj)
      /\ \A x \in ToSet(t.held) :
            /\ x \in Obj /\ olock[x] = p
            /\ object[x].type = "file" \/ (object[x].type # "free" /\ object[x].refcount = 0)
  BY HeldNow DEF t
<1>5. "lock_sub" \in Ats /\ "lock_sub" \in Deciding /\ "lock_sub" \in Locking
      /\ "lock_new" \in Deciding /\ "lock_new" \in Locking
      /\ "lock_sub" \notin Quiet \cup {"leave", "unused", "freed", "enter"} \cup Searching
  BY DEF Ats, Deciding, Locking, Quiet, Searching
<1>6. /\ u \in Tasks(u) /\ u.at = "lock_sub" /\ u.todo = t.todo /\ u.then = t.then
      /\ u.map = t.map /\ u.held = t.held /\ u.obj = t.obj /\ u.new = t.new
  <2>1. u = [t EXCEPT !.at = "lock_sub"]
    BY DEF u
  <2> QED
    BY <1>1, <1>5, <2>1, AtChanged
<1>7. /\ t.held # <<>> /\ t.obj \in Obj /\ t.new \in Obj /\ Distinct(t.held)
      /\ (t.then = "exit" => chain = <<>>) /\ (t.then = "map" => t.map # <<>>)
  BY <1>1, <1>2, <1>5 DEF TaskSound
<1>8. Nobody \notin Proc
  BY VmAssumption
<1>9. t.new \notin ToSet(t.held)
  BY <1>2, <1>4, <1>8
<1>10. TaskSound(u, chain)
  BY <1>5, <1>6, <1>7, <1>9 DEF TaskSound
<1>11. FreesDead(object, u)
  BY <1>1, <1>2, <1>5, <1>6 DEF FreesDead
<1>12. /\ olock' = [x \in Obj |-> olock'[x]] /\ olock'[t.new] = p
       /\ \A x \in Obj : olock[x] \in Proc \ {p} => olock'[x] = olock[x]
       /\ \A x \in Obj : x # t.new => olock'[x] = olock[x]
  BY <1>1, <1>2, <1>7, <1>8
<1>13. Locks(p, u, olock')
  BY <1>4, <1>6, <1>9, <1>12 DEF Locks
<1>14. \A x : Mine(chain, u, x) = Mine(chain, t, x)
  BY <1>2, <1>6 DEF Mine, Now
<1>15. ShadowsPrivate(object, chain, u)
  BY <1>1, <1>14 DEF ShadowsPrivate
<1>16. Process(p, object', regions[p], u, olock')
  BY <1>1, <1>2, <1>10, <1>11, <1>13, <1>15 DEF Process, chain
<1>17. GaveBack(u) = GaveBack(t)
  BY <1>2, <1>5, <1>6 DEF GaveBack
<1>18. Sound(object', Rest(op, p) \cup GaveBack(u), f)
  BY <1>2, <1>17, CountsNow DEF f, t
<1>19. \A x \in Obj : f[x] = Mine(regions[p], u, x) + UsesBy(regions, op, Proc \ {p}, x)
  BY <1>14, CountsNow DEF f, t, chain
<1>20. Undisturbed(object, regions, op, olock, p, object', olock', {}, {}, {})
  <2>1. \A x \in Obj : Alike(object[x], object'[x])
    BY <1>1, <1>2
  <2> QED
    BY <1>12, <2>1, AlikeUndisturbed
<1>21. regions' = regions /\ olock' = [x \in Obj |-> olock'[x]]
  BY <1>2, <1>12
<1> QED
  BY <1>3, <1>16, <1>18, <1>19, <1>20, <1>21, ChainStays

\* vm_object_combine() takes an object out of the chain.
LEMMA CombineKeeps ==
    ASSUME InvNow, NEW p \in Proc, Combine(p), GoesOn
    PROVE  InvNext
<1> DEFINE t == op[p]
           chain == regions[p]
           o == Head(t.held)
           sub == t.obj
           new == t.new
           pages == Combined(sub, new)
           f == Counts(regions, op, p)
           gone == GoneBy(op, Proc)
           u == Returned(p, t.held)
<1>1. /\ object \in Objects(PageLists(object)) /\ chain \in Seq(Area) /\ TaskSound(t, chain)
      /\ FreesDead(object, t) /\ Locks(p, t, olock)
      /\ ShadowsPrivate(object, chain, t) /\ op = [op EXCEPT ![p] = op[p]] /\ t \in Tasks(t)
      /\ olock = [x \in Obj |-> olock[x]]
  BY PartsNow
<1>2. /\ t.at = "lock_sub" /\ olock[sub] = Nobody /\ UNCHANGED regions
      /\ object' = Merged(object, sub, new, pages)
      /\ olock' = [olock EXCEPT ![new] = Nobody]
      /\ op' = [op EXCEPT ![p] = u]
  BY DEF Combine, Halt, Merged, Unlocked, GoesOn
<1> HIDE DEF t, chain, o, sub, new, pages, f, gone, u
<1>3. /\ t.held \in Seq(Obj) /\ t.todo \in Seq(Obj) /\ Distinct(t.held)
      /\ \A x \in ToSet(t.held) :
            /\ x \in Obj /\ olock[x] = p /\ x \notin Rest(op, p)
            /\ object[x].type = "file" \/ (object[x].type # "free" /\ object[x].refcount = 0)
  BY HeldNow DEF t
<1>4. "lock_sub" \in Deciding /\ "lock_sub" \in Locking /\ t.at \in Deciding /\ t.at \in Locking
  BY <1>2 DEF Deciding, Locking
<1>5. /\ t.held # <<>> /\ sub \in Obj /\ new \in Obj /\ new \notin ToSet(t.held)
      /\ sub = object[o].next /\ object[sub].type = "shadow" /\ object[sub].refcount <= 2
      /\ object[new].next = sub /\ olock[new] = p /\ Nobody \notin Proc
  BY <1>1, <1>2, <1>4, VmAssumption DEF TaskSound, FreesDead, Locks, sub, new, o
<1>6. /\ o \in ToSet(t.held) /\ o \notin ToSet(Tail(t.held))
      /\ ToSet(t.held) = {o} \cup ToSet(Tail(t.held))
  <2>1. t.held \in Seq(Obj) /\ t.held # <<>> /\ Distinct(t.held) /\ o = Head(t.held)
    BY <1>3, <1>5 DEF o
  <2>2. ToSet(t.held) = {Head(t.held)} \cup ToSet(Tail(t.held)) /\ Head(t.held) \notin ToSet(Tail(t.held))
    BY <2>1, HeadAndTail
  <2> QED
    BY <2>1, <2>2
<1>7. GaveBack(t) = ToSet(Tail(t.held))
  BY <1>4 DEF GaveBack
<1>8. /\ \A x \in Obj : /\ f[x] = Mine(chain, t, x) + UsesBy(regions, op, Proc \ {p}, x)
                        /\ f[x] \in Nat /\ Mine(chain, t, x) \in Nat
                        /\ UsesBy(regions, op, Proc \ {p}, x) \in Nat
      /\ gone = Rest(op, p) \cup GaveBack(t)
      /\ Sound(object, gone, f)
  BY CountsNow DEF f, gone, t, chain
<1>9. /\ o \in Obj /\ object[o].type # "free" /\ o \notin gone /\ new \notin gone /\ sub \notin gone
      /\ o # new /\ o # sub /\ new # sub
      /\ Rest(op, p) \cup ToSet(t.held) = gone \cup {o}
  <2>1. o \in Obj /\ object[o].type # "free" /\ o \notin Rest(op, p) /\ olock[o] = p
    BY <1>3, <1>6
  <2>2. new \notin Rest(op, p) /\ sub \notin gone
    BY <1>2, <1>5, NotGone DEF gone
  <2> QED
    BY <1>2, <1>5, <1>6, <1>7, <1>8, <2>1, <2>2
<1>10. /\ Sound(object', gone \cup {o}, f)
       /\ object[sub].next # sub /\ f[sub] = 0 /\ Over(object, gone, sub) = {o, new}
  <2>1. o \in Obj \ gone /\ new \in Obj \ gone /\ sub \in Obj \ gone
    BY <1>5, <1>9
  <2>2. object[o].next = sub
    BY <1>5
  <2>3. /\ Sound(Merged(object, sub, new, pages), gone \cup {o}, f)
        /\ object[sub].next # sub /\ f[sub] = 0 /\ Over(object, gone, sub) = {o, new}
    <3>1. Sound(object, gone, f) /\ \A x \in Obj : f[x] \in Nat
      BY <1>8
    <3>2. /\ o # new /\ o # sub /\ new # sub /\ object[new].next = sub
          /\ object[o].type # "free" /\ object[sub].type = "shadow" /\ object[sub].refcount <= 2
      BY <1>5, <1>9
    <3>3. Mergeable(object, gone, o, sub, new)
      BY <2>1, <2>2, <3>2 DEF Mergeable
    <3> QED
      <4>1. Sound(Merged(object, sub, new, pages), gone \cup {o}, f)
        BY <3>1, <3>3, SoundMerged
      <4>2. object[sub].next # sub /\ f[sub] = 0 /\ Over(object, gone, sub) = {o, new}
        BY <3>1, <3>3, MergeableIs
      <4> QED
        BY <4>1, <4>2
  <2> QED
    BY <1>2, <2>3
<1>22. Mine(chain, t, sub) = 0 /\ UsesBy(regions, op, Proc \ {p}, sub) = 0
  <2>1. /\ f[sub] = Mine(chain, t, sub) + UsesBy(regions, op, Proc \ {p}, sub)
        /\ Mine(chain, t, sub) \in Nat /\ UsesBy(regions, op, Proc \ {p}, sub) \in Nat
    BY <1>5, <1>8
  <2>2. f[sub] = 0
    BY <1>10
  <2> QED
    BY <2>1, <2>2
<1>11. \A x \in Obj \ {sub} :
           /\ object'[x].type = object[x].type /\ object'[x].refcount = object[x].refcount
           /\ x # new => object'[x].next = object[x].next
  <2> DEFINE P == PageLists(object) \cup {pages}
  <2>1. object \in Objects(P) /\ <<>> \in P /\ pages \in P
    BY <1>1 DEF Objects, Cell, PageLists
  <2> HIDE DEF P
  <2> QED
    <3>1. sub \in Obj /\ new \in Obj /\ sub # new /\ object[sub].next # sub
      BY <1>5, <1>9, <1>10
    <3>2. LET objs2 == Merged(object, sub, new, pages)
          IN  \A x \in Obj \ {sub} :
                 /\ objs2[x].type = object[x].type /\ objs2[x].refcount = object[x].refcount
                 /\ x # new => objs2[x].next = object[x].next
      BY <2>1, <3>1, MergedIs
    <3> QED
      BY <1>2, <3>2
<1>12. /\ TaskSound(u, chain) /\ u.held = t.held /\ u.at \notin Locking
       /\ \A x : Coming(u, x) = Times(t.todo, x)
       /\ GaveBack(u) = ToSet(t.held)
  <2>1. TaskSound(op[p], chain) /\ op[p].at \in Deciding \cup {"enter", "leave"}
        /\ t.held \in Seq(Obj) /\ Distinct(t.held) /\ t = op[p]
    BY <1>1, <1>3, <1>4 DEF t
  <2>2. /\ TaskSound(u, chain) /\ u.held = t.held /\ u.at \notin Locking
        /\ \A x : Coming(u, x) = Times(op[p].todo, x)
        /\ GaveBack(u) = ToSet(t.held)
    BY <2>1, ReturnedIs DEF u
  <2> QED
    BY <2>1, <2>2
<1>13. u.todo \in Seq(Obj)
  BY <1>12, TaskParts DEF TaskSound
<1>14. \A x : Mine(chain, u, x) = Mine(chain, t, x)
  <2> TAKE x
  <2>1. Mine(chain, u, x) = Times(Sources(chain), x) + Times(t.todo, x)
    BY <1>1, <1>12, <1>13, MineIs
  <2>2. Mine(chain, t, x) = Times(Sources(chain), x) + Coming(t, x)
    BY <1>1, <1>3, MineIs
  <2>3. Coming(t, x) = Times(t.todo, x)
    <3>1. Now(t, x) = 0
      BY <1>2 DEF Now
    <3>2. Times(t.todo, x) \in Nat
      BY <1>1, <1>3, MineIs
    <3> QED
      BY <3>1, <3>2 DEF Coming
  <2> QED
    BY <2>1, <2>2, <2>3
<1>15. Sound(object', Rest(op, p) \cup GaveBack(u), f)
  BY <1>9, <1>10, <1>12
<1>16. \A i \in DOMAIN chain : chain[i].src \in Obj /\ chain[i].src # sub
  <2> TAKE i \in DOMAIN chain
  <2>1. chain[i].src \in Obj /\ Mine(chain, t, chain[i].src) >= 1
    BY <1>1, <1>3, Shown
  <2> DEFINE s == chain[i].src
  <2>2. s \in Obj /\ Mine(chain, t, s) >= 1
    BY <2>1
  <2> HIDE DEF s
  <2>3. s # sub
    BY <1>22, <2>2
  <2> QED
    BY <2>2, <2>3 DEF s
<1>17. ShadowsPrivate(object', chain, u)
  BY <1>1, <1>11, <1>14, <1>16 DEF ShadowsPrivate
<1>18. /\ olock' = [x \in Obj |-> olock'[x]]
       /\ \A x \in Obj : x # new => olock'[x] = olock[x]
  BY <1>1, <1>2, <1>5
<1>19. Process(p, object', regions[p], u, olock')
  <2>1. \A x \in ToSet(u.held) :
            /\ object'[x].type = "file" \/ (object'[x].type # "free" /\ object'[x].refcount = 0)
            /\ olock'[x] = p
    <3> TAKE x \in ToSet(u.held)
    <3>1. x \in Obj /\ olock[x] = p /\ x # new
          /\ (object[x].type = "file" \/ (object[x].type # "free" /\ object[x].refcount = 0))
      BY <1>3, <1>5, <1>12
    <3>2. x # sub
      BY <1>2, <1>5, <3>1
    <3> QED
      BY <1>11, <1>18, <3>1, <3>2
  <2>2. u.at \notin Locking \cup {"lock_sub"}
    BY <1>12 DEF Locking
  <2>3. Process(p, object', chain, u, olock')
    BY <1>1, <1>12, <1>17, <2>1, <2>2, FreeingProcess
  <2> QED
    BY <2>3 DEF chain
<1>20. Undisturbed(object, regions, op, olock, p, object', olock', {sub}, {new}, {})
  <2>1. Kept(object, object', {sub}, {new}, {})
    BY <1>11 DEF Kept
  <2>2. UsesBy(regions, op, Proc \ {p}, sub) = 0
    BY <1>22
  <2>3. ASSUME NEW x \in Obj \ gone, object[x].next = sub PROVE olock[x] \notin Proc \ {p}
    <3>1. x \in Over(object, gone, sub)
      BY <2>3 DEF Over
    <3> QED
      BY <1>3, <1>5, <1>6, <1>10, <3>1
  <2>4. olock[sub] \notin Proc \ {p} /\ olock[new] \notin Proc \ {p}
    BY <1>2, <1>5
  <2>5. \A x \in Obj : olock[x] \in Proc \ {p} => olock'[x] = olock[x]
    BY <1>5, <1>18
  <2> QED
    BY <1>5, <2>1, <2>2, <2>3, <2>4, <2>5 DEF Undisturbed, gone
<1>21. \A x \in Obj : f[x] = Mine(regions[p], u, x) + UsesBy(regions, op, Proc \ {p}, x)
  BY <1>8, <1>14 DEF chain
<1> QED
  <2>1. op' = [op EXCEPT ![p] = u] /\ regions' = regions /\ olock' = [x \in Obj |-> olock'[x]]
    BY <1>2, <1>18
  <2> QED
    BY <1>15, <1>19, <1>20, <1>21, <2>1, ChainStays

\* The end of vm_object_free(): an object without references is free.
LEMMA LeaveKeeps ==
    ASSUME InvNow, NEW p \in Proc, Leave(p)
    PROVE  InvNext
<1> DEFINE t == op[p]
           chain == regions[p]
           o == Head(t.held)
           rest == Tail(t.held)
           f == Counts(regions, op, p)
           gone == GoneBy(op, Proc)
           u == Returned(p, rest)
<1>1. /\ object \in Objects(PageLists(object)) /\ chain \in Seq(Area) /\ TaskSound(t, chain)
      /\ ShadowsPrivate(object, chain, t) /\ op = [op EXCEPT ![p] = op[p]]
      /\ olock = [x \in Obj |-> olock[x]]
  BY PartsNow
<1>2. /\ t.at = "leave" /\ UNCHANGED regions
      /\ object' = IF object[o].type = "file" THEN object ELSE [object EXCEPT ![o] = NoObject]
      /\ olock' = [olock EXCEPT ![o] = Nobody]
      /\ op' = [op EXCEPT ![p] = u]
  BY DEF Leave
<1> HIDE DEF t, chain, o, rest, f, gone, u
<1>3. /\ t.held \in Seq(Obj) /\ t.todo \in Seq(Obj) /\ Distinct(t.held)
      /\ \A x \in ToSet(t.held) :
            /\ x \in Obj /\ olock[x] = p /\ x \notin Rest(op, p)
            /\ object[x].type = "file" \/ (object[x].type # "free" /\ object[x].refcount = 0)
  BY HeldNow DEF t
<1>4. t.held # <<>>
  BY <1>1, <1>2 DEF TaskSound
<1>5. /\ rest \in Seq(Obj) /\ Distinct(rest) /\ o \notin ToSet(rest)
      /\ ToSet(t.held) = {o} \cup ToSet(rest)
  <2>1. t.held \in Seq(Obj) /\ t.held # <<>> /\ Distinct(t.held)
    BY <1>3, <1>4
  <2>2. /\ Tail(t.held) \in Seq(Obj) /\ Distinct(Tail(t.held)) /\ Head(t.held) \notin ToSet(Tail(t.held))
        /\ ToSet(t.held) = {Head(t.held)} \cup ToSet(Tail(t.held))
    BY <2>1, HeadAndTail
  <2> QED
    BY <2>2 DEF o, rest
<1>6. /\ o \in Obj /\ olock[o] = p /\ o \notin Rest(op, p)
      /\ object[o].type = "file" \/ (object[o].type # "free" /\ object[o].refcount = 0)
      /\ Nobody \notin Proc
  BY <1>3, <1>5, VmAssumption
<1>7. GaveBack(t) = ToSet(t.held)
  BY <1>2, NotDeciding DEF GaveBack
<1>8. /\ \A x \in Obj : /\ f[x] = Mine(chain, t, x) + UsesBy(regions, op, Proc \ {p}, x)
                        /\ f[x] \in Nat /\ Mine(chain, t, x) \in Nat
                        /\ UsesBy(regions, op, Proc \ {p}, x) \in Nat
      /\ gone = Rest(op, p) \cup GaveBack(t)
      /\ Sound(object, gone, f)
  BY CountsNow DEF f, gone, t, chain
<1>9. o \in gone /\ gone \ {o} = Rest(op, p) \cup ToSet(rest)
  BY <1>5, <1>6, <1>7, <1>8
<1>10. /\ TaskSound(u, chain) /\ u.held = rest /\ u.at \notin Locking
       /\ \A x : Coming(u, x) = Times(t.todo, x)
       /\ GaveBack(u) = ToSet(rest)
  <2>1. TaskSound(op[p], chain) /\ op[p].at \in Deciding \cup {"enter", "leave"}
        /\ rest \in Seq(Obj) /\ Distinct(rest) /\ t = op[p]
    BY <1>1, <1>2, <1>5 DEF t
  <2>2. /\ TaskSound(u, chain) /\ u.held = rest /\ u.at \notin Locking
        /\ \A x : Coming(u, x) = Times(op[p].todo, x)
        /\ GaveBack(u) = ToSet(rest)
    BY <2>1, ReturnedIs DEF u
  <2> QED
    BY <2>1, <2>2
<1>11. u.todo \in Seq(Obj)
  BY <1>10, TaskParts DEF TaskSound
<1>12. \A x : Mine(chain, u, x) = Mine(chain, t, x)
  <2> TAKE x
  <2>1. Mine(chain, u, x) = Times(Sources(chain), x) + Times(t.todo, x)
    BY <1>1, <1>10, <1>11, MineIs
  <2>2. Mine(chain, t, x) = Times(Sources(chain), x) + Coming(t, x)
    BY <1>1, <1>3, MineIs
  <2>3. Coming(t, x) = Times(t.todo, x)
    <3>1. Now(t, x) = 0
      BY <1>2 DEF Now
    <3>2. Times(t.todo, x) \in Nat
      BY <1>1, <1>3, MineIs
    <3> QED
      BY <3>1, <3>2 DEF Coming
  <2> QED
    BY <2>1, <2>2, <2>3
<1>13. \A x \in Obj : f[x] = Mine(regions[p], u, x) + UsesBy(regions, op, Proc \ {p}, x)
  BY <1>8, <1>12 DEF chain
<1>14. /\ olock' = [x \in Obj |-> olock'[x]]
       /\ \A x \in Obj : x # o => olock'[x] = olock[x]
  BY <1>1, <1>2, <1>6
<1>15. CASE object[o].type = "file"
  <2>1. object' = object
    BY <1>2, <1>15
  <2>2. Sound(object', Rest(op, p) \cup GaveBack(u), f)
    <3>1. object[o].next = 0 /\ object[o].type # "free"
      BY <1>6, <1>8, <1>15 DEF Sound, FileStays
    <3>2. Sound(object, gone \ {o}, f)
      BY <1>6, <1>8, <3>1, SoundNoneBelow
    <3> QED
      BY <1>9, <1>10, <2>1, <3>2
  <2>3. Process(p, object', regions[p], u, olock')
    <3>1. ShadowsPrivate(object', chain, u)
      BY <1>1, <1>12, <2>1 DEF ShadowsPrivate
    <3>2. \A x \in ToSet(u.held) :
              /\ object'[x].type = "file" \/ (object'[x].type # "free" /\ object'[x].refcount = 0)
              /\ olock'[x] = p
      BY <1>3, <1>5, <1>10, <1>14, <2>1
    <3>3. u.at \notin Locking \cup {"lock_sub"}
      BY <1>10 DEF Locking
    <3>4. Process(p, object', chain, u, olock')
      BY <1>1, <1>10, <3>1, <3>2, <3>3, FreeingProcess
    <3> QED
      BY <3>4 DEF chain
  <2>4. Undisturbed(object, regions, op, olock, p, object', olock', {}, {}, {})
    <3>1. \A x \in Obj : Alike(object[x], object'[x])
      BY <2>1 DEF Alike
    <3>2. \A x \in Obj : olock[x] \in Proc \ {p} => olock'[x] = olock[x]
      BY <1>6, <1>14
    <3> QED
      BY <3>1, <3>2, AlikeUndisturbed
  <2>5. op' = [op EXCEPT ![p] = u] /\ regions' = regions /\ olock' = [x \in Obj |-> olock'[x]]
    BY <1>2, <1>14
  <2> QED
    BY <1>13, <2>2, <2>3, <2>4, <2>5, ChainStays
<1>16. CASE object[o].type # "file"
  <2>1. object' = [object EXCEPT ![o] = NoObject] /\ object[o].refcount = 0
    BY <1>2, <1>6, <1>16
  <2>2. \A x \in Obj : x # o => object'[x] = object[x]
    BY <1>1, <1>6, <2>1 DEF Objects
  <2>3. Sound(object', Rest(op, p) \cup GaveBack(u), f)
    <3>1. Sound(object, gone, f) /\ \A x \in Obj : f[x] \in Nat
      BY <1>8
    <3>2. Sound([object EXCEPT ![o] = NoObject], gone \ {o}, f)
      BY <1>9, <1>16, <2>1, <3>1, SoundFreed
    <3> QED
      BY <1>9, <1>10, <2>1, <3>2
  <2>4. f[o] = 0 /\ \A x \in Obj \ gone : object[x].next # o
    <3>1. Sound(object, gone, f) /\ f[o] \in Nat
      BY <1>6, <1>8
    <3> QED
      BY <1>6, <2>1, <3>1, Unreferenced
  <2>5. Mine(chain, t, o) = 0 /\ UsesBy(regions, op, Proc \ {p}, o) = 0
    <3>1. /\ f[o] = Mine(chain, t, o) + UsesBy(regions, op, Proc \ {p}, o)
          /\ Mine(chain, t, o) \in Nat /\ UsesBy(regions, op, Proc \ {p}, o) \in Nat
      BY <1>6, <1>8
    <3> QED
      BY <2>4, <3>1
  <2>6. \A i \in DOMAIN chain : chain[i].src \in Obj /\ chain[i].src # o
    <3> TAKE i \in DOMAIN chain
    <3>1. chain[i].src \in Obj /\ Mine(chain, t, chain[i].src) >= 1
      BY <1>1, <1>3, Shown
    <3> DEFINE s == chain[i].src
    <3>2. s \in Obj /\ Mine(chain, t, s) >= 1
      BY <3>1
    <3> HIDE DEF s
    <3>3. s # o
      BY <2>5, <3>2
    <3> QED
      BY <3>2, <3>3 DEF s
  <2>7. ShadowsPrivate(object', chain, u)
    BY <1>1, <1>12, <2>2, <2>6 DEF ShadowsPrivate
  <2>8. Process(p, object', regions[p], u, olock')
    <3>1. \A x \in ToSet(u.held) :
              /\ object'[x].type = "file" \/ (object'[x].type # "free" /\ object'[x].refcount = 0)
              /\ olock'[x] = p
      BY <1>3, <1>5, <1>10, <1>14, <2>2
    <3>2. u.at \notin Locking \cup {"lock_sub"}
      BY <1>10 DEF Locking
    <3>3. Process(p, object', chain, u, olock')
      BY <1>1, <1>10, <2>7, <3>1, <3>2, FreeingProcess
    <3> QED
      BY <3>3 DEF chain
  <2>9. Undisturbed(object, regions, op, olock, p, object', olock', {o}, {}, {})
    <3>1. Kept(object, object', {o}, {}, {})
      BY <2>2 DEF Kept
    <3>2. \A x \in Obj : olock[x] \in Proc \ {p} => olock'[x] = olock[x]
      BY <1>6, <1>14
    <3> QED
      BY <1>6, <2>4, <2>5, <3>1, <3>2 DEF Undisturbed, gone
  <2>10. op' = [op EXCEPT ![p] = u] /\ regions' = regions /\ olock' = [x \in Obj |-> olock'[x]]
    BY <1>2, <1>14
  <2> QED
    BY <1>13, <2>3, <2>8, <2>9, <2>10, ChainStays
<1> QED
  BY <1>15, <1>16

-----------------------------------------------------------------------------
\* The loops over regions: a step leads from what is good to what is good next.
Leads(N, S, good, x, step) ==
    /\ good \in [0..N -> SUBSET S] /\ x \in good[0]
    /\ \A n \in 1..N : \A y \in good[n - 1] : step[<<n, y>>] \in good[n]

\* A loop: from a good start, every step good, the whole is good.
LEMMA Stages ==
    ASSUME NEW N \in Nat, NEW S, NEW good, NEW x, NEW step, Leads(N, S, good, x, step)
    PROVE  \E g \in [0..N -> S] :
              /\ g[0] = x /\ \A n \in 1..N : g[n] = step[<<n, g[n - 1]>>]
              /\ \A n \in 0..N : g[n] \in good[n]
<1> DEFINE one(n, y) == IF y \in good[n - 1] THEN step[<<n, y>>] ELSE x
           safe == [u \in (1..N) \X S |-> one(u[1], u[2])]
<1>0. /\ good \in [0..N -> SUBSET S] /\ x \in good[0]
      /\ \A n \in 1..N : \A y \in good[n - 1] : step[<<n, y>>] \in good[n]
  BY DEF Leads
<1>1. 0 \in 0..N /\ x \in S
  BY <1>0
<1>2. \A n \in 1..N : n \in 0..N /\ n - 1 \in 0..N
  OBVIOUS
<1>3. \A n \in 1..N : \A y \in S : one(n, y) \in S
  BY <1>0, <1>1, <1>2
<1>4. \A n \in 1..N : \A y \in S : safe[<<n, y>>] = one(n, y)
  OBVIOUS
<1>5. safe \in Steps(N, S)
  <2> HIDE DEF one
  <2> QED
    BY <1>3 DEF Steps
<1> HIDE DEF safe
<1>6. PICK g \in [0..N -> S] : Iterates(g, x, N, safe)
  BY <1>1, <1>5, Iterate
<1>7. g[0] = x /\ \A n \in 1..N : g[n] = one(n, g[n - 1])
  <2> HIDE DEF one
  <2> QED
    BY <1>2, <1>4, <1>6 DEF Iterates
<1> DEFINE T == {n \in 0..N : g[n] \in good[n]}
<1>8. \A n \in 0..N : n \in T
  <2>1. 0 \in T
    BY <1>0, <1>1, <1>7
  <2>2. \A n \in 0..(N - 1) : n \in T => n + 1 \in T
    <3> SUFFICES ASSUME NEW n \in 0..(N - 1), n \in T PROVE n + 1 \in T
      OBVIOUS
    <3>1. n + 1 \in 1..N /\ (n + 1) - 1 = n /\ n + 1 \in 0..N
      OBVIOUS
    <3>2. g[n + 1] = one(n + 1, g[n])
      BY <1>7, <3>1
    <3>3. g[n] \in good[n]
      OBVIOUS
    <3>4. g[n + 1] = step[<<n + 1, g[n]>>]
      BY <3>1, <3>2, <3>3
    <3>5. g[n + 1] \in good[n + 1]
      BY <1>0, <3>1, <3>3, <3>4
    <3> QED
      BY <3>1, <3>5
  <2>3. T \in SUBSET Nat
    OBVIOUS
  <2> HIDE DEF T
  <2> QED
    BY <2>1, <2>2, <2>3, Climb
<1>9. \A n \in 1..N : g[n] = step[<<n, g[n - 1]>>]
  BY <1>2, <1>7, <1>8
<1> QED
  BY <1>7, <1>8, <1>9

\* Counts are compared object by object.
LEMMA SoundSame ==
    ASSUME NEW objs, NEW gone, NEW f, Sound(objs, gone, f), NEW f2, \A x \in Obj : f2[x] = f[x]
    PROVE  Sound(objs, gone, f2)
BY DEF Sound, Balanced

\* One more reference to s.
Plus(f, s) == [x \in Obj |-> f[x] + (IF x = s THEN 1 ELSE 0)]

\* Who takes at most k objects leaves at most k fewer.
LEMMA SpareTaken ==
    ASSUME NEW objs, NEW objs2, NEW T, T \in SUBSET Obj, NEW k \in Nat, Cardinality(T) <= k,
           \A x \in Obj \ T : objs[x].type = "free" => objs2[x].type = "free"
    PROVE  /\ Cardinality(Spare(objs2)) \in Nat /\ Cardinality(Spare(objs)) \in Nat
           /\ Cardinality(Spare(objs2)) + k >= Cardinality(Spare(objs))
<1> DEFINE A == Spare(objs)
           B == Spare(objs2)
<1>1. A \in SUBSET Obj /\ B \in SUBSET Obj /\ A \subseteq B \cup T
  BY DEF Spare
<1> HIDE DEF A, B
<1>2. /\ IsFiniteSet(A) /\ IsFiniteSet(B) /\ IsFiniteSet(T)
      /\ Cardinality(A) \in Nat /\ Cardinality(B) \in Nat /\ Cardinality(T) \in Nat
  BY <1>1, ObjFinite
<1>3. IsFiniteSet(B \cup T) /\ Cardinality(B \cup T) <= Cardinality(B) + Cardinality(T)
      /\ Cardinality(B \cup T) \in Nat
  <2>1. B \cup T \in SUBSET Obj /\ IsFiniteSet(B \cap T) /\ B \cap T \in SUBSET Obj
    BY <1>1, ObjFinite
  <2>2. Cardinality(B \cup T) = Cardinality(B) + Cardinality(T) - Cardinality(B \cap T)
    BY <1>2, FS_Union
  <2>3. Cardinality(B \cap T) \in Nat /\ Cardinality(B \cup T) \in Nat /\ IsFiniteSet(B \cup T)
    BY <2>1, ObjFinite
  <2> QED
    BY <1>2, <2>2, <2>3
<1>4. Cardinality(A) <= Cardinality(B \cup T)
  BY <1>1, <1>3, FS_Subset
<1>5. Cardinality(B) + k >= Cardinality(A)
  BY <1>2, <1>3, <1>4
<1> QED
  BY <1>2, <1>5 DEF A, B

\* What loads regions: the objects so far, and the chain of them.
Loading(P) == [objs : Objects(P), chain : Seq(Area)]

\* One region of a new program: its object has one reference more.
LEMMA LoadedRegion ==
    ASSUME NEW P, <<>> \in P, NEW y \in Loading(P), NEW gone, NEW f, Sound(y.objs, gone, f),
           \A x \in Obj : f[x] \in Nat, NEW r \in Wanted, r.file \/ Spare(y.objs) # {}
    PROVE  LET y2 == LoadRegion(y, r)
           IN  /\ y2 \in Loading(P)
               /\ \E new \in Area :
                    /\ y2.chain = <<new>> \o y.chain
                    /\ Sound(y2.objs, gone, Plus(f, new.src))
                    /\ y2.objs[new.src].type \notin {"shadow", "free"}
               /\ \A x \in Obj : y.objs[x].type # "free" =>
                    /\ y2.objs[x].type = y.objs[x].type /\ y2.objs[x].next = y.objs[x].next
                    /\ x # File => y2.objs[x].refcount = y.objs[x].refcount
               /\ Cardinality(Spare(y2.objs)) \in Nat /\ Cardinality(Spare(y.objs)) \in Nat
               /\ Cardinality(Spare(y2.objs)) + (IF r.file THEN 0 ELSE 1)
                    >= Cardinality(Spare(y.objs))
<1> DEFINE o == IF r.file THEN File ELSE Min(Spare(y.objs))
           anon == [NoObject EXCEPT !.type = "anon"]
           objs1 == IF r.file THEN y.objs ELSE [y.objs EXCEPT ![o] = anon]
           new == [lo |-> r.lo, hi |-> r.hi, src |-> o, off |-> r.off,
                   type |-> r.type, data |-> r.data]
           objs2 == [objs1 EXCEPT ![o].refcount = @ + 1]
           y2 == LoadRegion(y, r)
<1>1. y2 = [objs |-> objs2, chain |-> <<new>> \o y.chain]
  BY DEF LoadRegion, Attached
<1>2. y.objs \in Objects(P) /\ y.chain \in Seq(Area)
  BY DEF Loading
<1>3. o \in Obj /\ (~r.file => o \in Spare(y.objs))
  <2>1. Spare(y.objs) \in SUBSET Nat /\ Spare(y.objs) \subseteq Obj
    BY ZeroNotObj DEF Spare
  <2> QED
    BY <2>1, LeastIsIn, ZeroNotObj
<1>4. new \in Area /\ new.src = o
  BY <1>3 DEF Wanted, Area
<1> HIDE DEF o, new, anon, y2
<1>5. anon \in Cell(P) /\ anon.type = "anon" /\ anon.next = 0 /\ anon.refcount = 0
  <2>1. NoObject \in Cell(P)
    BY <1>3, ShadowIs
  <2>2. "anon" \in Types
    BY DEF Types
  <2>3. NoObject.next = 0 /\ NoObject.refcount = 0
    BY DEF NoObject
  <2> QED
    BY <2>1, <2>2, <2>3 DEF anon, Cell
<1>6. /\ objs1 \in Objects(P) /\ Sound(objs1, gone, f) /\ objs1[o].type \notin {"shadow", "free"}
      /\ \A x \in Obj : y.objs[x].type # "free" => objs1[x] = y.objs[x]
      /\ \A x \in Obj : x # o => objs1[x] = y.objs[x]
  <2>1. CASE r.file
    <3>1. objs1 = y.objs /\ o = File
      BY <2>1 DEF o
    <3>2. y.objs[File].type = "file"
      BY DEF Sound, FileStays
    <3> QED
      BY <1>2, <3>1, <3>2
  <2>2. CASE ~r.file
    <3>1. objs1 = [y.objs EXCEPT ![o] = anon] /\ o \in Spare(y.objs)
      BY <1>3, <2>2
    <3>2. Sound(objs1, gone, f)
      BY <3>1, SoundNew DEF anon
    <3>3. objs1 \in Objects(P) /\ objs1[o] = anon /\ \A x \in Obj : x # o => objs1[x] = y.objs[x]
      BY <1>2, <1>3, <1>5, <3>1 DEF Objects
    <3>4. y.objs[o].type = "free"
      BY <3>1 DEF Spare
    <3> HIDE DEF objs1
    <3> QED
      BY <1>5, <3>2, <3>3, <3>4
  <2> QED
    BY <2>1, <2>2
<1> HIDE DEF objs1
<1>7. /\ objs2 \in Objects(P)
      /\ objs2[o].type = objs1[o].type /\ objs2[o].next = objs1[o].next
      /\ \A x \in Obj : x # o => objs2[x] = objs1[x]
  <2> DEFINE c == [objs1[o] EXCEPT !.refcount = @ + 1]
  <2>1. objs2 = [objs1 EXCEPT ![o] = c]
    OBVIOUS
  <2>2. objs1[o] \in Cell(P)
    BY <1>3, <1>6 DEF Objects
  <2>3. c \in Cell(P) /\ c.type = objs1[o].type /\ c.next = objs1[o].next
    BY <2>2 DEF Cell
  <2> HIDE DEF c, objs2
  <2>4. objs2 \in Objects(P) /\ objs2[o] = c
    BY <1>3, <1>6, <2>1, <2>3 DEF Objects
  <2>5. \A x \in Obj : x # o => objs2[x] = objs1[x]
    BY <1>6, <2>1 DEF Objects
  <2> QED
    BY <2>3, <2>4, <2>5
<1>8. Sound(objs2, gone, Plus(f, o))
  <2>1. \A x \in Obj : Plus(f, o)[x] = IF x = o THEN f[x] + 1 ELSE f[x]
    BY DEF Plus
  <2>2. objs1[o].type # "free" /\ Sound(objs1, gone, f)
    BY <1>6
  <2> QED
    BY <1>3, <2>1, <2>2, SoundAttached
<1> HIDE DEF objs2
<1>9. y2.objs = objs2 /\ y2.chain = <<new>> \o y.chain /\ y2 \in Loading(P)
  <2>1. <<new>> \o y.chain \in Seq(Area)
    BY <1>2, <1>4, OneInFront
  <2> QED
    BY <1>1, <1>7, <2>1 DEF Loading
<1>10. /\ Cardinality(Spare(objs2)) \in Nat /\ Cardinality(Spare(y.objs)) \in Nat
       /\ Cardinality(Spare(objs2)) + (IF r.file THEN 0 ELSE 1) >= Cardinality(Spare(y.objs))
  <2>1. CASE r.file
    <3>1. \A x \in Obj : objs2[x].type = y.objs[x].type
      <4> TAKE x \in Obj
      <4>1. CASE x = o
        <5>1. y.objs[o].type # "free"
          BY <2>1 DEF o, Sound, FileStays
        <5> QED
          BY <1>3, <1>6, <1>7, <4>1, <5>1
      <4>2. CASE x # o
        BY <1>6, <1>7, <4>2
      <4> QED
        BY <4>1, <4>2
    <3> DEFINE T == {}
    <3>2. T \in SUBSET Obj /\ Cardinality(T) <= 0 /\ 0 \in Nat
      BY FS_EmptySet
    <3>3. \A x \in Obj \ T : y.objs[x].type = "free" => objs2[x].type = "free"
      BY <3>1
    <3> HIDE DEF T
    <3>4. /\ Cardinality(Spare(objs2)) \in Nat /\ Cardinality(Spare(y.objs)) \in Nat
          /\ Cardinality(Spare(objs2)) + 0 >= Cardinality(Spare(y.objs))
      BY <3>2, <3>3, SpareTaken
    <3> QED
      BY <2>1, <3>4
  <2>2. CASE ~r.file
    <3> DEFINE T == {o}
    <3>1. \A x \in Obj \ T : y.objs[x].type = "free" => objs2[x].type = "free"
      BY <1>6, <1>7
    <3>2. T \in SUBSET Obj /\ Cardinality(T) <= 1 /\ 1 \in Nat
      <4>1. Cardinality({o}) = 1
        BY FS_Singleton
      <4> QED
        BY <1>3, <4>1
    <3> HIDE DEF T
    <3>3. /\ Cardinality(Spare(objs2)) \in Nat /\ Cardinality(Spare(y.objs)) \in Nat
          /\ Cardinality(Spare(objs2)) + 1 >= Cardinality(Spare(y.objs))
      BY <3>1, <3>2, SpareTaken
    <3> QED
      BY <2>2, <3>3
  <2> QED
    BY <2>1, <2>2
<1>11. \A x \in Obj : y.objs[x].type # "free" =>
          /\ objs2[x].type = y.objs[x].type /\ objs2[x].next = y.objs[x].next
          /\ x # File => objs2[x].refcount = y.objs[x].refcount
  <2> SUFFICES ASSUME NEW x \in Obj, y.objs[x].type # "free"
               PROVE  /\ objs2[x].type = y.objs[x].type /\ objs2[x].next = y.objs[x].next
                      /\ x # File => objs2[x].refcount = y.objs[x].refcount
    OBVIOUS
  <2>1. objs1[x] = y.objs[x]
    BY <1>6
  <2>2. CASE x = o
    <3>1. x = File
      BY <1>3, <2>2 DEF o, Spare
    <3> QED
      BY <1>7, <2>1, <2>2, <3>1
  <2>3. CASE x # o
    BY <1>7, <2>1, <2>3
  <2> QED
    BY <2>2, <2>3
<1>12. objs2[o].type \notin {"shadow", "free"}
  BY <1>6, <1>7
<1>13. \E n \in Area :
          /\ y2.chain = <<n>> \o y.chain
          /\ Sound(y2.objs, gone, Plus(f, n.src))
          /\ y2.objs[n.src].type \notin {"shadow", "free"}
  BY <1>4, <1>8, <1>9, <1>12
<1> QED
  BY <1>9, <1>10, <1>11, <1>13 DEF y2

-----------------------------------------------------------------------------
\* loadexec() and setupstackandhwregisters(), region by region.
LoadCounts(f, chain) == [x \in Obj |-> f[x] + Times(Sources(chain), x)]

\* What is good after some regions, k of them with an object of their own.
LoadStage(objs, gone, f, k, y) ==
    /\ Sound(y.objs, gone, LoadCounts(f, y.chain))
    /\ Kept(objs, y.objs, {}, {}, {File})
    /\ \A q \in ToSet(y.chain) : y.objs[q.src].type \notin {"shadow", "free"}
    /\ Cardinality(Spare(y.objs)) + k >= Cardinality(Spare(objs))

\* One turn of the loop over the regions of the program.
LEMMA LoadNext ==
    ASSUME NEW P, <<>> \in P, NEW y \in Loading(P), NEW objs, NEW gone, NEW f,
           \A x \in Obj : f[x] \in Nat, NEW k \in Nat, LoadStage(objs, gone, f, k, y),
           NEW r \in Wanted, r.file \/ Cardinality(Spare(objs)) > k
    PROVE  /\ LoadRegion(y, r) \in Loading(P)
           /\ LoadStage(objs, gone, f, k + (IF r.file THEN 0 ELSE 1), LoadRegion(y, r))
<1> DEFINE y2 == LoadRegion(y, r)
           k2 == k + (IF r.file THEN 0 ELSE 1)
           h == LoadCounts(f, y.chain)
           h2 == LoadCounts(f, y2.chain)
<1>1. /\ Sound(y.objs, gone, h) /\ Kept(objs, y.objs, {}, {}, {File})
      /\ \A q \in ToSet(y.chain) : y.objs[q.src].type \notin {"shadow", "free"}
      /\ Cardinality(Spare(y.objs)) + k >= Cardinality(Spare(objs))
  BY DEF LoadStage
<1>2. y.chain \in Seq(Area)
  BY DEF Loading
<1>3. \A x \in Obj : h[x] = f[x] + Times(Sources(y.chain), x) /\ h[x] \in Nat
  <2> TAKE x \in Obj
  <2>1. Times(Sources(y.chain), x) \in Nat
    BY <1>2, SourcesOf, HitsFinite
  <2> QED
    BY <2>1 DEF LoadCounts
<1> HIDE DEF h
<1>4. r.file \/ Spare(y.objs) # {}
  <2> SUFFICES ASSUME ~r.file, Spare(y.objs) = {} PROVE FALSE
    OBVIOUS
  <2>1. Cardinality(Spare(y.objs)) = 0
    BY FS_EmptySet
  <2>2. Cardinality(Spare(objs)) \in Nat
    BY ObjFinite DEF Spare
  <2> QED
    BY <1>1, <2>1, <2>2
<1>5. /\ y2 \in Loading(P)
      /\ \E new \in Area :
           /\ y2.chain = <<new>> \o y.chain
           /\ Sound(y2.objs, gone, Plus(h, new.src))
           /\ y2.objs[new.src].type \notin {"shadow", "free"}
      /\ \A x \in Obj : y.objs[x].type # "free" =>
           /\ y2.objs[x].type = y.objs[x].type /\ y2.objs[x].next = y.objs[x].next
           /\ x # File => y2.objs[x].refcount = y.objs[x].refcount
      /\ Cardinality(Spare(y2.objs)) \in Nat /\ Cardinality(Spare(y.objs)) \in Nat
      /\ Cardinality(Spare(y2.objs)) + (IF r.file THEN 0 ELSE 1) >= Cardinality(Spare(y.objs))
  BY <1>1, <1>3, <1>4, LoadedRegion
<1> HIDE DEF y2
<1>6. PICK new \in Area :
           /\ y2.chain = <<new>> \o y.chain
           /\ Sound(y2.objs, gone, Plus(h, new.src))
           /\ y2.objs[new.src].type \notin {"shadow", "free"}
  BY <1>5
<1>7. Sound(y2.objs, gone, h2)
  <2>1. Sources(y2.chain) = <<new.src>> \o Sources(y.chain)
    BY <1>2, <1>6, SourcesFirst
  <2>2. Sources(y.chain) \in Seq(Obj) /\ new.src \in Obj
    BY <1>2, SourcesOf, SrcIsObj
  <2>3. \A x \in Obj : h2[x] = Plus(h, new.src)[x]
    <3> TAKE x \in Obj
    <3> DEFINE s == new.src
    <3>1. s \in Obj /\ Sources(y2.chain) = <<s>> \o Sources(y.chain)
      BY <2>1, <2>2
    <3>2. Plus(h, s)[x] = h[x] + (IF x = s THEN 1 ELSE 0)
      BY DEF Plus
    <3>3. h2[x] = f[x] + Times(Sources(y2.chain), x)
      BY DEF LoadCounts
    <3> HIDE DEF s, h2
    <3>4. Times(Sources(y2.chain), x) = Times(Sources(y.chain), x) + (IF s = x THEN 1 ELSE 0)
      BY <2>2, <3>1, TimesFirst
    <3>5. Times(Sources(y.chain), x) \in Nat
      BY <2>2, HitsFinite
    <3> QED
      BY <1>3, <3>2, <3>3, <3>4, <3>5 DEF s
  <2> HIDE DEF h2
  <2> QED
    BY <1>6, <2>3, SoundSame
<1>8. Kept(objs, y2.objs, {}, {}, {File})
  BY <1>1, <1>5 DEF Kept
<1>9. \A q \in ToSet(y2.chain) : y2.objs[q.src].type \notin {"shadow", "free"}
  <2>1. ToSet(y2.chain) = {new} \cup ToSet(y.chain)
    BY <1>2, <1>6, OneInFront
  <2>2. \A q \in ToSet(y.chain) : q.src \in Obj
    BY <1>2, SrcIsObj DEF ToSet
  <2> QED
    BY <1>1, <1>5, <1>6, <2>1, <2>2
<1>10. Cardinality(Spare(y2.objs)) + k2 >= Cardinality(Spare(objs))
  <2>1. Cardinality(Spare(objs)) \in Nat
    BY ObjFinite DEF Spare
  <2> QED
    BY <1>1, <1>5, <2>1
<1> QED
  BY <1>5, <1>7, <1>8, <1>9, <1>10 DEF LoadStage, y2

Files(layout) == [i \in DOMAIN layout |-> layout[i].file]

\* The regions without a file are those that need a new object.
LEMMA FilesIs ==
    ASSUME NEW layout \in Seq(Wanted)
    PROVE  /\ Files(layout) \in Seq(BOOLEAN) /\ Len(Files(layout)) = Len(layout)
           /\ Times(Files(layout), FALSE) = AnonRegions(layout)
           /\ AnonRegions(layout) \in Nat
<1> DEFINE s == Files(layout)
<1>1. \A i \in DOMAIN layout : layout[i].file \in BOOLEAN
  <2>1. \A i \in DOMAIN layout : layout[i] \in Wanted
    OBVIOUS
  <2> QED
    BY <2>1 DEF Wanted
<1>2. s \in Seq(BOOLEAN) /\ Len(s) = Len(layout) /\ DOMAIN s = DOMAIN layout
  BY <1>1 DEF Files
<1>3. Hits(s, FALSE) = {i \in DOMAIN layout : ~layout[i].file}
  <2>1. \A i \in DOMAIN layout : s[i] = layout[i].file
    BY DEF Files
  <2> HIDE DEF s
  <2> QED
    BY <1>1, <1>2, <2>1 DEF Hits
<1>4. Times(s, FALSE) = AnonRegions(layout)
  BY <1>3 DEF Times, AnonRegions
<1>5. Times(s, FALSE) \in Nat
  BY <1>2, HitsFinite
<1> QED
  BY <1>2, <1>4, <1>5

\* The whole program: the counts are exact, with its regions among the uses.
LEMMA Loaded ==
    ASSUME NEW objs, NEW gone, NEW f, Sound(objs, gone, f), \A x \in Obj : f[x] \in Nat,
           NEW layout \in Seq(Wanted), Cardinality(Spare(objs)) >= AnonRegions(layout)
    PROVE  LET y == Load(objs, layout)
           IN  /\ y.chain \in Seq(Area) /\ Sound(y.objs, gone, LoadCounts(f, y.chain))
               /\ Kept(objs, y.objs, {}, {}, {File})
               /\ \A q \in ToSet(y.chain) : y.objs[q.src].type \notin {"shadow", "free"}
<1> DEFINE N == Len(layout)
           P == PageLists(objs)
           S == Loading(P)
           none == [objs |-> objs, chain |-> <<>>]
           k(n) == Among(Files(layout), n, FALSE)
           Good(n) == {y \in S : LoadStage(objs, gone, f, k(n), y)}
           good == [n \in 0..N |-> Good(n)]
           step == [u \in (1..N) \X S |-> LoadRegion(u[2], layout[u[1]])]
           Is(g) == g = [i \in 0..N |-> IF i = 0 THEN none ELSE LoadRegion(g[i - 1], layout[i])]
<1>1. N \in Nat /\ objs \in Objects(P) /\ <<>> \in P
  BY DEF Sound, PageLists
<1>2. none \in Good(0)
  <2>1. none \in S
    BY <1>1 DEF Loading
  <2>2. k(0) = 0
    BY AmongNone
  <2>3. Sources(<<>>) = <<>> /\ ToSet(<<>>) = {}
    BY EmptySet DEF Sources
  <2>4. \A x \in Obj : LoadCounts(f, none.chain)[x] = f[x]
    BY <2>3, TimesNone DEF LoadCounts
  <2>5. Sound(none.objs, gone, LoadCounts(f, none.chain))
    BY <2>4, SoundSame
  <2>6. Kept(objs, none.objs, {}, {}, {File})
    BY DEF Kept
  <2>7. Cardinality(Spare(objs)) \in Nat
    BY ObjFinite DEF Spare
  <2>8. LoadStage(objs, gone, f, 0, none)
    BY <2>3, <2>5, <2>6, <2>7 DEF LoadStage
  <2> QED
    BY <2>1, <2>2, <2>8
<1>3. /\ Files(layout) \in Seq(BOOLEAN) /\ Len(Files(layout)) = N
      /\ Times(Files(layout), FALSE) = AnonRegions(layout) /\ AnonRegions(layout) \in Nat
  BY FilesIs
<1>4. \A n \in 1..N : \A y \in Good(n - 1) : LoadRegion(y, layout[n]) \in Good(n)
  <2> SUFFICES ASSUME NEW n \in 1..N, NEW y \in Good(n - 1)
               PROVE  LoadRegion(y, layout[n]) \in Good(n)
    OBVIOUS
  <2> DEFINE r == layout[n]
             m == k(n - 1)
  <2>1. r \in Wanted /\ n - 1 \in Nat /\ n - 1 \in 0..N /\ n \in 0..N /\ (n - 1) + 1 = n
    OBVIOUS
  <2>2. Files(layout)[n] = r.file /\ r.file \in BOOLEAN
    BY <2>1 DEF Files, Wanted
  <2>3. k(n) = m + (IF r.file THEN 0 ELSE 1)
    <3>1. Among(Files(layout), (n - 1) + 1, FALSE)
            = Among(Files(layout), n - 1, FALSE) + (IF Files(layout)[(n - 1) + 1] = FALSE THEN 1 ELSE 0)
      BY <2>1, AmongNext
    <3> QED
      BY <2>1, <2>2, <3>1
  <2>4. /\ m \in Nat /\ k(n) \in Nat
        /\ k(n) <= AnonRegions(layout)
    BY <1>3, <2>1, AmongWithin
  <2>5. y \in S /\ LoadStage(objs, gone, f, m, y)
    OBVIOUS
  <2> HIDE DEF r, m, S, P
  <2>6. r.file \/ Cardinality(Spare(objs)) > m
    <3>1. Cardinality(Spare(objs)) \in Nat
      BY ObjFinite DEF Spare
    <3> HIDE DEF k
    <3> QED
      BY <1>3, <2>3, <2>4, <3>1
  <2>7. /\ LoadRegion(y, r) \in S
        /\ LoadStage(objs, gone, f, m + (IF r.file THEN 0 ELSE 1), LoadRegion(y, r))
    BY <1>1, <2>1, <2>4, <2>5, <2>6, LoadNext DEF S
  <2> HIDE DEF k
  <2>8. LoadRegion(y, r) \in S /\ LoadStage(objs, gone, f, k(n), LoadRegion(y, r))
    BY <2>3, <2>7
  <2> QED
    BY <2>8 DEF r
<1>5. good \in [0..N -> SUBSET S] /\ none \in good[0]
  <2>1. \A n : Good(n) \in SUBSET S
    OBVIOUS
  <2>2. 0 \in 0..N
    BY <1>1
  <2> HIDE DEF Good
  <2> QED
    BY <1>2, <2>1, <2>2
<1>6. \A n \in 0..N : good[n] = Good(n)
  OBVIOUS
<1>7. \A n \in 1..N : n \in 0..N /\ n - 1 \in 0..N
  BY <1>1
<1>8. \A n \in 0..N : \A y \in Good(n) : y \in S
  OBVIOUS
<1>9. \A n \in 1..N : \A y \in S : step[<<n, y>>] = LoadRegion(y, layout[n])
  OBVIOUS
<1> HIDE DEF good, step, Good, S, none
<1>10. \A n \in 1..N : \A y \in good[n - 1] : step[<<n, y>>] \in good[n]
  <2> SUFFICES ASSUME NEW n \in 1..N, NEW y \in good[n - 1] PROVE step[<<n, y>>] \in good[n]
    OBVIOUS
  <2>1. y \in Good(n - 1) /\ y \in S
    BY <1>6, <1>7, <1>8
  <2>2. LoadRegion(y, layout[n]) \in Good(n)
    BY <1>4, <2>1
  <2> QED
    BY <1>6, <1>7, <1>9, <2>1, <2>2
<1>11. PICK g \in [0..N -> S] :
          /\ g[0] = none /\ \A n \in 1..N : g[n] = step[<<n, g[n - 1]>>]
          /\ \A n \in 0..N : g[n] \in good[n]
  <2>1. N \in Nat
    BY <1>1
  <2> HIDE DEF N, Is
  <2>2. Leads(N, S, good, none, step)
    BY <1>5, <1>10 DEF Leads
  <2> QED
    BY <2>1, <2>2, Stages
<1>12. Is(g)
  <2>1. \A n \in 1..N : g[n] = LoadRegion(g[n - 1], layout[n])
    <3> TAKE n \in 1..N
    <3> HIDE DEF N
    <3>1. g[n] = step[<<n, g[n - 1]>>]
      BY <1>11
    <3>2. g[n - 1] \in S
      BY <1>7, <1>11
    <3> QED
      BY <1>9, <3>1, <3>2
  <2>2. \A n \in 0..N : g[n] = IF n = 0 THEN none ELSE LoadRegion(g[n - 1], layout[n])
    BY <1>11, <2>1
  <2>3. g = [n \in 0..N |-> g[n]]
    BY <1>11
  <2> QED
    BY <2>2, <2>3
<1> DEFINE h == CHOOSE g2 : Is(g2)
<1>13. Is(h)
  <2> HIDE DEF Is
  <2> QED
    BY <1>12
<1>14. Load(objs, layout) = h[N]
  BY DEF Load, none
<1>15. h[0] = none /\ \A n \in 1..N : h[n] = LoadRegion(h[n - 1], layout[n])
  <2> HIDE DEF h
  <2>1. h = [i \in 0..N |-> IF i = 0 THEN none ELSE LoadRegion(h[i - 1], layout[i])]
    BY <1>13
  <2> HIDE DEF N, Is
  <2>2. \A n \in 0..N : h[n] = IF n = 0 THEN none ELSE LoadRegion(h[n - 1], layout[n])
    BY <2>1
  <2>3. 0 \in 0..N /\ \A n \in 1..N : n # 0
    BY <1>1
  <2> QED
    BY <1>7, <2>2, <2>3
<1> HIDE DEF h, Is
<1> DEFINE T == {n \in 0..N : h[n] \in Good(n)}
<1>16. \A n \in 0..N : n \in T
  <2>1. 0 \in T
    <3>1. 0 \in 0..N /\ h[0] = none /\ none \in Good(0)
      BY <1>1, <1>2, <1>15
    <3> QED
      BY <3>1
  <2>2. \A n \in 0..(N - 1) : n \in T => n + 1 \in T
    <3> SUFFICES ASSUME NEW n \in 0..(N - 1), n \in T PROVE n + 1 \in T
      OBVIOUS
    <3>1. n + 1 \in 1..N /\ (n + 1) - 1 = n /\ n + 1 \in 0..N
      BY <1>1
    <3>2. h[n + 1] = LoadRegion(h[n], layout[n + 1])
      BY <1>15, <3>1
    <3>3. h[n + 1] \in Good(n + 1)
      BY <1>4, <3>1, <3>2
    <3> QED
      BY <3>1, <3>3
  <2>3. T \in SUBSET Nat
    OBVIOUS
  <2> HIDE DEF T
  <2> QED
    BY <1>1, <2>1, <2>2, <2>3, Climb
<1>17. h[N] \in Good(N)
  BY <1>1, <1>16
<1>18. h[N].chain \in Seq(Area) /\ LoadStage(objs, gone, f, k(N), h[N])
  BY <1>17 DEF Good, S, Loading
<1> QED
  BY <1>14, <1>18 DEF LoadStage

-----------------------------------------------------------------------------
\* A process takes another chain and begins to free what it shows no more.
Showed(objs, chain, todo) ==
    \A i \in DOMAIN chain :
        LET s == chain[i].src
        IN  objs[s].type = "shadow" =>
              /\ chain[i].type # "ro"
              /\ objs[s].refcount = Times(Sources(chain), s) + Times(todo, s)

\* What p shows, what it is still to free, and what the others use.
FreeingCounts(p, chain, todo) ==
    [x \in Obj |-> Times(Sources(chain), x) + Times(todo, x)
                     + UsesBy(regions, op, Proc \ {p}, x)]

\* A process drops regions, and starts to free the objects they showed.
LEMMA FreeingStep ==
    ASSUME InvNow, NEW p \in Proc, NEW chain2 \in Seq(Area), NEW todo \in Seq(Obj),
           NEW then \in {"user", "map", "exit"}, NEW map \in Seq(Wanted),
           then = "map" => map # <<>>, then = "exit" => chain2 = <<>>,
           NEW S, Undisturbed(object, regions, op, olock, p, object', olock', {}, {}, S),
           Sound(object', Rest(op, p), FreeingCounts(p, chain2, todo)),
           Showed(object', chain2, todo),
           regions' = [regions EXCEPT ![p] = chain2],
           op' = [op EXCEPT ![p] = Freeing(p, todo, then, map)], olock' = olock
    PROVE  InvNext
<1> DEFINE t2 == Freeing(p, todo, then, map)
           f2 == FreeingCounts(p, chain2, todo)
<1>1. /\ TaskSound(t2, chain2) /\ t2.held = <<>> /\ t2.at \in FreeingAts
      /\ \A x : Coming(t2, x) = Times(todo, x)
  BY FreeingIs, ZenonT(60)
<1>2. op' = [op EXCEPT ![p] = t2]
  OBVIOUS
<1> HIDE DEF t2
<1>3. t2.todo \in Seq(Obj)
  BY <1>1, TaskParts DEF TaskSound
<1>4. \A x : /\ Mine(chain2, t2, x) = Times(Sources(chain2), x) + Times(todo, x)
             /\ Mine(chain2, t2, x) \in Nat
  <2> TAKE x
  <2>1. Mine(chain2, t2, x) = Times(Sources(chain2), x) + Coming(t2, x)
    BY <1>3, MineIs
  <2>2. Times(Sources(chain2), x) \in Nat /\ Coming(t2, x) \in Nat
    BY <1>3, MineIs
  <2> QED
    BY <1>1, <2>1, <2>2
<1>5. \A x \in Obj : f2[x] = Mine(chain2, t2, x) + UsesBy(regions, op, Proc \ {p}, x)
  BY <1>4 DEF FreeingCounts
<1>6. GaveBack(t2) = {} /\ t2.at \notin Locking \cup {"lock_sub"}
  <2>1. t2.at \notin Deciding \cup Locking \cup {"lock_sub"}
    BY <1>1, NotDeciding
  <2>2. ToSet(t2.held) = {}
    BY <1>1, EmptySet
  <2> QED
    BY <2>1, <2>2 DEF GaveBack
<1>7. ShadowsPrivate(object', chain2, t2)
  BY <1>4 DEF Showed, ShadowsPrivate
<1>8. Process(p, object', chain2, t2, olock')
  <2>1. ToSet(t2.held) = {}
    BY <1>1, EmptySet
  <2>2. \A x \in ToSet(t2.held) :
           /\ object'[x].type = "file" \/ (object'[x].type # "free" /\ object'[x].refcount = 0)
           /\ olock'[x] = p
    BY <2>1
  <2> QED
    BY <1>1, <1>6, <1>7, <2>2, FreeingProcess
<1>9. Sound(object', Rest(op, p) \cup GaveBack(t2), f2)
  <2>1. Rest(op, p) \cup GaveBack(t2) = Rest(op, p)
    BY <1>6
  <2> QED
    BY <2>1
<1>10. olock' = [x \in Obj |-> olock'[x]]
  BY PartsNow
<1>11. Holds(object, regions, op, olock)
  BY DEF InvNow
<1> HIDE DEF f2
<1>12. Holds(object', [regions EXCEPT ![p] = chain2], [op EXCEPT ![p] = t2], olock')
  BY <1>5, <1>8, <1>9, <1>10, <1>11, OneStep
<1> QED
  BY <1>2, <1>12 DEF InvNext

\* A process in user mode holds references by its regions only.
LEMMA QuietNow ==
    ASSUME InvNow, NEW p \in Proc, op[p].at \in Quiet
    PROVE  /\ regions[p] \in Seq(Area) /\ Sources(regions[p]) \in Seq(Obj)
           /\ Sound(object, Rest(op, p), FreeingCounts(p, regions[p], <<>>))
           /\ \A x \in Obj :
                /\ FreeingCounts(p, regions[p], <<>>)[x]
                     = Times(Sources(regions[p]), x) + UsesBy(regions, op, Proc \ {p}, x)
                /\ FreeingCounts(p, regions[p], <<>>)[x] \in Nat
                /\ Times(Sources(regions[p]), x) \in Nat
                /\ Mine(regions[p], op[p], x) = Times(Sources(regions[p]), x)
                /\ UsesBy(regions, op, Proc \ {p}, x) \in Nat
           /\ Showed(object, regions[p], <<>>)
<1> DEFINE chain == regions[p]
           t == op[p]
           f == Counts(regions, op, p)
           f2 == FreeingCounts(p, chain, <<>>)
<1>1. /\ chain \in Seq(Area) /\ TaskSound(t, chain) /\ ShadowsPrivate(object, chain, t)
  BY PartsNow
<1>2. Sources(chain) \in Seq(Obj)
  BY <1>1, SourcesOf
<1> HIDE DEF chain, t
<1>3. \A x : /\ Mine(chain, t, x) = Times(Sources(chain), x)
             /\ Times(Sources(chain), x) \in Nat
  BY <1>1, QuietMine DEF t
<1>4. GaveBack(t) = {}
  BY <1>1, QuietTask DEF t
<1>5. /\ \A x \in Obj : /\ f[x] = Mine(chain, t, x) + UsesBy(regions, op, Proc \ {p}, x)
                        /\ UsesBy(regions, op, Proc \ {p}, x) \in Nat
      /\ GoneBy(op, Proc) = Rest(op, p) \cup GaveBack(t)
      /\ Sound(object, GoneBy(op, Proc), f)
  BY CountsNow DEF chain, t
<1> HIDE DEF f
<1>6. \A x \in Obj : /\ f2[x] = Times(Sources(chain), x) + UsesBy(regions, op, Proc \ {p}, x)
                     /\ f2[x] \in Nat
  <2> TAKE x \in Obj
  <2>1. f2[x] = Times(Sources(chain), x) + Times(<<>>, x) + UsesBy(regions, op, Proc \ {p}, x)
    BY DEF FreeingCounts
  <2> HIDE DEF f2
  <2>2. Times(<<>>, x) = 0
    BY TimesNone
  <2>3. Times(Sources(chain), x) \in Nat
    BY <1>3
  <2>4. UsesBy(regions, op, Proc \ {p}, x) \in Nat
    BY <1>5
  <2> QED
    BY <2>1, <2>2, <2>3, <2>4
<1> HIDE DEF f2
<1>7. Sound(object, Rest(op, p), f2)
  <2>1. GoneBy(op, Proc) = Rest(op, p)
    BY <1>4, <1>5
  <2>2. \A x \in Obj : f2[x] = f[x]
    <3> TAKE x \in Obj
    <3>1. Mine(chain, t, x) = Times(Sources(chain), x)
      BY <1>3
    <3>2. f[x] = Mine(chain, t, x) + UsesBy(regions, op, Proc \ {p}, x)
      BY <1>5
    <3>3. f2[x] = Times(Sources(chain), x) + UsesBy(regions, op, Proc \ {p}, x)
      BY <1>6
    <3> QED
      BY <3>1, <3>2, <3>3
  <2>3. Sound(object, Rest(op, p), f)
    BY <1>5, <2>1
  <2> QED
    BY <2>2, <2>3, SoundSame
<1>8. Showed(object, chain, <<>>)
  <2> SUFFICES ASSUME NEW i \in DOMAIN chain, object[chain[i].src].type = "shadow"
               PROVE  /\ chain[i].type # "ro"
                      /\ object[chain[i].src].refcount
                           = Times(Sources(chain), chain[i].src) + Times(<<>>, chain[i].src)
    BY DEF Showed
  <2>1. chain[i].type # "ro" /\ object[chain[i].src].refcount = Mine(chain, t, chain[i].src)
    BY <1>1 DEF ShadowsPrivate
  <2> DEFINE s == chain[i].src
  <2>2. object[s].refcount = Mine(chain, t, s) /\ chain[i].type # "ro"
    BY <2>1
  <2> HIDE DEF s
  <2>3. Times(<<>>, s) = 0 /\ Mine(chain, t, s) = Times(Sources(chain), s)
        /\ Times(Sources(chain), s) \in Nat
    BY <1>3, TimesNone
  <2>4. object[s].refcount = Times(Sources(chain), s) + Times(<<>>, s)
    BY <2>2, <2>3
  <2> QED
    BY <2>2, <2>4 DEF s
<1> QED
  BY <1>1, <1>2, <1>3, <1>5, <1>6, <1>7, <1>8 DEF chain, f2, t

\* proc_exit() gives back all regions.
LEMMA ExitKeeps ==
    ASSUME InvNow, NEW p \in Proc, Exit(p)
    PROVE  InvNext
<1> DEFINE chain == regions[p]
           todo == Sources(chain)
           f == FreeingCounts(p, chain, <<>>)
           f2 == FreeingCounts(p, <<>>, todo)
<1>1. /\ regions' = [regions EXCEPT ![p] = <<>>] /\ UNCHANGED <<object, olock>>
      /\ op' = [op EXCEPT ![p] = Freeing(p, todo, "exit", <<>>)] /\ op[p] = User
  BY DEF Exit, locks
<1>2. op[p].at \in Quiet
  BY <1>1, UserSound
<1>3. /\ chain \in Seq(Area) /\ todo \in Seq(Obj)
      /\ Sound(object, Rest(op, p), f)
      /\ \A x \in Obj :
           /\ f[x] = Times(todo, x) + UsesBy(regions, op, Proc \ {p}, x)
           /\ Times(todo, x) \in Nat /\ UsesBy(regions, op, Proc \ {p}, x) \in Nat
  BY <1>2, QuietNow
<1> HIDE DEF chain, todo, f
<1>4. \A x \in Obj : f2[x] = f[x]
  <2> TAKE x \in Obj
  <2>1. f2[x] = Times(Sources(<<>>), x) + Times(todo, x) + UsesBy(regions, op, Proc \ {p}, x)
    BY DEF FreeingCounts
  <2>2. Sources(<<>>) = <<>> /\ Times(<<>>, x) = 0
    BY TimesNone DEF Sources
  <2>3. /\ f[x] = Times(todo, x) + UsesBy(regions, op, Proc \ {p}, x)
        /\ Times(todo, x) \in Nat /\ UsesBy(regions, op, Proc \ {p}, x) \in Nat
    BY <1>3
  <2> HIDE DEF f2
  <2>4. Times(Sources(<<>>), x) = 0
    BY <2>2
  <2> QED
    BY <2>1, <2>3, <2>4
<1> HIDE DEF f2
<1>5. Sound(object', Rest(op, p), f2)
  <2>1. Sound(object, Rest(op, p), f2)
    BY <1>3, <1>4, SoundSame
  <2> QED
    BY <1>1, <2>1
<1>6. Showed(object', <<>>, todo)
  BY DEF Showed
<1>7. Undisturbed(object, regions, op, olock, p, object', olock', {}, {}, {})
  <2>1. \A x \in Obj : Alike(object[x], object'[x])
    BY <1>1 DEF Alike
  <2>2. \A x \in Obj : olock[x] \in Proc \ {p} => olock'[x] = olock[x]
    BY <1>1
  <2> QED
    BY <2>1, <2>2, AlikeUndisturbed
<1>8. <<>> \in Seq(Area) /\ <<>> \in Seq(Wanted) /\ "exit" \in {"user", "map", "exit"}
      /\ "exit" # "map" /\ olock' = olock
  BY <1>1
<1>9. regions' = [regions EXCEPT ![p] = <<>>]
      /\ op' = [op EXCEPT ![p] = Freeing(p, todo, "exit", <<>>)]
  BY <1>1
<1> QED
  BY <1>3, <1>5, <1>6, <1>7, <1>8, <1>9, FreeingStep DEF f2

\* A change of the count of the executable disturbs nobody.
LEMMA FileUndisturbed ==
    ASSUME NEW p \in Proc, Kept(object, object', {}, {}, {File}), olock' = olock
    PROVE  Undisturbed(object, regions, op, olock, p, object', olock', {}, {}, {File})
<1>1. {File} \in SUBSET Obj
  BY ZeroNotObj
<1> QED
  BY <1>1 DEF Undisturbed

\* sys_execve(): the old regions go, and those of the new program come in their place.
LEMMA ExecveKeeps ==
    ASSUME InvNow, NEW p \in Proc, NEW layout \in Layouts, Execve(p, layout)
    PROVE  InvNext
<1> DEFINE chain == regions[p]
           todo == Sources(chain)
           st == Load(object, layout)
           chain2 == st.chain
           f == FreeingCounts(p, chain, <<>>)
           f2 == FreeingCounts(p, chain2, todo)
<1>1. /\ object' = st.objs /\ regions' = [regions EXCEPT ![p] = chain2] /\ olock' = olock
      /\ op' = [op EXCEPT ![p] = Freeing(p, todo, "user", <<>>)] /\ op[p] = User
      /\ Cardinality(Spare(object)) >= AnonRegions(layout)
  BY DEF Execve, locks
<1>2. op[p].at \in Quiet
  BY <1>1, UserSound
<1>3. layout \in Seq(Wanted)
  BY LayoutsAssumption
<1>4. /\ chain \in Seq(Area) /\ todo \in Seq(Obj)
      /\ Sound(object, Rest(op, p), f)
      /\ \A x \in Obj :
           /\ f[x] = Times(todo, x) + UsesBy(regions, op, Proc \ {p}, x)
           /\ f[x] \in Nat
           /\ Times(todo, x) \in Nat /\ UsesBy(regions, op, Proc \ {p}, x) \in Nat
  BY <1>2, QuietNow
<1> HIDE DEF chain, todo, f
<1>5. /\ chain2 \in Seq(Area) /\ Sound(st.objs, Rest(op, p), LoadCounts(f, chain2))
      /\ Kept(object, st.objs, {}, {}, {File})
      /\ \A q \in ToSet(chain2) : st.objs[q.src].type \notin {"shadow", "free"}
  <2>1. /\ Sound(object, Rest(op, p), f) /\ \A x \in Obj : f[x] \in Nat
        /\ Cardinality(Spare(object)) >= AnonRegions(layout)
    BY <1>1, <1>4
  <2> QED
    BY <1>3, <2>1, Loaded
<1> HIDE DEF st
<1>6. \A x \in Obj : f2[x] = LoadCounts(f, chain2)[x]
  <2> TAKE x \in Obj
  <2>1. f2[x] = Times(Sources(chain2), x) + Times(todo, x) + UsesBy(regions, op, Proc \ {p}, x)
    BY DEF FreeingCounts
  <2>2. LoadCounts(f, chain2)[x] = f[x] + Times(Sources(chain2), x)
    BY DEF LoadCounts
  <2>3. /\ f[x] = Times(todo, x) + UsesBy(regions, op, Proc \ {p}, x)
        /\ Times(todo, x) \in Nat /\ UsesBy(regions, op, Proc \ {p}, x) \in Nat
    BY <1>4
  <2> HIDE DEF f2, chain2
  <2>4. Times(Sources(chain2), x) \in Nat
    BY <1>5, SourcesOf, HitsFinite
  <2> QED
    BY <2>1, <2>2, <2>3, <2>4
<1> HIDE DEF f2
<1>7. Sound(object', Rest(op, p), f2)
  <2>1. Sound(st.objs, Rest(op, p), f2)
    BY <1>5, <1>6, SoundSame
  <2> QED
    BY <1>1, <2>1
<1>8. Showed(object', chain2, todo)
  BY <1>1, <1>5 DEF Showed, ToSet
<1>9. Undisturbed(object, regions, op, olock, p, object', olock', {}, {}, {File})
  BY <1>1, <1>5, FileUndisturbed
<1>10. <<>> \in Seq(Wanted) /\ "user" \in {"user", "map", "exit"} /\ "user" # "map"
       /\ "user" # "exit" /\ olock' = olock
  BY <1>1
<1>11. regions' = [regions EXCEPT ![p] = chain2]
       /\ op' = [op EXCEPT ![p] = Freeing(p, todo, "user", <<>>)]
  BY <1>1
<1> HIDE DEF chain2
<1> QED
  BY <1>4, <1>5, <1>7, <1>8, <1>9, <1>10, <1>11, FreeingStep DEF f2

\* sys_mmap() attaches the new region when what it replaces is freed.
LEMMA AttachKeeps ==
    ASSUME InvNow, NEW p \in Proc, Attach(p)
    PROVE  InvNext
<1> DEFINE chain == regions[p]
           r == Head(op[p].map)
           y == [objs |-> object, chain |-> chain]
           st == LoadRegion(y, r)
           chain2 == st.chain
           f == FreeingCounts(p, chain, <<>>)
           f2 == FreeingCounts(p, chain2, <<>>)
           P == PageLists(object)
<1>1. /\ object' = st.objs /\ regions' = [regions EXCEPT ![p] = chain2] /\ olock' = olock
      /\ op' = [op EXCEPT ![p] = User] /\ op[p].at = "freed"
      /\ r.file \/ Spare(object) # {}
  BY DEF Attach, locks
<1>2. op[p].at \in Quiet
  BY <1>1 DEF Quiet
<1>3. /\ chain \in Seq(Area)
      /\ Sound(object, Rest(op, p), f)
      /\ \A x \in Obj :
           /\ f[x] = Times(Sources(chain), x) + UsesBy(regions, op, Proc \ {p}, x)
           /\ f[x] \in Nat
           /\ Times(Sources(chain), x) \in Nat /\ UsesBy(regions, op, Proc \ {p}, x) \in Nat
      /\ Showed(object, chain, <<>>)
  BY <1>2, QuietNow
<1>4. r \in Wanted
  <2>1. TaskSound(op[p], chain) /\ op[p] \in Tasks(op[p])
    BY PartsNow
  <2>2. op[p].map # <<>> /\ op[p].map \in Seq(Wanted)
    BY <1>1, <2>1, TaskParts DEF TaskSound
  <2> QED
    BY <2>2
<1>5. y \in Loading(P) /\ <<>> \in P /\ y.objs = object /\ y.chain = chain
  BY <1>3 DEF Sound, PageLists, Loading
<1> HIDE DEF chain, r, f, y, P
<1>6. /\ st \in Loading(P)
      /\ \E new \in Area :
           /\ st.chain = <<new>> \o chain
           /\ Sound(st.objs, Rest(op, p), Plus(f, new.src))
           /\ st.objs[new.src].type \notin {"shadow", "free"}
      /\ \A x \in Obj : object[x].type # "free" =>
           /\ st.objs[x].type = object[x].type /\ st.objs[x].next = object[x].next
           /\ x # File => st.objs[x].refcount = object[x].refcount
  <2>1. /\ Sound(y.objs, Rest(op, p), f) /\ \A x \in Obj : f[x] \in Nat
        /\ r.file \/ Spare(y.objs) # {}
    BY <1>1, <1>3, <1>5
  <2>2. /\ st \in Loading(P)
        /\ \E new \in Area :
             /\ st.chain = <<new>> \o y.chain
             /\ Sound(st.objs, Rest(op, p), Plus(f, new.src))
             /\ st.objs[new.src].type \notin {"shadow", "free"}
        /\ \A x \in Obj : y.objs[x].type # "free" =>
             /\ st.objs[x].type = y.objs[x].type /\ st.objs[x].next = y.objs[x].next
             /\ x # File => st.objs[x].refcount = y.objs[x].refcount
        /\ Cardinality(Spare(st.objs)) \in Nat /\ Cardinality(Spare(y.objs)) \in Nat
        /\ Cardinality(Spare(st.objs)) + (IF r.file THEN 0 ELSE 1) >= Cardinality(Spare(y.objs))
    <3>1. y \in Loading(P) /\ <<>> \in P
      BY <1>5
    <3> QED
      BY <1>4, <2>1, <3>1, LoadedRegion
  <2> QED
    BY <1>5, <2>2
<1> HIDE DEF st
<1>7. PICK new \in Area :
           /\ chain2 = <<new>> \o chain
           /\ Sound(st.objs, Rest(op, p), Plus(f, new.src))
           /\ st.objs[new.src].type \notin {"shadow", "free"}
  BY <1>6
<1>8. chain2 \in Seq(Area) /\ Sources(chain2) = <<new.src>> \o Sources(chain)
  BY <1>3, <1>7, OneInFront, SourcesFirst, SMTT(40)
<1> HIDE DEF chain2
<1>9. /\ new.src \in Obj /\ Sources(chain) \in Seq(Obj)
      /\ \A x : Times(Sources(chain2), x)
                   = Times(Sources(chain), x) + (IF new.src = x THEN 1 ELSE 0)
  <2>1. new.src \in Obj /\ Sources(chain) \in Seq(Obj)
    BY <1>3, SourcesOf, SrcIsObj
  <2> DEFINE s == new.src
  <2>2. s \in Obj /\ Sources(chain2) = <<s>> \o Sources(chain)
    BY <1>8, <2>1
  <2> HIDE DEF s
  <2>3. \A x : Times(Sources(chain2), x) = Times(Sources(chain), x) + (IF s = x THEN 1 ELSE 0)
    BY <2>1, <2>2, TimesFirst
  <2> QED
    BY <2>1, <2>3 DEF s
<1>10. \A x \in Obj : f2[x] = Plus(f, new.src)[x]
  <2> TAKE x \in Obj
  <2> DEFINE s == new.src
  <2>1. f2[x] = Times(Sources(chain2), x) + Times(<<>>, x) + UsesBy(regions, op, Proc \ {p}, x)
    BY DEF FreeingCounts
  <2>2. Plus(f, s)[x] = f[x] + (IF x = s THEN 1 ELSE 0)
    BY DEF Plus
  <2>3. /\ f[x] = Times(Sources(chain), x) + UsesBy(regions, op, Proc \ {p}, x)
        /\ Times(Sources(chain), x) \in Nat /\ UsesBy(regions, op, Proc \ {p}, x) \in Nat
    BY <1>3
  <2>4. Times(Sources(chain2), x) = Times(Sources(chain), x) + (IF s = x THEN 1 ELSE 0)
    BY <1>9
  <2>5. Times(<<>>, x) = 0
    BY TimesNone
  <2> HIDE DEF f2, s
  <2>6. f2[x] = Plus(f, s)[x]
    BY <2>1, <2>2, <2>3, <2>4, <2>5
  <2> QED
    BY <2>6 DEF s
<1> HIDE DEF f2
<1>11. Sound(object', Rest(op, p), f2)
  <2>1. Sound(st.objs, Rest(op, p), f2)
    BY <1>7, <1>10, SoundSame
  <2> QED
    BY <1>1, <2>1
<1>12. Showed(object', chain2, <<>>)
  <2> SUFFICES ASSUME NEW i \in DOMAIN chain2, st.objs[chain2[i].src].type = "shadow"
               PROVE  /\ chain2[i].type # "ro"
                      /\ st.objs[chain2[i].src].refcount
                           = Times(Sources(chain2), chain2[i].src) + Times(<<>>, chain2[i].src)
    BY <1>1 DEF Showed
  <2>1. chain2[i] # new
    BY <1>7
  <2>2. chain2[i] \in ToSet(chain2) /\ ToSet(chain2) = {new} \cup ToSet(chain)
    <3>1. ToSet(chain2) = {new} \cup ToSet(chain)
      BY <1>3, <1>7, OneInFront
    <3> QED
      BY <3>1 DEF ToSet
  <2>3. PICK j \in DOMAIN chain : chain[j] = chain2[i]
    BY <2>1, <2>2 DEF ToSet
  <2> DEFINE s == chain[j].src
  <2>4. s \in Obj /\ st.objs[s].type = "shadow"
    BY <1>3, <2>3, SrcIsObj
  <2>5. s = chain2[i].src /\ chain2[i].type = chain[j].type
    BY <2>3
  <2>6. Times(Sources(chain), s) >= 1
    <3>1. Sources(chain) \in Seq(Obj) /\ j \in DOMAIN Sources(chain) /\ Sources(chain)[j] = s
      BY <1>3, SourcesOf
    <3> HIDE DEF s
    <3> QED
      BY <3>1, TimesThere
  <2>7. object[s].type = "shadow" => chain[j].type # "ro" /\
            object[s].refcount = Times(Sources(chain), s) + Times(<<>>, s)
    BY <1>3 DEF Showed
  <2> HIDE DEF s
  <2>8. object[s].type # "free"
    <3>1. f[s] \in Nat /\ f[s] >= 1
      <4>1. /\ f[s] = Times(Sources(chain), s) + UsesBy(regions, op, Proc \ {p}, s)
            /\ f[s] \in Nat
            /\ Times(Sources(chain), s) \in Nat /\ UsesBy(regions, op, Proc \ {p}, s) \in Nat
        BY <1>3, <2>4
      <4> QED
        BY <2>6, <4>1
    <3> QED
      BY <1>3, <2>4, <3>1, ReferencedInUse
  <2>9. object[s].type = "shadow"
    BY <1>6, <2>4, <2>8
  <2>10. s # File
    BY <1>3, <2>9 DEF Sound, FileStays
  <2>11. st.objs[s].refcount = object[s].refcount
    BY <1>6, <2>4, <2>8, <2>10
  <2>12. Times(Sources(chain2), s) = Times(Sources(chain), s)
    <3>1. new.src # s
      BY <1>7, <2>4
    <3>2. Times(Sources(chain), s) \in Nat
      BY <1>3, <2>4
    <3>3. Times(Sources(chain2), s) = Times(Sources(chain), s) + (IF new.src = s THEN 1 ELSE 0)
      BY <1>9
    <3> QED
      BY <3>1, <3>2, <3>3
  <2>13. chain[j].type # "ro" /\ st.objs[s].refcount = Times(Sources(chain2), s) + Times(<<>>, s)
    BY <2>7, <2>9, <2>11, <2>12
  <2> QED
    BY <2>5, <2>13
<1>13. Undisturbed(object, regions, op, olock, p, object', olock', {}, {}, {File})
  <2>1. Kept(object, object', {}, {}, {File})
    BY <1>1, <1>6 DEF Kept
  <2> QED
    BY <1>1, <2>1, FileUndisturbed
<1>14. <<>> \in Seq(Wanted) /\ <<>> \in Seq(Obj) /\ "user" \in {"user", "map", "exit"}
       /\ "user" # "map" /\ "user" # "exit" /\ olock' = olock
  BY <1>1
<1>15. regions' = [regions EXCEPT ![p] = chain2]
       /\ op' = [op EXCEPT ![p] = Freeing(p, <<>>, "user", <<>>)]
  <2>1. Freeing(p, <<>>, "user", <<>>) = User
    BY DEF Freeing
  <2> QED
    BY <1>1, <2>1
<1> QED
  BY <1>8, <1>11, <1>12, <1>13, <1>14, <1>15, FreeingStep DEF f2

-----------------------------------------------------------------------------
\* sys_munmap(), region by region.
Unmapping(P) == [objs : Objects(P), chain : Seq(Area), todo : Seq(Obj), gone : BOOLEAN]

\* A region is given up, kept in part, or kept in two parts.
GivenUp(y, y2, r) ==
    y2.objs = y.objs /\ y2.chain = y.chain /\ y2.todo = Append(y.todo, r.src)

PartOf(q, r) == q \in Area /\ q.src = r.src /\ q.type = r.type

KeptInPart(y, y2, r) ==
    /\ y2.objs = y.objs /\ y2.todo = y.todo
    /\ \E q : PartOf(q, r) /\ y2.chain = Append(y.chain, q)

KeptInTwo(y, y2, r) ==
    /\ y2.objs = Attached(y.objs, r) /\ y2.todo = y.todo
    /\ \E q, q2 : PartOf(q, r) /\ PartOf(q2, r) /\ y2.chain = <<q2>> \o Append(y.chain, q)

\* An object with one reference more.
LEMMA AttachedIs ==
    ASSUME NEW P, NEW objs \in Objects(P), NEW r \in Area
    PROVE  LET objs2 == Attached(objs, r)
           IN  /\ objs2 \in Objects(P)
               /\ \A x \in Obj :
                     /\ objs2[x].type = objs[x].type /\ objs2[x].next = objs[x].next
                     /\ x # r.src => objs2[x].refcount = objs[x].refcount
<1> DEFINE o == r.src
           objs2 == Attached(objs, r)
           c == [objs[o] EXCEPT !.refcount = @ + 1]
<1>1. o \in Obj
  BY SrcIsObj
<1>2. objs2 = [objs EXCEPT ![o] = c]
  BY DEF Attached
<1> HIDE DEF o, objs2
<1>3. objs[o] \in Cell(P)
  BY <1>1 DEF Objects
<1>4. c \in Cell(P) /\ c.type = objs[o].type /\ c.next = objs[o].next
  BY <1>3 DEF Cell
<1> HIDE DEF c
<1>5. objs2 \in Objects(P) /\ objs2[o] = c
  BY <1>1, <1>2, <1>4 DEF Objects
<1>6. \A x \in Obj : x # o => objs2[x] = objs[x]
  BY <1>2 DEF Objects
<1>7. \A x \in Obj : /\ objs2[x].type = objs[x].type /\ objs2[x].next = objs[x].next
                     /\ x # o => objs2[x].refcount = objs[x].refcount
  BY <1>4, <1>5, <1>6
<1> QED
  BY <1>5, <1>7 DEF o, objs2

\* A region may be given up, kept in part, or kept in two parts.
LEMMA UnmapRegionIs ==
    ASSUME NEW P, NEW y \in Unmapping(P), NEW r \in Area, NEW lo \in Int, NEW hi \in Int,
           NEW y2, y2 = UnmapRegion(y, r, lo, hi)
    PROVE  y2 \in Unmapping(P) /\ (GivenUp(y, y2, r) \/ KeptInPart(y, y2, r) \/ KeptInTwo(y, y2, r))
<1> DEFINE upper == [r EXCEPT !.lo = hi + 1, !.off = @ + hi + 1 - r.lo, !.data = FALSE]
           upper2 == [upper EXCEPT !.data = r.data]
           lower == [r EXCEPT !.hi = lo - 1]
           all == [y EXCEPT !.todo = Append(@, r.src), !.gone = @ \/ r.data]
           head == [y EXCEPT !.chain = Append(@, lower)]
           tail == [y EXCEPT !.chain = Append(@, upper2)]
           both == [y EXCEPT !.chain = <<upper>> \o Append(@, lower), !.objs = Attached(@, r)]
           same == [y EXCEPT !.chain = Append(@, r)]
<1>1. y2 \in {all, head, tail, both, same}
  <2>1. y2 = CASE r.lo >= lo /\ r.hi <= hi -> all
               [] r.lo < lo /\ r.hi >= lo /\ r.hi <= hi -> head
               [] r.lo >= lo /\ r.lo <= hi /\ r.hi > hi -> tail
               [] r.lo < lo /\ r.hi > hi -> both
               [] OTHER -> same
    BY DEF UnmapRegion
  <2> HIDE DEF all, head, tail, both, same
  <2>2. r.lo \in Int /\ r.hi \in Int
    BY DEF Area
  <2>3. CASE r.lo >= lo /\ r.hi <= hi
    BY <2>1, <2>2, <2>3
  <2>4. CASE r.lo < lo /\ r.hi >= lo /\ r.hi <= hi
    BY <2>1, <2>2, <2>4
  <2>5. CASE r.lo >= lo /\ r.lo <= hi /\ r.hi > hi
    BY <2>1, <2>2, <2>5
  <2>6. CASE r.lo < lo /\ r.hi > hi
    BY <2>1, <2>2, <2>6
  <2>7. CASE /\ ~(r.lo >= lo /\ r.hi <= hi) /\ ~(r.lo < lo /\ r.hi >= lo /\ r.hi <= hi)
             /\ ~(r.lo >= lo /\ r.lo <= hi /\ r.hi > hi) /\ ~(r.lo < lo /\ r.hi > hi)
    BY <2>1, <2>7
  <2> QED
    BY <2>3, <2>4, <2>5, <2>6, <2>7
<1>2. PartOf(upper, r) /\ PartOf(upper2, r) /\ PartOf(lower, r) /\ PartOf(r, r)
  <2>1. lower \in Area /\ lower.src = r.src /\ lower.type = r.type
    BY DEF Area
  <2>2. upper \in Area /\ upper.src = r.src /\ upper.type = r.type
    <3> DEFINE a == [r EXCEPT !.lo = hi + 1]
               off == a.off + hi + 1 - r.lo
               b == [a EXCEPT !.off = off]
               c == [b EXCEPT !.data = FALSE]
    <3>1. upper = c
      BY DEF Area
    <3>2. a \in Area /\ a.src = r.src /\ a.type = r.type
      BY DEF Area
    <3> HIDE DEF a
    <3>3. off \in Int
      BY <3>2 DEF Area
    <3> HIDE DEF off
    <3>4. b \in Area /\ b.src = r.src /\ b.type = r.type
      BY <3>2, <3>3 DEF Area
    <3> HIDE DEF b
    <3>5. c \in Area /\ c.src = r.src /\ c.type = r.type
      BY <3>4 DEF Area
    <3> HIDE DEF c, upper
    <3> QED
      BY <3>1, <3>5
  <2> HIDE DEF upper
  <2>3. r.data \in BOOLEAN
    BY DEF Area
  <2>4. upper2 \in Area /\ upper2.src = r.src /\ upper2.type = r.type
    BY <2>2, <2>3 DEF Area
  <2> HIDE DEF upper2, lower
  <2> QED
    BY <2>1, <2>2, <2>4 DEF PartOf
<1> HIDE DEF upper, upper2, lower
<1>3. y.objs \in Objects(P) /\ y.chain \in Seq(Area) /\ y.todo \in Seq(Obj) /\ y.gone \in BOOLEAN
  BY DEF Unmapping
<1>4. all \in Unmapping(P) /\ GivenUp(y, all, r)
  <2>1. r.src \in Obj /\ r.data \in BOOLEAN
    BY SrcIsObj DEF Area
  <2> DEFINE a == Append(y.todo, r.src)
             b == y.gone \/ r.data
             y1 == [y EXCEPT !.todo = a]
             y3 == [y1 EXCEPT !.gone = b]
  <2>2. a \in Seq(Obj) /\ b \in BOOLEAN
    BY <1>3, <2>1
  <2>3. all = y3
    BY DEF Unmapping
  <2> HIDE DEF a, b, all
  <2>4. y1 \in Unmapping(P) /\ y1.todo = a /\ y1.objs = y.objs /\ y1.chain = y.chain
    BY <2>2 DEF Unmapping
  <2> HIDE DEF y1
  <2>5. y3 \in Unmapping(P) /\ y3.todo = a /\ y3.objs = y.objs /\ y3.chain = y.chain
    BY <2>2, <2>4 DEF Unmapping
  <2> HIDE DEF y3
  <2> QED
    BY <2>3, <2>5 DEF GivenUp, a
<1>5. \A q : PartOf(q, r) =>
        LET z == [y EXCEPT !.chain = Append(@, q)] IN z \in Unmapping(P) /\ KeptInPart(y, z, r)
  <2> SUFFICES ASSUME NEW q, PartOf(q, r), NEW z, z = [y EXCEPT !.chain = Append(@, q)]
               PROVE  z \in Unmapping(P) /\ KeptInPart(y, z, r)
    OBVIOUS
  <2> DEFINE c == Append(y.chain, q)
  <2>2. c \in Seq(Area) /\ z = [y EXCEPT !.chain = c]
    BY <1>3 DEF PartOf
  <2> HIDE DEF c
  <2>3. z \in Unmapping(P) /\ z.objs = y.objs /\ z.todo = y.todo /\ z.chain = c
    BY <2>2 DEF Unmapping
  <2>1. z \in Unmapping(P) /\ z.objs = y.objs /\ z.todo = y.todo /\ z.chain = Append(y.chain, q)
    BY <2>3 DEF c
  <2> QED
    BY <2>1 DEF KeptInPart
<1>6. both \in Unmapping(P) /\ KeptInTwo(y, both, r)
  <2>1. Append(y.chain, lower) \in Seq(Area)
    BY <1>2, <1>3 DEF PartOf
  <2>2. <<upper>> \o Append(y.chain, lower) \in Seq(Area)
    BY <1>2, <2>1, OneInFront DEF PartOf
  <2>3. Attached(y.objs, r) \in Objects(P)
    BY <1>3, AttachedIs
  <2> DEFINE c == <<upper>> \o Append(y.chain, lower)
             a == Attached(y.objs, r)
             y1 == [y EXCEPT !.chain = c]
             y3 == [y1 EXCEPT !.objs = a]
  <2>4. both = y3
    BY DEF Unmapping
  <2> HIDE DEF c, a, both
  <2>5. /\ y3 \in Unmapping(P) /\ y3.objs = a /\ y3.chain = c /\ y3.todo = y.todo
    BY <2>2, <2>3 DEF Unmapping, c, a
  <2> HIDE DEF y3
  <2>6. both \in Unmapping(P) /\ both.objs = Attached(y.objs, r) /\ both.todo = y.todo
        /\ both.chain = <<upper>> \o Append(y.chain, lower)
    BY <2>4, <2>5 DEF c, a
  <2> QED
    BY <1>2, <2>6 DEF KeptInTwo
<1>7. \A z \in {head, tail, same} : z \in Unmapping(P) /\ KeptInPart(y, z, r)
  BY <1>2, <1>5
<1> HIDE DEF all, head, tail, both, same
<1> QED
  BY <1>1, <1>4, <1>6, <1>7

\* u: the references of others; s: the sources of the chain, n of its regions done.
UnmapCounts(u, s, n, y) ==
    [x \in Obj |-> u[x] + (Times(s, x) - Among(s, n, x))
                     + Times(Sources(y.chain), x) + Times(y.todo, x)]

\* Objects that differ in what counts regions only, and for objects of S only.
Recounted(objs, objs2, S) ==
    \A x \in Obj : /\ objs2[x].type = objs[x].type /\ objs2[x].next = objs[x].next
                   /\ x \notin S => objs2[x].refcount = objs[x].refcount

UnmapStage(objs, gone, u, chain0, n, y) ==
    /\ Sound(y.objs, gone, UnmapCounts(u, Sources(chain0), n, y))
    /\ Recounted(objs, y.objs, ToSet(Sources(chain0)))
    /\ \A q \in ToSet(y.chain) : \E r \in ToSet(chain0) : q.src = r.src /\ q.type = r.type

\* A chain with one region more at the end ..
LEMMA OneLast ==
    ASSUME NEW chain \in Seq(Area), NEW q \in Area
    PROVE  /\ Append(chain, q) \in Seq(Area)
           /\ \A x : Times(Sources(Append(chain, q)), x)
                      = Times(Sources(chain), x) + (IF q.src = x THEN 1 ELSE 0)
           /\ \A x : Times(Sources(chain), x) \in Nat
           /\ ToSet(Append(chain, q)) = ToSet(chain) \cup {q}
<1> DEFINE s == Sources(chain)
           o == q.src
           c == Append(chain, q)
<1>1. c \in Seq(Area) /\ o \in Obj /\ s \in Seq(Obj)
  BY SrcIsObj, SourcesOf
<1>2. Sources(c) = Append(s, o)
  BY SourcesAppend
<1>3. ToSet(c) = ToSet(chain) \cup {q}
  <2>1. DOMAIN c = 1..(Len(chain) + 1) /\ DOMAIN chain = 1..Len(chain) /\ Len(chain) \in Nat
    OBVIOUS
  <2>2. c[Len(chain) + 1] = q /\ \A i \in DOMAIN chain : c[i] = chain[i]
    OBVIOUS
  <2> HIDE DEF c
  <2>3. \A i \in DOMAIN c : i = Len(chain) + 1 \/ i \in DOMAIN chain
    BY <2>1
  <2>4. DOMAIN chain \subseteq DOMAIN c /\ Len(chain) + 1 \in DOMAIN c
    BY <2>1
  <2> QED
    BY <2>2, <2>3, <2>4 DEF ToSet
<1> HIDE DEF c, s, o
<1>4. \A x : Times(Append(s, o), x) = Times(s, x) + (IF o = x THEN 1 ELSE 0) /\ Times(s, x) \in Nat
  BY <1>1, TimesAppend, HitsFinite
<1>5. \A x : Times(Sources(c), x) = Times(s, x) + (IF o = x THEN 1 ELSE 0)
  BY <1>2, <1>4
<1> QED
  BY <1>1, <1>3, <1>4, <1>5 DEF c, s, o

\* .. and at the front.
LEMMA OneFirst ==
    ASSUME NEW chain \in Seq(Area), NEW q \in Area
    PROVE  /\ <<q>> \o chain \in Seq(Area)
           /\ \A x : Times(Sources(<<q>> \o chain), x)
                      = Times(Sources(chain), x) + (IF q.src = x THEN 1 ELSE 0)
           /\ \A x : Times(Sources(chain), x) \in Nat
           /\ ToSet(<<q>> \o chain) = ToSet(chain) \cup {q}
<1> DEFINE s == Sources(chain)
           o == q.src
           c == <<q>> \o chain
<1>1. c \in Seq(Area) /\ o \in Obj /\ s \in Seq(Obj)
  BY SrcIsObj, SourcesOf, OneInFront
<1>2. Sources(c) = <<o>> \o s
  BY SourcesFirst
<1>3. ToSet(c) = ToSet(chain) \cup {q}
  BY OneInFront
<1> HIDE DEF c, s, o
<1>4. \A x : Times(<<o>> \o s, x) = Times(s, x) + (IF o = x THEN 1 ELSE 0) /\ Times(s, x) \in Nat
  BY <1>1, TimesFirst, HitsFinite
<1>5. \A x : Times(Sources(c), x) = Times(s, x) + (IF o = x THEN 1 ELSE 0)
  BY <1>2, <1>4
<1> QED
  BY <1>1, <1>3, <1>4, <1>5 DEF c, s, o

\* How the numbers of references move when a region is given up or cut.
LEMMA Shifted ==
    ASSUME NEW u \in Int, NEW t \in Int, NEW a \in Int, NEW c \in Int, NEW d \in Int
    PROVE  /\ u + (t - (a + 1)) + c + (d + 1) = u + (t - a) + c + d
           /\ u + (t - (a + 1)) + (c + 1) + d = u + (t - a) + c + d
           /\ u + (t - (a + 1)) + (c + 2) + d = (u + (t - a) + c + d) + 1
OBVIOUS

\* One turn of the loop over the regions of the process.
LEMMA UnmapNext ==
    ASSUME NEW P, NEW y \in Unmapping(P), NEW objs, NEW gone, NEW u,
           \A x \in Obj : u[x] \in Nat,
           NEW chain0 \in Seq(Area), NEW n \in Nat, n + 1 \in DOMAIN chain0,
           UnmapStage(objs, gone, u, chain0, n, y),
           NEW lo \in Int, NEW hi \in Int, NEW y2, y2 = UnmapRegion(y, chain0[n + 1], lo, hi)
    PROVE  y2 \in Unmapping(P) /\ UnmapStage(objs, gone, u, chain0, n + 1, y2)
<1> DEFINE r == chain0[n + 1]
           s == Sources(chain0)
           o == r.src
           f == UnmapCounts(u, s, n, y)
           f2 == UnmapCounts(u, s, n + 1, y2)
<1>1. r \in Area /\ r \in ToSet(chain0) /\ o \in Obj
  BY SrcIsObj DEF ToSet
<1>2. s \in Seq(Obj) /\ s[n + 1] = o /\ n + 1 \in DOMAIN s /\ o \in ToSet(s)
  BY SourcesOf DEF ToSet
<1>3. /\ Sound(y.objs, gone, f) /\ Recounted(objs, y.objs, ToSet(s))
      /\ \A q \in ToSet(y.chain) : \E r2 \in ToSet(chain0) : q.src = r2.src /\ q.type = r2.type
  BY DEF UnmapStage
<1>4. y2 \in Unmapping(P) /\ (GivenUp(y, y2, r) \/ KeptInPart(y, y2, r) \/ KeptInTwo(y, y2, r))
  BY <1>1, UnmapRegionIs
<1>5. y.chain \in Seq(Area) /\ y.todo \in Seq(Obj) /\ y.objs \in Objects(P)
  BY DEF Unmapping
<1> HIDE DEF s, r
<1>6. \A x : /\ Among(s, n + 1, x) = Among(s, n, x) + (IF o = x THEN 1 ELSE 0)
             /\ Among(s, n, x) \in Nat /\ Among(s, n + 1, x) \in Nat /\ Times(s, x) \in Nat
             /\ Among(s, n + 1, x) <= Times(s, x)
  <2> TAKE x
  <2>1. n \in 0..Len(s) /\ n + 1 \in 0..Len(s)
    BY <1>2
  <2>2. Among(s, n + 1, x) = Among(s, n, x) + (IF s[n + 1] = x THEN 1 ELSE 0)
    BY AmongNext
  <2>3. /\ Among(s, n, x) \in Nat /\ Among(s, n + 1, x) \in Nat
        /\ Among(s, n + 1, x) <= Times(s, x)
    BY <1>2, <2>1, AmongWithin
  <2>4. Times(s, x) \in Nat
    BY <1>2, HitsFinite
  <2> QED
    BY <1>2, <2>2, <2>3, <2>4
<1>7. \A x : Times(Sources(y.chain), x) \in Nat /\ Times(y.todo, x) \in Nat
  BY <1>5, SourcesOf, HitsFinite
<1>8. \A x \in Obj : /\ f[x] = u[x] + (Times(s, x) - Among(s, n, x))
                               + Times(Sources(y.chain), x) + Times(y.todo, x)
                     /\ f2[x] = u[x] + (Times(s, x) - Among(s, n + 1, x))
                                + Times(Sources(y2.chain), x) + Times(y2.todo, x)
  BY DEF UnmapCounts
<1> HIDE DEF f, f2
<1>9. \A x \in Obj : f[x] \in Nat
  <2> TAKE x \in Obj
  <2>1. /\ Among(s, n + 1, x) = Among(s, n, x) + (IF o = x THEN 1 ELSE 0)
        /\ Among(s, n, x) \in Nat /\ Among(s, n + 1, x) \in Nat /\ Times(s, x) \in Nat
        /\ Among(s, n + 1, x) <= Times(s, x)
    BY <1>6
  <2>2. Times(Sources(y.chain), x) \in Nat /\ Times(y.todo, x) \in Nat /\ u[x] \in Nat
    BY <1>7
  <2>3. f[x] = u[x] + (Times(s, x) - Among(s, n, x))
                 + Times(Sources(y.chain), x) + Times(y.todo, x)
    BY <1>8
  <2>4. Among(s, n, x) <= Times(s, x)
    BY <2>1
  <2> QED
    BY <2>1, <2>2, <2>3, <2>4, SMTT(40)
<1> HIDE DEF o
<1>10. CASE GivenUp(y, y2, r)
  <2>1. y2.objs = y.objs /\ y2.chain = y.chain /\ y2.todo = Append(y.todo, o)
    BY <1>10 DEF GivenUp, o
  <2>2. \A x \in Obj : f2[x] = f[x]
    <3> TAKE x \in Obj
    <3>1. Times(y2.todo, x) = Times(y.todo, x) + (IF o = x THEN 1 ELSE 0)
      BY <1>1, <1>5, <2>1, TimesAppend
    <3>2. Among(s, n + 1, x) = Among(s, n, x) + (IF o = x THEN 1 ELSE 0)
      BY <1>6
    <3>3. Among(s, n, x) \in Nat /\ Times(s, x) \in Nat
      BY <1>6
    <3>4. Times(Sources(y.chain), x) \in Nat /\ Times(y.todo, x) \in Nat /\ u[x] \in Nat
      BY <1>7
    <3>5. /\ f[x] = u[x] + (Times(s, x) - Among(s, n, x))
                    + Times(Sources(y.chain), x) + Times(y.todo, x)
          /\ f2[x] = u[x] + (Times(s, x) - Among(s, n + 1, x))
                     + Times(Sources(y.chain), x) + Times(y2.todo, x)
      BY <1>8, <2>1
    <3>6. CASE o = x
      <4>1. Times(y2.todo, x) = Times(y.todo, x) + 1 /\ Among(s, n + 1, x) = Among(s, n, x) + 1
        BY <3>1, <3>2, <3>6
      <4>2. u[x] + (Times(s, x) - (Among(s, n, x) + 1)) + Times(Sources(y.chain), x) + (Times(y.todo, x) + 1)
              = u[x] + (Times(s, x) - Among(s, n, x)) + Times(Sources(y.chain), x) + Times(y.todo, x)
        <5> DEFINE v == u[x]
                   t == Times(s, x)
                   a == Among(s, n, x)
                   c == Times(Sources(y.chain), x)
                   d == Times(y.todo, x)
        <5>1. v \in Int /\ t \in Int /\ a \in Int /\ c \in Int /\ d \in Int
          BY <3>3, <3>4
        <5> HIDE DEF v, t, a, c, d
        <5>2. v + (t - (a + 1)) + c + (d + 1) = v + (t - a) + c + d
          BY <5>1, Shifted
        <5> QED
          BY <5>2 DEF v, t, a, c, d
      <4> QED
        BY <3>5, <4>1, <4>2
    <3>7. CASE o # x
      BY <3>1, <3>2, <3>3, <3>4, <3>5, <3>7
    <3> QED
      BY <3>6, <3>7
  <2>3. Sound(y2.objs, gone, f2)
    BY <1>3, <2>1, <2>2, SoundSame
  <2> QED
    BY <1>3, <1>4, <2>1, <2>3 DEF UnmapStage, f2, s
<1>11. CASE KeptInPart(y, y2, r)
  <2>1. PICK q : PartOf(q, r) /\ y2.chain = Append(y.chain, q)
    BY <1>11 DEF KeptInPart
  <2>2. q \in Area /\ q.src = o /\ q.type = r.type /\ y2.objs = y.objs /\ y2.todo = y.todo
    BY <1>11, <2>1 DEF PartOf, KeptInPart, o
  <2>3. /\ \A x : Times(Sources(y2.chain), x)
                    = Times(Sources(y.chain), x) + (IF o = x THEN 1 ELSE 0)
        /\ ToSet(y2.chain) = ToSet(y.chain) \cup {q}
    <3>1. /\ \A x : Times(Sources(Append(y.chain, q)), x)
                      = Times(Sources(y.chain), x) + (IF q.src = x THEN 1 ELSE 0)
          /\ ToSet(Append(y.chain, q)) = ToSet(y.chain) \cup {q}
      BY <1>5, <2>2, OneLast
    <3> QED
      BY <2>1, <2>2, <3>1
  <2>4. \A x \in Obj : f2[x] = f[x]
    <3> TAKE x \in Obj
    <3>1. Times(Sources(y2.chain), x) = Times(Sources(y.chain), x) + (IF o = x THEN 1 ELSE 0)
      BY <2>3
    <3>2. Among(s, n + 1, x) = Among(s, n, x) + (IF o = x THEN 1 ELSE 0)
      BY <1>6
    <3>3. Among(s, n, x) \in Nat /\ Times(s, x) \in Nat
      BY <1>6
    <3>4. Times(Sources(y.chain), x) \in Nat /\ Times(y.todo, x) \in Nat /\ u[x] \in Nat
      BY <1>7
    <3>5. /\ f[x] = u[x] + (Times(s, x) - Among(s, n, x))
                    + Times(Sources(y.chain), x) + Times(y.todo, x)
          /\ f2[x] = u[x] + (Times(s, x) - Among(s, n + 1, x))
                     + Times(Sources(y2.chain), x) + Times(y.todo, x)
      BY <1>8, <2>2
    <3>6. CASE o = x
      <4>1. /\ Times(Sources(y2.chain), x) = Times(Sources(y.chain), x) + 1
            /\ Among(s, n + 1, x) = Among(s, n, x) + 1
        BY <3>1, <3>2, <3>6
      <4>2. u[x] + (Times(s, x) - (Among(s, n, x) + 1)) + (Times(Sources(y.chain), x) + 1) + Times(y.todo, x)
              = u[x] + (Times(s, x) - Among(s, n, x)) + Times(Sources(y.chain), x) + Times(y.todo, x)
        <5> DEFINE v == u[x]
                   t == Times(s, x)
                   a == Among(s, n, x)
                   c == Times(Sources(y.chain), x)
                   d == Times(y.todo, x)
        <5>1. v \in Int /\ t \in Int /\ a \in Int /\ c \in Int /\ d \in Int
          BY <3>3, <3>4
        <5> HIDE DEF v, t, a, c, d
        <5>2. v + (t - (a + 1)) + (c + 1) + d = v + (t - a) + c + d
          BY <5>1, Shifted
        <5> QED
          BY <5>2 DEF v, t, a, c, d
      <4> QED
        BY <3>5, <4>1, <4>2
    <3>7. CASE o # x
      BY <3>1, <3>2, <3>3, <3>4, <3>5, <3>7
    <3> QED
      BY <3>6, <3>7
  <2>5. Sound(y2.objs, gone, f2)
    BY <1>3, <2>2, <2>4, SoundSame
  <2>6. \A q2 \in ToSet(y2.chain) : \E r2 \in ToSet(chain0) : q2.src = r2.src /\ q2.type = r2.type
    BY <1>1, <1>3, <2>2, <2>3 DEF o
  <2> QED
    BY <1>3, <1>4, <2>2, <2>5, <2>6 DEF UnmapStage, f2, s
<1>12. CASE KeptInTwo(y, y2, r)
  <2>1. PICK q, q2 : PartOf(q, r) /\ PartOf(q2, r) /\ y2.chain = <<q2>> \o Append(y.chain, q)
    BY <1>12 DEF KeptInTwo
  <2>2. /\ q \in Area /\ q.src = o /\ q.type = r.type
        /\ q2 \in Area /\ q2.src = o /\ q2.type = r.type
        /\ y2.objs = Attached(y.objs, r) /\ y2.todo = y.todo
    BY <1>12, <2>1 DEF PartOf, KeptInTwo, o
  <2>3. /\ \A x : Times(Sources(y2.chain), x)
                    = Times(Sources(y.chain), x) + (IF o = x THEN 2 ELSE 0)
        /\ ToSet(y2.chain) = ToSet(y.chain) \cup {q, q2}
    <3> DEFINE c == Append(y.chain, q)
    <3>1. /\ c \in Seq(Area)
          /\ \A x : Times(Sources(c), x) = Times(Sources(y.chain), x) + (IF q.src = x THEN 1 ELSE 0)
          /\ \A x : Times(Sources(y.chain), x) \in Nat
          /\ ToSet(c) = ToSet(y.chain) \cup {q}
      BY <1>5, <2>2, OneLast
    <3>2. y2.chain = <<q2>> \o c
      BY <2>1
    <3> HIDE DEF c
    <3>3. /\ \A x : Times(Sources(y2.chain), x) = Times(Sources(c), x) + (IF q2.src = x THEN 1 ELSE 0)
          /\ ToSet(y2.chain) = ToSet(c) \cup {q2}
      BY <2>2, <3>1, <3>2, OneFirst
    <3>4. ToSet(y2.chain) = ToSet(y.chain) \cup {q, q2}
      BY <3>1, <3>3
    <3>5. \A x : Times(Sources(y2.chain), x)
                   = Times(Sources(y.chain), x) + (IF o = x THEN 2 ELSE 0)
      <4> TAKE x
      <4>1. /\ Times(Sources(y2.chain), x) = Times(Sources(c), x) + (IF o = x THEN 1 ELSE 0)
            /\ Times(Sources(c), x) = Times(Sources(y.chain), x) + (IF o = x THEN 1 ELSE 0)
            /\ Times(Sources(y.chain), x) \in Nat
        BY <2>2, <3>1, <3>3
      <4>2. CASE o = x
        BY <4>1, <4>2
      <4>3. CASE o # x
        BY <4>1, <4>3
      <4> QED
        BY <4>2, <4>3
    <3> QED
      BY <3>4, <3>5
  <2>4. \A x \in Obj : f2[x] = IF x = o THEN f[x] + 1 ELSE f[x]
    <3> TAKE x \in Obj
    <3>1. Times(Sources(y2.chain), x) = Times(Sources(y.chain), x) + (IF o = x THEN 2 ELSE 0)
      BY <2>3
    <3>2. Among(s, n + 1, x) = Among(s, n, x) + (IF o = x THEN 1 ELSE 0)
      BY <1>6
    <3>3. Among(s, n, x) \in Nat /\ Times(s, x) \in Nat
      BY <1>6
    <3>4. Times(Sources(y.chain), x) \in Nat /\ Times(y.todo, x) \in Nat /\ u[x] \in Nat
      BY <1>7
    <3>5. /\ f[x] = u[x] + (Times(s, x) - Among(s, n, x))
                    + Times(Sources(y.chain), x) + Times(y.todo, x)
          /\ f2[x] = u[x] + (Times(s, x) - Among(s, n + 1, x))
                     + Times(Sources(y2.chain), x) + Times(y.todo, x)
      BY <1>8, <2>2
    <3>6. CASE x = o
      <4>1. /\ Times(Sources(y2.chain), x) = Times(Sources(y.chain), x) + 2
            /\ Among(s, n + 1, x) = Among(s, n, x) + 1
        BY <3>1, <3>2, <3>6
      <4>2. u[x] + (Times(s, x) - (Among(s, n, x) + 1)) + (Times(Sources(y.chain), x) + 2) + Times(y.todo, x)
              = (u[x] + (Times(s, x) - Among(s, n, x)) + Times(Sources(y.chain), x) + Times(y.todo, x)) + 1
        <5> DEFINE v == u[x]
                   t == Times(s, x)
                   a == Among(s, n, x)
                   c == Times(Sources(y.chain), x)
                   d == Times(y.todo, x)
        <5>1. v \in Int /\ t \in Int /\ a \in Int /\ c \in Int /\ d \in Int
          BY <3>3, <3>4
        <5> HIDE DEF v, t, a, c, d
        <5>2. v + (t - (a + 1)) + (c + 2) + d = (v + (t - a) + c + d) + 1
          BY <5>1, Shifted
        <5> QED
          BY <5>2 DEF v, t, a, c, d
      <4>3. f2[x] = f[x] + 1
        BY <3>5, <4>1, <4>2
      <4> QED
        BY <3>6, <4>3
    <3>7. CASE x # o
      BY <3>1, <3>2, <3>3, <3>4, <3>5, <3>7
    <3> QED
      BY <3>6, <3>7
  <2>5. y.objs[o].type # "free"
    <3>1. f[o] \in Nat /\ f[o] >= 1
      <4>1. /\ Among(s, n + 1, o) = Among(s, n, o) + 1
            /\ Among(s, n, o) \in Nat /\ Times(s, o) \in Nat
            /\ Among(s, n + 1, o) <= Times(s, o)
        BY <1>6
      <4>2. Times(Sources(y.chain), o) \in Nat /\ Times(y.todo, o) \in Nat /\ u[o] \in Nat
        BY <1>1, <1>7
      <4>3. f[o] = u[o] + (Times(s, o) - Among(s, n, o))
                    + Times(Sources(y.chain), o) + Times(y.todo, o)
        BY <1>1, <1>8
      <4> QED
        BY <4>1, <4>2, <4>3
    <3> QED
      BY <1>1, <1>3, <3>1, ReferencedInUse
  <2>6. Sound(y2.objs, gone, f2)
    <3>1. Sound([y.objs EXCEPT ![o].refcount = @ + 1], gone, f2)
      BY <1>1, <1>3, <1>9, <2>4, <2>5, SoundAttached
    <3>2. y2.objs = [y.objs EXCEPT ![o].refcount = @ + 1]
      BY <2>2 DEF Attached, o
    <3> QED
      BY <3>1, <3>2
  <2>7. Recounted(objs, y2.objs, ToSet(s))
    <3>1. \A x \in Obj : /\ y2.objs[x].type = y.objs[x].type /\ y2.objs[x].next = y.objs[x].next
                         /\ x # o => y2.objs[x].refcount = y.objs[x].refcount
      <4> DEFINE objs1 == y.objs
                 objs2 == Attached(objs1, r)
      <4>1. r \in Area /\ objs1 \in Objects(P) /\ objs2 = y2.objs
        BY <1>1, <1>5, <2>2
      <4> HIDE DEF objs1, o
      <4>2. /\ objs2 \in Objects(P)
            /\ \A x \in Obj : /\ objs2[x].type = objs1[x].type /\ objs2[x].next = objs1[x].next
                              /\ x # r.src => objs2[x].refcount = objs1[x].refcount
        BY <4>1, AttachedIs
      <4> HIDE DEF objs2
      <4> QED
        BY <4>1, <4>2 DEF o, objs1
    <3> QED
      BY <1>2, <1>3, <3>1 DEF Recounted
  <2>8. \A q3 \in ToSet(y2.chain) : \E r2 \in ToSet(chain0) : q3.src = r2.src /\ q3.type = r2.type
    BY <1>1, <1>3, <2>2, <2>3 DEF o
  <2> QED
    BY <1>4, <2>6, <2>7, <2>8 DEF UnmapStage, f2, s
<1> QED
  BY <1>4, <1>10, <1>11, <1>12

\* What others refer to.
OthersUses(p) == [x \in Obj |-> UsesBy(regions, op, Proc \ {p}, x)]

\* All of the turns.
LEMMA UnmapIs ==
    ASSUME InvNow, NEW p \in Proc, op[p].at \in Quiet, NEW lo \in Int, NEW hi \in Int
    PROVE  LET y == Unmap(p, lo, hi)
           IN  /\ y.chain \in Seq(Area) /\ y.todo \in Seq(Obj) /\ y.gone \in BOOLEAN
               /\ UnmapStage(object, Rest(op, p), OthersUses(p), regions[p], Len(regions[p]), y)
<1> DEFINE chain0 == regions[p]
           N == Len(chain0)
           P == PageLists(object)
           u == OthersUses(p)
           S == Unmapping(P)
           none == [objs |-> object, chain |-> <<>>, todo |-> <<>>, gone |-> FALSE]
           Good(n) == {y \in S : UnmapStage(object, Rest(op, p), u, chain0, n, y)}
           good == [n \in 0..N |-> Good(n)]
           step == [v \in (1..N) \X S |-> UnmapRegion(v[2], chain0[v[1]], lo, hi)]
           Is(g) == g = [i \in 0..N |-> IF i = 0 THEN none
                                        ELSE UnmapRegion(g[i - 1], chain0[i], lo, hi)]
<1>1. /\ chain0 \in Seq(Area) /\ Sources(chain0) \in Seq(Obj)
      /\ Sound(object, Rest(op, p), FreeingCounts(p, chain0, <<>>))
      /\ \A x \in Obj :
           /\ FreeingCounts(p, chain0, <<>>)[x]
                = Times(Sources(chain0), x) + UsesBy(regions, op, Proc \ {p}, x)
           /\ Times(Sources(chain0), x) \in Nat
           /\ UsesBy(regions, op, Proc \ {p}, x) \in Nat
  BY QuietNow
<1>2. N \in Nat /\ object \in Objects(P) /\ \A x \in Obj : u[x] \in Nat
  <2>1. N \in Nat
    BY <1>1
  <2>2. object \in Objects(P)
    BY <1>1 DEF Sound
  <2>3. \A x \in Obj : u[x] \in Nat
    BY <1>1 DEF OthersUses
  <2> QED
    BY <2>1, <2>2, <2>3
<1>3. none \in Good(0)
  <2>1. none \in S
    BY <1>2 DEF Unmapping
  <2>2. \A x \in Obj : UnmapCounts(u, Sources(chain0), 0, none)[x] = FreeingCounts(p, chain0, <<>>)[x]
    <3> TAKE x \in Obj
    <3>1. UnmapCounts(u, Sources(chain0), 0, none)[x]
            = u[x] + (Times(Sources(chain0), x) - Among(Sources(chain0), 0, x))
                + Times(Sources(<<>>), x) + Times(<<>>, x)
      BY DEF UnmapCounts
    <3>2. Among(Sources(chain0), 0, x) = 0 /\ Times(<<>>, x) = 0 /\ Sources(<<>>) = <<>>
      BY AmongNone, TimesNone DEF Sources
    <3>3. /\ FreeingCounts(p, chain0, <<>>)[x]
               = Times(Sources(chain0), x) + UsesBy(regions, op, Proc \ {p}, x)
          /\ Times(Sources(chain0), x) \in Nat
      BY <1>1
    <3>4. u[x] = UsesBy(regions, op, Proc \ {p}, x) /\ u[x] \in Nat
      BY <1>2 DEF OthersUses
    <3>5. Times(Sources(<<>>), x) = 0
      BY <3>2
    <3> HIDE DEF u, chain0, none
    <3> QED
      BY <3>1, <3>2, <3>3, <3>4, <3>5
  <2> HIDE DEF u, P, S, chain0
  <2>3. Sound(none.objs, Rest(op, p), UnmapCounts(u, Sources(chain0), 0, none))
    BY <1>1, <2>2, SoundSame
  <2>4. Recounted(object, none.objs, ToSet(Sources(chain0)))
    BY DEF Recounted
  <2>5. ToSet(none.chain) = {}
    BY EmptySet
  <2>6. UnmapStage(object, Rest(op, p), u, chain0, 0, none)
    BY <2>3, <2>4, <2>5 DEF UnmapStage
  <2> HIDE DEF none
  <2> QED
    BY <2>1, <2>6
<1>4. \A n \in 1..N : \A y \in Good(n - 1) : UnmapRegion(y, chain0[n], lo, hi) \in Good(n)
  <2> SUFFICES ASSUME NEW n \in 1..N, NEW y \in Good(n - 1)
               PROVE  UnmapRegion(y, chain0[n], lo, hi) \in Good(n)
    OBVIOUS
  <2> DEFINE m == n - 1
             y2 == UnmapRegion(y, chain0[m + 1], lo, hi)
  <2>1. m \in Nat /\ m + 1 = n /\ m + 1 \in DOMAIN chain0
    BY <1>1
  <2>2. y \in S /\ UnmapStage(object, Rest(op, p), u, chain0, m, y)
    OBVIOUS
  <2> HIDE DEF m, chain0, S, P, u
  <2>3. y2 \in S /\ UnmapStage(object, Rest(op, p), u, chain0, m + 1, y2)
    <3> DEFINE g == Rest(op, p)
    <3>1. y \in Unmapping(P) /\ UnmapStage(object, g, u, chain0, m, y)
      BY <2>2 DEF S
    <3> HIDE DEF g
    <3>2. y2 \in Unmapping(P) /\ UnmapStage(object, g, u, chain0, m + 1, y2)
      BY <1>1, <1>2, <2>1, <3>1, UnmapNext
    <3> QED
      BY <3>2 DEF S, g
  <2> HIDE DEF y2
  <2>4. y2 \in Good(n)
    BY <2>1, <2>3
  <2> QED
    BY <2>1, <2>4 DEF y2
<1>5. good \in [0..N -> SUBSET S] /\ none \in good[0]
  <2>1. \A n : Good(n) \in SUBSET S
    OBVIOUS
  <2>2. 0 \in 0..N
    BY <1>2
  <2> HIDE DEF Good
  <2> QED
    BY <1>3, <2>1, <2>2
<1>6. \A n \in 0..N : good[n] = Good(n)
  OBVIOUS
<1>7. \A n \in 1..N : n \in 0..N /\ n - 1 \in 0..N
  BY <1>2
<1>8. \A n \in 0..N : \A y \in Good(n) : y \in S
  OBVIOUS
<1>9. \A n \in 1..N : \A y \in S : step[<<n, y>>] = UnmapRegion(y, chain0[n], lo, hi)
  OBVIOUS
<1> HIDE DEF good, step, Good, S, none
<1>10. \A n \in 1..N : \A y \in good[n - 1] : step[<<n, y>>] \in good[n]
  <2> SUFFICES ASSUME NEW n \in 1..N, NEW y \in good[n - 1] PROVE step[<<n, y>>] \in good[n]
    OBVIOUS
  <2> HIDE DEF chain0
  <2>1. y \in Good(n - 1) /\ y \in S
    BY <1>6, <1>7, <1>8
  <2>2. UnmapRegion(y, chain0[n], lo, hi) \in Good(n)
    BY <1>4, <2>1
  <2> QED
    BY <1>6, <1>7, <1>9, <2>1, <2>2
<1>11. PICK g \in [0..N -> S] :
          /\ g[0] = none /\ \A n \in 1..N : g[n] = step[<<n, g[n - 1]>>]
          /\ \A n \in 0..N : g[n] \in good[n]
  <2>1. N \in Nat
    BY <1>2
  <2> HIDE DEF N, chain0, P, u, Is
  <2>2. Leads(N, S, good, none, step)
    BY <1>5, <1>10 DEF Leads
  <2> QED
    BY <2>1, <2>2, Stages
<1>12. Is(g)
  <2> HIDE DEF chain0
  <2>1. \A n \in 1..N : g[n] = UnmapRegion(g[n - 1], chain0[n], lo, hi)
    <3> TAKE n \in 1..N
    <3> HIDE DEF N
    <3>1. g[n] = step[<<n, g[n - 1]>>]
      BY <1>11
    <3>2. g[n - 1] \in S
      BY <1>7, <1>11
    <3> QED
      BY <1>9, <3>1, <3>2
  <2>2. \A n \in 0..N : g[n] = IF n = 0 THEN none ELSE UnmapRegion(g[n - 1], chain0[n], lo, hi)
    BY <1>11, <2>1
  <2>3. g = [n \in 0..N |-> g[n]]
    BY <1>11
  <2> QED
    BY <2>2, <2>3
<1> DEFINE h == CHOOSE g2 : Is(g2)
<1>13. Is(h)
  <2> HIDE DEF Is
  <2> QED
    BY <1>12
<1>14. Unmap(p, lo, hi) = h[N]
  BY DEF Unmap, none
<1> HIDE DEF chain0
<1>15. h[0] = none /\ \A n \in 1..N : h[n] = UnmapRegion(h[n - 1], chain0[n], lo, hi)
  <2> HIDE DEF h
  <2>1. h = [i \in 0..N |-> IF i = 0 THEN none ELSE UnmapRegion(h[i - 1], chain0[i], lo, hi)]
    BY <1>13
  <2> HIDE DEF N, Is
  <2>2. \A n \in 0..N : h[n] = IF n = 0 THEN none ELSE UnmapRegion(h[n - 1], chain0[n], lo, hi)
    BY <2>1
  <2>3. 0 \in 0..N /\ \A n \in 1..N : n # 0
    BY <1>2
  <2> QED
    BY <1>7, <2>2, <2>3
<1> HIDE DEF h, Is
<1> DEFINE T == {n \in 0..N : h[n] \in Good(n)}
<1>16. \A n \in 0..N : n \in T
  <2>1. 0 \in T
    <3>1. 0 \in 0..N /\ h[0] = none /\ none \in Good(0)
      BY <1>2, <1>3, <1>15
    <3> QED
      BY <3>1
  <2>2. \A n \in 0..(N - 1) : n \in T => n + 1 \in T
    <3> SUFFICES ASSUME NEW n \in 0..(N - 1), n \in T PROVE n + 1 \in T
      OBVIOUS
    <3>1. n + 1 \in 1..N /\ (n + 1) - 1 = n /\ n + 1 \in 0..N
      BY <1>2
    <3>2. h[n + 1] = UnmapRegion(h[n], chain0[n + 1], lo, hi)
      BY <1>15, <3>1
    <3>3. h[n + 1] \in Good(n + 1)
      BY <1>4, <3>1, <3>2
    <3> QED
      BY <3>1, <3>3
  <2>3. T \in SUBSET Nat
    OBVIOUS
  <2> HIDE DEF T
  <2> QED
    BY <1>2, <2>1, <2>2, <2>3, Climb
<1>17. h[N] \in Good(N)
  BY <1>2, <1>16
<1>18. /\ h[N].chain \in Seq(Area) /\ h[N].todo \in Seq(Obj) /\ h[N].gone \in BOOLEAN
       /\ UnmapStage(object, Rest(op, p), u, chain0, N, h[N])
  BY <1>17 DEF Good, S, Unmapping
<1> QED
  BY <1>14, <1>18 DEF chain0, u, N

\* What is left shows, and what is freed refers to, what the process showed.
LEMMA UnmapLeaves ==
    ASSUME InvNow, NEW p \in Proc, op[p].at \in Quiet, NEW lo \in Int, NEW hi \in Int
    PROVE  LET y == Unmap(p, lo, hi)
               S == ToSet(Sources(regions[p]))
           IN  /\ y.chain \in Seq(Area) /\ y.todo \in Seq(Obj) /\ y.gone \in BOOLEAN
               /\ Sound(y.objs, Rest(op, p), FreeingCounts(p, y.chain, y.todo))
               /\ Showed(y.objs, y.chain, y.todo)
               /\ object' = y.objs /\ olock' = olock =>
                    Undisturbed(object, regions, op, olock, p, object', olock', {}, {}, S)
<1> DEFINE y == Unmap(p, lo, hi)
           chain0 == regions[p]
           s == Sources(chain0)
           S == ToSet(s)
           u == OthersUses(p)
           f0 == FreeingCounts(p, chain0, <<>>)
           f == UnmapCounts(u, s, Len(chain0), y)
           f2 == FreeingCounts(p, y.chain, y.todo)
           g == Rest(op, p)
<1>1. /\ chain0 \in Seq(Area) /\ s \in Seq(Obj) /\ Len(s) = Len(chain0)
      /\ Sound(object, g, f0)
      /\ \A x \in Obj :
           /\ f0[x] = Times(s, x) + UsesBy(regions, op, Proc \ {p}, x)
           /\ Times(s, x) \in Nat /\ UsesBy(regions, op, Proc \ {p}, x) \in Nat
           /\ Mine(chain0, op[p], x) = Times(s, x)
      /\ Showed(object, chain0, <<>>)
  BY QuietNow, SourcesOf
<1>2. /\ y.chain \in Seq(Area) /\ y.todo \in Seq(Obj) /\ y.gone \in BOOLEAN
      /\ UnmapStage(object, g, u, chain0, Len(chain0), y)
  BY UnmapIs
<1> HIDE DEF y
<1>3. /\ Sound(y.objs, g, f) /\ Recounted(object, y.objs, S)
      /\ \A q \in ToSet(y.chain) : \E r \in ToSet(chain0) : q.src = r.src /\ q.type = r.type
  BY <1>2 DEF UnmapStage
<1>4. \A x \in Obj : u[x] = UsesBy(regions, op, Proc \ {p}, x)
  BY DEF OthersUses
<1>5. \A x : Times(Sources(y.chain), x) \in Nat /\ Times(y.todo, x) \in Nat
  BY <1>2, SourcesOf, HitsFinite
<1>6. \A x \in Obj : f[x] = u[x] + (Times(s, x) - Among(s, Len(s), x))
                              + Times(Sources(y.chain), x) + Times(y.todo, x)
  BY <1>1 DEF UnmapCounts
<1>7. \A x \in Obj : f2[x] = Times(Sources(y.chain), x) + Times(y.todo, x)
                               + UsesBy(regions, op, Proc \ {p}, x)
  BY DEF FreeingCounts
<1> HIDE DEF f, f2, f0, u, S, s, g, chain0
<1>8. \A x \in Obj : f2[x] = f[x]
  <2> TAKE x \in Obj
  <2> DEFINE a == Among(s, Len(s), x)
             b == Times(s, x)
             c == Times(Sources(y.chain), x)
             d == Times(y.todo, x)
             e == UsesBy(regions, op, Proc \ {p}, x)
  <2>1. a = b
    BY <1>1, AmongAll
  <2>2. b \in Nat /\ e \in Nat /\ c \in Nat /\ d \in Nat
    BY <1>1, <1>5
  <2>3. f[x] = e + (b - a) + c + d
    BY <1>4, <1>6
  <2>4. f2[x] = c + d + e
    BY <1>7
  <2> HIDE DEF a, b, c, d, e
  <2> QED
    BY <2>1, <2>2, <2>3, <2>4
<1>9. Sound(y.objs, g, f2)
  BY <1>3, <1>8, SoundSame
<1>10. Showed(y.objs, y.chain, y.todo)
  <2> SUFFICES ASSUME NEW i \in DOMAIN y.chain, y.objs[y.chain[i].src].type = "shadow"
               PROVE  /\ y.chain[i].type # "ro"
                      /\ y.objs[y.chain[i].src].refcount
                           = Times(Sources(y.chain), y.chain[i].src) + Times(y.todo, y.chain[i].src)
    BY DEF Showed
  <2>1. PICK r \in ToSet(chain0) : y.chain[i].src = r.src /\ y.chain[i].type = r.type
    BY <1>3 DEF ToSet
  <2>2. PICK j \in DOMAIN chain0 : r = chain0[j]
    BY <2>1 DEF ToSet
  <2> DEFINE o == r.src
  <2>3. o \in Obj /\ o = chain0[j].src /\ o = y.chain[i].src
    BY <1>1, <2>1, <2>2, SrcIsObj
  <2>4. chain0[j].type = y.chain[i].type
    BY <2>1, <2>2
  <2> HIDE DEF o
  <2>5. object[o].type = "shadow"
    BY <1>3, <2>3 DEF Recounted
  <2>6. chain0[j].type # "ro" /\ object[o].refcount = Times(s, o) + Times(<<>>, o)
    BY <1>1, <2>3, <2>5 DEF Showed, s
  <2>7. object[o].refcount = Cardinality(Over(object, g, o)) + f0[o]
    BY <1>1, <2>3 DEF Sound, Balanced
  <2>8. y.objs[o].refcount = Cardinality(Over(y.objs, g, o)) + f2[o]
    BY <1>9, <2>3 DEF Sound, Balanced
  <2>9. Over(y.objs, g, o) = Over(object, g, o)
    BY <1>3 DEF Over, Recounted
  <2>10. y.objs[o].refcount = Times(Sources(y.chain), o) + Times(y.todo, o)
    <3> DEFINE a == Cardinality(Over(object, g, o))
               b == Times(s, o)
               c == Times(Sources(y.chain), o)
               d == Times(y.todo, o)
               e == UsesBy(regions, op, Proc \ {p}, o)
               m == object[o].refcount
               k == y.objs[o].refcount
    <3>1. a \in Nat
      BY OverCount
    <3>2. b \in Nat /\ e \in Nat /\ c \in Nat /\ d \in Nat /\ f0[o] = b + e
      BY <1>1, <1>5, <2>3
    <3>3. Times(<<>>, o) = 0
      BY TimesNone
    <3>4. f2[o] = c + d + e
      BY <1>7, <2>3
    <3>5. m = b + 0 /\ m = a + f0[o] /\ k = a + f2[o]
      BY <2>6, <2>7, <2>8, <2>9, <3>3
    <3> HIDE DEF a, b, c, d, e, m, k
    <3>6. a = 0 /\ e = 0
      BY <3>1, <3>2, <3>5
    <3>7. k = c + d
      BY <3>1, <3>2, <3>4, <3>5, <3>6
    <3> QED
      BY <3>7 DEF k, c, d
  <2> QED
    BY <2>3, <2>4, <2>6, <2>10
<1>11. ASSUME object' = y.objs, olock' = olock
       PROVE  Undisturbed(object, regions, op, olock, p, object', olock', {}, {}, S)
  <2>1. S \in SUBSET Obj
    BY <1>1 DEF S, ToSet
  <2>2. Kept(object, object', {}, {}, S)
    BY <1>3, <1>11 DEF Kept, Recounted
  <2>3. \A o \in S : Mine(regions[p], op[p], o) >= 1 /\ \E i \in DOMAIN regions[p] : regions[p][i].src = o
    <3> TAKE o \in S
    <3>1. PICK i \in DOMAIN s : s[i] = o
      BY DEF S, ToSet
    <3>2. i \in DOMAIN chain0 /\ chain0[i].src = o
      BY <1>1, <3>1, SourcesOf DEF s
    <3>3. Times(s, o) >= 1
      BY <1>1, <3>1, TimesThere
    <3>4. Mine(chain0, op[p], o) >= 1
      BY <1>1, <2>1, <3>3
    <3> QED
      BY <3>2, <3>4 DEF chain0
  <2>4. \A o \in Obj : olock[o] \in Proc \ {p} => olock'[o] = olock[o]
    BY <1>11
  <2> QED
    BY <2>1, <2>2, <2>3, <2>4 DEF Undisturbed
<1> QED
  BY <1>2, <1>9, <1>10, <1>11 DEF y, f2, g, S, s, chain0

\* sys_munmap(), whoever calls it, and what it leaves the process with.
LeavesTo(p, y, then, map, chain2) ==
    /\ Sources(chain2) = Sources(y.chain) /\ DOMAIN chain2 = DOMAIN y.chain
    /\ \A j \in DOMAIN chain2 : /\ chain2[j].src = y.chain[j].src
                                /\ chain2[j].type = y.chain[j].type
    /\ object' = y.objs /\ regions' = [regions EXCEPT ![p] = chain2]
    /\ op' = [op EXCEPT ![p] = Freeing(p, y.todo, then, map)] /\ olock' = olock

\* A process drops what Unmap says and goes on.
LEMMA GivesUp ==
    ASSUME InvNow, NEW p \in Proc, op[p] = User, NEW lo \in Int, NEW hi \in Int,
           NEW then \in {"user", "map"}, NEW map \in Seq(Wanted), then = "map" => map # <<>>,
           NEW chain2 \in Seq(Area),
           LeavesTo(p, Unmap(p, lo, hi), then, map, chain2)
    PROVE  InvNext
<1> DEFINE y == Unmap(p, lo, hi)
           todo == y.todo
           S == ToSet(Sources(regions[p]))
           f == FreeingCounts(p, y.chain, todo)
           f2 == FreeingCounts(p, chain2, todo)
<1>1. /\ Sources(chain2) = Sources(y.chain) /\ DOMAIN chain2 = DOMAIN y.chain
      /\ \A j \in DOMAIN chain2 : /\ chain2[j].src = y.chain[j].src
                                  /\ chain2[j].type = y.chain[j].type
      /\ object' = y.objs /\ regions' = [regions EXCEPT ![p] = chain2]
      /\ op' = [op EXCEPT ![p] = Freeing(p, todo, then, map)] /\ olock' = olock
  BY DEF LeavesTo
<1>2. op[p].at \in Quiet
  BY UserSound
<1>3. /\ y.chain \in Seq(Area) /\ todo \in Seq(Obj)
      /\ Sound(y.objs, Rest(op, p), f)
      /\ Showed(y.objs, y.chain, todo)
      /\ object' = y.objs /\ olock' = olock =>
           Undisturbed(object, regions, op, olock, p, object', olock', {}, {}, S)
  BY <1>2, UnmapLeaves
<1> HIDE DEF y, todo
<1>4. f2 = f
  BY <1>1 DEF FreeingCounts
<1> HIDE DEF f, f2, S
<1>5. Sound(object', Rest(op, p), f2)
  BY <1>1, <1>3, <1>4
<1>6. Showed(object', chain2, todo)
  <2>1. \A i \in DOMAIN y.chain :
           LET s == y.chain[i].src
           IN  object'[s].type = "shadow" =>
                 /\ y.chain[i].type # "ro"
                 /\ object'[s].refcount = Times(Sources(y.chain), s) + Times(todo, s)
    BY <1>1, <1>3 DEF Showed
  <2>2. \A i \in DOMAIN chain2 :
           LET s == chain2[i].src
           IN  object'[s].type = "shadow" =>
                 /\ chain2[i].type # "ro"
                 /\ object'[s].refcount = Times(Sources(chain2), s) + Times(todo, s)
    BY <1>1, <2>1
  <2> QED
    BY <2>2 DEF Showed
<1>7. Undisturbed(object, regions, op, olock, p, object', olock', {}, {}, S)
  BY <1>1, <1>3
<1>8. then \in {"user", "map", "exit"} /\ (then = "exit" => chain2 = <<>>)
  OBVIOUS
<1> QED
  BY <1>1, <1>3, <1>5, <1>6, <1>7, <1>8, FreeingStep DEF f2

\* sys_munmap(), also as the part of sys_mmap() that makes room.
LEMMA MunmapKeeps ==
    ASSUME InvNow, NEW p \in Proc, NEW lo \in Int, NEW hi \in Int,
           NEW then \in {"user", "map"}, NEW map \in Seq(Wanted), then = "map" => map # <<>>,
           Munmap(p, lo, hi, then, map)
    PROVE  InvNext
<1> DEFINE y == Unmap(p, lo, hi)
<1>1. /\ op[p] = User /\ object' = y.objs /\ regions' = [regions EXCEPT ![p] = y.chain]
      /\ op' = [op EXCEPT ![p] = Freeing(p, y.todo, then, map)] /\ olock' = olock
  BY DEF Munmap, locks
<1>2. op[p].at \in Quiet
  BY <1>1, UserSound
<1>3. y.chain \in Seq(Area)
  BY <1>2, UnmapLeaves
<1>4. LeavesTo(p, Unmap(p, lo, hi), then, map, y.chain)
  BY <1>1 DEF LeavesTo
<1> QED
  BY <1>1, <1>3, <1>4, GivesUp

\* sys_mmap(), up to there.
LEMMA MmapKeeps ==
    ASSUME InvNow, NEW p \in Proc, Mmap(p)
    PROVE  InvNext
<1>1. PICK range \in Ranges, file \in BOOLEAN :
         Munmap(p, range[1], range[2], "map", <<Mapping(range[1], range[2], file, 0)>>)
  BY DEF Mmap
<1>2. range[1] \in Int /\ range[2] \in Int
  BY VmAssumption
<1> DEFINE map == <<Mapping(range[1], range[2], file, 0)>>
<1>3. Mapping(range[1], range[2], file, 0) \in Wanted
  BY <1>2 DEF Mapping, Wanted
<1>4. map \in Seq(Wanted) /\ map # <<>>
  BY <1>3
<1>5. Munmap(p, range[1], range[2], "map", map) /\ "map" \in {"user", "map"}
  BY <1>1
<1> HIDE DEF map
<1> QED
  BY <1>2, <1>4, <1>5, MunmapKeeps

\* sys_munmap() of one of the ranges.
LEMMA RangeKeeps ==
    ASSUME InvNow, NEW p \in Proc, NEW range \in Ranges,
           Munmap(p, range[1], range[2], "user", <<>>)
    PROVE  InvNext
<1>1. range[1] \in Int /\ range[2] \in Int
  BY VmAssumption
<1>2. <<>> \in Seq(Wanted) /\ "user" \in {"user", "map"} /\ "user" # "map"
  OBVIOUS
<1> QED
  BY <1>1, <1>2, MunmapKeeps

\* sys_break().
LEMMA BreakKeeps ==
    ASSUME InvNow, NEW p \in Proc, NEW n \in Addr, Break(p, n), GoesOn
    PROVE  InvNext
<1>1. PICK i \in DataRegion(p) :
        LET r == regions[p][i]
            st == IF n < r.hi THEN Unmap(p, n + 1, r.hi) ELSE Unmap(p, r.hi + 1, n)
        IN  /\ op[p] = User
            /\ object' = st.objs
            /\ regions' = [regions EXCEPT ![p] =
                             [j \in DOMAIN st.chain |->
                                IF st.chain[j].data THEN [st.chain[j] EXCEPT !.hi = n]
                                ELSE st.chain[j]]]
            /\ op' = [op EXCEPT ![p] = Freeing(p, st.todo, "user", <<>>)]
            /\ olock' = olock
  BY Zenon DEF Break, GoesOn, Halt, locks
<1> DEFINE r == regions[p][i]
           lo == IF n < r.hi THEN n + 1 ELSE r.hi + 1
           hi == IF n < r.hi THEN r.hi ELSE n
           y == Unmap(p, lo, hi)
           last(q) == IF q.data THEN [q EXCEPT !.hi = n] ELSE q
           chain2 == [j \in DOMAIN y.chain |-> last(y.chain[j])]
<1>2. regions[p] \in Seq(Area)
  BY PartsNow
<1>3. n \in Int /\ r.hi \in Int
  <2>1. i \in DOMAIN regions[p]
    BY DEF DataRegion
  <2>2. r \in Area
    BY <1>2, <2>1
  <2> QED
    BY <2>2, VmAssumption DEF Area, Addr
<1>4. lo \in Int /\ hi \in Int
  BY <1>3
<1>5. y = IF n < r.hi THEN Unmap(p, n + 1, r.hi) ELSE Unmap(p, r.hi + 1, n)
  OBVIOUS
<1> HIDE DEF lo, hi
<1>6. /\ op[p] = User /\ object' = y.objs /\ regions' = [regions EXCEPT ![p] = chain2]
      /\ op' = [op EXCEPT ![p] = Freeing(p, y.todo, "user", <<>>)] /\ olock' = olock
  BY <1>1, <1>5
<1>7. op[p].at \in Quiet
  BY <1>6, UserSound
<1>8. y.chain \in Seq(Area)
  BY <1>4, <1>7, UnmapLeaves
<1>9. \A q \in Area : last(q) \in Area /\ last(q).src = q.src /\ last(q).type = q.type
  BY <1>3 DEF Area
<1> HIDE DEF y, last
<1>10. /\ chain2 \in Seq(Area) /\ DOMAIN chain2 = DOMAIN y.chain
       /\ \A j \in DOMAIN y.chain : chain2[j] = last(y.chain[j]) /\ y.chain[j] \in Area
  <2>1. \A j \in DOMAIN y.chain : y.chain[j] \in Area
    BY <1>8
  <2>2. \A j \in DOMAIN y.chain : last(y.chain[j]) \in Area
    BY <1>9, <2>1
  <2>3. DOMAIN y.chain = 1..Len(y.chain) /\ Len(y.chain) \in Nat
    BY <1>8
  <2> QED
    BY <2>1, <2>2, <2>3
<1> HIDE DEF chain2
<1>11. \A j \in DOMAIN chain2 : /\ chain2[j].src = y.chain[j].src
                                /\ chain2[j].type = y.chain[j].type
  BY <1>9, <1>10
<1>12. Sources(chain2) = Sources(y.chain)
  BY <1>10, <1>11 DEF Sources
<1>13. <<>> \in Seq(Wanted) /\ "user" \in {"user", "map"} /\ "user" # "map"
  OBVIOUS
<1>14. LeavesTo(p, Unmap(p, lo, hi), "user", <<>>, chain2)
  BY <1>6, <1>10, <1>11, <1>12 DEF y, LeavesTo
<1> QED
  BY <1>4, <1>6, <1>10, <1>13, <1>14, GivesUp

-----------------------------------------------------------------------------
\* vm_fork(), region by region.
Forking(P) == [objs : Objects(P), parent : Seq(Area), child : Seq(Area)]

\* A region is shared, or parent and child get a shadow object each over its source.
Shared(y, y2, r) ==
    /\ y2.objs = Attached(y.objs, r)
    /\ y2.parent = Append(y.parent, r) /\ y2.child = <<r>> \o y.child

OnShadow(q, s) == q \in Area /\ q.src = s /\ q.type # "ro"

Halved(y, y2, r, s1, s2) ==
    /\ s1 \in Spare(y.objs) /\ s2 \in Spare(y.objs) /\ s1 # s2
    /\ y2.objs = Split(y.objs, r.src, s1, s2)
    /\ \E q1, q2 : /\ OnShadow(q1, s1) /\ OnShadow(q2, s2)
                   /\ y2.parent = Append(y.parent, q1) /\ y2.child = <<q2>> \o y.child

\* Two objects to be had.
LEMMA TwoSpare ==
    ASSUME NEW objs, Cardinality(Spare(objs)) >= 2
    PROVE  LET s1 == Min(Spare(objs))
               s2 == Min(Spare(objs) \ {s1})
           IN  s1 \in Spare(objs) /\ s2 \in Spare(objs) /\ s1 # s2
<1> DEFINE S == Spare(objs)
           s1 == Min(S)
           S2 == S \ {s1}
           s2 == Min(S2)
<1>1. S \in SUBSET Nat /\ IsFiniteSet(S)
  BY ZeroNotObj, ObjFinite DEF Spare
<1>2. Cardinality(S) >= 2
  OBVIOUS
<1> HIDE DEF S
<1>3. S # {}
  BY <1>2, FS_EmptySet
<1>4. s1 \in S
  BY <1>1, <1>3, LeastIsIn
<1> HIDE DEF s1
<1>5. Cardinality(S2) = Cardinality(S) - 1
  BY <1>1, <1>4, FS_RemoveElement
<1>6. S2 # {}
  <2>1. Cardinality(S) \in Nat
    BY <1>1, FS_CardinalityType
  <2> QED
    BY <1>2, <1>5, <2>1, FS_EmptySet
<1>7. S2 \in SUBSET Nat
  BY <1>1
<1> HIDE DEF S2
<1>8. s2 \in S2
  BY <1>6, <1>7, LeastIsIn
<1> HIDE DEF s2
<1>9. s1 \in S /\ s2 \in S /\ s1 # s2
  BY <1>4, <1>8 DEF S2
<1> QED
  BY <1>9 DEF s1, s2, S2, S

\* What fork does with a region: share it, or put a shadow object over it for each side.
LEMMA ForkRegionIs ==
    ASSUME NEW P, <<>> \in P, NEW y \in Forking(P), NEW r \in Area, y.objs[r.src].type # "free",
           r.type = "ro" \/ Cardinality(Spare(y.objs)) >= 2
    PROVE  LET y2 == ForkRegion(y, r)
           IN  /\ y2 \in Forking(P)
               /\ r.type = "ro" => Shared(y, y2, r)
               /\ r.type # "ro" => \E s1, s2 : Halved(y, y2, r, s1, s2)
<1> DEFINE y2 == ForkRegion(y, r)
           s1 == Min(Spare(y.objs))
           s2 == Min(Spare(y.objs) \ {s1})
           q1 == [r EXCEPT !.src = s1, !.type = "cow"]
           q2 == [r EXCEPT !.src = s2, !.type = "cow"]
           shared == [objs |-> Attached(y.objs, r), parent |-> Append(y.parent, r),
                      child |-> <<r>> \o y.child]
           halved == [objs |-> Split(y.objs, r.src, s1, s2), parent |-> Append(y.parent, q1),
                      child |-> <<q2>> \o y.child]
<1>1. y2 = IF r.type = "ro" THEN shared ELSE halved
  BY DEF ForkRegion, Split
<1>2. y.objs \in Objects(P) /\ y.parent \in Seq(Area) /\ y.child \in Seq(Area)
  BY DEF Forking
<1>3. r.type # "ro" => s1 \in Spare(y.objs) /\ s2 \in Spare(y.objs) /\ s1 # s2
  BY TwoSpare
<1> HIDE DEF s1, s2, y2
<1>4. CASE r.type = "ro"
  <2>1. y2 = shared
    BY <1>1, <1>4
  <2>2. Attached(y.objs, r) \in Objects(P)
    BY <1>2, AttachedIs
  <2>3. Append(y.parent, r) \in Seq(Area) /\ <<r>> \o y.child \in Seq(Area)
    BY <1>2, OneLast, OneFirst
  <2>4. y2 \in Forking(P)
    BY <2>1, <2>2, <2>3 DEF Forking
  <2>5. Shared(y, y2, r)
    BY <2>1 DEF Shared
  <2> QED
    BY <1>4, <2>4, <2>5 DEF y2
<1>5. CASE r.type # "ro"
  <2>1. y2 = halved
    BY <1>1, <1>5
  <2>2. s1 \in Spare(y.objs) /\ s2 \in Spare(y.objs) /\ s1 # s2 /\ s1 \in Obj /\ s2 \in Obj
    BY <1>3, <1>5 DEF Spare
  <2>3. r.src \in Obj /\ r.src # s1 /\ r.src # s2
    BY <2>2, SrcIsObj DEF Spare
  <2> DEFINE o == r.src
             objs2 == Split(y.objs, o, s1, s2)
  <2>4. objs2 \in Objects(P)
    <3>1. o \in Obj /\ o # s1 /\ o # s2
      BY <2>3
    <3> HIDE DEF o
    <3> QED
      BY <1>2, <2>2, <3>1, SplitIs
  <2>5. OnShadow(q1, s1) /\ OnShadow(q2, s2)
    <3>1. \A s \in Obj : LET q == [r EXCEPT !.src = s, !.type = "cow"]
                         IN  q \in Area /\ q.src = s /\ q.type = "cow"
      <4> TAKE s \in Obj
      <4> DEFINE a == [r EXCEPT !.src = s]
                 b == [a EXCEPT !.type = "cow"]
      <4>1. [r EXCEPT !.src = s, !.type = "cow"] = b
        OBVIOUS
      <4>2. a \in Area /\ a.src = s
        BY DEF Area
      <4> HIDE DEF a
      <4>3. b \in Area /\ b.src = s /\ b.type = "cow"
        BY <4>2 DEF Area
      <4> QED
        BY <4>1, <4>3
    <3> QED
      BY <2>2, <3>1 DEF OnShadow
  <2> HIDE DEF q1, q2, objs2
  <2>6. Append(y.parent, q1) \in Seq(Area) /\ <<q2>> \o y.child \in Seq(Area)
    BY <1>2, <2>5, OneLast, OneFirst DEF OnShadow
  <2>7. /\ y2.objs = objs2 /\ y2.parent = Append(y.parent, q1) /\ y2.child = <<q2>> \o y.child
        /\ y2 \in Forking(P)
    BY <2>1, <2>4, <2>6 DEF Forking, objs2
  <2>8. Halved(y, y2, r, s1, s2)
    BY <2>2, <2>5, <2>7 DEF Halved, objs2
  <2> QED
    BY <1>5, <2>7, <2>8 DEF y2
<1> QED
  BY <1>4, <1>5

\* u: the references of others; s: the sources of the chain, n of its regions done.
ForkCounts(u, s, n, y) ==
    [x \in Obj |-> u[x] + (Times(s, x) - Among(s, n, x))
                     + Times(Sources(y.parent), x) + Times(Sources(y.child), x)]

\* A region of parent or child is one of the old ones, or over a new object of its own.
Inherited(objs, objs2, chain0, q) ==
    \/ q \in ToSet(chain0) /\ q.type = "ro"
    \/ /\ q.src \in Obj /\ q.type # "ro"
       /\ objs[q.src].type = "free" /\ objs2[q.src].refcount = 1

Fixed(chain) == [i \in DOMAIN chain |-> chain[i].type = "ro"]

ForkStage(objs, gone, u, chain0, k, n, y) ==
    /\ Sound(y.objs, gone, ForkCounts(u, Sources(chain0), n, y))
    /\ Kept(objs, y.objs, {}, {}, ToSet(Sources(chain0)))
    /\ \A q \in ToSet(y.parent) \cup ToSet(y.child) : Inherited(objs, y.objs, chain0, q)
    /\ Cardinality(Spare(y.objs)) + 2 * k >= Cardinality(Spare(objs))

Forkable(objs, u, chain0) ==
    /\ chain0 \in Seq(Area) /\ \A x \in Obj : u[x] \in Nat
    /\ \A i \in DOMAIN chain0 : objs[chain0[i].src].type # "free"

\* The counts before a region is done, and after.
LEMMA ForkCounted ==
    ASSUME NEW P, NEW y \in Forking(P), NEW y2 \in Forking(P), NEW objs, NEW u, NEW chain0,
           Forkable(objs, u, chain0), NEW n \in Nat, n + 1 \in DOMAIN chain0
    PROVE  LET s == Sources(chain0)
               o == chain0[n + 1].src
               f == ForkCounts(u, s, n, y)
               f2 == ForkCounts(u, s, n + 1, y2)
           IN  \A x \in Obj :
                 \E a, c, d, c2, d2 \in Nat :
                   /\ c = Times(Sources(y.parent), x) /\ d = Times(Sources(y.child), x)
                   /\ c2 = Times(Sources(y2.parent), x) /\ d2 = Times(Sources(y2.child), x)
                   /\ f[x] = a + c + d /\ f[x] \in Nat
                   /\ f2[x] = a + c2 + d2 - (IF o = x THEN 1 ELSE 0)
                   /\ o = x => a >= 1
<1> DEFINE s == Sources(chain0)
           o == chain0[n + 1].src
           f == ForkCounts(u, s, n, y)
           f2 == ForkCounts(u, s, n + 1, y2)
<1>1. /\ chain0 \in Seq(Area) /\ \A x \in Obj : u[x] \in Nat
  BY DEF Forkable
<1>2. s \in Seq(Obj) /\ s[n + 1] = o /\ n + 1 \in DOMAIN s
  BY <1>1, SourcesOf
<1>3. y.parent \in Seq(Area) /\ y.child \in Seq(Area) /\ y2.parent \in Seq(Area) /\ y2.child \in Seq(Area)
  BY DEF Forking
<1> SUFFICES ASSUME NEW x \in Obj
             PROVE  \E a, c, d, c2, d2 \in Nat :
                   /\ c = Times(Sources(y.parent), x) /\ d = Times(Sources(y.child), x)
                   /\ c2 = Times(Sources(y2.parent), x) /\ d2 = Times(Sources(y2.child), x)
                   /\ f[x] = a + c + d /\ f[x] \in Nat
                   /\ f2[x] = a + c2 + d2 - (IF o = x THEN 1 ELSE 0)
                   /\ o = x => a >= 1
  OBVIOUS
<1> DEFINE c == Times(Sources(y.parent), x)
           d == Times(Sources(y.child), x)
           c2 == Times(Sources(y2.parent), x)
           d2 == Times(Sources(y2.child), x)
           t == Times(s, x)
           g == Among(s, n, x)
           g2 == Among(s, n + 1, x)
           v == u[x]
           a == v + (t - g)
<1>4. f[x] = v + (t - g) + c + d /\ f2[x] = v + (t - g2) + c2 + d2
  BY DEF ForkCounts
<1>5. c \in Nat /\ d \in Nat /\ c2 \in Nat /\ d2 \in Nat
  BY <1>3, SourcesOf, HitsFinite
<1>6. v \in Nat /\ t \in Nat
  BY <1>1, <1>2, HitsFinite
<1>7. g \in Nat /\ g2 \in Nat /\ g2 <= t /\ g2 = g + (IF o = x THEN 1 ELSE 0)
  <2>1. n \in 0..Len(s) /\ n + 1 \in 0..Len(s)
    BY <1>2
  <2>2. g2 = g + (IF s[n + 1] = x THEN 1 ELSE 0)
    BY AmongNext
  <2>3. g \in Nat /\ g2 \in Nat /\ g2 <= t
    BY <1>2, <2>1, AmongWithin
  <2> QED
    BY <1>2, <2>2, <2>3
<1> HIDE DEF c, d, c2, d2, t, g, g2, v, f, f2, s, o
<1>8. a \in Nat /\ (o = x => a >= 1)
  BY <1>6, <1>7
<1>9. /\ f[x] = a + c + d /\ f[x] \in Nat
  BY <1>4, <1>5, <1>8
<1>10. f2[x] = a + c2 + d2 - (IF o = x THEN 1 ELSE 0)
  <2>1. CASE o = x
    <3>1. g2 = g + 1
      BY <1>7, <2>1
    <3> QED
      BY <1>4, <1>5, <1>6, <1>7, <2>1, <3>1
  <2>2. CASE o # x
    BY <1>4, <1>5, <1>6, <1>7, <2>2
  <2> QED
    BY <2>1, <2>2
<1> HIDE DEF a
<1>11. \E e1, e2, e3, e4, e5 \in Nat :
         /\ e2 = c /\ e3 = d /\ e4 = c2 /\ e5 = d2
         /\ f[x] = e1 + e2 + e3 /\ f[x] \in Nat
         /\ f2[x] = e1 + e4 + e5 - (IF o = x THEN 1 ELSE 0)
         /\ o = x => e1 >= 1
  BY <1>5, <1>8, <1>9, <1>10
<1> QED
  BY <1>11 DEF c, d, c2, d2

\* One turn of the loop of fork, for a region that is shared ..
LEMMA ForkShares ==
    ASSUME NEW P, NEW y \in Forking(P), NEW y2 \in Forking(P), NEW objs, NEW gone, NEW u,
           NEW chain0, Forkable(objs, u, chain0), NEW n \in Nat, n + 1 \in DOMAIN chain0,
           NEW k \in Nat, ForkStage(objs, gone, u, chain0, k, n, y),
           Shared(y, y2, chain0[n + 1]), chain0[n + 1].type = "ro"
    PROVE  ForkStage(objs, gone, u, chain0, k, n + 1, y2)
<1> DEFINE r == chain0[n + 1]
           o == r.src
           s == Sources(chain0)
           f == ForkCounts(u, s, n, y)
           f2 == ForkCounts(u, s, n + 1, y2)
<1>1. /\ r \in Area /\ o \in Obj /\ o \in ToSet(s) /\ r \in ToSet(chain0) /\ r.type = "ro"
      /\ objs[o].type # "free"
  <2>1. chain0 \in Seq(Area) /\ \A i \in DOMAIN chain0 : objs[chain0[i].src].type # "free"
    BY DEF Forkable
  <2>2. s[n + 1] = o /\ n + 1 \in DOMAIN s
    BY <2>1, SourcesOf
  <2> QED
    BY <2>1, <2>2, SrcIsObj DEF ToSet
<1>2. /\ Sound(y.objs, gone, f) /\ Kept(objs, y.objs, {}, {}, ToSet(s))
      /\ \A q \in ToSet(y.parent) \cup ToSet(y.child) : Inherited(objs, y.objs, chain0, q)
      /\ Cardinality(Spare(y.objs)) + 2 * k >= Cardinality(Spare(objs))
  BY DEF ForkStage
<1>3. /\ y2.objs = Attached(y.objs, r)
      /\ y2.parent = Append(y.parent, r) /\ y2.child = <<r>> \o y.child
  BY DEF Shared
<1>4. y.parent \in Seq(Area) /\ y.child \in Seq(Area) /\ y.objs \in Objects(P)
  BY DEF Forking
<1>5. \A x \in Obj :
         \E a, c, d, c2, d2 \in Nat :
           /\ c = Times(Sources(y.parent), x) /\ d = Times(Sources(y.child), x)
           /\ c2 = Times(Sources(y2.parent), x) /\ d2 = Times(Sources(y2.child), x)
           /\ f[x] = a + c + d /\ f[x] \in Nat
           /\ f2[x] = a + c2 + d2 - (IF o = x THEN 1 ELSE 0)
           /\ o = x => a >= 1
  BY ForkCounted
<1> HIDE DEF f, f2, s, r
<1>6. /\ \A x : Times(Sources(y2.parent), x) = Times(Sources(y.parent), x) + (IF o = x THEN 1 ELSE 0)
      /\ \A x : Times(Sources(y2.child), x) = Times(Sources(y.child), x) + (IF o = x THEN 1 ELSE 0)
      /\ ToSet(y2.parent) = ToSet(y.parent) \cup {r}
      /\ ToSet(y2.child) = ToSet(y.child) \cup {r}
  <2>1. /\ \A x : Times(Sources(Append(y.parent, r)), x)
                    = Times(Sources(y.parent), x) + (IF r.src = x THEN 1 ELSE 0)
        /\ ToSet(Append(y.parent, r)) = ToSet(y.parent) \cup {r}
    BY <1>1, <1>4, OneLast
  <2>2. /\ \A x : Times(Sources(<<r>> \o y.child), x)
                    = Times(Sources(y.child), x) + (IF r.src = x THEN 1 ELSE 0)
        /\ ToSet(<<r>> \o y.child) = ToSet(y.child) \cup {r}
    BY <1>1, <1>4, OneFirst
  <2> QED
    BY <1>3, <2>1, <2>2
<1>7. /\ y2.objs \in Objects(P)
      /\ \A x \in Obj : /\ y2.objs[x].type = y.objs[x].type /\ y2.objs[x].next = y.objs[x].next
                        /\ x # o => y2.objs[x].refcount = y.objs[x].refcount
  <2> DEFINE objs1 == y.objs
             objs2 == Attached(objs1, r)
  <2>1. objs1 \in Objects(P) /\ objs2 = y2.objs
    BY <1>3, <1>4
  <2> HIDE DEF objs1, o
  <2>2. /\ objs2 \in Objects(P)
        /\ \A x \in Obj : /\ objs2[x].type = objs1[x].type /\ objs2[x].next = objs1[x].next
                          /\ x # r.src => objs2[x].refcount = objs1[x].refcount
    BY <1>1, <2>1, AttachedIs
  <2> HIDE DEF objs2
  <2> QED
    BY <2>1, <2>2 DEF o, objs1
<1>8. \A x \in Obj : f2[x] = IF x = o THEN f[x] + 1 ELSE f[x]
  <2> HIDE DEF o
  <2> TAKE x \in Obj
  <2>1. PICK a, c, d, c2, d2 \in Nat :
           /\ c = Times(Sources(y.parent), x) /\ d = Times(Sources(y.child), x)
           /\ c2 = Times(Sources(y2.parent), x) /\ d2 = Times(Sources(y2.child), x)
           /\ f[x] = a + c + d /\ f[x] \in Nat
           /\ f2[x] = a + c2 + d2 - (IF o = x THEN 1 ELSE 0)
           /\ o = x => a >= 1
    BY <1>5
  <2>2. c2 = c + (IF o = x THEN 1 ELSE 0) /\ d2 = d + (IF o = x THEN 1 ELSE 0)
    BY <1>6, <2>1
  <2>3. CASE x = o
    <3>1. c2 = c + 1 /\ d2 = d + 1 /\ f2[x] = a + c2 + d2 - 1 /\ f[x] = a + c + d
      BY <2>1, <2>2, <2>3
    <3>2. f2[x] = f[x] + 1
      BY <3>1
    <3> QED
      BY <2>3, <3>2
  <2>4. CASE x # o
    <3>1. c2 = c /\ d2 = d /\ f2[x] = a + c2 + d2 /\ f[x] = a + c + d
      BY <2>1, <2>2, <2>4
    <3> QED
      BY <2>4, <3>1
  <2> QED
    BY <2>3, <2>4
<1> HIDE DEF o
<1>9. \A x \in Obj : f[x] \in Nat
  BY <1>5
<1>10. y.objs[o].type # "free"
  BY <1>1, <1>2 DEF Kept
<1>11. Sound(y2.objs, gone, f2)
  <2>1. Sound([y.objs EXCEPT ![o].refcount = @ + 1], gone, f2)
    BY <1>1, <1>2, <1>8, <1>9, <1>10, SoundAttached
  <2>2. y2.objs = [y.objs EXCEPT ![o].refcount = @ + 1]
    BY <1>3 DEF Attached, o
  <2> QED
    BY <2>1, <2>2
<1>12. Kept(objs, y2.objs, {}, {}, ToSet(s))
  BY <1>1, <1>2, <1>7 DEF Kept
<1>13. \A q \in ToSet(y2.parent) \cup ToSet(y2.child) : Inherited(objs, y2.objs, chain0, q)
  <2> SUFFICES ASSUME NEW q \in ToSet(y2.parent) \cup ToSet(y2.child)
               PROVE  Inherited(objs, y2.objs, chain0, q)
    OBVIOUS
  <2>1. CASE q = r
    BY <1>1, <2>1 DEF Inherited
  <2>2. CASE q # r
    <3>1. Inherited(objs, y.objs, chain0, q)
      BY <1>2, <1>6, <2>2
    <3>2. CASE q \in ToSet(chain0) /\ q.type = "ro"
      BY <3>2 DEF Inherited
    <3>3. CASE /\ q.src \in Obj /\ q.type # "ro"
               /\ objs[q.src].type = "free" /\ y.objs[q.src].refcount = 1
      <4>1. q.src # o
        BY <1>1, <3>3
      <4> QED
        BY <1>7, <3>3, <4>1 DEF Inherited
    <3> QED
      BY <3>1, <3>2, <3>3 DEF Inherited
  <2> QED
    BY <2>1, <2>2
<1>14. Cardinality(Spare(y2.objs)) + 2 * k >= Cardinality(Spare(objs))
  <2>1. Spare(y2.objs) = Spare(y.objs)
    BY <1>7 DEF Spare
  <2> QED
    BY <1>2, <2>1
<1> QED
  BY <1>11, <1>12, <1>13, <1>14 DEF ForkStage, f2, s

\* .. and for one that is split.
LEMMA ForkSplits ==
    ASSUME NEW P, <<>> \in P, NEW y \in Forking(P), NEW y2 \in Forking(P), NEW objs, NEW gone, NEW u,
           NEW chain0, Forkable(objs, u, chain0), NEW n \in Nat, n + 1 \in DOMAIN chain0,
           NEW k \in Nat, ForkStage(objs, gone, u, chain0, k, n, y),
           NEW s1, NEW s2, Halved(y, y2, chain0[n + 1], s1, s2)
    PROVE  ForkStage(objs, gone, u, chain0, k + 1, n + 1, y2)
<1> DEFINE r == chain0[n + 1]
           o == r.src
           s == Sources(chain0)
           f == ForkCounts(u, s, n, y)
           f2 == ForkCounts(u, s, n + 1, y2)
<1>1. /\ r \in Area /\ o \in Obj /\ o \in ToSet(s)
      /\ objs[o].type # "free"
  <2>1. chain0 \in Seq(Area) /\ \A i \in DOMAIN chain0 : objs[chain0[i].src].type # "free"
    BY DEF Forkable
  <2>2. s[n + 1] = o /\ n + 1 \in DOMAIN s
    BY <2>1, SourcesOf
  <2> QED
    BY <2>1, <2>2, SrcIsObj DEF ToSet
<1>2. /\ Sound(y.objs, gone, f) /\ Kept(objs, y.objs, {}, {}, ToSet(s))
      /\ \A q \in ToSet(y.parent) \cup ToSet(y.child) : Inherited(objs, y.objs, chain0, q)
      /\ Cardinality(Spare(y.objs)) + 2 * k >= Cardinality(Spare(objs))
  BY DEF ForkStage
<1>3. /\ s1 \in Spare(y.objs) /\ s2 \in Spare(y.objs) /\ s1 # s2
      /\ y2.objs = Split(y.objs, o, s1, s2)
  BY DEF Halved
<1>4. PICK q1, q2 : /\ OnShadow(q1, s1) /\ OnShadow(q2, s2)
                    /\ y2.parent = Append(y.parent, q1) /\ y2.child = <<q2>> \o y.child
  BY DEF Halved
<1>5. y.parent \in Seq(Area) /\ y.child \in Seq(Area) /\ y.objs \in Objects(P)
  BY DEF Forking
<1>6. \A x \in Obj :
         \E a, c, d, c2, d2 \in Nat :
           /\ c = Times(Sources(y.parent), x) /\ d = Times(Sources(y.child), x)
           /\ c2 = Times(Sources(y2.parent), x) /\ d2 = Times(Sources(y2.child), x)
           /\ f[x] = a + c + d /\ f[x] \in Nat
           /\ f2[x] = a + c2 + d2 - (IF o = x THEN 1 ELSE 0)
           /\ o = x => a >= 1
  BY ForkCounted
<1> HIDE DEF f, f2, s, r
<1>7. /\ \A x : Times(Sources(y2.parent), x) = Times(Sources(y.parent), x) + (IF s1 = x THEN 1 ELSE 0)
      /\ \A x : Times(Sources(y2.child), x) = Times(Sources(y.child), x) + (IF s2 = x THEN 1 ELSE 0)
      /\ ToSet(y2.parent) = ToSet(y.parent) \cup {q1}
      /\ ToSet(y2.child) = ToSet(y.child) \cup {q2}
  <2>0. q1 \in Area /\ q1.src = s1 /\ q2 \in Area /\ q2.src = s2
    BY <1>4 DEF OnShadow
  <2>1. /\ \A x : Times(Sources(Append(y.parent, q1)), x)
                    = Times(Sources(y.parent), x) + (IF q1.src = x THEN 1 ELSE 0)
        /\ ToSet(Append(y.parent, q1)) = ToSet(y.parent) \cup {q1}
    BY <1>5, <2>0, OneLast
  <2>2. /\ \A x : Times(Sources(<<q2>> \o y.child), x)
                    = Times(Sources(y.child), x) + (IF q2.src = x THEN 1 ELSE 0)
        /\ ToSet(<<q2>> \o y.child) = ToSet(y.child) \cup {q2}
    BY <1>5, <2>0, OneFirst
  <2> QED
    BY <1>4, <2>0, <2>1, <2>2
<1>8. y.objs[o].type # "free" /\ o # s1 /\ o # s2 /\ s1 \in Obj /\ s2 \in Obj
      /\ y.objs[s1].type = "free" /\ y.objs[s2].type = "free"
  BY <1>1, <1>2, <1>3 DEF Kept, Spare
<1>9. /\ y2.objs[s1] = Shadow(o) /\ y2.objs[s2] = Shadow(o)
      /\ y2.objs[o].type = y.objs[o].type /\ y2.objs[o].next = y.objs[o].next
      /\ \A x \in Obj \ {o, s1, s2} : y2.objs[x] = y.objs[x]
  <2> DEFINE objs1 == y.objs
             objs2 == Split(objs1, o, s1, s2)
  <2>1. objs1 \in Objects(P) /\ objs2 = y2.objs
    BY <1>3, <1>5
  <2> HIDE DEF objs1, o
  <2>2. /\ objs2 \in Objects(P) /\ objs2[s1] = Shadow(o) /\ objs2[s2] = Shadow(o)
        /\ objs2[o].type = objs1[o].type /\ objs2[o].next = objs1[o].next
        /\ objs2[o].refcount = objs1[o].refcount + 1
        /\ objs2[o].type = "shadow" => objs2[o].ref1 # 0 /\ objs2[o].ref2 # 0
        /\ \A x \in Obj \ {o, s1, s2} : objs2[x] = objs1[x]
    BY <1>1, <1>3, <1>8, <2>1, SplitIs
  <2> HIDE DEF objs2
  <2> QED
    BY <2>1, <2>2 DEF objs1
<1> HIDE DEF o
<1>10. \A x \in Obj : f[x] \in Nat
  BY <1>6
<1>11. /\ f2[s1] = f[s1] + 1 /\ f2[s2] = f[s2] + 1 /\ f2[o] = f[o] - 1
       /\ \A x \in Obj \ {o, s1, s2} : f2[x] = f[x]
  <2>1. ASSUME NEW x \in Obj
        PROVE  /\ x = s1 => f2[x] = f[x] + 1
               /\ x = s2 => f2[x] = f[x] + 1
               /\ x = o => f2[x] = f[x] - 1
               /\ x \notin {o, s1, s2} => f2[x] = f[x]
    <3>1. PICK a, c, d, c2, d2 \in Nat :
             /\ c = Times(Sources(y.parent), x) /\ d = Times(Sources(y.child), x)
             /\ c2 = Times(Sources(y2.parent), x) /\ d2 = Times(Sources(y2.child), x)
             /\ f[x] = a + c + d /\ f[x] \in Nat
             /\ f2[x] = a + c2 + d2 - (IF o = x THEN 1 ELSE 0)
             /\ o = x => a >= 1
      BY <1>6
    <3>2. c2 = c + (IF s1 = x THEN 1 ELSE 0) /\ d2 = d + (IF s2 = x THEN 1 ELSE 0)
      BY <1>7, <3>1
    <3>3. CASE x = s1
      <4>1. c2 = c + 1 /\ d2 = d /\ f2[x] = a + c2 + d2
        BY <1>3, <1>8, <3>1, <3>2, <3>3
      <4>2. f2[x] = f[x] + 1
        BY <3>1, <4>1
      <4> QED
        BY <1>3, <1>8, <3>3, <4>2
    <3>4. CASE x = s2
      <4>1. c2 = c /\ d2 = d + 1 /\ f2[x] = a + c2 + d2
        BY <1>3, <1>8, <3>1, <3>2, <3>4
      <4>2. f2[x] = f[x] + 1
        BY <3>1, <4>1
      <4> QED
        BY <1>3, <1>8, <3>4, <4>2
    <3>5. CASE x = o
      <4>1. c2 = c /\ d2 = d /\ f2[x] = a + c2 + d2 - 1
        BY <1>8, <3>1, <3>2, <3>5
      <4>2. f2[x] = f[x] - 1
        BY <3>1, <4>1
      <4> QED
        BY <1>8, <3>5, <4>2
    <3>6. CASE x \notin {o, s1, s2}
      <4>1. c2 = c /\ d2 = d /\ f2[x] = a + c2 + d2
        BY <3>1, <3>2, <3>6
      <4> QED
        BY <3>1, <3>6, <4>1
    <3> QED
      BY <3>3, <3>4, <3>5, <3>6
  <2> QED
    BY <1>1, <1>8, <2>1
<1>12. Sound(y2.objs, gone, f2)
  <2>1. Sound(Split(y.objs, o, s1, s2), gone, f2)
    BY <1>1, <1>2, <1>3, <1>8, <1>10, <1>11, SoundSplit
  <2> QED
    BY <1>3, <2>1
<1>13. \A x \in Obj : y.objs[x].type # "free" =>
           /\ y2.objs[x].type = y.objs[x].type /\ y2.objs[x].next = y.objs[x].next
           /\ x # o => y2.objs[x].refcount = y.objs[x].refcount
  <2> TAKE x \in Obj
  <2>1. CASE x = o
    BY <1>9, <2>1
  <2>2. CASE x \in {s1, s2}
    BY <1>8, <2>2
  <2>3. CASE x \in Obj \ {o, s1, s2}
    BY <1>9, <2>3
  <2> QED
    BY <2>1, <2>2, <2>3
<1>14. Kept(objs, y2.objs, {}, {}, ToSet(s))
  BY <1>1, <1>2, <1>13 DEF Kept
<1>15. objs[s1].type = "free" /\ objs[s2].type = "free"
  BY <1>2, <1>8 DEF Kept
<1>16. \A q \in ToSet(y2.parent) \cup ToSet(y2.child) : Inherited(objs, y2.objs, chain0, q)
  <2> SUFFICES ASSUME NEW q \in ToSet(y2.parent) \cup ToSet(y2.child)
               PROVE  Inherited(objs, y2.objs, chain0, q)
    OBVIOUS
  <2>1. CASE q \in {q1, q2}
    <3>1. q.src \in {s1, s2} /\ q.type # "ro"
      BY <1>4, <2>1 DEF OnShadow
    <3>2. y2.objs[s1].refcount = 1 /\ y2.objs[s2].refcount = 1
      BY <1>1, <1>9, NewCells
    <3> QED
      BY <1>8, <1>15, <3>1, <3>2 DEF Inherited
  <2>2. CASE q \notin {q1, q2}
    <3>1. Inherited(objs, y.objs, chain0, q)
      BY <1>2, <1>7, <2>2
    <3>2. CASE q \in ToSet(chain0) /\ q.type = "ro"
      BY <3>2 DEF Inherited
    <3>3. CASE /\ q.src \in Obj /\ q.type # "ro"
               /\ objs[q.src].type = "free" /\ y.objs[q.src].refcount = 1
      <4>1. q.src # o
        BY <1>1, <3>3
      <4>2. y.objs[q.src].type # "free"
        BY <1>2, <3>3 DEF Sound, FreeIsBlank
      <4> QED
        BY <1>13, <3>3, <4>1, <4>2 DEF Inherited
    <3> QED
      BY <3>1, <3>2, <3>3 DEF Inherited
  <2> QED
    BY <2>1, <2>2
<1>17. Cardinality(Spare(y2.objs)) + 2 * (k + 1) >= Cardinality(Spare(objs))
  <2> DEFINE T == {s1, s2}
  <2>1. T \in SUBSET Obj /\ Cardinality(T) <= 2 /\ 2 \in Nat
    <3>1. Cardinality({s1}) = 1 /\ IsFiniteSet({s1})
      BY FS_Singleton
    <3>2. s2 \notin {s1} /\ T = {s1} \cup {s2}
      BY <1>3
    <3> HIDE DEF T
    <3> DEFINE T1 == {s1}
    <3>3. IsFiniteSet(T1) /\ Cardinality(T1) = 1 /\ s2 \notin T1 /\ T = T1 \cup {s2}
      BY <3>1, <3>2
    <3> HIDE DEF T1
    <3>4. Cardinality(T) = 2
      BY <3>3, CountMore
    <3> QED
      BY <1>8, <3>2, <3>4
  <2>2. \A x \in Obj \ T : y.objs[x].type = "free" => y2.objs[x].type = "free"
    BY <1>8, <1>9
  <2> HIDE DEF T
  <2>3. /\ Cardinality(Spare(y2.objs)) \in Nat /\ Cardinality(Spare(y.objs)) \in Nat
        /\ Cardinality(Spare(y2.objs)) + 2 >= Cardinality(Spare(y.objs))
    BY <2>1, <2>2, SpareTaken
  <2>4. Cardinality(Spare(objs)) \in Nat
    BY ObjFinite DEF Spare
  <2> QED
    BY <1>2, <2>3, <2>4
<1> QED
  BY <1>12, <1>14, <1>16, <1>17 DEF ForkStage, f2, s

\* The regions that are split are those that are not read-only.
LEMMA FixedIs ==
    ASSUME NEW chain \in Seq(Area)
    PROVE  /\ Fixed(chain) \in Seq(BOOLEAN) /\ Len(Fixed(chain)) = Len(chain)
           /\ Times(Fixed(chain), FALSE) = Writable(chain)
           /\ Writable(chain) \in Nat
<1> DEFINE s == Fixed(chain)
<1>1. s \in Seq(BOOLEAN) /\ Len(s) = Len(chain) /\ DOMAIN s = DOMAIN chain
  <2> DEFINE ro(i) == chain[i].type = "ro"
  <2>1. s = [i \in DOMAIN chain |-> ro(i)]
    BY DEF Fixed
  <2>2. \A i : ro(i) \in BOOLEAN
    OBVIOUS
  <2> HIDE DEF ro, s
  <2>3. \A i \in DOMAIN chain : ro(i) \in BOOLEAN
    BY <2>2
  <2>4. DOMAIN chain = 1..Len(chain) /\ Len(chain) \in Nat
    OBVIOUS
  <2> QED
    BY <2>1, <2>3, <2>4
<1>2. Hits(s, FALSE) = {i \in DOMAIN chain : chain[i].type # "ro"}
  <2>1. \A i \in DOMAIN chain : s[i] = (chain[i].type = "ro")
    BY DEF Fixed
  <2> HIDE DEF s
  <2> QED
    BY <1>1, <2>1 DEF Hits
<1>3. Times(s, FALSE) = Writable(chain)
  BY <1>2 DEF Times, Writable
<1>4. Times(s, FALSE) \in Nat
  BY <1>1, HitsFinite
<1> QED
  BY <1>1, <1>3, <1>4

\* One turn of the loop, whatever the region.
LEMMA ForkNext ==
    ASSUME NEW P, <<>> \in P, NEW y \in Forking(P), NEW objs, NEW gone, NEW u,
           NEW chain0, Forkable(objs, u, chain0), NEW n \in Nat, n + 1 \in DOMAIN chain0,
           NEW k \in Nat, ForkStage(objs, gone, u, chain0, k, n, y),
           chain0[n + 1].type = "ro" \/ Cardinality(Spare(objs)) >= 2 * (k + 1)
    PROVE  LET y2 == ForkRegion(y, chain0[n + 1])
               k2 == k + (IF chain0[n + 1].type = "ro" THEN 0 ELSE 1)
           IN  y2 \in Forking(P) /\ ForkStage(objs, gone, u, chain0, k2, n + 1, y2)
<1> DEFINE r == chain0[n + 1]
           y2 == ForkRegion(y, r)
           k2 == k + (IF r.type = "ro" THEN 0 ELSE 1)
<1>1. /\ r \in Area /\ r.src \in Obj /\ objs[r.src].type # "free"
  <2>1. chain0 \in Seq(Area) /\ \A i \in DOMAIN chain0 : objs[chain0[i].src].type # "free"
    BY DEF Forkable
  <2> QED
    BY <2>1, SrcIsObj
<1>2. /\ Kept(objs, y.objs, {}, {}, ToSet(Sources(chain0)))
      /\ Cardinality(Spare(y.objs)) + 2 * k >= Cardinality(Spare(objs))
  BY DEF ForkStage
<1>3. r.type = "ro" \/ Cardinality(Spare(objs)) >= 2 * (k + 1)
  OBVIOUS
<1> HIDE DEF r, y2
<1>4. y.objs[r.src].type # "free"
  <2> DEFINE o == r.src
  <2>1. o \in Obj /\ objs[o].type # "free"
    BY <1>1
  <2> HIDE DEF o
  <2>2. y.objs[o].type # "free"
    BY <1>2, <2>1 DEF Kept
  <2> QED
    BY <2>2 DEF o
<1>5. r.type = "ro" \/ Cardinality(Spare(y.objs)) >= 2
  <2>1. Cardinality(Spare(objs)) \in Nat /\ Cardinality(Spare(y.objs)) \in Nat
    BY ObjFinite DEF Spare
  <2> QED
    BY <1>2, <1>3, <2>1
<1>6. /\ y2 \in Forking(P)
      /\ r.type = "ro" => Shared(y, y2, r)
      /\ r.type # "ro" => \E s1, s2 : Halved(y, y2, r, s1, s2)
  BY <1>1, <1>4, <1>5, ForkRegionIs DEF y2
<1>7. CASE r.type = "ro"
  <2>1. Shared(y, y2, chain0[n + 1]) /\ chain0[n + 1].type = "ro"
    BY <1>6, <1>7 DEF r
  <2>2. ForkStage(objs, gone, u, chain0, k, n + 1, y2)
    BY <1>6, <2>1, ForkShares
  <2>3. k2 = k
    BY <1>7
  <2> QED
    BY <1>6, <2>2, <2>3 DEF y2, r
<1>8. CASE r.type # "ro"
  <2>1. PICK s1, s2 : Halved(y, y2, chain0[n + 1], s1, s2)
    BY <1>6, <1>8 DEF r
  <2>2. ForkStage(objs, gone, u, chain0, k + 1, n + 1, y2)
    BY <1>6, <2>1, ForkSplits
  <2>3. k2 = k + 1
    BY <1>8
  <2> QED
    BY <1>6, <2>2, <2>3 DEF y2, r
<1> QED
  BY <1>7, <1>8

\* All of the turns.
LEMMA ForkedIs ==
    ASSUME NEW gone, NEW u, NEW chain0, Forkable(object, u, chain0),
           NEW f, Sound(object, gone, f),
           \A x \in Obj : f[x] = Times(Sources(chain0), x) + u[x],
           Cardinality(Spare(object)) >= 2 * Writable(chain0)
    PROVE  LET y == Forked(chain0)
           IN  /\ y.parent \in Seq(Area) /\ y.child \in Seq(Area)
               /\ \E k : ForkStage(object, gone, u, chain0, k, Len(chain0), y)
<1> DEFINE N == Len(chain0)
           P == PageLists(object)
           S == Forking(P)
           none == [objs |-> object, parent |-> <<>>, child |-> <<>>]
           k(n) == Among(Fixed(chain0), n, FALSE)
           Good(n) == {y \in S : ForkStage(object, gone, u, chain0, k(n), n, y)}
           good == [n \in 0..N |-> Good(n)]
           step == [v \in (1..N) \X S |-> ForkRegion(v[2], chain0[v[1]])]
           Is(g) == g = [i \in 0..N |-> IF i = 0 THEN none ELSE ForkRegion(g[i - 1], chain0[i])]
<1>0. chain0 \in Seq(Area) /\ \A x \in Obj : u[x] \in Nat
  BY DEF Forkable
<1>1. N \in Nat /\ object \in Objects(P) /\ <<>> \in P
  <2>1. N \in Nat
    BY <1>0
  <2> QED
    BY <2>1 DEF Sound, PageLists
<1>2. none \in Good(0)
  <2>1. none \in S
    BY <1>1 DEF Forking
  <2>2. k(0) = 0
    BY AmongNone
  <2>3. Sources(<<>>) = <<>> /\ ToSet(<<>>) = {}
    BY EmptySet DEF Sources
  <2>4. \A x \in Obj : ForkCounts(u, Sources(chain0), 0, none)[x] = f[x]
    <3> TAKE x \in Obj
    <3> DEFINE c == Times(Sources(<<>>), x)
               t == Times(Sources(chain0), x)
               a == Among(Sources(chain0), 0, x)
               v == u[x]
    <3>1. ForkCounts(u, Sources(chain0), 0, none)[x] = v + (t - a) + c + c
      BY DEF ForkCounts
    <3>2. a = 0 /\ c = 0
      BY <2>3, AmongNone, TimesNone
    <3>3. t \in Nat /\ v \in Nat /\ f[x] = t + v
      BY <1>0, SourcesOf, HitsFinite
    <3> HIDE DEF a, c, t, v
    <3> QED
      BY <3>1, <3>2, <3>3
  <2>5. Sound(none.objs, gone, ForkCounts(u, Sources(chain0), 0, none))
    BY <2>4, SoundSame
  <2>6. Kept(object, none.objs, {}, {}, ToSet(Sources(chain0)))
    BY DEF Kept
  <2>7. Cardinality(Spare(object)) \in Nat
    BY ObjFinite DEF Spare
  <2>8. ForkStage(object, gone, u, chain0, 0, 0, none)
    BY <2>3, <2>5, <2>6, <2>7 DEF ForkStage
  <2> QED
    BY <2>1, <2>2, <2>8
<1>3. /\ Fixed(chain0) \in Seq(BOOLEAN) /\ Len(Fixed(chain0)) = N
      /\ Times(Fixed(chain0), FALSE) = Writable(chain0) /\ Writable(chain0) \in Nat
  BY <1>0, FixedIs
<1>4. \A n \in 1..N : \A y \in Good(n - 1) : ForkRegion(y, chain0[n]) \in Good(n)
  <2> SUFFICES ASSUME NEW n \in 1..N, NEW y \in Good(n - 1)
               PROVE  ForkRegion(y, chain0[n]) \in Good(n)
    OBVIOUS
  <2> DEFINE m == n - 1
             r == chain0[m + 1]
             j == k(m)
             y2 == ForkRegion(y, r)
             j2 == j + (IF r.type = "ro" THEN 0 ELSE 1)
  <2>1. m \in Nat /\ m \in 0..N /\ n \in 0..N /\ m + 1 = n /\ m + 1 \in DOMAIN chain0
    BY <1>0, <1>1
  <2>2. Fixed(chain0)[m + 1] = (r.type = "ro")
    BY <2>1 DEF Fixed
  <2>3. k(n) = j2
    <3>1. Among(Fixed(chain0), m + 1, FALSE)
            = Among(Fixed(chain0), m, FALSE) + (IF Fixed(chain0)[m + 1] = FALSE THEN 1 ELSE 0)
      BY <2>1, AmongNext
    <3> HIDE DEF r
    <3> QED
      BY <2>1, <2>2, <3>1
  <2>4. /\ j \in Nat /\ k(n) \in Nat
        /\ k(n) <= Writable(chain0)
    BY <1>3, <2>1, AmongWithin
  <2>5. y \in S /\ ForkStage(object, gone, u, chain0, j, m, y)
    OBVIOUS
  <2> HIDE DEF m, j, S, P
  <2>6. r.type = "ro" \/ Cardinality(Spare(object)) >= 2 * (j + 1)
    <3>1. Cardinality(Spare(object)) \in Nat
      BY ObjFinite DEF Spare
    <3> HIDE DEF k, r
    <3> QED
      BY <1>3, <2>3, <2>4, <3>1
  <2>7. y2 \in S /\ ForkStage(object, gone, u, chain0, j2, m + 1, y2)
    <3>1. y \in Forking(P)
      BY <2>5 DEF S
    <3>2. y2 \in Forking(P) /\ ForkStage(object, gone, u, chain0, j2, m + 1, y2)
      BY <1>1, <2>1, <2>4, <2>5, <2>6, <3>1, ForkNext
    <3> QED
      BY <3>2 DEF S
  <2> HIDE DEF k, y2, j2, r
  <2>8. y2 \in S /\ ForkStage(object, gone, u, chain0, k(n), n, y2)
    BY <2>1, <2>3, <2>7
  <2>9. y2 = ForkRegion(y, chain0[n])
    BY <2>1 DEF y2, r
  <2> QED
    BY <2>8, <2>9
<1>5. good \in [0..N -> SUBSET S] /\ none \in good[0]
  <2>1. \A n : Good(n) \in SUBSET S
    OBVIOUS
  <2>2. 0 \in 0..N
    BY <1>1
  <2> HIDE DEF Good
  <2> QED
    BY <1>2, <2>1, <2>2
<1>6. \A n \in 0..N : good[n] = Good(n)
  OBVIOUS
<1>7. \A n \in 1..N : n \in 0..N /\ n - 1 \in 0..N
  BY <1>1
<1>8. \A n \in 0..N : \A y \in Good(n) : y \in S
  OBVIOUS
<1>9. \A n \in 1..N : \A y \in S : step[<<n, y>>] = ForkRegion(y, chain0[n])
  OBVIOUS
<1> HIDE DEF good, step, Good, S, none
<1>10. \A n \in 1..N : \A y \in good[n - 1] : step[<<n, y>>] \in good[n]
  <2> SUFFICES ASSUME NEW n \in 1..N, NEW y \in good[n - 1] PROVE step[<<n, y>>] \in good[n]
    OBVIOUS
  <2>1. y \in Good(n - 1) /\ y \in S
    BY <1>6, <1>7, <1>8
  <2>2. ForkRegion(y, chain0[n]) \in Good(n)
    BY <1>4, <2>1
  <2> QED
    BY <1>6, <1>7, <1>9, <2>1, <2>2
<1>11. PICK g \in [0..N -> S] :
          /\ g[0] = none /\ \A n \in 1..N : g[n] = step[<<n, g[n - 1]>>]
          /\ \A n \in 0..N : g[n] \in good[n]
  <2>1. N \in Nat
    BY <1>1
  <2> HIDE DEF N, P, Is
  <2>2. Leads(N, S, good, none, step)
    BY <1>5, <1>10 DEF Leads
  <2> QED
    BY <2>1, <2>2, Stages
<1>12. Is(g)
  <2>1. \A n \in 1..N : g[n] = ForkRegion(g[n - 1], chain0[n])
    <3> TAKE n \in 1..N
    <3> HIDE DEF N
    <3>1. g[n] = step[<<n, g[n - 1]>>]
      BY <1>11
    <3>2. g[n - 1] \in S
      BY <1>7, <1>11
    <3> QED
      BY <1>9, <3>1, <3>2
  <2>2. \A n \in 0..N : g[n] = IF n = 0 THEN none ELSE ForkRegion(g[n - 1], chain0[n])
    BY <1>11, <2>1
  <2>3. g = [n \in 0..N |-> g[n]]
    BY <1>11
  <2> QED
    BY <2>2, <2>3
<1> DEFINE h == CHOOSE g2 : Is(g2)
<1>13. Is(h)
  <2> HIDE DEF Is
  <2> QED
    BY <1>12
<1>14. Forked(chain0) = h[N]
  BY DEF Forked, none
<1>15. h[0] = none /\ \A n \in 1..N : h[n] = ForkRegion(h[n - 1], chain0[n])
  <2> HIDE DEF h
  <2>1. h = [i \in 0..N |-> IF i = 0 THEN none ELSE ForkRegion(h[i - 1], chain0[i])]
    BY <1>13
  <2> HIDE DEF N, Is
  <2>2. \A n \in 0..N : h[n] = IF n = 0 THEN none ELSE ForkRegion(h[n - 1], chain0[n])
    BY <2>1
  <2>3. 0 \in 0..N /\ \A n \in 1..N : n # 0
    BY <1>1
  <2> QED
    BY <1>7, <2>2, <2>3
<1> HIDE DEF h, Is
<1> DEFINE T == {n \in 0..N : h[n] \in Good(n)}
<1>16. \A n \in 0..N : n \in T
  <2>1. 0 \in T
    <3>1. 0 \in 0..N /\ h[0] = none /\ none \in Good(0)
      BY <1>1, <1>2, <1>15
    <3> QED
      BY <3>1
  <2>2. \A n \in 0..(N - 1) : n \in T => n + 1 \in T
    <3> SUFFICES ASSUME NEW n \in 0..(N - 1), n \in T PROVE n + 1 \in T
      OBVIOUS
    <3>1. n + 1 \in 1..N /\ (n + 1) - 1 = n /\ n + 1 \in 0..N
      BY <1>1
    <3>2. h[n + 1] = ForkRegion(h[n], chain0[n + 1])
      BY <1>15, <3>1
    <3>3. h[n + 1] \in Good(n + 1)
      BY <1>4, <3>1, <3>2
    <3> QED
      BY <3>1, <3>3
  <2>3. T \in SUBSET Nat
    OBVIOUS
  <2> HIDE DEF T
  <2> QED
    BY <1>1, <2>1, <2>2, <2>3, Climb
<1>17. h[N] \in Good(N)
  BY <1>1, <1>16
<1>18. /\ h[N].parent \in Seq(Area) /\ h[N].child \in Seq(Area)
       /\ ForkStage(object, gone, u, chain0, k(N), N, h[N])
  BY <1>17 DEF Good, S, Forking
<1> QED
  BY <1>14, <1>18

\* What parent and child show of shadow objects is their own.
LEMMA ForkedShows ==
    ASSUME NEW objs, NEW objs2, NEW chain0 \in Seq(Area), NEW chain \in Seq(Area), NEW S,
           \A i \in DOMAIN chain0 : objs[chain0[i].src].type # "free",
           Showed(objs, chain0, <<>>), Kept(objs, objs2, {}, {}, S),
           \A q \in ToSet(chain) : Inherited(objs, objs2, chain0, q),
           NEW gone, NEW f2, Sound(objs2, gone, f2),
           \A x \in Obj : f2[x] \in Nat /\ f2[x] >= Times(Sources(chain), x)
    PROVE  ShadowsPrivate(objs2, chain, User)
<1> SUFFICES ASSUME NEW i \in DOMAIN chain, objs2[chain[i].src].type = "shadow"
             PROVE  /\ chain[i].type # "ro"
                    /\ objs2[chain[i].src].refcount = Mine(chain, User, chain[i].src)
  BY DEF ShadowsPrivate
<1> DEFINE q == chain[i]
           o == q.src
<1>1. q \in Area /\ o \in Obj /\ Inherited(objs, objs2, chain0, q) /\ objs2[o].type = "shadow"
  BY SrcIsObj DEF ToSet
<1>2. Times(Sources(chain), o) >= 1 /\ Times(Sources(chain), o) \in Nat
  <2>1. Sources(chain) \in Seq(Obj) /\ i \in DOMAIN Sources(chain) /\ Sources(chain)[i] = o
    BY SourcesOf
  <2> HIDE DEF o
  <2> QED
    BY <2>1, TimesThere, HitsFinite
<1> HIDE DEF q
<1>3. CASE q \in ToSet(chain0) /\ q.type = "ro"
  <2>1. PICK j \in DOMAIN chain0 : chain0[j] = q
    BY <1>3 DEF ToSet
  <2>2. objs[o].type # "free"
    BY <2>1
  <2>3. objs[o].type = "shadow"
    <3> HIDE DEF o
    <3> QED
      BY <1>1, <2>2 DEF Kept
  <2>4. chain0[j].type # "ro"
    BY <2>1, <2>3 DEF Showed
  <2> QED
    BY <1>3, <2>1, <2>4
<1>4. CASE q.type # "ro" /\ objs2[o].refcount = 1
  <2> HIDE DEF o
  <2>1. objs2[o].refcount = Cardinality(Over(objs2, gone, o)) + f2[o]
    BY <1>1 DEF Sound, Balanced
  <2>2. Cardinality(Over(objs2, gone, o)) \in Nat
    BY OverCount
  <2>3. f2[o] \in Nat /\ f2[o] >= Times(Sources(chain), o)
    BY <1>1
  <2>4. Times(Sources(chain), o) = 1
    BY <1>2, <1>4, <2>1, <2>2, <2>3
  <2>5. Mine(chain, User, o) = Times(Sources(chain), o)
    BY QuietMine, UserSound
  <2>6. q.type # "ro" /\ objs2[o].refcount = Mine(chain, User, o)
    BY <1>4, <2>4, <2>5
  <2> QED
    BY <2>6 DEF q, o
<1> QED
  BY <1>1, <1>3, <1>4 DEF Inherited

\* vm_fork().
LEMMA ForkKeeps ==
    ASSUME InvNow, NEW p \in Proc, NEW c \in Proc, Fork(p, c)
    PROVE  InvNext
<1> DEFINE chain0 == regions[p]
           s == Sources(chain0)
           S == ToSet(s)
           N == Len(chain0)
           u == OthersUses(p)
           f == FreeingCounts(p, chain0, <<>>)
           y == Forked(chain0)
           parent == y.parent
           child == y.child
           gone == Rest(op, p)
           f2 == ForkCounts(u, s, N, y)
           rg2 == [regions EXCEPT ![p] = parent, ![c] = child]
           op2 == [op EXCEPT ![c] = User]
           f3 == [x \in Obj |-> UsesBy(rg2, op2, Proc, x)]
<1>1. /\ op[p] = User /\ op[c] = Unused /\ Cardinality(Spare(object)) >= 2 * Writable(chain0)
      /\ object' = y.objs /\ regions' = rg2 /\ op' = op2 /\ olock' = olock
  BY DEF Fork, locks
<1>2. op[p].at \in Quiet /\ p # c /\ op[c].at = "unused"
  BY <1>1, Users, UserSound
<1>3. /\ chain0 \in Seq(Area) /\ s \in Seq(Obj) /\ Len(s) = N
      /\ Sound(object, gone, f)
      /\ \A x \in Obj :
           /\ f[x] = Times(s, x) + UsesBy(regions, op, Proc \ {p}, x)
           /\ f[x] \in Nat /\ Times(s, x) \in Nat
           /\ Mine(chain0, op[p], x) = Times(s, x)
           /\ UsesBy(regions, op, Proc \ {p}, x) \in Nat
      /\ Showed(object, chain0, <<>>)
  BY <1>2, QuietNow, SourcesOf
<1>4. \A x \in Obj : u[x] = UsesBy(regions, op, Proc \ {p}, x) /\ u[x] \in Nat
  BY <1>3 DEF OthersUses
<1> HIDE DEF f, u
<1>5. \A i \in DOMAIN chain0 :
         /\ chain0[i].src \in Obj /\ chain0[i].src \in S /\ Times(s, chain0[i].src) >= 1
         /\ object[chain0[i].src].type # "free"
  <2> TAKE i \in DOMAIN chain0
  <2> DEFINE o == chain0[i].src
  <2>1. i \in DOMAIN s /\ s[i] = o /\ o \in Obj
    BY <1>3, SourcesOf, SrcIsObj
  <2> HIDE DEF o, s, chain0
  <2>2. Times(s, o) >= 1 /\ o \in S
    BY <1>3, <2>1, TimesThere DEF ToSet
  <2>3. f[o] \in Nat /\ f[o] >= 1
    BY <1>3, <2>1, <2>2
  <2>4. object[o].type # "free"
    BY <1>3, <2>1, <2>3, ReferencedInUse
  <2> QED
    BY <2>1, <2>2, <2>4 DEF o
<1>6. Forkable(object, u, chain0)
  BY <1>3, <1>4, <1>5 DEF Forkable
<1> HIDE DEF chain0, s, S
<1>7. /\ parent \in Seq(Area) /\ child \in Seq(Area)
      /\ \E k : ForkStage(object, gone, u, chain0, k, N, y)
  <2>1. \A x \in Obj : f[x] = Times(Sources(chain0), x) + u[x]
    BY <1>3, <1>4 DEF s
  <2> HIDE DEF gone
  <2> QED
    BY <1>1, <1>3, <1>6, <2>1, ForkedIs
<1> HIDE DEF y
<1>8. /\ Sound(y.objs, gone, f2) /\ Kept(object, y.objs, {}, {}, S)
      /\ \A q \in ToSet(parent) \cup ToSet(child) : Inherited(object, y.objs, chain0, q)
  BY <1>7 DEF ForkStage, s, S
<1>9. \A x \in Obj : f2[x] = u[x] + Times(Sources(parent), x) + Times(Sources(child), x)
  <2> TAKE x \in Obj
  <2>1. f2[x] = u[x] + (Times(s, x) - Among(s, N, x))
                  + Times(Sources(parent), x) + Times(Sources(child), x)
    BY DEF ForkCounts
  <2>2. Among(s, N, x) = Times(s, x)
    BY <1>3, AmongAll
  <2>3. Times(s, x) \in Nat /\ u[x] \in Nat
    BY <1>3, <1>4
  <2>4. Times(Sources(parent), x) \in Nat /\ Times(Sources(child), x) \in Nat
    BY <1>7, SourcesOf, HitsFinite
  <2> HIDE DEF f2, parent, child
  <2> QED
    BY <2>1, <2>2, <2>3, <2>4
<1> HIDE DEF f2
<1>10. \A x \in Obj : /\ f2[x] \in Nat /\ f2[x] >= Times(Sources(parent), x)
                      /\ f2[x] >= Times(Sources(child), x)
                      /\ Times(Sources(parent), x) \in Nat /\ Times(Sources(child), x) \in Nat
  <2> TAKE x \in Obj
  <2>1. Times(Sources(parent), x) \in Nat /\ Times(Sources(child), x) \in Nat
    BY <1>7, SourcesOf, HitsFinite
  <2>2. f2[x] = u[x] + Times(Sources(parent), x) + Times(Sources(child), x)
    BY <1>9
  <2>3. u[x] \in Nat
    BY <1>4
  <2> HIDE DEF parent, child
  <2> QED
    BY <2>1, <2>2, <2>3
<1> HIDE DEF parent, child
<1>11. ShadowsPrivate(object', parent, User) /\ ShadowsPrivate(object', child, User)
  <2>1. \A i \in DOMAIN chain0 : object[chain0[i].src].type # "free"
    BY <1>5
  <2>2. \A q \in ToSet(parent) : Inherited(object, y.objs, chain0, q)
    BY <1>8
  <2>3. \A q \in ToSet(child) : Inherited(object, y.objs, chain0, q)
    BY <1>8
  <2>4. ShadowsPrivate(y.objs, parent, User)
    <3>1. \A x \in Obj : f2[x] \in Nat /\ f2[x] >= Times(Sources(parent), x)
      BY <1>10
    <3> QED
      BY <1>3, <1>7, <1>8, <2>1, <2>2, <3>1, ForkedShows
  <2>5. ShadowsPrivate(y.objs, child, User)
    <3>1. \A x \in Obj : f2[x] \in Nat /\ f2[x] >= Times(Sources(child), x)
      BY <1>10
    <3> QED
      BY <1>3, <1>7, <1>8, <2>1, <2>3, <3>1, ForkedShows
  <2> QED
    BY <1>1, <2>4, <2>5
<1>12. Process(p, object', parent, User, olock') /\ Process(c, object', child, User, olock')
  BY <1>7, <1>11, QuietProcess, UserSound
<1>13. Undisturbed(object, regions, op, olock, p, object', olock', {}, {}, S)
  <2>1. S \in SUBSET Obj
    BY <1>3 DEF S, ToSet
  <2>2. Kept(object, object', {}, {}, S)
    BY <1>1, <1>8
  <2>3. \A o \in S : Mine(regions[p], op[p], o) >= 1 /\ \E i \in DOMAIN regions[p] : regions[p][i].src = o
    <3> TAKE o \in S
    <3>1. PICK i \in DOMAIN s : s[i] = o
      BY DEF S, ToSet
    <3>2. i \in DOMAIN chain0 /\ chain0[i].src = o
      BY <1>3, <3>1, SourcesOf DEF s
    <3>3. Times(s, o) >= 1
      BY <1>3, <3>1, TimesThere
    <3>4. Mine(chain0, op[p], o) >= 1
      BY <1>3, <2>1, <3>3
    <3> QED
      BY <3>2, <3>4 DEF chain0
  <2>4. \A o \in Obj : olock[o] \in Proc \ {p} => olock'[o] = olock[o]
    BY <1>1
  <2> QED
    BY <2>1, <2>2, <2>3, <2>4 DEF Undisturbed
<1>14. \A q \in Proc \ {p} : Process(q, object', regions[q], op[q], olock')
  <2>1. \A o \in Obj : object'[o].refcount \in Int
    BY <1>1, <1>8, CellOf DEF Sound
  <2> QED
    BY <1>13, <2>1, OthersKept DEF InvNow
<1>15. /\ regions \in [Proc -> Seq(Area)] /\ op = [q \in Proc |-> op[q]]
       /\ olock = [o \in Obj |-> olock[o]]
  BY DEF InvNow, Holds
<1>16. /\ rg2 \in [Proc -> Seq(Area)] /\ rg2[p] = parent /\ rg2[c] = child
       /\ \A q \in Proc \ {p, c} : rg2[q] = regions[q]
  BY <1>2, <1>7, <1>15
<1>17. /\ op2 = [q \in Proc |-> op2[q]] /\ op2[p] = User /\ op2[c] = User
       /\ \A q \in Proc \ {p, c} : op2[q] = op[q]
  BY <1>1, <1>2, <1>15
<1> HIDE DEF rg2, op2
<1>18. \A q \in Proc : Process(q, object', rg2[q], op2[q], olock')
  <2> TAKE q \in Proc
  <2>1. CASE q \in {p, c}
    BY <1>12, <1>16, <1>17, <2>1
  <2>2. CASE q \notin {p, c}
    BY <1>14, <1>16, <1>17, <2>2
  <2> QED
    BY <2>1, <2>2
<1>19. GoneBy(op2, Proc) = gone
  <2>1. GaveBack(User) = {} /\ GaveBack(op[p]) = {} /\ GaveBack(op[c]) = {}
    <3>1. TaskSound(User, <<>>) /\ TaskSound(Unused, <<>>) /\ User.at \in Quiet /\ Unused.at \in Quiet
      BY UserSound
    <3> QED
      BY <1>1, <3>1, QuietTask
  <2>2. \A q \in Proc : GaveBack(op2[q]) = GaveBack(op[q])
    BY <1>17, <2>1
  <2>3. GoneBy(op2, Proc) = GoneBy(op, Proc)
    BY <2>2 DEF GoneBy
  <2>4. GoneBy(op, Proc) = GoneBy(op, Proc \ {p}) \cup GaveBack(op[p])
    BY GoneSplit
  <2> QED
    BY <2>1, <2>3, <2>4 DEF Rest
<1>20. \A x \in Obj : f3[x] = f2[x]
  <2> TAKE x \in Obj
  <2> DEFINE Q == Proc \ {p}
             v == UsesBy(regions, op, Q \ {c}, x)
             a == Times(Sources(parent), x)
             b == Times(Sources(child), x)
  <2>1. Usable(regions, op) /\ Q \in SUBSET Proc /\ c \in Q
    BY <1>2, HoldsUsable DEF InvNow
  <2>2. Usable(rg2, op2)
    <3>1. \A q \in Proc : op2[q].todo \in Seq(Obj)
      <4>1. User.todo \in Seq(Obj)
        BY Users, TaskParts
      <4> QED
        BY <1>17, <2>1, <4>1 DEF Usable
    <3> QED
      BY <1>16, <3>1 DEF Usable
  <2>3. Mine(parent, User, x) = a /\ Mine(child, User, x) = b
    BY <1>7, QuietMine, UserSound
  <2>4. Mine(<<>>, Unused, x) = 0
    <3>1. TaskSound(Unused, <<>>) /\ Unused.at \in Quiet /\ <<>> \in Seq(Area)
      BY UserSound
    <3>2. Mine(<<>>, Unused, x) = Times(Sources(<<>>), x)
      BY <3>1, QuietMine
    <3>3. Sources(<<>>) = <<>> /\ Times(<<>>, x) = 0
      BY TimesNone DEF Sources
    <3> QED
      BY <3>2, <3>3
  <2>5. regions[c] = <<>>
    <3>1. TaskSound(op[c], regions[c])
      BY PartsNow
    <3> QED
      BY <1>2, <3>1 DEF TaskSound
  <2>6. UsesBy(regions, op, Q, x) = Mine(regions[c], op[c], x) + v
    BY <2>1, UsesSplit
  <2>7. v \in Nat
    BY <2>1, AllUsesFinite
  <2>8. u[x] = v
    BY <1>1, <1>4, <2>4, <2>5, <2>6, <2>7
  <2>9. UsesBy(rg2, op2, Q \ {c}, x) = v
    <3> DEFINE Q2 == Q \ {c}
    <3>1. \A q \in Q2 : rg2[q] = regions[q] /\ op2[q] = op[q]
      BY <1>16, <1>17
    <3> HIDE DEF Q2
    <3>2. UsesBy(rg2, op2, Q2, x) = UsesBy(regions, op, Q2, x)
      BY <3>1, UsesSame
    <3> QED
      BY <3>2 DEF Q2
  <2>10. UsesBy(rg2, op2, Q, x) = b + v
    <3> HIDE DEF Q
    <3>1. UsesBy(rg2, op2, Q, x) = Mine(rg2[c], op2[c], x) + UsesBy(rg2, op2, Q \ {c}, x)
      BY <2>1, <2>2, UsesSplit
    <3> QED
      BY <1>16, <1>17, <2>3, <2>9, <3>1
  <2>11. UsesBy(rg2, op2, Proc, x) = a + UsesBy(rg2, op2, Q, x)
    BY <1>16, <1>17, <2>2, <2>3, UsesSplit
  <2>12. f2[x] = u[x] + a + b /\ a \in Nat /\ b \in Nat
    BY <1>9, <1>10
  <2>13. f3[x] = UsesBy(rg2, op2, Proc, x)
    OBVIOUS
  <2> HIDE DEF a, b, v, f3, Q
  <2> QED
    BY <2>7, <2>8, <2>10, <2>11, <2>12, <2>13
<1> HIDE DEF f3
<1>21. Sound(object', GoneBy(op2, Proc), f3)
  BY <1>1, <1>8, <1>19, <1>20, SoundSame
<1>22. Holds(object', rg2, op2, olock')
  <2>1. olock' = [o \in Obj |-> olock'[o]]
    BY <1>1, <1>15
  <2> QED
    BY <1>16, <1>17, <1>18, <1>21, <2>1 DEF Holds, f3
<1> QED
  BY <1>1, <1>22 DEF InvNext

-----------------------------------------------------------------------------
\* The first program, and every step.
EmptyObjects == [o \in Obj |-> IF o = File THEN [NoObject EXCEPT !.type = "file"] ELSE NoObject]

\* Nothing but the executable: no reference at all.
LEMMA EmptyIsSound ==
    /\ Sound(EmptyObjects, {}, [x \in Obj |-> 0])
    /\ \A layout \in Layouts : Cardinality(Spare(EmptyObjects)) >= AnonRegions(layout)
<1> DEFINE objs == EmptyObjects
           file == [NoObject EXCEPT !.type = "file"]
           P == PageLists(objs)
           f == [x \in Obj |-> 0]
<1>1. /\ NoObject \in Cell(P) /\ NoObject.type = "free" /\ NoObject.next = 0
      /\ NoObject.refcount = 0
  BY NewCells
<1>2. /\ file \in Cell(P) /\ file.type = "file" /\ file.next = 0 /\ file.refcount = 0
  <2>1. "file" \in Types
    BY DEF Types
  <2> HIDE DEF P
  <2> QED
    BY <1>1, <2>1 DEF Cell
<1>3. File \in Obj
  BY ZeroNotObj
<1>4. objs = [o \in Obj |-> IF o = File THEN file ELSE NoObject]
  BY DEF EmptyObjects
<1> HIDE DEF file, objs, P
<1>5. objs \in Objects(P) /\ objs[File] = file /\ \A o \in Obj \ {File} : objs[o] = NoObject
  BY <1>1, <1>2, <1>3, <1>4 DEF Objects
<1>6. \A o \in Obj : objs[o].next = 0 /\ objs[o].refcount = 0
  BY <1>1, <1>2, <1>5
<1>7. \A o \in Obj : Over(objs, {}, o) = {}
  BY <1>6, ZeroNotObj DEF Over
<1>8. Balanced(objs, {}, f)
  <2> SUFFICES ASSUME NEW o \in Obj
               PROVE  objs[o].refcount = Cardinality(Over(objs, {}, o)) + f[o]
    BY DEF Balanced
  <2>1. Cardinality(Over(objs, {}, o)) = 0
    BY <1>7, FS_EmptySet
  <2>2. f[o] = 0
    OBVIOUS
  <2> QED
    BY <1>6, <2>1, <2>2
<1>9. FreeIsBlank(objs) /\ FileStays(objs) /\ RefsSet(objs, {})
  BY <1>2, <1>5, <1>6 DEF FreeIsBlank, FileStays, RefsSet
<1>10. Sound(objs, {}, f)
  BY <1>5, <1>8, <1>9 DEF Sound, P
<1>11. ASSUME NEW layout \in Layouts
       PROVE  Cardinality(Spare(objs)) >= AnonRegions(layout)
  <2>1. Spare(objs) = Obj \ {File}
    BY <1>1, <1>2, <1>3, <1>5 DEF Spare
  <2>2. IsFiniteSet(Obj) /\ Cardinality(Obj) = NObj
    <3>1. NObj \in Nat
      BY VmAssumption
    <3>2. IsFiniteSet(1..NObj) /\ Cardinality(1..NObj) = NObj
      BY <3>1, FS_Interval
    <3> QED
      BY <3>2 DEF Obj
  <2>3. Cardinality(Obj \ {File}) = Cardinality(Obj) - 1
    BY <1>3, <2>2, FS_RemoveElement
  <2>4. AnonRegions(layout) \in Nat /\ AnonRegions(layout) < NObj
    BY LayoutsAssumption, FilesIs
  <2>5. NObj \in Nat
    BY VmAssumption
  <2> QED
    BY <2>1, <2>2, <2>3, <2>4, <2>5
<1> QED
  BY <1>10, <1>11 DEF objs

\* The first program is running, and its regions are the references.
LEMMA Started == VmInit => InvNow
<1> SUFFICES ASSUME VmInit PROVE InvNow
  OBVIOUS
<1>1. PICK layout \in Layouts :
         /\ object = Load(EmptyObjects, layout).objs
         /\ regions = [p \in Proc |-> IF p = FirstProc THEN Load(EmptyObjects, layout).chain ELSE <<>>]
         /\ olock = [o \in Obj |-> Nobody]
         /\ op = [p \in Proc |-> IF p = FirstProc THEN User ELSE Unused]
  BY Zenon DEF VmInit, EmptyObjects
<1> DEFINE y == Load(EmptyObjects, layout)
           chain == y.chain
           f0 == [x \in Obj |-> 0]
           f == LoadCounts(f0, chain)
           f2 == [x \in Obj |-> UsesBy(regions, op, Proc, x)]
<1>2. /\ chain \in Seq(Area) /\ Sound(y.objs, {}, f)
      /\ \A q \in ToSet(chain) : y.objs[q.src].type \notin {"shadow", "free"}
  <2>1. Sound(EmptyObjects, {}, f0) /\ Cardinality(Spare(EmptyObjects)) >= AnonRegions(layout)
    BY EmptyIsSound
  <2>2. \A x \in Obj : f0[x] \in Nat
    OBVIOUS
  <2>3. layout \in Seq(Wanted)
    BY LayoutsAssumption
  <2> HIDE DEF f0
  <2> QED
    BY <2>1, <2>2, <2>3, Loaded
<1>3. FirstProc \in Proc
  BY VmAssumption
<1>4. /\ object = y.objs /\ regions[FirstProc] = chain /\ op[FirstProc] = User
      /\ \A p \in Proc \ {FirstProc} : regions[p] = <<>> /\ op[p] = Unused
      /\ regions \in [Proc -> Seq(Area)] /\ op = [p \in Proc |-> op[p]]
      /\ olock = [o \in Obj |-> olock[o]]
  BY <1>1, <1>2, <1>3
<1> HIDE DEF y, chain
<1>5. /\ TaskSound(User, chain) /\ TaskSound(Unused, <<>>)
      /\ User.at \in Quiet /\ Unused.at \in Quiet /\ <<>> \in Seq(Area)
  BY UserSound
<1>6. GoneBy(op, Proc) = {}
  <2>1. GaveBack(User) = {} /\ GaveBack(Unused) = {}
    BY <1>5, QuietTask
  <2>2. \A p \in Proc : GaveBack(op[p]) = {}
    BY <1>4, <2>1
  <2> QED
    BY <2>2 DEF GoneBy
<1>7. \A x \in Obj : f2[x] = f[x]
  <2> TAKE x \in Obj
  <2> DEFINE Q == Proc \ {FirstProc}
  <2>1. \A p \in Q : UsesOf(p, regions[p], op[p], x) = {}
    <3>1. Sources(<<>>) = <<>> /\ Unused.todo = <<>> /\ Unused.at # "enter"
      BY Users DEF Sources
    <3>2. Hits(<<>>, x) = {}
      BY DEF Hits
    <3>3. \A p \in Q : UsesOf(p, <<>>, Unused, x) = {}
      BY <3>1, <3>2 DEF UsesOf
    <3> QED
      BY <1>4, <3>3
  <2>2. AllUses(regions, op, Q, x) = {}
    BY <2>1 DEF AllUses
  <2>3. UsesBy(regions, op, Q, x) = 0
    BY <2>2, FS_EmptySet DEF UsesBy
  <2>4. Usable(regions, op)
    <3>1. User.todo \in Seq(Obj) /\ Unused.todo \in Seq(Obj)
      BY Users, TaskParts
    <3> QED
      BY <1>4, <3>1 DEF Usable
  <2>5. UsesBy(regions, op, Proc, x)
          = Mine(regions[FirstProc], op[FirstProc], x) + UsesBy(regions, op, Q, x)
    BY <1>3, <2>4, UsesSplit
  <2>6. Mine(chain, User, x) = Times(Sources(chain), x) /\ Times(Sources(chain), x) \in Nat
    BY <1>2, <1>5, QuietMine
  <2>7. f[x] = 0 + Times(Sources(chain), x)
    BY DEF LoadCounts
  <2>8. f2[x] = UsesBy(regions, op, Proc, x)
    OBVIOUS
  <2> HIDE DEF f, f2, Q
  <2> QED
    BY <1>4, <2>3, <2>5, <2>6, <2>7, <2>8
<1> HIDE DEF f, f2
<1>8. Sound(object, GoneBy(op, Proc), f2)
  BY <1>2, <1>4, <1>6, <1>7, SoundSame, ZenonT(60)
<1>9. ShadowsPrivate(object, chain, User) /\ ShadowsPrivate(object, <<>>, Unused)
  BY <1>2, <1>4 DEF ShadowsPrivate, ToSet
<1>10. \A p \in Proc : Process(p, object, regions[p], op[p], olock)
  <2> TAKE p \in Proc
  <2>1. CASE p = FirstProc
    BY <1>2, <1>4, <1>5, <1>9, <2>1, QuietProcess
  <2>2. CASE p # FirstProc
    BY <1>4, <1>5, <1>9, <2>2, QuietProcess
  <2> QED
    BY <2>1, <2>2
<1> QED
  BY <1>4, <1>8, <1>10 DEF InvNow, Holds, f2

\* Every action, unless the model stops there.
LEMMA NextKeeps ==
    ASSUME InvNow, VmNext, GoesOn
    PROVE  InvNext
<1>1. PICK p \in Proc :
        \/ \E a \in Addr, v \in Value : Write(p, a, v)
        \/ \E a \in Addr, write \in BOOLEAN : Fault(p, a, write)
        \/ Segv(p) \/ Search(p) \/ Pagein(p) \/ CopyPage(p) \/ MapFound(p)
        \/ \E c \in Proc : Fork(p, c)
        \/ \E c \in Proc, n \in 1..NObj : ForkFails(p, c, n)
        \/ Enter(p) \/ Decide(p) \/ LockNew(p) \/ Combine(p) \/ Leave(p) \/ Attach(p)
        \/ \E range \in Ranges : Munmap(p, range[1], range[2], "user", <<>>)
        \/ Mmap(p) \/ \E n \in Addr : Break(p, n)
        \/ \E layout \in Layouts : Execve(p, layout)
        \/ ExecveFails(p) \/ Exit(p)
  BY Zenon DEF VmNext
<1>2. ASSUME NEW a \in Addr, NEW v \in Value, Write(p, a, v) PROVE InvNext
  BY <1>2, WriteKeeps
<1>3. ASSUME NEW a \in Addr, NEW write \in BOOLEAN, Fault(p, a, write) PROVE InvNext
  BY <1>3, FaultKeeps
<1>4. CASE Segv(p)
  BY <1>4, SegvKeeps
<1>5. CASE Search(p)
  BY <1>5, SearchKeeps
<1>6. CASE Pagein(p)
  BY <1>6, PageinKeeps
<1>7. CASE CopyPage(p)
  BY <1>7, CopyPageKeeps
<1>8. CASE MapFound(p)
  BY <1>8, MapFoundKeeps
<1>9. ASSUME NEW c \in Proc, Fork(p, c) PROVE InvNext
  BY <1>9, ForkKeeps
<1>10. ASSUME NEW c \in Proc, NEW n \in 1..NObj, ForkFails(p, c, n) PROVE InvNext
  BY <1>10, Zenon DEF ForkFails, GoesOn
<1>11. CASE Enter(p)
  BY <1>11, EnterKeeps
<1>12. CASE Decide(p)
  BY <1>12, DecideKeeps
<1>13. CASE LockNew(p)
  BY <1>13, LockNewKeeps
<1>14. CASE Combine(p)
  BY <1>14, CombineKeeps
<1>15. CASE Leave(p)
  BY <1>15, LeaveKeeps
<1>16. CASE Attach(p)
  BY <1>16, AttachKeeps
<1>17. ASSUME NEW range \in Ranges, Munmap(p, range[1], range[2], "user", <<>>) PROVE InvNext
  BY <1>17, RangeKeeps
<1>18. CASE Mmap(p)
  BY <1>18, MmapKeeps
<1>19. ASSUME NEW n \in Addr, Break(p, n) PROVE InvNext
  BY <1>19, BreakKeeps
<1>20. ASSUME NEW layout \in Layouts, Execve(p, layout) PROVE InvNext
  BY <1>20, ExecveKeeps
<1>21. CASE ExecveFails(p)
  BY <1>21, Zenon DEF ExecveFails, Halt, GoesOn
<1>22. CASE Exit(p)
  BY <1>22, ExitKeeps
<1> QED
  BY <1>1, <1>2, <1>3, <1>4, <1>5, <1>6, <1>7, <1>8, <1>9, <1>10, <1>11, <1>12, <1>13, <1>14,
     <1>15, <1>16, <1>17, <1>18, <1>19, <1>20, <1>21, <1>22

\* VmInv is inductive: where the model has stopped it says nothing.
LEMMA InvKept == VmInv /\ [VmNext]_vmvars => VmInv'
<1> SUFFICES ASSUME VmInv, [VmNext]_vmvars, GoesOn PROVE InvNext
  BY Zenon DEF VmInv, InvNext, GoesOn
<1>1. CASE VmNext
  <2>1. InvNow
    BY <1>1, Zenon DEF VmInv, InvNow, VmNext
  <2> QED
    BY <1>1, <2>1, NextKeeps
<1>2. CASE UNCHANGED vmvars
  <2>1. halt' = halt /\ object' = object /\ regions' = regions /\ op' = op /\ olock' = olock
    BY <1>2 DEF vmvars, memory, locks
  <2> QED
    BY <2>1, Zenon DEF VmInv, InvNext, GoesOn
<1> QED
  BY <1>1, <1>2

\* What the invariant is for.
LEMMA InvCounts == VmInv => CountsExact
<1>1. ASSUME InvNow, NEW o \in Obj PROVE object[o].refcount = References(o)
  <2> DEFINE f == [x \in Obj |-> UsesBy(regions, op, Proc, x)]
  <2>1. Sound(object, GoneBy(op, Proc), f)
    BY <1>1 DEF InvNow, Holds
  <2>2. object[o].refcount = Cardinality(Over(object, GoneBy(op, Proc), o)) + f[o]
    BY <2>1 DEF Sound, Balanced
  <2>3. f[o] = UsesBy(regions, op, Proc, o)
    OBVIOUS
  <2> HIDE DEF f
  <2>4. GoneBy(op, Proc) = Gone
    BY DEF GoneBy, Gone
  <2>5. UsesBy(regions, op, Proc, o) = Cardinality(UNION {Uses(p, o) : p \in Proc})
    BY DEF UsesBy, AllUses, Uses
  <2> QED
    BY <2>2, <2>3, <2>4, <2>5 DEF References
<1> QED
  BY <1>1, Zenon DEF VmInv, InvNow, CountsExact

\* The reference count of every object is the number of regions and of shadow objects
\* that refer to it, for any number of processes and objects, whatever address spaces
\* execve() sets up, and at every step of vm_object_free() and vm_object_combine().
THEOREM CountsStayExact == VmSpec => []CountsExact
<1>1. VmInit => VmInv
  BY Started, Zenon DEF VmInv, InvNow
<1>2. VmInv /\ [VmNext]_vmvars => VmInv'
  BY InvKept
<1>3. VmInv => CountsExact
  BY InvCounts
<1> QED
  BY <1>1, <1>2, <1>3, PTL DEF VmSpec
=============================================================================
