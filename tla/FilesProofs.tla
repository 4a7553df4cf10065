----------------------------- MODULE FilesProofs -----------------------------
(***************************************************************************)
(* Proofs about Files.tla, for any finite set of processes, any files and  *)
(* names, and any numbers of slots and calls: the counts of descriptors    *)
(* and vnodes are safe, nobody writes a program that runs, and only two    *)
(* chdir() can wait for each other.                                        *)
(*                                                                         *)
(* All three follow from one inductive invariant, FilesInv, that says      *)
(* where a process may be in a call and what it still relies on there      *)
(* (Place), who holds the lock of a vnode (Holders), and what is counted   *)
(* (Counted, VnodesCounted).  That open() finds a descriptor of its own    *)
(* is a pigeonhole argument: with a slot free, not every descriptor can    *)
(* be named by one.                                                        *)
(***************************************************************************)
EXTENDS Files, FiniteSetTheorems, TLAPS

Where == {"unused", "user", "stat", "create", "lock", "have", "lock_old",
          "detach", "dup", "exit", "transfer"}

Op == [at : Where, call : Call \cup {""}, name : Name \cup {Null}, v : Inode \cup {Null},
       slot : Int, ofs : Int, todo : SUBSET Slot, then : {"user", "dup", "exit"}]

Vnode == [there : BOOLEAN, refcount : Int, write : Nat, exec : Nat, mounted : BOOLEAN]

Descriptor == [v : Inode \cup {Null}, refcount : Int, write : BOOLEAN, ofs : Int]

Typed ==
    /\ vnode \in [Inode -> Vnode]
    /\ names \in [Name -> Inode \cup {Null}]
    /\ vlock \in [Inode -> Proc \cup {Null}]
    /\ fdesc \in [Fdesc -> Descriptor]
    /\ table \in [Proc -> [Slot -> Fdesc \cup {Null}]]
    /\ cloexec \in [Proc -> SUBSET Slot]
    /\ cwd \in [Proc -> Inode \cup {Null}]
    /\ op \in [Proc -> Op]

\* The name chain has the vnode of the name, and vnodes in use are there.
Names == \A n \in Name : names[n] # Null => names[n] = InodeOf[n] /\ vnode[names[n]].there

There ==
    /\ \A x \in Fdesc : fdesc[x].refcount > 0
          => fdesc[x].v \in Inode /\ vnode[fdesc[x].v].there
    /\ \A p \in Proc : cwd[p] # Null => vnode[cwd[p]].there

\* Where a process is in a call, and what it relies on there.
Place(p) ==
    LET o == op[p]
    IN  /\ (o.at = "unused") = (cwd[p] = Null)
        /\ o.at \in {"unused", "exit"} => \A s \in Slot : table[p][s] = Null
        /\ o.at \in {"stat", "create"} => o.name \in Name /\ o.v = InodeOf[o.name]
        /\ o.at \in {"lock", "have", "lock_old"} => o.v \in Inode /\ vnode[o.v].there
        /\ o.at \in {"have", "lock_old"} => vlock[o.v] = p
        /\ o.at = "lock_old" => o.v # cwd[p]
        /\ o.at = "detach" => o.todo # {} /\ \A s \in o.todo : table[p][s] # Null
        /\ o.at = "detach" /\ o.then = "exit" => \A s \in Slot \ o.todo : table[p][s] = Null
        /\ o.at = "detach" /\ o.then = "dup" => o.todo = {o.ofs}
        /\ o.at = "dup" \/ (o.at = "detach" /\ o.then = "dup")
              => o.slot \in Slot /\ o.ofs \in Slot /\ o.slot # o.ofs /\ table[p][o.slot] # Null
        /\ o.at = "dup" => table[p][o.ofs] = Null
        /\ o.at = "transfer" => o.slot \in Slot /\ table[p][o.slot] # Null

Places == \A p \in Proc : Place(p)

\* Who holds the lock of a vnode has just looked it up.
Holders == \A i \in Inode : vlock[i] # Null =>
               op[vlock[i]].at \in {"have", "lock_old"} /\ op[vlock[i]].v = i

Counted == \A x \in Fdesc : fdesc[x].refcount = References(x)

In(i) == {p \in Proc : cwd[p] = i}

VnodesCounted ==
    \A i \in Inode : vnode[i].refcount >= Cardinality(OpenOn(i)) + Cardinality(In(i))

\* A file open for writing is counted as such, and one counted is not executed.
Writers ==
    /\ \A x \in Fdesc : fdesc[x].refcount > 0 /\ fdesc[x].write => vnode[fdesc[x].v].write > 0
    /\ \A i \in Inode : vnode[i].write > 0 => vnode[i].exec = 0

FilesInv ==
    /\ Typed /\ Names /\ There /\ Places /\ Holders
    /\ Counted /\ VnodesCounted /\ Writers
-----------------------------------------------------------------------------
\* Every set of naturals that is not empty has a least element.
LEMMA LeastNatural ==
    ASSUME NEW T \in SUBSET Nat, T # {}
    PROVE  \E m \in T : \A n \in T : m <= n
<1> DEFINE F == {S \in FiniteSubsetsOf(Nat) : \E m \in T : S = 0..m}
<1>1. IsWellFoundedOn(StrictSubsetOrdering(Nat), FiniteSubsetsOf(Nat))
  BY FS_StrictSubsetOrderingWellFounded
<1>2. \A m \in T : 0..m \in FiniteSubsetsOf(Nat)
  BY FS_Interval DEF FiniteSubsetsOf
<1>3. F # {} /\ F \subseteq FiniteSubsetsOf(Nat)
  BY <1>2
<1>4. PICK S \in F : \A U \in F : <<U, S>> \notin StrictSubsetOrdering(Nat)
  BY <1>1, <1>3, WFMin
<1>5. PICK m \in T : S = 0..m
  BY <1>4
<1>6. ASSUME NEW n \in T, n < m
      PROVE  FALSE
  <2>1. 0..n \in F
    BY <1>2
  <2>2. 0..n \subseteq 0..m /\ 0..n # 0..m /\ 0..n \subseteq Nat /\ 0..m \subseteq Nat
    <3>1. m \in 0..m /\ m \notin 0..n
      BY <1>6
    <3> QED
      BY <1>6, <3>1
  <2>3. <<0..n, 0..m>> \in StrictSubsetOrdering(Nat)
    BY <2>2 DEF StrictSubsetOrdering
  <2> QED
    BY <1>4, <1>5, <2>1, <2>3
<1> QED
  BY <1>6

\* NextSlot picks a slot of those still to be closed.
LEMMA NextSlotIsLeft ==
    ASSUME NEW o \in Op, o.todo # {}
    PROVE  NextSlot(o) \in o.todo
<1> DEFINE T == o.todo
           U == {n \in Nat : NSlots - 1 - n \in T}
<1>1. T \subseteq 0..(NSlots - 1) /\ NSlots \in Nat
  BY FilesAssumption DEF Op, Slot
<1>2. \E m \in T : \A n \in T : m <= n
  BY <1>1, LeastNatural
<1>3. \E m \in T : \A n \in T : m >= n
  <2>1. PICK t \in T : TRUE
    OBVIOUS
  <2>2. NSlots - 1 - t \in U
    BY <1>1, <2>1
  <2>3. PICK u \in U : \A n \in U : u <= n
    BY <2>2, LeastNatural
  <2>4. \A n \in T : NSlots - 1 - n \in U /\ n \in Int
    BY <1>1
  <2>5. \A n \in T : NSlots - 1 - u >= n
    BY <1>1, <2>3, <2>4
  <2> QED
    BY <2>3, <2>5
<1>4. Max(T) \in T
  BY <1>3 DEF Max
<1>5. Min(T) \in T
  BY <1>2 DEF Min
<1> QED
  BY <1>4, <1>5 DEF NextSlot

\* F_DUPFD takes a free slot.
LEMMA MinFreeSlot ==
    ASSUME NEW p \in Proc, FreeSlots(p) # {}
    PROVE  Min(FreeSlots(p)) \in FreeSlots(p)
<1>1. FreeSlots(p) \subseteq Nat
  BY FilesAssumption DEF FreeSlots, Slot
<1>2. \E m \in FreeSlots(p) : \A n \in FreeSlots(p) : m <= n
  BY <1>1, LeastNatural
<1> QED
  BY <1>2 DEF Min

-----------------------------------------------------------------------------
\* There are finitely many slots and descriptors.
LEMMA FiniteSets == IsFiniteSet(Slot) /\ IsFiniteSet(Proc) /\ IsFiniteSet(Fdesc)
<1>1. IsFiniteSet(Slot)
  <2>1. NSlots - 1 \in Int
    BY FilesAssumption
  <2> QED
    BY <2>1, FS_Interval DEF Slot
<1> QED
  BY <1>1, FilesAssumption, FS_Product DEF Fdesc

\* The counts are numbers, before a step and after it.
LEMMA CountsAreNumbers ==
    /\ \A i : /\ IsFiniteSet(OpenOn(i)) /\ Cardinality(OpenOn(i)) \in Nat
              /\ IsFiniteSet(OpenOn(i)') /\ Cardinality(OpenOn(i)') \in Nat
              /\ IsFiniteSet(In(i)) /\ Cardinality(In(i)) \in Nat
              /\ IsFiniteSet(In(i)') /\ Cardinality(In(i)') \in Nat
    /\ \A x : References(x) \in Nat /\ References(x)' \in Nat
<1>1. ASSUME NEW S, S \subseteq Fdesc \/ S \subseteq Proc
      PROVE  IsFiniteSet(S) /\ Cardinality(S) \in Nat
  BY <1>1, FiniteSets, FS_Subset, FS_CardinalityType
<1>2. \A i : /\ OpenOn(i) \subseteq Fdesc /\ OpenOn(i)' \subseteq Fdesc
             /\ In(i) \subseteq Proc /\ In(i)' \subseteq Proc
  BY DEF OpenOn, In
<1>3. \A x : References(x) \in Nat /\ References(x)' \in Nat
  <2>1. \A x : {ps \in Proc \X Slot : table[ps[1]][ps[2]] = x} \subseteq Fdesc
    BY DEF Fdesc
  <2>2. \A x : {ps \in Proc \X Slot : table'[ps[1]][ps[2]] = x} \subseteq Fdesc
    BY DEF Fdesc
  <2> QED
    BY <1>1, <2>1, <2>2 DEF References
<1> QED
  BY <1>1, <1>2, <1>3

\* One more slot names the descriptor x.
LEMMA OneMore ==
    ASSUME Typed, NEW p \in Proc, NEW s \in Slot, NEW x \in Fdesc, table[p][s] = Null,
           table' = [table EXCEPT ![p][s] = x]
    PROVE  /\ References(x)' = References(x) + 1
           /\ \A y \in Fdesc \ {x} : References(y)' = References(y)
<1> DEFINE N(y) == {ps \in Proc \X Slot : table[ps[1]][ps[2]] = y}
           M(y) == {ps \in Proc \X Slot : table'[ps[1]][ps[2]] = y}
<1>1. table' = [q \in Proc |-> IF q = p THEN [t \in Slot |-> IF t = s THEN x ELSE table[p][t]]
                               ELSE table[q]]
  BY DEF Typed
<1>2. x # Null
  BY FilesAssumption
<1>3. M(x) = N(x) \cup {<<p, s>>} /\ <<p, s>> \notin N(x)
  BY <1>1, <1>2
<1>4. \A y \in Fdesc \ {x} : M(y) = N(y)
  BY <1>1, FilesAssumption
<1>5. IsFiniteSet(N(x))
  BY FiniteSets, FS_Subset DEF Fdesc
<1>6. Cardinality(N(x) \cup {<<p, s>>}) = Cardinality(N(x)) + 1
  BY <1>3, <1>5, FS_AddElement
<1> QED
  BY <1>3, <1>4, <1>6 DEF References

\* One slot less names the descriptor x.
LEMMA OneLess ==
    ASSUME Typed, NEW p \in Proc, NEW s \in Slot, NEW x \in Fdesc, table[p][s] = x,
           table' = [table EXCEPT ![p][s] = Null]
    PROVE  /\ References(x)' = References(x) - 1
           /\ \A y \in Fdesc \ {x} : References(y)' = References(y)
<1> DEFINE N(y) == {ps \in Proc \X Slot : table[ps[1]][ps[2]] = y}
           M(y) == {ps \in Proc \X Slot : table'[ps[1]][ps[2]] = y}
<1>1. table' = [q \in Proc |-> IF q = p
                               THEN [t \in Slot |-> IF t = s THEN Null ELSE table[p][t]]
                               ELSE table[q]]
  BY DEF Typed
<1>2. x # Null
  BY FilesAssumption
<1>3. M(x) = N(x) \ {<<p, s>>} /\ <<p, s>> \in N(x)
  BY <1>1, <1>2
<1>4. \A y \in Fdesc \ {x} : M(y) = N(y)
  BY <1>1, FilesAssumption
<1>5. IsFiniteSet(N(x))
  BY FiniteSets, FS_Subset DEF Fdesc
<1>6. Cardinality(N(x) \ {<<p, s>>}) = Cardinality(N(x)) - 1
  BY <1>3, <1>5, FS_RemoveElement
<1> QED
  BY <1>3, <1>4, <1>6 DEF References

\* What a slot names is counted, and so in use.
LEMMA NamedIsOpen ==
    ASSUME Typed, Counted, NEW p \in Proc, NEW s \in Slot, table[p][s] # Null
    PROVE  table[p][s] \in Fdesc /\ fdesc[table[p][s]].refcount > 0
<1> DEFINE x == table[p][s]
           N == {ps \in Proc \X Slot : table[ps[1]][ps[2]] = x}
<1>1. x \in Fdesc /\ <<p, s>> \in N
  BY DEF Typed
<1>2. IsFiniteSet(N)
  BY FiniteSets, FS_Subset DEF Fdesc
<1>3. Cardinality(N) # 0 /\ Cardinality(N) \in Nat
  BY <1>1, <1>2, FS_EmptySet, FS_CardinalityType
<1> QED
  BY <1>1, <1>3 DEF Counted, References

\* With a slot free, there is a descriptor that no slot names (fd_alloc()).
LEMMA DescriptorFree ==
    ASSUME Typed, Counted, NEW p \in Proc, NEW s \in Slot, table[p][s] = Null
    PROVE  FreeFdesc(p) # {}
<1> SUFFICES ASSUME FreeFdesc(p) = {} PROVE FALSE
  OBVIOUS
<1> DEFINE S == {ps \in Fdesc : table[ps[1]][ps[2]] # Null}
           f == [ps \in S |-> table[ps[1]][ps[2]]]
<1>1. IsFiniteSet(S) /\ Cardinality(S) <= Cardinality(Fdesc)
      /\ (Cardinality(S) = Cardinality(Fdesc) => S = Fdesc)
  BY FiniteSets, FS_Subset
<1>2. <<p, s>> \in Fdesc /\ <<p, s>> \notin S
  BY DEF Fdesc
<1>3. \A x \in Fdesc : fdesc[x].refcount # 0
  BY DEF FreeFdesc
<1>4. \A x \in Fdesc : \E ps \in S : table[ps[1]][ps[2]] = x
  <2>1. TAKE x \in Fdesc
  <2>2. References(x) # 0
    BY <1>3 DEF Counted
  <2>3. {ps \in Proc \X Slot : table[ps[1]][ps[2]] = x} # {}
    BY <2>2, FS_EmptySet DEF References
  <2> QED
    BY <2>3, FilesAssumption DEF Fdesc
<1>5. f \in Surjection(S, Fdesc)
  <2>1. f \in [S -> Fdesc]
    BY DEF Typed, Fdesc
  <2> QED
    BY <1>4, <2>1 DEF Surjection
<1>6. Cardinality(Fdesc) <= Cardinality(S)
  BY <1>1, <1>5, FS_Surjection
<1>7. Cardinality(Fdesc) \in Nat /\ Cardinality(S) \in Nat
  BY <1>1, FiniteSets, FS_CardinalityType
<1> QED
  BY <1>1, <1>2, <1>6, <1>7

-----------------------------------------------------------------------------
At(x, at) == [x EXCEPT !.at = at]

\* Only the step changes.
LEMMA AtType ==
    ASSUME NEW x \in Op, NEW at \in Where
    PROVE  LET e == At(x, at)
           IN  e \in Op /\ e.at = at /\ e.v = x.v /\ e.name = x.name /\ e.slot = x.slot
               /\ e.ofs = x.ofs /\ e.todo = x.todo /\ e.then = x.then
BY DEF Op, At

\* A process outside the kernel, and one that does not exist.
LEMMA UserType == /\ User \in Op /\ User.at = "user" /\ User.then = "user"
                  /\ Unused \in Op /\ Unused.at = "unused"
<1>1. "user" \in Where /\ "unused" \in Where
  BY DEF Where
<1>2. User \in Op /\ User.at = "user" /\ User.then = "user"
  BY <1>1 DEF User, Op
<1>3. Unused = At(User, "unused")
  BY DEF Unused, At
<1> QED
  BY <1>1, <1>2, <1>3, AtType

\* What is closed next, or, with nothing left to close, what follows.
LEMMA ClosingType ==
    ASSUME NEW o \in Op, NEW todo \in SUBSET Slot, NEW then \in {"user", "dup", "exit"}
    PROVE  LET e == Closing(o, todo, then)
           IN  /\ e \in Op
               /\ todo # {} => /\ e.at = "detach" /\ e.todo = todo /\ e.then = then
                               /\ e.slot = o.slot /\ e.ofs = o.ofs
               /\ todo = {} /\ then = "user" => e = User
               /\ todo = {} /\ then # "user" => e.at = then /\ e.slot = o.slot /\ e.ofs = o.ofs
<1>1. CASE todo # {}
  <2> DEFINE e == [o EXCEPT !.at = "detach", !.todo = todo, !.then = then]
  <2>1. Closing(o, todo, then) = e
    BY <1>1 DEF Closing
  <2>2. "detach" \in Where
    BY DEF Where
  <2>3. /\ e \in Op /\ e.at = "detach" /\ e.todo = todo /\ e.then = then
        /\ e.slot = o.slot /\ e.ofs = o.ofs
    BY <2>2 DEF Op
  <2> QED
    BY <1>1, <2>1, <2>3
<1>2. CASE todo = {} /\ then = "user"
  BY <1>2, UserType DEF Closing
<1>3. CASE todo = {} /\ then # "user"
  <2> DEFINE e == [o EXCEPT !.at = then, !.todo = {}]
  <2>1. Closing(o, todo, then) = e
    BY <1>3 DEF Closing
  <2>2. then \in Where
    BY <1>3 DEF Where
  <2>3. e \in Op /\ e.at = then /\ e.slot = o.slot /\ e.ofs = o.ofs
    BY <2>2 DEF Op
  <2> QED
    BY <1>3, <2>1, <2>3
<1> QED
  BY <1>1, <1>2, <1>3

\* No vnode, and one just made, count nothing.
LEMMA VnodeTypes ==
    /\ NoVnode \in Vnode /\ NoVnode.write = 0 /\ NoVnode.exec = 0 /\ NoVnode.refcount = 0
    /\ NewVnode \in Vnode /\ NewVnode.write = 0 /\ NewVnode.exec = 0
    /\ NewVnode.refcount = 0 /\ NewVnode.there
<1>1. NoVnode \in Vnode /\ NoVnode.write = 0 /\ NoVnode.exec = 0 /\ NoVnode.refcount = 0
  BY DEF NoVnode, Vnode
<1> QED
  BY <1>1 DEF NewVnode, Vnode

\* The first process is in the home directory and nothing is open.
LEMMA FilesInit == Init => FilesInv
<1> SUFFICES ASSUME Init PROVE FilesInv
  OBVIOUS
<1>1. /\ NoVnode \in Vnode /\ NoVnode.write = 0 /\ NoVnode.exec = 0 /\ NoVnode.refcount = 0
      /\ NewVnode \in Vnode /\ NewVnode.write = 0 /\ NewVnode.exec = 0
      /\ NewVnode.refcount = 0 /\ NewVnode.there
  BY VnodeTypes
<1>2. NoVnode \in Vnode /\ NoVnode.write = 0 /\ NoVnode.exec = 0 /\ NoVnode.refcount = 0
  BY VnodeTypes
<1> DEFINE first == [NewVnode EXCEPT !.refcount = 1]
<1>3. first \in Vnode /\ first.there /\ first.write = 0 /\ first.refcount = 1
  BY <1>1 DEF Vnode
<1>4. vnode = [i \in Inode |-> IF i = Home THEN first ELSE NoVnode]
  BY DEF Init
<1> HIDE DEF first
<1>0. /\ fdesc = [x \in Fdesc |-> NoFdesc]
      /\ names = [n \in Name |-> IF InodeOf[n] = Home THEN Home ELSE Null]
      /\ cwd = [p \in Proc |-> IF p = FirstProc THEN Home ELSE Null]
  BY DEF Init
<1>5. NoFdesc \in Descriptor /\ NoFdesc.refcount = 0
  BY DEF NoFdesc, Descriptor
<1>6. Home \in Inode /\ FirstProc \in Proc
  BY FilesAssumption
<1>7. Typed
  <2>1. vnode \in [Inode -> Vnode]
    BY <1>2, <1>3, <1>4
  <2>2. names \in [Name -> Inode \cup {Null}] /\ vlock \in [Inode -> Proc \cup {Null}]
    BY <1>6 DEF Init
  <2>3. fdesc \in [Fdesc -> Descriptor] /\ table \in [Proc -> [Slot -> Fdesc \cup {Null}]]
    BY <1>5 DEF Init
  <2>4. cloexec \in [Proc -> SUBSET Slot] /\ cwd \in [Proc -> Inode \cup {Null}]
    BY <1>6 DEF Init
  <2>5. op \in [Proc -> Op]
    BY UserType DEF Init
  <2> QED
    BY <2>1, <2>2, <2>3, <2>4, <2>5 DEF Typed
<1>8. Names /\ There
  BY <1>0, <1>3, <1>4, <1>5, <1>6, FilesAssumption DEF Names, There
<1>9. Places /\ Holders
  BY <1>6, UserType, FilesAssumption DEF Init, Places, Place, Holders
<1>10. Counted
  <2>1. \A x \in Fdesc : {ps \in Proc \X Slot : table[ps[1]][ps[2]] = x} = {}
    BY FilesAssumption DEF Init
  <2> QED
    BY <1>5, <2>1, FS_EmptySet DEF Init, Counted, References
<1>11. VnodesCounted
  <2>1. \A i \in Inode : OpenOn(i) = {}
    BY <1>0, <1>5 DEF OpenOn
  <2>2. In(Home) = {FirstProc} /\ \A i \in Inode \ {Home} : In(i) = {}
    BY <1>0, <1>6, FilesAssumption DEF In
  <2>3. Cardinality({}) = 0 /\ Cardinality({FirstProc}) = 1
    BY FS_EmptySet, FS_Singleton
  <2>4. \A i \in Inode : vnode[i].refcount = IF i = Home THEN 1 ELSE 0
    BY <1>2, <1>3, <1>4
  <2> QED
    BY <1>6, <2>1, <2>2, <2>3, <2>4 DEF VnodesCounted
<1>12. Writers
  BY <1>0, <1>2, <1>3, <1>4, <1>5 DEF Writers
<1> QED
  BY <1>7, <1>8, <1>9, <1>10, <1>11, <1>12 DEF FilesInv

(***************************************************************************)
(* What the actions have in common.                                        *)
(***************************************************************************)
\* A step of p leaves the places of others, and the locks that they hold.
LEMMA PlacesKept ==
    ASSUME Typed, Places, Holders, NEW p \in Proc, NEW e \in Op,
           op' = [op EXCEPT ![p] = e],
           \A q \in Proc \ {p} : cwd'[q] = cwd[q] /\ table'[q] = table[q],
           \A i \in Inode : vnode[i].there => vnode'[i].there,
           \A i \in Inode : vlock'[i] = vlock[i]
                            \/ (vlock[i] \in {p, Null} /\ vlock'[i] \in {p, Null}),
           \A i \in Inode : vlock'[i] = p => e.at \in {"have", "lock_old"} /\ e.v = i,
           Place(p)'
    PROVE  Places' /\ Holders'
<1>1. op'[p] = e /\ \A q \in Proc \ {p} : op'[q] = op[q]
  BY DEF Typed
<1>2. ASSUME NEW q \in Proc, q # p
      PROVE  Place(q)'
  <2>1. Place(q)
    BY DEF Places
  <2>2. op'[q] = op[q] /\ cwd'[q] = cwd[q] /\ table'[q] = table[q]
    BY <1>1, <1>2
  <2>3. op[q].at \in {"have", "lock_old"} => vlock'[op[q].v] = q
    BY <1>2, <2>1, FilesAssumption DEF Place
  <2> HIDE DEF Where
  <2> QED
    BY <2>1, <2>2, <2>3 DEF Place
<1>3. Places'
  BY <1>2 DEF Places
<1>4. Holders'
  <2>1. SUFFICES ASSUME NEW i \in Inode, vlock'[i] # Null
                 PROVE  op'[vlock'[i]].at \in {"have", "lock_old"} /\ op'[vlock'[i]].v = i
    BY DEF Holders
  <2>2. CASE vlock'[i] = p
    BY <1>1, <2>2
  <2>3. CASE vlock'[i] # p
    <3>1. vlock'[i] = vlock[i] /\ vlock[i] \in Proc \ {p}
      BY <2>1, <2>3 DEF Typed
    <3> QED
      BY <1>1, <2>1, <3>1 DEF Holders
  <2> QED
    BY <2>2, <2>3
<1> QED
  BY <1>3, <1>4

\* Nothing opens, closes or moves, and no count of a vnode goes down.
LEMMA SameOpen ==
    ASSUME FilesInv,
           \A x \in Fdesc : /\ fdesc'[x].v = fdesc[x].v /\ fdesc'[x].write = fdesc[x].write
                            /\ (fdesc'[x].refcount > 0) = (fdesc[x].refcount > 0),
           \A i \in Inode : /\ vnode[i].there => vnode'[i].there
                            /\ vnode'[i].refcount \in Int
                            /\ vnode'[i].refcount >= vnode[i].refcount
                            /\ vnode'[i].write = vnode[i].write,
           \A p \in Proc : cwd'[p] = cwd[p]
    PROVE  /\ There' /\ VnodesCounted'
           /\ (\A i \in Inode : vnode'[i].write > 0 => vnode'[i].exec = 0) => Writers'
<1>1. There'
  BY DEF FilesInv, There, Typed
<1>2. \A i \in Inode : OpenOn(i)' = OpenOn(i) /\ In(i)' = In(i)
  BY DEF OpenOn, In
<1>3. VnodesCounted'
  <2>1. SUFFICES ASSUME NEW i \in Inode
                 PROVE  (vnode[i].refcount >= Cardinality(OpenOn(i)) + Cardinality(In(i)))'
    BY DEF VnodesCounted
  <2>2. vnode[i].refcount >= Cardinality(OpenOn(i)) + Cardinality(In(i))
    BY DEF FilesInv, VnodesCounted
  <2>3. vnode[i].refcount \in Int /\ Cardinality(OpenOn(i)) \in Nat /\ Cardinality(In(i)) \in Nat
    BY CountsAreNumbers DEF FilesInv, Typed, Vnode
  <2>4. vnode'[i].refcount >= Cardinality(OpenOn(i)) + Cardinality(In(i))
    BY <2>2, <2>3
  <2> QED
    BY <1>2, <2>4
<1>4. (\A i \in Inode : vnode'[i].write > 0 => vnode'[i].exec = 0) => Writers'
  BY DEF FilesInv, There, Writers
<1> QED
  BY <1>1, <1>3, <1>4

\* A step that moves p from one place to another and may take or give a lock.
LEMMA OpStep ==
    ASSUME FilesInv, NEW p \in Proc, NEW e \in Op,
           op' = [op EXCEPT ![p] = e],
           UNCHANGED <<vnode, fdesc, table, cwd>>,
           names' \in [Name -> Inode \cup {Null}], Names',
           vlock' \in [Inode -> Proc \cup {Null}],
           cloexec' \in [Proc -> SUBSET Slot],
           \A i \in Inode : vlock'[i] = vlock[i]
                            \/ (vlock[i] \in {p, Null} /\ vlock'[i] \in {p, Null}),
           \A i \in Inode : vlock'[i] = p => e.at \in {"have", "lock_old"} /\ e.v = i,
           Place(p)'
    PROVE  FilesInv'
<1>1. Typed'
  BY DEF FilesInv, Typed
<1>2. There' /\ VnodesCounted' /\ Writers'
  <2>1. \A i \in Inode : vnode[i].refcount \in Int
    BY DEF FilesInv, Typed, Vnode
  <2> QED
    BY <2>1, SameOpen DEF FilesInv, Writers
<1>3. Places' /\ Holders'
  <2> HIDE DEF Where
  <2> QED
    BY PlacesKept DEF FilesInv
<1>4. Counted'
  BY DEF FilesInv, Counted, References
<1> QED
  BY <1>1, <1>2, <1>3, <1>4 DEF FilesInv

\* The same, with the locks and the names left alone, by who holds no lock.
LEMMA MoveStep ==
    ASSUME FilesInv, NEW p \in Proc, NEW e \in Op,
           op' = [op EXCEPT ![p] = e],
           op[p].at \notin {"have", "lock_old"} \/ (e.at \in {"have", "lock_old"} /\ e.v = op[p].v),
           UNCHANGED <<vnode, names, vlock, fdesc, table, cwd>>,
           cloexec' \in [Proc -> SUBSET Slot],
           Place(p)'
    PROVE  FilesInv'
<1>1. Names'
  BY DEF FilesInv, Names
<1>2. \A i \in Inode : vlock'[i] = p => e.at \in {"have", "lock_old"} /\ e.v = i
  <2>1. \A i \in Inode : vlock[i] = p => op[p].at \in {"have", "lock_old"} /\ op[p].v = i
    BY FilesAssumption DEF FilesInv, Holders
  <2> QED
    BY <2>1
<1>3. names' \in [Name -> Inode \cup {Null}] /\ vlock' \in [Inode -> Proc \cup {Null}]
  BY DEF FilesInv, Typed
<1> QED
  BY <1>1, <1>2, <1>3, OpStep

-----------------------------------------------------------------------------
\* vnode_lookup() begins.
LEMMA LookupNameInv ==
    ASSUME FilesInv, NEW p \in Proc, NEW l \in Lookups, LookupName(p, l[1], l[2])
    PROVE  FilesInv'
<1> DEFINE call == l[1]  n == l[2]
           e == [User EXCEPT !.call = call, !.name = n, !.v = InodeOf[n],
                     !.at = IF names[n] # Null THEN "lock" ELSE "stat"]
<1>1. call \in Call /\ n \in Name /\ InodeOf[n] \in Inode
  BY FilesAssumption
<1>2. op[p] = User /\ op' = [op EXCEPT ![p] = e] /\ UNCHANGED <<cache, vlock, open, cwd>>
  BY DEF LookupName, Called
<1> HIDE DEF call, n
<1>3. /\ e \in Op /\ e.name = n /\ e.v = InodeOf[n]
      /\ e.at = IF names[n] # Null THEN "lock" ELSE "stat"
  BY <1>1, UserType DEF Op, Where
<1> HIDE DEF e
<1>4. names[n] # Null => vnode[e.v].there
  BY <1>1, <1>3 DEF FilesInv, Names
<1>5. Place(p) /\ op'[p] = e
  BY <1>2 DEF FilesInv, Places, Typed
<1>6. Place(p)'
  BY <1>1, <1>2, <1>3, <1>4, <1>5, UserType DEF Place, cache, open
<1> QED
  BY <1>2, <1>3, <1>6, UserType, MoveStep DEF cache, open, FilesInv, Typed

\* The file is not there.
LEMMA StatFailsInv == ASSUME FilesInv, NEW p \in Proc, StatFails(p) PROVE FilesInv'
<1>1. op' = [op EXCEPT ![p] = User] /\ UNCHANGED <<cache, vlock, open, cwd>>
  BY DEF StatFails
<1>2. Place(p) /\ op'[p] = User /\ op[p].at = "stat"
  BY <1>1 DEF FilesInv, Places, Typed, StatFails
<1>3. Place(p)'
  BY <1>1, <1>2, UserType DEF Place, cache, open
<1> QED
  BY <1>1, <1>2, <1>3, UserType, MoveStep DEF cache, open, FilesInv, Typed

\* The vnode is found by its inode, or is to be made.
LEMMA LookupInodeInv == ASSUME FilesInv, NEW p \in Proc, LookupInode(p) PROVE FilesInv'
<1> DEFINE i == op[p].v
<1>1. Place(p) /\ op[p] \in Op /\ op[p].at = "stat" /\ UNCHANGED <<vnode, vlock, open, cwd>>
  BY DEF FilesInv, Places, Typed, LookupInode
<1>2. op[p].name \in Name /\ i = InodeOf[op[p].name] /\ i \in Inode
  BY <1>1, FilesAssumption DEF Place
<1>3. "lock" \in Where /\ "create" \in Where
  BY DEF Where
<1>4. \A j \in Inode : vlock[j] # p
  BY <1>1, FilesAssumption DEF FilesInv, Holders
<1>5. CASE vnode[i].there
  <2> DEFINE e == At(op[p], "lock")
  <2>1. names' = [names EXCEPT ![op[p].name] = i] /\ op' = [op EXCEPT ![p] = e]
    BY <1>5 DEF LookupInode, At
  <2>2. e \in Op /\ e.at = "lock" /\ e.v = i
    BY <1>1, <1>3, AtType
  <2> HIDE DEF e
  <2>3. names' \in [Name -> Inode \cup {Null}] /\ Names'
    BY <1>1, <1>2, <1>5, <2>1 DEF FilesInv, Typed, Names
  <2>4. op'[p] = e
    BY <2>1 DEF FilesInv, Typed
  <2>5. Place(p)'
    BY <1>1, <1>2, <1>5, <2>2, <2>4 DEF Place, open
  <2> QED
    BY <1>1, <1>4, <2>1, <2>2, <2>3, <2>5, OpStep DEF open, FilesInv, Typed
<1>6. CASE ~vnode[i].there
  <2> DEFINE e == At(op[p], "create")
  <2>1. UNCHANGED names /\ op' = [op EXCEPT ![p] = e]
    BY <1>6 DEF LookupInode, At
  <2>2. e \in Op /\ e.at = "create" /\ e.v = i /\ e.name = op[p].name
    BY <1>1, <1>3, AtType
  <2> HIDE DEF e
  <2>3. op'[p] = e
    BY <2>1 DEF FilesInv, Typed
  <2>4. Place(p)'
    BY <1>1, <1>2, <2>2, <2>3 DEF Place, open
  <2> QED
    BY <1>1, <2>1, <2>2, <2>4, MoveStep DEF open, FilesInv, Typed
<1> QED
  BY <1>5, <1>6

\* What the properties are about stays as it is.
LEMMA StutterInv ==
    ASSUME FilesInv, UNCHANGED <<cache, vlock, open, cwd, op>> PROVE FilesInv'
<1>1. Typed' /\ Names' /\ There'
  BY DEF FilesInv, Typed, Names, There, cache, open
<1>2. Places' /\ Holders'
  BY DEF FilesInv, Places, Place, Holders, cache, open
<1>3. Counted' /\ VnodesCounted' /\ Writers'
  BY DEF FilesInv, Counted, References, VnodesCounted, OpenOn, In, Writers, cache, open
<1> QED
  BY <1>1, <1>2, <1>3 DEF FilesInv

\* vnode_create(): the vnode is new, so nothing is open on it and nobody in it.
LEMMA VnodeCreateInv == ASSUME FilesInv, NEW p \in Proc, VnodeCreate(p) PROVE FilesInv'
<1> DEFINE i == op[p].v
           e == At(op[p], "have")
<1>1. CASE vnode[i].there
  BY <1>1, StutterInv DEF VnodeCreate, Halt
<1>2. CASE ~vnode[i].there
  <2>1. /\ vnode' = [vnode EXCEPT ![i] = NewVnode] /\ names' = [names EXCEPT ![op[p].name] = i]
        /\ vlock' = [vlock EXCEPT ![i] = p] /\ op' = [op EXCEPT ![p] = e]
        /\ UNCHANGED <<fdesc, table, cloexec, cwd>>
    BY <1>2 DEF VnodeCreate, At, open
  <2>2. Place(p) /\ op[p] \in Op /\ op[p].at = "create"
    BY DEF FilesInv, Places, Typed, VnodeCreate
  <2>3. op[p].name \in Name /\ i = InodeOf[op[p].name] /\ i \in Inode
    BY <2>2, FilesAssumption DEF Place
  <2>4. e \in Op /\ e.at = "have" /\ e.v = i
    BY <2>2, AtType DEF Where
  <2> HIDE DEF e
  <2>5. vnode' = [j \in Inode |-> IF j = i THEN NewVnode ELSE vnode[j]]
    BY <2>1 DEF FilesInv, Typed
  <2>6. Typed'
    <3>1. vnode' \in [Inode -> Vnode]
      BY <2>5, VnodeTypes DEF FilesInv, Typed
    <3>2. /\ names' \in [Name -> Inode \cup {Null}] /\ vlock' \in [Inode -> Proc \cup {Null}]
          /\ op' \in [Proc -> Op]
      BY <2>1, <2>3, <2>4 DEF FilesInv, Typed
    <3> QED
      BY <2>1, <3>1, <3>2 DEF FilesInv, Typed
  <2>7. /\ \A j \in Inode : vnode[j].there => vnode'[j].there
        /\ vnode'[i].there
    BY <2>3, <2>5, VnodeTypes
  <2>8. Names'
    BY <2>1, <2>3, <2>7 DEF FilesInv, Typed, Names
  <2>9. There'
    BY <2>1, <2>7 DEF FilesInv, There, Typed
  <2>10. Places' /\ Holders'
    <3>1. vlock[i] = Null
      <4>1. ASSUME vlock[i] # Null
            PROVE  FALSE
        <5>1. vlock[i] \in Proc
          BY <2>3, <4>1 DEF FilesInv, Typed
        <5>2. op[vlock[i]].at \in {"have", "lock_old"} /\ op[vlock[i]].v = i
          BY <2>3, <4>1 DEF FilesInv, Holders
        <5>3. Place(vlock[i])
          BY <5>1 DEF FilesInv, Places
        <5> QED
          BY <1>2, <5>2, <5>3 DEF Place
      <4> QED
        BY <4>1
    <3>2. \A j \in Inode : vlock[j] # p
      BY <2>2, FilesAssumption DEF FilesInv, Holders
    <3>3. vlock' = [j \in Inode |-> IF j = i THEN p ELSE vlock[j]]
      BY <2>1 DEF FilesInv, Typed
    <3>4. op'[p] = e
      BY <2>1 DEF FilesInv, Typed
    <3>5. Place(p)'
      BY <2>1, <2>2, <2>3, <2>4, <2>7, <3>3, <3>4 DEF Place
    <3>6. \A j \in Inode : vlock'[j] = vlock[j]
                           \/ (vlock[j] \in {p, Null} /\ vlock'[j] \in {p, Null})
      BY <3>1, <3>3
    <3>7. \A j \in Inode : vlock'[j] = p => e.at \in {"have", "lock_old"} /\ e.v = j
      BY <2>4, <3>2, <3>3
    <3> QED
      BY <2>1, <2>4, <2>7, <3>5, <3>6, <3>7, PlacesKept DEF FilesInv
  <2>11. Counted'
    BY <2>1 DEF FilesInv, Counted, References
  <2>12. VnodesCounted'
    <3>1. \A j : OpenOn(j)' = OpenOn(j) /\ In(j)' = In(j)
      BY <2>1 DEF OpenOn, In
    <3>2. OpenOn(i) = {}
      BY <1>2 DEF FilesInv, There, OpenOn
    <3>3. In(i) = {}
      BY <1>2, <2>3, FilesAssumption DEF FilesInv, There, In
    <3>4. \A j \in Inode : j = i => Cardinality(OpenOn(j)') = 0 /\ Cardinality(In(j)') = 0
      BY <3>1, <3>2, <3>3, FS_EmptySet
    <3>5. \A j \in Inode : vnode'[j].refcount >= Cardinality(OpenOn(j)') + Cardinality(In(j)')
      BY <2>5, <3>1, <3>4, VnodeTypes DEF FilesInv, VnodesCounted
    <3> QED
      BY <3>5 DEF VnodesCounted
  <2>13. Writers'
    <3>1. \A x \in Fdesc : fdesc[x].refcount > 0 => fdesc[x].v # i
      BY <1>2 DEF FilesInv, There
    <3> QED
      BY <2>1, <2>5, <3>1, VnodeTypes DEF FilesInv, Writers, There
  <2> QED
    BY <2>6, <2>8, <2>9, <2>10, <2>11, <2>12, <2>13 DEF FilesInv
<1> QED
  BY <1>1, <1>2

\* The lock of the vnode is taken.
LEMMA LockVnodeInv == ASSUME FilesInv, NEW p \in Proc, LockVnode(p) PROVE FilesInv'
<1> DEFINE i == op[p].v
           e == At(op[p], "have")
<1>1. Place(p) /\ op[p] \in Op /\ op[p].at = "lock" /\ vlock[i] = Null
  BY DEF FilesInv, Places, Typed, LockVnode
<1>2. i \in Inode /\ vnode[i].there
  BY <1>1 DEF Place
<1>3. /\ vlock' = [vlock EXCEPT ![i] = p] /\ op' = [op EXCEPT ![p] = e]
      /\ UNCHANGED <<vnode, names, open, cwd>>
  BY DEF LockVnode, At, cache
<1>4. e \in Op /\ e.at = "have" /\ e.v = i
  BY <1>1, AtType DEF Where
<1> HIDE DEF e
<1>5. \A j \in Inode : vlock[j] # p
  BY <1>1, FilesAssumption DEF FilesInv, Holders
<1>6. vlock' = [j \in Inode |-> IF j = i THEN p ELSE vlock[j]] /\ op'[p] = e
  BY <1>3 DEF FilesInv, Typed
<1>7. Place(p)'
  BY <1>1, <1>2, <1>3, <1>4, <1>6 DEF Place, open
<1>8. Names'
  BY <1>3 DEF FilesInv, Names
<1>9. /\ names' \in [Name -> Inode \cup {Null}] /\ vlock' \in [Inode -> Proc \cup {Null}]
      /\ cloexec' \in [Proc -> SUBSET Slot]
  BY <1>3, <1>6 DEF FilesInv, Typed, open
<1>10. \A j \in Inode : vlock'[j] = vlock[j]
                        \/ (vlock[j] \in {p, Null} /\ vlock'[j] \in {p, Null})
  BY <1>1, <1>6
<1>11. \A j \in Inode : vlock'[j] = p => e.at \in {"have", "lock_old"} /\ e.v = j
  BY <1>4, <1>5, <1>6
<1> QED
  BY <1>3, <1>4, <1>7, <1>8, <1>9, <1>10, <1>11, OpStep DEF open

\* Where a process has the vnode locked, which the caller then gives back.
LEMMA HaveFacts ==
    ASSUME FilesInv, NEW p \in Proc, op[p].at \in {"have", "lock_old"}
    PROVE  /\ Place(p) /\ op[p] \in Op /\ op[p].v \in Inode /\ vnode[op[p].v].there
           /\ vlock[op[p].v] = p /\ cwd[p] \in Inode /\ vnode[cwd[p]].there
           /\ \A j \in Inode : vlock[j] = p => j = op[p].v
<1>1. Place(p) /\ op[p] \in Op
  BY DEF FilesInv, Places, Typed
<1>2. /\ op[p].v \in Inode /\ vnode[op[p].v].there /\ vlock[op[p].v] = p
      /\ cwd[p] # Null
  BY <1>1 DEF Place
<1>3. cwd[p] \in Inode /\ vnode[cwd[p]].there
  BY <1>2 DEF FilesInv, Typed, There
<1>4. \A j \in Inode : vlock[j] = p => j = op[p].v
  BY FilesAssumption DEF FilesInv, Holders
<1> QED
  BY <1>1, <1>2, <1>3, <1>4

\* After Done(p) the lock is given back and the process is out of the kernel.
LEMMA DonePlaces ==
    ASSUME FilesInv, NEW p \in Proc, op[p].at \in {"have", "lock_old"}, Done(p),
           \A q \in Proc \ {p} : cwd'[q] = cwd[q],
           cwd'[p] # Null, \A q \in Proc \ {p} : table'[q] = table[q],
           \A j \in Inode : vnode[j].there => vnode'[j].there
    PROVE  /\ Places' /\ Holders' /\ op' \in [Proc -> Op] /\ names' = names
           /\ vlock' \in [Inode -> Proc \cup {Null}] /\ Names'
<1> DEFINE i == op[p].v
<1>1. /\ vlock' = [vlock EXCEPT ![i] = Null] /\ op' = [op EXCEPT ![p] = User]
      /\ names' = names
  BY DEF Done
<1>2. vlock' = [j \in Inode |-> IF j = i THEN Null ELSE vlock[j]] /\ op'[p] = User
  BY <1>1 DEF FilesInv, Typed
<1>3. vlock[i] = p /\ \A j \in Inode : vlock[j] = p => j = i
  BY HaveFacts
<1>4. Place(p)'
  BY <1>2, UserType DEF Place
<1>5. Places' /\ Holders'
  <2>1. \A j \in Inode : vlock'[j] = vlock[j]
                         \/ (vlock[j] \in {p, Null} /\ vlock'[j] \in {p, Null})
    BY <1>2, <1>3
  <2>2. \A j \in Inode : vlock'[j] # p
    BY <1>2, <1>3, FilesAssumption
  <2> QED
    BY <1>1, <1>4, <2>1, <2>2, UserType, PlacesKept DEF FilesInv
<1>6. op' \in [Proc -> Op] /\ vlock' \in [Inode -> Proc \cup {Null}]
  BY <1>1, <1>2, UserType DEF FilesInv, Typed
<1>7. Names'
  BY <1>1 DEF FilesInv, Names, Typed
<1> QED
  BY <1>1, <1>5, <1>6, <1>7

\* An error, or a call that only looks.
LEMMA RefusedInv ==
    ASSUME FilesInv, NEW p \in Proc, op[p].at \in {"have", "lock_old"}, Refused(p) PROVE FilesInv'
<1>1. Done(p) /\ UNCHANGED <<vnode, fdesc, table, cloexec, cwd>>
  BY DEF Refused, open
<1>2. cwd[p] # Null
  BY HaveFacts, FilesAssumption
<1>3. /\ Places' /\ Holders' /\ op' \in [Proc -> Op] /\ names' = names
      /\ vlock' \in [Inode -> Proc \cup {Null}] /\ Names'
  BY <1>1, <1>2, DonePlaces
<1>4. Typed'
  BY <1>1, <1>3 DEF FilesInv, Typed
<1>5. There' /\ VnodesCounted' /\ Counted' /\ Writers'
  BY <1>1 DEF FilesInv, There, VnodesCounted, OpenOn, In, Counted, References, Writers
<1> QED
  BY <1>3, <1>4, <1>5 DEF FilesInv

-----------------------------------------------------------------------------
\* What sys_open() counts in the vnode.
LEMMA OpenCounts ==
    ASSUME FilesInv, NEW i \in Inode, NEW write \in BOOLEAN,
           vnode' = [vnode EXCEPT ![i].refcount = @ + 1,
                                  ![i].write = IF write THEN @ + 1 ELSE @]
    PROVE  /\ vnode' \in [Inode -> Vnode]
           /\ vnode'[i].refcount = vnode[i].refcount + 1
           /\ vnode'[i].write = IF write THEN vnode[i].write + 1 ELSE vnode[i].write
           /\ vnode'[i].there = vnode[i].there /\ vnode'[i].exec = vnode[i].exec
           /\ \A j \in Inode \ {i} : vnode'[j] = vnode[j]
<1> DEFINE w == IF write THEN vnode[i].write + 1 ELSE vnode[i].write
           e == [vnode[i] EXCEPT !.refcount = vnode[i].refcount + 1, !.write = w]
<1>1. vnode \in [Inode -> Vnode] /\ vnode[i] \in Vnode
  BY DEF FilesInv, Typed
<1>2. w \in Nat /\ vnode[i].refcount + 1 \in Int
  BY <1>1 DEF Vnode
<1>3. vnode' = [vnode EXCEPT ![i] = e]
  BY <1>1
<1> HIDE DEF w
<1>4. /\ e \in Vnode /\ e.refcount = vnode[i].refcount + 1 /\ e.write = w
      /\ e.there = vnode[i].there /\ e.exec = vnode[i].exec
  BY <1>1, <1>2 DEF Vnode
<1> HIDE DEF e
<1> QED
  BY <1>1, <1>3, <1>4 DEF w

\* sys_open() takes a descriptor that nobody has, and counts it.
LEMMA OpenVnodeInv ==
    ASSUME FilesInv, NEW p \in Proc, op[p].at = "have", NEW s \in Slot, NEW write \in BOOLEAN,
           OpenVnode(p, s, write)
    PROVE  FilesInv'
<1>1. PICK x : x = CHOOSE y \in FreeFdesc(p) : TRUE
  OBVIOUS
<1>2. PICK i : i = op[p].v
  OBVIOUS
<1> DEFINE r == [v |-> i, refcount |-> 1, write |-> write, ofs |-> 0]
<1>3. /\ ~(write /\ Busy(i)) /\ table[p][s] = Null
      /\ vnode' = [vnode EXCEPT ![i].refcount = @ + 1,
                                ![i].write = IF write THEN @ + 1 ELSE @]
      /\ fdesc' = [fdesc EXCEPT ![x] = r] /\ table' = [table EXCEPT ![p][s] = x]
      /\ cloexec' = [cloexec EXCEPT ![p] = @ \ {s}]
      /\ Done(p) /\ cwd' = cwd
  BY <1>1, <1>2 DEF OpenVnode, FreeSlots
<1>4. i \in Inode /\ vnode[i].there /\ cwd[p] # Null
  BY <1>2, HaveFacts, FilesAssumption
<1>5. x \in Fdesc /\ fdesc[x].refcount = 0
  <2>1. FreeFdesc(p) # {}
    BY <1>3, DescriptorFree DEF FilesInv
  <2> QED
    BY <1>1, <2>1 DEF FreeFdesc
<1>6. /\ vnode' \in [Inode -> Vnode]
      /\ vnode'[i].refcount = vnode[i].refcount + 1
      /\ vnode'[i].write = IF write THEN vnode[i].write + 1 ELSE vnode[i].write
      /\ vnode'[i].there = vnode[i].there /\ vnode'[i].exec = vnode[i].exec
      /\ \A j \in Inode \ {i} : vnode'[j] = vnode[j]
  BY <1>3, <1>4, OpenCounts
<1>7. r \in Descriptor /\ r.v = i /\ r.refcount = 1 /\ r.write = write
  BY <1>4 DEF Descriptor
<1> HIDE DEF r
<1>8. fdesc' = [y \in Fdesc |-> IF y = x THEN r ELSE fdesc[y]]
  BY <1>3 DEF FilesInv, Typed
<1>9. \A j \in Inode : vnode[j].there => vnode'[j].there
  BY <1>6
<1>10. /\ Places' /\ Holders' /\ op' \in [Proc -> Op] /\ names' = names
       /\ vlock' \in [Inode -> Proc \cup {Null}] /\ Names'
  BY <1>3, <1>4, <1>9, DonePlaces DEF FilesInv, Typed
<1>11. Typed'
  <2>1. fdesc' \in [Fdesc -> Descriptor] /\ table' \in [Proc -> [Slot -> Fdesc \cup {Null}]]
    BY <1>3, <1>5, <1>7, <1>8 DEF FilesInv, Typed
  <2>2. cloexec' \in [Proc -> SUBSET Slot] /\ cwd' \in [Proc -> Inode \cup {Null}]
    BY <1>3 DEF FilesInv, Typed
  <2> QED
    BY <1>6, <1>10, <2>1, <2>2 DEF FilesInv, Typed
<1>12. There'
  BY <1>3, <1>4, <1>7, <1>8, <1>9 DEF FilesInv, There, Typed
<1>13. Counted'
  <2>1. /\ References(x)' = References(x) + 1
        /\ \A y \in Fdesc \ {x} : References(y)' = References(y)
    BY <1>3, <1>5, OneMore DEF FilesInv
  <2> QED
    BY <1>5, <1>7, <1>8, <2>1 DEF FilesInv, Counted
<1>14. VnodesCounted'
  <2>1. \A j \in Inode : In(j)' = In(j)
    BY <1>3 DEF In
  <2>2. \A j \in Inode \ {i} : OpenOn(j)' = OpenOn(j)
    BY <1>5, <1>7, <1>8 DEF OpenOn
  <2>3. OpenOn(i)' = OpenOn(i) \cup {x} /\ x \notin OpenOn(i)
    BY <1>5, <1>7, <1>8 DEF OpenOn
  <2>4. Cardinality(OpenOn(i)') = Cardinality(OpenOn(i)) + 1
    BY <2>3, CountsAreNumbers, FS_AddElement
  <2>5. SUFFICES ASSUME NEW j \in Inode
                 PROVE  vnode'[j].refcount >= Cardinality(OpenOn(j)') + Cardinality(In(j)')
    BY DEF VnodesCounted
  <2>6. vnode[j].refcount >= Cardinality(OpenOn(j)) + Cardinality(In(j))
    BY DEF FilesInv, VnodesCounted
  <2>7. /\ vnode[j].refcount \in Int /\ Cardinality(OpenOn(j)) \in Nat
        /\ Cardinality(In(j)) \in Nat
    BY CountsAreNumbers DEF FilesInv, Typed, Vnode
  <2>8. CASE j = i
    BY <1>6, <2>1, <2>4, <2>6, <2>7, <2>8
  <2>9. CASE j # i
    BY <1>6, <2>1, <2>2, <2>6, <2>9
  <2> QED
    BY <2>8, <2>9
<1>15. Writers'
  <2>1. vnode[i].write \in Nat /\ vnode[i].exec \in Nat
    BY <1>4 DEF FilesInv, Typed, Vnode
  <2>2. \A y \in Fdesc : fdesc'[y].refcount > 0 /\ fdesc'[y].write
            => vnode'[fdesc'[y].v].write > 0
    <3>1. TAKE y \in Fdesc
    <3>2. CASE y = x
      BY <1>6, <1>7, <1>8, <2>1, <3>2
    <3>3. CASE y # x
      <4>1. fdesc'[y] = fdesc[y]
        BY <1>8, <3>3
      <4>2. SUFFICES ASSUME fdesc[y].refcount > 0, fdesc[y].write
                     PROVE  vnode'[fdesc[y].v].write > 0
        BY <4>1
      <4>3. vnode[fdesc[y].v].write > 0 /\ fdesc[y].v \in Inode
        BY <4>2 DEF FilesInv, Writers, There
      <4> QED
        BY <1>6, <2>1, <4>3
    <3> QED
      BY <3>2, <3>3
  <2>3. \A j \in Inode : vnode'[j].write > 0 => vnode'[j].exec = 0
    BY <1>3, <1>6, <2>1 DEF FilesInv, Writers, Busy
  <2> QED
    BY <2>2, <2>3 DEF Writers
<1> QED
  BY <1>10, <1>11, <1>12, <1>13, <1>14, <1>15 DEF FilesInv

\* sys_open(), refused or not.
LEMMA OpenInv == ASSUME FilesInv, NEW p \in Proc, Open(p) PROVE FilesInv'
BY OpenVnodeInv, RefusedInv DEF Open, Has

Comes(j, new, old) == IF j = new /\ j # old THEN 1 ELSE 0

\* Who moves is counted where it comes to, and no longer where it was.
LEMMA InMoves ==
    ASSUME Typed, NEW p \in Proc, NEW new \in Inode \cup {Null}, NEW j \in Inode,
           cwd' = [cwd EXCEPT ![p] = new]
    PROVE  Cardinality(In(j)') = Cardinality(In(j)) + Comes(j, new, cwd[p])
                                                    - Comes(j, cwd[p], new)
<1>1. cwd' = [q \in Proc |-> IF q = p THEN new ELSE cwd[q]]
  BY DEF Typed
<1>2. IsFiniteSet(In(j)) /\ Cardinality(In(j)) \in Nat
  BY CountsAreNumbers
<1>3. CASE j = new /\ j # cwd[p]
  <2>1. In(j)' = In(j) \cup {p} /\ p \notin In(j)
    BY <1>1, <1>3 DEF In
  <2>2. Cardinality(In(j)') = Cardinality(In(j)) + 1
    BY <1>2, <2>1, FS_AddElement
  <2> QED
    BY <1>2, <1>3, <2>2 DEF Comes
<1>4. CASE j = cwd[p] /\ j # new
  <2>1. In(j)' = In(j) \ {p} /\ p \in In(j)
    BY <1>1, <1>4 DEF In
  <2>2. Cardinality(In(j)') = Cardinality(In(j)) - 1
    BY <1>2, <2>1, FS_RemoveElement
  <2> QED
    BY <1>2, <1>4, <2>2 DEF Comes
<1>5. CASE (j = new) = (j = cwd[p])
  <2>1. In(j)' = In(j)
    BY <1>1, <1>5 DEF In
  <2> QED
    BY <1>2, <1>5, <2>1 DEF Comes
<1> QED
  BY <1>3, <1>4, <1>5

\* Only reference counts of vnodes change, and who is in which.
LEMMA MovedInv ==
    ASSUME FilesInv, NEW p \in Proc, NEW new \in Inode \cup {Null},
           cwd' = [cwd EXCEPT ![p] = new], new # Null => vnode[new].there,
           UNCHANGED <<fdesc, table>>, vnode' \in [Inode -> Vnode],
           \A j \in Inode :
             /\ vnode'[j].there = vnode[j].there /\ vnode'[j].write = vnode[j].write
             /\ vnode'[j].exec = vnode[j].exec
             /\ vnode'[j].refcount >= vnode[j].refcount
                                     + Comes(j, new, cwd[p])
                                     - Comes(j, cwd[p], new)
    PROVE  There' /\ Counted' /\ VnodesCounted' /\ Writers'
<1>1. cwd' = [q \in Proc |-> IF q = p THEN new ELSE cwd[q]]
  BY DEF FilesInv, Typed
<1>2. There'
  <2>1. \A q \in Proc : cwd'[q] # Null => vnode'[cwd'[q]].there
    <3>1. TAKE q \in Proc
    <3>2. CASE q = p
      BY <1>1, <3>2
    <3>3. CASE q # p
      <4>1. cwd'[q] = cwd[q] /\ cwd[q] \in Inode \cup {Null}
        BY <1>1, <3>3 DEF FilesInv, Typed
      <4> QED
        BY <4>1 DEF FilesInv, There
    <3> QED
      BY <3>2, <3>3
  <2> QED
    BY <2>1 DEF FilesInv, There
<1>3. Counted'
  BY DEF FilesInv, Counted, References
<1>4. VnodesCounted'
  <2>1. \A j \in Inode : OpenOn(j)' = OpenOn(j)
    BY DEF OpenOn
  <2>2. SUFFICES ASSUME NEW j \in Inode
                 PROVE  vnode'[j].refcount >= Cardinality(OpenOn(j)') + Cardinality(In(j)')
    BY DEF VnodesCounted
  <2>3. vnode[j].refcount >= Cardinality(OpenOn(j)) + Cardinality(In(j))
    BY DEF FilesInv, VnodesCounted
  <2>4. /\ vnode[j].refcount \in Int /\ Cardinality(OpenOn(j)) \in Nat
        /\ Cardinality(In(j)) \in Nat
    BY CountsAreNumbers DEF FilesInv, Typed, Vnode
  <2>5. Cardinality(In(j)') = Cardinality(In(j)) + Comes(j, new, cwd[p])
                                                 - Comes(j, cwd[p], new)
    BY InMoves DEF FilesInv
  <2> DEFINE a == Comes(j, new, cwd[p])
             b == Comes(j, cwd[p], new)
  <2>0. a \in Int /\ b \in Int
    BY DEF Comes
  <2>6. /\ Cardinality(In(j)') = Cardinality(In(j)) + a - b
        /\ vnode'[j].refcount >= vnode[j].refcount + a - b /\ a \in Int /\ b \in Int
        /\ Cardinality(OpenOn(j)') = Cardinality(OpenOn(j)) /\ vnode'[j].refcount \in Int
    BY <2>1, <2>5, <2>0 DEF Vnode
  <2> HIDE DEF a, b
  <2> QED
    BY <2>3, <2>4, <2>6
<1>5. Writers'
  BY DEF FilesInv, Writers, There
<1> QED
  BY <1>2, <1>3, <1>4, <1>5

Recount(x, n) == [x EXCEPT !.refcount = n]

\* Only the reference count of a vnode changes.
LEMMA RecountType ==
    ASSUME NEW x \in Vnode, NEW n \in Int
    PROVE  LET e == Recount(x, n)
           IN  /\ e \in Vnode /\ e.refcount = n /\ e.there = x.there
               /\ e.write = x.write /\ e.exec = x.exec
BY DEF Vnode, Recount

\* sys_chdir() with all the locks it wants.
LEMMA ChdirToInv ==
    ASSUME FilesInv, NEW p \in Proc, op[p].at \in {"have", "lock_old"}, ChdirTo(p)
    PROVE  FilesInv'
<1>1. PICK new : new = op[p].v
  OBVIOUS
<1>2. /\ new \in Inode /\ vnode[new].there /\ cwd[p] \in Inode
  BY <1>1, HaveFacts
<1> DEFINE n(j) == vnode[j].refcount + (IF j = new THEN 1 ELSE 0)
                                     - (IF j = cwd[p] /\ cwd[p] # new THEN 1 ELSE 0)
<1>3. \A j \in Inode : vnode[j] \in Vnode /\ vnode[j].refcount \in Int
  BY DEF FilesInv, Typed, Vnode
<1>4. /\ vnode' = [j \in Inode |-> Recount(vnode[j], n(j))]
      /\ cwd' = [cwd EXCEPT ![p] = new] /\ Done(p) /\ UNCHANGED <<fdesc, table, cloexec>>
  BY <1>1 DEF ChdirTo, ChdirLocks, Recount, open
<1>5. ASSUME NEW j \in Inode
      PROVE  /\ n(j) \in Int
             /\ n(j) >= vnode[j].refcount + Comes(j, new, cwd[p])
                                          - Comes(j, cwd[p], new)
  BY <1>3 DEF Comes
<1> HIDE DEF n
<1>6. \A j \in Inode : /\ vnode'[j] = Recount(vnode[j], n(j)) /\ vnode'[j] \in Vnode
                       /\ vnode'[j].there = vnode[j].there /\ vnode'[j].write = vnode[j].write
                       /\ vnode'[j].exec = vnode[j].exec /\ vnode'[j].refcount = n(j)
  BY <1>3, <1>4, <1>5, RecountType
<1>7. vnode' \in [Inode -> Vnode]
  BY <1>4, <1>6
<1>8. There' /\ Counted' /\ VnodesCounted' /\ Writers'
  <2>1. \A j \in Inode :
          /\ vnode'[j].there = vnode[j].there /\ vnode'[j].write = vnode[j].write
          /\ vnode'[j].exec = vnode[j].exec
          /\ vnode'[j].refcount >= vnode[j].refcount + Comes(j, new, cwd[p])
                                                     - Comes(j, cwd[p], new)
    BY <1>5, <1>6
  <2> QED
    BY <1>2, <1>4, <1>7, <2>1, MovedInv
<1>9. cwd' = [q \in Proc |-> IF q = p THEN new ELSE cwd[q]]
  BY <1>4 DEF FilesInv, Typed
<1>10. /\ Places' /\ Holders' /\ op' \in [Proc -> Op] /\ names' = names
       /\ vlock' \in [Inode -> Proc \cup {Null}] /\ Names'
  BY <1>2, <1>4, <1>6, <1>9, DonePlaces, FilesAssumption
<1>11. Typed'
  BY <1>2, <1>4, <1>7, <1>9, <1>10 DEF FilesInv, Typed
<1> QED
  BY <1>8, <1>10, <1>11 DEF FilesInv

\* sys_chdir() at the new directory.
LEMMA ChdirInv == ASSUME FilesInv, NEW p \in Proc, Chdir(p) PROVE FilesInv'
<1>1. op[p].at = "have"
  BY DEF Chdir, Has
<1>2. CASE Refused(p)
  BY <1>1, <1>2, RefusedInv
<1>3. CASE ChdirTo(p)
  BY <1>1, <1>3, ChdirToInv
<1>4. CASE /\ ChdirLocks(p) /\ op' = [op EXCEPT ![p].at = "lock_old"]
           /\ UNCHANGED <<cache, vlock, open, cwd, calls, halt>>
  <2> DEFINE e == At(op[p], "lock_old")
  <2>1. op' = [op EXCEPT ![p] = e] /\ UNCHANGED <<vnode, names, vlock, fdesc, table, cloexec, cwd>>
    BY <1>4 DEF At, cache, open
  <2>2. Place(p) /\ op[p] \in Op /\ op[p].v # cwd[p]
    BY <1>1, <1>4, HaveFacts DEF ChdirLocks
  <2>3. e \in Op /\ e.at = "lock_old" /\ e.v = op[p].v
    BY <2>2, AtType DEF Where
  <2> HIDE DEF e
  <2>4. op'[p] = e
    BY <2>1 DEF FilesInv, Typed
  <2>5. Place(p)'
    BY <1>1, <2>1, <2>2, <2>3, <2>4 DEF Place
  <2> QED
    BY <1>1, <2>1, <2>3, <2>5, MoveStep DEF FilesInv, Typed
<1> QED
  BY <1>2, <1>3, <1>4 DEF Chdir

\* sys_chdir() at the old directory.
LEMMA ChdirLockedInv == ASSUME FilesInv, NEW p \in Proc, ChdirLocked(p) PROVE FilesInv'
BY ChdirToInv DEF ChdirLocked

\* What a process does between two calls.
LEMMA CalledFacts ==
    ASSUME FilesInv, NEW p \in Proc, op[p] = User
    PROVE  /\ Place(p) /\ op[p].at = "user" /\ cwd[p] \in Inode /\ vnode[cwd[p]].there
           /\ \A j \in Inode : vlock[j] # p
<1>1. Place(p) /\ op[p].at = "user"
  BY UserType DEF FilesInv, Places
<1>2. cwd[p] # Null
  BY <1>1 DEF Place
<1>3. cwd[p] \in Inode /\ vnode[cwd[p]].there
  BY <1>2 DEF FilesInv, Typed, There
<1>4. \A j \in Inode : vlock[j] # p
  BY <1>1, FilesAssumption DEF FilesInv, Holders
<1> QED
  BY <1>1, <1>3, <1>4

\* A call that is one step leaves everybody where he is in the kernel.
LEMMA CallPlaces ==
    ASSUME FilesInv, NEW p \in Proc, op[p] = User, op' = op, vlock' = vlock,
           \A q \in Proc \ {p} : cwd'[q] = cwd[q] /\ table'[q] = table[q],
           cwd'[p] # Null, \A j \in Inode : vnode[j].there => vnode'[j].there
    PROVE  Places' /\ Holders'
<1>1. op' = [op EXCEPT ![p] = User]
  BY DEF FilesInv, Typed
<1>2. \A j \in Inode : vlock'[j] # p
  BY CalledFacts
<1>3. Place(p)'
  BY UserType DEF Place
<1> QED
  BY <1>1, <1>2, <1>3, UserType, PlacesKept DEF FilesInv

\* The name chain is left alone.
LEMMA NamesKept ==
    ASSUME FilesInv, names' = names, \A j \in Inode : vnode[j].there => vnode'[j].there
    PROVE  Names'
<1>1. ASSUME NEW n \in Name, names[n] # Null
      PROVE  names[n] = InodeOf[n] /\ vnode'[names[n]].there
  <2>1. names[n] \in Inode
    BY <1>1 DEF FilesInv, Typed
  <2> QED
    BY <1>1, <2>1 DEF FilesInv, Names
<1> QED
  BY <1>1 DEF Names

\* sys_fchdir()
LEMMA FchdirInv ==
    ASSUME FilesInv, NEW p \in Proc, NEW s \in Slot, Fchdir(p, s) PROVE FilesInv'
<1>1. PICK new : new = fdesc[table[p][s]].v
  OBVIOUS
<1>2. PICK old : old = cwd[p]
  OBVIOUS
<1>3. /\ table[p][s] # Null /\ new # old /\ op[p] = User
      /\ vnode' = [vnode EXCEPT ![new].refcount = @ + 1, ![old].refcount = @ - 1]
      /\ cwd' = [cwd EXCEPT ![p] = new]
      /\ UNCHANGED <<names, vlock, fdesc, table, cloexec, op>>
  BY <1>1, <1>2 DEF Fchdir, Called, open
<1>4. old \in Inode
  BY <1>2, <1>3, CalledFacts
<1>5. new \in Inode /\ vnode[new].there
  BY <1>1, <1>3, NamedIsOpen DEF FilesInv, There
<1> DEFINE up == vnode[new].refcount + 1
           down == vnode[old].refcount - 1
           a == Recount(vnode[new], up)
           b == Recount(vnode[old], down)
<1>6. /\ vnode \in [Inode -> Vnode] /\ vnode[new] \in Vnode /\ vnode[old] \in Vnode
      /\ vnode[new].refcount \in Int /\ vnode[old].refcount \in Int
  BY <1>4, <1>5 DEF FilesInv, Typed, Vnode
<1>7. vnode' = [[vnode EXCEPT ![new] = a] EXCEPT ![old] = b]
  BY <1>3, <1>4, <1>5, <1>6 DEF Recount
<1>0. up \in Int /\ down \in Int
  BY <1>6
<1> HIDE DEF up, down
<1>8. /\ a \in Vnode /\ a.refcount = up /\ a.there = vnode[new].there
      /\ a.write = vnode[new].write /\ a.exec = vnode[new].exec
  BY <1>0, <1>6, RecountType
<1>9. /\ b \in Vnode /\ b.refcount = down /\ b.there = vnode[old].there
      /\ b.write = vnode[old].write /\ b.exec = vnode[old].exec
  BY <1>0, <1>6, RecountType
<1> HIDE DEF a, b
<1>10. vnode' = [j \in Inode |-> IF j = new THEN a ELSE IF j = old THEN b ELSE vnode[j]]
  BY <1>3, <1>4, <1>5, <1>6, <1>7
<1>11. vnode' \in [Inode -> Vnode]
  BY <1>6, <1>8, <1>9, <1>10
<1>12. \A j \in Inode :
          /\ vnode'[j].there = vnode[j].there /\ vnode'[j].write = vnode[j].write
          /\ vnode'[j].exec = vnode[j].exec
          /\ vnode'[j].refcount >= vnode[j].refcount + Comes(j, new, cwd[p])
                                                     - Comes(j, cwd[p], new)
  <2>1. \A j \in Inode : vnode[j].refcount \in Int
    BY DEF FilesInv, Typed, Vnode
  <2> QED
    BY <1>2, <1>3, <1>6, <1>8, <1>9, <1>10, <2>1 DEF Comes, up, down
<1>13. There' /\ Counted' /\ VnodesCounted' /\ Writers'
  BY <1>3, <1>5, <1>11, <1>12, MovedInv
<1>14. cwd' = [q \in Proc |-> IF q = p THEN new ELSE cwd[q]]
  BY <1>3 DEF FilesInv, Typed
<1>15. Places' /\ Holders'
  BY <1>3, <1>5, <1>12, <1>14, CallPlaces, FilesAssumption
<1>16. Typed'
  BY <1>3, <1>5, <1>11, <1>14 DEF FilesInv, Typed
<1>17. Names'
  BY <1>3, <1>12, NamesKept
<1> QED
  BY <1>13, <1>15, <1>16, <1>17 DEF FilesInv

\* vfs_mount() on a directory.
LEMMA MountInv == ASSUME FilesInv, NEW p \in Proc, Mount(p) PROVE FilesInv'
<1>1. CASE Halt("mount() left a vnode locked")
  BY <1>1, StutterInv DEF Halt
<1>2. CASE ~Halt("mount() left a vnode locked")
  <2>1. PICK i : i = op[p].v
    OBVIOUS
  <2>2. /\ op[p].at = "have"
        /\ vnode' = [vnode EXCEPT ![i].mounted = TRUE, ![i].refcount = @ + 1]
        /\ Done(p) /\ UNCHANGED <<fdesc, table, cloexec, cwd>>
    BY <1>2, <2>1 DEF Mount, Has, open
  <2>3. i \in Inode /\ cwd[p] # Null
    BY <2>1, <2>2, HaveFacts, FilesAssumption
  <2>4. vnode[i] \in Vnode /\ vnode \in [Inode -> Vnode]
    BY <2>3 DEF FilesInv, Typed
  <2> DEFINE n == vnode[i].refcount + 1
             e == [vnode[i] EXCEPT !.mounted = TRUE, !.refcount = n]
  <2>5. vnode' = [vnode EXCEPT ![i] = e]
    BY <2>2, <2>3, <2>4
  <2>6. n \in Int /\ n >= vnode[i].refcount
    BY <2>4 DEF Vnode
  <2> HIDE DEF n
  <2>7. /\ e \in Vnode /\ e.refcount = n /\ e.there = vnode[i].there
        /\ e.write = vnode[i].write /\ e.exec = vnode[i].exec
    BY <2>4, <2>6 DEF Vnode
  <2> HIDE DEF e
  <2>8. vnode' = [j \in Inode |-> IF j = i THEN e ELSE vnode[j]]
    BY <2>4, <2>5
  <2>9. \A j \in Inode : /\ vnode[j].there => vnode'[j].there
                         /\ vnode'[j].refcount \in Int
                         /\ vnode'[j].refcount >= vnode[j].refcount
                         /\ vnode'[j].write = vnode[j].write /\ vnode'[j].exec = vnode[j].exec
    <3>1. \A j \in Inode : vnode[j].refcount \in Int
      BY <2>4 DEF Vnode
    <3> QED
      BY <2>6, <2>7, <2>8, <3>1
  <2>10. There' /\ VnodesCounted' /\ Writers'
    BY <2>2, <2>9, SameOpen DEF FilesInv, Writers
  <2>11. /\ Places' /\ Holders' /\ op' \in [Proc -> Op] /\ names' = names
         /\ vlock' \in [Inode -> Proc \cup {Null}] /\ Names'
    BY <2>2, <2>3, <2>9, DonePlaces
  <2>12. Typed'
    BY <2>2, <2>4, <2>7, <2>8, <2>11 DEF FilesInv, Typed
  <2>13. Counted'
    BY <2>2 DEF FilesInv, Counted, References
  <2> QED
    BY <2>10, <2>11, <2>12, <2>13 DEF FilesInv
<1> QED
  BY <1>1, <1>2

\* sys_execve() counts the file it runs, and closes what is marked so.
LEMMA ExecveInv == ASSUME FilesInv, NEW p \in Proc, Execve(p) PROVE FilesInv'
<1>1. op[p].at = "have"
  BY DEF Execve, Has
<1>2. CASE Refused(p)
  BY <1>1, <1>2, RefusedInv
<1>3. CASE ~Refused(p)
  <2>1. PICK i : i = op[p].v
    OBVIOUS
  <2> DEFINE todo == {s \in cloexec[p] : table[p][s] # Null}
             f == Closing(User, todo, "user")
             n == vnode[i].refcount + 1
             m == vnode[i].exec + 1
             e == [vnode[i] EXCEPT !.exec = m, !.refcount = n]
  <2>2. /\ Executable(i)
        /\ vnode' = [vnode EXCEPT ![i].exec = @ + 1, ![i].refcount = @ + 1]
        /\ vlock' = [vlock EXCEPT ![i] = Null] /\ op' = [op EXCEPT ![p] = f]
        /\ UNCHANGED <<names, fdesc, table, cloexec, cwd>>
    BY <1>3, <2>1 DEF Execve, open
  <2>3. i \in Inode /\ cwd[p] # Null /\ vlock[i] = p /\ (\A j \in Inode : vlock[j] = p => j = i)
    BY <1>1, <2>1, HaveFacts, FilesAssumption
  <2>4. vnode[i] \in Vnode /\ vnode \in [Inode -> Vnode]
    BY <2>3 DEF FilesInv, Typed
  <2>5. vnode' = [vnode EXCEPT ![i] = e]
    BY <2>2, <2>3, <2>4
  <2>6. n \in Int /\ n >= vnode[i].refcount /\ m \in Nat
    BY <2>4 DEF Vnode
  <2> HIDE DEF n, m
  <2>7. /\ e \in Vnode /\ e.refcount = n /\ e.there = vnode[i].there
        /\ e.write = vnode[i].write
    BY <2>4, <2>6 DEF Vnode
  <2> HIDE DEF e
  <2>8. vnode' = [j \in Inode |-> IF j = i THEN e ELSE vnode[j]]
    BY <2>4, <2>5
  <2>9. \A j \in Inode : /\ vnode[j].there => vnode'[j].there
                         /\ vnode'[j].refcount \in Int
                         /\ vnode'[j].refcount >= vnode[j].refcount
                         /\ vnode'[j].write = vnode[j].write
    <3>1. \A j \in Inode : vnode[j].refcount \in Int
      BY <2>4 DEF Vnode
    <3> QED
      BY <2>6, <2>7, <2>8, <3>1
  <2>10. \A j \in Inode : vnode'[j].write > 0 => vnode'[j].exec = 0
    BY <2>2, <2>7, <2>8 DEF FilesInv, Writers, Executable
  <2>11. There' /\ VnodesCounted' /\ Writers'
    BY <2>2, <2>9, <2>10, SameOpen
  <2>12. todo \in SUBSET Slot /\ \A s \in todo : table[p][s] # Null
    BY DEF FilesInv, Typed
  <2> HIDE DEF todo
  <2>13. /\ f \in Op
         /\ todo # {} => f.at = "detach" /\ f.todo = todo /\ f.then = "user"
         /\ todo = {} => f = User
    BY <2>12, UserType, ClosingType
  <2> HIDE DEF f
  <2>14. vlock' = [j \in Inode |-> IF j = i THEN Null ELSE vlock[j]] /\ op'[p] = f
    BY <2>2 DEF FilesInv, Typed
  <2>15. Place(p)'
    <3>1. CASE todo = {}
      BY <2>2, <2>3, <2>13, <2>14, <3>1, UserType DEF Place
    <3>2. CASE todo # {}
      BY <2>2, <2>3, <2>12, <2>13, <2>14, <3>2 DEF Place
    <3> QED
      BY <3>1, <3>2
  <2>16. Places' /\ Holders'
    <3>1. \A j \in Inode : vlock'[j] = vlock[j]
                           \/ (vlock[j] \in {p, Null} /\ vlock'[j] \in {p, Null})
      BY <2>3, <2>14
    <3>2. \A j \in Inode : vlock'[j] # p
      BY <2>3, <2>14, FilesAssumption
    <3> QED
      BY <2>2, <2>9, <2>13, <2>15, <3>1, <3>2, PlacesKept DEF FilesInv
  <2>17. Typed'
    <3>1. vnode' \in [Inode -> Vnode] /\ vlock' \in [Inode -> Proc \cup {Null}]
      BY <2>4, <2>7, <2>8, <2>14 DEF FilesInv, Typed
    <3> QED
      BY <2>2, <2>13, <3>1 DEF FilesInv, Typed
  <2>18. Counted'
    BY <2>2 DEF FilesInv, Counted, References
  <2> QED
    BY <2>2, <2>9, <2>11, <2>16, <2>17, <2>18, NamesKept DEF FilesInv
<1> QED
  BY <1>2, <1>3

\* The last reference to a descriptor goes, and with it one to the vnode.
LEMMA LastDetach ==
    ASSUME FilesInv, NEW x \in Fdesc, NEW i \in Inode, i = fdesc[x].v, fdesc[x].refcount = 1,
           fdesc' = [fdesc EXCEPT ![x] = NoFdesc],
           vnode' = [vnode EXCEPT ![i] = Recount(vnode[i], vnode[i].refcount - 1)],
           References(x)' = References(x) - 1,
           \A y \in Fdesc \ {x} : References(y)' = References(y),
           cwd' = cwd
    PROVE  /\ fdesc' \in [Fdesc -> Descriptor] /\ vnode' \in [Inode -> Vnode]
           /\ \A j \in Inode : vnode[j].there => vnode'[j].there
           /\ There' /\ Counted' /\ VnodesCounted' /\ Writers'
<1> DEFINE n == vnode[i].refcount - 1
           e == Recount(vnode[i], n)
<1>1. /\ vnode \in [Inode -> Vnode] /\ vnode[i] \in Vnode /\ vnode[i].refcount \in Int
      /\ fdesc \in [Fdesc -> Descriptor]
  BY DEF FilesInv, Typed, Vnode
<1>2. n \in Int
  BY <1>1
<1>3. NoFdesc \in Descriptor /\ NoFdesc.refcount = 0
  BY DEF NoFdesc, Descriptor
<1>4. fdesc' = [y \in Fdesc |-> IF y = x THEN NoFdesc ELSE fdesc[y]]
  BY <1>1
<1>5. n = vnode[i].refcount - 1
  OBVIOUS
<1> HIDE DEF n
<1>6. /\ e \in Vnode /\ e.refcount = n /\ e.there = vnode[i].there
      /\ e.write = vnode[i].write /\ e.exec = vnode[i].exec
  BY <1>1, <1>2, RecountType
<1>7. vnode' = [vnode EXCEPT ![i] = e]
  BY DEF n
<1> HIDE DEF e
<1>8. vnode' = [j \in Inode |-> IF j = i THEN e ELSE vnode[j]]
  BY <1>1, <1>7
<1>9. fdesc' \in [Fdesc -> Descriptor] /\ vnode' \in [Inode -> Vnode]
  BY <1>1, <1>3, <1>4, <1>6, <1>8
<1>10. \A j \in Inode : /\ vnode'[j].there = vnode[j].there
                        /\ vnode'[j].write = vnode[j].write /\ vnode'[j].exec = vnode[j].exec
  BY <1>6, <1>8
<1>11. \A y \in Fdesc : fdesc'[y].refcount > 0 => y # x /\ fdesc'[y] = fdesc[y]
  BY <1>3, <1>4
<1>12. There'
  BY <1>10, <1>11 DEF FilesInv, There, Typed
<1>13. Writers'
  BY <1>10, <1>11 DEF FilesInv, Writers, There
<1>14. Counted'
  BY <1>3, <1>4 DEF FilesInv, Counted
<1>15. VnodesCounted'
  <2>1. \A j \in Inode : In(j)' = In(j)
    BY DEF In
  <2>2. \A j \in Inode \ {i} : OpenOn(j)' = OpenOn(j)
    BY <1>4, <1>11 DEF OpenOn
  <2>3. OpenOn(i)' = OpenOn(i) \ {x} /\ x \in OpenOn(i)
    BY <1>4, <1>11 DEF OpenOn
  <2>4. Cardinality(OpenOn(i)') = Cardinality(OpenOn(i)) - 1
    BY <2>3, CountsAreNumbers, FS_RemoveElement
  <2>5. SUFFICES ASSUME NEW j \in Inode
                 PROVE  vnode'[j].refcount >= Cardinality(OpenOn(j)') + Cardinality(In(j)')
    BY DEF VnodesCounted
  <2>6. vnode[j].refcount >= Cardinality(OpenOn(j)) + Cardinality(In(j))
    BY DEF FilesInv, VnodesCounted
  <2>7. /\ vnode[j].refcount \in Int /\ Cardinality(OpenOn(j)) \in Nat
        /\ Cardinality(In(j)) \in Nat
    BY <1>1, CountsAreNumbers DEF Vnode
  <2>8. CASE j = i
    <3>1. vnode'[j].refcount = vnode[j].refcount - 1
      BY <1>5, <1>6, <1>8, <2>8
    <3> QED
      BY <2>1, <2>4, <2>6, <2>7, <2>8, <3>1
  <2>9. CASE j # i
    BY <1>8, <2>1, <2>2, <2>6, <2>9
  <2> QED
    BY <2>8, <2>9
<1> QED
  BY <1>9, <1>10, <1>12, <1>13, <1>14, <1>15

Counts(y, n) == [y EXCEPT !.refcount = n]

\* Only the reference count of a descriptor changes.
LEMMA CountsType ==
    ASSUME NEW y \in Descriptor, NEW n \in Int
    PROVE  LET e == Counts(y, n)
           IN  e \in Descriptor /\ e.refcount = n /\ e.v = y.v /\ e.write = y.write
BY DEF Descriptor, Counts

\* A descriptor in use gets or loses a reference, and stays in use.
LEMMA StillOpen ==
    ASSUME FilesInv, NEW x \in Fdesc, NEW n \in Int, fdesc[x].refcount > 0, n > 0,
           fdesc' = [fdesc EXCEPT ![x] = Counts(fdesc[x], n)],
           References(x)' = n,
           \A y \in Fdesc \ {x} : References(y)' = References(y),
           UNCHANGED <<vnode, cwd>>
    PROVE  /\ fdesc' \in [Fdesc -> Descriptor]
           /\ There' /\ Counted' /\ VnodesCounted' /\ Writers'
<1> DEFINE e == Counts(fdesc[x], n)
<1>1. fdesc \in [Fdesc -> Descriptor] /\ fdesc[x] \in Descriptor /\ vnode \in [Inode -> Vnode]
  BY DEF FilesInv, Typed
<1>2. e \in Descriptor /\ e.refcount = n /\ e.v = fdesc[x].v /\ e.write = fdesc[x].write
  BY <1>1, CountsType
<1> HIDE DEF e
<1>3. fdesc' = [y \in Fdesc |-> IF y = x THEN e ELSE fdesc[y]]
  BY <1>1 DEF e
<1>4. fdesc' \in [Fdesc -> Descriptor]
  BY <1>1, <1>2, <1>3
<1>5. Counted'
  BY <1>2, <1>3 DEF FilesInv, Counted
<1>6. \A y \in Fdesc : /\ fdesc'[y].v = fdesc[y].v /\ fdesc'[y].write = fdesc[y].write
                       /\ (fdesc'[y].refcount > 0) = (fdesc[y].refcount > 0)
  BY <1>2, <1>3
<1>7. \A j \in Inode : /\ vnode[j].there => vnode'[j].there
                       /\ vnode'[j].refcount \in Int
                       /\ vnode'[j].refcount >= vnode[j].refcount
                       /\ vnode'[j].write = vnode[j].write
  BY <1>1 DEF Vnode
<1>8. There' /\ VnodesCounted' /\ Writers'
  <2>1. \A j \in Inode : vnode'[j].write > 0 => vnode'[j].exec = 0
    BY DEF FilesInv, Writers
  <2>2. \A q \in Proc : cwd'[q] = cwd[q]
    OBVIOUS
  <2> QED
    BY <1>6, <1>7, <2>1, <2>2, SameOpen
<1> QED
  BY <1>4, <1>5, <1>8

\* fd_detach() of the next slot.
LEMMA DetachInv == ASSUME FilesInv, NEW p \in Proc, Detach(p) PROVE FilesInv'
<1>1. CASE Halt("a failed close left a vnode locked")
  BY <1>1, StutterInv DEF Halt
<1>2. CASE ~Halt("a failed close left a vnode locked")
  <2>1. PICK s : s = NextSlot(op[p])
    OBVIOUS
  <2>2. PICK x : x = table[p][s]
    OBVIOUS
  <2>3. Place(p) /\ op[p] \in Op /\ op[p].at = "detach"
    BY DEF FilesInv, Places, Typed, Detach
  <2>4. s \in op[p].todo /\ op[p].todo \in SUBSET Slot /\ op[p].then \in {"user", "dup", "exit"}
    BY <2>1, <2>3, NextSlotIsLeft DEF Place, Op
  <2>5. s \in Slot /\ x # Null
    BY <2>2, <2>3, <2>4 DEF Place
  <2> DEFINE todo == op[p].todo \ {s}
             e == Closing(op[p], todo, op[p].then)
  <2>6. /\ fdesc' = IF LastReference(x) THEN [fdesc EXCEPT ![x] = NoFdesc]
                    ELSE [fdesc EXCEPT ![x].refcount = @ - 1]
        /\ vnode' = IF LastReference(x) THEN [vnode EXCEPT ![fdesc[x].v].refcount = @ - 1]
                    ELSE vnode
        /\ table' = [table EXCEPT ![p][s] = Null] /\ op' = [op EXCEPT ![p] = e]
        /\ UNCHANGED <<names, vlock, cloexec, cwd>>
    BY <1>2, <2>1, <2>2 DEF Detach
  <2>7. /\ fdesc' \in [Fdesc -> Descriptor] /\ vnode' \in [Inode -> Vnode]
        /\ \A j \in Inode : vnode[j].there => vnode'[j].there
        /\ There' /\ Counted' /\ VnodesCounted' /\ Writers'
    <3>1. x \in Fdesc /\ fdesc[x].refcount > 0 /\ fdesc[x] \in Descriptor
      BY <2>2, <2>5, NamedIsOpen DEF FilesInv, Typed
    <3>2. PICK i : i = fdesc[x].v
      OBVIOUS
    <3>3. i \in Inode
      BY <3>1, <3>2 DEF FilesInv, There
    <3>4. /\ References(x)' = References(x) - 1
          /\ \A y \in Fdesc \ {x} : References(y)' = References(y)
      BY <2>2, <2>5, <2>6, <3>1, OneLess DEF FilesInv
    <3>5. fdesc[x].refcount = References(x) /\ fdesc[x].refcount \in Int
      BY <3>1 DEF FilesInv, Counted, Descriptor
    <3>6. CASE LastReference(x)
      <4>1. /\ fdesc' = [fdesc EXCEPT ![x] = NoFdesc] /\ fdesc[x].refcount = 1
            /\ vnode' = [vnode EXCEPT ![i] = Recount(vnode[i], vnode[i].refcount - 1)]
        BY <2>6, <3>2, <3>3, <3>6 DEF LastReference, Recount, FilesInv, Typed
      <4> QED
        BY <2>6, <3>1, <3>2, <3>3, <3>4, <4>1, LastDetach
    <3>7. CASE ~LastReference(x)
      <4>1. PICK n : n = fdesc[x].refcount - 1
        OBVIOUS
      <4>2. /\ fdesc' = [fdesc EXCEPT ![x] = Counts(fdesc[x], n)]
            /\ UNCHANGED <<vnode, cwd>>
        BY <2>6, <3>1, <3>7, <4>1 DEF Counts, FilesInv, Typed
      <4>3. n \in Int /\ n > 0 /\ References(x)' = n
        BY <3>1, <3>4, <3>5, <3>7, <4>1 DEF LastReference
      <4>4. fdesc' \in [Fdesc -> Descriptor] /\ There' /\ Counted' /\ VnodesCounted' /\ Writers'
        BY <3>1, <3>4, <4>2, <4>3, StillOpen
      <4> QED
        BY <4>2, <4>4 DEF FilesInv, Typed
    <3> QED
      BY <3>6, <3>7
  <2>8. /\ e \in Op
        /\ todo # {} => /\ e.at = "detach" /\ e.todo = todo /\ e.then = op[p].then
                        /\ e.slot = op[p].slot /\ e.ofs = op[p].ofs
        /\ todo = {} /\ op[p].then = "user" => e = User
        /\ todo = {} /\ op[p].then # "user"
              => e.at = op[p].then /\ e.slot = op[p].slot /\ e.ofs = op[p].ofs
    BY <2>3, <2>4, ClosingType
  <2> HIDE DEF e
  <2>9. /\ table' = [q \in Proc |-> IF q = p
                                    THEN [t \in Slot |-> IF t = s THEN Null ELSE table[p][t]]
                                    ELSE table[q]]
        /\ op'[p] = e
    BY <2>6 DEF FilesInv, Typed
  <2>10. cwd[p] # Null /\ (\A t \in op[p].todo : table[p][t] # Null) /\ cwd' = cwd
    BY <2>3, <2>6 DEF Place
  <2>11. table'[p][s] = Null /\ \A t \in Slot \ {s} : table'[p][t] = table[p][t]
    BY <2>5, <2>9
  <2>12. Place(p)'
    <3>1. CASE todo # {}
      <4>1. op[p].then # "dup"
        BY <2>3, <2>4, <3>1 DEF Place
      <4>2. \A t \in todo : table'[p][t] # Null
        BY <2>4, <2>10, <2>11
      <4>3. op[p].then = "exit" => \A t \in Slot \ todo : table'[p][t] = Null
        BY <2>3, <2>11 DEF Place
      <4> QED
        BY <2>8, <2>9, <2>10, <3>1, <4>1, <4>2, <4>3 DEF Place
    <3>2. CASE todo = {} /\ op[p].then = "user"
      BY <2>8, <2>9, <2>10, <3>2, UserType DEF Place
    <3>3. CASE todo = {} /\ op[p].then = "exit"
      <4>1. \A t \in Slot : table'[p][t] = Null
        BY <2>3, <2>11, <3>3 DEF Place
      <4> QED
        BY <2>8, <2>9, <2>10, <3>3, <4>1 DEF Place
    <3>4. CASE todo = {} /\ op[p].then = "dup"
      <4>1. /\ op[p].slot \in Slot /\ op[p].ofs \in Slot /\ op[p].slot # op[p].ofs
            /\ table[p][op[p].slot] # Null /\ op[p].ofs = s
        BY <2>3, <2>4, <3>4 DEF Place
      <4>2. table'[p][op[p].slot] # Null /\ table'[p][op[p].ofs] = Null
        BY <2>11, <4>1
      <4> QED
        BY <2>8, <2>9, <2>10, <3>4, <4>1, <4>2 DEF Place
    <3> QED
      BY <2>4, <3>1, <3>2, <3>3, <3>4
  <2>13. Places' /\ Holders'
    <3>1. \A j \in Inode : vlock[j] # p
      BY <2>3, FilesAssumption DEF FilesInv, Holders
    <3> QED
      BY <2>6, <2>7, <2>8, <2>9, <2>12, <3>1, PlacesKept DEF FilesInv
  <2>14. Typed'
    <3>1. table' \in [Proc -> [Slot -> Fdesc \cup {Null}]]
      BY <2>9 DEF FilesInv, Typed
    <3> QED
      BY <2>6, <2>7, <2>8, <3>1 DEF FilesInv, Typed
  <2> QED
    BY <2>6, <2>7, <2>13, <2>14, NamesKept DEF FilesInv
<1> QED
  BY <1>1, <1>2

\* One more slot of p names the descriptor of another.
LEMMA DupInv ==
    ASSUME FilesInv, NEW p \in Proc, NEW from \in Slot, NEW to \in Slot, Dup(p, from, to),
           table[p][from] # Null, table[p][to] = Null, UNCHANGED <<vnode, cwd>>
    PROVE  /\ fdesc' \in [Fdesc -> Descriptor] /\ table' \in [Proc -> [Slot -> Fdesc \cup {Null}]]
           /\ \A q \in Proc \ {p} : table'[q] = table[q]
           /\ There' /\ Counted' /\ VnodesCounted' /\ Writers'
<1>1. PICK x : x = table[p][from]
  OBVIOUS
<1>2. PICK n : n = fdesc[x].refcount + 1
  OBVIOUS
<1>3. x \in Fdesc /\ fdesc[x].refcount > 0 /\ fdesc[x].refcount \in Int
  BY <1>1, NamedIsOpen DEF FilesInv, Typed, Descriptor
<1>4. /\ fdesc' = [fdesc EXCEPT ![x] = Counts(fdesc[x], n)]
      /\ table' = [table EXCEPT ![p][to] = x]
  BY <1>1, <1>2, <1>3 DEF Dup, Counts, FilesInv, Typed
<1>5. /\ References(x)' = References(x) + 1
      /\ \A y \in Fdesc \ {x} : References(y)' = References(y)
  BY <1>3, <1>4, OneMore DEF FilesInv
<1>6. n \in Int /\ n > 0 /\ References(x)' = n
  BY <1>2, <1>3, <1>5 DEF FilesInv, Counted
<1>7. fdesc' \in [Fdesc -> Descriptor] /\ There' /\ Counted' /\ VnodesCounted' /\ Writers'
  BY <1>3, <1>4, <1>5, <1>6, StillOpen
<1>8. /\ table' \in [Proc -> [Slot -> Fdesc \cup {Null}]]
      /\ \A q \in Proc \ {p} : table'[q] = table[q]
  BY <1>3, <1>4 DEF FilesInv, Typed
<1> QED
  BY <1>7, <1>8

\* sys_close() begins.
LEMMA CloseInv ==
    ASSUME FilesInv, NEW p \in Proc, NEW s \in Slot, Close(p, s) PROVE FilesInv'
<1> DEFINE e == Closing(User, {s}, "user")
<1>1. /\ op[p] = User /\ table[p][s] # Null /\ op' = [op EXCEPT ![p] = e]
      /\ UNCHANGED <<vnode, names, vlock, fdesc, table, cloexec, cwd>>
  BY DEF Close, Called, cache, open
<1>2. e \in Op /\ e.at = "detach" /\ e.todo = {s} /\ e.then = "user"
  <2>1. {s} \in SUBSET Slot /\ {s} # {}
    OBVIOUS
  <2> QED
    BY <2>1, UserType, ClosingType
<1> HIDE DEF e
<1>3. op'[p] = e /\ cwd[p] # Null
  BY <1>1, CalledFacts, FilesAssumption DEF FilesInv, Typed
<1>4. Place(p)'
  BY <1>1, <1>2, <1>3 DEF Place
<1> QED
  BY <1>1, <1>2, <1>4, UserType, MoveStep DEF FilesInv, Typed

\* sys_dup2(), which may have to close first.
LEMMA Dup2Inv ==
    ASSUME FilesInv, NEW p \in Proc, NEW from \in Slot, NEW to \in Slot, Dup2(p, from, to)
    PROVE  FilesInv'
<1>1. CASE from = to
  BY <1>1, StutterInv DEF Dup2, Halt
<1>2. CASE from # to /\ table[p][to] = Null
  <2>1. /\ op[p] = User /\ table[p][from] # Null /\ Dup(p, from, to)
        /\ UNCHANGED <<vnode, names, vlock, cloexec, cwd, op>>
    BY <1>2 DEF Dup2, Called, cache
  <2>2. /\ fdesc' \in [Fdesc -> Descriptor] /\ table' \in [Proc -> [Slot -> Fdesc \cup {Null}]]
        /\ \A q \in Proc \ {p} : table'[q] = table[q]
        /\ There' /\ Counted' /\ VnodesCounted' /\ Writers'
    BY <1>2, <2>1, DupInv
  <2>3. Places' /\ Holders'
    BY <2>1, <2>2, CalledFacts, CallPlaces, FilesAssumption
  <2>4. Typed'
    BY <2>1, <2>2 DEF FilesInv, Typed
  <2> QED
    BY <2>1, <2>2, <2>3, <2>4, NamesKept DEF FilesInv
<1>3. CASE from # to /\ table[p][to] # Null
  <2> DEFINE y == [User EXCEPT !.slot = from, !.ofs = to]
             e == Closing(y, {to}, "dup")
  <2>1. /\ op[p] = User /\ table[p][from] # Null /\ op' = [op EXCEPT ![p] = e]
        /\ UNCHANGED <<vnode, names, vlock, fdesc, table, cloexec, cwd>>
    BY <1>3 DEF Dup2, Called, cache
  <2>2. y \in Op /\ y.slot = from /\ y.ofs = to
    <3>1. from \in Int /\ to \in Int
      BY FilesAssumption DEF Slot
    <3> QED
      BY <3>1, UserType DEF Op
  <2> HIDE DEF y
  <2>3. /\ e \in Op /\ e.at = "detach" /\ e.todo = {to} /\ e.then = "dup"
        /\ e.slot = from /\ e.ofs = to
    <3>1. {to} \in SUBSET Slot /\ {to} # {}
      OBVIOUS
    <3> QED
      BY <2>2, <3>1, ClosingType
  <2> HIDE DEF e
  <2>4. op'[p] = e /\ cwd[p] # Null
    BY <2>1, CalledFacts, FilesAssumption DEF FilesInv, Typed
  <2>5. Place(p)'
    BY <1>3, <2>1, <2>3, <2>4 DEF Place
  <2> QED
    BY <2>1, <2>3, <2>5, UserType, MoveStep DEF FilesInv, Typed
<1> QED
  BY <1>1, <1>2, <1>3

\* The second half of sys_dup2().
LEMMA DupAfterCloseInv == ASSUME FilesInv, NEW p \in Proc, DupAfterClose(p) PROVE FilesInv'
<1>1. Place(p) /\ op[p].at = "dup"
  BY DEF FilesInv, Places, DupAfterClose
<1>2. PICK from : from = op[p].slot
  OBVIOUS
<1>3. PICK to : to = op[p].ofs
  OBVIOUS
<1>4. /\ from \in Slot /\ to \in Slot /\ table[p][from] # Null /\ table[p][to] = Null
      /\ cwd[p] # Null
  BY <1>1, <1>2, <1>3 DEF Place
<1>5. /\ Dup(p, from, to) /\ op' = [op EXCEPT ![p] = User]
      /\ UNCHANGED <<vnode, names, vlock, cloexec, cwd>>
  BY <1>2, <1>3 DEF DupAfterClose, cache
<1>6. /\ fdesc' \in [Fdesc -> Descriptor] /\ table' \in [Proc -> [Slot -> Fdesc \cup {Null}]]
      /\ \A q \in Proc \ {p} : table'[q] = table[q]
      /\ There' /\ Counted' /\ VnodesCounted' /\ Writers'
  BY <1>4, <1>5, DupInv
<1>7. Places' /\ Holders'
  <2>1. \A j \in Inode : vlock'[j] # p
    BY <1>1, <1>5, FilesAssumption DEF FilesInv, Holders
  <2>2. op'[p] = User
    BY <1>5 DEF FilesInv, Typed
  <2>3. Place(p)'
    BY <1>4, <1>5, <2>2, UserType DEF Place
  <2> QED
    BY <1>5, <1>6, <2>1, <2>3, UserType, PlacesKept DEF FilesInv
<1>8. Typed'
  BY <1>5, <1>6, UserType DEF FilesInv, Typed
<1> QED
  BY <1>5, <1>6, <1>7, <1>8, NamesKept DEF FilesInv

\* F_DUPFD and F_SETFD.
LEMMA FcntlInv ==
    ASSUME FilesInv, NEW p \in Proc, NEW s \in Slot, Fcntl(p, s) PROVE FilesInv'
<1>1. /\ op[p] = User /\ table[p][s] # Null
      /\ UNCHANGED <<vnode, names, vlock, cwd, op>>
  BY DEF Fcntl, Called, cache
<1>2. ASSUME NEW to \in Slot, table[p][to] = Null, Dup(p, s, to),
             cloexec' = [cloexec EXCEPT ![p] = @ \ {to}]
      PROVE  FilesInv'
  <2>1. /\ fdesc' \in [Fdesc -> Descriptor] /\ table' \in [Proc -> [Slot -> Fdesc \cup {Null}]]
        /\ \A q \in Proc \ {p} : table'[q] = table[q]
        /\ There' /\ Counted' /\ VnodesCounted' /\ Writers'
    BY <1>1, <1>2, DupInv
  <2>2. Places' /\ Holders'
    BY <1>1, <2>1, CalledFacts, CallPlaces, FilesAssumption
  <2>3. Typed'
    BY <1>1, <1>2, <2>1 DEF FilesInv, Typed
  <2> QED
    BY <1>1, <2>1, <2>2, <2>3, NamesKept DEF FilesInv
<1>3. ASSUME cloexec' = [cloexec EXCEPT ![p] = @ \cup {s}], UNCHANGED <<fdesc, table>>
      PROVE  FilesInv'
  <2>1. cloexec' \in [Proc -> SUBSET Slot] /\ op' = [op EXCEPT ![p] = User]
    BY <1>1, <1>3 DEF FilesInv, Typed
  <2>2. Place(p)'
    BY <1>1, <1>3, CalledFacts DEF Place
  <2> QED
    BY <1>1, <1>3, <2>1, <2>2, UserType, MoveStep
<1>4. FreeSlots(p) # {} => Min(FreeSlots(p)) \in Slot /\ table[p][Min(FreeSlots(p))] = Null
  BY MinFreeSlot DEF FreeSlots
<1> QED
  BY <1>2, <1>3, <1>4 DEF Fcntl

\* Each slot that is copied to the new process is one more reference.
LEMMA SharedCounts ==
    ASSUME FilesInv, NEW p \in Proc, NEW c \in Proc, \A s \in Slot : table[c][s] = Null,
           table' = [table EXCEPT ![c] = table[p]], NEW x \in Fdesc
    PROVE  /\ Cardinality({s \in Slot : table[p][s] = x}) \in Nat
           /\ References(x)' = References(x) + Cardinality({s \in Slot : table[p][s] = x})
           /\ References(x) = 0 => Cardinality({s \in Slot : table[p][s] = x}) = 0
<1> DEFINE T == {s \in Slot : table[p][s] = x}
           N == {ps \in Proc \X Slot : table[ps[1]][ps[2]] = x}
           M == {ps \in Proc \X Slot : table'[ps[1]][ps[2]] = x}
<1>1. table' = [q \in Proc |-> IF q = c THEN table[p] ELSE table[q]] /\ x # Null
  BY FilesAssumption DEF FilesInv, Typed
<1>2. IsFiniteSet(T) /\ Cardinality(T) \in Nat /\ IsFiniteSet(N) /\ Cardinality(N) \in Nat
  <2>1. T \in SUBSET Slot /\ N \in SUBSET Fdesc
    BY DEF Fdesc
  <2> QED
    BY <2>1, FiniteSets, FS_Subset, FS_CardinalityType
<1>3. M = N \cup ({c} \X T)
  BY <1>1
<1>4. N \cap ({c} \X T) = {}
  BY <1>1
<1>5. IsFiniteSet({c} \X T) /\ Cardinality({c} \X T) = Cardinality(T)
  <2>1. IsFiniteSet({c}) /\ Cardinality({c}) = 1
    BY FS_Singleton, FS_AddElement, FS_EmptySet
  <2>2. IsFiniteSet({c} \X T) /\ Cardinality({c} \X T) = Cardinality({c}) * Cardinality(T)
    BY <1>2, <2>1, FS_Product
  <2> QED
    BY <1>2, <2>1, <2>2
<1>6. Cardinality(M) = Cardinality(N) + Cardinality(T)
  <2>1. Cardinality(M) = Cardinality(N) + Cardinality(T) - Cardinality({})
    BY <1>2, <1>3, <1>4, <1>5, FS_Union
  <2> QED
    BY <1>2, <2>1, FS_EmptySet
<1>7. Cardinality(N) = 0 => Cardinality(T) = 0
  <2>1. ASSUME Cardinality(N) = 0
        PROVE  T = {}
    <3>1. N = {}
      BY <1>2, <2>1, FS_EmptySet
    <3>2. \A s \in T : <<p, s>> \in N
      OBVIOUS
    <3> QED
      BY <3>1, <3>2
  <2> QED
    BY <2>1, FS_EmptySet
<1> QED
  BY <1>2, <1>6, <1>7 DEF References

\* sys_fork(): the child has what its parent has, and it is counted.
LEMMA ForkInv ==
    ASSUME FilesInv, NEW p \in Proc, NEW c \in Proc, Fork(p, c) PROVE FilesInv'
<1>1. PICK home : home = cwd[p]
  OBVIOUS
<1> DEFINE k(x) == Cardinality({s \in Slot : table[p][s] = x})
           n == vnode[home].refcount + 1
           e == Recount(vnode[home], n)
<1>2. /\ op[p] = User /\ op[c] = Unused
      /\ fdesc' = [x \in Fdesc |-> Counts(fdesc[x], fdesc[x].refcount + k(x))]
      /\ vnode' = [vnode EXCEPT ![home].refcount = @ + 1]
      /\ table' = [table EXCEPT ![c] = table[p]]
      /\ cloexec' = [cloexec EXCEPT ![c] = cloexec[p]]
      /\ cwd' = [cwd EXCEPT ![c] = home] /\ op' = [op EXCEPT ![c] = User]
      /\ UNCHANGED <<names, vlock>>
  BY <1>1 DEF Fork, Called, Shared, Counts
<1>3. home \in Inode /\ vnode[home].there /\ home # Null
  BY <1>1, <1>2, CalledFacts, FilesAssumption
<1>4. /\ \A s \in Slot : table[c][s] = Null
      /\ cwd[c] = Null /\ op[c].at = "unused"
  BY <1>2, UserType DEF FilesInv, Places, Place
<1>5. \A x \in Fdesc : /\ k(x) \in Nat /\ References(x)' = References(x) + k(x)
                       /\ References(x) = 0 => k(x) = 0
  BY <1>2, <1>4, SharedCounts
<1> HIDE DEF k
<1>6. ASSUME NEW x \in Fdesc
      PROVE  /\ fdesc'[x] \in Descriptor /\ fdesc'[x].refcount = fdesc[x].refcount + k(x)
             /\ fdesc'[x].v = fdesc[x].v /\ fdesc'[x].write = fdesc[x].write
             /\ fdesc[x].refcount \in Int
  <2>1. fdesc[x] \in Descriptor /\ fdesc[x].refcount \in Int
    BY DEF FilesInv, Typed, Descriptor
  <2>2. PICK m : m = fdesc[x].refcount + k(x)
    OBVIOUS
  <2>3. m \in Int /\ fdesc'[x] = Counts(fdesc[x], m)
    BY <1>2, <1>5, <2>1, <2>2
  <2> QED
    BY <2>1, <2>2, <2>3, CountsType
<1>7. fdesc' \in [Fdesc -> Descriptor]
  BY <1>2, <1>6
<1>8. Counted'
  BY <1>5, <1>6 DEF FilesInv, Counted
<1>9. \A x \in Fdesc : (fdesc'[x].refcount > 0) = (fdesc[x].refcount > 0)
  <2>1. TAKE x \in Fdesc
  <2>2. fdesc[x].refcount = References(x) /\ References(x) \in Nat
    BY CountsAreNumbers DEF FilesInv, Counted
  <2> QED
    BY <1>5, <1>6, <2>2
<1>10. vnode \in [Inode -> Vnode] /\ vnode[home] \in Vnode /\ vnode[home].refcount \in Int
  BY <1>3 DEF FilesInv, Typed, Vnode
<1>11. vnode' = [vnode EXCEPT ![home] = e] /\ n \in Int /\ n = vnode[home].refcount + 1
  BY <1>2, <1>3, <1>10 DEF Recount
<1> HIDE DEF n
<1>12. /\ e \in Vnode /\ e.refcount = n /\ e.there = vnode[home].there
       /\ e.write = vnode[home].write /\ e.exec = vnode[home].exec
  BY <1>10, <1>11, RecountType
<1> HIDE DEF e
<1>13. vnode' = [j \in Inode |-> IF j = home THEN e ELSE vnode[j]]
  BY <1>10, <1>11
<1>14. /\ vnode' \in [Inode -> Vnode]
       /\ \A j \in Inode :
             /\ vnode'[j].there = vnode[j].there /\ vnode'[j].write = vnode[j].write
             /\ vnode'[j].exec = vnode[j].exec
  BY <1>10, <1>12, <1>13
<1>15. cwd' = [q \in Proc |-> IF q = c THEN home ELSE cwd[q]]
  BY <1>2 DEF FilesInv, Typed
<1>16. There'
  <2>1. \A x \in Fdesc : fdesc'[x].refcount > 0
            => fdesc'[x].v \in Inode /\ vnode'[fdesc'[x].v].there
    BY <1>6, <1>9, <1>14 DEF FilesInv, There
  <2>2. \A q \in Proc : cwd'[q] # Null => vnode'[cwd'[q]].there
    <3>1. TAKE q \in Proc
    <3>2. CASE q = c
      BY <1>3, <1>14, <1>15, <3>2
    <3>3. CASE q # c
      <4>1. cwd'[q] = cwd[q] /\ cwd[q] \in Inode \cup {Null}
        BY <1>15, <3>3 DEF FilesInv, Typed
      <4> QED
        BY <1>14, <4>1 DEF FilesInv, There
    <3> QED
      BY <3>2, <3>3
  <2> QED
    BY <2>1, <2>2 DEF There
<1>17. VnodesCounted'
  <2>1. \A j \in Inode : OpenOn(j)' = OpenOn(j)
    BY <1>6, <1>9 DEF OpenOn
  <2>2. SUFFICES ASSUME NEW j \in Inode
                 PROVE  vnode'[j].refcount >= Cardinality(OpenOn(j)') + Cardinality(In(j)')
    BY DEF VnodesCounted
  <2>3. vnode[j].refcount >= Cardinality(OpenOn(j)) + Cardinality(In(j))
    BY DEF FilesInv, VnodesCounted
  <2>4. /\ vnode[j].refcount \in Int /\ Cardinality(OpenOn(j)) \in Nat
        /\ Cardinality(In(j)) \in Nat
    BY <1>10, CountsAreNumbers DEF Vnode
  <2>5. Cardinality(In(j)') = Cardinality(In(j)) + Comes(j, home, cwd[c])
                                                 - Comes(j, cwd[c], home)
    BY <1>2, <1>3, InMoves DEF FilesInv
  <2>6. Comes(j, cwd[c], home) = 0 /\ Comes(j, home, cwd[c]) = IF j = home THEN 1 ELSE 0
    BY <1>4, FilesAssumption DEF Comes
  <2>7. CASE j = home
    <3>1. vnode'[j].refcount = vnode[j].refcount + 1
      BY <1>11, <1>12, <1>13, <2>7
    <3> QED
      BY <2>1, <2>3, <2>4, <2>5, <2>6, <2>7, <3>1
  <2>8. CASE j # home
    BY <1>13, <2>1, <2>3, <2>4, <2>5, <2>6, <2>8
  <2> QED
    BY <2>7, <2>8
<1>18. Writers'
  <2>1. \A x \in Fdesc : fdesc'[x].refcount > 0 /\ fdesc'[x].write
            => vnode'[fdesc'[x].v].write > 0
    BY <1>6, <1>9, <1>14 DEF FilesInv, Writers, There
  <2>2. \A j \in Inode : vnode'[j].write > 0 => vnode'[j].exec = 0
    BY <1>14 DEF FilesInv, Writers
  <2> QED
    BY <2>1, <2>2 DEF Writers
<1>19. Places' /\ Holders'
  <2>1. \A j \in Inode : vlock[j] # c
    BY <1>4, FilesAssumption DEF FilesInv, Holders
  <2>2. op'[c] = User
    BY <1>2 DEF FilesInv, Typed
  <2>3. Place(c)'
    BY <1>3, <1>15, <2>2, UserType DEF Place
  <2>4. \A q \in Proc \ {c} : cwd'[q] = cwd[q] /\ table'[q] = table[q]
    BY <1>2, <1>15 DEF FilesInv, Typed
  <2> QED
    BY <1>2, <1>14, <2>1, <2>3, <2>4, UserType, PlacesKept DEF FilesInv
<1>20. Typed'
  <2>1. /\ table' \in [Proc -> [Slot -> Fdesc \cup {Null}]]
        /\ cloexec' \in [Proc -> SUBSET Slot]
    BY <1>2 DEF FilesInv, Typed
  <2>2. /\ cwd' \in [Proc -> Inode \cup {Null}] /\ op' \in [Proc -> Op]
    BY <1>2, <1>3, <1>15, UserType DEF FilesInv, Typed
  <2> QED
    BY <1>2, <1>7, <1>14, <2>1, <2>2 DEF FilesInv, Typed
<1> QED
  BY <1>2, <1>8, <1>14, <1>16, <1>17, <1>18, <1>19, <1>20, NamesKept DEF FilesInv

\* proc_exit() begins to close what the process has.
LEMMA ExitInv == ASSUME FilesInv, NEW p \in Proc, Exit(p) PROVE FilesInv'
<1> DEFINE todo == {s \in Slot : table[p][s] # Null}
           e == Closing(User, todo, "exit")
<1>1. /\ op[p] = User /\ op' = [op EXCEPT ![p] = e]
      /\ UNCHANGED <<vnode, names, vlock, fdesc, table, cloexec, cwd>>
  BY DEF Exit, cache, open
<1>2. todo \in SUBSET Slot /\ \A s \in todo : table[p][s] # Null
  OBVIOUS
<1>3. \A s \in Slot \ todo : table[p][s] = Null
  OBVIOUS
<1> HIDE DEF todo
<1>4. /\ e \in Op
      /\ todo # {} => e.at = "detach" /\ e.todo = todo /\ e.then = "exit"
      /\ todo = {} => e.at = "exit"
  BY <1>2, UserType, ClosingType
<1> HIDE DEF e
<1>5. op'[p] = e /\ cwd[p] # Null
  BY <1>1, CalledFacts, FilesAssumption DEF FilesInv, Typed
<1>6. Place(p)'
  <2>1. CASE todo = {}
    BY <1>1, <1>3, <1>4, <1>5, <2>1 DEF Place
  <2>2. CASE todo # {}
    BY <1>1, <1>2, <1>3, <1>4, <1>5, <2>2 DEF Place
  <2> QED
    BY <2>1, <2>2
<1> QED
  BY <1>1, <1>4, <1>6, UserType, MoveStep DEF FilesInv, Typed

\* proc_exit() counts down the directory.
LEMMA ExitedInv == ASSUME FilesInv, NEW p \in Proc, Exited(p) PROVE FilesInv'
<1>1. Place(p) /\ op[p].at = "exit"
  BY DEF FilesInv, Places, Exited
<1>2. PICK home : home = cwd[p]
  OBVIOUS
<1>3. home \in Inode
  BY <1>1, <1>2 DEF FilesInv, Typed, Place
<1> DEFINE n == vnode[home].refcount - 1
           e == Recount(vnode[home], n)
<1>4. vnode \in [Inode -> Vnode] /\ vnode[home] \in Vnode /\ vnode[home].refcount \in Int
  BY <1>3 DEF FilesInv, Typed, Vnode
<1>5. /\ vnode' = [vnode EXCEPT ![home] = e] /\ cwd' = [cwd EXCEPT ![p] = Null]
      /\ cloexec' = [cloexec EXCEPT ![p] = {}] /\ op' = [op EXCEPT ![p] = Unused]
      /\ UNCHANGED <<names, vlock, fdesc, table>>
  BY <1>2, <1>3, <1>4 DEF Exited, Recount
<1>6. n \in Int /\ n = vnode[home].refcount - 1
  BY <1>4
<1> HIDE DEF n
<1>7. /\ e \in Vnode /\ e.refcount = n /\ e.there = vnode[home].there
      /\ e.write = vnode[home].write /\ e.exec = vnode[home].exec
  BY <1>4, <1>6, RecountType
<1> HIDE DEF e
<1>8. vnode' = [j \in Inode |-> IF j = home THEN e ELSE vnode[j]]
  BY <1>4, <1>5
<1>9. vnode' \in [Inode -> Vnode]
  BY <1>4, <1>7, <1>8
<1>10. \A j \in Inode :
          /\ vnode'[j].there = vnode[j].there /\ vnode'[j].write = vnode[j].write
          /\ vnode'[j].exec = vnode[j].exec
          /\ vnode'[j].refcount >= vnode[j].refcount + Comes(j, Null, cwd[p])
                                                     - Comes(j, cwd[p], Null)
  <2>1. TAKE j \in Inode
  <2>2. j # Null /\ vnode[j].refcount \in Int
    BY <1>4, FilesAssumption DEF Vnode
  <2>3. CASE j = home
    BY <1>2, <1>6, <1>7, <1>8, <2>2, <2>3 DEF Comes
  <2>4. CASE j # home
    BY <1>2, <1>8, <2>2, <2>4 DEF Comes
  <2> QED
    BY <2>3, <2>4
<1>11. There' /\ Counted' /\ VnodesCounted' /\ Writers'
  BY <1>5, <1>9, <1>10, MovedInv
<1>12. cwd' = [q \in Proc |-> IF q = p THEN Null ELSE cwd[q]] /\ op'[p] = Unused
  BY <1>5 DEF FilesInv, Typed
<1>13. Places' /\ Holders'
  <2>1. \A j \in Inode : vlock[j] # p
    BY <1>1, FilesAssumption DEF FilesInv, Holders
  <2>2. Place(p)'
    BY <1>1, <1>5, <1>12, UserType DEF Place
  <2>3. \A q \in Proc \ {p} : cwd'[q] = cwd[q] /\ table'[q] = table[q]
    BY <1>5, <1>12
  <2>4. \A j \in Inode : vnode[j].there => vnode'[j].there
    BY <1>10
  <2>5. \A j \in Inode : vlock'[j] = vlock[j] /\ vlock'[j] # p
    BY <1>5, <2>1
  <2> QED
    BY <1>5, <2>2, <2>3, <2>4, <2>5, UserType, PlacesKept DEF FilesInv
<1>14. Typed'
  BY <1>5, <1>9, <1>12, UserType DEF FilesInv, Typed
<1> QED
  BY <1>5, <1>10, <1>11, <1>13, <1>14, NamesKept DEF FilesInv

\* The offset of a descriptor is set, and p is out of the kernel.
LEMMA OffsetInv ==
    ASSUME FilesInv, NEW p \in Proc, op[p].at \in {"user", "transfer"},
           op' = [op EXCEPT ![p] = User],
           NEW x \in Fdesc, NEW n \in Int,
           fdesc' = [fdesc EXCEPT ![x].ofs = n],
           UNCHANGED <<vnode, names, vlock, table, cloexec, cwd>>
    PROVE  FilesInv'
<1> DEFINE e == [fdesc[x] EXCEPT !.ofs = n]
<1>1. fdesc \in [Fdesc -> Descriptor] /\ fdesc[x] \in Descriptor
  BY DEF FilesInv, Typed
<1>2. fdesc' = [fdesc EXCEPT ![x] = e]
  BY <1>1
<1>3. /\ e \in Descriptor /\ e.refcount = fdesc[x].refcount /\ e.v = fdesc[x].v
      /\ e.write = fdesc[x].write
  BY <1>1 DEF Descriptor
<1> HIDE DEF e
<1>4. fdesc' = [y \in Fdesc |-> IF y = x THEN e ELSE fdesc[y]]
  BY <1>1, <1>2
<1>5. fdesc' \in [Fdesc -> Descriptor]
  BY <1>1, <1>3, <1>4
<1>6. \A y \in Fdesc : /\ fdesc'[y].v = fdesc[y].v /\ fdesc'[y].write = fdesc[y].write
                       /\ fdesc'[y].refcount = fdesc[y].refcount
  BY <1>3, <1>4
<1>7. There' /\ VnodesCounted' /\ Writers'
  <2>1. \A j \in Inode : vnode[j].refcount \in Int
    BY DEF FilesInv, Typed, Vnode
  <2> QED
    BY <1>6, <2>1, SameOpen DEF FilesInv, Writers
<1>8. Counted'
  BY <1>6 DEF FilesInv, Counted, References
<1>9. Places' /\ Holders'
  <2>1. op'[p] = User /\ cwd[p] # Null
    <3>1. Place(p)
      BY DEF FilesInv, Places
    <3> QED
      BY <3>1 DEF Place, FilesInv, Typed
  <2>2. Place(p)'
    BY <2>1, UserType DEF Place
  <2>3. \A j \in Inode : vlock'[j] # p
    BY FilesAssumption DEF FilesInv, Holders
  <2> QED
    BY <2>2, <2>3, UserType, PlacesKept DEF FilesInv
<1>10. Typed'
  BY <1>5, UserType DEF FilesInv, Typed
<1> QED
  BY <1>7, <1>8, <1>9, <1>10, NamesKept DEF FilesInv

\* sys_read() or sys_write() copies the offset and begins to transfer.
LEMMA TransferInv ==
    ASSUME FilesInv, NEW p \in Proc, NEW s \in Slot, Transfer(p, s) PROVE FilesInv'
<1>1. PICK x : x = table[p][s]
  OBVIOUS
<1>2. CASE fdesc[x].ofs > Size
  <2>1. UNCHANGED <<cache, vlock, open, cwd, op>>
    BY <1>1, <1>2 DEF Transfer
  <2> QED
    BY <2>1, StutterInv
<1>3. CASE ~(fdesc[x].ofs > Size)
  <2> DEFINE n == fdesc[x].ofs
             e == [op[p] EXCEPT !.at = "transfer", !.slot = s, !.ofs = n]
  <2>1. /\ op[p] = User /\ x # Null
        /\ UNCHANGED <<vnode, names, vlock, fdesc, table, cloexec, cwd>>
    BY <1>1 DEF Transfer, Called, cache, open
  <2>2. op[p] \in Op
    BY DEF FilesInv, Typed
  <2>3. n \in Int /\ s \in Int
    <3>1. x \in Fdesc
      BY <1>1, <2>1, NamedIsOpen DEF FilesInv
    <3> QED
      BY <3>1, FilesAssumption DEF FilesInv, Typed, Descriptor, Slot
  <2>4. op' = [op EXCEPT ![p] = e]
    BY <1>1, <1>3, <2>2 DEF Transfer, FilesInv, Typed
  <2> HIDE DEF n
  <2>5. "transfer" \in Where
    BY DEF Where
  <2>6. e \in Op /\ e.at = "transfer" /\ e.slot = s
    BY <2>2, <2>3, <2>5 DEF Op
  <2> HIDE DEF e
  <2>7. op'[p] = e /\ cwd[p] # Null
    BY <2>1, <2>4, CalledFacts, FilesAssumption DEF FilesInv, Typed
  <2>8. Place(p)'
    BY <1>1, <2>1, <2>6, <2>7 DEF Place
  <2> QED
    BY <2>1, <2>4, <2>6, <2>8, UserType, MoveStep DEF FilesInv, Typed
<1> QED
  BY <1>2, <1>3

\* The copy of the offset, moved on, is written back.
LEMMA TransferredInv == ASSUME FilesInv, NEW p \in Proc, Transferred(p) PROVE FilesInv'
<1>1. PICK x : x = table[p][op[p].slot]
  OBVIOUS
<1>2. Place(p) /\ op[p] \in Op /\ op[p].at = "transfer"
  BY DEF FilesInv, Places, Typed, Transferred
<1>3. x \in Fdesc
  BY <1>1, <1>2, NamedIsOpen DEF FilesInv, Place
<1>4. PICK n \in Int : fdesc' = [fdesc EXCEPT ![x].ofs = n]
  <2>1. op[p].ofs \in Int
    BY <1>2 DEF Op
  <2>2. PICK m \in 0..(Size - op[p].ofs) : fdesc' = [fdesc EXCEPT ![x].ofs = op[p].ofs + m]
    BY <1>1 DEF Transferred
  <2>3. op[p].ofs + m \in Int
    BY <2>1, <2>2, FilesAssumption
  <2> QED
    BY <2>2, <2>3
<1>5. /\ op' = [op EXCEPT ![p] = User]
      /\ UNCHANGED <<vnode, names, vlock, table, cloexec, cwd>>
  BY DEF Transferred, cache
<1> QED
  BY <1>2, <1>3, <1>4, <1>5, OffsetInv

\* sys_lseek() sets the offset.
LEMMA LseekInv ==
    ASSUME FilesInv, NEW p \in Proc, NEW s \in Slot, Lseek(p, s) PROVE FilesInv'
<1>1. PICK x : x = table[p][s]
  OBVIOUS
<1>2. /\ op[p] = User /\ x # Null /\ op' = op
      /\ UNCHANGED <<vnode, names, vlock, table, cloexec, cwd>>
  BY <1>1 DEF Lseek, Called, cache
<1>3. x \in Fdesc
  BY <1>1, <1>2, NamedIsOpen DEF FilesInv
<1>4. PICK n \in {0, Size, Size + 1} : fdesc' = [fdesc EXCEPT ![x].ofs = n]
  BY <1>1 DEF Lseek
<1>6. n \in Int
  BY FilesAssumption
<1>5. op' = [op EXCEPT ![p] = User]
  BY <1>2 DEF FilesInv, Typed
<1> QED
  BY <1>2, <1>3, <1>4, <1>5, <1>6, UserType, OffsetInv

-----------------------------------------------------------------------------
\* Every step of vnode_lookup(), the system calls and proc_exit() keeps FilesInv.
THEOREM FilesStep == FilesInv /\ [Next]_vars => FilesInv'
<1> SUFFICES ASSUME FilesInv, [Next]_vars PROVE FilesInv'
  OBVIOUS
<1>1. CASE UNCHANGED vars
  BY <1>1, StutterInv DEF vars
<1>2. CASE Next
  <2>1. PICK p \in Proc :
          \/ \E l \in Lookups : LookupName(p, l[1], l[2])
          \/ StatFails(p) \/ LookupInode(p) \/ VnodeCreate(p) \/ LockVnode(p)
          \/ Stat(p) \/ Open(p) \/ Chdir(p) \/ ChdirLocked(p) \/ Mount(p) \/ Execve(p)
          \/ \E s \in Slot : Fchdir(p, s) \/ Close(p, s) \/ Fcntl(p, s)
                             \/ Transfer(p, s) \/ Lseek(p, s)
          \/ \E s, t \in Slot : Dup2(p, s, t)
          \/ \E c \in Proc : Fork(p, c)
          \/ Detach(p) \/ DupAfterClose(p) \/ Exit(p) \/ Exited(p) \/ Transferred(p)
    BY <1>2 DEF Next
  <2>2. CASE (\E l \in Lookups : LookupName(p, l[1], l[2])) \/ StatFails(p) \/ LookupInode(p)
             \/ VnodeCreate(p) \/ LockVnode(p)
    BY <2>2, LookupNameInv, StatFailsInv, LookupInodeInv, VnodeCreateInv, LockVnodeInv
  <2>3. CASE Stat(p)
    BY <2>3, RefusedInv DEF Stat, Has
  <2>4. CASE Open(p) \/ Chdir(p) \/ ChdirLocked(p) \/ Mount(p) \/ Execve(p)
    BY <2>4, OpenInv, ChdirInv, ChdirLockedInv, MountInv, ExecveInv
  <2>5. CASE \E s \in Slot : Fchdir(p, s) \/ Close(p, s) \/ Fcntl(p, s)
                             \/ Transfer(p, s) \/ Lseek(p, s)
    BY <2>5, FchdirInv, CloseInv, FcntlInv, TransferInv, LseekInv
  <2>6. CASE (\E s, t \in Slot : Dup2(p, s, t)) \/ (\E c \in Proc : Fork(p, c))
    BY <2>6, Dup2Inv, ForkInv
  <2>7. CASE Detach(p) \/ DupAfterClose(p) \/ Exit(p) \/ Exited(p) \/ Transferred(p)
    BY <2>7, DetachInv, DupAfterCloseInv, ExitInv, ExitedInv, TransferredInv
  <2> QED
    BY <2>1, <2>2, <2>3, <2>4, <2>5, <2>6, <2>7
<1> QED
  BY <1>1, <1>2

\* The invariant gives the counts of descriptors and vnodes.
LEMMA FilesInvCounts == FilesInv => CountsSafe
<1> SUFFICES ASSUME FilesInv PROVE CountsSafe
  OBVIOUS
<1>1. \A i \in Inode : vlock[i] \in Proc \cup {Null}
  BY DEF FilesInv, Typed
<1>2. \A n \in Name : names[n] \in {Null, InodeOf[n]}
  BY DEF FilesInv, Names
<1>3. \A p \in Proc :
          /\ \A s \in Slot : table[p][s] # Null => fdesc[table[p][s]].refcount > 0
          /\ op[p].at \in {"have", "lock_old"} => vlock[op[p].v] = p
          /\ (op[p].at = "unused") = (cwd[p] = Null)
  BY NamedIsOpen DEF FilesInv, Places, Place
<1>4. \A i \in Inode : vnode[i].refcount \in Int /\ vnode[i].write \in Nat
  BY DEF FilesInv, Typed, Vnode
<1>5. \A i \in Inode : vnode[i].refcount >= Cardinality(OpenOn(i)) + Cardinality(In(i))
  BY DEF FilesInv, VnodesCounted
<1>6. \A i \in Inode : vnode[i].refcount \in Nat
  BY <1>4, <1>5, CountsAreNumbers
<1>7. TypeOK
  BY <1>1, <1>2, <1>3, <1>4, <1>6 DEF TypeOK
<1> QED
  BY <1>5, <1>7 DEF CountsSafe, FilesInv, Counted, In

\* The invariant names the two that wait for each other.
LEMMA FilesInvLocks == FilesInv => LocksComeFree
<1> SUFFICES ASSUME FilesInv, NEW p \in Proc, NEW q \in Proc, WaitsFor(p) = q, WaitsFor(q) = p
             PROVE  p # q /\ op[p].at = "lock_old" /\ op[q].at = "lock_old"
  BY DEF LocksComeFree
<1>1. ASSUME NEW a \in Proc, NEW b \in Proc, WaitsFor(a) = b
      PROVE  op[a].at \in {"lock", "lock_old", "detach"} /\ op[b].at \in {"have", "lock_old"}
  <2>1. Place(a) /\ b # Null
    BY FilesAssumption DEF FilesInv, Places
  <2>2. CASE op[a].at = "lock"
    <3>1. op[a].v \in Inode /\ vlock[op[a].v] = b
      BY <1>1, <2>1, <2>2 DEF WaitsFor, Place
    <3> QED
      BY <2>1, <2>2, <3>1 DEF FilesInv, Holders
  <2>3. CASE op[a].at = "lock_old"
    <3>1. cwd[a] \in Inode /\ vlock[cwd[a]] = b
      BY <1>1, <2>3, HaveFacts DEF WaitsFor
    <3> QED
      BY <2>1, <2>3, <3>1 DEF FilesInv, Holders
  <2>4. CASE op[a].at = "detach"
    <3>1. PICK s : s = NextSlot(op[a])
      OBVIOUS
    <3>2. vlock[fdesc[table[a][s]].v] = b
      BY <1>1, <2>1, <2>4, <3>1 DEF WaitsFor
    <3>3. s \in Slot /\ table[a][s] # Null
      <4>1. op[a] \in Op /\ op[a].todo # {}
        BY <2>1, <2>4 DEF FilesInv, Typed, Place
      <4>2. s \in op[a].todo /\ op[a].todo \in SUBSET Slot
        BY <3>1, <4>1, NextSlotIsLeft DEF Op
      <4> QED
        BY <2>1, <2>4, <4>2 DEF Place
    <3>4. fdesc[table[a][s]].v \in Inode
      BY <3>3, NamedIsOpen DEF FilesInv, There
    <3> QED
      BY <2>1, <2>4, <3>2, <3>4 DEF FilesInv, Holders
  <2>5. CASE op[a].at \notin {"lock", "lock_old", "detach"}
    BY <1>1, <2>1, <2>5 DEF WaitsFor
  <2> QED
    BY <2>2, <2>3, <2>4, <2>5
<1>2. op[p].at = "lock_old" /\ op[q].at = "lock_old"
  BY <1>1
<1>3. p # q
  <2>1. SUFFICES ASSUME p = q PROVE FALSE
    OBVIOUS
  <2>2. vlock[cwd[p]] = p
    BY <1>2, <2>1 DEF WaitsFor
  <2>3. cwd[p] = op[p].v
    BY <1>2, <2>2, HaveFacts
  <2> QED
    BY <1>2, <2>3, HaveFacts DEF Place
<1> QED
  BY <1>2, <1>3

\* A descriptor counts the slots that name it, and a vnode at least its
\* descriptors and the processes in it, in every state.
THEOREM CountsAlwaysSafe == Spec => []CountsSafe
BY FilesInit, FilesStep, FilesInvCounts, PTL DEF Spec

\* No descriptor can write to a file that was executed, in any state.
THEOREM ProgramsNeverWritten == Spec => []NobodyWritesProgram
<1>1. FilesInv => NobodyWritesProgram
  <2>1. SUFFICES ASSUME FilesInv, NEW x \in Fdesc, fdesc[x].refcount > 0, fdesc[x].write
                 PROVE  vnode[fdesc[x].v].exec = 0
    BY DEF NobodyWritesProgram
  <2>2. fdesc[x].v \in Inode
    BY <2>1 DEF FilesInv, There
  <2>3. vnode[fdesc[x].v].write > 0
    BY <2>1 DEF FilesInv, Writers
  <2> QED
    BY <2>1, <2>2, <2>3 DEF FilesInv, Writers
<1> QED
  BY <1>1, FilesInit, FilesStep, PTL DEF Spec

\* Nobody waits with a vnode locked, but for chdir() at the old directory.
THEOREM LocksAlwaysComeFree == Spec => []LocksComeFree
BY FilesInit, FilesStep, FilesInvLocks, PTL DEF Spec

=============================================================================
