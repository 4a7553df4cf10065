----------------------------- MODULE BootProofs -----------------------------
(***************************************************************************)
(* Proofs about the boot and its registries (Boot.tla, Registry.tla): no   *)
(* two ranges of ports meet, names and device numbers tell things apart,   *)
(* what is held is held by a registered module, and no init takes away     *)
(* what another one holds; for all machines that meet the assumptions of   *)
(* Boot.                                                                   *)
(*                                                                         *)
(* The inductive invariant says what the init that runs has still to claim *)
(* and how what it made so far is reflected in the registries: what it     *)
(* holds is among the claims it remembers, so that backing out finds it,   *)
(* and the bases it asked for are nobody else's.                           *)
(***************************************************************************)
EXTENDS Boot, FiniteSetTheorems, SequenceTheorems, TLAPS

Ops == {"found", "ports", "irq", "dma", "memory", "check", "drop", "device",
        "partition", "emulation", "filesystem"}
Musts == {"now", "later", "never"}
Texts == {"ttyC", "console", "wd", "fd", "null", "tty", "openbsd_aout", "devfs", "ffs",
          "procfs"}

\* Where a claim is for: a number, the name of a device, or of a format.
Places == Nat \union Seq(Texts) \union Texts
            \union (Texts \X Nat) \union (Texts \X Nat \X Nat)

RangeSet == [base : Nat, n : Nat \ {0}, owner : Nat]
DeviceSet == [name : Places, vfs_dev : Nat, owner : Nat]
ClaimSet == [op : Ops, at : Places, n : Nat, must : Musts]
MadeSet == [claim : ClaimSet, ok : BOOLEAN]

Ids == 0..born - 1

Types ==
  /\ init \in 1..BootEnds
  /\ mine \in Ids \union {NoOwner}
  /\ mine # NoOwner => init < Mounting /\ mine \in DOMAIN modules
  /\ todo \in Seq(ClaimSet) /\ made \in Seq(MadeSet)
  /\ ranges \in Seq(RangeSet) /\ devices \in Seq(DeviceSet)
  /\ irqs \in [Irqs -> Ids \union {NoOwner}]
  /\ dmas \in [DmaChannels -> Ids \union {NoOwner}]
  /\ born \in Nat /\ IsFiniteSet(DOMAIN modules) /\ DOMAIN modules \subseteq Ids

-----------------------------------------------------------------------------
\* The bases the n-th init asks for, and those that inits before it hold; only
\* those up to isapnp matter.
AskedBy(n) ==
  CASE n < 4 -> {}
    [] n = 4 -> {0, 128, 192}
    [] n = 5 -> {96, 100, 944, 976}
    [] n \in {6, 7} -> ComPorts
    [] n = 8 -> (ReadPorts \ {0}) \union {633, 2681}
    [] OTHER -> Nat

HeldBefore(n) ==
  CASE n <= 4 -> {}
    [] n = 5 -> {0, 128, 192}
    [] n \in 6..8 -> {0, 128, 192, 96, 100, 944, 976} \union ComPorts
    [] OTHER -> Nat

\* pccom runs at these two places; the line of each is claimed by it alone.
Coms == {6, 7}

ClaimFits(n, c) ==
  /\ c.op = "ports" => c.at \in AskedBy(n) /\ c.n # 0
  /\ c.op = "irq" /\ n < 6 => c.at = 1
  /\ c.op = "irq" /\ n \in Coms => c.at = 10 - n
  /\ c.op = "dma" => c.at \in DmaChannels
  /\ c.op = "drop" => c.at \in Nat
  /\ n \in Coms => c.op \in {"ports", "irq"}

\* Devices and channels are never given back, so they come when nothing that
\* ends the init can be refused any more.
IsLate(c) == c.op \in {"dma", "device", "partition"}
IsSafe(n, c) == c.op \in {"device", "partition"} /\ (Inits[n] # "wdc" => c.must = "never")

ClaimsFit(n, t) ==
  /\ \A i \in DOMAIN t : ClaimFits(n, t[i])
  /\ \A i, j \in DOMAIN t :
       i < j =>
         /\ IsLate(t[i]) => IsSafe(n, t[j])
         /\ t[i].op = "drop" /\ t[j].op = "drop" => t[i].at # t[j].at
         /\ n \in Coms => t[i].op = "ports" /\ t[j].op = "irq"

\* Claims made and to be made: a range that will be dropped is claimed first.
MetPorts(m, at) ==
  \E k \in DOMAIN m : m[k].claim.op = "ports" /\ m[k].claim.at = at /\ m[k].ok

DropsFollow(t, m) ==
  \A j \in DOMAIN t :
    t[j].op = "drop" =>
      \/ MetPorts(m, t[j].at)
      \/ \E i \in DOMAIN t : /\ i < j /\ t[i].op = "ports" /\ t[i].at = t[j].at
                             /\ t[i].must = "now"

Going ==
  mine # NoOwner =>
    /\ ClaimsFit(init, todo)
    /\ DropsFollow(todo, made)
    /\ init \in Coms /\ todo # <<>> /\ Head(todo).op = "ports" => made = <<>>
    /\ \A k \in DOMAIN made : ClaimFits(init, made[k].claim)

-----------------------------------------------------------------------------
\* What the init that runs holds is what its claims that were met say.
HeldPorts ==
  /\ \A i \in DOMAIN ranges : ranges[i].owner = mine => MetPorts(made, ranges[i].base)
  /\ \A k \in DOMAIN made :
       made[k].claim.op = "ports" /\ made[k].ok =>
         \E i \in DOMAIN ranges : ranges[i].owner = mine /\ ranges[i].base = made[k].claim.at

HeldIrqs ==
  /\ \A i \in Irqs :
       irqs[i] = mine =>
         \E k \in DOMAIN made : /\ made[k].claim.op = "irq" /\ made[k].claim.at = i
                                /\ made[k].ok
  /\ \A k \in DOMAIN made :
       made[k].claim.op = "irq" /\ made[k].ok =>
         made[k].claim.at \in Irqs /\ irqs[made[k].claim.at] = mine

HeldForGood ==
  (\E i \in DOMAIN devices : devices[i].owner = mine) \/ (\E c \in DmaChannels : dmas[c] = mine)
    => \A j \in DOMAIN todo : IsSafe(init, todo[j])

Held == mine # NoOwner => HeldPorts /\ HeldIrqs /\ HeldForGood

OldBases == \A i \in DOMAIN ranges : ranges[i].owner # mine => ranges[i].base \in HeldBefore(init)

ComIrqs ==
  \A n \in Coms : irqs[10 - n] # NoOwner =>
                    n < init \/ (n = init /\ mine # NoOwner /\ todo = <<>>)

-----------------------------------------------------------------------------
DevicesApart ==
  \A i, j \in DOMAIN devices :
    i < j => devices[i].vfs_dev > devices[j].vfs_dev /\ devices[i].name # devices[j].name

ModulesApart ==
  \A m, k \in DOMAIN modules :
    modules[m].name = modules[k].name /\ modules[m].nr = modules[k].nr => m = k

\* Names without a number are those of the boot itself and of inits that began.
ModulesTyped ==
  \A m \in DOMAIN modules :
    /\ modules[m].nr \in Nat \union {Unnumbered}
    /\ modules[m].nr = Unnumbered =>
         \/ modules[m].name \in {"root", "virtual", "emul", "vfs"}
         \/ \E i \in DOMAIN Inits : /\ modules[m].name = Inits[i]
                                    /\ i < init \/ (i = init /\ mine # NoOwner)

Names == DevicesApart /\ ModulesApart /\ ModulesTyped

BootInv ==
  /\ Types /\ Going /\ Held /\ OldBases /\ ComIrqs
  /\ PortsDisjoint /\ OwnersRegistered /\ Names

-----------------------------------------------------------------------------
\* g is what N steps make of x.
Steps(N, S) == [(1..N) \X S -> S]
Iterates(g, x, N, step) == g[0] = x /\ \A n \in 1..N : g[n] = step[<<n, g[n - 1]>>]

\* Every set of naturals that is not empty has a least element.
LEMMA LeastNatural ==
    ASSUME NEW T \in SUBSET Nat, T # {}
    PROVE  \E m \in T : \A n \in T : m <= n
<1> DEFINE F == {S \in FiniteSubsetsOf(Nat) : \E m \in T : S = 0..m}
<1>1. IsWellFoundedOn(StrictSubsetOrdering(Nat), FiniteSubsetsOf(Nat))
  BY FS_StrictSubsetOrderingWellFounded
<1>2. \A m \in T : 0..m \in FiniteSubsetsOf(Nat)
  BY FS_Interval DEF FiniteSubsetsOf
<1>3. F # {} /\ F \subseteq FiniteSubsetsOf(Nat)
  BY <1>2
<1>4. PICK S \in F : \A U \in F : <<U, S>> \notin StrictSubsetOrdering(Nat)
  BY <1>1, <1>3, WFMin
<1>5. PICK m \in T : S = 0..m
  BY <1>4
<1>6. ASSUME NEW n \in T, n < m
      PROVE  FALSE
  <2>1. 0..n \in F
    BY <1>2
  <2>2. 0..n \subseteq 0..m /\ 0..n # 0..m /\ 0..n \subseteq Nat /\ 0..m \subseteq Nat
    <3>1. m \in 0..m /\ m \notin 0..n
      BY <1>6
    <3> QED
      BY <1>6, <3>1
  <2>3. <<0..n, 0..m>> \in StrictSubsetOrdering(Nat)
    BY <2>2 DEF StrictSubsetOrdering
  <2> QED
    BY <1>4, <1>5, <2>1, <2>3
<1> QED
  BY <1>6

\* A function of the naturals up to N may be defined step by step.
LEMMA Iterate ==
    ASSUME NEW S, NEW x \in S, NEW N \in Nat, NEW step \in Steps(N, S)
    PROVE  \E g \in [0..N -> S] : Iterates(g, x, N, step)
<1> USE DEF Iterates
<1> DEFINE Upto(n, g) == Iterates(g, x, n, step)
           bad == {n \in 0..N : ~ \E g \in [0..n -> S] : Upto(n, g)}
<1>1. step \in [(1..N) \X S -> S]
  BY DEF Steps
<1>2. SUFFICES bad = {}
  <2>1. N \in 0..N
    OBVIOUS
  <2> QED
    BY <2>1, <1>2
<1>3. SUFFICES ASSUME bad # {} PROVE FALSE
  OBVIOUS
<1>4. bad \in SUBSET Nat
  OBVIOUS
<1> HIDE DEF bad
<1>5. PICK m \in bad : \A n \in bad : m <= n
  BY <1>3, <1>4, LeastNatural
<1> USE DEF bad
<1>6. CASE m = 0
  <2> DEFINE g == [i \in 0..0 |-> x]
  <2>1. g \in [0..0 -> S] /\ Upto(0, g)
    OBVIOUS
  <2> QED
    BY <1>5, <1>6, <2>1
<1>7. CASE m # 0
  <2>1. m - 1 \in 0..N /\ m \in 1..N /\ m - 1 \notin bad
    BY <1>5, <1>7
  <2>2. PICK g \in [0..(m - 1) -> S] : Upto(m - 1, g)
    BY <2>1
  <2> DEFINE y == step[<<m, g[m - 1]>>]
             h == [i \in 0..m |-> IF i = m THEN y ELSE g[i]]
  <2>3. g[m - 1] \in S /\ y \in S
    BY <1>1, <2>1, <2>2
  <2>4. h \in [0..m -> S]
    BY <2>1, <2>2, <2>3
  <2>5. \A i \in 0..(m - 1) : h[i] = g[i]
    BY <2>1
  <2>6. h[m] = step[<<m, h[m - 1]>>]
    <3>1. m \in 0..m /\ m - 1 \in 0..(m - 1)
      BY <2>1
    <3>2. h[m] = y
      BY <3>1
    <3>3. h[m - 1] = g[m - 1]
      BY <2>5, <3>1
    <3> QED
      BY <3>2, <3>3
  <2>7. \A i \in 1..(m - 1) : i \in 0..(m - 1) /\ i - 1 \in 0..(m - 1)
    BY <2>1
  <2>8. \A i \in 1..(m - 1) : h[i] = step[<<i, h[i - 1]>>]
    BY <2>2, <2>5, <2>7
  <2>9. h[0] = x
    BY <2>1, <2>2, <2>5
  <2> HIDE DEF h
  <2>10. \A i \in 1..m : i = m \/ i \in 1..(m - 1)
    BY <2>1
  <2>11. Upto(m, h)
    BY <2>6, <2>8, <2>9, <2>10
  <2> QED
    BY <1>5, <2>4, <2>11
<1> QED
  BY <1>6, <1>7

\* What holds at 0 and of the next number, if of one, holds up to N.
LEMMA Climb ==
    ASSUME NEW N \in Nat, NEW T \in SUBSET Nat, 0 \in T,
           \A n \in 0..(N - 1) : n \in T => n + 1 \in T
    PROVE  \A n \in 0..N : n \in T
<1> DEFINE bad == {n \in 0..N : n \notin T}
<1>1. SUFFICES ASSUME bad # {} PROVE FALSE
  OBVIOUS
<1>2. bad \in SUBSET Nat
  OBVIOUS
<1>3. PICK m \in bad : \A n \in bad : m <= n
  <2> HIDE DEF bad
  <2> QED
    BY <1>1, <1>2, LeastNatural
<1>4. m # 0 /\ m - 1 \in 0..(N - 1) /\ m - 1 \notin bad
  BY <1>3
<1> QED
  BY <1>3, <1>4

-----------------------------------------------------------------------------
\* The partition table: every letter given is a number.
Sofar == [given : Seq(Nat), next : Nat, found : BOOLEAN]
Entry == [typ : STRING, used : Seq(Nat)]

LEMMA EnterTyped == ASSUME NEW a \in Sofar, NEW e \in Entry PROVE Enter(a, e) \in Sofar
<1> DEFINE Give(l, n) ==
             [a EXCEPT !.given = @ \o l, !.next = @ + n, !.found = @ \/ e.typ = "label"]
<1>1. ASSUME NEW l \in Seq(Nat), NEW n \in Nat PROVE Give(l, n) \in Sofar
  <2>1. a.given \o l \in Seq(Nat) /\ a.next + n \in Nat
    BY DEF Sofar
  <2>2. (a.found \/ e.typ = "label") \in BOOLEAN
    OBVIOUS
  <2> QED
    BY <2>1, <2>2 DEF Sofar
<1>2. \A n \in Nat : [j \in 1..n |-> a.next + j - 1] \in Seq(Nat)
  <2>1. ASSUME NEW n \in Nat PROVE [j \in 1..n |-> a.next + j - 1] \in [1..n -> Nat]
    BY DEF Sofar
  <2> QED
    BY <2>1
<1>3. e.used \in Seq(Nat) /\ Len(e.used) \in Nat
  BY DEF Entry
<1>4. CASE e.typ = "label" /\ ~a.found
  <2>1. Enter(a, e) = Give(e.used, 0)
    BY <1>4 DEF Enter
  <2> HIDE DEF Give
  <2> QED
    BY <1>1, <1>3, <2>1
<1>5. CASE e.typ = "label" /\ a.found
  <2>1. Enter(a, e) = Give([j \in 1..Len(e.used) |-> a.next + j - 1], Len(e.used))
    BY <1>5 DEF Enter
  <2> HIDE DEF Give
  <2> QED
    BY <1>1, <1>2, <1>3, <2>1
<1>6. CASE e.typ = "dos"
  <2>1. Enter(a, e) = Give([j \in 1..1 |-> a.next + j - 1], 1)
    BY <1>6 DEF Enter
  <2>2. [j \in 1..1 |-> a.next + j - 1] \in Seq(Nat)
    BY <1>2
  <2> HIDE DEF Give
  <2> QED
    BY <1>1, <2>1, <2>2
<1>7. CASE e.typ \notin {"label", "dos"}
  BY <1>7 DEF Enter
<1> QED
  BY <1>4, <1>5, <1>6, <1>7

LEMMA LettersTyped == ASSUME NEW t \in Seq(Entry) PROVE Letters(t) \in Seq(Nat)
<1> DEFINE none  == [given |-> <<>>, next |-> 8, found |-> FALSE]
           N     == Len(t)
           step  == [x \in (1..N) \X Sofar |-> Enter(x[2], t[x[1]])]
           Is(f) == f = [k \in 0..N |-> IF k = 0 THEN none ELSE Enter(f[k - 1], t[k])]
<1>1. none \in Sofar /\ N \in Nat
  BY DEF Sofar
<1>2. \A k \in 1..N : t[k] \in Entry
  OBVIOUS
<1>3. step \in Steps(N, Sofar)
  BY <1>2, EnterTyped DEF Steps
<1>4. PICK g \in [0..N -> Sofar] : Iterates(g, none, N, step)
  <2> HIDE DEF none, N, step
  <2> QED
    BY <1>1, <1>3, Iterate
<1>5. \A k \in 1..N : k - 1 \in 0..N /\ g[k - 1] \in Sofar /\ g[k] = Enter(g[k - 1], t[k])
  <2> SUFFICES ASSUME NEW k \in 1..N
               PROVE  k - 1 \in 0..N /\ g[k - 1] \in Sofar /\ g[k] = Enter(g[k - 1], t[k])
    OBVIOUS
  <2>1. k - 1 \in 0..N /\ g[k - 1] \in Sofar
    <3> HIDE DEF N
    <3>1. k - 1 \in 0..N
      BY <1>1
    <3> QED
      BY <1>4, <3>1
  <2>2. g[k] = step[<<k, g[k - 1]>>]
    BY <1>4 DEF Iterates
  <2> QED
    BY <2>1, <2>2
<1>6. Is(g)
  <2>1. g[0] = none
    BY <1>4 DEF Iterates
  <2>2. \A k \in 0..N : g[k] = IF k = 0 THEN none ELSE Enter(g[k - 1], t[k])
    BY <1>5, <2>1
  <2> HIDE DEF none
  <2> QED
    BY <1>4, <2>2
<1> DEFINE f == CHOOSE h : Is(h)
<1>7. Is(f)
  <2> HIDE DEF Is
  <2> QED
    BY <1>6
<1>8. f[0] = none /\ \A k \in 1..N : f[k] = Enter(f[k - 1], t[k])
  <2> HIDE DEF f, none
  <2> QED
    BY <1>1, <1>7
<1> HIDE DEF f, none, Is
<1> DEFINE T == {k \in 0..N : f[k] \in Sofar}
<1>9. \A k \in 0..N : k \in T
  <2>1. 0 \in T
    BY <1>1, <1>8
  <2>2. \A k \in 0..(N - 1) : k \in T => k + 1 \in T
    <3> SUFFICES ASSUME NEW k \in 0..(N - 1), k \in T PROVE k + 1 \in T
      OBVIOUS
    <3>1. k + 1 \in 1..N /\ (k + 1) - 1 = k
      BY <1>1
    <3>2. f[k + 1] = Enter(f[k], t[k + 1])
      BY <1>8, <3>1
    <3> QED
      BY <1>2, <3>1, <3>2, EnterTyped
  <2>3. T \in SUBSET Nat
    OBVIOUS
  <2> HIDE DEF T
  <2> QED
    BY <1>1, <2>1, <2>2, <2>3, Climb
<1>10. f[N] \in Sofar
  BY <1>1, <1>9
<1>11. Letters(t) = f[N].given
  BY DEF Letters, f, Is, none
<1> QED
  BY <1>10, <1>11 DEF Sofar

-----------------------------------------------------------------------------
\* What the inits ask for: every list of claims is in the order Going expects.
LEMMA InitsAre ==
  /\ DOMAIN Inits = 1..19 /\ Len(Inits) = 19 /\ Mounting = 20 /\ BootEnds = 24
  /\ Inits[1] = "net" /\ Inits[2] = "net_if" /\ Inits[3] = "isa" /\ Inits[4] = "isadma"
  /\ Inits[5] = "pccon" /\ Inits[6] = "pccom" /\ Inits[7] = "pccom" /\ Inits[8] = "isapnp"
  /\ Inits[9] = "ep" /\ Inits[10] = "ep" /\ Inits[11] = "pcppi" /\ Inits[12] = "wdc"
  /\ Inits[13] = "fdc" /\ Inits[14] = "null" /\ Inits[15] = "tty"
  /\ Inits[16] = "openbsd_aout" /\ Inits[17] = "devfs" /\ Inits[18] = "ffs"
  /\ Inits[19] = "procfs"
BY DEF Inits, Mounting, BootEnds, Mounts

LEMMA PlacesHold ==
  /\ Nat \subseteq Places /\ Texts \subseteq Places
  /\ \A s \in Texts : <<s>> \in Places
  /\ \A s \in Texts, i \in Nat : <<s, i>> \in Places
  /\ \A s \in Texts, i, j \in Nat : <<s, i, j>> \in Places
<1>1. ASSUME NEW S, NEW s \in S PROVE <<s>> \in Seq(S)
  OBVIOUS
<1>2. \A s \in Texts : <<s>> \in Seq(Texts)
  BY <1>1
<1> QED
  BY <1>2 DEF Places

LEMMA ClaimTyped ==
  ASSUME NEW op \in Ops, NEW at \in Places, NEW n \in Nat, NEW must \in Musts
  PROVE  Claim(op, at, n, must) \in ClaimSet
BY DEF Claim, ClaimSet

LEMMA NumberClaim ==
  ASSUME NEW op \in Ops, NEW at \in Nat, NEW n \in Nat, NEW must \in Musts
  PROVE  Claim(op, at, n, must) \in ClaimSet
<1>1. at \in Places
  BY DEF Places
<1> QED
  BY <1>1, ClaimTyped

LEMMA NumberClaims ==
  /\ Check \in ClaimSet
  /\ Claim("found", 0, 0, "now") \in ClaimSet /\ Claim("found", 1, 0, "now") \in ClaimSet
<1>1. Claim("check", 0, 0, "now") \in ClaimSet
  BY NumberClaim DEF Ops, Musts
<1>2. Claim("found", 0, 0, "now") \in ClaimSet
  BY NumberClaim DEF Ops, Musts
<1>3. Claim("found", 1, 0, "now") \in ClaimSet
  BY NumberClaim DEF Ops, Musts
<1> QED
  BY <1>1, <1>2, <1>3 DEF Check

\* A list that asks for nothing that stays, followed by one that drops nothing.
Early(t) == \A i \in DOMAIN t : ~IsLate(t[i])
Lasting(n, t) == \A j \in DOMAIN t : IsSafe(n, t[j])

StartsWell(n, t) == t \in Seq(ClaimSet) /\ ClaimsFit(n, t) /\ DropsFollow(t, <<>>)

LEMMA LastingDropsNothing ==
  ASSUME NEW n, NEW t, Lasting(n, t)
  PROVE  DropsFollow(t, <<>>) /\ \A j \in DOMAIN t : t[j].op \notin {"drop", "ports", "irq", "dma"}
BY DEF Lasting, IsSafe, DropsFollow

LEMMA LastingFits ==
  ASSUME NEW n, n \notin Coms, NEW t \in Seq(ClaimSet), Lasting(n, t)
  PROVE  StartsWell(n, t)
<1>1. \A j \in DOMAIN t : t[j].op \notin {"drop", "ports", "irq", "dma"}
  BY LastingDropsNothing
<1>2. ClaimsFit(n, t)
  BY <1>1 DEF Lasting, ClaimsFit, ClaimFits
<1> QED
  BY <1>2, LastingDropsNothing DEF StartsWell

LEMMA ThenLasting ==
  ASSUME NEW n, n \notin Coms, NEW s, StartsWell(n, s), NEW t \in Seq(ClaimSet), Lasting(n, t)
  PROVE  StartsWell(n, s \o t)
<1> DEFINE u == s \o t
<1>1. s \in Seq(ClaimSet) /\ ClaimsFit(n, s) /\ DropsFollow(s, <<>>)
  BY DEF StartsWell
<1>2. u \in Seq(ClaimSet) /\ Len(u) = Len(s) + Len(t)
  BY <1>1
<1>3. /\ \A i \in DOMAIN u : (i \in DOMAIN s /\ u[i] = s[i])
           \/ (i > Len(s) /\ i - Len(s) \in DOMAIN t /\ u[i] = t[i - Len(s)])
      /\ \A i \in DOMAIN s : i \in DOMAIN u /\ u[i] = s[i]
      /\ \A i \in DOMAIN s : i <= Len(s) /\ i \in Nat
  BY <1>1, <1>2
<1>4. \A j \in DOMAIN t : t[j].op \notin {"drop", "ports", "irq", "dma"}
  BY LastingDropsNothing
<1> HIDE DEF u
<1>5. \A i \in DOMAIN u : ClaimFits(n, u[i])
  BY <1>1, <1>3, <1>4 DEF ClaimsFit, ClaimFits
<1>6. ASSUME NEW i \in DOMAIN u, NEW j \in DOMAIN u, i < j
      PROVE  /\ IsLate(u[i]) => IsSafe(n, u[j])
             /\ u[i].op = "drop" /\ u[j].op = "drop" => u[i].at # u[j].at
  <2>1. i \in Nat /\ j \in Nat /\ Len(s) \in Nat
    BY <1>1, <1>2
  <2>2. CASE j \in DOMAIN s /\ u[j] = s[j]
    <3>1. i \in DOMAIN s /\ u[i] = s[i]
      BY <1>3, <1>6, <2>1, <2>2
    <3> QED
      BY <1>1, <1>6, <2>2, <3>1 DEF ClaimsFit
  <2>3. CASE j > Len(s) /\ j - Len(s) \in DOMAIN t /\ u[j] = t[j - Len(s)]
    BY <1>4, <2>3 DEF Lasting
  <2> QED
    BY <1>3, <2>2, <2>3
<1>7. ClaimsFit(n, u)
  BY <1>5, <1>6 DEF ClaimsFit
<1>8. DropsFollow(u, <<>>)
  BY <1>1, <1>3, <1>4 DEF DropsFollow, MetPorts
<1> QED
  BY <1>2, <1>7, <1>8 DEF StartsWell, u

LEMMA ComPortsTyped ==
  /\ \A p \in ComPorts : p \in Nat /\ p % 8 = 0
  /\ \A p \in ReadPorts : p # 0 => p \in Nat /\ p % 4 = 3
  /\ \A p \in EpPorts \union FdcPorts : p \in Nat
  /\ \A c \in CrtcPorts : c = <<944, 12>> \/ c = <<976, 16>>
BY PortsAssumption

LEMMA NothingStarts == ASSUME NEW n PROVE StartsWell(n, <<>>)
BY DEF StartsWell, ClaimsFit, DropsFollow

LEMMA IsadmaStarts == ASSUME NEW c \in IsadmaClaims PROVE StartsWell(4, c)
<1>1. c = <<Claim("ports", 0, 16, "later"), Claim("ports", 128, 16, "later"),
            Claim("ports", 192, 32, "later"), Check>>
  BY DEF IsadmaClaims
<1>2. \A i \in 1..4 : c[i] \in ClaimSet
  <2>1. c[1] \in ClaimSet /\ c[2] \in ClaimSet /\ c[3] \in ClaimSet
    BY <1>1, NumberClaim DEF Ops, Musts
  <2>2. c[4] \in ClaimSet
    BY <1>1, NumberClaims
  <2> QED
    BY <2>1, <2>2
<1>3. c \in Seq(ClaimSet) /\ DOMAIN c = 1..4
  BY <1>1, <1>2
<1>4. /\ \A i \in DOMAIN c : c[i].op \in {"ports", "check"}
      /\ \A i \in DOMAIN c : c[i].op = "ports" => c[i].at \in {0, 128, 192} /\ c[i].n # 0
  BY <1>1, <1>3 DEF Claim, Check
<1> QED
  BY <1>3, <1>4 DEF StartsWell, ClaimsFit, ClaimFits, DropsFollow, IsLate, AskedBy, Coms

LEMMA PccomStarts ==
  ASSUME init \in Coms, NEW c \in PccomClaims PROVE StartsWell(init, c)
<1>1. PICK p \in ComPorts \ {0} :
        c = <<Claim("ports", p, 8, "now"), Claim("irq", 4 - ComNr, 1, "now")>>
  BY DEF PccomClaims
<1>2. p \in Nat /\ 4 - ComNr = 10 - init /\ 4 - ComNr \in Nat
  BY ComPortsTyped DEF ComNr, Coms
<1>3. \A i \in 1..2 : c[i] \in ClaimSet
  <2>1. c[1] \in ClaimSet /\ c[2] \in ClaimSet
    BY <1>1, <1>2, NumberClaim DEF Ops, Musts
  <2> QED
    BY <2>1
<1>4. c \in Seq(ClaimSet) /\ DOMAIN c = 1..2
  BY <1>1, <1>3
<1>5. /\ c[1].op = "ports" /\ c[1].at = p /\ c[1].n = 8
      /\ c[2].op = "irq" /\ c[2].at = 10 - init
  BY <1>1, <1>2 DEF Claim
<1>6. \A i \in DOMAIN c : i = 1 \/ i = 2
  BY <1>4
<1>7. p \in AskedBy(init)
  BY DEF AskedBy, Coms
<1>8. \A i \in DOMAIN c : ClaimFits(init, c[i])
  BY <1>5, <1>6, <1>7 DEF ClaimFits, Coms
<1>9. \A i, j \in DOMAIN c : i < j => i = 1 /\ j = 2
  BY <1>4
<1> QED
  BY <1>4, <1>5, <1>6, <1>8, <1>9 DEF StartsWell, ClaimsFit, DropsFollow, IsLate

LEMMA PnpStarts == ASSUME NEW c \in PnpClaims PROVE StartsWell(8, c)
<1> DEFINE no  == Claim("found", 0, 0, "now")
           yes == Claim("found", 1, 0, "now")
<1>1. PICK p \in ReadPorts :
        c = IF p = 0 THEN <<no>>
            ELSE <<yes, Claim("ports", p, 1, "later"), Claim("ports", 633, 1, "later"),
                   Claim("ports", 2681, 1, "later"), Check>>
  BY DEF PnpClaims, Found
<1>2. no \in ClaimSet /\ yes \in ClaimSet
  BY NumberClaims
<1>3. CASE p = 0
  <2>1. c = <<no>>
    BY <1>1, <1>3
  <2>2. c \in Seq(ClaimSet) /\ DOMAIN c = 1..1
    BY <1>2, <2>1
  <2>3. \A i \in DOMAIN c : c[i].op = "found"
    BY <2>1, <2>2 DEF Claim
  <2> QED
    BY <2>2, <2>3 DEF StartsWell, ClaimsFit, ClaimFits, DropsFollow, IsLate, Coms
<1>4. CASE p # 0
  <2>1. c = <<yes, Claim("ports", p, 1, "later"), Claim("ports", 633, 1, "later"),
              Claim("ports", 2681, 1, "later"), Check>>
    BY <1>1, <1>4
  <2>2. p \in Nat
    BY <1>4, ComPortsTyped
  <2>3. \A i \in 1..5 : c[i] \in ClaimSet
    <3>1. c[1] \in ClaimSet /\ c[5] \in ClaimSet
      BY <1>2, <2>1, NumberClaims
    <3>2. c[2] \in ClaimSet /\ c[3] \in ClaimSet /\ c[4] \in ClaimSet
      BY <2>1, <2>2, NumberClaim DEF Ops, Musts
    <3> QED
      BY <3>1, <3>2
  <2>4. c \in Seq(ClaimSet) /\ DOMAIN c = 1..5
    BY <2>1, <2>3
  <2>5. /\ \A i \in DOMAIN c : c[i].op \in {"found", "ports", "check"}
        /\ \A i \in DOMAIN c : c[i].op = "ports" => c[i].at \in {p, 633, 2681} /\ c[i].n # 0
    BY <2>1, <2>4 DEF Claim, Check
  <2>6. {p, 633, 2681} \subseteq AskedBy(8)
    BY <1>4 DEF AskedBy
  <2> QED
    BY <2>4, <2>5, <2>6 DEF StartsWell, ClaimsFit, ClaimFits, DropsFollow, IsLate, Coms
<1> QED
  BY <1>3, <1>4

LEMMA EpStarts == ASSUME NEW n \in {9, 10}, NEW c \in EpClaims PROVE StartsWell(n, c)
<1>1. PICK p \in EpPorts :
        c = <<Claim("ports", p, 16, "never"), Claim("irq", 10, 1, "never")>>
  BY DEF EpClaims
<1>2. \A i \in 1..2 : c[i] \in ClaimSet
  <2>1. c[1] \in ClaimSet /\ c[2] \in ClaimSet
    BY <1>1, ComPortsTyped, NumberClaim DEF Ops, Musts
  <2> QED
    BY <2>1
<1>3. c \in Seq(ClaimSet) /\ DOMAIN c = 1..2
  BY <1>1, <1>2
<1>4. /\ \A i \in DOMAIN c : c[i].op \in {"ports", "irq"}
      /\ \A i \in DOMAIN c : c[i].op = "ports" => c[i].at = p /\ c[i].n # 0
  BY <1>1, <1>3 DEF Claim
<1>5. p \in AskedBy(n)
  BY ComPortsTyped DEF AskedBy
<1> QED
  BY <1>3, <1>4, <1>5 DEF StartsWell, ClaimsFit, ClaimFits, DropsFollow, IsLate, Coms

LEMMA PcppiStarts == ASSUME NEW c \in PcppiClaims PROVE StartsWell(11, c)
<1>1. c = <<Claim("ports", 97, 1, "now")>>
  BY DEF PcppiClaims
<1>2. c[1] \in ClaimSet
  BY <1>1, NumberClaim DEF Ops, Musts
<1>3. c \in Seq(ClaimSet) /\ DOMAIN c = 1..1
  BY <1>1, <1>2
<1>4. \A i \in DOMAIN c : c[i].op = "ports" /\ c[i].at = 97 /\ c[i].n # 0
  BY <1>1, <1>3 DEF Claim
<1>5. 97 \in AskedBy(11)
  BY DEF AskedBy
<1> QED
  BY <1>3, <1>4, <1>5 DEF StartsWell, ClaimsFit, ClaimFits, DropsFollow, IsLate, Coms

\* A list in which only the last claims are for things that stay.
LEMMA OneSafe ==
  ASSUME NEW n, NEW c \in ClaimSet, IsSafe(n, c)
  PROVE  <<c>> \in Seq(ClaimSet) /\ Lasting(n, <<c>>)
BY DEF Lasting

LEMMA DeviceSafe ==
  ASSUME NEW n, NEW at \in Places, NEW k \in Nat, NEW must \in Musts,
         Inits[n] = "wdc" \/ must = "never"
  PROVE  Claim("device", at, k, must) \in ClaimSet /\ IsSafe(n, Claim("device", at, k, must))
<1>1. Claim("device", at, k, must) \in ClaimSet
  BY ClaimTyped DEF Ops
<1>2. IsSafe(n, Claim("device", at, k, must))
  BY DEF IsSafe, Claim
<1> QED
  BY <1>1, <1>2

\* A claim for each number of a sequence.
LEMMA ManySafe ==
  ASSUME NEW n, NEW N \in Nat, NEW v, v = [i \in DOMAIN v |-> v[i]], DOMAIN v = 1..N,
         \A i \in 1..N : v[i] \in ClaimSet /\ IsSafe(n, v[i])
  PROVE  v \in Seq(ClaimSet) /\ Lasting(n, v)
<1>1. v \in [1..N -> ClaimSet]
  OBVIOUS
<1>2. v \in Seq(ClaimSet) /\ DOMAIN v = 1..N
  BY <1>1
<1> QED
  BY <1>2 DEF Lasting

LEMMA PcconHead ==
  ASSUME NEW p \in {944, 976}, NEW k \in {12, 16}, NEW h,
         h = <<Claim("ports", 96, 1, "later"), Claim("ports", 100, 1, "later"),
               Claim("irq", 1, 1, "later"), Check, Claim("memory", 0, 0, "now"),
               Claim("ports", p, k, "never")>>
  PROVE  StartsWell(5, h)
<1>1. /\ h[1] = Claim("ports", 96, 1, "later") /\ h[2] = Claim("ports", 100, 1, "later")
      /\ h[3] = Claim("irq", 1, 1, "later") /\ h[4] = Check
      /\ h[5] = Claim("memory", 0, 0, "now") /\ h[6] = Claim("ports", p, k, "never")
  OBVIOUS
<1>2. h[1] \in ClaimSet /\ h[2] \in ClaimSet /\ h[3] \in ClaimSet
  BY <1>1, NumberClaim DEF Ops, Musts
<1>3. h[4] \in ClaimSet
  BY <1>1, NumberClaims
<1>4. h[5] \in ClaimSet /\ h[6] \in ClaimSet
  BY <1>1, NumberClaim DEF Ops, Musts
<1>5. h \in Seq(ClaimSet) /\ DOMAIN h = 1..6
  BY <1>2, <1>3, <1>4
<1>6. /\ h[1].op = "ports" /\ h[1].at = 96 /\ h[1].n = 1
      /\ h[2].op = "ports" /\ h[2].at = 100 /\ h[2].n = 1
      /\ h[3].op = "irq" /\ h[3].at = 1 /\ h[4].op = "check" /\ h[5].op = "memory"
      /\ h[6].op = "ports" /\ h[6].at = p /\ h[6].n = k
  BY <1>1 DEF Claim, Check
<1> HIDE <1>1
<1>7. \A i \in DOMAIN h :
         /\ h[i].op \in {"ports", "irq", "check", "memory"}
         /\ h[i].op = "ports" => h[i].at \in {96, 100, p} /\ h[i].n # 0
         /\ h[i].op = "irq" => h[i].at = 1
  <2>1. \A i \in DOMAIN h : i = 1 \/ i = 2 \/ i = 3 \/ i = 4 \/ i = 5 \/ i = 6
    BY <1>5
  <2> QED
    BY <1>6, <2>1
<1>8. {96, 100, p} \subseteq AskedBy(5) /\ 5 \notin Coms
  BY DEF AskedBy, Coms
<1>9. \A i \in DOMAIN h : ClaimFits(5, h[i])
  BY <1>7, <1>8 DEF ClaimFits
<1>10. \A i \in DOMAIN h : ~IsLate(h[i]) /\ h[i].op # "drop"
  BY <1>7 DEF IsLate
<1> QED
  BY <1>5, <1>8, <1>9, <1>10 DEF StartsWell, ClaimsFit, DropsFollow

LEMMA PcconStarts == ASSUME NEW c \in PcconClaims PROVE StartsWell(5, c)
<1> DEFINE s(p, k) ==
             <<Claim("ports", 96, 1, "later"), Claim("ports", 100, 1, "later"),
               Claim("irq", 1, 1, "later"), Check, Claim("memory", 0, 0, "now"),
               Claim("ports", p, k, "never")>>
           ttyC(i) == Claim("device", <<"ttyC", i - 1>>, 0, "never")
           v == [i \in 1..NrOfVcs |-> ttyC(i)]
           console == Claim("device", <<"console">>, 0, "never")
<1>1. PICK crtc \in CrtcPorts : c = s(crtc[1], crtc[2]) \o v \o <<console>>
  BY DEF PcconClaims
<1>2. 5 \notin Coms
  BY DEF Coms
<1>3. v \in Seq(ClaimSet) /\ Lasting(5, v)
  <2>1. ASSUME NEW i \in 1..NrOfVcs PROVE ttyC(i) \in ClaimSet /\ IsSafe(5, ttyC(i))
    <3>1. i - 1 \in Nat /\ "ttyC" \in Texts
      BY DEF Texts
    <3>2. <<"ttyC", i - 1>> \in Places
      BY <3>1, PlacesHold
    <3> QED
      BY <3>2, DeviceSafe DEF Musts
  <2>2. NrOfVcs \in Nat
    BY NrOfVcsAssumption
  <2> HIDE DEF ttyC
  <2>3. /\ v = [i \in DOMAIN v |-> v[i]] /\ DOMAIN v = 1..NrOfVcs
        /\ \A i \in 1..NrOfVcs : v[i] = ttyC(i)
    OBVIOUS
  <2> HIDE DEF v
  <2> QED
    BY <2>1, <2>2, <2>3, ManySafe
<1>4. <<console>> \in Seq(ClaimSet) /\ Lasting(5, <<console>>)
  <2>1. <<"console">> \in Places
    BY PlacesHold DEF Texts
  <2>2. console \in ClaimSet /\ IsSafe(5, console)
    BY <2>1, DeviceSafe DEF Musts
  <2> HIDE DEF console
  <2> QED
    BY <2>2, OneSafe
<1>5. ASSUME NEW h, StartsWell(5, h) PROVE StartsWell(5, h \o v \o <<console>>)
  <2> HIDE DEF v, console
  <2>1. StartsWell(5, h \o v)
    BY <1>2, <1>3, <1>5, ThenLasting
  <2> QED
    BY <1>2, <1>4, <2>1, ThenLasting
<1>6. StartsWell(5, s(crtc[1], crtc[2]))
  <2>1. crtc = <<944, 12>> \/ crtc = <<976, 16>>
    BY ComPortsTyped
  <2>2. crtc[1] \in {944, 976} /\ crtc[2] \in {12, 16}
    BY <2>1
  <2> QED
    BY <2>2, PcconHead
<1> HIDE DEF v, console
<1> QED
  BY <1>1, <1>5, <1>6

LEMMA FdcHead ==
  ASSUME NEW p \in FdcPorts, NEW f \in ClaimSet, f.op = "found", NEW h,
         h = <<Claim("irq", 6, 1, "now"), f, Claim("ports", p, 8, "now"),
               Claim("dma", 2, 1, "now")>>
  PROVE  StartsWell(13, h)
<1>1. /\ h[1] = Claim("irq", 6, 1, "now") /\ h[2] = f
      /\ h[3] = Claim("ports", p, 8, "now") /\ h[4] = Claim("dma", 2, 1, "now")
  OBVIOUS
<1>2. p \in Nat
  BY ComPortsTyped
<1>3. h[1] \in ClaimSet /\ h[2] \in ClaimSet /\ h[3] \in ClaimSet /\ h[4] \in ClaimSet
  BY <1>1, <1>2, NumberClaim DEF Ops, Musts
<1>4. h \in Seq(ClaimSet) /\ DOMAIN h = 1..4
  BY <1>3
<1>5. /\ h[1].op = "irq" /\ h[1].at = 6 /\ h[2].op = "found"
      /\ h[3].op = "ports" /\ h[3].at = p /\ h[3].n = 8
      /\ h[4].op = "dma" /\ h[4].at = 2
  BY <1>1 DEF Claim
<1>6. \A i \in DOMAIN h : i = 1 \/ i = 2 \/ i = 3 \/ i = 4
  BY <1>4
<1>7. 13 \notin Coms /\ p \in AskedBy(13) /\ 2 \in DmaChannels
  BY <1>2, LinesAssumption DEF AskedBy, Coms
<1>8. \A i \in DOMAIN h : ClaimFits(13, h[i])
  BY <1>5, <1>6, <1>7 DEF ClaimFits
<1>9. \A i \in DOMAIN h : IsLate(h[i]) => i = 4
  BY <1>5, <1>6 DEF IsLate
<1>10. \A i \in DOMAIN h : h[i].op # "drop"
  BY <1>5, <1>6
<1>11. \A i, j \in DOMAIN h : i < j => ~IsLate(h[i])
  BY <1>4, <1>9
<1> QED
  BY <1>4, <1>7, <1>8, <1>10, <1>11 DEF StartsWell, ClaimsFit, DropsFollow

LEMMA FdcStarts == ASSUME NEW c \in FdcClaims PROVE StartsWell(13, c)
<1> DEFINE s(p, f) == <<Claim("irq", 6, 1, "now"), f, Claim("ports", p, 8, "now"),
                        Claim("dma", 2, 1, "now")>>
           fd(fds, i) == Claim("device", <<"fd", fds[i]>>, 0, "never")
           v(fds) == [i \in DOMAIN fds |-> fd(fds, i)]
           Answers == {Claim("found", 0, 0, "now"), Claim("found", 1, 0, "now")}
<1>1. PICK p \in FdcPorts, f \in Answers, fds \in {<<>>, <<0, 1>>} : c = s(p, f) \o v(fds)
  BY DEF FdcClaims, Found
<1>2. f \in ClaimSet /\ f.op = "found"
  <2>1. f \in ClaimSet
    BY <1>1, NumberClaims
  <2> QED
    BY <1>1, <2>1 DEF Claim
<1>3. StartsWell(13, s(p, f))
  BY <1>2, FdcHead
<1>4. v(fds) \in Seq(ClaimSet) /\ Lasting(13, v(fds))
  <2>1. PICK N \in Nat : DOMAIN fds = 1..N
    BY <1>1
  <2>2. \A i \in 1..N : fds[i] \in Nat
    <3>1. \A i \in DOMAIN fds : fds[i] \in Nat
      <4>1. CASE fds = <<>>
        BY <4>1
      <4>2. CASE fds = <<0, 1>>
        BY <4>2
      <4> QED
        BY <1>1, <4>1, <4>2
    <3> QED
      BY <2>1, <3>1
  <2>3. ASSUME NEW i \in 1..N PROVE fd(fds, i) \in ClaimSet /\ IsSafe(13, fd(fds, i))
    <3>1. <<"fd", fds[i]>> \in Places
      BY <2>2, PlacesHold DEF Texts
    <3> QED
      BY <3>1, DeviceSafe DEF Musts
  <2> HIDE DEF fd
  <2>4. /\ v(fds) = [i \in DOMAIN v(fds) |-> v(fds)[i]] /\ DOMAIN v(fds) = 1..N
        /\ \A i \in 1..N : v(fds)[i] = fd(fds, i)
    BY <2>1
  <2> HIDE DEF v
  <2> QED
    BY <2>3, <2>4, ManySafe
<1>5. 13 \notin Coms
  BY DEF Coms
<1> HIDE DEF s, v
<1> QED
  BY <1>1, <1>3, <1>4, <1>5, ThenLasting

\* The inits that make one claim or none.
LEMMA OneStarts ==
  ASSUME NEW n, n \notin Coms, NEW op \in {"device", "emulation", "filesystem"},
         NEW at \in Places
  PROVE  StartsWell(n, <<Claim(op, at, 0, "now")>>)
<1> DEFINE c == Claim(op, at, 0, "now")
<1>1. c \in ClaimSet
  BY ClaimTyped DEF Ops, Musts
<1>2. c.op = op
  BY DEF Claim
<1> HIDE DEF c
<1>3. <<c>> \in Seq(ClaimSet) /\ DOMAIN <<c>> = 1..1 /\ <<c>>[1] = c
  BY <1>1
<1>4. StartsWell(n, <<c>>)
  BY <1>2, <1>3 DEF StartsWell, ClaimsFit, ClaimFits, DropsFollow
<1> QED
  BY <1>4 DEF c

-----------------------------------------------------------------------------
\* The controller of disks: what it asks for before it has found disks, with up
\* to two ranges given back, and the devices of each disk.
LEMMA Joined ==
  ASSUME NEW s, s \in Seq(ClaimSet), NEW t, t \in Seq(ClaimSet),
         ClaimsFit(12, s), ClaimsFit(12, t), DropsFollow(s, <<>>), Early(s),
         \A j \in DOMAIN t : t[j].op = "drop" =>
           /\ \E i \in DOMAIN s : s[i].op = "ports" /\ s[i].at = t[j].at /\ s[i].must = "now"
           /\ \A i \in DOMAIN s : s[i].op = "drop" => s[i].at # t[j].at
  PROVE  StartsWell(12, s \o t)
<1> DEFINE u == s \o t
<1>1. u \in Seq(ClaimSet) /\ Len(u) = Len(s) + Len(t)
  OBVIOUS
<1>2. /\ \A i \in DOMAIN u : (i \in DOMAIN s /\ u[i] = s[i])
           \/ (i > Len(s) /\ i - Len(s) \in DOMAIN t /\ u[i] = t[i - Len(s)])
      /\ \A i \in DOMAIN s : i \in DOMAIN u /\ u[i] = s[i]
      /\ \A i \in DOMAIN s : i <= Len(s) /\ i \in Nat
      /\ \A j \in DOMAIN t : j + Len(s) \in DOMAIN u /\ u[j + Len(s)] = t[j]
      /\ \A i \in DOMAIN u : i \in Nat
      /\ Len(s) \in Nat
  BY <1>1
<1> HIDE DEF u
<1>3. \A i \in DOMAIN u : ClaimFits(12, u[i])
  BY <1>2 DEF ClaimsFit
<1>4. ASSUME NEW i \in DOMAIN u, NEW j \in DOMAIN u, i < j
      PROVE  /\ IsLate(u[i]) => IsSafe(12, u[j])
             /\ u[i].op = "drop" /\ u[j].op = "drop" => u[i].at # u[j].at
  <2>1. CASE j \in DOMAIN s /\ u[j] = s[j]
    <3>1. i \in DOMAIN s /\ u[i] = s[i]
      BY <1>2, <1>4, <2>1
    <3> QED
      BY <1>4, <2>1, <3>1 DEF ClaimsFit
  <2>2. CASE j > Len(s) /\ j - Len(s) \in DOMAIN t /\ u[j] = t[j - Len(s)]
    <3>1. CASE i \in DOMAIN s /\ u[i] = s[i]
      BY <2>2, <3>1 DEF Early
    <3>2. CASE i > Len(s) /\ i - Len(s) \in DOMAIN t /\ u[i] = t[i - Len(s)]
      <4>1. i - Len(s) < j - Len(s)
        BY <1>2, <1>4
      <4> QED
        BY <2>2, <3>2, <4>1 DEF ClaimsFit
    <3> QED
      BY <1>2, <3>1, <3>2
  <2> QED
    BY <1>2, <2>1, <2>2
<1>5. 12 \notin Coms
  BY DEF Coms
<1>6. ClaimsFit(12, u)
  BY <1>3, <1>4, <1>5 DEF ClaimsFit
<1>7. ASSUME NEW j \in DOMAIN u, u[j].op = "drop"
      PROVE  \E i \in DOMAIN u : /\ i < j /\ u[i].op = "ports" /\ u[i].at = u[j].at
                                 /\ u[i].must = "now"
  <2>1. CASE j \in DOMAIN s /\ u[j] = s[j]
    <3>1. PICK i \in DOMAIN s : /\ i < j /\ s[i].op = "ports" /\ s[i].at = s[j].at
                                /\ s[i].must = "now"
      BY <1>7, <2>1 DEF DropsFollow, MetPorts
    <3> QED
      BY <1>2, <2>1, <3>1
  <2>2. CASE j > Len(s) /\ j - Len(s) \in DOMAIN t /\ u[j] = t[j - Len(s)]
    <3>1. PICK i \in DOMAIN s : s[i].op = "ports" /\ s[i].at = u[j].at /\ s[i].must = "now"
      BY <1>7, <2>2
    <3>2. i < j
      BY <1>2, <2>2, <3>1
    <3> QED
      BY <1>2, <3>1, <3>2
  <2> QED
    BY <1>2, <2>1, <2>2
<1>8. DropsFollow(u, <<>>)
  BY <1>7 DEF DropsFollow
<1> QED
  BY <1>1, <1>6, <1>8 DEF StartsWell, u

LEMMA DiskLasts ==
  ASSUME NEW disks, NEW t \in Tables, NEW u \in Nat
  PROVE  /\ DiskClaims(disks, t, u) \in Seq(ClaimSet)
         /\ Lasting(12, DiskClaims(disks, t, u))
<1> DEFINE raw == Claim("device", <<"wd", u>>, u, "never")
           part(i) == Claim("partition", <<"wd", u, Letters(t)[i]>>, u, "now")
           N == Len(Letters(t))
           v == [i \in 1..N |-> part(i)]
<1>1. Letters(t) \in Seq(Nat) /\ N \in Nat
  <2>1. t \in Seq(Entry)
    BY TablesAssumption DEF Entry
  <2> QED
    BY <2>1, LettersTyped
<1>2. "wd" \in Texts
  BY DEF Texts
<1>3. <<raw>> \in Seq(ClaimSet) /\ Lasting(12, <<raw>>)
  <2>1. <<"wd", u>> \in Places
    BY <1>2, PlacesHold
  <2>2. raw \in ClaimSet /\ IsSafe(12, raw)
    BY <2>1, DeviceSafe DEF Musts
  <2> HIDE DEF raw
  <2> QED
    BY <2>2, OneSafe
<1>4. v \in Seq(ClaimSet) /\ Lasting(12, v)
  <2>1. ASSUME NEW i \in 1..N PROVE part(i) \in ClaimSet /\ IsSafe(12, part(i))
    <3>1. Letters(t)[i] \in Nat
      BY <1>1
    <3>2. <<"wd", u, Letters(t)[i]>> \in Places
      BY <1>2, <3>1, PlacesHold
    <3>3. part(i) \in ClaimSet
      BY <3>2, ClaimTyped DEF Ops, Musts
    <3>4. IsSafe(12, part(i))
      BY InitsAre DEF IsSafe, Claim
    <3> QED
      BY <3>3, <3>4
  <2> HIDE DEF part
  <2>2. /\ v = [i \in DOMAIN v |-> v[i]] /\ DOMAIN v = 1..N
        /\ \A i \in 1..N : v[i] = part(i)
    OBVIOUS
  <2> HIDE DEF v, N
  <2> QED
    BY <1>1, <2>1, <2>2, ManySafe
<1>5. <<raw>> \o v \in Seq(ClaimSet) /\ Lasting(12, <<raw>> \o v)
  <2> HIDE DEF raw, v
  <2> QED
    BY <1>3, <1>4 DEF Lasting
<1>6. <<>> \in Seq(ClaimSet) /\ Lasting(12, <<>>)
  BY DEF Lasting
<1>7. \/ DiskClaims(disks, t, u) = <<>>
      \/ DiskClaims(disks, t, u) = <<raw>> \o <<>>
      \/ DiskClaims(disks, t, u) = <<raw>> \o v
  BY DEF DiskClaims
<1> HIDE DEF raw, v
<1>8. <<raw>> \o <<>> = <<raw>>
  OBVIOUS
<1> QED
  BY <1>3, <1>5, <1>6, <1>7, <1>8

\* Sequences of claims before the disks were found.
Probing(s) ==
  /\ s \in Seq(ClaimSet) /\ ClaimsFit(12, s) /\ DropsFollow(s, <<>>) /\ Early(s)
  /\ \A at \in {496, 368} :
       \E i \in DOMAIN s : s[i].op = "ports" /\ s[i].at = at /\ s[i].must = "now"

NoDrop(s, at) == \A i \in DOMAIN s : s[i].op = "drop" => s[i].at # at

LEMMA AppendOne ==
  ASSUME NEW S, NEW s \in Seq(S), NEW x \in S
  PROVE  /\ \A i \in DOMAIN (s \o <<x>>) :
              (i \in DOMAIN s /\ (s \o <<x>>)[i] = s[i]) \/ (s \o <<x>>)[i] = x
         /\ \A i \in DOMAIN s : i \in DOMAIN (s \o <<x>>) /\ (s \o <<x>>)[i] = s[i]
<1>1. s \o <<x>> = Append(s, x)
  OBVIOUS
<1>2. /\ \A i \in DOMAIN Append(s, x) :
           (i \in DOMAIN s /\ Append(s, x)[i] = s[i]) \/ Append(s, x)[i] = x
      /\ \A i \in DOMAIN s : i \in DOMAIN Append(s, x) /\ Append(s, x)[i] = s[i]
  OBVIOUS
<1> QED
  BY <1>1, <1>2

LEMMA ProbesOn ==
  ASSUME NEW s, Probing(s), NEW x \in ClaimSet, ~IsLate(x), ClaimFits(12, x),
         x.op = "drop" => x.at \in {496, 368} /\ NoDrop(s, x.at)
  PROVE  /\ Probing(s \o <<x>>)
         /\ \A at : NoDrop(s, at) /\ (x.op = "drop" => x.at # at) => NoDrop(s \o <<x>>, at)
<1> DEFINE t == <<x>>
<1>1. /\ t \in Seq(ClaimSet) /\ DOMAIN t = 1..1 /\ t[1] = x /\ Len(t) = 1
      /\ s \in Seq(ClaimSet)
  BY DEF Probing
<1>2. ClaimsFit(12, t)
  BY <1>1 DEF ClaimsFit
<1>3. \A j \in DOMAIN t : t[j].op = "drop" =>
           /\ \E i \in DOMAIN s : s[i].op = "ports" /\ s[i].at = t[j].at /\ s[i].must = "now"
           /\ \A i \in DOMAIN s : s[i].op = "drop" => s[i].at # t[j].at
  BY <1>1 DEF Probing, NoDrop
<1>4. StartsWell(12, s \o t)
  <2> HIDE DEF t
  <2> QED
    BY <1>1, <1>2, <1>3, Joined DEF Probing
<1>5. /\ \A i \in DOMAIN (s \o t) : (i \in DOMAIN s /\ (s \o t)[i] = s[i]) \/ (s \o t)[i] = x
      /\ \A i \in DOMAIN s : i \in DOMAIN (s \o t) /\ (s \o t)[i] = s[i]
  BY <1>1, AppendOne
<1> HIDE DEF t
<1>6. Probing(s \o t)
  BY <1>4, <1>5 DEF Probing, StartsWell, Early
<1>7. \A at : NoDrop(s, at) /\ (x.op = "drop" => x.at # at) => NoDrop(s \o t, at)
  BY <1>5 DEF NoDrop
<1> QED
  BY <1>6, <1>7 DEF t

LEMMA WdcHead ==
  ASSUME NEW h, h = <<Claim("irq", 14, 1, "now"), Claim("ports", 496, 8, "now"),
                      Claim("ports", 368, 8, "now")>>
  PROVE  Probing(h) /\ NoDrop(h, 496) /\ NoDrop(h, 368)
<1>1. /\ h[1] = Claim("irq", 14, 1, "now") /\ h[2] = Claim("ports", 496, 8, "now")
      /\ h[3] = Claim("ports", 368, 8, "now")
  OBVIOUS
<1>2. h[1] \in ClaimSet /\ h[2] \in ClaimSet /\ h[3] \in ClaimSet
  BY <1>1, NumberClaim DEF Ops, Musts
<1>3. h \in Seq(ClaimSet) /\ DOMAIN h = 1..3
  BY <1>2
<1>4. /\ h[1].op = "irq" /\ h[2].op = "ports" /\ h[3].op = "ports"
      /\ h[2].at = 496 /\ h[2].n = 8 /\ h[2].must = "now"
      /\ h[3].at = 368 /\ h[3].n = 8 /\ h[3].must = "now"
  BY <1>1 DEF Claim
<1>5. \A i \in DOMAIN h : i = 1 \/ i = 2 \/ i = 3
  BY <1>3
<1>6. 12 \notin Coms /\ 496 \in AskedBy(12) /\ 368 \in AskedBy(12)
  BY DEF AskedBy, Coms
<1>7. \A i \in DOMAIN h : ClaimFits(12, h[i])
  BY <1>4, <1>5, <1>6 DEF ClaimFits
<1>8. \A i \in DOMAIN h : ~IsLate(h[i]) /\ h[i].op # "drop"
  BY <1>4, <1>5 DEF IsLate
<1>9. 2 \in DOMAIN h /\ 3 \in DOMAIN h
  BY <1>3
<1>10. \A at \in {496, 368} :
          \E i \in DOMAIN h : h[i].op = "ports" /\ h[i].at = at /\ h[i].must = "now"
  BY <1>4, <1>9
<1> QED
  BY <1>3, <1>6, <1>7, <1>8, <1>10
  DEF Probing, NoDrop, Early, ClaimsFit, DropsFollow

LEMMA ProbesOrNot ==
  ASSUME NEW s, Probing(s), NEW at \in {496, 368}, NoDrop(s, at), NEW d,
         d = <<>> \/ d = <<Claim("drop", at, 0, "now")>>
  PROVE  /\ Probing(s \o d)
         /\ \A b : b # at /\ NoDrop(s, b) => NoDrop(s \o d, b)
<1>1. CASE d = <<>>
  <2>1. s \o d = s
    BY <1>1 DEF Probing
  <2> QED
    BY <2>1
<1>2. CASE d = <<Claim("drop", at, 0, "now")>>
  <2> DEFINE x == Claim("drop", at, 0, "now")
  <2>1. x \in ClaimSet
    BY NumberClaim DEF Ops, Musts
  <2>2. x.op = "drop" /\ x.at = at
    BY DEF Claim
  <2> HIDE DEF x
  <2>3. ~IsLate(x) /\ ClaimFits(12, x)
    BY <2>2 DEF IsLate, ClaimFits, Coms
  <2>4. d = <<x>>
    BY <1>2 DEF x
  <2> QED
    BY <2>1, <2>2, <2>3, <2>4, ProbesOn
<1> QED
  BY <1>1, <1>2

LEMMA WdcStarts ==
  ASSUME NEW disks \in DiskSets, NEW t \in Tables PROVE StartsWell(12, WdcClaims(disks, t))
<1> DEFINE h == <<Claim("irq", 14, 1, "now"), Claim("ports", 496, 8, "now"),
                  Claim("ports", 368, 8, "now")>>
           c == IF disks \intersect {0, 1} = {} THEN <<Claim("drop", 496, 0, "now")>> ELSE <<>>
           d == IF disks \intersect {2, 3} = {} THEN <<Claim("drop", 368, 0, "now")>> ELSE <<>>
           e == <<Found(disks # {})>>
           D(u) == DiskClaims(disks, t, u)
<1>1. Probing(h \o c) /\ NoDrop(h \o c, 368)
  <2>1. c = <<>> \/ c = <<Claim("drop", 496, 0, "now")>>
    OBVIOUS
  <2>2. Probing(h) /\ NoDrop(h, 496) /\ NoDrop(h, 368)
    BY WdcHead
  <2> HIDE DEF h, c
  <2> QED
    BY <2>1, <2>2, ProbesOrNot
<1>2. Probing((h \o c) \o d)
  <2>1. d = <<>> \/ d = <<Claim("drop", 368, 0, "now")>>
    OBVIOUS
  <2> HIDE DEF h, c, d
  <2> QED
    BY <1>1, <2>1, ProbesOrNot
<1>3. PICK x \in {Claim("found", 0, 0, "now"), Claim("found", 1, 0, "now")} : e = <<x>>
  BY DEF Found
<1>4. x \in ClaimSet /\ x.op = "found"
  <2>1. x \in ClaimSet
    BY <1>3, NumberClaims
  <2> QED
    BY <1>3, <2>1 DEF Claim
<1>5. 12 \notin Coms
  BY DEF Coms
<1>6. ~IsLate(x) /\ ClaimFits(12, x)
  BY <1>4, <1>5 DEF IsLate, ClaimFits
<1> HIDE DEF h, c, d, e
<1>7. Probing(((h \o c) \o d) \o e)
  BY <1>2, <1>3, <1>4, <1>6, ProbesOn
<1>8. StartsWell(12, ((h \o c) \o d) \o e)
  BY <1>7 DEF Probing, StartsWell
<1>9. ASSUME NEW s, StartsWell(12, s), NEW u \in Nat PROVE StartsWell(12, s \o D(u))
  BY <1>5, <1>9, DiskLasts, ThenLasting
<1> HIDE DEF D
<1>10. StartsWell(12, h \o c \o d \o e \o D(0) \o D(1) \o D(2) \o D(3))
  BY <1>8, <1>9
<1> QED
  BY <1>10 DEF WdcClaims, h, c, d, e, D

LEMMA ClaimsStart ==
  ASSUME init \in DOMAIN Inits, NEW c \in Claims(Current)
  PROVE  c \in Seq(ClaimSet) /\ ClaimsFit(init, c) /\ DropsFollow(c, <<>>)
<1> SUFFICES StartsWell(init, c)
  BY DEF StartsWell
<1>1. init \in 1..19 /\ Current = Inits[init]
  BY InitsAre DEF Current
<1>2. CASE init \in {1, 2, 3}
  <2>1. Current \in {"net", "net_if", "isa"}
    BY <1>1, <1>2, InitsAre
  <2>2. c = <<>>
    BY <2>1 DEF Claims
  <2> QED
    BY <2>2, NothingStarts
<1>3. CASE init = 4
  <2>1. c \in IsadmaClaims
    BY <1>1, <1>3, InitsAre DEF Claims
  <2> QED
    BY <1>3, <2>1, IsadmaStarts
<1>4. CASE init = 5
  <2>1. c \in PcconClaims
    BY <1>1, <1>4, InitsAre DEF Claims
  <2> QED
    BY <1>4, <2>1, PcconStarts
<1>5. CASE init \in {6, 7}
  <2>1. c \in PccomClaims
    BY <1>1, <1>5, InitsAre DEF Claims
  <2> QED
    BY <1>5, <2>1, PccomStarts DEF Coms
<1>6. CASE init = 8
  <2>1. c \in PnpClaims
    BY <1>1, <1>6, InitsAre DEF Claims
  <2> QED
    BY <1>6, <2>1, PnpStarts
<1>7. CASE init \in {9, 10}
  <2>1. c \in EpClaims
    BY <1>1, <1>7, InitsAre DEF Claims
  <2> QED
    BY <1>7, <2>1, EpStarts
<1>8. CASE init = 11
  <2>1. c \in PcppiClaims
    BY <1>1, <1>8, InitsAre DEF Claims
  <2> QED
    BY <1>8, <2>1, PcppiStarts
<1>9. CASE init = 12
  <2>1. c \in {WdcClaims(disks, t) : disks \in DiskSets, t \in Tables}
    BY <1>1, <1>9, InitsAre DEF Claims
  <2>2. PICK disks \in DiskSets, t \in Tables : c = WdcClaims(disks, t)
    BY <2>1
  <2> QED
    BY <1>9, <2>2, WdcStarts
<1>10. CASE init = 13
  <2>1. c \in FdcClaims
    BY <1>1, <1>10, InitsAre DEF Claims
  <2> QED
    BY <1>10, <2>1, FdcStarts
<1>11. CASE init \in 14..19
  <2>1. init \notin Coms
    BY <1>11 DEF Coms
  <2>2. Current \in {"null", "tty", "openbsd_aout", "devfs", "ffs", "procfs"}
    BY <1>1, <1>11, InitsAre
  <2>3. Current \in Places /\ <<Current>> \in Places
    <3>1. Current \in Texts
      BY <2>2 DEF Texts
    <3> QED
      BY <3>1, PlacesHold
  <2>4. PICK op \in {"device", "emulation", "filesystem"}, at \in {Current, <<Current>>} :
          c = <<Claim(op, at, 0, "now")>>
    BY <2>2 DEF Claims, DeviceClaims, EmulationClaims, FilesystemClaims
  <2> QED
    BY <2>1, <2>3, <2>4, OneStarts
<1>12. \/ init \in {1, 2, 3} \/ init = 4 \/ init = 5 \/ init \in {6, 7} \/ init = 8
       \/ init \in {9, 10} \/ init = 11 \/ init = 12 \/ init = 13 \/ init \in 14..19
  BY <1>1
<1> QED
  BY <1>2, <1>3, <1>4, <1>5, <1>6, <1>7, <1>8, <1>9, <1>10, <1>11, <1>12

-----------------------------------------------------------------------------
\* The registry of ports.
Apart(rs) ==
  \A i, j \in DOMAIN rs :
    i # j => (rs[i].base..LastPort(rs[i])) \intersect (rs[j].base..LastPort(rs[j])) = {}

\* What the test of ports_register() lets through shares no port.
LEMMA FreeIsApart ==
  ASSUME NEW r \in RangeSet, NEW base \in Nat, NEW n \in Nat \ {0}, ~Conflicts(r, base, n)
  PROVE  (r.base..LastPort(r)) \intersect (base..base + n - 1) = {}
BY DEF RangeSet, Conflicts, LastPort

LEMMA BasesDiffer ==
  ASSUME NEW rs \in Seq(RangeSet), Apart(rs), NEW i \in DOMAIN rs, NEW j \in DOMAIN rs,
         rs[i].base = rs[j].base
  PROVE  i = j
<1>1. rs[i] \in RangeSet /\ rs[j] \in RangeSet
  OBVIOUS
<1>2. ASSUME NEW r \in RangeSet PROVE r.base \in (r.base..LastPort(r))
  <2>1. r.base \in Nat /\ r.n \in Nat \ {0}
    BY DEF RangeSet
  <2> QED
    BY <2>1 DEF LastPort
<1>3. /\ rs[i].base \in (rs[i].base..LastPort(rs[i]))
      /\ rs[j].base \in (rs[j].base..LastPort(rs[j]))
  BY <1>1, <1>2
<1> QED
  BY <1>3 DEF Apart

LEMMA RemovedAt ==
  ASSUME NEW S, NEW s \in Seq(S), NEW k \in DOMAIN s
  PROVE  /\ RemoveAt(s, k) \in Seq(S)
         /\ DOMAIN RemoveAt(s, k) = 1..(Len(s) - 1)
         /\ \A i \in 1..(Len(s) - 1) :
              /\ IF i < k THEN i \in DOMAIN s /\ RemoveAt(s, k)[i] = s[i]
                 ELSE i + 1 \in DOMAIN s /\ RemoveAt(s, k)[i] = s[i + 1]
<1> DEFINE a == SubSeq(s, 1, k - 1)
           b == SubSeq(s, k + 1, Len(s))
<1>1. k \in 1..Len(s) /\ Len(s) \in Nat
  OBVIOUS
<1>2. a \in Seq(S) /\ Len(a) = k - 1 /\ \A i \in 1..(k - 1) : a[i] = s[i]
  BY <1>1
<1>3. b \in Seq(S) /\ Len(b) = Len(s) - k /\ \A i \in 1..(Len(s) - k) : b[i] = s[k + i]
  BY <1>1
<1> HIDE DEF a, b
<1>4. /\ a \o b \in Seq(S) /\ Len(a \o b) = Len(s) - 1
      /\ \A i \in 1..(Len(s) - 1) : (a \o b)[i] = IF i < k THEN a[i] ELSE b[i - (k - 1)]
  <2>1. a \o b \in Seq(S) /\ Len(a \o b) = Len(a) + Len(b)
    BY <1>2, <1>3, ConcatProperties
  <2>2. Len(a \o b) = Len(s) - 1
    BY <1>1, <1>2, <1>3, <2>1
  <2>3. \A i \in 1..(Len(a) + Len(b)) : (a \o b)[i] = IF i <= Len(a) THEN a[i] ELSE b[i - Len(a)]
    BY <1>2, <1>3, ConcatProperties
  <2>4. ASSUME NEW i \in 1..(Len(s) - 1)
        PROVE  (a \o b)[i] = IF i < k THEN a[i] ELSE b[i - (k - 1)]
    <3>1. i \in 1..(Len(a) + Len(b)) /\ (i <= Len(a) <=> i < k) /\ Len(a) = k - 1
      BY <1>1, <1>2, <1>3
    <3> QED
      BY <2>3, <3>1
  <2> QED
    BY <2>1, <2>2, <2>4
<1>5. RemoveAt(s, k) = a \o b
  BY DEF RemoveAt, a, b
<1>6. DOMAIN (a \o b) = 1..(Len(s) - 1)
  BY <1>1, <1>4
<1>7. ASSUME NEW i \in 1..(Len(s) - 1)
      PROVE  IF i < k THEN i \in DOMAIN s /\ (a \o b)[i] = s[i]
             ELSE i + 1 \in DOMAIN s /\ (a \o b)[i] = s[i + 1]
  <2>1. CASE i < k
    <3>1. i \in 1..(k - 1) /\ i \in DOMAIN s
      BY <1>1, <2>1
    <3> QED
      BY <1>2, <1>4, <2>1, <3>1
  <2>2. CASE ~(i < k)
    <3>1. i - (k - 1) \in 1..(Len(s) - k) /\ k + (i - (k - 1)) = i + 1 /\ i + 1 \in DOMAIN s
      BY <1>1, <2>2
    <3>2. (a \o b)[i] = b[i - (k - 1)]
      BY <1>4, <2>2
    <3>3. b[i - (k - 1)] = s[k + (i - (k - 1))]
      BY <1>3, <3>1
    <3> QED
      BY <2>2, <3>1, <3>2, <3>3
  <2> QED
    BY <2>1, <2>2
<1> QED
  BY <1>4, <1>5, <1>6, <1>7

LEMMA Unregistering ==
  ASSUME NEW rs \in Seq(RangeSet), Apart(rs), NEW b
  PROVE  /\ PortsUnregistered(rs, b) \in Seq(RangeSet) /\ Apart(PortsUnregistered(rs, b))
         /\ \A r : r \in ToSet(PortsUnregistered(rs, b)) <=> r \in ToSet(rs) /\ r.base # b
<1> DEFINE at == {i \in DOMAIN rs : rs[i].base = b}
           k  == CHOOSE i \in at : \A j \in at : i <= j
<1>1. CASE at = {}
  <2>1. PortsUnregistered(rs, b) = rs
    BY <1>1 DEF PortsUnregistered
  <2> QED
    BY <1>1, <2>1 DEF ToSet
<1>2. CASE at # {}
  <2>1. PICK m \in at : TRUE
    BY <1>2
  <2>2. \A i \in at : i = m
    BY <2>1, BasesDiffer
  <2>3. m \in Nat /\ m \in DOMAIN rs
    BY <2>1
  <2>4. k = m
    BY <2>1, <2>2, <2>3
  <2> DEFINE t == RemoveAt(rs, m)
  <2>5. PortsUnregistered(rs, b) = t
    BY <1>2, <2>4 DEF PortsUnregistered
  <2>6. /\ t \in Seq(RangeSet) /\ DOMAIN t = 1..(Len(rs) - 1)
        /\ \A i \in 1..(Len(rs) - 1) :
             /\ IF i < m THEN i \in DOMAIN rs /\ t[i] = rs[i]
                ELSE i + 1 \in DOMAIN rs /\ t[i] = rs[i + 1]
    BY <2>3, RemovedAt
  <2>7. DOMAIN rs = 1..Len(rs) /\ Len(rs) \in Nat
    OBVIOUS
  <2> HIDE DEF at, k, t
  <2> DEFINE old(i) == IF i < m THEN i ELSE i + 1
  <2>8. \A i \in DOMAIN t : /\ old(i) \in DOMAIN rs /\ t[i] = rs[old(i)] /\ old(i) # m
    BY <2>3, <2>6
  <2>9. \A i, j \in DOMAIN t : i # j => old(i) # old(j)
    BY <2>3, <2>6, <2>7
  <2>10. \A i \in DOMAIN rs : i # m => \E j \in DOMAIN t : old(j) = i
    <3> SUFFICES ASSUME NEW i \in DOMAIN rs, i # m PROVE \E j \in DOMAIN t : old(j) = i
      OBVIOUS
    <3>1. CASE i < m
      <4>1. i \in DOMAIN t
        BY <2>3, <2>6, <2>7, <3>1
      <4> QED
        BY <3>1, <4>1
    <3>2. CASE i > m
      <4>1. i - 1 \in DOMAIN t /\ old(i - 1) = i
        BY <2>3, <2>6, <2>7, <3>2
      <4> QED
        BY <4>1
    <3> QED
      BY <2>3, <2>7, <3>1, <3>2
  <2> HIDE DEF old
  <2>11. Apart(t)
    <3> SUFFICES ASSUME NEW i \in DOMAIN t, NEW j \in DOMAIN t, i # j
                 PROVE  (t[i].base..LastPort(t[i])) \intersect (t[j].base..LastPort(t[j])) = {}
      BY DEF Apart
    <3>1. t[i] = rs[old(i)] /\ t[j] = rs[old(j)] /\ old(i) # old(j)
      BY <2>8, <2>9
    <3> QED
      BY <2>8, <3>1 DEF Apart
  <2>12. \A i \in DOMAIN rs : rs[i].base = b <=> i = m
    BY <2>1, <2>2 DEF at
  <2>13. \A r : r \in ToSet(t) <=> r \in ToSet(rs) /\ r.base # b
    <3>1. ASSUME NEW r \in ToSet(t) PROVE r \in ToSet(rs) /\ r.base # b
      <4>1. PICK i \in DOMAIN t : r = t[i]
        BY DEF ToSet
      <4> QED
        BY <2>8, <2>12, <4>1 DEF ToSet
    <3>2. ASSUME NEW r \in ToSet(rs), r.base # b PROVE r \in ToSet(t)
      <4>1. PICK i \in DOMAIN rs : r = rs[i]
        BY DEF ToSet
      <4>2. PICK j \in DOMAIN t : old(j) = i
        BY <2>10, <2>12, <3>2, <4>1
      <4> QED
        BY <2>8, <4>1, <4>2 DEF ToSet
    <3> QED
      BY <3>1, <3>2
  <2> QED
    BY <2>5, <2>6, <2>11, <2>13
<1> QED
  BY <1>1, <1>2

\* What an init that gives up leaves: the ranges at bases it does not name.
LEMMA PortsGivenBackIs ==
  ASSUME ranges \in Seq(RangeSet), Apart(ranges), made \in Seq(MadeSet)
  PROVE  /\ PortsGivenBack \in Seq(RangeSet) /\ Apart(PortsGivenBack)
         /\ \A r : r \in ToSet(PortsGivenBack) <=>
                     /\ r \in ToSet(ranges)
                     /\ \A k \in Back("ports") : made[k].claim.at # r.base
<1> DEFINE N == Len(made)
           B == Back("ports")
           S == {rs \in Seq(RangeSet) : Apart(rs)}
           one(rs, k) == IF k \in B THEN PortsUnregistered(rs, made[k].claim.at) ELSE rs
           step == [x \in (1..N) \X S |-> one(x[2], x[1])]
           Is(f) == f = [k \in 0..N |->
                           IF k = 0 THEN ranges
                           ELSE IF k \in B THEN PortsUnregistered(f[k - 1], made[k].claim.at)
                           ELSE f[k - 1]]
<1>1. N \in Nat /\ ranges \in S /\ B \subseteq 1..N
  BY DEF Back
<1>2. ASSUME NEW rs \in S, NEW k
      PROVE  /\ one(rs, k) \in S
             /\ \A r : r \in ToSet(one(rs, k)) <=>
                         r \in ToSet(rs) /\ (k \in B => made[k].claim.at # r.base)
  <2>1. rs \in Seq(RangeSet) /\ Apart(rs)
    OBVIOUS
  <2> DEFINE b == made[k].claim.at
  <2>2. /\ PortsUnregistered(rs, b) \in Seq(RangeSet) /\ Apart(PortsUnregistered(rs, b))
        /\ \A r : r \in ToSet(PortsUnregistered(rs, b)) <=> r \in ToSet(rs) /\ r.base # b
    BY <2>1, Unregistering
  <2> HIDE DEF B
  <2>3. CASE k \in B
    <3>1. one(rs, k) = PortsUnregistered(rs, b)
      BY <2>3
    <3> HIDE DEF one, b
    <3>2. one(rs, k) \in S
      BY <2>2, <3>1
    <3>3. ASSUME NEW r
          PROVE  r \in ToSet(one(rs, k)) <=>
                   r \in ToSet(rs) /\ (k \in B => made[k].claim.at # r.base)
      BY <2>2, <2>3, <3>1 DEF b
    <3> QED
      BY <3>2, <3>3
  <2>4. CASE k \notin B
    BY <2>4
  <2> QED
    BY <2>3, <2>4
<1> HIDE DEF B, S
<1>3. step \in Steps(N, S)
  <2> HIDE DEF one
  <2> QED
    BY <1>2 DEF Steps
<1>4. PICK g \in [0..N -> S] : Iterates(g, ranges, N, step)
  <2> HIDE DEF N, step
  <2> QED
    BY <1>1, <1>3, Iterate
<1>5. \A k \in 1..N : k - 1 \in 0..N /\ g[k - 1] \in S /\ g[k] = one(g[k - 1], k)
  <2> SUFFICES ASSUME NEW k \in 1..N
               PROVE  k - 1 \in 0..N /\ g[k - 1] \in S /\ g[k] = one(g[k - 1], k)
    OBVIOUS
  <2>1. k - 1 \in 0..N /\ g[k - 1] \in S
    <3> HIDE DEF N
    <3>1. k - 1 \in 0..N
      BY <1>1
    <3> QED
      BY <1>4, <3>1
  <2> HIDE DEF one
  <2>2. g[k] = step[<<k, g[k - 1]>>]
    BY <1>4 DEF Iterates
  <2> QED
    BY <2>1, <2>2
<1>6. Is(g)
  <2>1. g[0] = ranges
    BY <1>4 DEF Iterates
  <2>2. \A k \in 0..N : g[k] = IF k = 0 THEN ranges
                               ELSE IF k \in B THEN PortsUnregistered(g[k - 1], made[k].claim.at)
                               ELSE g[k - 1]
    BY <1>5, <2>1
  <2> QED
    BY <1>4, <2>2
<1> DEFINE f == CHOOSE h : Is(h)
<1>7. Is(f)
  <2> HIDE DEF Is
  <2> QED
    BY <1>6
<1>8. f[0] = ranges /\ \A k \in 1..N : f[k] = one(f[k - 1], k)
  <2> HIDE DEF f, N
  <2>1. \A k \in 1..N : k \in 0..N /\ k # 0
    BY <1>1
  <2>2. 0 \in 0..N
    BY <1>1
  <2>3. \A k \in 0..N : f[k] = IF k = 0 THEN ranges
                               ELSE IF k \in B THEN PortsUnregistered(f[k - 1], made[k].claim.at)
                               ELSE f[k - 1]
    BY <1>7
  <2> QED
    BY <2>1, <2>2, <2>3
<1> HIDE DEF f, Is, one
<1> DEFINE R(k) == /\ f[k] \in S
                   /\ \A r : r \in ToSet(f[k]) <=>
                        /\ r \in ToSet(ranges)
                        /\ \A i \in B : i <= k => made[i].claim.at # r.base
           T == {k \in 0..N : R(k)}
<1>9. \A k \in 0..N : k \in T
  <2>1. 0 \in T
    <3>1. \A i \in B : ~(i <= 0)
      BY <1>1
    <3>2. R(0)
      BY <1>1, <1>8, <3>1
    <3>3. 0 \in 0..N
      BY <1>1
    <3> HIDE DEF R
    <3> QED
      BY <3>2, <3>3
  <2>2. \A k \in 0..(N - 1) : k \in T => k + 1 \in T
    <3> SUFFICES ASSUME NEW k \in 0..(N - 1), R(k) PROVE k + 1 \in 0..N /\ R(k + 1)
      OBVIOUS
    <3>1. k + 1 \in 1..N /\ (k + 1) - 1 = k /\ k + 1 \in 0..N
      BY <1>1
    <3>2. f[k + 1] = one(f[k], k + 1)
      BY <1>8, <3>1
    <3>3. /\ f[k + 1] \in S
          /\ \A r : r \in ToSet(f[k + 1]) <=>
                      r \in ToSet(f[k]) /\ (k + 1 \in B => made[k + 1].claim.at # r.base)
      BY <1>2, <3>2
    <3>4. \A i \in B : i <= k + 1 <=> i <= k \/ i = k + 1
      BY <1>1, <3>1
    <3>5. ASSUME NEW r
          PROVE  r \in ToSet(f[k + 1]) <=>
                   /\ r \in ToSet(ranges)
                   /\ \A i \in B : i <= k + 1 => made[i].claim.at # r.base
      <4>1. r \in ToSet(f[k]) <=>
              r \in ToSet(ranges) /\ \A i \in B : i <= k => made[i].claim.at # r.base
        OBVIOUS
      <4> QED
        BY <3>3, <3>4, <4>1
    <3> QED
      BY <3>1, <3>3, <3>5
  <2>3. T \in SUBSET Nat
    OBVIOUS
  <2> HIDE DEF T
  <2> QED
    BY <1>1, <2>1, <2>2, <2>3, Climb
<1>10. R(N)
  <2>1. N \in 0..N
    BY <1>1
  <2> QED
    BY <1>9, <2>1
<1>11. PortsGivenBack = f[N]
  BY DEF PortsGivenBack, f, Is, B
<1>12. \A i \in B : i <= N
  BY <1>1
<1>13. f[N] \in Seq(RangeSet) /\ Apart(f[N])
  BY <1>10 DEF S
<1>14. ASSUME NEW r
       PROVE  r \in ToSet(f[N]) <=>
                r \in ToSet(ranges) /\ \A k \in Back("ports") : made[k].claim.at # r.base
  BY <1>10, <1>12 DEF B
<1> QED
  BY <1>11, <1>13, <1>14

LEMMA PortsRegisteredIs ==
  ASSUME ranges \in Seq(RangeSet), Apart(ranges),
         NEW base \in Nat, NEW n \in Nat \ {0}, NEW owner \in Nat, PortsFree(base, n),
         NEW rs, rs = PortsRegistered(base, n, owner)
  PROVE  /\ rs \in Seq(RangeSet) /\ Apart(rs)
         /\ DOMAIN rs = 1..(Len(ranges) + 1) /\ DOMAIN ranges = 1..Len(ranges)
         /\ \A i \in DOMAIN ranges : rs[i] = ranges[i]
         /\ rs[Len(ranges) + 1].base = base /\ rs[Len(ranges) + 1].owner = owner
<1> DEFINE x == [base |-> base, n |-> n, owner |-> owner]
           L == Len(ranges)
<1>1. x \in RangeSet /\ L \in Nat /\ DOMAIN ranges = 1..L
  BY DEF RangeSet
<1>2. /\ rs \in Seq(RangeSet) /\ Len(rs) = L + 1 /\ DOMAIN rs = 1..(L + 1)
      /\ \A i \in 1..L : rs[i] = ranges[i]
      /\ rs[L + 1] = x
  <2>1. rs = Append(ranges, x)
    BY DEF PortsRegistered
  <2> HIDE DEF x
  <2> QED
    BY <1>1, <2>1
<1>3. ASSUME NEW i \in 1..L
      PROVE  (rs[i].base..LastPort(rs[i])) \intersect (base..base + n - 1) = {}
  <2>1. ranges[i] \in RangeSet /\ ~Conflicts(ranges[i], base, n)
    BY <1>1 DEF PortsFree
  <2> QED
    BY <1>2, <2>1, FreeIsApart
<1>4. rs[L + 1].base = base /\ LastPort(rs[L + 1]) = base + n - 1 /\ rs[L + 1].owner = owner
  BY <1>2 DEF LastPort
<1>5. Apart(rs)
  <2> SUFFICES ASSUME NEW i \in 1..(L + 1), NEW j \in 1..(L + 1), i # j
               PROVE  (rs[i].base..LastPort(rs[i])) \intersect (rs[j].base..LastPort(rs[j])) = {}
    BY <1>2 DEF Apart
  <2>1. CASE i \in 1..L /\ j \in 1..L
    BY <1>1, <1>2, <2>1 DEF Apart
  <2>2. CASE i = L + 1
    <3>1. j \in 1..L
      BY <1>1, <2>2
    <3> QED
      BY <1>3, <1>4, <2>2, <3>1
  <2>3. CASE j = L + 1
    <3>1. i \in 1..L
      BY <1>1, <2>3
    <3> QED
      BY <1>3, <1>4, <2>3, <3>1
  <2> QED
    BY <1>1, <2>1, <2>2, <2>3
<1> QED
  BY <1>1, <1>2, <1>4, <1>5

-----------------------------------------------------------------------------
LEMMA DevicesTyped ==
  ASSUME devices \in Seq(DeviceSet)
  PROVE  \A i \in DOMAIN devices : devices[i].vfs_dev \in Nat /\ devices[i].owner \in Nat
<1> SUFFICES ASSUME NEW i \in DOMAIN devices
             PROVE  devices[i].vfs_dev \in Nat /\ devices[i].owner \in Nat
  OBVIOUS
<1>1. devices[i] \in DeviceSet
  OBVIOUS
<1> QED
  BY <1>1 DEF DeviceSet

\* The number of a new device is above all others.
LEMMA NextDevIs ==
  ASSUME devices \in Seq(DeviceSet), DevicesApart
  PROVE  NextDev \in Nat /\ \A i \in DOMAIN devices : devices[i].vfs_dev < NextDev
<1>1. CASE devices = <<>>
  BY <1>1 DEF NextDev
<1>2. CASE devices # <<>>
  <2>1. 1 \in DOMAIN devices /\ DOMAIN devices = 1..Len(devices)
    BY <1>2
  <2>2. \A i \in DOMAIN devices : devices[i].vfs_dev \in Nat
    BY DevicesTyped
  <2>3. \A i \in DOMAIN devices : devices[i].vfs_dev <= devices[1].vfs_dev
    <3> SUFFICES ASSUME NEW i \in DOMAIN devices
                 PROVE  devices[i].vfs_dev <= devices[1].vfs_dev
      OBVIOUS
    <3>1. i = 1 \/ 1 < i
      BY <2>1
    <3> QED
      BY <2>1, <2>2, <3>1 DEF DevicesApart
  <2> DEFINE D == {devices[i].vfs_dev : i \in DOMAIN devices}
             d == CHOOSE e \in D : \A i \in DOMAIN devices : devices[i].vfs_dev <= e
  <2>4. d \in D /\ \A i \in DOMAIN devices : devices[i].vfs_dev <= d
    BY <2>1, <2>3
  <2>5. NextDev = 1 + d
    BY <1>2 DEF NextDev
  <2>6. d \in Nat
    BY <2>2, <2>4
  <2> HIDE DEF d
  <2> QED
    BY <2>2, <2>4, <2>5, <2>6
<1> QED
  BY <1>1, <1>2

LEMMA DeviceAdded ==
  ASSUME devices \in Seq(DeviceSet), DevicesApart,
         NEW name \in Places, NEW owner \in Nat, name \notin DeviceNames,
         devices' = DeviceRegistered(name, owner)
  PROVE  /\ devices' \in Seq(DeviceSet) /\ DevicesApart'
         /\ \A d : d \in ToSet(devices) => d \in ToSet(devices')
         /\ \A i \in DOMAIN devices' :
              \/ devices'[i].owner = owner
              \/ \E j \in DOMAIN devices : devices'[i].owner = devices[j].owner
<1> DEFINE x == [name |-> name, vfs_dev |-> NextDev, owner |-> owner]
           L == Len(devices)
<1>1. NextDev \in Nat /\ \A i \in DOMAIN devices : devices[i].vfs_dev < NextDev
  BY NextDevIs
<1>2. x \in DeviceSet /\ L \in Nat /\ DOMAIN devices = 1..L
  BY <1>1 DEF DeviceSet
<1>3. x.name = name /\ x.vfs_dev = NextDev /\ x.owner = owner
  OBVIOUS
<1>4. devices' = <<x>> \o devices
  BY DEF DeviceRegistered
<1> HIDE DEF x
<1>5. <<x>> \in Seq(DeviceSet) /\ Len(<<x>>) = 1 /\ <<x>>[1] = x
  BY <1>2
<1>6. /\ devices' \in Seq(DeviceSet) /\ Len(devices') = 1 + L
      /\ \A i \in 1..(1 + L) : devices'[i] = IF i <= 1 THEN <<x>>[i] ELSE devices[i - 1]
  BY <1>4, <1>5, ConcatProperties
<1>7. DOMAIN devices' = 1..(1 + L)
  BY <1>6
<1>8. devices'[1] = x
  BY <1>2, <1>5, <1>6
<1>9. ASSUME NEW i \in 2..(1 + L)
      PROVE  i - 1 \in 1..L /\ devices'[i] = devices[i - 1]
  BY <1>2, <1>6
<1>10. \A i \in DOMAIN devices' : i = 1 \/ i \in 2..(1 + L)
  BY <1>2, <1>7
<1>11. DevicesApart'
  <2> SUFFICES ASSUME NEW i \in DOMAIN devices', NEW j \in DOMAIN devices', i < j
               PROVE  /\ devices'[i].vfs_dev > devices'[j].vfs_dev
                      /\ devices'[i].name # devices'[j].name
    BY DEF DevicesApart
  <2>1. j \in 2..(1 + L) /\ j - 1 \in 1..L /\ devices'[j] = devices[j - 1]
    BY <1>2, <1>7, <1>9
  <2>2. CASE i = 1
    <3>1. devices[j - 1].vfs_dev < NextDev /\ devices[j - 1].vfs_dev \in Nat
      BY <1>1, <1>2, <2>1, DevicesTyped
    <3>2. devices[j - 1].name # name
      BY <1>2, <2>1 DEF DeviceNames
    <3> QED
      BY <1>1, <1>3, <1>8, <2>1, <2>2, <3>1, <3>2
  <2>3. CASE i \in 2..(1 + L)
    <3>1. i - 1 \in 1..L /\ devices'[i] = devices[i - 1] /\ i - 1 < j - 1
      BY <1>9, <2>1, <2>3
    <3> QED
      BY <1>2, <2>1, <3>1 DEF DevicesApart
  <2> QED
    BY <1>10, <2>2, <2>3
<1>12. ASSUME NEW d \in ToSet(devices) PROVE d \in ToSet(devices')
  <2>1. PICK i \in 1..L : d = devices[i]
    BY <1>2 DEF ToSet
  <2>2. i + 1 \in 2..(1 + L) /\ i + 1 \in DOMAIN devices' /\ (i + 1) - 1 = i
    BY <1>2, <1>7
  <2> QED
    BY <1>9, <2>1, <2>2 DEF ToSet
<1>13. \A i \in DOMAIN devices' :
         \/ devices'[i].owner = owner
         \/ \E j \in DOMAIN devices : devices'[i].owner = devices[j].owner
  BY <1>2, <1>3, <1>8, <1>9, <1>10
<1> QED
  BY <1>6, <1>11, <1>12, <1>13

-----------------------------------------------------------------------------
\* A number is left for every name: there are fewer modules than numbers.
LEMMA FreeNumberIs ==
  ASSUME IsFiniteSet(DOMAIN modules), NEW name
  PROVE  FreeNumber(name) \in Nat /\ Named(name, FreeNumber(name)) = {}
<1> DEFINE C == Cardinality(DOMAIN modules)
           T == {n \in 0..C : Named(name, n) = {}}
<1>1. C \in Nat
  BY FS_CardinalityType
<1> HIDE DEF C
<1>2. T # {}
  <2> SUFFICES ASSUME \A n \in 0..C : Named(name, n) # {} PROVE FALSE
    OBVIOUS
  <2> DEFINE g == [n \in 0..C |-> CHOOSE m \in Named(name, n) : TRUE]
  <2>1. \A n \in 0..C : g[n] \in Named(name, n)
    OBVIOUS
  <2>2. \A n \in 0..C : g[n] \in DOMAIN modules /\ modules[g[n]].nr = n
    BY <2>1 DEF Named
  <2>3. g \in [0..C -> DOMAIN modules]
    BY <2>2
  <2>4. IsFiniteSet(0..C) /\ Cardinality(0..C) = C + 1
    BY <1>1, FS_Interval
  <2> HIDE DEF g
  <2>5. \E x, y \in 0..C : x # y /\ g[x] = g[y]
    BY <1>1, <2>3, <2>4, FS_PigeonHole DEF C
  <2> QED
    BY <2>2, <2>5
<1>3. PICK m \in T : \A n \in T : m <= n
  <2>1. T \in SUBSET Nat
    OBVIOUS
  <2> HIDE DEF T
  <2> QED
    BY <1>2, <2>1, LeastNatural
<1>4. /\ m \in 0..C /\ Named(name, m) = {} /\ \A k \in 0..m - 1 : Named(name, k) # {}
  <2> SUFFICES ASSUME NEW k \in 0..m - 1 PROVE Named(name, k) # {}
    BY <1>3
  <2>1. k \in 0..C /\ ~(m <= k)
    BY <1>1, <1>3
  <2> QED
    BY <1>3, <2>1
<1>5. FreeNumber(name) \in 0..C /\ Named(name, FreeNumber(name)) = {}
  BY <1>4 DEF FreeNumber, C
<1> QED
  BY <1>1, <1>5

LEMMA ModuleRegisteredIs ==
  ASSUME NEW id, NEW name, NEW numbered \in BOOLEAN, NEW parent,
         modules' = ModuleRegistered(id, name, numbered, parent)
  PROVE  /\ DOMAIN modules' = DOMAIN modules \union {id}
         /\ \A m \in DOMAIN modules \ {id} : modules'[m] = modules[m]
         /\ modules'[id].name = name
         /\ numbered => modules'[id].nr = FreeNumber(name)
         /\ ~numbered => modules'[id].nr = Unnumbered
BY DEF ModuleRegistered

LEMMA ModuleUnregisteredIs ==
  ASSUME NEW id, modules' = ModuleUnregistered(id)
  PROVE  /\ DOMAIN modules' \subseteq DOMAIN modules /\ DOMAIN modules \ {id} \subseteq DOMAIN modules'
         /\ \A m \in DOMAIN modules' : modules'[m] = modules[m]
BY DEF ModuleUnregistered

-----------------------------------------------------------------------------
\* A step of an init: the first k claims go, or the first one is made.
Left(k) ==
  /\ k \in 1..Len(todo) /\ todo' \in Seq(ClaimSet)
  /\ DOMAIN todo = 1..Len(todo) /\ DOMAIN todo' = 1..(Len(todo) - k)
  /\ \A i \in DOMAIN todo' : i + k \in DOMAIN todo /\ todo'[i] = todo[i + k]

MadeOne(ok) ==
  /\ made' \in Seq(MadeSet)
  /\ DOMAIN made = 1..Len(made) /\ DOMAIN made' = 1..(Len(made) + 1)
  /\ \A i \in DOMAIN made : made'[i] = made[i]
  /\ made'[Len(made) + 1].claim = This /\ made'[Len(made) + 1].ok = ok

LEMMA HeadIs ==
  ASSUME todo \in Seq(ClaimSet), todo # <<>>
  PROVE  This = todo[1] /\ 1 \in DOMAIN todo /\ This \in ClaimSet
BY DEF This

LEMMA MadeIs ==
  ASSUME Types, todo # <<>>, NEW ok \in BOOLEAN, Made(ok)
  PROVE  Left(1) /\ MadeOne(ok)
<1>1. todo \in Seq(ClaimSet) /\ made \in Seq(MadeSet)
  BY DEF Types
<1>2. This \in ClaimSet
  BY <1>1, HeadIs
<1> DEFINE x == [claim |-> This, ok |-> ok]
<1>3. x \in MadeSet /\ x.claim = This /\ x.ok = ok
  BY <1>2 DEF MadeSet
<1>4. made' = Append(made, x) /\ todo' = Tail(todo)
  BY DEF Made
<1> HIDE DEF x
<1>5. MadeOne(ok)
  <2>1. /\ made' \in Seq(MadeSet) /\ Len(made') = Len(made) + 1
        /\ \A i \in 1..Len(made) : made'[i] = made[i]
        /\ made'[Len(made) + 1] = x
    BY <1>1, <1>3, <1>4
  <2> QED
    BY <1>1, <1>3, <2>1 DEF MadeOne
<1>6. Left(1)
  BY <1>1, <1>4 DEF Left
<1> QED
  BY <1>5, <1>6

\* What the claims that remain keep of ClaimsFit.
LEMMA FitsOn ==
  ASSUME ClaimsFit(init, todo), NEW k \in Nat, Left(k)
  PROVE  ClaimsFit(init, todo')
<1>1. ASSUME NEW i \in DOMAIN todo' PROVE ClaimFits(init, todo'[i])
  <2>1. i + k \in DOMAIN todo /\ todo'[i] = todo[i + k]
    BY DEF Left
  <2> QED
    BY <2>1 DEF ClaimsFit
<1>2. ASSUME NEW i \in DOMAIN todo', NEW j \in DOMAIN todo', i < j
      PROVE  /\ IsLate(todo'[i]) => IsSafe(init, todo'[j])
             /\ todo'[i].op = "drop" /\ todo'[j].op = "drop" => todo'[i].at # todo'[j].at
             /\ init \in Coms => todo'[i].op = "ports" /\ todo'[j].op = "irq"
  <2>1. /\ i + k \in DOMAIN todo /\ todo'[i] = todo[i + k]
        /\ j + k \in DOMAIN todo /\ todo'[j] = todo[j + k]
    BY DEF Left
  <2>2. i + k < j + k
    BY <1>2 DEF Left
  <2> QED
    BY <2>1, <2>2 DEF ClaimsFit
<1> QED
  BY <1>1, <1>2 DEF ClaimsFit

\* Only the last claim of pccom is for a line.
LEMMA ComsGoOn ==
  ASSUME todo \in Seq(ClaimSet), todo # <<>>, ClaimsFit(init, todo), init \in Coms, Left(1)
  PROVE  /\ todo' # <<>> => Head(todo').op # "ports"
         /\ This.op = "irq" => todo' = <<>>
<1>1. This = todo[1] /\ 1 \in DOMAIN todo
  BY HeadIs
<1>2. ASSUME todo' # <<>>
      PROVE  Head(todo').op = "irq" /\ This.op = "ports"
  <2>1. todo' \in Seq(ClaimSet)
    BY DEF Left
  <2>2. 1 \in DOMAIN todo' /\ Head(todo') = todo'[1]
    BY <1>2, <2>1
  <2>3. 2 \in DOMAIN todo /\ todo'[1] = todo[2]
    BY <2>2 DEF Left
  <2>4. todo[1].op = "ports" /\ todo[2].op = "irq"
    BY <1>1, <2>3 DEF ClaimsFit
  <2> QED
    BY <1>1, <2>2, <2>3, <2>4
<1> QED
  BY <1>2

LEMMA MetPortsStay ==
  ASSUME NEW at, MadeOne(TRUE) \/ MadeOne(FALSE), MetPorts(made, at)
  PROVE  MetPorts(made', at)
<1>1. PICK i \in DOMAIN made :
        made[i].claim.op = "ports" /\ made[i].claim.at = at /\ made[i].ok
  BY DEF MetPorts
<1>2. DOMAIN made = 1..Len(made) /\ DOMAIN made' = 1..(Len(made) + 1) /\ made'[i] = made[i]
  BY DEF MadeOne
<1>3. i \in DOMAIN made'
  BY <1>2
<1> QED
  BY <1>1, <1>2, <1>3 DEF MetPorts

LEMMA DropsFollowOn ==
  ASSUME Types, todo # <<>>, DropsFollow(todo, made), NEW ok \in BOOLEAN, Left(1), MadeOne(ok),
         This.op = "ports" /\ This.must = "now" => ok
  PROVE  DropsFollow(todo', made')
<1>1. This = todo[1] /\ 1 \in DOMAIN todo
  BY HeadIs DEF Types
<1>2. SUFFICES ASSUME NEW j \in DOMAIN todo', todo'[j].op = "drop"
      PROVE  \/ MetPorts(made', todo'[j].at)
             \/ \E i \in DOMAIN todo' : /\ i < j /\ todo'[i].op = "ports"
                                        /\ todo'[i].at = todo'[j].at /\ todo'[i].must = "now"
  BY DEF DropsFollow
<1>3. j + 1 \in DOMAIN todo /\ todo'[j] = todo[j + 1]
  BY DEF Left
<1>4. CASE MetPorts(made, todo[j + 1].at)
  <2>1. MadeOne(TRUE) \/ MadeOne(FALSE)
    <3>1. ok = TRUE \/ ok = FALSE
      OBVIOUS
    <3> QED
      BY <3>1
  <2> QED
    BY <1>3, <1>4, <2>1, MetPortsStay
<1>5. CASE \E i \in DOMAIN todo : /\ i < j + 1 /\ todo[i].op = "ports"
                                  /\ todo[i].at = todo[j + 1].at /\ todo[i].must = "now"
  <2>1. PICK i \in DOMAIN todo : /\ i < j + 1 /\ todo[i].op = "ports"
                                 /\ todo[i].at = todo[j + 1].at /\ todo[i].must = "now"
    BY <1>5
  <2>2. CASE i = 1
    <3>1. This.op = "ports" /\ This.at = todo[j + 1].at /\ ok
      BY <1>1, <2>1, <2>2
    <3>2. Len(made) + 1 \in DOMAIN made'
      <4>1. Len(made) \in Nat
        BY DEF Types
      <4> QED
        BY <4>1 DEF MadeOne
    <3>3. MetPorts(made', todo[j + 1].at)
      BY <3>1, <3>2 DEF MetPorts, MadeOne
    <3> QED
      BY <1>3, <3>3
  <2>3. CASE i # 1
    <3>1. i - 1 \in DOMAIN todo' /\ i - 1 < j /\ todo'[i - 1] = todo[i]
      BY <2>1, <2>3 DEF Left
    <3> QED
      BY <1>3, <2>1, <3>1
  <2> QED
    BY <2>2, <2>3
<1>6. \/ MetPorts(made, todo[j + 1].at)
      \/ \E i \in DOMAIN todo : /\ i < j + 1 /\ todo[i].op = "ports"
                               /\ todo[i].at = todo[j + 1].at /\ todo[i].must = "now"
  <2>1. todo[j + 1].op = "drop"
    BY <1>2, <1>3
  <2> QED
    BY <1>3, <2>1 DEF DropsFollow
<1> QED
  BY <1>4, <1>5, <1>6

LEMMA GoesOn ==
  ASSUME Types, Going, mine # NoOwner, todo # <<>>, NEW ok \in BOOLEAN, Left(1), MadeOne(ok),
         This.op = "ports" /\ This.must = "now" => ok, UNCHANGED <<mine, init>>
  PROVE  Going'
<1>1. /\ ClaimsFit(init, todo) /\ DropsFollow(todo, made)
      /\ \A k \in DOMAIN made : ClaimFits(init, made[k].claim)
  BY DEF Going
<1>2. ClaimsFit(init, todo')
  BY <1>1, FitsOn
<1>3. DropsFollow(todo', made')
  BY <1>1, DropsFollowOn
<1>4. init \in Coms /\ todo' # <<>> => Head(todo').op # "ports"
  BY <1>1, ComsGoOn DEF Types
<1>5. \A k \in DOMAIN made' : ClaimFits(init, made'[k].claim)
  <2> SUFFICES ASSUME NEW k \in DOMAIN made' PROVE ClaimFits(init, made'[k].claim)
    OBVIOUS
  <2>1. k \in DOMAIN made \/ k = Len(made) + 1
    BY DEF MadeOne, Types
  <2>2. CASE k \in DOMAIN made
    BY <1>1, <2>2 DEF MadeOne
  <2>3. CASE k = Len(made) + 1
    <3>1. made'[k].claim = This
      BY <2>3 DEF MadeOne
    <3>2. ClaimFits(init, This)
      BY <1>1, HeadIs DEF ClaimsFit, Types
    <3> QED
      BY <3>1, <3>2
  <2> QED
    BY <2>1, <2>2, <2>3
<1> QED
  BY <1>2, <1>3, <1>4, <1>5 DEF Going

\* What the init holds, when the claim made brings nothing or brings one thing.
LEMMA PortsOn ==
  ASSUME Types, HeldPorts, NEW ok \in BOOLEAN, MadeOne(ok), UNCHANGED <<ranges, mine>>,
         This.op = "ports" => ~ok
  PROVE  HeldPorts'
<1>1. ASSUME NEW i \in DOMAIN ranges, ranges[i].owner = mine
      PROVE  MetPorts(made', ranges[i].base)
  <2>1. MetPorts(made, ranges[i].base)
    BY <1>1 DEF HeldPorts
  <2>2. MadeOne(TRUE) \/ MadeOne(FALSE)
    <3>1. ok = TRUE \/ ok = FALSE
      OBVIOUS
    <3> QED
      BY <3>1
  <2> QED
    BY <2>1, <2>2, MetPortsStay
<1>2. ASSUME NEW k \in DOMAIN made', made'[k].claim.op = "ports", made'[k].ok
      PROVE  \E i \in DOMAIN ranges : /\ ranges[i].owner = mine
                                      /\ ranges[i].base = made'[k].claim.at
  <2>1. k \in DOMAIN made \/ k = Len(made) + 1
    BY DEF MadeOne, Types
  <2>2. CASE k \in DOMAIN made
    BY <1>2, <2>2 DEF MadeOne, HeldPorts
  <2>3. CASE k = Len(made) + 1
    BY <1>2, <2>3 DEF MadeOne
  <2> QED
    BY <2>1, <2>2, <2>3
<1> QED
  BY <1>1, <1>2 DEF HeldPorts

LEMMA IrqsOn ==
  ASSUME Types, HeldIrqs, NEW ok \in BOOLEAN, MadeOne(ok), UNCHANGED mine,
         \/ UNCHANGED irqs /\ (This.op = "irq" => ~ok)
         \/ /\ This.op = "irq" /\ ok /\ This.at \in Irqs
            /\ irqs' = [irqs EXCEPT ![This.at] = mine]
  PROVE  HeldIrqs'
<1>1. irqs \in [Irqs -> Ids \union {NoOwner}] /\ Len(made) \in Nat
  BY DEF Types
<1>2. \A i \in Irqs : \/ irqs'[i] = irqs[i]
                      \/ This.op = "irq" /\ ok /\ This.at = i /\ irqs'[i] = mine
  BY <1>1
<1>3. \A i \in Irqs : irqs[i] = mine => irqs'[i] = mine
  BY <1>1
<1>4. This.op = "irq" /\ ok => This.at \in Irqs /\ irqs'[This.at] = mine
  BY <1>1
<1>5. ASSUME NEW i \in Irqs, irqs'[i] = mine
      PROVE  \E k \in DOMAIN made' : /\ made'[k].claim.op = "irq" /\ made'[k].claim.at = i
                                     /\ made'[k].ok
  <2>1. CASE irqs[i] = mine
    <3>1. PICK k \in DOMAIN made : /\ made[k].claim.op = "irq" /\ made[k].claim.at = i
                                   /\ made[k].ok
      BY <2>1 DEF HeldIrqs
    <3>2. k \in DOMAIN made' /\ made'[k] = made[k]
      BY <1>1 DEF MadeOne
    <3> QED
      BY <3>1, <3>2
  <2>2. CASE This.op = "irq" /\ ok /\ This.at = i
    <3>1. Len(made) + 1 \in DOMAIN made'
      BY <1>1 DEF MadeOne
    <3> QED
      BY <2>2, <3>1 DEF MadeOne
  <2> QED
    BY <1>2, <1>5, <2>1, <2>2
<1>6. ASSUME NEW k \in DOMAIN made', made'[k].claim.op = "irq", made'[k].ok
      PROVE  made'[k].claim.at \in Irqs /\ irqs'[made'[k].claim.at] = mine
  <2>1. k \in DOMAIN made \/ k = Len(made) + 1
    BY <1>1 DEF MadeOne
  <2>2. CASE k \in DOMAIN made
    <3>1. made'[k] = made[k]
      BY <2>2 DEF MadeOne
    <3>2. made[k].claim.at \in Irqs /\ irqs[made[k].claim.at] = mine
      BY <1>6, <2>2, <3>1 DEF HeldIrqs
    <3> QED
      BY <1>3, <3>1, <3>2
  <2>3. CASE k = Len(made) + 1
    <3>1. made'[k].claim = This /\ made'[k].ok = ok
      BY <2>3 DEF MadeOne
    <3> QED
      BY <1>4, <1>6, <3>1
  <2> QED
    BY <2>1, <2>2, <2>3
<1> QED
  BY <1>5, <1>6 DEF HeldIrqs

\* What is held for good was claimed last, or the claim that brings it is.
LEMMA ForGoodOn ==
  ASSUME Types, todo # <<>>, HeldForGood, ClaimsFit(init, todo), NEW k \in Nat, Left(k),
         UNCHANGED <<init, mine>>,
         IsLate(This) \/ UNCHANGED <<devices, dmas>>
  PROVE  HeldForGood'
<1>1. This = todo[1] /\ 1 \in DOMAIN todo
  BY HeadIs DEF Types
<1>2. ASSUME NEW j \in DOMAIN todo'
      PROVE  j + k \in DOMAIN todo /\ todo'[j] = todo[j + k] /\ 1 < j + k
  BY DEF Left
<1>3. CASE IsLate(This)
  <2>1. \A j \in DOMAIN todo : 1 < j => IsSafe(init, todo[j])
    BY <1>1, <1>3 DEF ClaimsFit
  <2>2. \A j \in DOMAIN todo' : IsSafe(init, todo'[j])
    BY <1>2, <2>1
  <2> QED
    BY <2>2 DEF HeldForGood
<1>4. CASE UNCHANGED <<devices, dmas>>
  <2>1. (\A j \in DOMAIN todo : IsSafe(init, todo[j])) =>
          \A j \in DOMAIN todo' : IsSafe(init, todo'[j])
    BY <1>2
  <2> QED
    BY <1>4, <2>1 DEF HeldForGood
<1> QED
  BY <1>3, <1>4

\* An init with claims left has not got the line of pccom yet.
LEMMA ComIrqsOn ==
  ASSUME ComIrqs, mine # NoOwner, todo # <<>>, UNCHANGED <<init, irqs>>
  PROVE  ComIrqs'
BY DEF ComIrqs

LEMMA OldBasesOn ==
  ASSUME OldBases, UNCHANGED <<ranges, mine, init>>
  PROVE  OldBases'
BY DEF OldBases

LEMMA OwnersOn ==
  ASSUME OwnersRegistered, UNCHANGED <<ranges, irqs, dmas, devices, modules>>
  PROVE  OwnersRegistered'
BY DEF OwnersRegistered

LEMMA ModulesOn ==
  ASSUME ModulesApart, ModulesTyped, UNCHANGED <<modules, init, mine>>
  PROVE  ModulesApart' /\ ModulesTyped'
BY DEF ModulesApart, ModulesTyped

LEMMA NamesOn ==
  ASSUME Names, UNCHANGED <<modules, devices, init, mine>>
  PROVE  Names'
BY ModulesOn DEF Names, DevicesApart

LEMMA DisjointOn ==
  ASSUME PortsDisjoint, UNCHANGED ranges
  PROVE  PortsDisjoint'
BY DEF PortsDisjoint

-----------------------------------------------------------------------------
\* One lemma for each step that makes a claim.
LEMMA TypesOn ==
  ASSUME Types, UNCHANGED <<init, mine, born, modules>>,
         todo' \in Seq(ClaimSet), made' \in Seq(MadeSet),
         ranges' \in Seq(RangeSet), devices' \in Seq(DeviceSet),
         irqs' \in [Irqs -> Ids \union {NoOwner}],
         dmas' \in [DmaChannels -> Ids \union {NoOwner}]
  PROVE  Types'
BY DEF Types, Ids

LEMMA AskedAreNumbers == \A n : AskedBy(n) \subseteq Nat
BY PortsAssumption DEF AskedBy

LEMMA OwnerIs ==
  ASSUME Types, mine # NoOwner
  PROVE  mine \in Nat /\ mine \in Ids /\ mine \in DOMAIN modules /\ init \in 1..19
<1>1. mine \in 0..(born - 1) /\ mine \in DOMAIN modules /\ init \in 1..BootEnds /\ init < Mounting
  BY DEF Types, Ids
<1>2. Mounting = 20 /\ BootEnds = 24
  BY InitsAre
<1>3. mine \in Nat /\ init \in 1..19
  <2>1. born \in Nat
    BY DEF Types
  <2> QED
    BY <1>1, <1>2, <2>1
<1> QED
  BY <1>1, <1>3 DEF Ids

LEMMA Unfolded ==
  ASSUME BootInv, mine # NoOwner
  PROVE  /\ Types /\ Going /\ HeldPorts /\ HeldIrqs /\ HeldForGood /\ OldBases /\ ComIrqs
         /\ PortsDisjoint /\ Apart(ranges) /\ OwnersRegistered
         /\ Names /\ DevicesApart /\ ModulesApart /\ ModulesTyped
         /\ ClaimsFit(init, todo) /\ DropsFollow(todo, made)
         /\ \A k \in DOMAIN made : ClaimFits(init, made[k].claim)
<1>1. PortsDisjoint <=> Apart(ranges)
  BY DEF PortsDisjoint, Apart
<1> QED
  BY <1>1 DEF BootInv, Held, Going, Names

LEMMA HeadFits ==
  ASSUME BootInv, mine # NoOwner, todo # <<>>
  PROVE  ClaimFits(init, This) /\ This \in ClaimSet
<1>1. This = todo[1] /\ 1 \in DOMAIN todo /\ This \in ClaimSet
  BY HeadIs DEF BootInv, Types
<1> QED
  BY <1>1, Unfolded DEF ClaimsFit

LEMMA NothingTaken ==
  ASSUME BootInv, mine # NoOwner, todo # <<>>, NEW ok \in BOOLEAN, Made(ok),
         UNCHANGED <<modules, init, mine, born, ranges, irqs, dmas, devices>>,
         This.op \in {"ports", "irq"} => ~ok,
         This.op = "ports" /\ This.must = "now" => ok
  PROVE  BootInv'
<1>1. Left(1) /\ MadeOne(ok)
  BY MadeIs DEF BootInv
<1>2. Types'
  BY <1>1, Unfolded, TypesOn DEF Types, Left, MadeOne
<1>3. Going'
  BY <1>1, Unfolded, GoesOn
<1>4. HeldPorts' /\ HeldIrqs'
  BY <1>1, Unfolded, PortsOn, IrqsOn
<1>5. HeldForGood'
  BY <1>1, Unfolded, ForGoodOn
<1>6. OldBases' /\ ComIrqs' /\ PortsDisjoint' /\ OwnersRegistered' /\ Names'
  BY Unfolded, OldBasesOn, ComIrqsOn, DisjointOn, OwnersOn, NamesOn
<1> QED
  BY <1>2, <1>3, <1>4, <1>5, <1>6 DEF BootInv, Held

LEMMA AddFormatKeeps == ASSUME BootInv, AddFormat PROVE BootInv'
<1>1. mine # NoOwner /\ todo # <<>> /\ This.op \in {"emulation", "filesystem"} /\ Made(TRUE)
  BY DEF AddFormat, Claiming, This
<1> QED
  BY <1>1, NothingTaken DEF AddFormat, InitGoesOn

LEMMA CheckPassesKeeps == ASSUME BootInv, CheckPasses PROVE BootInv'
<1>1. mine # NoOwner /\ todo # <<>> /\ This.op \in {"memory", "found", "check"} /\ Made(TRUE)
  BY DEF CheckPasses, Claiming, This
<1> QED
  BY <1>1, NothingTaken DEF CheckPasses, InitGoesOn

LEMMA GoOnWithoutKeeps == ASSUME BootInv, GoOnWithout PROVE BootInv'
<1>1. mine # NoOwner /\ todo # <<>> /\ This.must # "now" /\ Made(FALSE)
  BY DEF GoOnWithout, Refusable, Claiming
<1> QED
  BY <1>1, NothingTaken DEF GoOnWithout, InitGoesOn

LEMMA TakePortsKeeps == ASSUME BootInv, TakePorts PROVE BootInv'
<1>1. /\ mine # NoOwner /\ todo # <<>> /\ This.op = "ports" /\ Made(TRUE)
      /\ PortsFree(This.at, This.n) /\ ranges' = PortsRegistered(This.at, This.n, mine)
      /\ UNCHANGED <<modules, init, mine, born, irqs, dmas, devices>>
  BY DEF TakePorts, Claiming, This, InitGoesOn
<1>2. Left(1) /\ MadeOne(TRUE)
  BY <1>1, MadeIs DEF BootInv
<1>3. This.at \in Nat /\ This.n \in Nat \ {0}
  BY <1>1, HeadFits, AskedAreNumbers DEF ClaimFits, ClaimSet
<1>4. mine \in Nat /\ mine \in DOMAIN modules
  BY <1>1, Unfolded, OwnerIs
<1> DEFINE L == Len(ranges)
<1>5. /\ ranges' \in Seq(RangeSet) /\ Apart(ranges')
      /\ DOMAIN ranges' = 1..(L + 1) /\ DOMAIN ranges = 1..L
      /\ \A i \in DOMAIN ranges : ranges'[i] = ranges[i]
      /\ ranges'[L + 1].base = This.at /\ ranges'[L + 1].owner = mine
  <2>1. ranges \in Seq(RangeSet) /\ Apart(ranges) /\ DOMAIN ranges = 1..Len(ranges)
    BY <1>1, Unfolded DEF Types
  <2> QED
    BY <1>1, <1>3, <1>4, <2>1, PortsRegisteredIs
<1>6. L \in Nat /\ L + 1 \in DOMAIN ranges' /\ \A i \in DOMAIN ranges' : i \in DOMAIN ranges \/ i = L + 1
  BY <1>1, <1>5, Unfolded DEF Types
<1>7. Types'
  BY <1>1, <1>2, <1>5, Unfolded, TypesOn DEF Types, Left, MadeOne
<1>8. Going'
  BY <1>1, <1>2, Unfolded, GoesOn
<1>9. Len(made) + 1 \in DOMAIN made' /\ made'[Len(made) + 1].claim = This /\ made'[Len(made) + 1].ok
      /\ \A k \in DOMAIN made' : k \in DOMAIN made \/ k = Len(made) + 1
  <2>1. Len(made) \in Nat
    BY <1>1, Unfolded DEF Types
  <2> QED
    BY <1>2, <2>1 DEF MadeOne
<1> HIDE DEF L
<1>10. HeldPorts'
  <2>1. ASSUME NEW i \in DOMAIN ranges', ranges'[i].owner = mine
        PROVE  MetPorts(made', ranges'[i].base)
    <3>1. CASE i \in DOMAIN ranges
      <4>1. MetPorts(made, ranges[i].base)
        BY <1>1, <1>5, <2>1, <3>1, Unfolded DEF HeldPorts
      <4> QED
        BY <1>2, <1>5, <3>1, <4>1, MetPortsStay
    <3>2. CASE i = L + 1
      BY <1>1, <1>5, <1>9, <3>2 DEF MetPorts
    <3> QED
      BY <1>6, <3>1, <3>2
  <2>2. ASSUME NEW k \in DOMAIN made', made'[k].claim.op = "ports", made'[k].ok
        PROVE  \E i \in DOMAIN ranges' : /\ ranges'[i].owner = mine
                                         /\ ranges'[i].base = made'[k].claim.at
    <3>1. CASE k \in DOMAIN made
      <4>1. made'[k] = made[k]
        BY <1>2, <3>1 DEF MadeOne
      <4>2. PICK i \in DOMAIN ranges : ranges[i].owner = mine /\ ranges[i].base = made[k].claim.at
        BY <1>1, <2>2, <3>1, <4>1, Unfolded DEF HeldPorts
      <4>3. i \in DOMAIN ranges'
        BY <1>5, <1>6, <4>2
      <4> QED
        BY <1>5, <4>1, <4>2, <4>3
    <3>2. CASE k = Len(made) + 1
      BY <1>5, <1>6, <1>9, <3>2
    <3> QED
      BY <1>9, <3>1, <3>2
  <2> QED
    BY <1>1, <2>1, <2>2 DEF HeldPorts
<1>11. HeldIrqs' /\ HeldForGood'
  BY <1>1, <1>2, Unfolded, IrqsOn, ForGoodOn
<1>12. OldBases'
  BY <1>1, <1>5, <1>6, Unfolded DEF OldBases
<1>13. ComIrqs' /\ Names'
  BY <1>1, Unfolded, ComIrqsOn, NamesOn
<1>14. PortsDisjoint'
  BY <1>5 DEF PortsDisjoint, Apart
<1>15. OwnersRegistered'
  BY <1>1, <1>4, <1>5, <1>6, Unfolded DEF OwnersRegistered
<1> QED
  BY <1>1, <1>7, <1>8, <1>10, <1>11, <1>12, <1>13, <1>14, <1>15 DEF BootInv, Held

LEMMA TakeIrqKeeps == ASSUME BootInv, TakeIrq PROVE BootInv'
<1>1. /\ mine # NoOwner /\ todo # <<>> /\ This.op = "irq" /\ Made(TRUE)
      /\ This.at \in Irqs /\ irqs[This.at] = NoOwner
      /\ irqs' = [irqs EXCEPT ![This.at] = mine]
      /\ UNCHANGED <<modules, init, mine, born, ranges, dmas, devices>>
  BY DEF TakeIrq, Claiming, This, InitGoesOn, IrqFree
<1>2. Left(1) /\ MadeOne(TRUE)
  BY <1>1, MadeIs DEF BootInv
<1>3. mine \in Nat /\ mine \in Ids /\ mine \in DOMAIN modules /\ init \in 1..19
  BY <1>1, Unfolded, OwnerIs
<1>4. /\ irqs \in [Irqs -> Ids \union {NoOwner}]
      /\ irqs' \in [Irqs -> Ids \union {NoOwner}]
      /\ \A i \in Irqs : irqs'[i] = irqs[i] \/ (i = This.at /\ irqs'[i] = mine)
  <2>1. irqs \in [Irqs -> Ids \union {NoOwner}]
    BY <1>1, Unfolded DEF Types
  <2> HIDE DEF Ids
  <2> QED
    BY <1>1, <1>3, <2>1
<1>5. Types'
  BY <1>1, <1>2, <1>4, Unfolded, TypesOn DEF Types, Left, MadeOne
<1>6. Going' /\ HeldPorts'
  BY <1>1, <1>2, Unfolded, GoesOn, PortsOn
<1>7. HeldIrqs'
  BY <1>1, <1>2, Unfolded, IrqsOn
<1>8. HeldForGood'
  BY <1>1, <1>2, Unfolded, ForGoodOn
<1>9. ComIrqs'
  <2> SUFFICES ASSUME NEW n \in Coms, irqs'[10 - n] # NoOwner
               PROVE  n < init \/ (n = init /\ todo' = <<>>)
    BY <1>1 DEF ComIrqs
  <2>1. n \in {6, 7} /\ 10 - n \in {3, 4} /\ 10 - n \in Irqs
    BY LinesAssumption DEF Coms
  <2>2. CASE irqs[10 - n] # NoOwner
    BY <1>1, <2>2, Unfolded DEF ComIrqs
  <2>3. CASE 10 - n = This.at
    <3>1. ClaimFits(init, This)
      BY <1>1, HeadFits
    <3>2. init < 6 => This.at = 1
      BY <1>1, <3>1 DEF ClaimFits
    <3>3. init \in Coms => This.at = 10 - init /\ todo' = <<>>
      BY <1>1, <1>2, <3>1, Unfolded, ComsGoOn DEF ClaimFits, Types
    <3>4. init >= 6 /\ (init \in {6, 7} \/ init > 7)
      BY <1>3, <2>1, <2>3, <3>2
    <3>5. CASE init \in {6, 7}
      BY <2>1, <2>3, <3>3, <3>5 DEF Coms
    <3>6. CASE init > 7
      BY <1>3, <2>1, <3>6
    <3> QED
      BY <3>4, <3>5, <3>6
  <2> QED
    BY <1>4, <2>1, <2>2, <2>3
<1>10. OwnersRegistered'
  BY <1>1, <1>3, <1>4, Unfolded DEF OwnersRegistered
<1>11. OldBases' /\ PortsDisjoint' /\ Names'
  BY <1>1, Unfolded, OldBasesOn, DisjointOn, NamesOn
<1> QED
  BY <1>1, <1>5, <1>6, <1>7, <1>8, <1>9, <1>10, <1>11 DEF BootInv, Held

LEMMA TakeDmaKeeps == ASSUME BootInv, TakeDma PROVE BootInv'
<1>1. /\ mine # NoOwner /\ todo # <<>> /\ This.op = "dma" /\ Made(TRUE)
      /\ dmas' = [dmas EXCEPT ![This.at] = mine]
      /\ UNCHANGED <<modules, init, mine, born, ranges, irqs, devices>>
  BY DEF TakeDma, Claiming, This, InitGoesOn
<1>2. Left(1) /\ MadeOne(TRUE)
  BY <1>1, MadeIs DEF BootInv
<1>3. mine \in Ids /\ mine \in DOMAIN modules
  BY <1>1, Unfolded, OwnerIs
<1>4. /\ dmas' \in [DmaChannels -> Ids \union {NoOwner}]
      /\ \A c \in DmaChannels : dmas'[c] = dmas[c] \/ dmas'[c] = mine
  <2>1. dmas \in [DmaChannels -> Ids \union {NoOwner}]
    BY <1>1, Unfolded DEF Types
  <2> HIDE DEF Ids
  <2> QED
    BY <1>1, <1>3, <2>1
<1>5. Types'
  BY <1>1, <1>2, <1>4, Unfolded, TypesOn DEF Types, Left, MadeOne
<1>6. Going' /\ HeldPorts' /\ HeldIrqs'
  BY <1>1, <1>2, Unfolded, GoesOn, PortsOn, IrqsOn
<1>7. HeldForGood'
  BY <1>1, <1>2, Unfolded, ForGoodOn DEF IsLate
<1>8. OwnersRegistered'
  BY <1>1, <1>3, <1>4, Unfolded DEF OwnersRegistered
<1>9. OldBases' /\ ComIrqs' /\ PortsDisjoint' /\ Names'
  BY <1>1, Unfolded, OldBasesOn, ComIrqsOn, DisjointOn, NamesOn
<1> QED
  BY <1>1, <1>5, <1>6, <1>7, <1>8, <1>9 DEF BootInv, Held

\* A device added by the init that runs.
LEMMA DeviceTaken ==
  ASSUME BootInv, mine # NoOwner, todo # <<>>, NEW at \in Places, at \notin DeviceNames,
         devices' = DeviceRegistered(at, mine), UNCHANGED <<modules, init, mine, born>>
  PROVE  /\ devices' \in Seq(DeviceSet) /\ Names'
         /\ \A i \in DOMAIN devices' : devices'[i].owner \in DOMAIN modules
<1>1. mine \in Nat /\ mine \in DOMAIN modules
  BY Unfolded, OwnerIs
<1>2. /\ devices' \in Seq(DeviceSet) /\ DevicesApart'
      /\ \A i \in DOMAIN devices' :
           \/ devices'[i].owner = mine
           \/ \E j \in DOMAIN devices : devices'[i].owner = devices[j].owner
  <2>1. devices \in Seq(DeviceSet) /\ DevicesApart
    BY Unfolded DEF Types
  <2> QED
    BY <1>1, <2>1, DeviceAdded
<1>3. \A i \in DOMAIN devices' : devices'[i].owner \in DOMAIN modules
  BY <1>1, <1>2, Unfolded DEF OwnersRegistered
<1>4. Names'
  BY <1>2, Unfolded, ModulesOn DEF Names
<1> QED
  BY <1>2, <1>3, <1>4

LEMMA OneDevice ==
  ASSUME BootInv, mine # NoOwner, todo # <<>>, Made(TRUE),
         This.op \in {"device", "partition"}, This.at \notin DeviceNames,
         devices' = DeviceRegistered(This.at, mine),
         UNCHANGED <<modules, init, mine, born, ranges, irqs, dmas>>
  PROVE  BootInv'
<1>1. Left(1) /\ MadeOne(TRUE)
  BY MadeIs DEF BootInv
<1>2. This.at \in Places
  BY HeadFits DEF ClaimSet
<1>3. /\ devices' \in Seq(DeviceSet) /\ Names'
      /\ \A i \in DOMAIN devices' : devices'[i].owner \in DOMAIN modules
  BY <1>2, DeviceTaken
<1>4. Types'
  BY <1>1, <1>3, Unfolded, TypesOn DEF Types, Left, MadeOne
<1>5. Going' /\ HeldPorts' /\ HeldIrqs'
  BY <1>1, Unfolded, GoesOn, PortsOn, IrqsOn
<1>6. HeldForGood'
  BY <1>1, Unfolded, ForGoodOn DEF IsLate
<1>7. OwnersRegistered'
  BY <1>3, Unfolded DEF OwnersRegistered
<1>8. OldBases' /\ ComIrqs' /\ PortsDisjoint'
  BY Unfolded, OldBasesOn, ComIrqsOn, DisjointOn
<1> QED
  BY <1>3, <1>4, <1>5, <1>6, <1>7, <1>8 DEF BootInv, Held

LEMMA AddDeviceKeeps == ASSUME BootInv, AddDevice PROVE BootInv'
<1>1. /\ mine # NoOwner /\ todo # <<>> /\ Made(TRUE)
      /\ This.op \in {"device", "partition"} /\ This.at \notin DeviceNames
      /\ devices' = DeviceRegistered(This.at, mine)
      /\ UNCHANGED <<modules, init, mine, born, ranges, irqs, dmas>>
  BY DEF AddDevice, Claiming, This, InitGoesOn
<1> QED
  BY <1>1, OneDevice

LEMMA AddPartitionKeeps == ASSUME BootInv, AddPartition PROVE BootInv'
<1>1. /\ mine # NoOwner /\ todo # <<>> /\ Made(TRUE)
      /\ This.op \in {"device", "partition"} /\ This.at \notin DeviceNames
      /\ devices' = DeviceRegistered(This.at, mine)
      /\ UNCHANGED <<modules, init, mine, born, ranges, irqs, dmas>>
  BY DEF AddPartition, Claiming, This, InitGoesOn
<1> QED
  BY <1>1, OneDevice

LEMMA DiskWithoutPartitionsKeeps == ASSUME BootInv, DiskWithoutPartitions PROVE BootInv'
<1>1. /\ mine # NoOwner /\ todo # <<>> /\ This.op = "device"
      /\ UNCHANGED <<modules, init, mine, born, made, ranges, irqs, dmas>>
      /\ \/ This.at \notin DeviceNames /\ devices' = DeviceRegistered(This.at, mine)
         \/ devices' = devices
  BY DEF DiskWithoutPartitions, Claiming, This, InitGoesOn
<1>2. PICK next \in 2..Len(todo) + 1 :
        /\ \A i \in 2..next - 1 : todo[i].op = "partition"
        /\ todo' = SubSeq(todo, next, Len(todo))
  BY DEF DiskWithoutPartitions
<1>3. todo \in Seq(ClaimSet) /\ Len(todo) \in Nat /\ DOMAIN todo = 1..Len(todo) /\ This = todo[1]
  BY <1>1, Unfolded, HeadIs DEF Types
<1> DEFINE k == next - 1
<1>4. k \in Nat /\ Left(k)
  <2>1. k \in 1..Len(todo) /\ Len(todo) - next + 1 = Len(todo) - k
    BY <1>2, <1>3
  <2>2. /\ todo' \in Seq(ClaimSet) /\ Len(todo') = Len(todo) - k
        /\ \A i \in 1..(Len(todo) - k) : todo'[i] = todo[next + i - 1]
    BY <1>2, <1>3
  <2>3. ASSUME NEW i \in DOMAIN todo'
        PROVE  i + k \in DOMAIN todo /\ todo'[i] = todo[i + k]
    <3>1. i \in 1..(Len(todo) - k) /\ next + i - 1 = i + k
      BY <1>2, <2>2
    <3> QED
      BY <1>3, <2>1, <2>2, <3>1
  <2>4. DOMAIN todo' = 1..(Len(todo) - k)
    BY <2>2
  <2> QED
    BY <1>3, <2>1, <2>2, <2>3, <2>4 DEF Left
<1>5. \A i \in 1..k : todo[i].op \in {"device", "partition"}
  BY <1>1, <1>2, <1>3
<1> HIDE DEF k
<1>6. /\ devices' \in Seq(DeviceSet) /\ Names'
      /\ \A i \in DOMAIN devices' : devices'[i].owner \in DOMAIN modules
  <2>1. CASE This.at \notin DeviceNames /\ devices' = DeviceRegistered(This.at, mine)
    <3>1. This.at \in Places
      BY <1>1, HeadFits DEF ClaimSet
    <3> QED
      BY <1>1, <2>1, <3>1, DeviceTaken
  <2>2. CASE devices' = devices
    BY <1>1, <2>2, Unfolded, NamesOn DEF Types, OwnersRegistered
  <2> QED
    BY <1>1, <2>1, <2>2
<1>7. Types'
  BY <1>1, <1>4, <1>6, Unfolded, TypesOn DEF Types, Left
<1>8. Going'
  <2>1. init \notin Coms
    BY <1>1, HeadFits DEF ClaimFits
  <2>2. ClaimsFit(init, todo')
    BY <1>1, <1>4, Unfolded, FitsOn
  <2>3. DropsFollow(todo', made)
    <3> SUFFICES ASSUME NEW j \in DOMAIN todo', todo'[j].op = "drop"
          PROVE  \/ MetPorts(made, todo'[j].at)
                 \/ \E i \in DOMAIN todo' : /\ i < j /\ todo'[i].op = "ports"
                                            /\ todo'[i].at = todo'[j].at /\ todo'[i].must = "now"
      BY DEF DropsFollow
    <3>1. j + k \in DOMAIN todo /\ todo'[j] = todo[j + k] /\ todo[j + k].op = "drop"
      BY <1>4 DEF Left
    <3>2. CASE MetPorts(made, todo[j + k].at)
      BY <3>1, <3>2
    <3>3. CASE \E i \in DOMAIN todo : /\ i < j + k /\ todo[i].op = "ports"
                                      /\ todo[i].at = todo[j + k].at /\ todo[i].must = "now"
      <4>1. PICK i \in DOMAIN todo : /\ i < j + k /\ todo[i].op = "ports"
                                     /\ todo[i].at = todo[j + k].at /\ todo[i].must = "now"
        BY <3>3
      <4>2. i \in 1..Len(todo) /\ i \notin 1..k
        BY <1>3, <1>5, <4>1
      <4>3. i - k \in DOMAIN todo' /\ i - k < j /\ (i - k) + k = i
        BY <1>3, <1>4, <4>1, <4>2 DEF Left
      <4>4. todo'[i - k] = todo[i]
        BY <1>4, <4>3 DEF Left
      <4> QED
        BY <3>1, <4>1, <4>3, <4>4
    <3> QED
      BY <1>1, <3>1, <3>2, <3>3, Unfolded DEF DropsFollow
  <2> QED
    BY <1>1, <2>1, <2>2, <2>3, Unfolded DEF Going
<1>9. HeldPorts' /\ HeldIrqs'
  BY <1>1, Unfolded DEF HeldPorts, HeldIrqs
<1>10. HeldForGood'
  BY <1>1, <1>4, Unfolded, ForGoodOn DEF IsLate
<1>11. OwnersRegistered'
  BY <1>1, <1>6, Unfolded DEF OwnersRegistered
<1>12. OldBases' /\ ComIrqs' /\ PortsDisjoint'
  BY <1>1, Unfolded, OldBasesOn, ComIrqsOn, DisjointOn
<1> QED
  BY <1>1, <1>6, <1>7, <1>8, <1>9, <1>10, <1>11, <1>12 DEF BootInv, Held

\* A claim that was met until its range was given back.
LEMMA NotMet ==
  ASSUME NEW m \in MadeSet, NEW P \in BOOLEAN, NEW x, x = [m EXCEPT !.ok = @ /\ P]
  PROVE  x \in MadeSet /\ x.claim = m.claim /\ (x.ok <=> m.ok /\ P)
<1>1. m.ok \in BOOLEAN /\ (m.ok /\ P) \in BOOLEAN /\ m.claim \in ClaimSet
  BY DEF MadeSet
<1> QED
  BY <1>1 DEF MadeSet

LEMMA DropIs ==
  ASSUME BootInv, DropPorts
  PROVE  /\ mine # NoOwner /\ todo # <<>> /\ This.op = "drop" /\ Left(1)
         /\ UNCHANGED <<modules, init, mine, born, irqs, dmas, devices>>
         /\ made' \in Seq(MadeSet) /\ DOMAIN made' = DOMAIN made
         /\ \A k \in DOMAIN made :
              /\ made'[k].claim = made[k].claim
              /\ made'[k].ok <=> /\ made[k].ok
                                 /\ ~(made[k].claim.op = "ports" /\ made[k].claim.at = This.at)
         /\ MetPorts(made, This.at)
         /\ ranges' \in Seq(RangeSet) /\ Apart(ranges')
         /\ \A r : r \in ToSet(ranges') <=> r \in ToSet(ranges) /\ r.base # This.at
<1>1. /\ mine # NoOwner /\ todo # <<>> /\ This.op = "drop" /\ todo' = Tail(todo)
      /\ UNCHANGED <<modules, init, mine, born, irqs, dmas, devices>>
      /\ ranges' = PortsUnregistered(ranges, This.at)
  BY DEF DropPorts, Claiming, This, InitGoesOn
<1>2. todo \in Seq(ClaimSet) /\ made \in Seq(MadeSet) /\ ranges \in Seq(RangeSet) /\ Apart(ranges)
  BY <1>1, Unfolded DEF Types
<1>3. Left(1)
  BY <1>1, <1>2 DEF Left
<1> DEFINE P(k) == ~(made[k].claim.op = "ports" /\ made[k].claim.at = This.at)
<1>4. made' = [k \in DOMAIN made |-> [made[k] EXCEPT !.ok = @ /\ P(k)]]
  BY DEF DropPorts
<1>5. ASSUME NEW k \in DOMAIN made
      PROVE  made'[k] \in MadeSet /\ made'[k].claim = made[k].claim
             /\ (made'[k].ok <=> made[k].ok /\ P(k))
  <2>1. made'[k] = [made[k] EXCEPT !.ok = @ /\ P(k)] /\ made[k] \in MadeSet
    BY <1>2, <1>4
  <2>2. P(k) \in BOOLEAN
    OBVIOUS
  <2> HIDE DEF P
  <2> QED
    BY <2>1, <2>2, NotMet
<1>6. made' \in Seq(MadeSet) /\ DOMAIN made' = DOMAIN made
  <2>1. DOMAIN made' = DOMAIN made /\ made' = [k \in DOMAIN made' |-> made'[k]]
    BY <1>4
  <2>2. DOMAIN made = 1..Len(made) /\ Len(made) \in Nat
    BY <1>2
  <2>3. made' \in [1..Len(made) -> MadeSet]
    <3> HIDE DEF P
    <3> QED
      BY <1>5, <2>1, <2>2
  <2> QED
    BY <2>1, <2>2, <2>3
<1>7. MetPorts(made, This.at)
  <2>1. This = todo[1] /\ 1 \in DOMAIN todo /\ \A i \in DOMAIN todo : ~(i < 1)
    BY <1>1, <1>2, HeadIs
  <2> QED
    BY <1>1, <2>1, Unfolded DEF DropsFollow
<1>8. /\ ranges' \in Seq(RangeSet) /\ Apart(ranges')
      /\ \A r : r \in ToSet(ranges') <=> r \in ToSet(ranges) /\ r.base # This.at
  BY <1>1, <1>2, Unregistering
<1> QED
  BY <1>1, <1>3, <1>5, <1>6, <1>7, <1>8

LEMMA DropPortsKeeps == ASSUME BootInv, DropPorts PROVE BootInv'
<1>1. /\ mine # NoOwner /\ todo # <<>> /\ This.op = "drop" /\ Left(1)
      /\ UNCHANGED <<modules, init, mine, born, irqs, dmas, devices>>
      /\ made' \in Seq(MadeSet) /\ DOMAIN made' = DOMAIN made
  BY DropIs
<1>2. \A k \in DOMAIN made :
        /\ made'[k].claim = made[k].claim
        /\ made'[k].ok <=> /\ made[k].ok
                           /\ ~(made[k].claim.op = "ports" /\ made[k].claim.at = This.at)
  BY DropIs
<1>3. /\ ranges' \in Seq(RangeSet) /\ Apart(ranges')
      /\ \A r : r \in ToSet(ranges') <=> r \in ToSet(ranges) /\ r.base # This.at
  BY DropIs
<1>4. ASSUME NEW at, at # This.at, MetPorts(made, at) PROVE MetPorts(made', at)
  BY <1>1, <1>2, <1>4 DEF MetPorts
<1>5. ASSUME NEW i \in DOMAIN ranges'
      PROVE  \E j \in DOMAIN ranges : ranges'[i] = ranges[j] /\ ranges[j].base # This.at
  BY <1>3 DEF ToSet
<1>6. ASSUME NEW j \in DOMAIN ranges, ranges[j].base # This.at
      PROVE  \E i \in DOMAIN ranges' : ranges'[i] = ranges[j]
  BY <1>3, <1>6 DEF ToSet
<1>7. Types'
  BY <1>1, <1>3, Unfolded, TypesOn DEF Types, Left
<1>8. Going'
  <2>1. init \notin Coms /\ This = todo[1] /\ 1 \in DOMAIN todo
    BY <1>1, HeadFits, HeadIs, Unfolded DEF ClaimFits, Types
  <2>2. ClaimsFit(init, todo')
    BY <1>1, Unfolded, FitsOn
  <2>3. DropsFollow(todo', made')
    <3> SUFFICES ASSUME NEW j \in DOMAIN todo', todo'[j].op = "drop"
          PROVE  \/ MetPorts(made', todo'[j].at)
                 \/ \E i \in DOMAIN todo' : /\ i < j /\ todo'[i].op = "ports"
                                            /\ todo'[i].at = todo'[j].at /\ todo'[i].must = "now"
      BY DEF DropsFollow
    <3>1. j + 1 \in DOMAIN todo /\ todo'[j] = todo[j + 1] /\ 1 < j + 1
      BY <1>1 DEF Left
    <3>2. todo[j + 1].op = "drop" /\ todo[j + 1].at # This.at
      BY <1>1, <2>1, <3>1, Unfolded DEF ClaimsFit
    <3>3. CASE MetPorts(made, todo[j + 1].at)
      BY <1>4, <3>1, <3>2, <3>3
    <3>4. CASE \E i \in DOMAIN todo : /\ i < j + 1 /\ todo[i].op = "ports"
                                      /\ todo[i].at = todo[j + 1].at /\ todo[i].must = "now"
      <4>1. PICK i \in DOMAIN todo : /\ i < j + 1 /\ todo[i].op = "ports"
                                     /\ todo[i].at = todo[j + 1].at /\ todo[i].must = "now"
        BY <3>4
      <4>2. i # 1
        BY <1>1, <2>1, <4>1
      <4>3. i - 1 \in DOMAIN todo' /\ i - 1 < j /\ todo'[i - 1] = todo[i]
        BY <1>1, <4>1, <4>2 DEF Left
      <4> QED
        BY <3>1, <4>1, <4>3
    <3> QED
      BY <1>1, <3>1, <3>2, <3>3, <3>4, Unfolded DEF DropsFollow
  <2>4. \A k \in DOMAIN made' : ClaimFits(init, made'[k].claim)
    BY <1>1, <1>2, Unfolded
  <2> QED
    BY <1>1, <2>1, <2>2, <2>3, <2>4 DEF Going
<1>9. HeldPorts'
  <2>1. ASSUME NEW i \in DOMAIN ranges', ranges'[i].owner = mine
        PROVE  MetPorts(made', ranges'[i].base)
    <3>1. PICK j \in DOMAIN ranges : ranges'[i] = ranges[j] /\ ranges[j].base # This.at
      BY <1>5
    <3>2. MetPorts(made, ranges[j].base)
      BY <1>1, <2>1, <3>1, Unfolded DEF HeldPorts
    <3> QED
      BY <1>4, <3>1, <3>2
  <2>2. ASSUME NEW k \in DOMAIN made, made'[k].claim.op = "ports", made'[k].ok
        PROVE  \E i \in DOMAIN ranges' : /\ ranges'[i].owner = mine
                                         /\ ranges'[i].base = made'[k].claim.at
    <3>1. made[k].claim.op = "ports" /\ made[k].ok /\ made[k].claim.at # This.at
      BY <1>2, <2>2
    <3>2. PICK j \in DOMAIN ranges : ranges[j].owner = mine /\ ranges[j].base = made[k].claim.at
      BY <1>1, <3>1, Unfolded DEF HeldPorts
    <3>3. PICK i \in DOMAIN ranges' : ranges'[i] = ranges[j]
      BY <1>6, <3>1, <3>2
    <3> QED
      BY <1>2, <3>2, <3>3
  <2> QED
    BY <1>1, <2>1, <2>2 DEF HeldPorts
<1>10. HeldIrqs'
  <2>1. \A k \in DOMAIN made : made[k].claim.op = "irq" => (made'[k].ok <=> made[k].ok)
    BY <1>2
  <2> QED
    BY <1>1, <1>2, <2>1, Unfolded DEF HeldIrqs
<1>11. HeldForGood'
  BY <1>1, Unfolded, ForGoodOn
<1>12. OldBases' /\ OwnersRegistered'
  BY <1>1, <1>5, Unfolded DEF OldBases, OwnersRegistered
<1>13. ComIrqs' /\ Names'
  BY <1>1, Unfolded, ComIrqsOn, NamesOn
<1>14. PortsDisjoint'
  BY <1>3 DEF PortsDisjoint, Apart
<1> QED
  BY <1>1, <1>7, <1>8, <1>9, <1>10, <1>11, <1>12, <1>13, <1>14 DEF BootInv, Held

-----------------------------------------------------------------------------
LEMMA InitIs ==
  ASSUME BootInv
  PROVE  /\ init \in 1..24 /\ Mounting = 20 /\ BootEnds = 24 /\ Len(Inits) = 19
         /\ <<>> \in Seq(ClaimSet) /\ <<>> \in Seq(MadeSet)
<1>1. init \in 1..BootEnds
  BY DEF BootInv, Types
<1>2. <<>> \in Seq(ClaimSet) /\ <<>> \in Seq(MadeSet)
  OBVIOUS
<1> QED
  BY <1>1, <1>2, InitsAre

LEMMA PlaceIsNumber ==
  ASSUME BootInv, NEW k \in 1..BootEnds
  PROVE  init \in Nat /\ k \in Nat
<1>1. init \in 1..24 /\ BootEnds = 24
  BY InitIs
<1> QED
  BY <1>1

LEMMA PlacesAreNumbers == \A i \in DOMAIN Inits : i \in Nat
<1>1. DOMAIN Inits = 1..19
  BY InitsAre
<1> QED
  BY <1>1

\* Where each name stands in the list of the inits.
LEMMA InitsTell ==
  ASSUME NEW n \in 1..19
  PROVE  /\ Inits[n] = "pccom" => n \in {6, 7}
         /\ Inits[n] = "ep" => n \in {9, 10}
         /\ Inits[n] = "isadma" => n = 4
         /\ Inits[n] = "pccon" => n = 5
         /\ Inits[n] = "isapnp" => n = 8
         /\ Inits[n] = "pcppi" => n = 11
<1>1. \/ n = 1 \/ n = 2 \/ n = 3 \/ n = 4 \/ n = 5 \/ n = 6 \/ n = 7 \/ n = 8 \/ n = 9 \/ n = 10
      \/ n = 11 \/ n = 12 \/ n = 13 \/ n = 14 \/ n = 15 \/ n = 16 \/ n = 17 \/ n = 18 \/ n = 19
  OBVIOUS
<1>2. CASE n \in {1, 2, 3, 4, 5}
  BY <1>2, InitsAre
<1>3. CASE n \in {6, 7, 8, 9, 10}
  BY <1>3, InitsAre
<1>4. CASE n \in {11, 12, 13, 14, 15}
  BY <1>4, InitsAre
<1>5. CASE n \in {16, 17, 18, 19}
  BY <1>5, InitsAre
<1> QED
  BY <1>1, <1>2, <1>3, <1>4, <1>5

\* Between inits: bases asked for by one are held before the next.
LEMMA HeldGrows ==
  ASSUME NEW n \in Nat, NEW k \in Nat, n < k
  PROVE  HeldBefore(n) \subseteq HeldBefore(k) /\ AskedBy(n) \subseteq HeldBefore(k)
<1>1. AskedBy(n) \subseteq Nat /\ HeldBefore(n) \subseteq Nat
  BY PortsAssumption DEF AskedBy, HeldBefore
<1>2. CASE k > 8
  <2>1. HeldBefore(k) = Nat
    BY <1>2 DEF HeldBefore
  <2> QED
    BY <1>1, <2>1
<1>3. CASE k <= 4
  <2>1. HeldBefore(n) = {} /\ AskedBy(n) = {}
    BY <1>3 DEF HeldBefore, AskedBy
  <2> QED
    BY <2>1
<1>4. CASE k = 5
  <2>1. HeldBefore(k) = {0, 128, 192} /\ HeldBefore(n) = {}
    BY <1>4 DEF HeldBefore
  <2>2. AskedBy(n) \subseteq {0, 128, 192}
    BY <1>4 DEF AskedBy
  <2> QED
    BY <2>1, <2>2
<1>5. CASE k \in 6..8
  <2>1. HeldBefore(k) = {0, 128, 192, 96, 100, 944, 976} \union ComPorts
    BY <1>5 DEF HeldBefore
  <2>2. n < 4 \/ n = 4 \/ n = 5 \/ n \in {6, 7}
    BY <1>5
  <2>3. HeldBefore(n) \subseteq {0, 128, 192, 96, 100, 944, 976} \union ComPorts
    BY <2>2 DEF HeldBefore
  <2>4. AskedBy(n) \subseteq {0, 128, 192, 96, 100, 944, 976} \union ComPorts
    BY <2>2 DEF AskedBy
  <2> QED
    BY <2>1, <2>3, <2>4
<1> QED
  BY <1>2, <1>3, <1>4, <1>5

LEMMA RangeOwners ==
  ASSUME ranges \in Seq(RangeSet)
  PROVE  \A i \in DOMAIN ranges : ranges[i].owner \in Nat /\ ranges[i].owner # NoOwner
<1> SUFFICES ASSUME NEW i \in DOMAIN ranges
             PROVE  ranges[i].owner \in Nat /\ ranges[i].owner # NoOwner
  OBVIOUS
<1>1. ranges[i] \in RangeSet
  OBVIOUS
<1> QED
  BY <1>1, LinesAssumption DEF RangeSet

\* Every base in the list was asked for by now.
LEMMA BasesAsked ==
  ASSUME BootInv, NEW k \in Nat, init < k, NEW i \in DOMAIN ranges
  PROVE  ranges[i].base \in HeldBefore(k)
<1>1. init \in Nat /\ ranges \in Seq(RangeSet)
  BY DEF BootInv, Types
<1>2. CASE ranges[i].owner # mine
  BY <1>1, <1>2, HeldGrows DEF BootInv, OldBases
<1>3. CASE ranges[i].owner = mine
  <2>1. mine # NoOwner
    BY <1>1, <1>3, RangeOwners
  <2>2. PICK m \in DOMAIN made :
          made[m].claim.op = "ports" /\ made[m].claim.at = ranges[i].base
    BY <1>3, <2>1, Unfolded DEF HeldPorts, MetPorts
  <2>3. ranges[i].base \in AskedBy(init)
    BY <2>1, <2>2, Unfolded DEF ClaimFits
  <2> QED
    BY <1>1, <2>3, HeldGrows
<1> QED
  BY <1>2, <1>3

LEMMA Ends ==
  ASSUME BootInv, init' \in 1..BootEnds, init < init', mine' = NoOwner,
         todo' \in Seq(ClaimSet), made' \in Seq(MadeSet), UNCHANGED <<dmas, devices, born>>,
         ranges' \in Seq(RangeSet), Apart(ranges'), \A r \in ToSet(ranges') : r \in ToSet(ranges),
         irqs' \in [Irqs -> Ids \union {NoOwner}],
         \A i \in Irqs : irqs'[i] = irqs[i] \/ irqs'[i] = NoOwner,
         DOMAIN modules' \subseteq DOMAIN modules,
         \A m \in DOMAIN modules' : modules'[m] = modules[m],
         OwnersRegistered'
  PROVE  BootInv'
<1>1. Types
  BY DEF BootInv
<1>2. Types'
  <2>1. IsFiniteSet(DOMAIN modules')
    BY <1>1, FS_Subset DEF Types
  <2> QED
    BY <1>1, <2>1 DEF Types, Ids
<1>3. Going' /\ Held'
  BY DEF Going, Held
<1>4. OldBases'
  <2> SUFFICES ASSUME NEW i \in DOMAIN ranges' PROVE ranges'[i].base \in HeldBefore(init')
    BY DEF OldBases
  <2>1. PICK j \in DOMAIN ranges : ranges'[i] = ranges[j]
    BY DEF ToSet
  <2>2. init' \in Nat
    BY PlaceIsNumber
  <2> QED
    BY <2>1, <2>2, BasesAsked
<1>5. ComIrqs'
  <2> SUFFICES ASSUME NEW n \in Coms, irqs'[10 - n] # NoOwner PROVE n < init'
    BY DEF ComIrqs
  <2>1. n \in {6, 7} /\ 10 - n \in {3, 4} /\ 10 - n \in Irqs
    BY LinesAssumption DEF Coms
  <2>2. irqs[10 - n] # NoOwner
    BY <2>1
  <2>3. n < init \/ n = init
    BY <2>2 DEF BootInv, ComIrqs
  <2>4. init \in Nat /\ init' \in Nat
    BY PlaceIsNumber
  <2> QED
    BY <2>1, <2>3, <2>4
<1>6. PortsDisjoint'
  BY DEF PortsDisjoint, Apart
<1>7. Names'
  <2>1. DevicesApart'
    BY DEF BootInv, Names, DevicesApart
  <2>2. ModulesApart'
    BY DEF BootInv, Names, ModulesApart
  <2>3. ModulesTyped'
    <3> SUFFICES ASSUME NEW m \in DOMAIN modules'
          PROVE  /\ modules'[m].nr \in Nat \union {Unnumbered}
                 /\ modules'[m].nr = Unnumbered =>
                      \/ modules'[m].name \in {"root", "virtual", "emul", "vfs"}
                      \/ \E i \in DOMAIN Inits : modules'[m].name = Inits[i] /\ i < init'
      BY DEF ModulesTyped
    <3>1. m \in DOMAIN modules /\ modules'[m] = modules[m]
      OBVIOUS
    <3>2. \A i \in DOMAIN Inits : i \in Nat
      BY PlacesAreNumbers
    <3>3. init \in Nat /\ init' \in Nat
      BY PlaceIsNumber
    <3>4. \A i \in DOMAIN Inits : i < init \/ i = init => i < init'
      BY <3>2, <3>3
    <3> QED
      BY <3>1, <3>4 DEF BootInv, Names, ModulesTyped
  <2> QED
    BY <2>1, <2>2, <2>3 DEF Names
<1> QED
  BY <1>2, <1>3, <1>4, <1>5, <1>6, <1>7 DEF BootInv

\* An init that ends with its registrations as they are.
LEMMA EndsAsItIs ==
  ASSUME BootInv, init' \in 1..BootEnds, init < init', mine' = NoOwner,
         todo' \in Seq(ClaimSet), made' \in Seq(MadeSet), UNCHANGED <<regvars, born>>
  PROVE  BootInv'
<1>1. Types /\ Apart(ranges) /\ OwnersRegistered
  BY DEF BootInv, PortsDisjoint, Apart
<1>2. UNCHANGED <<modules, ranges, irqs, dmas, devices, born>>
  BY DEF regvars
<1>3. OwnersRegistered'
  BY <1>1, <1>2, OwnersOn
<1> QED
  BY <1>1, <1>2, <1>3, Ends DEF Types

LEMMA StartRefusedKeeps == ASSUME BootInv, StartRefused PROVE BootInv'
<1>1. /\ init < Mounting /\ init' = init + 1 /\ mine' = NoOwner /\ todo' = <<>> /\ made' = <<>>
      /\ UNCHANGED <<regvars, born>>
  BY DEF StartRefused, Starting, Running, Return
<1>2. init' \in 1..BootEnds /\ init < init'
  <2>1. init' = init + 1 /\ init < 20 /\ init \in 1..24 /\ BootEnds = 24
    BY <1>1, InitIs
  <2> QED
    BY <2>1
<1> QED
  BY <1>1, <1>2, InitIs, EndsAsItIs

LEMMA FinishKeeps == ASSUME BootInv, Finish PROVE BootInv'
<1>1. /\ init < Mounting /\ init' = init + 1 /\ mine' = NoOwner /\ todo' = <<>> /\ made' = <<>>
      /\ UNCHANGED <<regvars, born>>
  BY DEF Finish, Running, Return
<1>2. init' \in 1..BootEnds /\ init < init'
  <2>1. init' = init + 1 /\ init < 20 /\ init \in 1..24 /\ BootEnds = 24
    BY <1>1, InitIs
  <2> QED
    BY <2>1
<1> QED
  BY <1>1, <1>2, InitIs, EndsAsItIs

LEMMA NothingThereKeeps == ASSUME BootInv, NothingThere PROVE BootInv'
<1> DEFINE pnp == CHOOSE i \in DOMAIN Inits : Inits[i] = "isapnp"
           ppi == CHOOSE i \in DOMAIN Inits : Inits[i] = "pcppi"
<1>1. /\ init < Mounting /\ mine' = NoOwner /\ todo' = <<>> /\ made' = <<>>
      /\ UNCHANGED <<regvars, born>>
      /\ (Current = "pccom" /\ init' = pnp) \/ (Current = "ep" /\ init' = ppi)
  BY DEF NothingThere, Starting, Running
<1>2. init \in 1..19 /\ Current = Inits[init]
  BY <1>1, InitIs DEF Current
<1>3. Current = "pccom" => init \in {6, 7}
  BY <1>2, InitsTell
<1>4. Current = "ep" => init \in {9, 10}
  BY <1>2, InitsTell
<1>5. pnp = 8
  <2>1. \A i \in DOMAIN Inits : Inits[i] = "isapnp" <=> i = 8
    BY InitsAre, InitsTell
  <2>2. 8 \in DOMAIN Inits
    BY InitsAre
  <2> QED
    BY <2>1, <2>2
<1>6. ppi = 11
  <2>1. \A i \in DOMAIN Inits : Inits[i] = "pcppi" <=> i = 11
    BY InitsAre, InitsTell
  <2>2. 11 \in DOMAIN Inits
    BY InitsAre
  <2> QED
    BY <2>1, <2>2
<1> HIDE DEF pnp, ppi
<1>7. init' \in 1..BootEnds /\ init < init'
  <2>1. BootEnds = 24
    BY InitIs
  <2>2. CASE Current = "pccom"
    <3>1. init \in {6, 7} /\ Current # "ep"
      BY <1>3, <2>2
    <3> QED
      BY <1>1, <1>5, <2>1, <3>1
  <2>3. CASE Current = "ep"
    <3>1. init \in {9, 10} /\ Current # "pccom"
      BY <1>4, <2>3
    <3> QED
      BY <1>1, <1>6, <2>1, <3>1
  <2> QED
    BY <1>1, <2>2, <2>3
<1> QED
  BY <1>1, <1>7, InitIs, EndsAsItIs

LEMMA MountKeeps == ASSUME BootInv, Mount PROVE BootInv'
<1>1. /\ init \in Mounting..BootEnds - 1 /\ init' = init + 1
      /\ UNCHANGED <<regvars, mine, todo, made, born>>
  BY DEF Mount
<1>2. init' \in 1..BootEnds /\ init < init' /\ ~(init < Mounting)
  BY <1>1, InitIs
<1>3. mine' = NoOwner /\ todo' \in Seq(ClaimSet) /\ made' \in Seq(MadeSet)
  BY <1>1, <1>2 DEF BootInv, Types
<1> QED
  BY <1>1, <1>2, <1>3, EndsAsItIs

\* Steps that leave the registries and the init alone.
LEMMA Idles ==
  ASSUME BootInv, UNCHANGED <<regvars, init, mine, todo, made, born>>
  PROVE  BootInv'
<1>1. UNCHANGED <<modules, ranges, irqs, dmas, devices, init, mine, todo, made, born>>
  BY DEF regvars
<1>2. Types'
  BY <1>1 DEF BootInv, Types, Ids
<1>3. Going' /\ Held'
  BY <1>1 DEF BootInv, Going, Held, HeldPorts, HeldIrqs, HeldForGood
<1>4. OldBases' /\ ComIrqs'
  BY <1>1 DEF BootInv, OldBases, ComIrqs
<1>5. PortsDisjoint' /\ OwnersRegistered' /\ Names'
  BY <1>1, DisjointOn, OwnersOn, NamesOn DEF BootInv
<1> QED
  BY <1>2, <1>3, <1>4, <1>5 DEF BootInv

-----------------------------------------------------------------------------
\* Inits whose modules have no number are run once.
LEMMA InitsOnce ==
  ASSUME NEW n \in 1..19
  PROVE  /\ Inits[n] = "net" => n = 1
         /\ Inits[n] = "net_if" => n = 2
         /\ Inits[n] = "null" => n = 14
         /\ Inits[n] = "tty" => n = 15
         /\ Inits[n] = "openbsd_aout" => n = 16
         /\ Inits[n] = "devfs" => n = 17
         /\ Inits[n] = "ffs" => n = 18
         /\ Inits[n] = "procfs" => n = 19
         /\ Inits[n] \notin {"root", "virtual", "emul", "vfs"}
<1>1. \/ n \in {1, 2, 3, 4, 5} \/ n \in {6, 7, 8, 9, 10} \/ n \in {11, 12, 13, 14, 15}
      \/ n \in {16, 17, 18, 19}
  OBVIOUS
<1>2. CASE n \in {1, 2, 3, 4, 5}
  BY <1>2, InitsAre
<1>3. CASE n \in {6, 7, 8, 9, 10}
  BY <1>3, InitsAre
<1>4. CASE n \in {11, 12, 13, 14, 15}
  BY <1>4, InitsAre
<1>5. CASE n \in {16, 17, 18, 19}
  BY <1>5, InitsAre
<1> QED
  BY <1>1, <1>2, <1>3, <1>4, <1>5

LEMMA UnnumberedOnce ==
  ASSUME NEW n \in 1..19, ~IsNumbered(Inits[n]), NEW i \in 1..19, Inits[i] = Inits[n]
  PROVE  i = n
<1>1. n \in {1, 2, 14, 15, 16, 17, 18, 19}
  <2>1. \A d \in {"isa", "isadma", "pccon", "pccom", "isapnp", "ep", "pcppi", "wdc", "fdc"} :
          IsNumbered(d)
    BY DEF IsNumbered, Parent
  <2>2. \/ n \in {1, 2, 14, 15, 16, 17, 18, 19}
        \/ n \in {3, 4, 5, 6, 7} \/ n \in {8, 9, 10, 11, 12, 13}
    OBVIOUS
  <2>3. ASSUME n \in {3, 4, 5, 6, 7} \/ n \in {8, 9, 10, 11, 12, 13} PROVE FALSE
    <3>1. Inits[n] \in {"isa", "isadma", "pccon", "pccom", "isapnp", "ep", "pcppi", "wdc", "fdc"}
      <4>1. CASE n \in {3, 4, 5, 6, 7}
        BY <4>1, InitsAre
      <4>2. CASE n \in {8, 9, 10, 11, 12, 13}
        BY <4>2, InitsAre
      <4> QED
        BY <2>3, <4>1, <4>2
    <3> QED
      BY <2>1, <3>1
  <2> QED
    BY <2>2, <2>3
<1>2. CASE n \in {1, 2, 14, 15}
  <2>1. \/ (n = 1 /\ Inits[n] = "net") \/ (n = 2 /\ Inits[n] = "net_if")
        \/ (n = 14 /\ Inits[n] = "null") \/ (n = 15 /\ Inits[n] = "tty")
    BY <1>2, InitsAre
  <2> QED
    BY <2>1, InitsOnce
<1>3. CASE n \in {16, 17, 18, 19}
  <2>1. \/ (n = 16 /\ Inits[n] = "openbsd_aout") \/ (n = 17 /\ Inits[n] = "devfs")
        \/ (n = 18 /\ Inits[n] = "ffs") \/ (n = 19 /\ Inits[n] = "procfs")
    BY <1>3, InitsAre
  <2> QED
    BY <2>1, InitsOnce
<1> QED
  BY <1>1, <1>2, <1>3

LEMMA BornIs ==
  ASSUME BootInv
  PROVE  born \in Nat /\ born # NoOwner /\ born \notin Ids /\ born \notin DOMAIN modules
<1>1. born \in Nat /\ DOMAIN modules \subseteq Ids
  BY DEF BootInv, Types
<1>2. born \notin Ids
  BY <1>1 DEF Ids
<1>3. NoOwner \notin Nat
  BY LinesAssumption
<1> QED
  BY <1>1, <1>2, <1>3

LEMMA StartIs ==
  ASSUME BootInv, StartInit
  PROVE  /\ mine = NoOwner /\ init \in 1..19 /\ Current = Inits[init]
         /\ todo' \in Claims(Current) /\ made' = <<>> /\ mine' = born /\ born' = born + 1
         /\ UNCHANGED <<ranges, irqs, dmas, devices, init>>
         /\ DOMAIN modules' = DOMAIN modules \union {born}
         /\ \A m \in DOMAIN modules \ {born} : modules'[m] = modules[m]
         /\ modules'[born].name = Current
         /\ IsNumbered(Current) => modules'[born].nr = FreeNumber(Current)
         /\ ~IsNumbered(Current) => modules'[born].nr = Unnumbered
<1> DEFINE parent == CHOOSE m \in Named(Parent(Current)[1], Parent(Current)[2]) : TRUE
<1>1. /\ init < Mounting /\ mine = NoOwner /\ made' = <<>> /\ mine' = born /\ born' = born + 1
      /\ UNCHANGED <<ranges, irqs, dmas, devices, init>>
      /\ modules' = ModuleRegistered(born, Current, IsNumbered(Current), parent)
      /\ todo' \in Claims(Current)
  BY DEF StartInit, Starting, Running
<1>2. init \in 1..19 /\ Current = Inits[init]
  BY <1>1, InitIs DEF Current
<1> HIDE DEF parent
<1>3. /\ DOMAIN modules' = DOMAIN modules \union {born}
      /\ \A m \in DOMAIN modules \ {born} : modules'[m] = modules[m]
      /\ modules'[born].name = Current
      /\ IsNumbered(Current) => modules'[born].nr = FreeNumber(Current)
      /\ ~IsNumbered(Current) => modules'[born].nr = Unnumbered
  <2>1. IsNumbered(Current) \in BOOLEAN
    BY DEF IsNumbered
  <2> QED
    BY <1>1, <2>1, ModuleRegisteredIs
<1> QED
  BY <1>1, <1>2, <1>3

LEMMA StartNamesKeep == ASSUME BootInv, StartInit PROVE Names'
<1>1. /\ mine = NoOwner /\ init \in 1..19 /\ Current = Inits[init] /\ mine' = born
      /\ UNCHANGED <<devices, init>>
      /\ DOMAIN modules' = DOMAIN modules \union {born}
      /\ modules'[born].name = Current
  BY StartIs
<1>2. /\ born \in Nat /\ born # NoOwner /\ born \notin DOMAIN modules
      /\ IsFiniteSet(DOMAIN modules) /\ DOMAIN Inits = 1..19
  BY InitsAre, BornIs DEF BootInv, Types
<1>3. \A m \in DOMAIN modules : modules'[m] = modules[m]
  BY <1>2, StartIs
<1>4. modules'[born].nr \in Nat \union {Unnumbered} /\ Unnumbered \notin Nat
  <2>1. FreeNumber(Current) \in Nat
    BY <1>2, FreeNumberIs
  <2>2. Unnumbered \notin Nat
    BY DEF Unnumbered
  <2> QED
    BY <2>1, <2>2, StartIs
<1>5. ASSUME NEW m \in DOMAIN modules, modules[m].name = Current,
             modules[m].nr = modules'[born].nr
      PROVE  FALSE
  <2>1. CASE IsNumbered(Current)
    <3>1. modules[m].nr = FreeNumber(Current)
      BY <1>5, <2>1, StartIs
    <3>2. Named(Current, FreeNumber(Current)) = {}
      BY <1>2, FreeNumberIs
    <3>3. m \in Named(Current, FreeNumber(Current))
      BY <1>5, <3>1 DEF Named
    <3> QED
      BY <3>2, <3>3
  <2>2. CASE ~IsNumbered(Current)
    <3>1. modules[m].nr = Unnumbered
      BY <1>5, <2>2, StartIs
    <3>2. Current \notin {"root", "virtual", "emul", "vfs"}
      BY <1>1, InitsOnce
    <3>3. PICK i \in 1..19 : Inits[i] = Current /\ i < init
      BY <1>1, <1>2, <1>5, <3>1, <3>2 DEF BootInv, Names, ModulesTyped
    <3>4. i = init
      BY <1>1, <2>2, <3>3, UnnumberedOnce
    <3> QED
      BY <1>1, <3>3, <3>4
  <2> QED
    BY <2>1, <2>2
<1>6. DevicesApart'
  BY <1>1 DEF BootInv, Names, DevicesApart
<1>7. ModulesApart'
  <2> SUFFICES ASSUME NEW m \in DOMAIN modules', NEW k \in DOMAIN modules',
                      modules'[m].name = modules'[k].name, modules'[m].nr = modules'[k].nr
               PROVE  m = k
    BY DEF ModulesApart
  <2>1. CASE m \in DOMAIN modules /\ k \in DOMAIN modules
    BY <1>3, <2>1 DEF BootInv, Names, ModulesApart
  <2>2. CASE m = born /\ k \in DOMAIN modules
    BY <1>1, <1>3, <1>5, <2>2
  <2>3. CASE k = born /\ m \in DOMAIN modules
    BY <1>1, <1>3, <1>5, <2>3
  <2> QED
    BY <1>1, <2>1, <2>2, <2>3
<1>8. ModulesTyped'
  <2> SUFFICES ASSUME NEW m \in DOMAIN modules'
        PROVE  /\ modules'[m].nr \in Nat \union {Unnumbered}
               /\ modules'[m].nr = Unnumbered =>
                    \/ modules'[m].name \in {"root", "virtual", "emul", "vfs"}
                    \/ \E i \in DOMAIN Inits : modules'[m].name = Inits[i] /\ i <= init
    <3>1. \A i \in DOMAIN Inits : i <= init => i < init \/ i = init
      BY <1>1, <1>2
    <3> QED
      BY <1>1, <1>2, <3>1 DEF ModulesTyped
  <2>1. CASE m = born
    BY <1>1, <1>2, <1>4, <2>1
  <2>2. CASE m \in DOMAIN modules
    <3>1. \A i \in DOMAIN Inits : i < init \/ (i = init /\ mine # NoOwner) => i <= init
      BY <1>1, <1>2
    <3> QED
      BY <1>3, <2>2, <3>1 DEF BootInv, Names, ModulesTyped
  <2> QED
    BY <1>1, <2>1, <2>2
<1> QED
  BY <1>6, <1>7, <1>8 DEF Names

LEMMA StartInitKeeps == ASSUME BootInv, StartInit PROVE BootInv'
<1>1. /\ mine = NoOwner /\ init \in 1..19 /\ todo' \in Claims(Current)
      /\ made' = <<>> /\ mine' = born /\ born' = born + 1
      /\ UNCHANGED <<ranges, irqs, dmas, devices, init>>
      /\ DOMAIN modules' = DOMAIN modules \union {born}
  BY StartIs
<1>2. /\ born \in Nat /\ born # NoOwner /\ born \notin Ids /\ DOMAIN modules \subseteq Ids
      /\ Mounting = 20 /\ BootEnds = 24 /\ DOMAIN Inits = 1..19
  BY InitsAre, BornIs DEF BootInv, Types
<1>3. Ids \subseteq Ids' /\ born \in Ids'
  BY <1>1, <1>2 DEF Ids
<1>4. todo' \in Seq(ClaimSet) /\ ClaimsFit(init, todo') /\ DropsFollow(todo', made')
  BY <1>1, <1>2, ClaimsStart
<1>5. Types'
  <2>1. init' \in 1..BootEnds /\ init' < Mounting
    BY <1>1, <1>2
  <2>2. IsFiniteSet(DOMAIN modules')
    <3>1. IsFiniteSet(DOMAIN modules)
      BY DEF BootInv, Types
    <3> QED
      BY <1>1, <3>1, FS_AddElement
  <2>3. DOMAIN modules' \subseteq Ids' /\ mine' \in Ids' /\ mine' \in DOMAIN modules'
    BY <1>1, <1>2, <1>3
  <2>4. made' \in Seq(MadeSet) /\ born' \in Nat
    BY <1>1, <1>2
  <2>5. ranges' \in Seq(RangeSet) /\ devices' \in Seq(DeviceSet)
    BY <1>1 DEF BootInv, Types
  <2>6. /\ irqs' \in [Irqs -> Ids' \union {NoOwner}]
        /\ dmas' \in [DmaChannels -> Ids' \union {NoOwner}]
    <3>1. /\ irqs \in [Irqs -> Ids \union {NoOwner}]
          /\ dmas \in [DmaChannels -> Ids \union {NoOwner}]
      BY DEF BootInv, Types
    <3> HIDE DEF Ids
    <3> QED
      BY <1>1, <1>3, <3>1
  <2> QED
    BY <1>4, <2>1, <2>2, <2>3, <2>4, <2>5, <2>6 DEF Types
<1>6. Going'
  <2>1. ~ \E k \in DOMAIN made' : TRUE
    BY <1>1
  <2> QED
    BY <1>1, <1>4, <2>1 DEF Going
<1>7. Held'
  <2>1. ~ \E k \in DOMAIN made' : TRUE
    BY <1>1
  <2>2. \A i \in DOMAIN ranges : ranges[i].owner # born
    BY <1>2 DEF BootInv, OwnersRegistered
  <2>3. \A i \in DOMAIN devices : devices[i].owner # born
    BY <1>2 DEF BootInv, OwnersRegistered
  <2>4. (\A i \in Irqs : irqs[i] # born) /\ (\A c \in DmaChannels : dmas[c] # born)
    <3>1. /\ irqs \in [Irqs -> Ids \union {NoOwner}]
          /\ dmas \in [DmaChannels -> Ids \union {NoOwner}]
      BY DEF BootInv, Types
    <3> HIDE DEF Ids
    <3> QED
      BY <1>2, <3>1
  <2>5. HeldPorts'
    BY <1>1, <2>1, <2>2 DEF HeldPorts
  <2>6. HeldIrqs'
    BY <1>1, <2>1, <2>4 DEF HeldIrqs
  <2>7. HeldForGood'
    BY <1>1, <2>3, <2>4 DEF HeldForGood
  <2> QED
    BY <2>5, <2>6, <2>7 DEF Held
<1>8. OldBases'
  <2>1. \A i \in DOMAIN ranges : ranges[i].owner # NoOwner
    BY RangeOwners DEF BootInv, Types
  <2> QED
    BY <1>1, <2>1 DEF BootInv, OldBases
<1>9. ComIrqs'
  BY <1>1 DEF BootInv, ComIrqs
<1>10. PortsDisjoint'
  BY <1>1, DisjointOn DEF BootInv
<1>11. OwnersRegistered'
  BY <1>1 DEF BootInv, OwnersRegistered
<1> QED
  BY <1>5, <1>6, <1>7, <1>8, <1>9, <1>10, <1>11, StartNamesKeep DEF BootInv

-----------------------------------------------------------------------------
\* Backing out.
LEMMA GiveUpIs ==
  ASSUME BootInv, GiveUp
  PROVE  /\ mine # NoOwner /\ todo # <<>> /\ This.must = "now"
         /\ init \in 1..19 /\ Current = Inits[init]
         /\ This.op = "device" => Current # "wdc"
         /\ This.op \notin {"drop", "partition"}
         /\ This.op = "irq" => ~IrqFree(This.at)
         /\ ranges' = PortsGivenBack /\ irqs' = IrqsGivenBack
         /\ modules' = ModuleUnregistered(mine)
         /\ init' = init + 1 /\ mine' = NoOwner /\ todo' = <<>> /\ made' = <<>>
         /\ UNCHANGED <<dmas, devices, born>>
<1>1. Refusable /\ This.must = "now"
  BY DEF GiveUp
<1>2. init < Mounting /\ mine # NoOwner /\ todo # <<>>
  BY <1>1 DEF Refusable, Claiming, Running
<1>3. init \in 1..19 /\ Current = Inits[init]
  BY <1>2, InitIs DEF Current
<1>4. /\ This.op = "irq" => ~IrqFree(This.at)
      /\ This.op \notin {"drop", "partition"}
      /\ This.op = "device" => Current # "wdc"
  BY <1>1 DEF Refusable, Claiming, This
<1> QED
  BY <1>1, <1>2, <1>3, <1>4 DEF GiveUp, Return

\* Nothing that cannot be given back is held when an init gives up.
LEMMA NothingForGood ==
  ASSUME BootInv, GiveUp
  PROVE  /\ \A i \in DOMAIN devices : devices[i].owner # mine
         /\ \A c \in DmaChannels : dmas[c] # mine
<1>1. /\ mine # NoOwner /\ todo # <<>> /\ This.must = "now" /\ Current = Inits[init]
      /\ This.op # "partition" /\ (This.op = "device" => Current # "wdc")
  BY GiveUpIs
<1>2. This = todo[1] /\ 1 \in DOMAIN todo
  BY <1>1, HeadIs, Unfolded DEF Types
<1>3. ~IsSafe(init, This)
  BY <1>1 DEF IsSafe
<1> QED
  BY <1>1, <1>2, <1>3, Unfolded DEF HeldForGood

\* pccom gives up while it holds nothing: its line is free.
LEMMA ComGivesUpEmpty ==
  ASSUME BootInv, GiveUp, init \in Coms
  PROVE  made = <<>>
<1>1. mine # NoOwner /\ todo # <<>> /\ init \in 1..19 /\ (This.op = "irq" => ~IrqFree(This.at))
  BY GiveUpIs
<1>2. init \in {6, 7} /\ 10 - init \in {3, 4} /\ 10 - init \in Irqs
  BY LinesAssumption DEF Coms
<1>3. ClaimFits(init, This)
  BY <1>1, HeadFits
<1>4. CASE This.op = "irq"
  <2>1. This.at = 10 - init
    BY <1>3, <1>4 DEF ClaimFits
  <2>2. irqs[10 - init] # NoOwner
    BY <1>1, <1>2, <1>4, <2>1 DEF IrqFree
  <2>3. ~(init < init)
    BY <1>1
  <2> QED
    BY <1>1, <2>2, <2>3, Unfolded DEF ComIrqs
<1>5. CASE This.op = "ports"
  BY <1>1, <1>5 DEF BootInv, Going, This
<1> QED
  BY <1>3, <1>4, <1>5 DEF ClaimFits

LEMMA GiveUpLeaves ==
  ASSUME BootInv, GiveUp
  PROVE  /\ ranges' \in Seq(RangeSet) /\ Apart(ranges')
         /\ \A r : r \in ToSet(ranges') <=>
                     /\ r \in ToSet(ranges)
                     /\ \A k \in Back("ports") : made[k].claim.at # r.base
<1>1. ranges \in Seq(RangeSet) /\ Apart(ranges) /\ made \in Seq(MadeSet)
  BY GiveUpIs, Unfolded DEF Types
<1>2. ranges' = PortsGivenBack
  BY GiveUpIs
<1> QED
  BY <1>1, <1>2, PortsGivenBackIs

LEMMA PortsAllBack ==
  ASSUME BootInv, GiveUp, NEW r \in ToSet(ranges')
  PROVE  r \in ToSet(ranges) /\ r.owner # mine
<1>1. mine # NoOwner /\ init \in 1..19 /\ Current = Inits[init]
  BY GiveUpIs
<1>2. r \in ToSet(ranges) /\ \A k \in Back("ports") : made[k].claim.at # r.base
  BY GiveUpLeaves
<1>3. ASSUME r.owner = mine PROVE FALSE
  <2>1. PICK k \in DOMAIN made : made[k].claim.op = "ports" /\ made[k].claim.at = r.base /\ made[k].ok
    BY <1>1, <1>2, <1>3, Unfolded DEF ToSet, HeldPorts, MetPorts
  <2>2. init \notin Coms
    <3>1. made # <<>>
      BY <2>1
    <3> QED
      BY <3>1, ComGivesUpEmpty
  <2>3. Current # "pccom"
    BY <1>1, <2>2, InitsTell DEF Coms
  <2>4. k \in Back("ports")
    BY <2>1, <2>3 DEF Back, GivesBack
  <2> QED
    BY <1>2, <2>1, <2>4
<1> QED
  BY <1>2, <1>3

LEMMA IrqsAllBack ==
  ASSUME BootInv, GiveUp
  PROVE  /\ irqs' \in [Irqs -> Ids \union {NoOwner}]
         /\ \A i \in Irqs : irqs'[i] = irqs[i] \/ irqs'[i] = NoOwner
         /\ \A i \in Irqs \ {1} : irqs'[i] # mine
         /\ \A i \in Irqs : irqs[i] # mine => irqs'[i] = irqs[i]
<1>1. mine # NoOwner /\ init \in 1..19 /\ Current = Inits[init]
  BY GiveUpIs
<1>2. irqs' = [i \in Irqs |->
         IF \E k \in Back("irq") : made[k].claim.at = i THEN NoOwner ELSE irqs[i]]
  BY GiveUpIs DEF IrqsGivenBack
<1>3. irqs \in [Irqs -> Ids \union {NoOwner}]
  BY <1>1, Unfolded DEF Types
<1>4. irqs' \in [Irqs -> Ids \union {NoOwner}]
  <2> HIDE DEF Ids
  <2> QED
    BY <1>2, <1>3
<1>5. \A i \in Irqs : irqs'[i] = irqs[i] \/ irqs'[i] = NoOwner
  BY <1>2
<1>6. ASSUME NEW i \in Irqs \ {1}, irqs'[i] = mine PROVE FALSE
  <2>1. irqs[i] = mine /\ ~ \E k \in Back("irq") : made[k].claim.at = i
    BY <1>1, <1>2, <1>6
  <2>2. PICK k \in DOMAIN made : made[k].claim.op = "irq" /\ made[k].claim.at = i /\ made[k].ok
    BY <1>1, <2>1, Unfolded DEF HeldIrqs
  <2>3. init \notin Coms
    <3>1. made # <<>>
      BY <2>2
    <3> QED
      BY <3>1, ComGivesUpEmpty
  <2>4. ClaimFits(init, made[k].claim)
    BY <1>1, Unfolded
  <2>5. init # 5
    BY <1>6, <2>2, <2>4 DEF ClaimFits
  <2>6. Current # "pccom" /\ Current # "pccon"
    BY <1>1, <2>3, <2>5, InitsTell DEF Coms
  <2>7. k \in Back("irq")
    BY <2>2, <2>6 DEF Back, GivesBack
  <2> QED
    BY <2>1, <2>2, <2>7
<1>7. ASSUME NEW i \in Irqs, irqs[i] # mine PROVE irqs'[i] = irqs[i]
  <2>1. ASSUME NEW k \in Back("irq"), made[k].claim.at = i PROVE FALSE
    <3>1. k \in DOMAIN made /\ made[k].claim.op = "irq" /\ made[k].ok
      BY DEF Back, GivesBack
    <3>2. irqs[made[k].claim.at] = mine
      BY <1>1, <3>1, Unfolded DEF HeldIrqs
    <3> QED
      BY <1>7, <2>1, <3>2
  <2> QED
    BY <1>2, <2>1
<1> QED
  BY <1>4, <1>5, <1>6, <1>7

LEMMA GiveUpKeeps == ASSUME BootInv, GiveUp PROVE BootInv'
<1>1. /\ mine # NoOwner /\ init \in 1..19 /\ modules' = ModuleUnregistered(mine)
      /\ init' = init + 1 /\ mine' = NoOwner /\ todo' = <<>> /\ made' = <<>>
      /\ UNCHANGED <<dmas, devices, born>>
  BY GiveUpIs
<1>2. /\ DOMAIN modules' \subseteq DOMAIN modules
      /\ DOMAIN modules \ {mine} \subseteq DOMAIN modules'
      /\ \A m \in DOMAIN modules' : modules'[m] = modules[m]
  BY <1>1, ModuleUnregisteredIs
<1>3. OwnersRegistered'
  <2>1. OwnersRegistered
    BY DEF BootInv
  <2>2. ASSUME NEW i \in DOMAIN ranges' PROVE ranges'[i].owner \in DOMAIN modules'
    <3>1. ranges'[i] \in ToSet(ranges')
      BY DEF ToSet
    <3>2. ranges'[i] \in ToSet(ranges) /\ ranges'[i].owner # mine
      BY <3>1, PortsAllBack
    <3>3. ranges'[i].owner \in DOMAIN modules
      BY <2>1, <3>2 DEF ToSet, OwnersRegistered
    <3> QED
      BY <1>2, <3>2, <3>3
  <2>3. \A i \in Irqs \ {1} : irqs'[i] \in DOMAIN modules' \union {NoOwner}
    BY <1>2, <2>1, IrqsAllBack DEF OwnersRegistered
  <2>4. \A c \in DmaChannels : dmas'[c] \in DOMAIN modules' \union {NoOwner}
    BY <1>1, <1>2, <2>1, NothingForGood DEF OwnersRegistered
  <2>5. \A i \in DOMAIN devices' : devices'[i].owner \in DOMAIN modules'
    BY <1>1, <1>2, <2>1, NothingForGood DEF OwnersRegistered
  <2> QED
    BY <2>2, <2>3, <2>4, <2>5 DEF OwnersRegistered
<1>4. init' \in 1..BootEnds /\ init < init' /\ todo' \in Seq(ClaimSet) /\ made' \in Seq(MadeSet)
  BY <1>1, InitIs
<1>5. /\ ranges' \in Seq(RangeSet) /\ Apart(ranges')
      /\ \A r \in ToSet(ranges') : r \in ToSet(ranges)
  BY GiveUpLeaves
<1>6. /\ irqs' \in [Irqs -> Ids \union {NoOwner}]
      /\ \A i \in Irqs : irqs'[i] = irqs[i] \/ irqs'[i] = NoOwner
  BY IrqsAllBack
<1> QED
  BY <1>1, <1>2, <1>3, <1>4, <1>5, <1>6, Ends

-----------------------------------------------------------------------------
LEMMA InitHolds == ASSUME Init PROVE BootInv
<1>1. /\ ranges = <<>> /\ devices = <<>> /\ todo = <<>> /\ made = <<>>
      /\ init = 1 /\ mine = NoOwner /\ born = Cardinality(DOMAIN modules)
      /\ irqs = [i \in Irqs |-> IF i \in {0, 7} THEN Root ELSE NoOwner]
      /\ dmas = [c \in DmaChannels |-> NoOwner]
  BY DEF Init, InitRegistry
<1>2. DOMAIN modules = 0..6
  BY DEF Init, InitRegistry
<1>3. /\ modules[0].name = "root" /\ modules[1].name = "virtual" /\ modules[2].name = "mainbus"
      /\ modules[3].name = "emul" /\ modules[4].name = "vfs" /\ modules[5].name = "cpu"
      /\ modules[6].name = "bios"
      /\ modules[0].nr = Unnumbered /\ modules[1].nr = Unnumbered /\ modules[2].nr = 0
      /\ modules[3].nr = Unnumbered /\ modules[4].nr = Unnumbered /\ modules[5].nr = 0
      /\ modules[6].nr = 0
  <2> DEFINE M(m) == CASE m = 0 -> [name |-> "root", nr |-> Unnumbered, parent |-> Root]
                       [] m = 1 -> [name |-> "virtual", nr |-> Unnumbered, parent |-> Root]
                       [] m = 2 -> [name |-> "mainbus", nr |-> 0, parent |-> Root]
                       [] m = 3 -> [name |-> "emul", nr |-> Unnumbered, parent |-> 1]
                       [] m = 4 -> [name |-> "vfs", nr |-> Unnumbered, parent |-> 1]
                       [] m = 5 -> [name |-> "cpu", nr |-> 0, parent |-> 2]
                       [] m = 6 -> [name |-> "bios", nr |-> 0, parent |-> 2]
  <2>1. modules = [m \in 0..6 |-> M(m)]
    BY DEF Init, InitRegistry
  <2>2. /\ M(0).name = "root" /\ M(1).name = "virtual" /\ M(2).name = "mainbus"
        /\ M(3).name = "emul" /\ M(4).name = "vfs" /\ M(5).name = "cpu" /\ M(6).name = "bios"
        /\ M(0).nr = Unnumbered /\ M(1).nr = Unnumbered /\ M(2).nr = 0
        /\ M(3).nr = Unnumbered /\ M(4).nr = Unnumbered /\ M(5).nr = 0 /\ M(6).nr = 0
    OBVIOUS
  <2> HIDE DEF M
  <2>3. \A m \in 0..6 : modules[m] = M(m)
    BY <2>1
  <2>4. /\ modules[0] = M(0) /\ modules[1] = M(1) /\ modules[2] = M(2) /\ modules[3] = M(3)
        /\ modules[4] = M(4) /\ modules[5] = M(5) /\ modules[6] = M(6)
    BY <2>3
  <2> QED
    BY <2>2, <2>4
<1>4. \A m \in DOMAIN modules : m \in {0, 1, 2, 3, 4, 5, 6}
  BY <1>2
<1>5. born = 7 /\ IsFiniteSet(DOMAIN modules)
  <2>1. IsFiniteSet(0..6) /\ Cardinality(0..6) = 7
    <3>1. 0 \in Int /\ 6 \in Int
      OBVIOUS
    <3>2. IsFiniteSet(0..6) /\ Cardinality(0..6) = IF 0 > 6 THEN 0 ELSE 6 - 0 + 1
      BY <3>1, FS_Interval, Zenon
    <3> QED
      BY <3>2, SMT
  <2> QED
    BY <1>1, <1>2, <2>1
<1>6. Types
  <2>1. Root \in Ids /\ DOMAIN modules \subseteq Ids /\ born \in Nat
    BY <1>2, <1>5 DEF Root, Ids
  <2>2. /\ todo \in Seq(ClaimSet) /\ made \in Seq(MadeSet)
        /\ ranges \in Seq(RangeSet) /\ devices \in Seq(DeviceSet)
    BY <1>1
  <2>3. init \in 1..BootEnds
    BY <1>1, InitsAre
  <2>4. /\ irqs \in [Irqs -> Ids \union {NoOwner}]
        /\ dmas \in [DmaChannels -> Ids \union {NoOwner}]
    <3> HIDE DEF Ids
    <3> QED
      BY <1>1, <2>1
  <2> QED
    BY <1>1, <1>5, <2>1, <2>2, <2>3, <2>4 DEF Types
<1>7. Going /\ Held
  BY <1>1 DEF Going, Held
<1>8. OldBases /\ PortsDisjoint
  BY <1>1 DEF OldBases, PortsDisjoint
<1>9. ComIrqs
  <2>1. \A n \in Coms : 10 - n \in Irqs /\ 10 - n \notin {0, 7}
    BY LinesAssumption DEF Coms
  <2> QED
    BY <1>1, <2>1 DEF ComIrqs
<1>10. OwnersRegistered
  <2>1. Root \in DOMAIN modules
    BY <1>2 DEF Root
  <2> QED
    BY <1>1, <2>1 DEF OwnersRegistered
<1>11. Names
  <2>1. DevicesApart
    BY <1>1 DEF DevicesApart
  <2>2. ModulesApart
    BY <1>3, <1>4 DEF ModulesApart
  <2>3. ModulesTyped
    <3>1. \A m \in {0, 1, 3, 4} : /\ modules[m].nr = Unnumbered
                                  /\ modules[m].name \in {"root", "virtual", "emul", "vfs"}
      BY <1>3
    <3>2. \A m \in {2, 5, 6} : modules[m].nr \in Nat /\ modules[m].nr # Unnumbered
      BY <1>3 DEF Unnumbered
    <3> QED
      BY <1>4, <3>1, <3>2 DEF ModulesTyped
  <2> QED
    BY <2>1, <2>2, <2>3 DEF Names
<1> QED
  BY <1>6, <1>7, <1>8, <1>9, <1>10, <1>11 DEF BootInv

LEMMA NextKeeps == ASSUME BootInv, [Next]_vars PROVE BootInv'
<1>1. CASE StartInit
  BY <1>1, StartInitKeeps
<1>2. CASE StartRefused
  BY <1>2, StartRefusedKeeps
<1>3. CASE NothingThere
  BY <1>3, NothingThereKeeps
<1>4. CASE TakePorts
  BY <1>4, TakePortsKeeps
<1>5. CASE TakeIrq
  BY <1>5, TakeIrqKeeps
<1>6. CASE TakeDma
  BY <1>6, TakeDmaKeeps
<1>7. CASE AddDevice
  BY <1>7, AddDeviceKeeps
<1>8. CASE AddFormat
  BY <1>8, AddFormatKeeps
<1>9. CASE CheckPasses
  BY <1>9, CheckPassesKeeps
<1>10. CASE DropPorts
  BY <1>10, DropPortsKeeps
<1>11. CASE AddPartition
  BY <1>11, AddPartitionKeeps
<1>12. CASE PartitionRefused
  BY <1>12, Idles DEF PartitionRefused
<1>13. CASE DiskWithoutPartitions
  BY <1>13, DiskWithoutPartitionsKeeps
<1>14. CASE GoOnWithout
  BY <1>14, GoOnWithoutKeeps
<1>15. CASE GiveUp
  BY <1>15, GiveUpKeeps
<1>16. CASE FormatWithoutMemory
  BY <1>16, Idles DEF FormatWithoutMemory
<1>17. CASE Finish
  BY <1>17, FinishKeeps
<1>18. CASE Mount
  BY <1>18, MountKeeps
<1>19. CASE UNCHANGED vars
  BY <1>19, Idles DEF vars, bootvars
<1> QED
  BY <1>1, <1>2, <1>3, <1>4, <1>5, <1>6, <1>7, <1>8, <1>9, <1>10, <1>11, <1>12, <1>13,
     <1>14, <1>15, <1>16, <1>17, <1>18, <1>19 DEF Next

-----------------------------------------------------------------------------
\* What a step leaves to the others.
OthersKept ==
  /\ \A r \in ToSet(ranges) : r.owner # mine => r \in ToSet(ranges')
  /\ \A i \in Irqs : irqs[i] \notin {mine, NoOwner} => irqs'[i] = irqs[i]
  /\ \A c \in DmaChannels : dmas[c] \notin {mine, NoOwner} => dmas'[c] = dmas[c]
  /\ \A d \in ToSet(devices) : d.owner # mine => d \in ToSet(devices')
  /\ DOMAIN modules \ {mine} \subseteq DOMAIN modules'

\* The ports that inits ask for before they look are not those of others.
LEMMA AskedApart ==
  ASSUME NEW n \in {4, 5, 8}, NEW p \in AskedBy(n)
  PROVE  p \notin HeldBefore(n)
<1>1. CASE n = 4
  BY <1>1 DEF HeldBefore
<1>2. CASE n = 5
  <2>1. p \in {96, 100, 944, 976} /\ HeldBefore(n) = {0, 128, 192}
    BY <1>2 DEF AskedBy, HeldBefore
  <2> QED
    BY <2>1
<1>3. CASE n = 8
  <2>1. HeldBefore(n) = {0, 128, 192, 96, 100, 944, 976} \union ComPorts
    BY <1>3 DEF HeldBefore
  <2>2. p \in (ReadPorts \ {0}) \union {633, 2681}
    BY <1>3 DEF AskedBy
  <2>3. p \in Nat /\ (p % 4 = 3 \/ p % 4 = 1)
    <3>1. CASE p \in ReadPorts \ {0}
      BY <3>1, PortsAssumption
    <3>2. CASE p \in {633, 2681}
      BY <3>2
    <3> QED
      BY <2>2, <3>1, <3>2
  <2>4. ASSUME NEW q \in HeldBefore(n) PROVE q \in Nat /\ q % 4 = 0
    <3>1. CASE q \in ComPorts
      <4>1. q \in Nat /\ q % 8 = 0
        BY <3>1, PortsAssumption
      <4> QED
        BY <4>1
    <3>2. CASE q \in {0, 128, 192, 96, 100, 944, 976}
      BY <3>2
    <3> QED
      BY <2>1, <2>4, <3>1, <3>2
  <2> QED
    BY <2>3, <2>4
<1> QED
  BY <1>1, <1>2, <1>3

LEMMA OwnBase ==
  ASSUME BootInv, mine # NoOwner, NEW r \in ToSet(ranges), MetPorts(made, r.base)
  PROVE  r.owner = mine
<1>1. ranges \in Seq(RangeSet) /\ Apart(ranges)
  BY Unfolded DEF Types
<1>2. PICK i \in DOMAIN ranges : ranges[i].owner = mine /\ ranges[i].base = r.base
  BY Unfolded DEF HeldPorts, MetPorts
<1>3. PICK j \in DOMAIN ranges : r = ranges[j]
  BY DEF ToSet
<1>4. i = j
  BY <1>1, <1>2, <1>3, BasesDiffer
<1> QED
  BY <1>2, <1>3, <1>4

LEMMA DropKeepsOthers == ASSUME BootInv, DropPorts PROVE OthersKept
<1>1. /\ mine # NoOwner /\ UNCHANGED <<modules, irqs, dmas, devices>> /\ MetPorts(made, This.at)
      /\ \A r : r \in ToSet(ranges') <=> r \in ToSet(ranges) /\ r.base # This.at
  BY DropIs
<1>2. ASSUME NEW r \in ToSet(ranges), r.owner # mine PROVE r \in ToSet(ranges')
  BY <1>1, <1>2, OwnBase
<1> QED
  BY <1>1, <1>2 DEF OthersKept

LEMMA GiveUpKeepsOthers == ASSUME BootInv, GiveUp PROVE OthersKept
<1>1. /\ mine # NoOwner /\ init \in 1..19 /\ Current = Inits[init]
      /\ modules' = ModuleUnregistered(mine) /\ UNCHANGED <<dmas, devices>>
  BY GiveUpIs
<1>2. ASSUME NEW r \in ToSet(ranges), r.owner # mine PROVE r \in ToSet(ranges')
  <2>1. ASSUME NEW k \in Back("ports"), made[k].claim.at = r.base PROVE FALSE
    <3>1. /\ k \in DOMAIN made /\ made[k].claim.op = "ports"
          /\ made[k].ok \/ AsksBeforeItLooks(Current)
      BY DEF Back, GivesBack
    <3>2. CASE made[k].ok
      <4>1. MetPorts(made, r.base)
        BY <2>1, <3>1, <3>2 DEF MetPorts
      <4> QED
        BY <1>1, <1>2, <4>1, OwnBase
    <3>3. CASE AsksBeforeItLooks(Current)
      <4>1. init \in {4, 5, 8}
        BY <1>1, <3>3, InitsTell DEF AsksBeforeItLooks
      <4>2. r.base \in AskedBy(init)
        BY <1>1, <2>1, <3>1, Unfolded DEF ClaimFits
      <4>3. r.base \in HeldBefore(init)
        BY <1>1, <1>2, Unfolded DEF OldBases, ToSet
      <4> QED
        BY <4>1, <4>2, <4>3, AskedApart
    <3> QED
      BY <3>1, <3>2, <3>3
  <2> QED
    BY <2>1, GiveUpLeaves
<1>3. DOMAIN modules \ {mine} \subseteq DOMAIN modules'
  BY <1>1, ModuleUnregisteredIs
<1>4. \A i \in Irqs : irqs[i] # mine => irqs'[i] = irqs[i]
  BY IrqsAllBack
<1> QED
  BY <1>1, <1>2, <1>3, <1>4 DEF OthersKept

LEMMA PortsKeepOthers == ASSUME BootInv, TakePorts PROVE OthersKept
<1>1. /\ mine # NoOwner /\ todo # <<>> /\ This.op = "ports"
      /\ PortsFree(This.at, This.n) /\ ranges' = PortsRegistered(This.at, This.n, mine)
      /\ UNCHANGED <<modules, irqs, dmas, devices>>
  BY DEF TakePorts, Claiming, This, InitGoesOn
<1>2. This.at \in Nat /\ This.n \in Nat \ {0} /\ mine \in Nat
  BY <1>1, HeadFits, AskedAreNumbers, Unfolded, OwnerIs DEF ClaimFits, ClaimSet
<1>3. ranges \in Seq(RangeSet) /\ Apart(ranges) /\ Len(ranges) \in Nat
  BY <1>1, Unfolded DEF Types
<1>4. /\ DOMAIN ranges' = 1..(Len(ranges) + 1) /\ DOMAIN ranges = 1..Len(ranges)
      /\ \A i \in DOMAIN ranges : ranges'[i] = ranges[i]
  BY <1>1, <1>2, <1>3, PortsRegisteredIs
<1>5. ASSUME NEW r \in ToSet(ranges) PROVE r \in ToSet(ranges')
  <2>1. PICK i \in DOMAIN ranges : r = ranges[i]
    BY DEF ToSet
  <2>2. i \in DOMAIN ranges'
    BY <1>3, <1>4
  <2> QED
    BY <1>4, <2>1, <2>2 DEF ToSet
<1> QED
  BY <1>1, <1>5 DEF OthersKept

LEMMA IrqKeepsOthers == ASSUME BootInv, TakeIrq PROVE OthersKept
<1>1. /\ irqs[This.at] = NoOwner /\ irqs' = [irqs EXCEPT ![This.at] = mine]
      /\ UNCHANGED <<modules, ranges, dmas, devices>>
  BY DEF TakeIrq, InitGoesOn, IrqFree
<1>2. irqs \in [Irqs -> Ids \union {NoOwner}]
  BY DEF BootInv, Types
<1>3. \A i \in Irqs : irqs[i] # NoOwner => irqs'[i] = irqs[i]
  <2> HIDE DEF Ids
  <2> QED
    BY <1>1, <1>2
<1> QED
  BY <1>1, <1>3 DEF OthersKept

LEMMA DmaKeepsOthers == ASSUME BootInv, TakeDma PROVE OthersKept
<1>1. /\ dmas[This.at] = NoOwner /\ dmas' = [dmas EXCEPT ![This.at] = mine]
      /\ UNCHANGED <<modules, ranges, irqs, devices>>
  BY DEF TakeDma, InitGoesOn, DmaFree
<1>2. dmas \in [DmaChannels -> Ids \union {NoOwner}]
  BY DEF BootInv, Types
<1>3. \A c \in DmaChannels : dmas[c] # NoOwner => dmas'[c] = dmas[c]
  <2> HIDE DEF Ids
  <2> QED
    BY <1>1, <1>2
<1> QED
  BY <1>1, <1>3 DEF OthersKept

LEMMA DeviceKeepsOthers ==
  ASSUME BootInv, mine # NoOwner, todo # <<>>,
         \/ This.at \notin DeviceNames /\ devices' = DeviceRegistered(This.at, mine)
         \/ devices' = devices,
         UNCHANGED <<modules, ranges, irqs, dmas>>
  PROVE  OthersKept
<1>1. \A d \in ToSet(devices) : d \in ToSet(devices')
  <2>1. devices \in Seq(DeviceSet) /\ DevicesApart /\ This.at \in Places /\ mine \in Nat
    BY HeadFits, Unfolded, OwnerIs DEF Types, ClaimSet
  <2> QED
    BY <2>1, DeviceAdded
<1> QED
  BY <1>1 DEF OthersKept

LEMMA StartKeepsOthers == ASSUME BootInv, StartInit PROVE OthersKept
<1>1. UNCHANGED <<ranges, irqs, dmas, devices>> /\ DOMAIN modules' = DOMAIN modules \union {born}
  BY StartIs
<1> QED
  BY <1>1 DEF OthersKept

LEMMA IdleKeepsOthers ==
  ASSUME UNCHANGED <<modules, ranges, irqs, dmas, devices>>
  PROVE  OthersKept
BY DEF OthersKept

LEMMA NextKeepsOthers == ASSUME BootInv, Next PROVE OthersKept
<1>1. CASE StartInit
  BY <1>1, StartKeepsOthers
<1>2. CASE StartRefused \/ NothingThere \/ PartitionRefused \/ FormatWithoutMemory \/ Finish \/ Mount
  <2>1. UNCHANGED regvars
    BY <1>2 DEF StartRefused, NothingThere, PartitionRefused, FormatWithoutMemory, Finish, Mount
  <2> QED
    BY <2>1, IdleKeepsOthers DEF regvars
<1>3. CASE AddFormat \/ CheckPasses \/ GoOnWithout
  <2>1. UNCHANGED <<modules, ranges, irqs, dmas, devices>>
    BY <1>3 DEF AddFormat, CheckPasses, GoOnWithout, InitGoesOn
  <2> QED
    BY <2>1, IdleKeepsOthers
<1>4. CASE AddDevice \/ AddPartition \/ DiskWithoutPartitions
  <2>1. /\ mine # NoOwner /\ todo # <<>> /\ UNCHANGED <<modules, ranges, irqs, dmas>>
        /\ \/ This.at \notin DeviceNames /\ devices' = DeviceRegistered(This.at, mine)
           \/ devices' = devices
    BY <1>4 DEF AddDevice, AddPartition, DiskWithoutPartitions, InitGoesOn, Claiming
  <2> QED
    BY <2>1, DeviceKeepsOthers
<1>5. CASE TakePorts
  BY <1>5, PortsKeepOthers
<1>6. CASE TakeIrq
  BY <1>6, IrqKeepsOthers
<1>7. CASE TakeDma
  BY <1>7, DmaKeepsOthers
<1>8. CASE DropPorts
  BY <1>8, DropKeepsOthers
<1>9. CASE GiveUp
  BY <1>9, GiveUpKeepsOthers
<1> QED
  BY <1>1, <1>2, <1>3, <1>4, <1>5, <1>6, <1>7, <1>8, <1>9 DEF Next

-----------------------------------------------------------------------------
\* As many things as names, if no two things have the same.
LEMMA AsManyNames ==
  ASSUME NEW S, IsFiniteSet(S), NEW f, f = [x \in S |-> f[x]],
         \A x, y \in S : f[x] = f[y] => x = y
  PROVE  Cardinality({f[x] : x \in S}) = Cardinality(S)
<1> DEFINE T == {f[x] : x \in S}
<1>1. f \in [S -> T]
  OBVIOUS
<1>2. \A t \in T : \E x \in S : f[x] = t
  OBVIOUS
<1> HIDE DEF T
<1>3. f \in Bijection(S, T)
  BY <1>1, <1>2 DEF Bijection, Injection, Surjection, IsInjective
<1>4. ExistsBijection(S, T)
  BY <1>3 DEF ExistsBijection
<1> QED
  BY <1>4, FS_Bijection DEF T

LEMMA DistinctOf == ASSUME BootInv PROVE NamesDistinct
<1>1. IsFiniteSet(DOMAIN modules) /\ devices \in Seq(DeviceSet) /\ DevicesApart /\ ModulesApart
  BY DEF BootInv, Types, Names
<1>2. Cardinality({<<modules[m].name, modules[m].nr>> : m \in DOMAIN modules})
        = Cardinality(DOMAIN modules)
  <2> DEFINE f == [m \in DOMAIN modules |-> <<modules[m].name, modules[m].nr>>]
  <2>1. \A m, k \in DOMAIN modules : f[m] = f[k] => m = k
    BY <1>1 DEF ModulesApart
  <2>2. f = [m \in DOMAIN modules |-> f[m]]
    OBVIOUS
  <2>3. {<<modules[m].name, modules[m].nr>> : m \in DOMAIN modules} = {f[m] : m \in DOMAIN modules}
    OBVIOUS
  <2> HIDE DEF f
  <2> QED
    BY <1>1, <2>1, <2>2, <2>3, AsManyNames
<1>3. /\ DOMAIN devices = 1..Len(devices) /\ Len(devices) \in Nat
      /\ IsFiniteSet(DOMAIN devices) /\ Cardinality(DOMAIN devices) = Len(devices)
  <2>1. DOMAIN devices = 1..Len(devices) /\ Len(devices) \in Nat
    BY <1>1
  <2> DEFINE L == Len(devices)
  <2>2. IsFiniteSet(1..L) /\ Cardinality(1..L) = IF 1 > L THEN 0 ELSE L - 1 + 1
    <3>1. 1 \in Int /\ L \in Int
      BY <2>1
    <3> QED
      BY <3>1, FS_Interval, Zenon
  <2>3. Cardinality(1..L) = L
    BY <2>1, <2>2
  <2> QED
    BY <2>1, <2>2, <2>3
<1>4. \A i, j \in DOMAIN devices :
        i # j => devices[i].vfs_dev # devices[j].vfs_dev /\ devices[i].name # devices[j].name
  <2> SUFFICES ASSUME NEW i \in DOMAIN devices, NEW j \in DOMAIN devices, i # j
        PROVE  devices[i].vfs_dev # devices[j].vfs_dev /\ devices[i].name # devices[j].name
    OBVIOUS
  <2>1. i < j \/ j < i
    BY <1>3
  <2>2. devices[i].vfs_dev \in Nat /\ devices[j].vfs_dev \in Nat
    BY <1>1, DevicesTyped
  <2> QED
    BY <1>1, <2>1, <2>2 DEF DevicesApart
<1>5. Cardinality(DeviceNames) = Len(devices)
  <2> DEFINE f == [i \in DOMAIN devices |-> devices[i].name]
  <2>1. \A i, j \in DOMAIN devices : f[i] = f[j] => i = j
    BY <1>4
  <2>2. f = [i \in DOMAIN devices |-> f[i]]
    OBVIOUS
  <2>3. DeviceNames = {f[i] : i \in DOMAIN devices}
    BY DEF DeviceNames
  <2> HIDE DEF f
  <2> QED
    BY <1>3, <2>1, <2>2, <2>3, AsManyNames
<1>6. Cardinality({devices[i].vfs_dev : i \in DOMAIN devices}) = Len(devices)
  <2> DEFINE f == [i \in DOMAIN devices |-> devices[i].vfs_dev]
  <2>1. \A i, j \in DOMAIN devices : f[i] = f[j] => i = j
    BY <1>4
  <2>2. f = [i \in DOMAIN devices |-> f[i]]
    OBVIOUS
  <2>3. {devices[i].vfs_dev : i \in DOMAIN devices} = {f[i] : i \in DOMAIN devices}
    OBVIOUS
  <2> HIDE DEF f
  <2> QED
    BY <1>3, <2>1, <2>2, <2>3, AsManyNames
<1> QED
  BY <1>2, <1>5, <1>6 DEF NamesDistinct

-----------------------------------------------------------------------------
\* ports_register() lets no range through that shares a port with another,
\* for any machine and any drivers that fail.
THEOREM PortsNeverShared == Spec => []PortsDisjoint
<1>1. BootInv => PortsDisjoint
  BY DEF BootInv
<1> QED
  BY <1>1, InitHolds, NextKeeps, PTL DEF Spec

\* Every range, line (but the keyboard's), channel and device is owned by a
\* module that is registered: each init that fails after its first claims
\* gives all of them back before it frees its module.
THEOREM OwnersAlwaysRegistered == Spec => []OwnersRegistered
<1>1. BootInv => OwnersRegistered
  BY DEF BootInv
<1> QED
  BY <1>1, InitHolds, NextKeeps, PTL DEF Spec

\* module_register() and device_register() give names and numbers that tell
\* modules and devices apart, whatever was registered and given back before.
THEOREM NamesAlwaysDistinct == Spec => []NamesDistinct
  BY DistinctOf, InitHolds, NextKeeps, PTL DEF Spec

\* No init takes away what another module holds, although ports_unregister()
\* is told a base and not an owner.
THEOREM OthersAlwaysKeepTheirs == Spec => OthersKeepTheirs
<1>1. ASSUME BootInv, [Next]_vars PROVE [OthersKept]_vars
  BY <1>1, NextKeepsOthers
<1> QED
  BY <1>1, InitHolds, NextKeeps, PTL DEF Spec, OthersKeepTheirs, OthersKept
=============================================================================
