--------------------------- MODULE TerminalProofs ---------------------------
(***************************************************************************)
(* Proofs about both sides of kern/terminal.c.  Input, Terminal.tla: the   *)
(* ring of characters is the queue Tty promises, and no process sleeps for *)
(* a line that is there to read.  Output, Console.tla: how many processes  *)
(* may write to a console before its buffer is too small, and a screen     *)
(* shows what was printed to it, however its console is switched.          *)
(***************************************************************************)
EXTENDS Terminal, Console, FiniteSetTheorems, SequenceTheorems, TLAPS

\* Places of the ring, on constants: how many characters lie between t and h,
\* which place the i-th of them has, and the characters themselves.
Count(h, t) == (h - t) % MAX_INPUT

PlaceOf(t, i) == (t + i - 1) % MAX_INPUT

Content(b, h, t) == [i \in 1..Count(h, t) |-> b[PlaceOf(t, i)]]

\* Who is about to take a character may read one.
RoomLeft == \A r \in Reader : pc[r] \in {"take", "wrap"} => maxlen[r] > 0

LineUnlessAwake == \A r \in Reader : pc[r] = "asleep_line" => Ends(Unread) = {}

TerminalInv == TypeOK /\ RoomLeft /\ LineUnlessAwake

Place == {"user", "line", "asleep_line", "empty", "asleep_raw", "copy", "take", "wrap"}

-----------------------------------------------------------------------------
\* Every set of naturals that is not empty has a least element.
LEMMA LeastNatural ==
    ASSUME NEW X \in SUBSET Nat, X # {}
    PROVE  \E m \in X : \A n \in X : m <= n
<1> DEFINE F == {S \in FiniteSubsetsOf(Nat) : \E m \in X : S = 0..m}
<1>1. IsWellFoundedOn(StrictSubsetOrdering(Nat), FiniteSubsetsOf(Nat))
  BY FS_StrictSubsetOrderingWellFounded
<1>2. \A m \in X : 0..m \in FiniteSubsetsOf(Nat)
  BY FS_Interval DEF FiniteSubsetsOf
<1>3. F # {} /\ F \subseteq FiniteSubsetsOf(Nat)
  BY <1>2
<1>4. PICK S \in F : \A U \in F : <<U, S>> \notin StrictSubsetOrdering(Nat)
  BY <1>1, <1>3, WFMin
<1>5. PICK m \in X : S = 0..m
  BY <1>4
<1>6. ASSUME NEW n \in X, n < m
      PROVE  FALSE
  <2>1. 0..n \in F
    BY <1>2
  <2>2. 0..n \subseteq 0..m /\ 0..n # 0..m /\ 0..n \subseteq Nat /\ 0..m \subseteq Nat
    <3>1. m \in 0..m /\ m \notin 0..n
      BY <1>6
    <3> QED
      BY <1>6, <3>1
  <2>3. <<0..n, 0..m>> \in StrictSubsetOrdering(Nat)
    BY <2>2 DEF StrictSubsetOrdering
  <2> QED
    BY <1>4, <1>5, <2>1, <2>3
<1> QED
  BY <1>6

LEMMA CountIs ==
    ASSUME NEW h \in Index, NEW t \in Index
    PROVE  /\ Count(h, t) = IF h >= t THEN h - t ELSE h - t + MAX_INPUT
           /\ Count(h, t) \in 0..(MAX_INPUT - 1)
<1>1. CASE h >= t
  <2>1. h - t \in 0..(MAX_INPUT - 1)
    BY <1>1, TerminalAssumption DEF Index
  <2> QED
    BY <1>1, <2>1, TerminalAssumption DEF Count, Index
<1>2. CASE h < t
  <2>1. h - t \in -MAX_INPUT..-1
    BY <1>2, TerminalAssumption DEF Index
  <2> QED
    BY <1>2, <2>1, TerminalAssumption DEF Count, Index
<1> QED
  BY <1>1, <1>2, TerminalAssumption DEF Index

LEMMA PlaceOfIs ==
    ASSUME NEW t \in Index, NEW i \in 1..MAX_INPUT
    PROVE  /\ PlaceOf(t, i) = IF t + i <= MAX_INPUT THEN t + i - 1 ELSE t + i - 1 - MAX_INPUT
           /\ PlaceOf(t, i) \in Index
<1>1. CASE t + i <= MAX_INPUT
  <2>1. t + i - 1 \in 0..(MAX_INPUT - 1)
    BY <1>1, TerminalAssumption DEF Index
  <2> QED
    BY <1>1, <2>1, TerminalAssumption DEF PlaceOf, Index
<1>2. CASE t + i > MAX_INPUT
  <2>1. t + i - 1 \in MAX_INPUT..(2 * MAX_INPUT - 1)
    BY <1>2, TerminalAssumption DEF Index
  <2> QED
    BY <1>2, <2>1, TerminalAssumption DEF PlaceOf, Index
<1> QED
  BY <1>1, <1>2, TerminalAssumption DEF Index

LEMMA ContentSeq ==
    ASSUME NEW b \in [Index -> Char], NEW h \in Index, NEW t \in Index
    PROVE  /\ Content(b, h, t) \in Seq(Char)
           /\ Len(Content(b, h, t)) = Count(h, t)
           /\ \A i \in 1..Count(h, t) : Content(b, h, t)[i] = b[PlaceOf(t, i)]
<1>1. Count(h, t) \in 0..(MAX_INPUT - 1)
  BY CountIs
<1> DEFINE n == Count(h, t)
           s == Content(b, h, t)
<1>2. n \in Nat /\ n < MAX_INPUT
  BY <1>1, TerminalAssumption
<1>3. \A i \in 1..n : b[PlaceOf(t, i)] \in Char
  <2>1. SUFFICES ASSUME NEW i \in 1..n PROVE PlaceOf(t, i) \in Index
    OBVIOUS
  <2>2. i \in 1..MAX_INPUT
    BY <1>2, TerminalAssumption
  <2> QED
    BY <2>2, PlaceOfIs
<1>4. s \in [1..n -> Char] /\ \A i \in 1..n : s[i] = b[PlaceOf(t, i)]
  BY <1>3 DEF Content
<1> HIDE DEF n, s
<1>5. s \in Seq(Char)
  BY <1>2, <1>4, SeqDef
<1>6. Len(s) = n
  BY <1>2, <1>4, <1>5, LenProperties
<1> QED
  BY <1>4, <1>5, <1>6 DEF n, s

\* A character typed where there is room comes last.
LEMMA ContentAppend ==
    ASSUME NEW b \in [Index -> Char], NEW h \in Index, NEW t \in Index,
           NEW c \in Char, Wrapped(h + 1) # t
    PROVE  /\ Content([b EXCEPT ![h] = c], Wrapped(h + 1), t) = Append(Content(b, h, t), c)
           /\ Len(Content(b, h, t)) < MAX_INPUT - 1
<1>1. PICK k : k = Wrapped(h + 1)
  OBVIOUS
<1>2. PICK b2 : b2 = [b EXCEPT ![h] = c]
  OBVIOUS
<1> DEFINE n == Count(h, t)
           s == Content(b, h, t)
           s2 == Content(b2, k, t)
<1>3. k \in Index /\ k # t /\ k = IF h + 1 >= MAX_INPUT THEN 0 ELSE h + 1
  BY <1>1, TerminalAssumption DEF Wrapped, Index
<1>4. /\ n = (IF h >= t THEN h - t ELSE h - t + MAX_INPUT)
      /\ Count(k, t) = (IF k >= t THEN k - t ELSE k - t + MAX_INPUT)
      /\ n \in 0..(MAX_INPUT - 1)
  BY <1>3, CountIs
<1>5. b2 \in [Index -> Char] /\ b2[h] = c /\ \A j \in Index \ {h} : b2[j] = b[j]
  BY <1>2
<1>6. /\ s2 \in Seq(Char) /\ Len(s2) = Count(k, t)
      /\ \A i \in 1..Count(k, t) : s2[i] = b2[PlaceOf(t, i)]
  BY <1>3, <1>5, ContentSeq
<1>7. s \in Seq(Char) /\ Len(s) = n /\ \A i \in 1..n : s[i] = b[PlaceOf(t, i)]
  BY ContentSeq
<1> HIDE DEF n, s, s2
<1>8. Count(k, t) = n + 1 /\ n \in 0..(MAX_INPUT - 2)
  BY <1>3, <1>4, TerminalAssumption DEF Index
<1>9. \A i \in 1..n + 1 : PlaceOf(t, i) \in Index /\ (PlaceOf(t, i) = h <=> i = n + 1)
  <2>1. SUFFICES ASSUME NEW i \in 1..n + 1
                 PROVE  PlaceOf(t, i) \in Index /\ (PlaceOf(t, i) = h <=> i = n + 1)
    OBVIOUS
  <2>2. i \in 1..MAX_INPUT
    BY <1>8, TerminalAssumption
  <2>3. /\ PlaceOf(t, i) = IF t + i <= MAX_INPUT THEN t + i - 1 ELSE t + i - 1 - MAX_INPUT
        /\ PlaceOf(t, i) \in Index
    BY <2>2, PlaceOfIs
  <2> QED
    BY <1>4, <1>8, <2>2, <2>3, TerminalAssumption DEF Index
<1> DEFINE a == Append(s, c)
<1>10. /\ a \in Seq(Char) /\ Len(a) = n + 1
       /\ \A i \in 1..n : a[i] = s[i]
       /\ a[n + 1] = c
  BY <1>7, AppendProperties
<1> HIDE DEF a
<1>11. \A i \in 1..n + 1 : s2[i] = a[i]
  <2>1. SUFFICES ASSUME NEW i \in 1..n + 1 PROVE s2[i] = a[i]
    OBVIOUS
  <2>2. s2[i] = b2[PlaceOf(t, i)]
    BY <1>6, <1>8
  <2>3. CASE i = n + 1
    BY <1>5, <1>9, <1>10, <2>2, <2>3
  <2>4. CASE i # n + 1
    <3>1. i \in 1..n
      BY <1>8, <2>4, TerminalAssumption
    <3> QED
      BY <1>5, <1>7, <1>9, <1>10, <2>2, <2>4, <3>1
  <2> QED
    BY <2>3, <2>4
<1>12. s2 = a
  BY <1>6, <1>8, <1>10, <1>11, SeqEqual
<1>13. Len(s) < MAX_INPUT - 1
  BY <1>7, <1>8, TerminalAssumption
<1> QED
  BY <1>1, <1>2, <1>12, <1>13 DEF a, s, s2

\* With the head further back, a part at the front is left.
LEMMA ContentShrink ==
    ASSUME NEW b \in [Index -> Char], NEW h \in Index, NEW k \in Index, NEW t \in Index,
           Count(k, t) <= Count(h, t)
    PROVE  Content(b, k, t) = SubSeq(Content(b, h, t), 1, Count(k, t))
<1> DEFINE n == Count(h, t)
           m == Count(k, t)
           s == Content(b, h, t)
           s2 == Content(b, k, t)
           u == SubSeq(s, 1, m)
<1>1. s \in Seq(Char) /\ Len(s) = n /\ \A i \in 1..n : s[i] = b[PlaceOf(t, i)]
  BY ContentSeq
<1>2. s2 \in Seq(Char) /\ Len(s2) = m /\ \A i \in 1..m : s2[i] = b[PlaceOf(t, i)]
  BY ContentSeq
<1>3. n \in Nat /\ m \in Nat /\ m <= n
  BY CountIs, TerminalAssumption
<1> HIDE DEF s, s2, n, m
<1>4. \A i \in 1..m : s[i] \in Char
  <2>1. \A i \in 1..m : i \in 1..Len(s)
    BY <1>1, <1>3
  <2> QED
    BY <1>1, <2>1, ElementOfSeq
<1>5. u \in Seq(Char) /\ Len(u) = m /\ \A i \in 1..m : u[i] = s[i]
  BY <1>3, <1>4, SubSeqProperties
<1> HIDE DEF u
<1>6. \A i \in 1..m : s2[i] = u[i]
  BY <1>1, <1>2, <1>3, <1>5
<1>7. s2 = u
  BY <1>2, <1>5, <1>6, SeqEqual
<1> QED
  BY <1>7 DEF s, s2, n, m, u

\* With the tail n places further on, the first n characters are gone.
LEMMA ContentDrop ==
    ASSUME NEW b \in [Index -> Char], NEW h \in Index, NEW t \in Index,
           NEW k \in 1..Count(h, t)
    PROVE  /\ (t + k) % MAX_INPUT \in Index
           /\ Content(b, h, (t + k) % MAX_INPUT)
                = SubSeq(Content(b, h, t), k + 1, Len(Content(b, h, t)))
<1> DEFINE n == Count(h, t)
           t2 == (t + k) % MAX_INPUT
           m == Count(h, t2)
           s == Content(b, h, t)
           s2 == Content(b, h, t2)
           u == SubSeq(s, k + 1, n)
<1>1. s \in Seq(Char) /\ Len(s) = n /\ \A i \in 1..n : s[i] = b[PlaceOf(t, i)]
  BY ContentSeq
<1>2. n \in 0..(MAX_INPUT - 1) /\ n = IF h >= t THEN h - t ELSE h - t + MAX_INPUT
  BY CountIs
<1>3. t2 = (IF t + k < MAX_INPUT THEN t + k ELSE t + k - MAX_INPUT) /\ t2 \in Index
  <2>1. PICK j : j = t + k
    OBVIOUS
  <2>2. CASE j < MAX_INPUT
    <3>1. j \in 0..(MAX_INPUT - 1)
      BY <1>2, <2>1, <2>2, TerminalAssumption DEF Index
    <3>2. j % MAX_INPUT = j
      BY <3>1, TerminalAssumption
    <3> QED
      BY <2>1, <2>2, <3>1, <3>2 DEF Index
  <2>3. CASE ~(j < MAX_INPUT)
    <3>1. j \in MAX_INPUT..(2 * MAX_INPUT - 1)
      BY <1>2, <2>1, <2>3, TerminalAssumption DEF Index
    <3>2. j % MAX_INPUT = j - MAX_INPUT
      BY <3>1, TerminalAssumption
    <3> QED
      BY <2>1, <2>3, <3>1, <3>2, TerminalAssumption DEF Index
  <2> QED
    BY <2>2, <2>3
<1> HIDE DEF t2
<1>4. s2 \in Seq(Char) /\ Len(s2) = m /\ \A i \in 1..m : s2[i] = b[PlaceOf(t2, i)]
  BY <1>3, ContentSeq
<1>11. m = IF h >= t2 THEN h - t2 ELSE h - t2 + MAX_INPUT
  BY <1>3, CountIs
<1> HIDE DEF s, s2, n, m
<1>5. m = n - k /\ k \in 1..n /\ n < MAX_INPUT
  BY <1>2, <1>3, <1>11, TerminalAssumption DEF Index, n
<1>6. \A i \in 1..m : PlaceOf(t2, i) = PlaceOf(t, k + i)
  <2>1. SUFFICES ASSUME NEW i \in 1..m PROVE PlaceOf(t2, i) = PlaceOf(t, k + i)
    OBVIOUS
  <2>2. PICK j : j = k + i
    OBVIOUS
  <2>3. i \in 1..MAX_INPUT /\ j \in 1..MAX_INPUT
    BY <1>2, <1>5, <2>2, TerminalAssumption
  <2>4. /\ PlaceOf(t2, i) = IF t2 + i <= MAX_INPUT THEN t2 + i - 1 ELSE t2 + i - 1 - MAX_INPUT
        /\ PlaceOf(t, j) = IF t + j <= MAX_INPUT THEN t + j - 1 ELSE t + j - 1 - MAX_INPUT
    BY <1>3, <2>3, PlaceOfIs
  <2>5. PlaceOf(t2, i) = PlaceOf(t, j)
    BY <1>2, <1>3, <1>5, <2>2, <2>3, <2>4, TerminalAssumption DEF Index
  <2> QED
    BY <2>2, <2>5
<1>7. \A i \in k + 1..n : s[i] \in Char
  <2>1. \A i \in k + 1..n : i \in 1..Len(s)
    BY <1>1, <1>2, <1>5, TerminalAssumption
  <2> QED
    BY <1>1, <2>1, ElementOfSeq
<1>8. u \in Seq(Char) /\ Len(u) = m /\ \A i \in 1..m : u[i] = s[k + i]
  <2>1. PICK f : f = k + 1
    OBVIOUS
  <2>2. f \in Int /\ n \in Int /\ m = n - f + 1 /\ m \in Nat
    BY <1>2, <1>5, <2>1, TerminalAssumption
  <2>3. \A i \in f..n : s[i] \in Char
    BY <1>7, <2>1
  <2>4. /\ SubSeq(s, f, n) \in Seq(Char)
        /\ Len(SubSeq(s, f, n)) = IF f <= n THEN n - f + 1 ELSE 0
        /\ \A i \in 1..(n - f + 1) : SubSeq(s, f, n)[i] = s[f + i - 1]
    BY <2>2, <2>3, SubSeqProperties
  <2>5. u = SubSeq(s, f, n)
    BY <2>1
  <2>6. Len(SubSeq(s, f, n)) = m
    BY <2>2, <2>4
  <2>7. \A i \in 1..m : f + i - 1 = k + i
    BY <1>2, <1>5, <2>1, <2>2
  <2> QED
    BY <2>2, <2>4, <2>5, <2>6, <2>7
<1> HIDE DEF u
<1>9. \A i \in 1..m : s2[i] = u[i]
  <2>1. \A i \in 1..m : k + i \in 1..n
    BY <1>2, <1>5, TerminalAssumption
  <2> QED
    BY <1>1, <1>4, <1>6, <1>8, <2>1
<1>10. s2 = u
  BY <1>4, <1>8, <1>9, SeqEqual
<1> QED
  BY <1>1, <1>3, <1>10 DEF s, s2, t2, u

-----------------------------------------------------------------------------
\* The same for the variables.
LEMMA UnreadIs ==
    ASSUME TypeOK
    PROVE  /\ Wrapped(inputtail) \in Index
           /\ Unread = Content(inputbuf, inputhead, Wrapped(inputtail))
           /\ Unread \in Seq(Char)
           /\ Len(Unread) = Count(inputhead, Wrapped(inputtail))
           /\ \A i \in 1..Len(Unread) : Unread[i] = inputbuf[PlaceOf(Wrapped(inputtail), i)]
<1>1. Wrapped(inputtail) \in Index
  <2>1. inputtail \in 0..MAX_INPUT
    BY DEF TypeOK
  <2> QED
    BY <2>1, TerminalAssumption DEF Wrapped, Index
<1>2. Unread = Content(inputbuf, inputhead, Wrapped(inputtail))
  BY DEF Unread, Used, Content, Count, PlaceOf
<1>3. inputbuf \in [Index -> Char] /\ inputhead \in Index
  BY DEF TypeOK
<1> QED
  BY <1>1, <1>2, <1>3, ContentSeq

LEMMA UnreadNext ==
    Unread' = Content(inputbuf', inputhead', Wrapped(inputtail'))
BY DEF Unread, Used, Content, Count, PlaceOf, Wrapped

\* A step that moves none of the characters keeps them.
LEMMA UnreadSame ==
    ASSUME TypeOK, inputbuf' = inputbuf, inputhead' = inputhead,
           Wrapped(inputtail') = Wrapped(inputtail)
    PROVE  Unread' = Unread
BY UnreadIs, UnreadNext

\* .. and is quiet if it gives none to a reader.
LEMMA QuietStep ==
    ASSUME TypeOK, inputbuf' = inputbuf, inputhead' = inputhead,
           Wrapped(inputtail') = Wrapped(inputtail), taken' = <<>>
    PROVE  T!Next
<1>1. Unread' = Unread
  BY UnreadSame
<1> QED
  BY <1>1 DEF T!Next, T!Quiet

\* Nobody who was awake falls asleep for a line, and no end of a line comes in.
LEMMA StayAwake ==
    ASSUME LineUnlessAwake,
           \A r \in Reader : pc'[r] = "asleep_line" =>
              pc[r] = "asleep_line" /\ (Ends(Unread) = {} => Ends(Unread') = {})
    PROVE  LineUnlessAwake'
BY DEF LineUnlessAwake, Ends

LEMMA HaltInv ==
    ASSUME TerminalInv, NEW why \in {"overrun", "head_lost", "spins", "outside", "race"},
           Halt(why)
    PROVE  TerminalInv' /\ T!Next
<1>1. UNCHANGED <<inputbuf, inputhead, inputtail, icanon, ixon, pc, maxlen>>
      /\ taken' = <<>> /\ halt' = why
  BY DEF Halt, ring, flags
<1>2. TypeOK'
  BY <1>1 DEF TerminalInv, TypeOK
<1>3. RoomLeft'
  BY <1>1 DEF TerminalInv, RoomLeft
<1>4. Unread' = Unread /\ T!Next
  BY <1>1, UnreadSame, QuietStep DEF TerminalInv
<1>5. LineUnlessAwake'
  BY <1>1, <1>4, StayAwake DEF TerminalInv
<1> QED
  BY <1>2, <1>3, <1>4, <1>5 DEF TerminalInv

\* A step of one process that leaves the ring alone.
LEMMA ReaderStep ==
    ASSUME TerminalInv, NEW r \in Reader, NEW s \in Place, NEW n \in Nat,
           pc' = [pc EXCEPT ![r] = s], maxlen' = [maxlen EXCEPT ![r] = n],
           s \in {"take", "wrap"} => n > 0,
           s = "asleep_line" => Ends(Unread) = {},
           inputbuf' = inputbuf, inputhead' = inputhead,
           Wrapped(inputtail') = Wrapped(inputtail), inputtail' \in 0..MAX_INPUT,
           UNCHANGED <<flags, halt>>, taken' = <<>>
    PROVE  TerminalInv' /\ T!Next
<1>1. pc \in [Reader -> Place] /\ maxlen \in [Reader -> Nat]
  BY DEF TerminalInv, TypeOK, Place
<1>2. pc' \in [Reader -> Place] /\ maxlen' \in [Reader -> Nat]
  BY <1>1
<1>3. TypeOK'
  BY <1>2 DEF TerminalInv, TypeOK, Place, flags
<1>4. RoomLeft'
  BY <1>1 DEF TerminalInv, RoomLeft
<1>5. Unread' = Unread /\ T!Next
  BY UnreadSame, QuietStep DEF TerminalInv
<1>6. LineUnlessAwake'
  BY <1>1, <1>5 DEF TerminalInv, LineUnlessAwake, Ends
<1> QED
  BY <1>3, <1>4, <1>5, <1>6 DEF TerminalInv

-----------------------------------------------------------------------------
\* terminal_add_to_inputbuf()
LEMMA TypeCharStep ==
    ASSUME TerminalInv, NEW c \in Char, TypeChar(c) PROVE TerminalInv' /\ T!Next
<1> DEFINE next == Wrapped(inputhead + 1)
<1>1. /\ TypeOK /\ RoomLeft /\ LineUnlessAwake
      /\ inputbuf \in [Index -> Char] /\ inputhead \in Index
      /\ pc \in [Reader -> Place] /\ maxlen \in [Reader -> Nat]
  BY DEF TerminalInv, TypeOK, Place
<1>2. /\ pc' = IF Wakes(c) THEN [r \in Reader |-> WakesTo(pc[r])] ELSE pc
      /\ taken' = <<>> /\ UNCHANGED <<inputtail, icanon, ixon, maxlen, halt>>
  BY DEF TypeChar, flags
<1>3. \/ inputbuf' = inputbuf /\ inputhead' = inputhead
      \/ /\ next # Wrapped(inputtail)
         /\ inputbuf' = [inputbuf EXCEPT ![inputhead] = c] /\ inputhead' = next
  BY DEF TypeChar
<1>4. \A r \in Reader : /\ WakesTo(pc[r]) \in Place
                        /\ WakesTo(pc[r]) \in {"take", "wrap"} => WakesTo(pc[r]) = pc[r]
                        /\ WakesTo(pc[r]) # "asleep_line"
  <2>1. SUFFICES ASSUME NEW w \in Place
                 PROVE  /\ WakesTo(w) \in Place
                        /\ WakesTo(w) \in {"take", "wrap"} => WakesTo(w) = w
                        /\ WakesTo(w) # "asleep_line"
    BY <1>1
  <2> QED
    BY DEF WakesTo, Place
<1>5. /\ pc' \in [Reader -> Place]
      /\ \A r \in Reader : /\ pc'[r] \in {"take", "wrap"} => pc'[r] = pc[r]
                           /\ pc'[r] = "asleep_line" => pc[r] = "asleep_line" /\ ~Wakes(c)
  <2>1. CASE Wakes(c)
    BY <1>2, <1>4, <2>1
  <2>2. CASE ~Wakes(c)
    BY <1>1, <1>2, <2>2
  <2> QED
    BY <2>1, <2>2
<1>6. next \in Index
  BY <1>1, TerminalAssumption DEF Wrapped, Index
<1>7. inputbuf' \in [Index -> Char] /\ inputhead' \in Index
  BY <1>1, <1>3, <1>6
<1>8. TypeOK'
  BY <1>1, <1>2, <1>5, <1>7 DEF TypeOK, Place
<1>9. RoomLeft'
  BY <1>1, <1>2, <1>5 DEF RoomLeft
<1>10. CASE inputbuf' = inputbuf /\ inputhead' = inputhead
  <2>1. Unread' = Unread /\ T!Next
    BY <1>1, <1>2, <1>10, UnreadSame, QuietStep
  <2>2. LineUnlessAwake'
    BY <1>1, <1>5, <2>1, StayAwake
  <2> QED
    BY <1>8, <1>9, <2>1, <2>2 DEF TerminalInv
<1>11. CASE /\ next # Wrapped(inputtail)
            /\ inputbuf' = [inputbuf EXCEPT ![inputhead] = c] /\ inputhead' = next
  <2>1. PICK t : t = Wrapped(inputtail)
    OBVIOUS
  <2>2. t \in Index /\ Unread = Content(inputbuf, inputhead, t) /\ Unread \in Seq(Char)
    BY <1>1, <2>1, UnreadIs
  <2>3. Unread' = Content(inputbuf', next, t)
    BY <1>2, <1>11, <2>1, UnreadNext
  <2>4. Unread' = Append(Unread, c) /\ Len(Unread) < MAX_INPUT - 1
    BY <1>1, <1>11, <2>1, <2>2, <2>3, ContentAppend
  <2>5. T!Next
    BY <1>2, <2>4 DEF T!Next, T!Type
  <2>6. c \notin LineEnd /\ Ends(Unread) = {} => Ends(Unread') = {}
    <3>1. PICK s \in Seq(Char) : s = Unread
      BY <2>2
    <3>2. /\ Len(Append(s, c)) = Len(s) + 1 /\ Len(s) \in Nat
          /\ \A i \in 1..Len(s) : Append(s, c)[i] = s[i]
          /\ Append(s, c)[Len(s) + 1] = c
      BY AppendProperties, LenProperties
    <3> QED
      BY <2>4, <3>1, <3>2 DEF Ends
  <2>7. LineUnlessAwake'
    BY <1>1, <1>5, <2>6, StayAwake DEF Wakes
  <2> QED
    BY <1>8, <1>9, <2>5, <2>7 DEF TerminalInv
<1> QED
  BY <1>3, <1>10, <1>11

\* The characters an erase may take back end where it says, within the ring.
LEMMA ErasedToIs ==
    ASSUME TypeOK, Erasable(inputhead), NEW all \in BOOLEAN
    PROVE  /\ ErasedTo(all) \in 0..(inputhead - 1)
           /\ \A i \in (ErasedTo(all) + 1)..inputhead : Erasable(i)
<1>1. inputhead \in Nat /\ inputhead > 0
  <2>1. inputhead \in Index /\ inputhead > 0
    BY DEF TypeOK, Erasable
  <2> QED
    BY <2>1, TerminalAssumption DEF Index
<1>2. CASE ~all
  <2>1. PICK k : k = inputhead - 1
    OBVIOUS
  <2>2. ErasedTo(all) = k
    BY <1>2, <2>1 DEF ErasedTo
  <2>3. k \in 0..(inputhead - 1) /\ \A i \in (k + 1)..inputhead : i = inputhead
    BY <1>1, <2>1
  <2> QED
    BY <2>1, <2>2, <2>3
<1>3. CASE all
  <2> DEFINE Reaches(h) == \A i \in (h + 1)..inputhead : Erasable(i)
             S == {h \in Nat : h <= inputhead /\ Reaches(h)}
  <2>1. inputhead \in S
    BY <1>1
  <2>2. PICK h \in S : \A n \in S : h <= n
    BY <2>1, LeastNatural
  <2>3. ~Erasable(h)
    <3>1. SUFFICES ASSUME Erasable(h) PROVE FALSE
      OBVIOUS
    <3>2. h > 0 /\ h - 1 \in Nat
      BY <2>2, <3>1 DEF Erasable
    <3>3. Reaches(h - 1)
      <4>1. SUFFICES ASSUME NEW i \in ((h - 1) + 1)..inputhead PROVE Erasable(i)
        OBVIOUS
      <4>2. i = h \/ i \in (h + 1)..inputhead
        BY <1>1, <3>2
      <4> QED
        BY <2>2, <3>1, <4>2
    <3>4. h - 1 \in S
      BY <1>1, <2>2, <3>2, <3>3
    <3> QED
      BY <2>2, <3>2, <3>4
  <2>4. h \in 0..inputhead /\ Reaches(h)
    BY <1>1, <2>2
  <2>5. PICK k : k = ErasedTo(TRUE)
    OBVIOUS
  <2>6. k \in 0..inputhead /\ Reaches(k) /\ ~Erasable(k)
    BY <2>3, <2>4, <2>5 DEF ErasedTo
  <2>7. k # inputhead
    BY <2>6
  <2>8. k \in 0..(inputhead - 1)
    BY <1>1, <2>6, <2>7
  <2> QED
    BY <1>3, <2>5, <2>6, <2>8
<1> QED
  BY <1>2, <1>3

\* VERASE and VKILL
LEMMA EraseStep ==
    ASSUME TerminalInv, NEW all \in BOOLEAN, EraseChars(all) PROVE TerminalInv' /\ T!Next
<1>1. /\ TypeOK /\ RoomLeft /\ LineUnlessAwake
      /\ inputbuf \in [Index -> Char] /\ inputhead \in Index /\ inputtail \in 0..MAX_INPUT
  BY DEF TerminalInv, TypeOK
<1>2. /\ taken' = <<>>
      /\ UNCHANGED <<inputbuf, inputtail, icanon, ixon, pc, maxlen, halt>>
      /\ inputhead' = IF Erasable(inputhead) THEN ErasedTo(all) ELSE inputhead
  BY DEF EraseChars, flags
<1>3. RoomLeft'
  BY <1>1, <1>2 DEF RoomLeft
<1>4. CASE ~Erasable(inputhead)
  <2>1. Unread' = Unread /\ T!Next
    BY <1>1, <1>2, <1>4, UnreadSame, QuietStep
  <2>2. TypeOK'
    BY <1>1, <1>2, <1>4 DEF TypeOK
  <2>3. LineUnlessAwake'
    BY <1>1, <1>2, <2>1, StayAwake
  <2> QED
    BY <1>3, <2>1, <2>2, <2>3 DEF TerminalInv
<1>5. CASE Erasable(inputhead)
  <2>1. PICK h : h = ErasedTo(all)
    OBVIOUS
  <2>2. h \in 0..(inputhead - 1) /\ \A i \in (h + 1)..inputhead : Erasable(i)
    BY <1>1, <1>5, <2>1, ErasedToIs
  <2>3. h \in Index /\ inputhead' = h
    BY <1>1, <1>2, <1>5, <2>1, <2>2, TerminalAssumption DEF Index
  <2>4. TypeOK'
    BY <1>1, <1>2, <2>3 DEF TypeOK
  <2>5. PICK t : t = Wrapped(inputtail)
    OBVIOUS
  <2>6. /\ t \in Index /\ Unread \in Seq(Char)
        /\ Unread = Content(inputbuf, inputhead, t)
        /\ Len(Unread) = Count(inputhead, t)
        /\ \A i \in 1..Len(Unread) : Unread[i] = inputbuf[PlaceOf(t, i)]
    BY <1>1, <2>5, UnreadIs
  <2>7. Unread' = Content(inputbuf, h, t)
    BY <1>2, <2>3, <2>5, UnreadNext
  <2>8. \A i \in (h + 1)..inputhead : i # t /\ inputbuf[i - 1] \notin LineEnd
    <3>1. SUFFICES ASSUME NEW i \in (h + 1)..inputhead
                   PROVE  i # t /\ inputbuf[i - 1] \notin LineEnd
      OBVIOUS
    <3>2. i # inputtail /\ i > 0 /\ inputbuf[i - 1] \notin LineEnd
      BY <2>2 DEF Erasable
    <3> QED
      BY <2>5, <3>2 DEF Wrapped
  <2>9. PICK n, m : n = Count(inputhead, t) /\ m = Count(h, t)
    OBVIOUS
  <2>10. /\ n = IF inputhead >= t THEN inputhead - t ELSE inputhead - t + MAX_INPUT
         /\ m = IF h >= t THEN h - t ELSE h - t + MAX_INPUT
         /\ n \in 0..(MAX_INPUT - 1) /\ m \in 0..(MAX_INPUT - 1)
    BY <1>1, <2>3, <2>6, <2>9, CountIs
  <2>11. t <= inputhead => t <= h
    <3>1. SUFFICES ASSUME t <= inputhead, ~(t <= h) PROVE FALSE
      OBVIOUS
    <3>2. t \in (h + 1)..inputhead
      BY <1>1, <2>3, <2>6, <3>1, TerminalAssumption DEF Index
    <3> QED
      BY <2>8, <3>2
  <2>12. m < n /\ n - m = inputhead - h
    <3>1. /\ inputhead \in Nat /\ h \in Nat /\ t \in Nat /\ MAX_INPUT \in Nat
          /\ h < inputhead /\ n \in Nat /\ m \in Nat
      BY <1>1, <2>2, <2>3, <2>6, <2>10, TerminalAssumption DEF Index
    <3>2. CASE t <= inputhead
      BY <2>10, <2>11, <3>1, <3>2
    <3>3. CASE ~(t <= inputhead)
      BY <2>10, <3>1, <3>3
    <3> QED
      BY <3>2, <3>3
  <2>13. Unread' = SubSeq(Unread, 1, m)
    <3>1. Count(h, t) <= Count(inputhead, t)
      BY <2>9, <2>10, <2>12, TerminalAssumption
    <3>2. Content(inputbuf, h, t) = SubSeq(Content(inputbuf, inputhead, t), 1, Count(h, t))
      BY <1>1, <2>3, <2>6, <3>1, ContentShrink
    <3> QED
      BY <2>6, <2>7, <2>9, <3>2
  <2>14. \A i \in (m + 1)..n : Unread[i] \notin LineEnd
    <3>1. SUFFICES ASSUME NEW i \in (m + 1)..n PROVE Unread[i] \notin LineEnd
      OBVIOUS
    <3>2. i \in 1..MAX_INPUT /\ i \in 1..n
      BY <2>10, TerminalAssumption
    <3>3. PICK j : j = PlaceOf(t, i)
      OBVIOUS
    <3>4. j = (IF t + i <= MAX_INPUT THEN t + i - 1 ELSE t + i - 1 - MAX_INPUT) /\ j \in Index
      BY <2>6, <3>2, <3>3, PlaceOfIs
    <3>5. j + 1 \in (h + 1)..inputhead
      BY <1>1, <2>3, <2>6, <2>10, <2>11, <3>2, <3>4, TerminalAssumption DEF Index
    <3>6. PICK k : k = j + 1
      OBVIOUS
    <3>7. k - 1 = j
      BY <3>4, <3>6, TerminalAssumption DEF Index
    <3>8. inputbuf[j] \notin LineEnd
      BY <2>8, <3>5, <3>6, <3>7
    <3> QED
      BY <2>6, <2>9, <3>2, <3>3, <3>8
  <2>15. PICK s \in Seq(Char) : s = Unread
    BY <2>6
  <2>16. Len(s) = n /\ \A i \in 1..n : s[i] \in Char
    BY <2>6, <2>9, <2>15, ElementOfSeq
  <2>17. m \in 0..(Len(s) - 1)
    BY <2>10, <2>12, <2>16, TerminalAssumption
  <2>18. /\ Len(SubSeq(s, m + 1, n)) = n - m
         /\ \A i \in 1..(n - m) : SubSeq(s, m + 1, n)[i] \notin LineEnd
    <3>1. PICK f : f = m + 1
      OBVIOUS
    <3>7. n \in Nat /\ m \in Nat /\ m < n
      BY <2>10, <2>12
    <3>8. f \in Nat /\ 1 <= f /\ f <= n /\ n - f + 1 = n - m
      BY <3>1, <3>7
    <3>9. \A i \in f..n : i \in 1..n
      BY <3>7, <3>8
    <3>2. /\ f \in Int /\ n \in Int /\ f <= n /\ n - f + 1 = n - m
          /\ \A i \in f..n : s[i] \in Char
      BY <2>16, <3>7, <3>8, <3>9
    <3>3. /\ Len(SubSeq(s, f, n)) = IF f <= n THEN n - f + 1 ELSE 0
          /\ \A i \in 1..(n - f + 1) : SubSeq(s, f, n)[i] = s[f + i - 1]
      BY <3>2, SubSeqProperties
    <3>4. \A i \in 1..(n - m) : f + i - 1 \in (m + 1)..n
      BY <3>1, <3>7
    <3>5. Len(SubSeq(s, f, n)) = n - m
      BY <3>2, <3>3
    <3>6. \A i \in 1..(n - m) : SubSeq(s, f, n)[i] \notin LineEnd
      <4>1. SUFFICES ASSUME NEW i \in 1..(n - m)
                     PROVE  SubSeq(s, f, n)[i] \notin LineEnd
        OBVIOUS
      <4>2. SubSeq(s, f, n)[i] = s[f + i - 1]
        BY <3>2, <3>3, <4>1
      <4>3. s[f + i - 1] \notin LineEnd
        BY <2>14, <2>15, <3>4, <4>1
      <4> QED
        BY <4>2, <4>3
    <3> QED
      BY <3>1, <3>5, <3>6
  <2>19. T!NoLineEnd(T!After(m))
    BY <2>15, <2>16, <2>18 DEF T!NoLineEnd, T!After
  <2>20. T!Erase
    BY <1>2, <2>13, <2>15, <2>17, <2>19 DEF T!Erase, T!Before
  <2>21. Ends(Unread) = {} => Ends(Unread') = {}
    <3>1. /\ Len(SubSeq(s, 1, m)) = m /\ \A i \in 1..m : SubSeq(s, 1, m)[i] = s[i]
      <4>1. m \in Nat /\ \A i \in 1..m : s[i] \in Char
        BY <2>10, <2>12, <2>16, TerminalAssumption
      <4> QED
        BY <4>1, SubSeqProperties
    <3>2. m <= n /\ m \in Nat /\ n \in Nat
      BY <2>10, <2>12, TerminalAssumption
    <3> QED
      BY <2>13, <2>15, <2>16, <3>1, <3>2 DEF Ends
  <2>22. LineUnlessAwake'
    BY <1>1, <1>2, <2>21, StayAwake
  <2> QED
    BY <1>3, <2>4, <2>20, <2>22 DEF TerminalInv, T!Next
<1> QED
  BY <1>4, <1>5

-----------------------------------------------------------------------------
\* Characters taken at the front of the ring, none but the last of which ends a line.
LEMMA TakesFront ==
    ASSUME TypeOK, NEW n \in 1..Len(Unread), inputbuf' = inputbuf, inputhead' = inputhead,
           Wrapped(inputtail') = (Wrapped(inputtail) + n) % MAX_INPUT,
           taken' = SubSeq(Unread, 1, n),
           \A i \in 1..(n - 1) : Unread[i] \notin LineEnd
    PROVE  /\ T!Next
           /\ Ends(Unread) = {} => Ends(Unread') = {}
<1>1. inputbuf \in [Index -> Char] /\ inputhead \in Index
  BY DEF TypeOK
<1>2. PICK t : t = Wrapped(inputtail)
  OBVIOUS
<1>3. /\ t \in Index /\ Unread = Content(inputbuf, inputhead, t) /\ Unread \in Seq(Char)
      /\ Len(Unread) = Count(inputhead, t)
  BY <1>2, UnreadIs
<1>4. Unread' = SubSeq(Unread, n + 1, Len(Unread))
  BY <1>1, <1>2, <1>3, ContentDrop, UnreadNext
<1>5. PICK s \in Seq(Char) : s = Unread
  BY <1>3
<1>6. Len(s) \in Nat /\ n \in 1..Len(s) /\ \A i \in 1..Len(s) : s[i] \in Char
  BY <1>5, ElementOfSeq, LenProperties
<1>7. T!NoLineEnd(T!Before(n - 1))
  <2>1. PICK k : k = n - 1
    OBVIOUS
  <2>2. k \in Nat /\ \A i \in 1..k : s[i] \in Char
    BY <1>6, <2>1
  <2>3. Len(SubSeq(s, 1, k)) = k /\ \A i \in 1..k : SubSeq(s, 1, k)[i] = s[i]
    BY <2>2, SubSeqProperties
  <2> QED
    BY <1>5, <2>1, <2>3 DEF T!NoLineEnd, T!Before
<1>8. T!Take
  BY <1>4, <1>5, <1>6, <1>7 DEF T!Take, T!Before, T!After
<1>9. Ends(Unread) = {} => Ends(Unread') = {}
  <2>1. PICK f, l : f = n + 1 /\ l = Len(s)
    OBVIOUS
  <2>2. f \in Nat /\ l \in Nat /\ f > 1 /\ f <= l + 1 /\ \A i \in f..l : s[i] \in Char
    BY <1>6, <2>1
  <2>3. /\ Len(SubSeq(s, f, l)) = IF f <= l THEN l - f + 1 ELSE 0
        /\ \A i \in 1..(l - f + 1) : SubSeq(s, f, l)[i] = s[f + i - 1]
    BY <2>2, SubSeqProperties
  <2>4. Len(SubSeq(s, f, l)) = l - f + 1
    BY <2>2, <2>3
  <2>5. \A i \in 1..(l - f + 1) : f + i - 1 \in 1..l
    BY <2>2
  <2>6. Unread' = SubSeq(s, f, l)
    BY <1>4, <1>5, <2>1
  <2> QED
    BY <1>5, <2>1, <2>3, <2>4, <2>5, <2>6 DEF Ends
<1> QED
  BY <1>8, <1>9 DEF T!Next

\* The canonical branch of terminal_read() takes one line, or the front of it.
LEMMA ReadLineStep ==
    ASSUME TerminalInv, NEW r \in Reader, ReadLine(r) PROVE TerminalInv' /\ T!Next
<1>1. /\ TypeOK /\ RoomLeft /\ LineUnlessAwake
      /\ pc \in [Reader -> Place] /\ maxlen \in [Reader -> Nat]
  BY DEF TerminalInv, TypeOK, Place
<1>2. PICK n : n = AtMost(LineLength, maxlen[r])
  OBVIOUS
<1>3. /\ inputtail \in Index /\ Ends(Unread) # {} /\ maxlen[r] > 0
      /\ taken' = SubSeq(Unread, 1, n) /\ inputtail' = (inputtail + n) % MAX_INPUT
      /\ pc' = [pc EXCEPT ![r] = "user"] /\ maxlen' = [maxlen EXCEPT ![r] = 0]
      /\ UNCHANGED <<inputbuf, inputhead, icanon, ixon, halt>>
  BY <1>2 DEF ReadLine, flags
<1>4. Len(Unread) \in Nat
  BY <1>1, UnreadIs, LenProperties
<1>5. PICK l \in Ends(Unread) : l = LineLength /\ \A m \in Ends(Unread) : l <= m
  <2>1. Ends(Unread) \in SUBSET Nat
    BY <1>4 DEF Ends
  <2>2. \E l \in Ends(Unread) : \A m \in Ends(Unread) : l <= m
    BY <1>3, <2>1, LeastNatural
  <2> QED
    BY <2>2 DEF LineLength
<1>6. n \in 1..l /\ l \in 1..Len(Unread)
  <2>1. l \in 1..Len(Unread) /\ maxlen[r] \in Nat
    BY <1>1, <1>5 DEF Ends
  <2> QED
    BY <1>2, <1>3, <1>4, <1>5, <2>1 DEF AtMost
<1>7. n \in 1..Len(Unread) /\ \A i \in 1..(n - 1) : Unread[i] \notin LineEnd
  <2>1. SUFFICES ASSUME NEW i \in 1..(n - 1) PROVE Unread[i] \notin LineEnd
    BY <1>4, <1>6
  <2>2. i \in 1..Len(Unread) /\ ~(l <= i)
    BY <1>4, <1>6
  <2> QED
    BY <1>5, <2>2 DEF Ends
<1>8. Wrapped(inputtail) = inputtail
  BY <1>3, TerminalAssumption DEF Index, Wrapped
<1>9. inputtail' \in Index /\ Wrapped(inputtail') = (Wrapped(inputtail) + n) % MAX_INPUT
  <2>1. inputtail + n \in Int
    BY <1>3, <1>4, <1>6, TerminalAssumption DEF Index
  <2>2. (inputtail + n) % MAX_INPUT \in 0..(MAX_INPUT - 1)
    BY <2>1, TerminalAssumption
  <2> QED
    BY <1>3, <1>8, <2>2, TerminalAssumption DEF Index, Wrapped
<1>10. T!Next /\ (Ends(Unread) = {} => Ends(Unread') = {})
  BY <1>1, <1>3, <1>7, <1>9, TakesFront
<1>11. inputtail' \in 0..MAX_INPUT
  BY <1>9, TerminalAssumption DEF Index
<1>12. pc' \in [Reader -> Place] /\ maxlen' \in [Reader -> Nat]
  BY <1>1, <1>3 DEF Place
<1>13. TypeOK'
  BY <1>1, <1>3, <1>11, <1>12 DEF TypeOK, Place
<1>14. RoomLeft'
  BY <1>1, <1>3 DEF RoomLeft
<1>15. LineUnlessAwake'
  BY <1>1, <1>3, <1>10, StayAwake
<1> QED
  BY <1>10, <1>13, <1>14, <1>15 DEF TerminalInv

\* The raw branch takes one character ..
LEMMA TakeStep ==
    ASSUME TerminalInv, NEW r \in Reader, Take(r) PROVE TerminalInv' /\ T!Next
<1>1. /\ TypeOK /\ RoomLeft /\ LineUnlessAwake
      /\ pc \in [Reader -> Place] /\ maxlen \in [Reader -> Nat]
      /\ inputbuf \in [Index -> Char] /\ inputhead \in Index
  BY DEF TerminalInv, TypeOK, Place
<1>2. /\ pc[r] = "take" /\ inputtail \in Index /\ Used > 0
      /\ taken' = <<inputbuf[inputtail]>> /\ inputtail' = inputtail + 1
      /\ pc' = [pc EXCEPT ![r] = "wrap"]
      /\ UNCHANGED <<inputbuf, inputhead, icanon, ixon, maxlen, halt>>
  BY DEF Take, flags
<1>3. Wrapped(inputtail) = inputtail
  BY <1>2, TerminalAssumption DEF Index, Wrapped
<1>4. Len(Unread) = Used /\ Unread \in Seq(Char) /\ Used \in 0..(MAX_INPUT - 1)
  BY <1>1, <1>2, <1>3, UnreadIs, CountIs DEF Used, Count
<1>5. 1 \in 1..Len(Unread) /\ \A i \in 1..(1 - 1) : Unread[i] \notin LineEnd
  BY <1>2, <1>4, TerminalAssumption
<1>6. Wrapped(inputtail') = (Wrapped(inputtail) + 1) % MAX_INPUT
  <2>1. CASE inputtail + 1 = MAX_INPUT
    <3>1. MAX_INPUT % MAX_INPUT = 0
      BY TerminalAssumption
    <3> QED
      BY <1>2, <1>3, <2>1, <3>1, TerminalAssumption DEF Wrapped
  <2>2. CASE inputtail + 1 # MAX_INPUT
    <3>1. PICK j : j = inputtail + 1
      OBVIOUS
    <3>2. j \in 0..(MAX_INPUT - 1)
      BY <1>2, <2>2, <3>1, TerminalAssumption DEF Index
    <3>3. j % MAX_INPUT = j
      BY <3>2, TerminalAssumption
    <3> QED
      BY <1>2, <1>3, <3>1, <3>2, <3>3, TerminalAssumption DEF Wrapped
  <2> QED
    BY <2>1, <2>2
<1>7. taken' = SubSeq(Unread, 1, 1)
  <2>1. PICK s \in Seq(Char) : s = Unread
    BY <1>4
  <2>2. s[1] = inputbuf[inputtail]
    <3>1. PlaceOf(inputtail, 1) = inputtail
      BY <1>2, PlaceOfIs, TerminalAssumption DEF Index
    <3> QED
      BY <1>1, <1>3, <1>5, <2>1, <3>1, UnreadIs
  <2>3. \A i \in 1..1 : s[i] \in Char
    BY <1>5, <2>1, ElementOfSeq
  <2>4. /\ SubSeq(s, 1, 1) \in Seq(Char) /\ Len(SubSeq(s, 1, 1)) = 1
        /\ SubSeq(s, 1, 1)[1] = s[1]
    BY <2>3, SubSeqProperties
  <2>5. s[1] \in Char
    BY <2>3
  <2>6. <<s[1]>> \in Seq(Char) /\ Len(<<s[1]>>) = 1 /\ <<s[1]>>[1] = s[1]
    BY <2>5
  <2>7. \A i \in 1..1 : i = 1
    OBVIOUS
  <2>8. <<s[1]>> = SubSeq(s, 1, 1)
    BY <2>4, <2>6, <2>7, SeqEqual
  <2> QED
    BY <1>2, <2>1, <2>2, <2>8
<1>8. T!Next /\ (Ends(Unread) = {} => Ends(Unread') = {})
  BY <1>1, <1>2, <1>5, <1>6, <1>7, TakesFront
<1>9. inputtail' \in 0..MAX_INPUT
  BY <1>2, TerminalAssumption DEF Index
<1>10. pc' \in [Reader -> Place]
  BY <1>1, <1>2 DEF Place
<1>11. TypeOK'
  BY <1>1, <1>2, <1>9, <1>10 DEF TypeOK, Place
<1>12. RoomLeft'
  BY <1>1, <1>2 DEF RoomLeft
<1>13. LineUnlessAwake'
  BY <1>1, <1>2, <1>8, StayAwake
<1> QED
  BY <1>8, <1>11, <1>12, <1>13 DEF TerminalInv

\* .. and moves the tail back to the start of the ring if it left it.
LEMMA WrapStep ==
    ASSUME TerminalInv, NEW r \in Reader, Wrap(r) PROVE TerminalInv' /\ T!Next
<1>1. /\ pc[r] = "wrap" /\ inputtail' = Wrapped(inputtail) /\ taken' = <<>>
      /\ pc' = [pc EXCEPT ![r] = "copy"]
      /\ UNCHANGED <<inputbuf, inputhead, flags, halt>>
  BY DEF Wrap
<1>2. maxlen[r] \in Nat /\ maxlen[r] > 0
  BY <1>1 DEF TerminalInv, TypeOK, RoomLeft
<1>3. PICK n \in Nat : n = maxlen[r] - 1
  BY <1>2
<1>4. maxlen' = [maxlen EXCEPT ![r] = n]
  BY <1>3 DEF Wrap
<1>5. /\ inputtail' \in Index /\ inputtail' \in 0..MAX_INPUT
      /\ Wrapped(inputtail') = Wrapped(inputtail)
  <2>1. Wrapped(inputtail) \in Index
    BY UnreadIs DEF TerminalInv
  <2>2. \A i \in Index : Wrapped(i) = i /\ i \in 0..MAX_INPUT
    BY TerminalAssumption DEF Index, Wrapped
  <2> QED
    BY <1>1, <2>1, <2>2
<1>6. "copy" \in Place
  BY DEF Place
<1> QED
  BY <1>1, <1>4, <1>5, <1>6, ReaderStep

\* Where nothing but the place of one process in terminal_read() changes.
LEMMA PlaceStep ==
    ASSUME TerminalInv, NEW r \in Reader, NEW s \in Place,
           pc' = [pc EXCEPT ![r] = s],
           s \in {"take", "wrap"} => maxlen[r] > 0,
           s = "asleep_line" => Ends(Unread) = {},
           UNCHANGED <<ring, flags, maxlen, halt>>, taken' = <<>>
    PROVE  TerminalInv' /\ T!Next
<1>1. maxlen \in [Reader -> Nat] /\ inputtail \in 0..MAX_INPUT
  BY DEF TerminalInv, TypeOK
<1>2. maxlen' = [maxlen EXCEPT ![r] = maxlen[r]] /\ maxlen[r] \in Nat
  BY <1>1
<1>3. inputbuf' = inputbuf /\ inputhead' = inputhead /\ inputtail' = inputtail
  BY DEF ring
<1> QED
  BY <1>1, <1>2, <1>3, ReaderStep

LEMMA ReadStep ==
    ASSUME TerminalInv, NEW r \in Reader, NEW n \in Lengths, Read(r, n)
    PROVE  TerminalInv' /\ T!Next
<1>1. PICK s : s = IF icanon THEN "line" ELSE IF inputtail = inputhead THEN "empty" ELSE "copy"
  OBVIOUS
<1>2. s \in Place /\ s \notin {"take", "wrap", "asleep_line"}
  BY <1>1 DEF Place
<1>3. /\ pc' = [pc EXCEPT ![r] = s] /\ maxlen' = [maxlen EXCEPT ![r] = n]
      /\ taken' = <<>> /\ UNCHANGED <<ring, flags, halt>>
  BY <1>1 DEF Read
<1>4. n \in Nat /\ inputtail \in 0..MAX_INPUT
  BY TerminalAssumption DEF TerminalInv, TypeOK
<1>5. inputbuf' = inputbuf /\ inputhead' = inputhead /\ inputtail' = inputtail
  BY <1>3 DEF ring
<1> QED
  BY <1>2, <1>3, <1>4, <1>5, ReaderStep

LEMMA SleepForLineStep ==
    ASSUME TerminalInv, NEW r \in Reader, SleepForLine(r) PROVE TerminalInv' /\ T!Next
<1>1. "asleep_line" \in Place
  BY DEF Place
<1> QED
  BY <1>1, PlaceStep DEF SleepForLine

LEMMA SleepForCharStep ==
    ASSUME TerminalInv, NEW r \in Reader, SleepForChar(r) PROVE TerminalInv' /\ T!Next
<1>1. "asleep_raw" \in Place
  BY DEF Place
<1> QED
  BY <1>1, PlaceStep DEF SleepForChar

LEMMA SignalStep ==
    ASSUME TerminalInv, NEW r \in Reader, Signal(r) PROVE TerminalInv' /\ T!Next
<1>1. PICK s : s = WakesTo(pc[r])
  OBVIOUS
<1>2. s \in {"line", "copy"}
  BY <1>1 DEF Signal, WakesTo
<1>3. s \in Place /\ s \notin {"take", "wrap", "asleep_line"}
  BY <1>2 DEF Place
<1>4. pc' = [pc EXCEPT ![r] = s] /\ taken' = <<>> /\ UNCHANGED <<ring, flags, maxlen, halt>>
  BY <1>1 DEF Signal
<1> QED
  BY <1>3, <1>4, PlaceStep

LEMMA CopyLoopStep ==
    ASSUME TerminalInv, NEW r \in Reader, CopyLoop(r) PROVE TerminalInv' /\ T!Next
<1>1. maxlen[r] \in Nat /\ inputtail \in 0..MAX_INPUT
  BY DEF TerminalInv, TypeOK
<1>2. "user" \in Place /\ "take" \in Place
  BY DEF Place
<1>3. taken' = <<>> /\ UNCHANGED <<ring, flags, halt>>
  BY DEF CopyLoop
<1>4. CASE maxlen[r] = 0 \/ inputtail = inputhead
  <2>1. pc' = [pc EXCEPT ![r] = "user"] /\ maxlen' = [maxlen EXCEPT ![r] = 0]
    BY <1>4 DEF CopyLoop
  <2>2. inputbuf' = inputbuf /\ inputhead' = inputhead /\ inputtail' = inputtail
    BY <1>3 DEF ring
  <2> QED
    BY <1>1, <1>2, <1>3, <2>1, <2>2, ReaderStep
<1>5. CASE ~(maxlen[r] = 0 \/ inputtail = inputhead)
  <2>1. pc' = [pc EXCEPT ![r] = "take"] /\ UNCHANGED maxlen
    BY <1>5 DEF CopyLoop
  <2>2. maxlen[r] > 0
    BY <1>1, <1>5
  <2> QED
    BY <1>2, <1>3, <2>1, <2>2, PlaceStep
<1> QED
  BY <1>4, <1>5

LEMMA SetTermioStep ==
    ASSUME TerminalInv, NEW canon \in BOOLEAN, NEW xon \in BOOLEAN, SetTermio(canon, xon)
    PROVE  TerminalInv' /\ T!Next
<1>1. /\ icanon' = canon /\ ixon' = xon /\ taken' = <<>>
      /\ UNCHANGED <<inputbuf, inputhead, inputtail, pc, maxlen, halt>>
  BY DEF SetTermio, ring
<1>2. TypeOK'
  BY <1>1 DEF TerminalInv, TypeOK
<1>3. RoomLeft'
  BY <1>1 DEF TerminalInv, RoomLeft
<1>4. Unread' = Unread /\ T!Next
  BY <1>1, UnreadSame, QuietStep DEF TerminalInv
<1>5. LineUnlessAwake'
  BY <1>1, <1>4, StayAwake DEF TerminalInv
<1> QED
  BY <1>2, <1>3, <1>4, <1>5 DEF TerminalInv

-----------------------------------------------------------------------------
\* Every step of the terminal keeps the invariant and is a step of Tty.
THEOREM TerminalStep == TerminalInv /\ [Next]_vars => TerminalInv' /\ [T!Next]_<<Unread, taken>>
<1> SUFFICES ASSUME TerminalInv, [Next]_vars
             PROVE  TerminalInv' /\ [T!Next]_<<Unread, taken>>
  OBVIOUS
<1>1. CASE UNCHANGED vars
  <2>1. /\ UNCHANGED <<inputbuf, inputhead, inputtail, icanon, ixon, pc, maxlen, halt>>
        /\ taken' = taken
    BY <1>1 DEF vars, ring, flags
  <2>2. Unread' = Unread
    BY <2>1, UnreadSame DEF TerminalInv
  <2>3. TypeOK' /\ RoomLeft'
    BY <2>1 DEF TerminalInv, TypeOK, RoomLeft
  <2>4. LineUnlessAwake'
    BY <2>1, <2>2, StayAwake DEF TerminalInv
  <2> QED
    BY <2>1, <2>2, <2>3, <2>4 DEF TerminalInv
<1>2. CASE Next
  <2>1. ASSUME NEW c \in Char, TypeChar(c) PROVE TerminalInv' /\ T!Next
    BY <2>1, TypeCharStep
  <2>2. ASSUME NEW all \in BOOLEAN, EraseChars(all) PROVE TerminalInv' /\ T!Next
    BY <2>2, EraseStep
  <2>3. CASE Overrun \/ \E all \in BOOLEAN : EraseAtZero(all)
    BY <2>3, HaltInv DEF Overrun, EraseAtZero
  <2>4. ASSUME NEW r \in Reader, Spins(r) \/ ReadsOutside(r) \/ TakeRaces(r)
        PROVE  TerminalInv' /\ T!Next
    BY <2>4, HaltInv DEF Spins, ReadsOutside, TakeRaces
  <2>5. ASSUME NEW r \in Reader,
               \/ \E n \in Lengths : Read(r, n)
               \/ ReadLine(r) \/ SleepForLine(r) \/ SleepForChar(r) \/ Signal(r)
               \/ CopyLoop(r) \/ Take(r) \/ Wrap(r)
        PROVE  TerminalInv' /\ T!Next
    BY <2>5, ReadStep, ReadLineStep, SleepForLineStep, SleepForCharStep, SignalStep,
       CopyLoopStep, TakeStep, WrapStep
  <2>6. ASSUME NEW canon \in BOOLEAN, NEW xon \in BOOLEAN, SetTermio(canon, xon)
        PROVE  TerminalInv' /\ T!Next
    BY <2>6, SetTermioStep
  <2> QED
    BY <1>2, <2>1, <2>2, <2>3, <2>4, <2>5, <2>6 DEF Next
<1> QED
  BY <1>1, <1>2

LEMMA TerminalInit == Init => TerminalInv /\ T!Init
<1> SUFFICES ASSUME Init PROVE TerminalInv /\ T!Init
  OBVIOUS
<1>1. /\ inputbuf \in [Index -> LineEnd] /\ inputhead = 0 /\ inputtail = 0
      /\ icanon = TRUE /\ ixon = FALSE /\ taken = <<>> /\ halt = ""
      /\ pc = [r \in Reader |-> "user"] /\ maxlen = [r \in Reader |-> 0]
  BY DEF Init
<1>2. inputbuf \in [Index -> Char]
  BY <1>1 DEF Char
<1>3. 0 \in Index /\ 0 \in 0..MAX_INPUT
  BY TerminalAssumption DEF Index
<1>4. TypeOK
  BY <1>1, <1>2, <1>3 DEF TypeOK
<1>5. RoomLeft /\ LineUnlessAwake
  BY <1>1 DEF RoomLeft, LineUnlessAwake
<1>6. Unread = <<>>
  <2>1. Wrapped(inputtail) = 0
    BY <1>1, TerminalAssumption DEF Wrapped
  <2>2. Unread \in Seq(Char) /\ Len(Unread) = Count(0, 0)
    BY <1>1, <1>4, <2>1, UnreadIs
  <2>3. Count(0, 0) = 0
    BY <1>3, CountIs
  <2> QED
    BY <2>2, <2>3, EmptySeq
<1> QED
  BY <1>1, <1>4, <1>5, <1>6 DEF TerminalInv, T!Init

\* Nobody sleeps in terminal_read() for a line that is there, in any state.
THEOREM NoLineMissed == Spec => []LineReaderMissesNothing
<1>1. TerminalInv => LineReaderMissesNothing
  BY DEF TerminalInv, LineReaderMissesNothing, LineUnlessAwake
<1> QED
  BY <1>1, TerminalInit, TerminalStep, PTL DEF Spec

\* The ring of kern/terminal.c implements the queue Tty.
THEOREM TerminalImplementsTty == Spec => ImplementsTty
BY TerminalInit, TerminalStep, PTL DEF Spec, ImplementsTty, T!Spec

-----------------------------------------------------------------------------
(***************************************************************************)
(* The output side, which is module Console: how full the outputbuf of a   *)
(* console gets when several processes write to it.                        *)
(***************************************************************************)
\* Who may write to a console, and who is about to add two characters or one
\* to its outputbuf before he looks again whether there is room; j is job.
WritersOf(v) == {p \in Writer : <<p, v>> \in Opens}

Owing(j, v, at) == {p \in Writer : j[p].v = v /\ j[p].at = at}

Owed(j, v) == 2 * Cardinality(Owing(j, v, "convert")) + Cardinality(Owing(j, v, "append"))

IsJob(e) ==
  e \in [at : {e.at}, v : {e.v}, text : {e.text}, done : {e.done}, len : {e.len},
         k : {e.k}, spaces : {e.spaces}, ch : {e.ch},
         inVideo : {e.inVideo}]

AtHome(e, p) == IsJob(e) /\ (e.at # "idle" => <<p, e.v>> \in Opens)

Jobs(j) == j = [p \in Writer |-> j[p]] /\ \A p \in Writer : AtHome(j[p], p)

Buffers(o) ==
  /\ o = [v \in VC |-> o[v]]
  /\ \A v \in VC : o[v] \in [buf : {o[v].buf}, len : Nat]

\* One less than what makes a writer go back, and two for each writer.
Bound(v) == MAX_OUTPUT - OUTPUT_MARGIN - 1 + 2 * Cardinality(WritersOf(v))

OutputInv ==
  /\ Jobs(job) /\ Buffers(out)
  /\ \A v \in VC : out[v].len + Owed(job, v) <= Bound(v)

\* An echo is at most three characters.
OutputSizes ==
  /\ MAX_OUTPUT \in Nat /\ OUTPUT_MARGIN \in Nat /\ OUTPUT_MARGIN + 4 <= MAX_OUTPUT
  /\ IsFiniteSet(Writer)

\* Process p goes on to another place, and nobody else does.
Moves(p, to) ==
  /\ Jobs(job')
  /\ \A q \in Writer \ {p} : job'[q] = job[q]
  /\ job'[p].at = to

\* A process that goes on from one place to another.
LEMMA GoesOn ==
  ASSUME NEW e, NEW p \in Writer, AtHome(e, p), e.at # "idle", NEW to
  PROVE  LET n == [e EXCEPT !.at = to]
         IN  AtHome(n, p) /\ n.at = to /\ n.v = e.v
BY DEF AtHome, IsJob

LEMMA WriterMoves ==
  ASSUME Jobs(job), NEW p \in Writer, job[p].at # "idle", NEW to,
         job' = [job EXCEPT ![p].at = to]
  PROVE  Moves(p, to) /\ job'[p].v = job[p].v
<1> DEFINE n == [job[p] EXCEPT !.at = to]
<1>1. AtHome(job[p], p)
  BY DEF Jobs
<1>2. AtHome(n, p) /\ n.at = to /\ n.v = job[p].v
  BY <1>1, GoesOn
<1>3. job' = [job EXCEPT ![p] = n]
  OBVIOUS
<1> HIDE DEF n
<1>4. job' = [q \in Writer |-> IF q = p THEN n ELSE job[q]]
  BY <1>3 DEF Jobs
<1>5. Jobs(job') /\ job'[p] = n /\ \A q \in Writer \ {p} : job'[q] = job[q]
  BY <1>2, <1>4 DEF Jobs
<1> QED
  BY <1>2, <1>5 DEF Moves

LEMMA OwingIs ==
  ASSUME OutputSizes, NEW j, Jobs(j), NEW v
  PROVE  /\ IsFiniteSet(WritersOf(v)) /\ Cardinality(WritersOf(v)) \in Nat
         /\ \A at : IsFiniteSet(Owing(j, v, at)) /\ Cardinality(Owing(j, v, at)) \in Nat
         /\ Owed(j, v) \in Nat /\ Owed(j, v) <= 2 * Cardinality(WritersOf(v))
<1> DEFINE two == Owing(j, v, "convert")
           one == Owing(j, v, "append")
<1>1. IsFiniteSet(WritersOf(v))
  <2>1. WritersOf(v) \subseteq Writer
    BY DEF WritersOf
  <2> QED
    BY <2>1, FS_Subset DEF OutputSizes
<1>2. two \subseteq WritersOf(v) /\ one \subseteq WritersOf(v)
  BY DEF Owing, WritersOf, Jobs, AtHome
<1>3. two \cap one = {}
  BY DEF Owing
<1>4. \A at : IsFiniteSet(Owing(j, v, at))
  <2> SUFFICES ASSUME NEW at PROVE IsFiniteSet(Owing(j, v, at))
    OBVIOUS
  <2>1. Owing(j, v, at) \subseteq Writer
    BY DEF Owing
  <2> QED
    BY <2>1, FS_Subset DEF OutputSizes
<1>5. /\ Cardinality(WritersOf(v)) \in Nat /\ Cardinality({}) = 0
      /\ \A at : Cardinality(Owing(j, v, at)) \in Nat
  BY <1>1, <1>4, FS_CardinalityType, FS_EmptySet
<1>6. Cardinality(two \cup one) = Cardinality(two) + Cardinality(one) - Cardinality(two \cap one)
  BY <1>4, FS_Union
<1>7. Cardinality(two \cup one) <= Cardinality(WritersOf(v))
  <2>1. two \cup one \subseteq WritersOf(v)
    BY <1>2
  <2> QED
    BY <1>1, <2>1, FS_Subset
<1>8. Cardinality(two) \in Nat /\ Cardinality(one) \in Nat
  BY <1>5
<1>9. Owed(j, v) = 2 * Cardinality(two) + Cardinality(one)
  BY DEF Owed
<1> QED
  <2>1. Owed(j, v) \in Nat /\ Owed(j, v) <= 2 * Cardinality(WritersOf(v))
    <3>1. Cardinality(two \cap one) = 0 /\ Cardinality(WritersOf(v)) \in Nat
      BY <1>3, <1>5
    <3> HIDE DEF two, one
    <3> QED
      BY <3>1, <1>6, <1>7, <1>8, <1>9
  <2> QED
    BY <1>1, <1>4, <1>5, <2>1

\* Whatever is owed, a buffer in which there is room by then has room for it.
LEMMA RoomAfterLook ==
  ASSUME OutputSizes, NEW j, Jobs(j), NEW v, NEW n \in Nat, n < MAX_OUTPUT - OUTPUT_MARGIN
  PROVE  n + Owed(j, v) <= Bound(v)
BY OwingIs DEF Bound, OutputSizes

\* A step after which a process owes less or as much.
LEMMA OwedShrinks ==
  ASSUME OutputSizes, NEW j, Jobs(j), NEW i, Jobs(i), NEW v,
         \A at \in {"convert", "append"} : Owing(i, v, at) \subseteq Owing(j, v, at)
  PROVE  Owed(i, v) <= Owed(j, v)
<1>1. \A at \in {"convert", "append"} :
        Cardinality(Owing(i, v, at)) <= Cardinality(Owing(j, v, at))
  BY OwingIs, FS_Subset
<1>2. \A at : Cardinality(Owing(i, v, at)) \in Nat /\ Cardinality(Owing(j, v, at)) \in Nat
  BY OwingIs
<1>3. /\ Cardinality(Owing(i, v, "convert")) <= Cardinality(Owing(j, v, "convert"))
      /\ Cardinality(Owing(i, v, "append")) <= Cardinality(Owing(j, v, "append"))
  BY <1>1
<1> QED
  BY <1>2, <1>3 DEF Owed

\* Process p does anything but convert.
LEMMA OthersMove ==
  ASSUME OutputSizes, OutputInv, NEW p \in Writer, NEW to, Moves(p, to),
         to \notin {"convert", "append"}, UNCHANGED out
  PROVE  OutputInv'
<1> SUFFICES ASSUME NEW v \in VC
             PROVE  out[v].len + Owed(job', v) <= Bound(v)
  BY DEF OutputInv, Moves, Bound, WritersOf, Buffers
<1>1. \A at \in {"convert", "append"} : Owing(job', v, at) \subseteq Owing(job, v, at)
  BY DEF Owing, Moves
<1>2. Owed(job', v) <= Owed(job, v)
  BY <1>1, OwedShrinks DEF Moves, OutputInv
<1>3. Owed(job', v) \in Nat /\ Owed(job, v) \in Nat /\ Cardinality(WritersOf(v)) \in Nat
  BY OwingIs DEF Moves, OutputInv
<1> QED
  BY <1>2, <1>3 DEF OutputInv, Buffers, Bound, OutputSizes

\* A step of process p that does not convert, wherever it leads.
LEMMA Harmless ==
  ASSUME OutputSizes, OutputInv, NEW p \in Writer,
         job' = [q \in Writer |-> job'[q]], \A q \in Writer \ {p} : job'[q] = job[q],
         AtHome(job'[p], p), job'[p].at \notin {"convert", "append"}, UNCHANGED out
  PROVE  OutputInv'
<1>1. Moves(p, job'[p].at)
  BY DEF Moves, OutputInv, Jobs
<1> QED
  BY <1>1, OthersMove

-----------------------------------------------------------------------------
LEMMA CharAdded ==
  ASSUME Buffers(out), NEW v, NEW ch, out' = [out EXCEPT ![v] = Append1(@, ch)]
  PROVE  /\ Buffers(out')
         /\ \A u \in VC : out'[u].len = IF u = v THEN out[u].len + 1 ELSE out[u].len
<1>1. CASE v \notin VC
  BY <1>1 DEF Buffers
<1>2. CASE v \in VC
  <2> DEFINE b == Append1(out[v], ch)
  <2>1. b \in [buf : {b.buf}, len : Nat] /\ b.len = out[v].len + 1
    BY <1>2 DEF Append1, Buffers
  <2>2. out' = [out EXCEPT ![v] = b]
    OBVIOUS
  <2> HIDE DEF b
  <2>3. out' = [u \in VC |-> IF u = v THEN b ELSE out[u]]
    BY <2>2 DEF Buffers
  <2> QED
    BY <2>1, <2>3 DEF Buffers
<1> QED
  BY <1>1, <1>2

\* terminal_write() adds a character and owes one less: the CR before a newline,
LEMMA NewlineKeeps ==
  ASSUME OutputSizes, OutputInv, NEW p \in Writer, ConvertNewline(p)
  PROVE  OutputInv'
<1> DEFINE v == job[p].v
<1>1. /\ job[p].at = "convert" /\ job' = [job EXCEPT ![p].at = "append"]
      /\ out' = [out EXCEPT ![v] = Append1(@, "cr")]
  BY DEF ConvertNewline, Runs, Goes
<1>2. Jobs(job) /\ Buffers(out)
  BY DEF OutputInv
<1>3. Moves(p, "append") /\ job'[p].v = v
  BY <1>1, <1>2, WriterMoves
<1>4. /\ Buffers(out')
      /\ \A u \in VC :
            out'[u].len = IF u = v THEN out[u].len + 1 ELSE out[u].len
  BY <1>1, <1>2, CharAdded
<1>5. ASSUME NEW u \in VC, u # v
      PROVE  out'[u].len + Owed(job', u) <= Bound(u)
  <2>1. \A at : Owing(job', u, at) = Owing(job, u, at)
    BY <1>3, <1>5 DEF Owing, Moves
  <2> QED
    BY <2>1, <1>4, <1>5 DEF Owed, OutputInv
<1>6. ASSUME v \in VC
      PROVE  out'[v].len + Owed(job', v) <= Bound(v)
  <2>1. /\ Owing(job', v, "convert") = Owing(job, v, "convert") \ {p}
        /\ Owing(job', v, "append") = Owing(job, v, "append") \cup {p}
        /\ p \in Owing(job, v, "convert") /\ p \notin Owing(job, v, "append")
    BY <1>1, <1>3 DEF Owing, Moves
  <2>2. /\ IsFiniteSet(Owing(job, v, "convert")) /\ IsFiniteSet(Owing(job, v, "append"))
        /\ Cardinality(Owing(job, v, "convert")) \in Nat
        /\ Cardinality(Owing(job, v, "append")) \in Nat
        /\ Cardinality(WritersOf(v)) \in Nat
    BY <1>2, OwingIs
  <2>3. /\ Cardinality(Owing(job', v, "convert")) = Cardinality(Owing(job, v, "convert")) - 1
        /\ Cardinality(Owing(job', v, "append")) = Cardinality(Owing(job, v, "append")) + 1
    <3> DEFINE C == Owing(job, v, "convert")
               A == Owing(job, v, "append")
    <3>1. IsFiniteSet(C) /\ p \in C /\ IsFiniteSet(A) /\ p \notin A
      BY <2>1, <2>2
    <3> HIDE DEF C, A
    <3>2. Cardinality(C \ {p}) = Cardinality(C) - 1
      BY <3>1, FS_RemoveElement
    <3>3. Cardinality(A \cup {p}) = Cardinality(A) + 1
      BY <3>1, FS_AddElement
    <3> QED
      BY <2>1, <3>2, <3>3 DEF C, A
  <2>4. Owed(job', v) = Owed(job, v) - 1 /\ Owed(job, v) \in Nat
    BY <2>2, <2>3 DEF Owed
  <2>5. out[v].len + Owed(job, v) <= Bound(v) /\ out'[v].len = out[v].len + 1 /\ out[v].len \in Nat
    BY <1>2, <1>4, <1>6 DEF OutputInv, Buffers
  <2>6. Bound(v) \in Int
    BY <2>2 DEF Bound, OutputSizes
  <2> QED
    BY <2>4, <2>5, <2>6
<1> QED
  BY <1>2, <1>3, <1>4, <1>5, <1>6 DEF OutputInv, Moves, Bound, WritersOf

\* and the character itself.
LEMMA ConvertKeeps ==
  ASSUME OutputSizes, OutputInv, NEW p \in Writer, Convert(p)
  PROVE  OutputInv'
<1> DEFINE v == job[p].v
           from == job[p].at
<1>1. /\ from \in {"convert", "append"}
      /\ job' = [job EXCEPT ![p].at = "check", ![p].done = @ + 1]
      /\ out' = [out EXCEPT ![v] = Append1(@, NextChar(p))]
  BY DEF Convert, Runs
<1>2. Jobs(job) /\ Buffers(out)
  BY DEF OutputInv
<1>3. Moves(p, "check") /\ job'[p].v = v
  <2> DEFINE e == [job[p] EXCEPT !.at = "check", !.done = @ + 1]
  <2>1. AtHome(e, p) /\ e.at = "check" /\ e.v = v
    <3> DEFINE j == job[p]
    <3>1. AtHome(j, p) /\ j.at # "idle"
      BY <1>1, <1>2 DEF Jobs
    <3>4. e.at = "check" /\ e.v = j.v /\ IsJob(e)
      BY <3>1 DEF IsJob, AtHome
    <3> HIDE DEF e
    <3> QED
      BY <3>1, <3>4 DEF AtHome
  <2>2. job' = [job EXCEPT ![p] = e]
    BY <1>1
  <2> HIDE DEF e
  <2>3. job' = [q \in Writer |-> IF q = p THEN e ELSE job[q]]
    BY <1>2, <2>2 DEF Jobs
  <2> QED
    BY <1>2, <2>1, <2>3 DEF Moves, Jobs
<1>4. /\ Buffers(out')
      /\ \A u \in VC :
            out'[u].len = IF u = v THEN out[u].len + 1 ELSE out[u].len
  BY <1>1, <1>2, CharAdded
<1>5. ASSUME NEW u \in VC, u # v
      PROVE  out'[u].len + Owed(job', u) <= Bound(u)
  <2>1. \A at : at # "check" => Owing(job', u, at) = Owing(job, u, at)
    BY <1>3, <1>5 DEF Owing, Moves
  <2> QED
    BY <2>1, <1>4, <1>5 DEF Owed, OutputInv
<1>6. ASSUME v \in VC
      PROVE  out'[v].len + Owed(job', v) <= Bound(v)
  <2>1. /\ Owing(job', v, from) = Owing(job, v, from) \ {p}
        /\ p \in Owing(job, v, from)
        /\ \A at \in {"convert", "append"} : at # from => Owing(job', v, at) = Owing(job, v, at)
    BY <1>1, <1>3 DEF Owing, Moves
  <2>2. /\ \A at : IsFiniteSet(Owing(job, v, at)) /\ Cardinality(Owing(job, v, at)) \in Nat
        /\ Cardinality(WritersOf(v)) \in Nat
    BY <1>2, OwingIs
  <2>3. Cardinality(Owing(job', v, from)) = Cardinality(Owing(job, v, from)) - 1
    <3> DEFINE X == Owing(job, v, from)
    <3>1. IsFiniteSet(X) /\ p \in X /\ Owing(job', v, from) = X \ {p}
      BY <2>1, <2>2
    <3> HIDE DEF X
    <3>2. Cardinality(X \ {p}) = Cardinality(X) - 1
      BY <3>1, FS_RemoveElement
    <3> QED
      BY <3>1, <3>2 DEF X
  <2>4. Owed(job', v) <= Owed(job, v) - 1 /\ Owed(job, v) \in Nat /\ Owed(job', v) \in Int
    <3>1. /\ Cardinality(Owing(job, v, "convert")) \in Nat
          /\ Cardinality(Owing(job, v, "append")) \in Nat
      BY <2>2
    <3>2. CASE from = "convert"
      BY <3>1, <3>2, <2>1, <2>3 DEF Owed
    <3>3. CASE from = "append"
      BY <3>1, <3>3, <2>1, <2>3 DEF Owed
    <3> QED
      BY <1>1, <3>2, <3>3
  <2>5. out[v].len + Owed(job, v) <= Bound(v) /\ out'[v].len = out[v].len + 1 /\ out[v].len \in Nat
    BY <1>2, <1>4, <1>6 DEF OutputInv, Buffers
  <2>6. Bound(v) \in Int
    BY <2>2 DEF Bound, OutputSizes
  <2> QED
    BY <2>4, <2>5, <2>6
<1> QED
  BY <1>2, <1>3, <1>4, <1>5, <1>6 DEF OutputInv, Moves, Bound, WritersOf

\* A writer that goes on after its look owes again, in a buffer that has room.
LEMMA CheckKeeps ==
  ASSUME OutputSizes, OutputInv, NEW p \in Writer, CheckOutput(p)
  PROVE  OutputInv'
<1> DEFINE v == job[p].v
           to == IF AlmostFull(out[v]) THEN "start" ELSE "convert"
<1>1. job[p].at = "check" /\ job' = [job EXCEPT ![p].at = to] /\ out' = out
  BY DEF CheckOutput, Runs, Goes
<1>2. Jobs(job) /\ Buffers(out)
  BY DEF OutputInv
<1>3. Moves(p, to) /\ job'[p].v = v
  BY <1>1, <1>2, WriterMoves
<1>4. CASE to = "start"
  BY <1>1, <1>3, <1>4, OthersMove
<1>5. CASE to = "convert"
  <2>1. out[v].len < MAX_OUTPUT - OUTPUT_MARGIN \/ v \notin VC
    <3>1. ~AlmostFull(out[v])
      BY <1>5
    <3> QED
      BY <3>1, <1>2 DEF AlmostFull, Buffers, OutputSizes
  <2>2. ASSUME NEW u \in VC PROVE out[u].len + Owed(job', u) <= Bound(u)
    <3>1. CASE u = v
      <4>1. out[v].len \in Nat /\ out[v].len < MAX_OUTPUT - OUTPUT_MARGIN /\ Jobs(job')
        BY <3>1, <2>1, <2>2, <1>2, <1>3 DEF Buffers, Moves
      <4> QED
        BY <4>1, <3>1, RoomAfterLook
    <3>2. CASE u # v
      <4>1. \A at : Owing(job', u, at) = Owing(job, u, at)
        BY <1>3, <3>2 DEF Owing, Moves
      <4> QED
        BY <4>1, <2>2 DEF Owed, OutputInv
    <3> QED
      BY <3>1, <3>2
  <2> QED
    <3>1. Jobs(job') /\ Buffers(out') /\ \A u \in VC : Bound(u)' = Bound(u)
      BY <1>1, <1>2, <1>3 DEF Moves, Bound, WritersOf
    <3> QED
      BY <1>1, <2>2, <3>1 DEF OutputInv
<1> QED
  BY <1>4, <1>5

-----------------------------------------------------------------------------
\* A buffer is emptied, or filled by an echo with three characters at most.
LEMMA RefillKeeps ==
  ASSUME OutputSizes, OutputInv, Jobs(job'), Buffers(out'), NEW v,
         v \in VC => out'[v].len <= 3,
         \A u \in VC \ {v} : out'[u].len = out[u].len /\ Owed(job', u) <= Owed(job, u)
  PROVE  OutputInv'
<1>1. ASSUME NEW u \in VC PROVE out'[u].len + Owed(job', u) <= Bound(u)
  <2>1. CASE u = v
    <3>1. out'[u].len \in Nat /\ out'[u].len < MAX_OUTPUT - OUTPUT_MARGIN
      BY <2>1, <1>1 DEF Buffers, OutputSizes
    <3> QED
      BY <3>1, RoomAfterLook
  <2>2. CASE u # v
    <3>1. /\ out[u].len + Owed(job, u) <= Bound(u)
          /\ out'[u].len = out[u].len /\ Owed(job', u) <= Owed(job, u)
      BY <2>2, <1>1 DEF OutputInv
    <3>2. Owed(job', u) \in Nat /\ Owed(job, u) \in Nat /\ Cardinality(WritersOf(u)) \in Nat
      BY OwingIs DEF OutputInv
    <3>3. out[u].len \in Nat /\ Bound(u) \in Int
      BY <1>1, <3>2 DEF OutputInv, Buffers, Bound, OutputSizes
    <3> QED
      BY <3>1, <3>2, <3>3
  <2> QED
    BY <2>1, <2>2
<1> QED
  BY <1>1 DEF OutputInv, Bound, WritersOf

LEMMA Emptied ==
  ASSUME Buffers(out), NEW v, out' = [out EXCEPT ![v].len = 0]
  PROVE  /\ Buffers(out')
         /\ \A u \in VC : out'[u].len = IF u = v THEN 0 ELSE out[u].len
<1>1. CASE v \notin VC
  BY <1>1 DEF Buffers
<1>2. CASE v \in VC
  <2> DEFINE b == [out[v] EXCEPT !.len = 0]
  <2>1. b \in [buf : {b.buf}, len : Nat] /\ b.len = 0
    BY <1>2 DEF Buffers
  <2>2. out' = [out EXCEPT ![v] = b]
    OBVIOUS
  <2> HIDE DEF b
  <2>3. out' = [u \in VC |-> IF u = v THEN b ELSE out[u]]
    BY <2>2 DEF Buffers
  <2> QED
    BY <2>1, <2>3 DEF Buffers
<1> QED
  BY <1>1, <1>2

LEMMA StartKeeps ==
  ASSUME OutputSizes, OutputInv, NEW p \in Writer, Start(p)
  PROVE  OutputInv'
<1> DEFINE v == job[p].v
<1>1. Jobs(job) /\ Buffers(out) /\ job[p].at = "start" /\ AtHome(job[p], p)
  BY DEF OutputInv, Jobs, Start, Runs
<1>2. CASE Left(p) = 0
  <2>1. job' = [job EXCEPT ![p] = [Idle EXCEPT !.at = "opened", !.v = v]] /\ UNCHANGED out
    BY <1>2 DEF Start
  <2>2. AtHome([Idle EXCEPT !.at = "opened", !.v = v], p)
    BY <1>1 DEF AtHome, IsJob, Idle
  <2>3. job'[p].at = "opened"
    BY <1>1, <2>1 DEF Jobs, Idle
  <2> QED
    BY <1>1, <2>1, <2>2, <2>3, Harmless DEF Jobs
<1>3. CASE Left(p) # 0
  <2>1. job' = [job EXCEPT ![p].at = "convert"] /\ out' = [out EXCEPT ![v].len = 0]
    BY <1>3 DEF Start, Goes
  <2>2. Moves(p, "convert") /\ job'[p].v = v
    BY <1>1, <2>1, WriterMoves
  <2>3. Buffers(out') /\ \A u \in VC : out'[u].len = IF u = v THEN 0 ELSE out[u].len
    BY <1>1, <2>1, Emptied
  <2>4. ASSUME NEW u \in VC \ {v} PROVE Owed(job', u) <= Owed(job, u)
    <3>1. \A at \in {"convert", "append"} : Owing(job', u, at) \subseteq Owing(job, u, at)
      BY <2>2, <2>4 DEF Owing, Moves
    <3> QED
      BY <1>1, <2>2, <3>1, OwedShrinks DEF Moves
  <2> QED
    BY <2>2, <2>3, <2>4, RefillKeeps DEF Moves
<1> QED
  BY <1>2, <1>3

LEMMA InitialisedKeeps ==
  ASSUME OutputSizes, OutputInv, NEW p \in Writer, Initialised(p)
  PROVE  OutputInv'
<1> DEFINE v == job[p].v
<1>1. /\ Jobs(job) /\ Buffers(out) /\ job[p].at = "init"
      /\ job' = [job EXCEPT ![p].at = "opened"] /\ out' = [out EXCEPT ![v].len = 0]
  BY DEF OutputInv, Jobs, Initialised, Runs, Goes
<1>2. Moves(p, "opened") /\ job'[p].v = v
  BY <1>1, WriterMoves
<1>3. Buffers(out') /\ \A u \in VC : out'[u].len = IF u = v THEN 0 ELSE out[u].len
  BY <1>1, Emptied
<1>4. ASSUME NEW u \in VC \ {v} PROVE Owed(job', u) <= Owed(job, u)
  <2>1. \A at \in {"convert", "append"} : Owing(job', u, at) \subseteq Owing(job, u, at)
    BY <1>2, <1>4 DEF Owing, Moves
  <2> QED
    BY <1>1, <1>2, <2>1, OwedShrinks DEF Moves
<1> QED
  BY <1>2, <1>3, <1>4, RefillKeeps DEF Moves

LEMMA EchoKeeps ==
  ASSUME OutputSizes, OutputInv, NEW chars, Len(chars) \in 0..3,
         out' = [out EXCEPT ![current] = Filled(@, chars)], UNCHANGED job
  PROVE  OutputInv'
<1>1. Jobs(job) /\ Jobs(job') /\ Buffers(out)
  BY DEF OutputInv
<1>2. Buffers(out')
  <2>1. Filled(out[current], chars).len \in Nat
    BY DEF Filled
  <2> QED
    BY <1>1, <2>1 DEF Buffers, Filled
<1>3. current \in VC => out'[current].len <= 3
  BY <1>1 DEF Buffers, Filled
<1>4. \A u \in VC \ {current} : out'[u].len = out[u].len
  BY <1>1 DEF Buffers
<1>5. ASSUME NEW u PROVE Owed(job', u) <= Owed(job, u)
  <2>1. Owed(job, u) \in Nat
    BY <1>1, OwingIs
  <2> QED
    BY <2>1
<1> QED
  BY <1>1, <1>2, <1>3, <1>4, <1>5, RefillKeeps

\* Opening, closing, and the steps of a process that has nothing to add.
LEMMA OpenKeeps ==
  ASSUME OutputSizes, OutputInv, NEW p \in Writer, NEW v, Open(p, v)
  PROVE  OutputInv'
<1>1. PICK to \in {"opened", "init"} :
        /\ job' = [job EXCEPT ![p] = [Idle EXCEPT !.at = to, !.v = v]]
        /\ <<p, v>> \in Opens /\ UNCHANGED out
  BY DEF Open
<1> DEFINE e == [Idle EXCEPT !.at = to, !.v = v]
<1>2. AtHome(e, p) /\ e.at = to
  BY <1>1 DEF AtHome, IsJob, Idle
<1>3. job' = [job EXCEPT ![p] = e] /\ Jobs(job)
  BY <1>1 DEF OutputInv
<1> HIDE DEF e
<1>4. job'[p] = e /\ job' = [q \in Writer |-> job'[q]] /\ \A q \in Writer \ {p} : job'[q] = job[q]
  BY <1>3 DEF Jobs
<1> QED
  BY <1>1, <1>2, <1>4, Harmless

LEMMA CloseKeeps ==
  ASSUME OutputSizes, OutputInv, NEW p \in Writer, Close(p)
  PROVE  OutputInv'
<1>1. job' = [job EXCEPT ![p] = Idle] /\ UNCHANGED out /\ Jobs(job)
  BY DEF OutputInv, Close
<1>2. AtHome(Idle, p) /\ Idle.at = "idle"
  BY DEF AtHome, IsJob, Idle
<1>3. job'[p] = Idle /\ job' = [q \in Writer |-> job'[q]]
      /\ \A q \in Writer \ {p} : job'[q] = job[q]
  BY <1>1 DEF Jobs
<1> QED
  BY <1>1, <1>2, <1>3, Harmless

\* Whatever a process that is at work puts in its local variables, it stays at
\* the console it has opened.
LEMMA WorksOn ==
  ASSUME OutputSizes, OutputInv, NEW p \in Writer, job[p].at # "idle",
         NEW e, IsJob(e), e.v = job[p].v, e.at \notin {"convert", "append"},
         job'[p] = e, job' = [q \in Writer |-> job'[q]],
         \A q \in Writer \ {p} : job'[q] = job[q], UNCHANGED out
  PROVE  OutputInv'
<1>1. AtHome(e, p)
  BY DEF AtHome, OutputInv, Jobs
<1> QED
  BY <1>1, Harmless

LEMMA GoesKeeps ==
  ASSUME OutputSizes, OutputInv, NEW p \in Writer, job[p].at # "idle",
         NEW to, to \notin {"convert", "append"}, Goes(p, to), UNCHANGED out
  PROVE  OutputInv'
<1>1. Moves(p, to)
  BY WriterMoves DEF OutputInv, Goes
<1> QED
  BY <1>1, OthersMove

LEMMA PrintedKeeps ==
  ASSUME OutputSizes, OutputInv, NEW p \in Writer, job[p].at # "idle", NEW s,
         PrintsLast(p, s)
  PROVE  OutputInv'
<1> DEFINE e == Printed(job[p])
<1>1. job' = [job EXCEPT ![p] = e] /\ UNCHANGED out /\ Jobs(job) /\ IsJob(job[p])
  BY DEF PrintsLast, OutputInv, Jobs, AtHome
<1>2. IsJob(e) /\ e.at = "print" /\ e.v = job[p].v
  BY <1>1 DEF IsJob, Printed
<1> HIDE DEF e
<1>3. job'[p] = e /\ job' = [q \in Writer |-> job'[q]] /\ \A q \in Writer \ {p} : job'[q] = job[q]
  BY <1>1 DEF Jobs
<1> QED
  BY <1>1, <1>2, <1>3, WorksOn

LEMMA WriteKeeps ==
  ASSUME OutputSizes, OutputInv, NEW p \in Writer, Write(p)
  PROVE  OutputInv'
<1>1. PICK text : job' = [job EXCEPT ![p].at = "start", ![p].text = text, ![p].done = 0]
  BY DEF Write
<1> DEFINE e == [job[p] EXCEPT !.at = "start", !.text = text, !.done = 0]
<1>2. /\ job' = [job EXCEPT ![p] = e] /\ UNCHANGED out /\ Jobs(job) /\ IsJob(job[p])
      /\ job[p].at # "idle"
  BY <1>1 DEF Write, Runs, OutputInv, Jobs, AtHome
<1>3. IsJob(e) /\ e.at = "start" /\ e.v = job[p].v
  BY <1>2 DEF IsJob
<1> HIDE DEF e
<1>4. job'[p] = e /\ job' = [q \in Writer |-> job'[q]] /\ \A q \in Writer \ {p} : job'[q] = job[q]
  BY <1>2 DEF Jobs
<1> QED
  BY <1>2, <1>3, <1>4, WorksOn

LEMMA CallWriteKeeps ==
  ASSUME OutputSizes, OutputInv, NEW p \in Writer, CallWrite(p)
  PROVE  OutputInv'
<1> DEFINE e == [job[p] EXCEPT !.at = "lock", !.len = out[job[p].v].len, !.k = 1]
<1>1. /\ job' = [job EXCEPT ![p] = e] /\ UNCHANGED out /\ Jobs(job) /\ IsJob(job[p])
      /\ job[p].at # "idle"
  BY DEF CallWrite, Runs, OutputInv, Jobs, AtHome
<1>2. IsJob(e) /\ e.at = "lock" /\ e.v = job[p].v
  BY <1>1 DEF IsJob
<1> HIDE DEF e
<1>3. job'[p] = e /\ job' = [q \in Writer |-> job'[q]] /\ \A q \in Writer \ {p} : job'[q] = job[q]
  BY <1>1 DEF Jobs
<1> QED
  BY <1>1, <1>2, <1>3, WorksOn

LEMMA UnlockKeeps ==
  ASSUME OutputSizes, OutputInv, NEW p \in Writer, UnlockVc(p)
  PROVE  OutputInv'
<1> DEFINE e == [job[p] EXCEPT !.at = "start", !.len = 0, !.k = 1]
<1>1. /\ job' = [job EXCEPT ![p] = e] /\ UNCHANGED out /\ Jobs(job) /\ IsJob(job[p])
      /\ job[p].at # "idle"
  BY DEF UnlockVc, Runs, OutputInv, Jobs, AtHome
<1>2. IsJob(e) /\ e.at = "start" /\ e.v = job[p].v
  BY <1>1 DEF IsJob
<1> HIDE DEF e
<1>3. job'[p] = e /\ job' = [q \in Writer |-> job'[q]] /\ \A q \in Writer \ {p} : job'[q] = job[q]
  BY <1>1 DEF Jobs
<1> QED
  BY <1>1, <1>2, <1>3, WorksOn

LEMMA DecideKeeps ==
  ASSUME OutputSizes, OutputInv, NEW p \in Writer,
         ClearScreen(p) \/ TabStop(p) \/ PrintShownAt(p)
  PROVE  OutputInv'
<1>1. Jobs(job) /\ IsJob(job[p]) /\ job[p].at = "print" /\ UNCHANGED out
  BY DEF ClearScreen, TabStop, PrintShownAt, Runs,
         OutputInv, Jobs, AtHome
<1>2. ASSUME NEW e, IsJob(e), e.at \in {"print", "clear", "wrap", "store"}, e.v = job[p].v,
             job' = [job EXCEPT ![p] = e]
      PROVE  OutputInv'
  <2>1. job'[p] = e /\ job' = [q \in Writer |-> job'[q]] /\ \A q \in Writer \ {p} : job'[q] = job[q]
    BY <1>1, <1>2 DEF Jobs
  <2> QED
    BY <1>1, <1>2, <2>1, WorksOn
<1>3. CASE ClearScreen(p)
  <2> DEFINE e == [job[p] EXCEPT !.at = "clear", !.inVideo = InVideo(Display, job[p].v)]
  <2>1. job' = [job EXCEPT ![p] = e]
    BY <1>3 DEF ClearScreen
  <2>2. IsJob(e) /\ e.at = "clear" /\ e.v = job[p].v
    BY <1>1 DEF IsJob
  <2> HIDE DEF e
  <2> QED
    BY <1>2, <2>1, <2>2
<1>4. CASE PrintShownAt(p)
  <2> DEFINE to == IF AtEdge(Display, job[p].v) THEN "wrap" ELSE "store"
             e == [job[p] EXCEPT !.at = to, !.ch = Printing(p),
                                 !.inVideo = InVideo(Display, job[p].v)]
  <2>1. job' = [job EXCEPT ![p] = e]
    BY <1>4 DEF PrintShownAt
  <2>2. IsJob(e) /\ e.at \in {"wrap", "store"} /\ e.v = job[p].v
    BY <1>1 DEF IsJob
  <2> HIDE DEF e
  <2> QED
    BY <1>2, <2>1, <2>2
<1>5. CASE TabStop(p)
  <2> DEFINE e == [job[p] EXCEPT !.spaces = Spaces(Display, job[p].v), !.k = @ + 1]
  <2>1. job' = [job EXCEPT ![p] = e]
    BY <1>5 DEF TabStop
  <2>2. IsJob(e) /\ e.at = "print" /\ e.v = job[p].v
    BY <1>1 DEF IsJob
  <2> HIDE DEF e
  <2> QED
    BY <1>2, <2>1, <2>2
<1> QED
  BY <1>3, <1>4, <1>5

LEMMA PrintStepsKeep ==
  ASSUME OutputSizes, OutputInv, NEW p \in Writer, PrintSteps(p)
  PROVE  OutputInv'
<1>1. CASE Move(p) \/ Cleared(p) \/ NewLineCursor(p) \/ SetCursor(p)
  <2>1. PICK s : PrintsLast(p, s)
    BY <1>1 DEF Move, Cleared, NewLineCursor, SetCursor
  <2>2. job[p].at # "idle"
    BY <1>1 DEF Move, Cleared, NewLineCursor, SetCursor, Runs
  <2> QED
    BY <2>1, <2>2, PrintedKeeps
<1>2. CASE \/ NewLine(p) \/ NewLineScroll(p) \/ WrapLine(p)
           \/ WrapScroll(p) \/ StoreChar(p) \/ AdvanceColumn(p)
  <2>1. PICK to \in {"scroll", "follow", "wrapscroll", "store", "advance", "cursor"} :
          Goes(p, to) /\ UNCHANGED out
    BY <1>2 DEF NewLine, NewLineScroll, WrapLine, WrapScroll,
                StoreChar, AdvanceColumn, PrintsOn
  <2>2. job[p].at # "idle"
    BY <1>2 DEF NewLine, NewLineScroll, WrapLine, WrapScroll,
                StoreChar, AdvanceColumn, Runs
  <2> QED
    BY <2>1, <2>2, GoesKeeps
<1>3. CASE ClearScreen(p) \/ TabStop(p) \/ PrintShownAt(p)
  BY <1>3, DecideKeeps
<1> QED
  BY <1>1, <1>2, <1>3 DEF PrintSteps

LEMMA ProcessKeeps ==
  ASSUME OutputSizes, OutputInv, NEW p \in Writer, Process(p)
  PROVE  OutputInv'
<1>1. CASE NotInitialised(p) \/ LockVc(p)
  <2>1. PICK to \in {"opened", "print"} : Goes(p, to) /\ UNCHANGED out
    BY <1>1 DEF NotInitialised, LockVc
  <2>2. job[p].at # "idle"
    BY <1>1 DEF NotInitialised, LockVc, Runs
  <2> QED
    BY <2>1, <2>2, GoesKeeps
<1>2. CASE WriteToNull(p)
  BY <1>2 DEF WriteToNull, OutputInv, Jobs, AtHome, IsJob, Buffers, Owed, Owing,
              Bound, WritersOf
<1>3. CASE \E v \in VC : Open(p, v)
  BY <1>3, OpenKeeps
<1>4. CASE \/ Initialised(p) \/ Close(p) \/ Write(p) \/ Start(p)
           \/ UnlockVc(p) \/ CallWrite(p) \/ PrintSteps(p)
  BY <1>4, InitialisedKeeps, CloseKeeps, WriteKeeps, StartKeeps, UnlockKeeps,
     CallWriteKeeps, PrintStepsKeep
<1>5. CASE ConvertNewline(p) \/ Convert(p) \/ CheckOutput(p)
  BY <1>5, NewlineKeeps, ConvertKeeps, CheckKeeps
<1> QED
  BY <1>1, <1>2, <1>3, <1>4, <1>5 DEF Process

LEMMA InterruptKeeps ==
  ASSUME OutputSizes, OutputInv, Keyboard \/ KernelMessage
  PROVE  OutputInv'
<1>1. CASE UNCHANGED <<out, job>>
  BY <1>1 DEF OutputInv, Jobs, AtHome, IsJob, Buffers, Owed, Owing, Bound, WritersOf
<1>2. CASE PressErase
  <2>1. out' = [out EXCEPT ![current] = Filled(@, <<"bs", " ", "bs">>)] /\ UNCHANGED job
    BY <1>2 DEF PressErase, Echoed
  <2>2. Len(<<"bs", " ", "bs">>) \in 0..3
    OBVIOUS
  <2> QED
    BY <2>1, <2>2, EchoKeeps
<1>3. CASE PressArrow
  <2>1. out' = [out EXCEPT ![current] = Filled(@, <<"e">>)] /\ UNCHANGED job
    BY <1>3 DEF PressArrow
  <2>2. Len(<<"e">>) \in 0..3
    OBVIOUS
  <2> QED
    BY <2>1, <2>2, EchoKeeps
<1>4. ASSUME NEW ch \in Typed, PressChar(ch) PROVE OutputInv'
  <2> DEFINE chars == EchoOf(ch)
  <2>1. out' = [out EXCEPT ![current] = Filled(@, chars)] /\ UNCHANGED job
    BY <1>4 DEF PressChar, Echoed
  <2>2. Len(chars) \in 0..3
    BY DEF EchoOf
  <2> HIDE DEF chars
  <2> QED
    BY <2>1, <2>2, EchoKeeps
<1> QED
  BY <1>1, <1>2, <1>3, <1>4
  DEF Keyboard, KernelMessage, PressLock, ReleaseLock,
                    PressFkey, PressLeftRight

LEMMA OutputNext ==
  ASSUME OutputSizes, OutputInv, [ConsoleNext]_consoleVars
  PROVE  OutputInv'
<1>1. CASE ConsoleNext
  BY <1>1, InterruptKeeps, ProcessKeeps DEF ConsoleNext
<1>2. CASE UNCHANGED consoleVars
  BY <1>2 DEF consoleVars, OutputInv, Jobs, AtHome, IsJob, Buffers, Owed, Owing, Bound, WritersOf
<1> QED
  BY <1>1, <1>2

LEMMA OutputInit ==
  ASSUME OutputSizes, ConsoleInit
  PROVE  OutputInv
<1>1. Jobs(job)
  BY DEF ConsoleInit, Jobs, AtHome, IsJob, Idle
<1>2. Buffers(out) /\ \A v \in VC : out[v].len = 0
  BY DEF ConsoleInit, Buffers
<1>3. ASSUME NEW v \in VC PROVE out[v].len + Owed(job, v) <= Bound(v)
  <2>1. 0 < MAX_OUTPUT - OUTPUT_MARGIN
    BY DEF OutputSizes
  <2> QED
    BY <1>1, <1>2, <2>1, RoomAfterLook
<1> QED
  BY <1>1, <1>2, <1>3 DEF OutputInv

\* However many processes write to a console, with echoes in between, its
\* outputbuf holds at most two characters of each beyond the place at which
\* terminal_write() goes back.
THEOREM OutputIsBounded ==
  OutputSizes =>
    (ConsoleSpec =>
       [](\A v \in VC :
            out[v].len <= MAX_OUTPUT - OUTPUT_MARGIN - 1 + 2 * Cardinality(WritersOf(v))))
<1> SUFFICES ASSUME OutputSizes
             PROVE  ConsoleSpec =>
                      [](\A v \in VC : out[v].len <= MAX_OUTPUT - OUTPUT_MARGIN - 1
                                                + 2 * Cardinality(WritersOf(v)))
  OBVIOUS
<1>1. OutputInv => \A v \in VC : out[v].len <= MAX_OUTPUT - OUTPUT_MARGIN - 1
                                           + 2 * Cardinality(WritersOf(v))
  <2> SUFFICES ASSUME OutputInv, NEW v \in VC PROVE out[v].len <= Bound(v)
    BY DEF Bound
  <2>1. out[v].len + Owed(job, v) <= Bound(v) /\ out[v].len \in Nat
    BY DEF OutputInv, Buffers
  <2>2. Owed(job, v) \in Nat /\ Cardinality(WritersOf(v)) \in Nat
    BY OwingIs DEF OutputInv
  <2>3. Bound(v) \in Int
    BY <2>2 DEF Bound, OutputSizes
  <2> QED
    BY <2>1, <2>2, <2>3
<1> QED
  BY <1>1, OutputInit, OutputNext, PTL DEF ConsoleSpec

\* Two processes may write to one console at a time if OUTPUT_MARGIN, the room
\* terminal_write() leaves, is 4 as in the code (or 3); a third needs 5.
THEOREM OutputFits ==
  OutputSizes /\ (\A v \in VC : 2 * Cardinality(WritersOf(v)) <= OUTPUT_MARGIN + 1)
    => (ConsoleSpec => []OutputbufFits)
<1> SUFFICES ASSUME OutputSizes,
                    \A v \in VC : 2 * Cardinality(WritersOf(v)) <= OUTPUT_MARGIN + 1
             PROVE  ConsoleSpec => []OutputbufFits
  OBVIOUS
<1>1. OutputInv => OutputbufFits
  <2> SUFFICES ASSUME OutputInv, NEW v \in VC PROVE out[v].len <= MAX_OUTPUT
    BY DEF OutputbufFits
  <2>1. out[v].len + Owed(job, v) <= Bound(v) /\ out[v].len \in Nat
    BY DEF OutputInv, Buffers
  <2>2. Owed(job, v) \in Nat /\ Cardinality(WritersOf(v)) \in Nat
    BY OwingIs DEF OutputInv
  <2>3. Bound(v) <= MAX_OUTPUT /\ Bound(v) \in Int
    BY <2>2 DEF Bound, OutputSizes
  <2> QED
    BY <2>1, <2>2, <2>3 DEF OutputSizes
<1> QED
  BY <1>1, OutputInit, OutputNext, PTL DEF ConsoleSpec

-----------------------------------------------------------------------------
(***************************************************************************)
(* The screens.                                                            *)
(***************************************************************************)
\* g is what N steps make of x.
Steps(N, S) == [(1..N) \X S -> S]
Iterates(g, x, N, step) == g[0] = x /\ \A n \in 1..N : g[n] = step[<<n, g[n - 1]>>]

\* A function of the naturals up to N may be defined step by step.
LEMMA Iterate ==
    ASSUME NEW S, NEW x \in S, NEW N \in Nat, NEW step \in Steps(N, S)
    PROVE  \E g \in [0..N -> S] : Iterates(g, x, N, step)
<1> USE DEF Iterates
<1> DEFINE Upto(n, g) == Iterates(g, x, n, step)
           bad == {n \in 0..N : ~ \E g \in [0..n -> S] : Upto(n, g)}
<1>1. step \in [(1..N) \X S -> S]
  BY DEF Steps
<1>2. SUFFICES bad = {}
  <2>1. N \in 0..N
    OBVIOUS
  <2> QED
    BY <2>1, <1>2
<1>3. SUFFICES ASSUME bad # {} PROVE FALSE
  OBVIOUS
<1>4. bad \in SUBSET Nat
  OBVIOUS
<1> HIDE DEF bad
<1>5. PICK m \in bad : \A n \in bad : m <= n
  BY <1>3, <1>4, LeastNatural
<1> USE DEF bad
<1>6. CASE m = 0
  <2> DEFINE g == [i \in 0..0 |-> x]
  <2>1. g \in [0..0 -> S] /\ Upto(0, g)
    OBVIOUS
  <2> QED
    BY <1>5, <1>6, <2>1
<1>7. CASE m # 0
  <2>1. m - 1 \in 0..N /\ m \in 1..N /\ m - 1 \notin bad
    BY <1>5, <1>7
  <2>2. PICK g \in [0..(m - 1) -> S] : Upto(m - 1, g)
    BY <2>1
  <2> DEFINE y == step[<<m, g[m - 1]>>]
             h == [i \in 0..m |-> IF i = m THEN y ELSE g[i]]
  <2>3. g[m - 1] \in S /\ y \in S
    BY <1>1, <2>1, <2>2
  <2>4. h \in [0..m -> S]
    BY <2>1, <2>2, <2>3
  <2>5. \A i \in 0..(m - 1) : h[i] = g[i]
    BY <2>1
  <2>6. h[m] = step[<<m, h[m - 1]>>]
    <3>1. m \in 0..m /\ m - 1 \in 0..(m - 1)
      BY <2>1
    <3>2. h[m] = y
      BY <3>1
    <3>3. h[m - 1] = g[m - 1]
      BY <2>5, <3>1
    <3> QED
      BY <3>2, <3>3
  <2>7. \A i \in 1..(m - 1) : i \in 0..(m - 1) /\ i - 1 \in 0..(m - 1)
    BY <2>1
  <2>8. \A i \in 1..(m - 1) : h[i] = step[<<i, h[i - 1]>>]
    BY <2>2, <2>5, <2>7
  <2>9. h[0] = x
    BY <2>1, <2>2, <2>5
  <2> HIDE DEF h
  <2>10. \A i \in 1..m : i = m \/ i \in 1..(m - 1)
    BY <2>1
  <2>11. Upto(m, h)
    BY <2>6, <2>8, <2>9, <2>10
  <2> QED
    BY <1>5, <2>4, <2>11
<1> QED
  BY <1>6, <1>7

\* What holds at 0 and of the next number, if of one, holds up to N.
LEMMA Climb ==
    ASSUME NEW N \in Nat, NEW Good \in SUBSET Nat, 0 \in Good,
           \A n \in 0..(N - 1) : n \in Good => n + 1 \in Good
    PROVE  \A n \in 0..N : n \in Good
<1> DEFINE bad == {n \in 0..N : n \notin Good}
<1>1. SUFFICES ASSUME bad # {} PROVE FALSE
  OBVIOUS
<1>2. bad \in SUBSET Nat
  OBVIOUS
<1>3. PICK m \in bad : \A n \in bad : m <= n
  <2> HIDE DEF bad
  <2> QED
    BY <1>1, <1>2, LeastNatural
<1>4. m # 0 /\ m - 1 \in 0..(N - 1) /\ m - 1 \notin bad
  BY <1>3
<1> QED
  BY <1>3, <1>4

\* Displays on which the characters of X are.
Consoles(X) == [open : BOOLEAN, cells : [Cell -> X], cursor_row : Nat, cursor_column : Nat,
                lockmode : SUBSET LockKey, lock : Writer \cup {Null}]

Displays(X) ==
  [vc : [VC -> Consoles(X)], current : VC, video : [Cell -> X], hwcursor : Int]

ScreenOn(s, u) == IF u = s.current THEN s.video ELSE s.vc[u].cells

\* From s to t nothing is written but to console v; the rest are its structures.
Only(X, s, t, v) ==
  /\ t \in Displays(X) /\ t.current = s.current
  /\ \A u \in VC : t.vc[u].open = s.vc[u].open
  /\ \A u \in VC \ {v} : ScreenOn(t, u) = ScreenOn(s, u)

LEMMA SizesAre ==
  /\ Screens \in Nat /\ Screens > 0 /\ NRows \in Nat /\ NRows > 0 /\ NRows - 1 \in Nat
  /\ NCols \in Nat /\ NCols > 0 /\ Tab \in Nat /\ Tab > 0 /\ 0 \in VC
BY ConsoleAssumption DEF VC

LEMMA OnlyTwice ==
  ASSUME NEW X, NEW s, NEW t, NEW r, NEW v, Only(X, s, t, v), Only(X, t, r, v)
  PROVE  Only(X, s, r, v)
BY DEF Only

LEMMA OnlyNothing ==
  ASSUME NEW X, NEW s \in Displays(X), NEW v
  PROVE  Only(X, s, s, v)
BY DEF Only

\* An edit of the structure of console v, or of nothing if there is no console v.
LEMMA VcEdited ==
  ASSUME NEW X, NEW s \in Displays(X), NEW v, NEW b,
         v \in VC => b \in Consoles(X) /\ b.open = s.vc[v].open
  PROVE  LET t == [s EXCEPT !.vc[v] = b]
         IN  /\ t \in Displays(X) /\ t.current = s.current /\ t.video = s.video
             /\ \A u \in VC : t.vc[u] = IF u = v THEN b ELSE s.vc[u]
             /\ \A u \in VC : t.vc[u].open = s.vc[u].open
BY DEF Displays

\* The cursor, lock or flags of a console may change: no screen does.
LEMMA CellsStay ==
  ASSUME NEW X, NEW s \in Displays(X), NEW v, NEW b, NEW w,
         v \in VC => b \in Consoles(X) /\ b.open = s.vc[v].open /\ b.cells = s.vc[v].cells
  PROVE  Only(X, s, [s EXCEPT !.vc[v] = b], w)
<1> DEFINE t == [s EXCEPT !.vc[v] = b]
<1>1. /\ t \in Displays(X) /\ t.current = s.current /\ t.video = s.video
      /\ \A u \in VC : t.vc[u] = IF u = v THEN b ELSE s.vc[u]
      /\ \A u \in VC : t.vc[u].open = s.vc[u].open
  BY VcEdited
<1> HIDE DEF t
<1>2. Only(X, s, t, w)
  BY <1>1 DEF Only, ScreenOn
<1> QED
  BY <1>2 DEF t

LEMMA CellsSet ==
  ASSUME NEW X, NEW s \in Displays(X), NEW v, NEW inVideo, NEW cells,
         inVideo \/ v \in VC => cells \in [Cell -> X]
  PROVE  Only(X, s, SetCells(s, v, inVideo, cells), IF inVideo THEN s.current ELSE v)
<1>1. CASE inVideo
  <2>1. [s EXCEPT !.video = cells] \in Displays(X)
    BY <1>1 DEF Displays
  <2> QED
    BY <1>1, <2>1 DEF Only, ScreenOn, SetCells, Displays
<1>2. CASE ~inVideo
  <2> DEFINE b == [s.vc[v] EXCEPT !.cells = cells]
             t == [s EXCEPT !.vc[v] = b]
  <2>1. v \in VC => b \in Consoles(X) /\ b.open = s.vc[v].open
    BY <1>2 DEF Displays, Consoles
  <2> HIDE DEF b
  <2>2. /\ t \in Displays(X) /\ t.current = s.current /\ t.video = s.video
        /\ \A u \in VC : t.vc[u] = IF u = v THEN b ELSE s.vc[u]
        /\ \A u \in VC : t.vc[u].open = s.vc[u].open
    BY <2>1, VcEdited
  <2>3. SetCells(s, v, inVideo, cells) = t
    BY <1>2 DEF SetCells, b
  <2> HIDE DEF t
  <2>4. Only(X, s, t, v)
    BY <2>2 DEF Only, ScreenOn
  <2> QED
    BY <1>2, <2>3, <2>4
<1> QED
  BY <1>1, <1>2

LEMMA CursorSet ==
  ASSUME NEW X, NEW s \in Displays(X), NEW v, NEW row, NEW col, NEW w,
         v \in VC => row \in Int /\ col \in Int
  PROVE  Only(X, s, CursorAt(s, v, row, col), w)
<1>1. CASE v = s.current
  <2>1. (row * NCols) + col \in Int
    BY <1>1, SizesAre DEF Displays
  <2> QED
    BY <1>1, <2>1 DEF Only, ScreenOn, CursorAt, Displays
<1>2. CASE v # s.current
  BY <1>2, OnlyNothing DEF CursorAt
<1> QED
  BY <1>1, <1>2

\* The steps of printchar() that move the cursor.
LEMMA CursorMoves ==
  ASSUME NEW X, NEW s \in Displays(X), NEW v, NEW w
  PROVE  /\ Only(X, s, Down(s, v), w) /\ Only(X, s, NextLine(s, v), w)
         /\ Only(X, s, Advance(s, v), w)
         /\ Only(X, s, CursorFollows(s, v), w) /\ Only(X, s, CursorFollowsChar(s, v), w)
<1> DEFINE c == s.vc[v]
           d == [c EXCEPT !.cursor_row = c.cursor_row + 1]
<1>1. v \in VC => c \in Consoles(X)
  BY DEF Displays
<1>2. v \in VC => c.cursor_row \in Nat /\ c.cursor_column \in Nat
  BY <1>1 DEF Consoles
<1>3. v \in VC => d \in Consoles(X) /\ d.open = c.open /\ d.cells = c.cells
  BY <1>1, <1>2 DEF Consoles
<1>4. Down(s, v) = [s EXCEPT !.vc[v] = d]
  BY DEF Down
<1>5. Only(X, s, Down(s, v), w)
  <2> DEFINE t == [s EXCEPT !.vc[v] = d]
  <2> HIDE DEF d
  <2>1. Only(X, s, t, w)
    BY <1>3, CellsStay
  <2> HIDE DEF t
  <2>2. Down(s, v) = t
    BY <1>4 DEF t
  <2> QED
    BY <2>1, <2>2
<1>6. Only(X, s, NextLine(s, v), w)
  <2> DEFINE t == Down(s, v)
             e == [t.vc[v] EXCEPT !.cursor_column = 0]
  <2>1. t \in Displays(X)
    BY <1>5 DEF Only
  <2>2. v \in VC => e \in Consoles(X) /\ e.open = t.vc[v].open /\ e.cells = t.vc[v].cells
    <3> HIDE DEF t
    <3>1. v \in VC => t.vc[v] \in Consoles(X)
      BY <2>1 DEF Displays
    <3> QED
      BY <3>1 DEF Consoles
  <2>3. NextLine(s, v) = [t EXCEPT !.vc[v] = e]
    BY DEF NextLine
  <2> DEFINE r == [t EXCEPT !.vc[v] = e]
  <2> HIDE DEF t, e
  <2>4. Only(X, t, r, w)
    BY <2>1, <2>2, CellsStay
  <2>5. Only(X, s, t, w)
    BY <1>5 DEF t
  <2> HIDE DEF r
  <2>6. NextLine(s, v) = r
    BY <2>3 DEF r
  <2> QED
    BY <2>4, <2>5, <2>6, OnlyTwice
<1>7. Only(X, s, Advance(s, v), w)
  <2> DEFINE e == [c EXCEPT !.cursor_column = c.cursor_column + 1]
  <2>1. v \in VC => e \in Consoles(X) /\ e.open = c.open /\ e.cells = c.cells
    BY <1>1, <1>2 DEF Consoles
  <2> DEFINE t == [s EXCEPT !.vc[v] = e]
  <2>2. Advance(s, v) = t
    BY DEF Advance
  <2> HIDE DEF e
  <2>3. Only(X, s, t, w)
    BY <2>1, CellsStay
  <2> HIDE DEF t
  <2> QED
    BY <2>2, <2>3
<1>8. Only(X, s, CursorFollows(s, v), w)
  <2>1. v \in VC => s.vc[v].cursor_row \in Int /\ s.vc[v].cursor_column \in Int
    BY <1>2
  <2> QED
    BY <2>1, CursorSet DEF CursorFollows
<1>9. Only(X, s, CursorFollowsChar(s, v), w)
  <2> DEFINE col == s.vc[v].cursor_column
             at == IF col = NCols THEN col - 1 ELSE col
  <2>1. v \in VC => s.vc[v].cursor_row \in Int /\ at \in Int
    BY <1>2, SizesAre
  <2>2. CursorFollowsChar(s, v) = CursorAt(s, v, s.vc[v].cursor_row, at)
    BY DEF CursorFollowsChar
  <2> HIDE DEF at
  <2> QED
    BY <2>1, <2>2, CursorSet
<1> QED
  BY <1>5, <1>6, <1>7, <1>8, <1>9

LEMMA MovesOnly ==
  ASSUME NEW X, NEW s \in Displays(X), NEW v, NEW w, NEW ch \in {"bs", "cr", "bel"}
  PROVE  Only(X, s, Moved(s, v, ch), w)
<1> DEFINE c == s.vc[v]
           col == IF c.cursor_column > 0 THEN c.cursor_column - 1 ELSE 0
           b(to) == [c EXCEPT !.cursor_column = to]
           t(to) == [s EXCEPT !.vc[v] = b(to)]
<1>1. v \in VC => c \in Consoles(X)
  BY DEF Displays
<1>2. v \in VC => c.cursor_column \in Nat
  BY <1>1 DEF Consoles
<1>3. v \in VC => col \in Nat
  BY <1>2
<1>4. ASSUME NEW to, v \in VC => to \in Nat
      PROVE  Only(X, s, CursorFollows(t(to), v), w)
  <2>1. v \in VC => b(to) \in Consoles(X) /\ b(to).open = c.open /\ b(to).cells = c.cells
    BY <1>1, <1>4 DEF Consoles
  <2> HIDE DEF b
  <2>2. Only(X, s, t(to), w)
    BY <2>1, CellsStay
  <2> HIDE DEF t
  <2>3. t(to) \in Displays(X)
    BY <2>2 DEF Only
  <2>4. Only(X, t(to), CursorFollows(t(to), v), w)
    BY <2>3, CursorMoves
  <2> QED
    BY <2>2, <2>4, OnlyTwice
<1>5. Moved(s, v, "bs") = CursorFollows(t(col), v)
  BY DEF Moved
<1>6. Moved(s, v, "cr") = CursorFollows(t(0), v)
  BY DEF Moved
<1>7. Moved(s, v, "bel") = s
  BY DEF Moved
<1>8. Only(X, s, s, w)
  BY OnlyNothing
<1> HIDE DEF t, col
<1> QED
  BY <1>3, <1>4, <1>5, <1>6, <1>7, <1>8

\* A name for it, in which SMT sees no string.
Space == " "

LEMMA CellsAre ==
  ASSUME NEW X, NEW s \in Displays(X), NEW v, NEW inVideo, inVideo \/ v \in VC
  PROVE  CellsOf(s, v, inVideo) \in [Cell -> X]
<1>1. v \in VC => s.vc[v].cells \in [Cell -> X]
  <2>1. v \in VC => s.vc[v] \in Consoles(X)
    BY DEF Displays
  <2> QED
    BY <2>1 DEF Consoles
<1>2. s.video \in [Cell -> X]
  BY DEF Displays
<1> QED
  BY <1>1, <1>2 DEF CellsOf

\* Where a step writes that has decided on the video memory or the console's cells.
Target(s, v, inVideo) == IF inVideo THEN s.current ELSE v

\* Scrolling moves the lines of the screen of its console.
LEMMA ScrollsOnly ==
  ASSUME NEW X, Space \in X, NEW s \in Displays(X), NEW v
  PROVE  Only(X, s, CheckScroll(s, v), v)
<1> DEFINE c == s.vc[v]
           b == [c EXCEPT !.cursor_row = NRows - 1]
           t == [s EXCEPT !.vc[v] = b]
           inVideo == InVideo(s, v)
           cells == LineUp(CellsOf(s, v, inVideo))
           r == SetCells(t, v, inVideo, cells)
<1>1. CheckScroll(s, v) = IF c.cursor_row < NRows THEN s ELSE r
  BY DEF CheckScroll
<1>2. v \in VC => b \in Consoles(X) /\ b.open = c.open /\ b.cells = c.cells
  <2>1. v \in VC => c \in Consoles(X)
    BY DEF Displays
  <2> QED
    BY <2>1, SizesAre DEF Consoles
<1>3. Only(X, s, t, v)
  <2> HIDE DEF b
  <2> QED
    BY <1>2, CellsStay
<1>4. inVideo \/ v \in VC => cells \in [Cell -> X]
  <2> DEFINE old == CellsOf(s, v, inVideo)
  <2>1. inVideo \/ v \in VC => old \in [Cell -> X]
    <3> HIDE DEF inVideo
    <3> QED
      BY CellsAre
  <2> HIDE DEF old
  <2>2. old \in [Cell -> X] => LineUp(old) \in [Cell -> X]
    BY Zenon DEF LineUp, Space
  <2> QED
    BY <2>1, <2>2 DEF old
<1>5. t \in Displays(X) /\ t.current = s.current
  <2> HIDE DEF t
  <2> QED
    BY <1>3 DEF Only
<1>6. Only(X, t, r, v)
  <2>1. (IF inVideo THEN t.current ELSE v) = v
    BY <1>5 DEF InVideo
  <2> HIDE DEF t, inVideo, cells
  <2>2. Only(X, t, r, IF inVideo THEN t.current ELSE v)
    BY <1>4, <1>5, CellsSet
  <2> QED
    BY <2>1, <2>2
<1>7. Only(X, s, r, v)
  <2> HIDE DEF t, r
  <2> QED
    BY <1>3, <1>6, OnlyTwice
<1>8. Only(X, s, s, v)
  BY OnlyNothing
<1> HIDE DEF r
<1> QED
  BY <1>1, <1>7, <1>8

\* A character is stored where it was decided.
LEMMA StoresOnly ==
  ASSUME NEW X, NEW s \in Displays(X), NEW v, NEW inVideo, NEW ch \in X
  PROVE  Only(X, s, Store(s, v, inVideo, ch), Target(s, v, inVideo))
<1> DEFINE i == (NCols * s.vc[v].cursor_row) + s.vc[v].cursor_column
           old == CellsOf(s, v, inVideo)
           cells == [old EXCEPT ![i] = ch]
           r == SetCells(s, v, inVideo, cells)
<1>1. Store(s, v, inVideo, ch) = IF i \in Cell THEN r ELSE s
  BY DEF Store
<1>2. ASSUME inVideo \/ v \in VC
      PROVE  cells \in [Cell -> X]
  <2>1. old \in [Cell -> X]
    BY <1>2, CellsAre
  <2> HIDE DEF old, i
  <2> QED
    BY <2>1
<1>3. Only(X, s, r, Target(s, v, inVideo))
  <2> HIDE DEF cells
  <2> QED
    BY <1>2, CellsSet DEF Target
<1>4. Only(X, s, s, Target(s, v, inVideo))
  BY OnlyNothing
<1> HIDE DEF r, i
<1> QED
  BY <1>1, <1>3, <1>4

LEMMA ClearsOnly ==
  ASSUME NEW X, Space \in X, NEW s \in Displays(X), NEW v, NEW inVideo
  PROVE  Only(X, s, ClearedIn(s, v, inVideo), Target(s, v, inVideo))
<1> DEFINE w == Target(s, v, inVideo)
           r == SetCells(s, v, inVideo, Blank)
           b == [r.vc[v] EXCEPT !.cursor_row = 0, !.cursor_column = 0]
           t == [r EXCEPT !.vc[v] = b]
<1>1. ClearedIn(s, v, inVideo) = CursorAt(t, v, 0, 0)
  BY DEF ClearedIn
<1>2. Only(X, s, r, w)
  <2>1. Blank \in [Cell -> X]
    BY Zenon DEF Blank, Space
  <2> QED
    BY <2>1, CellsSet DEF Target
<1>3. r \in Displays(X)
  <2> HIDE DEF r
  <2> QED
    BY <1>2 DEF Only
<1> HIDE DEF r, w
<1>4. v \in VC => b \in Consoles(X) /\ b.open = r.vc[v].open /\ b.cells = r.vc[v].cells
  <2>1. v \in VC => r.vc[v] \in Consoles(X)
    BY <1>3 DEF Displays
  <2> QED
    BY <2>1 DEF Consoles
<1> HIDE DEF b
<1>5. Only(X, r, t, w)
  BY <1>3, <1>4, CellsStay
<1> HIDE DEF t
<1>6. t \in Displays(X)
  BY <1>5 DEF Only
<1>7. Only(X, t, CursorAt(t, v, 0, 0), w)
  <2>1. 0 \in Int
    OBVIOUS
  <2> QED
    BY <1>6, <2>1, CursorSet
<1>8. Only(X, s, CursorAt(t, v, 0, 0), w)
  BY <1>2, <1>5, <1>7, OnlyTwice
<1> QED
  BY <1>1, <1>8 DEF w

LEMMA ShownOnly ==
  ASSUME NEW X, Space \in X, NEW s \in Displays(X), NEW v, NEW ch \in X
  PROVE  Only(X, s, PrintShown(s, v, ch), v)
<1> DEFINE inVideo == InVideo(s, v)
           t == IF AtEdge(s, v) THEN CheckScroll(NextLine(s, v), v) ELSE s
           r == Store(t, v, inVideo, ch)
           a == Advance(r, v)
<1>1. PrintShown(s, v, ch) = CursorFollowsChar(a, v)
  BY DEF PrintShown
<1>2. Only(X, s, t, v)
  <2> DEFINE n == NextLine(s, v)
  <2>1. Only(X, s, n, v)
    BY CursorMoves
  <2> HIDE DEF n
  <2>2. n \in Displays(X)
    BY <2>1 DEF Only
  <2>3. Only(X, n, CheckScroll(n, v), v)
    BY <2>2, ScrollsOnly
  <2>4. Only(X, s, CheckScroll(n, v), v)
    BY <2>1, <2>3, OnlyTwice
  <2>5. Only(X, s, s, v)
    BY OnlyNothing
  <2> QED
    BY <2>4, <2>5 DEF n
<1> HIDE DEF t
<1>3. t \in Displays(X) /\ t.current = s.current
  BY <1>2 DEF Only
<1>4. Target(t, v, inVideo) = v
  BY <1>3 DEF Target, InVideo
<1> HIDE DEF inVideo
<1>5. Only(X, t, r, v)
  BY <1>3, <1>4, StoresOnly
<1> HIDE DEF r
<1>6. r \in Displays(X)
  BY <1>5 DEF Only
<1>7. Only(X, r, a, v)
  BY <1>6, CursorMoves
<1> HIDE DEF a
<1>8. a \in Displays(X)
  BY <1>7 DEF Only
<1>9. Only(X, a, CursorFollowsChar(a, v), v)
  BY <1>8, CursorMoves
<1>10. Only(X, s, r, v)
  BY <1>2, <1>5, OnlyTwice
<1>11. Only(X, s, a, v)
  BY <1>7, <1>10, OnlyTwice
<1> QED
  BY <1>1, <1>9, <1>11, OnlyTwice

\* Steps that write to console v only are N steps that do.
LEMMA StepsOnly ==
  ASSUME NEW X, NEW s \in Displays(X), NEW v, NEW N \in Nat, NEW h, h[0] = s,
         \A i \in 1..N : h[i - 1] \in Displays(X) => Only(X, h[i - 1], h[i], v)
  PROVE  Only(X, s, h[N], v)
<1> DEFINE Good == {i \in 0..N : Only(X, s, h[i], v)}
<1>1. 0 \in Good
  BY OnlyNothing
<1>2. \A i \in 0..(N - 1) : i \in Good => i + 1 \in Good
  <2> SUFFICES ASSUME NEW i \in 0..(N - 1), Only(X, s, h[i], v)
               PROVE  i + 1 \in Good
    OBVIOUS
  <2> DEFINE j == i + 1
  <2>1. j \in 1..N /\ j \in 0..N /\ j - 1 = i
    OBVIOUS
  <2>2. h[i] \in Displays(X)
    BY DEF Only
  <2>3. Only(X, h[i], h[j], v)
    BY <2>1, <2>2
  <2>4. Only(X, s, h[j], v)
    BY <2>3, OnlyTwice
  <2> QED
    BY <2>1, <2>4
<1>3. Good \in SUBSET Nat
  OBVIOUS
<1> HIDE DEF Good
<1>4. \A i \in 0..N : i \in Good
  BY <1>1, <1>2, <1>3, Climb
<1>5. N \in 0..N
  OBVIOUS
<1> QED
  BY <1>4, <1>5 DEF Good

LEMMA SpacesIsNat ==
  ASSUME NEW X, NEW s \in Displays(X), NEW v \in VC
  PROVE  Spaces(s, v) \in Nat
<1>1. s.vc[v] \in Consoles(X)
  BY DEF Displays
<1> DEFINE col == s.vc[v].cursor_column
<1>2. col \in Nat
  BY <1>1 DEF Consoles
<1> HIDE DEF col
<1>3. col % Tab \in 0..(Tab - 1)
  BY <1>2, SizesAre
<1>4. Tab - (col % Tab) \in Nat
  BY <1>3, SizesAre
<1> QED
  BY <1>4 DEF Spaces, col

LEMMA SpacesOnly ==
  ASSUME NEW X, Space \in X, NEW s \in Displays(X), NEW v \in VC
  PROVE  Only(X, s, PrintSpaces(s, v), v)
<1> DEFINE N == Spaces(s, v)
           D == Displays(X)
           step == [x \in (1..N) \X D |-> PrintShown(x[2], v, Space)]
           Is(h) == h = [i \in 0..N |->
                           IF i = 0 THEN s ELSE PrintShown(h[i - 1], v, Space)]
<1>1. N \in Nat
  BY SpacesIsNat
<1>2. PrintSpaces(s, v) = (CHOOSE h : Is(h))[N]
  BY Zenon DEF PrintSpaces, Space
<1>3. \A i \in 1..N, x \in D : step[<<i, x>>] = PrintShown(x, v, Space)
  <2> HIDE DEF N, D
  <2> QED
    OBVIOUS
<1>4. \A x \in D : Only(X, x, PrintShown(x, v, Space), v)
  BY ShownOnly
<1>5. step \in Steps(N, D)
  <2>1. \A x \in D : PrintShown(x, v, Space) \in D
    BY <1>4 DEF Only
  <2> HIDE DEF N, D
  <2> QED
    BY <2>1 DEF Steps
<1>6. s \in D
  OBVIOUS
<1> HIDE DEF N, step, D
<1>7. PICK g \in [0..N -> D] : Iterates(g, s, N, step)
  BY <1>1, <1>5, <1>6, Iterate
<1>8. \A i \in 0..N : g[i] = IF i = 0 THEN s ELSE PrintShown(g[i - 1], v, Space)
  <2> SUFFICES ASSUME NEW i \in 1..N
               PROVE  g[i] = PrintShown(g[i - 1], v, Space)
    BY <1>1, <1>7 DEF Iterates
  <2>1. i - 1 \in 0..N
    BY <1>1
  <2>2. g[i - 1] \in D
    BY <1>7, <2>1
  <2> QED
    BY <1>3, <1>7, <2>2 DEF Iterates
<1>9. Is(g)
  BY <1>7, <1>8
<1> DEFINE h == CHOOSE r : Is(r)
<1>10. Is(h)
  <2> HIDE DEF Is
  <2> QED
    BY <1>9
<1> HIDE DEF h
<1>11. h[0] = s /\ \A i \in 1..N : h[i] = PrintShown(h[i - 1], v, Space)
  BY <1>1, <1>10
<1>12. \A i \in 1..N : h[i - 1] \in D => Only(X, h[i - 1], h[i], v)
  BY <1>4, <1>11
<1>13. Only(X, s, h[N], v)
  <2> HIDE DEF Is
  <2> QED
    BY <1>1, <1>11, <1>12, StepsOnly DEF D
<1> HIDE DEF Is
<1> QED
  BY <1>2, <1>13 DEF h

\* All of printchar().
LEMMA CharOnly ==
  ASSUME NEW X, Space \in X, NEW s \in Displays(X), NEW v \in VC, NEW ch \in X
  PROVE  Only(X, s, PrintChar(s, v, ch), v)
<1>1. CASE Shown(ch)
  <2>1. PrintChar(s, v, ch) = PrintShown(s, v, ch)
    BY <1>1 DEF PrintChar, Shown
  <2> QED
    BY <2>1, ShownOnly
<1>2. CASE ch = "nl"
  <2> DEFINE d == Down(s, v)
             t == CheckScroll(d, v)
  <2>1. PrintChar(s, v, ch) = CursorFollows(t, v)
    BY <1>2 DEF PrintChar, Shown
  <2>2. Only(X, s, d, v)
    BY CursorMoves
  <2> HIDE DEF d
  <2>3. Only(X, d, t, v)
    BY <2>2, ScrollsOnly DEF Only
  <2> HIDE DEF t
  <2>4. t \in Displays(X)
    BY <2>3 DEF Only
  <2>5. Only(X, t, CursorFollows(t, v), v)
    BY <2>4, CursorMoves
  <2>6. Only(X, s, t, v)
    BY <2>2, <2>3, OnlyTwice
  <2> QED
    BY <2>1, <2>5, <2>6, OnlyTwice
<1>3. CASE ch = "ff"
  <2>1. PrintChar(s, v, ch) = ClearedIn(s, v, InVideo(s, v))
    BY <1>3 DEF PrintChar, Shown
  <2>2. Target(s, v, InVideo(s, v)) = v
    BY DEF Target, InVideo
  <2> QED
    BY <2>1, <2>2, ClearsOnly
<1>4. CASE ch = "tab"
  <2>1. PrintChar(s, v, ch) = PrintSpaces(s, v)
    BY <1>4 DEF PrintChar, Shown
  <2> QED
    BY <2>1, SpacesOnly
<1>5. CASE ch \in {"bs", "cr", "bel"}
  <2>1. PrintChar(s, v, ch) = Moved(s, v, ch)
    BY <1>5 DEF PrintChar, Shown
  <2> QED
    BY <1>5, <2>1, MovesOnly
<1> QED
  BY <1>1, <1>2, <1>3, <1>4, <1>5 DEF Shown

LEMMA AllOnly ==
  ASSUME NEW X, Space \in X, NEW s \in Displays(X), NEW v \in VC, NEW chars \in Seq(X)
  PROVE  Only(X, s, PrintAll(s, v, chars), v)
<1> DEFINE N == Len(chars)
           D == Displays(X)
           step == [x \in (1..N) \X D |-> PrintChar(x[2], v, chars[x[1]])]
           Is(h) == h = [i \in 0..N |->
                           IF i = 0 THEN s ELSE PrintChar(h[i - 1], v, chars[i])]
<1>1. N \in Nat /\ \A i \in 1..N : chars[i] \in X
  OBVIOUS
<1>2. PrintAll(s, v, chars) = (CHOOSE h : Is(h))[N]
  BY DEF PrintAll
<1>3. \A i \in 1..N, x \in D : step[<<i, x>>] = PrintChar(x, v, chars[i])
  <2> HIDE DEF N, D
  <2> QED
    OBVIOUS
<1>4. \A i \in 1..N, x \in D : Only(X, x, PrintChar(x, v, chars[i]), v)
  <2> HIDE DEF N
  <2> QED
    BY <1>1, CharOnly
<1>5. step \in Steps(N, D)
  <2>1. \A i \in 1..N, x \in D : PrintChar(x, v, chars[i]) \in D
    BY <1>4 DEF Only
  <2> HIDE DEF N, D
  <2> QED
    BY <2>1 DEF Steps
<1>6. s \in D
  OBVIOUS
<1> HIDE DEF N, step, D
<1>7. PICK g \in [0..N -> D] : Iterates(g, s, N, step)
  BY <1>1, <1>5, <1>6, Iterate
<1>8. \A i \in 0..N : g[i] = IF i = 0 THEN s ELSE PrintChar(g[i - 1], v, chars[i])
  <2> SUFFICES ASSUME NEW i \in 1..N
               PROVE  g[i] = PrintChar(g[i - 1], v, chars[i])
    BY <1>1, <1>7 DEF Iterates
  <2>1. i - 1 \in 0..N
    BY <1>1
  <2>2. g[i - 1] \in D
    BY <1>7, <2>1
  <2> QED
    BY <1>3, <1>7, <2>2 DEF Iterates
<1>9. Is(g)
  BY <1>7, <1>8
<1> DEFINE h == CHOOSE r : Is(r)
<1>10. Is(h)
  <2> HIDE DEF Is
  <2> QED
    BY <1>9
<1> HIDE DEF h
<1>11. h[0] = s /\ \A i \in 1..N : h[i] = PrintChar(h[i - 1], v, chars[i])
  BY <1>1, <1>10
<1>12. \A i \in 1..N : h[i - 1] \in D => Only(X, h[i - 1], h[i], v)
  BY <1>4, <1>11
<1>13. Only(X, s, h[N], v)
  <2> HIDE DEF Is
  <2> QED
    BY <1>1, <1>11, <1>12, StepsOnly DEF D
<1> HIDE DEF Is
<1> QED
  BY <1>2, <1>13 DEF h

(***************************************************************************)
(* The steps.                                                              *)
(***************************************************************************)
\* What every step keeps: the display is one, of some characters.
ShapedBy(X) == Space \in X /\ Display \in Displays(X)

DisplayInv == (\E X : ShapedBy(X)) /\ vc[current].open /\ strokes \in Nat

\* The action of ScreensKept.
KeepsScreens ==
  \A v \in VC : vc[v].open /\ Screen(v)' # Screen(v) =>
      \/ \E p \in Writer : PrintsTo(p, v) \/ (v = current /\ Strays(p))
      \/ Message /\ v \in {0, current}

LEMMA MoreCharacters ==
  ASSUME NEW X, NEW ch, ShapedBy(X)
  PROVE  ShapedBy(X \cup {ch}) /\ ch \in X \cup {ch}
<1> DEFINE Y == X \cup {ch}
<1>1. X \subseteq Y
  OBVIOUS
<1> HIDE DEF Y
<1>2. [Cell -> X] \subseteq [Cell -> Y]
  BY <1>1
<1>3. Consoles(X) \subseteq Consoles(Y)
  BY <1>2 DEF Consoles
<1>4. [VC -> Consoles(X)] \subseteq [VC -> Consoles(Y)]
  BY <1>3
<1>5. Displays(X) \subseteq Displays(Y)
  BY <1>2, <1>4 DEF Displays
<1>6. ShapedBy(Y)
  BY <1>1, <1>5 DEF ShapedBy
<1> QED
  BY <1>6 DEF Y

LEMMA DisplayIs ==
  ASSUME NEW X, ShapedBy(X)
  PROVE  /\ Display.vc = vc /\ Display.current = current /\ Display.video = video
         /\ vc \in [VC -> Consoles(X)] /\ current \in VC /\ video \in [Cell -> X]
         /\ \A u \in VC : ScreenOn(Display, u) = Screen(u)
BY DEF ShapedBy, Displays, Display, ScreenOn, Screen

\* A display that is shown: the screens of the consoles are its screens.
LEMMA ShownIs ==
  ASSUME NEW X, Space \in X, NEW s \in Displays(X), Shows(s)
  PROVE  /\ ShapedBy(X)' /\ current' = s.current
         /\ \A u \in VC : vc'[u].open = s.vc[u].open /\ Screen(u)' = ScreenOn(s, u)
<1>1. vc' = s.vc /\ current' = s.current /\ video' = s.video /\ hwcursor' = s.hwcursor
  BY DEF Shows
<1>2. Display' = [vc |-> s.vc, current |-> s.current, video |-> s.video,
                  hwcursor |-> s.hwcursor]
  BY <1>1 DEF Display
<1>3. Display' \in Displays(X)
  BY <1>2 DEF Displays
<1>4. \A u \in VC : vc'[u].open = s.vc[u].open /\ Screen(u)' = ScreenOn(s, u)
  BY <1>1 DEF Screen, ScreenOn
<1> QED
  BY <1>1, <1>3, <1>4 DEF ShapedBy

\* A step writes to w only, and may.
LEMMA WritesTo ==
  ASSUME DisplayInv, NEW X, ShapedBy(X), NEW s, NEW w, Only(X, Display, s, w), Shows(s),
         strokes' \in Nat,
         \/ \E p \in Writer : PrintsTo(p, w) \/ (w = current /\ Strays(p))
         \/ Message /\ w \in {0, current}
  PROVE  DisplayInv' /\ KeepsScreens
<1>1. s \in Displays(X) /\ s.current = current
  BY DisplayIs DEF Only
<1>2. /\ \A u \in VC : s.vc[u].open = vc[u].open
      /\ \A u \in VC \ {w} : ScreenOn(s, u) = Screen(u)
  BY DisplayIs DEF Only
<1>3. /\ ShapedBy(X)' /\ current' = current
      /\ \A u \in VC : vc'[u].open = s.vc[u].open /\ Screen(u)' = ScreenOn(s, u)
  BY <1>1, ShownIs DEF ShapedBy
<1>4. vc'[current'].open
  BY <1>2, <1>3, DisplayIs DEF DisplayInv
<1>5. KeepsScreens
  BY <1>2, <1>3 DEF KeepsScreens
<1> QED
  BY <1>3, <1>4, <1>5 DEF DisplayInv

\* A step that leaves every screen as it is.
LEMMA WritesNothing ==
  ASSUME DisplayInv, NEW X, ShapedBy(X), NEW s, \A w : Only(X, Display, s, w), Shows(s),
         strokes' \in Nat
  PROVE  DisplayInv' /\ KeepsScreens
<1>1. s \in Displays(X) /\ s.current = current
  BY DisplayIs DEF Only
<1>2. PICK w : w \notin VC
  <2>1. Screens \notin VC
    BY SizesAre DEF VC
  <2> QED
    BY <2>1
<1>3. /\ \A u \in VC : s.vc[u].open = vc[u].open
      /\ \A u \in VC : ScreenOn(s, u) = Screen(u)
  <2>1. Only(X, Display, s, w)
    OBVIOUS
  <2> QED
    BY <1>2, <2>1, DisplayIs DEF Only
<1>4. /\ ShapedBy(X)' /\ current' = current
      /\ \A u \in VC : vc'[u].open = s.vc[u].open /\ Screen(u)' = ScreenOn(s, u)
  BY <1>1, ShownIs DEF ShapedBy
<1>5. vc'[current'].open
  BY <1>3, <1>4, DisplayIs DEF DisplayInv
<1>6. KeepsScreens
  BY <1>3, <1>4 DEF KeepsScreens
<1> QED
  BY <1>4, <1>5, <1>6 DEF DisplayInv

LEMMA QuietDisplay ==
  ASSUME DisplayInv, UNCHANGED display, strokes' \in Nat
  PROVE  DisplayInv' /\ KeepsScreens
<1>1. vc' = vc /\ current' = current /\ video' = video /\ hwcursor' = hwcursor
  BY DEF display
<1>2. \A v : Screen(v)' = Screen(v)
  BY <1>1 DEF Screen
<1>3. Display' = Display
  BY <1>1 DEF Display
<1>4. \A X : ShapedBy(X) => ShapedBy(X)'
  BY <1>3 DEF ShapedBy
<1>5. \E X : ShapedBy(X)'
  BY <1>4 DEF DisplayInv
<1> QED
  BY <1>1, <1>2, <1>5 DEF DisplayInv, KeepsScreens

\* A process that prints writes where it decided.
LEMMA PrinterWrites ==
  ASSUME DisplayInv, NEW X, ShapedBy(X), NEW p \in Writer, NEW s, NEW at,
         Runs(p, at), at \in {"print", "scroll", "follow", "wrap", "wrapscroll", "store",
                              "advance", "cursor", "clear"},
         \/ Only(X, Display, s, job[p].v)
         \/ /\ at \in {"store", "clear"}
            /\ Only(X, Display, s, Target(Display, job[p].v, job[p].inVideo)),
         Shows(s), UNCHANGED bounds
  PROVE  DisplayInv' /\ KeepsScreens
<1>1. strokes' \in Nat
  BY DEF bounds, DisplayInv
<1>2. PrintsTo(p, job[p].v)
  BY DEF PrintsTo, Runs
<1>3. ASSUME Only(X, Display, s, job[p].v)
      PROVE  DisplayInv' /\ KeepsScreens
  BY <1>1, <1>2, <1>3, WritesTo
<1>4. ASSUME job[p].inVideo, at \in {"store", "clear"}, Only(X, Display, s, current)
      PROVE  DisplayInv' /\ KeepsScreens
  <2>1. Strays(p)
    BY <1>4 DEF Strays, Runs
  <2> QED
    BY <1>1, <1>4, <2>1, WritesTo
<1> QED
  BY <1>3, <1>4, DisplayIs DEF Target

LEMMA PrintingKeeps ==
  ASSUME DisplayInv, NEW p \in Writer, PrintSteps(p)
  PROVE  DisplayInv' /\ KeepsScreens
<1> DEFINE v == job[p].v
<1>1. PICK X : ShapedBy(X)
  BY DEF DisplayInv
<1>2. Display \in Displays(X) /\ Space \in X
  BY <1>1 DEF ShapedBy
<1>3. ASSUME Shows(Down(Display, v)) \/ Shows(NextLine(Display, v))
               \/ Shows(Advance(Display, v)) \/ Shows(CursorFollows(Display, v))
               \/ Shows(CursorFollowsChar(Display, v)) \/ Shows(CheckScroll(Display, v)),
             NEW at \in {"print", "scroll", "follow", "wrap", "wrapscroll", "advance",
                         "cursor"},
             Runs(p, at), UNCHANGED bounds
      PROVE  DisplayInv' /\ KeepsScreens
  <2> DEFINE D == {Down(Display, v), NextLine(Display, v), Advance(Display, v),
                   CursorFollows(Display, v), CursorFollowsChar(Display, v),
                   CheckScroll(Display, v)}
  <2>1. \A s \in D : Only(X, Display, s, v)
    BY <1>2, CursorMoves, ScrollsOnly
  <2>2. PICK s \in D : Shows(s)
    BY <1>3
  <2> HIDE DEF D
  <2>3. Only(X, Display, s, v)
    BY <2>1, <2>2
  <2> QED
    BY <1>1, <1>3, <2>2, <2>3, PrinterWrites
<1>4. CASE Move(p)
  <2> DEFINE s == Moved(Display, v, Printing(p))
  <2>1. Only(X, Display, s, v)
    BY <1>2, <1>4, MovesOnly DEF Move
  <2>2. Shows(s) /\ Runs(p, "print") /\ UNCHANGED bounds
    BY <1>4 DEF Move, PrintsLast
  <2> HIDE DEF s
  <2> QED
    BY <1>1, <2>1, <2>2, PrinterWrites
<1>5. CASE Cleared(p)
  <2> DEFINE s == ClearedIn(Display, v, job[p].inVideo)
  <2>1. Only(X, Display, s, Target(Display, v, job[p].inVideo))
    BY <1>2, ClearsOnly
  <2>2. Shows(s) /\ Runs(p, "clear") /\ UNCHANGED bounds
    BY <1>5 DEF Cleared, PrintsLast
  <2> HIDE DEF s
  <2> QED
    BY <1>1, <2>1, <2>2, PrinterWrites
<1>6. CASE StoreChar(p)
  <2> DEFINE ch == job[p].ch
             Y == X \cup {ch}
             s == Store(Display, v, job[p].inVideo, ch)
  <2>1. ShapedBy(Y) /\ ch \in Y
    BY <1>1, MoreCharacters
  <2>2. Display \in Displays(Y)
    BY <2>1 DEF ShapedBy
  <2>3. Shows(s) /\ Runs(p, "store") /\ UNCHANGED bounds
    BY <1>6 DEF StoreChar, PrintsOn
  <2> HIDE DEF Y, ch
  <2>4. Only(Y, Display, s, Target(Display, v, job[p].inVideo))
    BY <2>1, <2>2, StoresOnly
  <2> HIDE DEF s
  <2> QED
    BY <2>1, <2>3, <2>4, PrinterWrites
<1>7. CASE ClearScreen(p) \/ TabStop(p) \/ PrintShownAt(p)
  <2>1. UNCHANGED display /\ strokes' \in Nat
    BY <1>7 DEF ClearScreen, TabStop, PrintShownAt, bounds, DisplayInv
  <2> QED
    BY <2>1, QuietDisplay
<1>8. CASE NewLine(p)
  BY <1>3, <1>8 DEF NewLine, PrintsOn
<1>9. CASE NewLineScroll(p)
  BY <1>3, <1>9 DEF NewLineScroll, PrintsOn
<1>10. CASE NewLineCursor(p)
  BY <1>3, <1>10 DEF NewLineCursor, PrintsLast
<1>11. CASE WrapLine(p)
  BY <1>3, <1>11 DEF WrapLine, PrintsOn
<1>12. CASE WrapScroll(p)
  BY <1>3, <1>12 DEF WrapScroll, PrintsOn
<1>13. CASE AdvanceColumn(p)
  BY <1>3, <1>13 DEF AdvanceColumn, PrintsOn
<1>14. CASE SetCursor(p)
  BY <1>3, <1>14 DEF SetCursor, PrintsLast
<1> QED
  BY <1>4, <1>5, <1>6, <1>7, <1>8, <1>9, <1>10, <1>11, <1>12, <1>13, <1>14 DEF PrintSteps

\* The lock of a console and its modes are not on the screen.
LEMMA ModesKeep ==
  ASSUME DisplayInv, NEW v, NEW X, ShapedBy(X), NEW b,
         v \in VC => b \in Consoles(X) /\ b.open = vc[v].open /\ b.cells = vc[v].cells,
         vc' = [vc EXCEPT ![v] = b], UNCHANGED <<current, video, hwcursor>>,
         strokes' \in Nat
  PROVE  DisplayInv' /\ KeepsScreens
<1> DEFINE s == [Display EXCEPT !.vc[v] = b]
<1>1. Display \in Displays(X)
  BY DEF ShapedBy
<1>2. v \in VC => b.open = Display.vc[v].open /\ b.cells = Display.vc[v].cells
  BY DisplayIs
<1>3. \A w : Only(X, Display, s, w)
  BY <1>1, <1>2, CellsStay
<1>4. Shows(s)
  BY DEF Shows, Display
<1> HIDE DEF s
<1> QED
  BY <1>3, <1>4, WritesNothing

LEMMA LockingKeeps ==
  ASSUME DisplayInv, NEW p \in Writer, LockVc(p) \/ UnlockVc(p)
  PROVE  DisplayInv' /\ KeepsScreens
<1> DEFINE v == job[p].v
<1>1. PICK X : ShapedBy(X)
  BY DEF DisplayInv
<1>2. v \in VC => vc[v] \in Consoles(X)
  BY <1>1, DisplayIs
<1>3. strokes' \in Nat /\ UNCHANGED <<current, video, hwcursor>>
  BY DEF LockVc, UnlockVc, bounds, DisplayInv
<1>4. PICK l \in Writer \cup {Null} : vc' = [vc EXCEPT ![v].lock = l]
  BY DEF LockVc, UnlockVc
<1> DEFINE b == [vc[v] EXCEPT !.lock = l]
<1>5. v \in VC => b \in Consoles(X) /\ b.open = vc[v].open /\ b.cells = vc[v].cells
  BY <1>2 DEF Consoles
<1>6. vc' = [vc EXCEPT ![v] = b]
  BY <1>4
<1> HIDE DEF b, v
<1> QED
  BY <1>1, <1>3, <1>5, <1>6, ModesKeep

LEMMA PressLockKeeps ==
  ASSUME DisplayInv, NEW k \in LockKey, PressLock(k)
  PROVE  DisplayInv' /\ KeepsScreens
<1> DEFINE c == vc[current]
           mode == IF k \in keypressed THEN c.lockmode ELSE Toggled(c.lockmode, k)
           b == [c EXCEPT !.lockmode = mode]
<1>1. PICK X : ShapedBy(X)
  BY DEF DisplayInv
<1>2. current \in VC /\ c \in Consoles(X)
  BY <1>1, DisplayIs
<1>3. mode \in SUBSET LockKey
  <2>1. c.lockmode \in SUBSET LockKey
    BY <1>2 DEF Consoles
  <2> QED
    BY <2>1 DEF Toggled
<1>4. vc' = [vc EXCEPT ![current] = b]
  BY DEF PressLock
<1>5. strokes' \in Nat /\ UNCHANGED <<current, video, hwcursor>>
  BY DEF PressLock, Stroke, DisplayInv
<1> HIDE DEF mode
<1>6. b \in Consoles(X) /\ b.open = c.open /\ b.cells = c.cells
  BY <1>2, <1>3 DEF Consoles
<1> HIDE DEF b
<1> QED
  BY <1>1, <1>4, <1>5, <1>6, ModesKeep

\* A console opened for the first time takes its place.
LEMMA InitialisedKeepsScreens ==
  ASSUME DisplayInv, NEW p \in Writer, Initialised(p)
  PROVE  DisplayInv' /\ KeepsScreens
<1> DEFINE v == job[p].v
<1>1. PICK X : ShapedBy(X)
  BY DEF DisplayInv
<1>2. /\ vc' = [vc EXCEPT ![v] = NewVc]
      /\ UNCHANGED <<current, video, hwcursor>> /\ strokes' = strokes
  BY DEF Initialised, bounds
<1>3. PrintsTo(p, v)
  BY DEF Initialised, Runs, PrintsTo
<1>4. NewVc \in Consoles(X) /\ NewVc.open
  <2>1. Blank \in [Cell -> X]
    <3>1. Space \in X
      BY <1>1 DEF ShapedBy
    <3> QED
      BY Zenon, <3>1 DEF Blank, Space
  <2> QED
    BY <2>1 DEF NewVc, NoVc, Consoles
<1>5. vc \in [VC -> Consoles(X)] /\ current \in VC
  BY <1>1, DisplayIs
<1>6. vc' \in [VC -> Consoles(X)]
  <2> HIDE DEF v
  <2> QED
    BY <1>2, <1>4, <1>5
<1>7. \A u \in VC : vc'[u] = IF u = v THEN NewVc ELSE vc[u]
  <2> HIDE DEF v
  <2> QED
    BY <1>2, <1>5
<1>8. ShapedBy(X)'
  BY <1>1, <1>2, <1>6 DEF ShapedBy, Display, Displays
<1>9. vc'[current'].open
  BY <1>2, <1>4, <1>5, <1>7 DEF DisplayInv
<1>10. \A u \in VC : Screen(u)' # Screen(u) => u = v
  BY <1>2, <1>7 DEF Screen
<1>11. KeepsScreens
  BY <1>3, <1>10 DEF KeepsScreens
<1> QED
  BY <1>2, <1>8, <1>9, <1>11 DEF DisplayInv

\* A switch keeps both screens.
LEMMA SwitchKeeps ==
  ASSUME DisplayInv, NEW v \in VC, vc[v].open, SwitchTo(v), strokes' \in Nat
  PROVE  DisplayInv' /\ KeepsScreens
<1>1. PICK X : ShapedBy(X)
  BY DEF DisplayInv
<1>2. Display \in Displays(X)
  BY <1>1 DEF ShapedBy
<1>3. Shows(Switched(Display, v))
  BY DEF SwitchTo
<1>4. CASE v = current
  <2>1. Shows(Display)
    <3>1. v = Display.current
      BY <1>1, <1>4, DisplayIs
    <3>2. Switched(Display, v) = Display
      BY <3>1 DEF Switched
    <3> QED
      BY <1>3, <3>2
  <2>2. \A w : Only(X, Display, Display, w)
    BY <1>2, OnlyNothing
  <2> QED
    BY <1>1, <2>1, <2>2, WritesNothing
<1>5. CASE v # current
  <2> DEFINE b == [vc[current] EXCEPT !.cells = video]
             c == [vc EXCEPT ![current] = b]
             t == [vc |-> c, current |-> v, video |-> vc[v].cells, hwcursor |-> hwcursor]
             r == CursorFollows(t, v)
  <2>1. Switched(Display, v) = r
    <3> DEFINE e == [Display EXCEPT !.vc[current].cells = video, !.video = vc[v].cells,
                                    !.current = v]
    <3>1. Display.vc = vc /\ Display.current = current /\ Display.video = video
      BY DEF Display
    <3>2. Switched(Display, v) = CursorFollows(e, v)
      BY <1>5, <3>1 DEF Switched
    <3>3. e = [Display EXCEPT !.vc = c, !.video = vc[v].cells, !.current = v]
      BY <3>1
    <3>4. e = t
      <4> HIDE DEF c, e
      <4> QED
        BY <3>3 DEF Display
    <3> QED
      BY <3>2, <3>4
  <2>2. /\ vc \in [VC -> Consoles(X)] /\ current \in VC /\ video \in [Cell -> X]
        /\ hwcursor \in Int
    BY <1>1, <1>2, DisplayIs DEF Displays, Display
  <2>3. b \in Consoles(X) /\ b.open = vc[current].open /\ b.cells = video
    BY <2>2 DEF Consoles
  <2> HIDE DEF b
  <2>4. c \in [VC -> Consoles(X)] /\ \A u \in VC : c[u] = IF u = current THEN b ELSE vc[u]
    BY <2>2, <2>3
  <2> HIDE DEF c
  <2>5. vc[v].cells \in [Cell -> X]
    BY <2>2 DEF Consoles
  <2>6. t \in Displays(X)
    BY <2>2, <2>4, <2>5 DEF Displays
  <2>7. \A u \in VC : ScreenOn(t, u) = Screen(u) /\ t.vc[u].open = vc[u].open
    BY <1>5, <2>3, <2>4 DEF ScreenOn, Screen
  <2>8. t.current = v
    OBVIOUS
  <2> HIDE DEF t
  <2>9. \A w : Only(X, t, r, w)
    BY <2>6, CursorMoves
  <2>10. Shows(r)
    BY <1>3, <2>1
  <2> HIDE DEF r
  <2>11. PICK w : w \notin VC
    <3>1. Screens \notin VC
      BY SizesAre DEF VC
    <3> QED
      BY <3>1
  <2>12. Only(X, t, r, w)
    BY <2>9
  <2>13. /\ r \in Displays(X) /\ r.current = v
         /\ \A u \in VC : ScreenOn(r, u) = Screen(u) /\ r.vc[u].open = vc[u].open
    BY <2>7, <2>8, <2>11, <2>12 DEF Only
  <2>14. /\ ShapedBy(X)' /\ current' = v
         /\ \A u \in VC : vc'[u].open = vc[u].open /\ Screen(u)' = Screen(u)
    BY <1>1, <2>10, <2>13, ShownIs DEF ShapedBy
  <2> QED
    BY <2>14 DEF DisplayInv, KeepsScreens
<1> QED
  BY <1>4, <1>5

\* pccon_nextvc() finds a console there is: at the latest the one it started from.
LEMMA NextVcIs ==
  ASSUME DisplayInv, NEW direction \in {-1, 1}
  PROVE  NextVc(direction) \in VC /\ vc[NextVc(direction)].open
<1> DEFINE Away(i) == (current + (i * direction)) % Screens
           I == {i \in 1..Screens : vc[Away(i)].open}
           P(i) == i \in I /\ \A j \in I : i <= j
           first == CHOOSE i \in I : \A j \in I : i <= j
<1>1. current \in VC
  BY DisplayIs DEF DisplayInv
<1>2. Screens \in Nat /\ Screens > 0 /\ current \in Nat /\ current < Screens
  BY <1>1, SizesAre DEF VC
<1>3. Away(Screens) = current
  <2>1. CASE direction = 1
    <3>1. Screens * direction = Screens
      BY <1>2, <2>1
    <3>2. (current + Screens) % Screens = current
      BY <1>2
    <3> QED
      BY <3>1, <3>2
  <2>2. CASE direction = -1
    <3>1. Screens * direction = -Screens
      BY <1>2, <2>2
    <3>2. (current + (-Screens)) % Screens = current
      BY <1>2
    <3> QED
      BY <3>1, <3>2
  <2> QED
    BY <2>1, <2>2
<1>4. Screens \in I
  <2> HIDE DEF Away
  <2> QED
    BY <1>2, <1>3 DEF DisplayInv
<1>5. I \in SUBSET Nat
  OBVIOUS
<1> HIDE DEF I
<1>6. \E i \in I : \A j \in I : i <= j
  BY <1>4, <1>5, LeastNatural
<1>7. first \in I
  BY <1>6
<1> HIDE DEF first
<1>8. first \in 1..Screens /\ vc[Away(first)].open
  BY <1>7 DEF I
<1>9. Away(first) \in VC
  <2>1. first \in Int /\ direction \in Int
    BY <1>8
  <2>2. first * direction \in Int
    BY <2>1
  <2> DEFINE a == current + (first * direction)
  <2>3. a \in Int
    BY <1>2, <2>2
  <2> HIDE DEF a
  <2>4. a % Screens \in 0..(Screens - 1)
    BY <1>2, <2>3
  <2> QED
    BY <2>4 DEF VC, a
<1>10. NextVc(direction) = Away(first)
  BY DEF NextVc, first, I
<1> QED
  BY <1>8, <1>9, <1>10

\* A message is printed at once, by who has interrupts disabled.
LEMMA MessageKeeps ==
  ASSUME DisplayInv, NEW X, ShapedBy(X), NEW v \in {0, current}, NEW chars \in Seq(X),
         Shows(PrintAll(Display, v, chars)), Stroke
  PROVE  DisplayInv' /\ KeepsScreens
<1> DEFINE s == PrintAll(Display, v, chars)
<1>1. Display \in Displays(X) /\ Space \in X
  BY DEF ShapedBy
<1>2. v \in VC
  BY DisplayIs, SizesAre
<1>3. Only(X, Display, s, v)
  BY <1>1, <1>2, AllOnly
<1> HIDE DEF s
<1>4. strokes' \in Nat /\ strokes' # strokes
  BY DEF Stroke, DisplayInv
<1>5. current' = current
  <2>1. s.current = current
    BY <1>3, DisplayIs DEF Only
  <2> QED
    BY <2>1 DEF Shows, s
<1>6. Message
  BY <1>4, <1>5 DEF Message
<1> QED
  BY <1>3, <1>4, <1>6, WritesTo DEF s

LEMMA InterruptKeepsScreens ==
  ASSUME DisplayInv, Keyboard \/ KernelMessage
  PROVE  DisplayInv' /\ KeepsScreens
<1>1. PICK X0 : ShapedBy(X0)
  BY DEF DisplayInv
<1>2. ASSUME NEW a, NEW b, NEW c
      PROVE  \E X : ShapedBy(X) /\ a \in X /\ b \in X /\ c \in X /\ Space \in X
  <2> DEFINE A == X0 \cup {a}
             B == A \cup {b}
             C == B \cup {c}
  <2>1. ShapedBy(A) /\ a \in A
    BY <1>1, MoreCharacters
  <2> HIDE DEF A
  <2>2. ShapedBy(B) /\ b \in B /\ a \in B
    BY <2>1, MoreCharacters
  <2> HIDE DEF B
  <2>3. ShapedBy(C) /\ c \in C /\ b \in C /\ a \in C
    BY <2>2, MoreCharacters
  <2> QED
    BY <2>3 DEF ShapedBy
<1>3. ASSUME NEW k \in LockKey, PressLock(k)
      PROVE  DisplayInv' /\ KeepsScreens
  BY <1>3, PressLockKeeps
<1>4. ASSUME NEW k \in LockKey, ReleaseLock(k)
      PROVE  DisplayInv' /\ KeepsScreens
  <2>1. UNCHANGED display /\ strokes' \in Nat
    BY <1>4 DEF ReleaseLock, bounds, DisplayInv
  <2> QED
    BY <2>1, QuietDisplay
<1>5. ASSUME NEW v \in VC, PressFkey(v)
      PROVE  DisplayInv' /\ KeepsScreens
  <2>1. vc[v].open /\ SwitchTo(v) /\ strokes' \in Nat
    BY <1>5 DEF PressFkey, Stroke, DisplayInv
  <2> QED
    BY <2>1, SwitchKeeps
<1>6. ASSUME NEW direction \in {-1, 1}, PressLeftRight(direction)
      PROVE  DisplayInv' /\ KeepsScreens
  <2> DEFINE v == NextVc(direction)
  <2>1. v \in VC /\ vc[v].open
    BY NextVcIs
  <2>2. SwitchTo(v) /\ strokes' \in Nat
    BY <1>6 DEF PressLeftRight, Stroke, DisplayInv
  <2> HIDE DEF v
  <2> QED
    BY <2>1, <2>2, SwitchKeeps
<1>7. ASSUME NEW ch \in Typed, PressChar(ch)
      PROVE  DisplayInv' /\ KeepsScreens
  <2>1. PICK X : ShapedBy(X) /\ "cr" \in X /\ "nl" \in X /\ ch \in X
    BY <1>2
  <2>2. EchoOf(ch) \in Seq(X)
    BY <2>1 DEF EchoOf
  <2>3. Stroke /\ Shows(PrintAll(Display, current, EchoOf(ch)))
    BY <1>7 DEF PressChar, Echoed
  <2> QED
    BY <2>1, <2>2, <2>3, MessageKeeps
<1>8. CASE PressErase
  <2>1. PICK X : ShapedBy(X) /\ "bs" \in X /\ Space \in X
    BY <1>2
  <2> DEFINE chars == <<"bs", Space, "bs">>
  <2>2. chars \in Seq(X)
    BY <2>1
  <2>3. Stroke /\ Shows(PrintAll(Display, current, chars))
    BY Zenon, <1>8 DEF PressErase, Echoed, Space
  <2> HIDE DEF chars
  <2> QED
    BY <2>1, <2>2, <2>3, MessageKeeps
<1>9. CASE PressArrow
  <2>1. PICK X : ShapedBy(X) /\ "e" \in X
    BY <1>2
  <2>2. <<"e", "e", "e">> \in Seq(X)
    BY <2>1
  <2>3. Stroke /\ Shows(PrintAll(Display, current, <<"e", "e", "e">>))
    BY <1>9 DEF PressArrow
  <2> QED
    BY <2>1, <2>2, <2>3, MessageKeeps
<1>10. CASE KernelMessage
  <2>1. PICK X : ShapedBy(X) /\ "k" \in X /\ "cr" \in X /\ "nl" \in X
    BY <1>2
  <2>2. <<"k", "cr", "nl">> \in Seq(X)
    BY <2>1
  <2>3. Stroke /\ Shows(PrintAll(Display, 0, <<"k", "cr", "nl">>))
    BY <1>10 DEF KernelMessage
  <2> QED
    BY <2>1, <2>2, <2>3, MessageKeeps
<1> QED
  BY <1>3, <1>4, <1>5, <1>6, <1>7, <1>8, <1>9, <1>10 DEF Keyboard

LEMMA ProcessKeepsScreens ==
  ASSUME DisplayInv, NEW p \in Writer, Process(p)
  PROVE  DisplayInv' /\ KeepsScreens
<1> DEFINE Quiet == UNCHANGED display /\ strokes' \in Nat
<1>1. ASSUME NEW v \in VC, Open(p, v)
      PROVE  Quiet
  BY <1>1 DEF Open, bounds, DisplayInv
<1>2. CASE NotInitialised(p) \/ Close(p) \/ WriteToNull(p)
  <2> Quiet
    BY <1>2 DEF NotInitialised, Close, WriteToNull, bounds, DisplayInv
  <2> QED
    BY QuietDisplay
<1>3. CASE Write(p) \/ Start(p) \/ CallWrite(p)
  <2> Quiet
    BY <1>3 DEF Write, Start, CallWrite, bounds, DisplayInv
  <2> QED
    BY QuietDisplay
<1>4. CASE ConvertNewline(p) \/ Convert(p) \/ CheckOutput(p)
  <2> Quiet
    BY <1>4 DEF ConvertNewline, Convert, CheckOutput, bounds, DisplayInv
  <2> QED
    BY QuietDisplay
<1>5. CASE Initialised(p)
  BY <1>5, InitialisedKeepsScreens
<1>6. CASE LockVc(p) \/ UnlockVc(p)
  BY <1>6, LockingKeeps
<1>7. CASE PrintSteps(p)
  BY <1>7, PrintingKeeps
<1> QED
  BY <1>1, <1>2, <1>3, <1>4, <1>5, <1>6, <1>7, QuietDisplay DEF Process

LEMMA ScreensNext ==
  ASSUME DisplayInv, [ConsoleNext]_consoleVars
  PROVE  DisplayInv' /\ [KeepsScreens]_consoleVars
<1>1. CASE UNCHANGED consoleVars
  <2>1. UNCHANGED display /\ strokes' \in Nat
    BY <1>1 DEF consoleVars, bounds, DisplayInv
  <2> QED
    BY <1>1, <2>1, QuietDisplay
<1>2. CASE ConsoleNext
  BY <1>2, InterruptKeepsScreens, ProcessKeepsScreens DEF ConsoleNext
<1> QED
  BY <1>1, <1>2

LEMMA ScreensInit == ConsoleInit => DisplayInv
<1> SUFFICES ASSUME ConsoleInit PROVE DisplayInv
  OBVIOUS
<1> DEFINE X == {Space}
<1>1. Blank \in [Cell -> X]
  BY Zenon DEF Blank, Space
<1>2. NoVc \in Consoles(X) /\ NewVc \in Consoles(X) /\ NewVc.open
  BY <1>1 DEF NoVc, NewVc, Consoles
<1>3. vc = [v \in VC |-> IF v = 0 THEN NewVc ELSE NoVc] /\ current = 0
      /\ video = Blank /\ hwcursor = 0 /\ strokes = 0
  BY Zenon DEF ConsoleInit
<1>4. vc \in [VC -> Consoles(X)] /\ vc[current].open
  BY <1>2, <1>3, SizesAre
<1>5. Display \in Displays(X)
  BY <1>1, <1>3, <1>4, SizesAre DEF Display, Displays
<1>6. ShapedBy(X)
  BY <1>5 DEF ShapedBy
<1> QED
  BY <1>3, <1>4, <1>6 DEF DisplayInv

\* For any number of processes and consoles of any size: whatever comes between
\* the steps of a printchar(), a screen changes only by what is printed to its
\* console, but for a character whose console was taken from under it and a console
\* that two processes open for the first time (pccon_video.c, pccon_keyb.c).
THEOREM SwitchesKeepScreens ==
  ConsoleSpec => ScreensKept
<1>1. DisplayInv /\ [ConsoleNext]_consoleVars => DisplayInv'
  BY ScreensNext
<1>2. DisplayInv /\ [ConsoleNext]_consoleVars => [KeepsScreens]_consoleVars
  BY ScreensNext
<1> QED
  BY ScreensInit, <1>1, <1>2, PTL DEF ConsoleSpec, ScreensKept, KeepsScreens

=============================================================================
