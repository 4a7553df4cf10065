------------------------------ MODULE Terminal ------------------------------
(***************************************************************************)
(* The input side of kern/terminal.c: a ring of characters that the        *)
(* keyboard interrupt fills and processes empty, a line at a time          *)
(* (canonical mode) or as they come (raw).  An ioctl of another process    *)
(* may change the mode at any time.                                        *)
(*                                                                         *)
(* terminal_add_to_inputbuf() runs in an interrupt: it is a step.  The     *)
(* canonical branch of terminal_read() has interrupts disabled between     *)
(* its sleeps; the raw branch has not, so each access to the ring that an  *)
(* interrupt or another process can come between is a step.                *)
(*                                                                         *)
(* A character is an ordinary one or one that ends a line (newline, VEOF,  *)
(* VEOL).  Left out: the translations before the character is looked at,   *)
(* echo and the output side, and IGNCR, under which every character is     *)
(* ignored.                                                                *)
(***************************************************************************)
EXTENDS Integers, Sequences, FiniteSets

CONSTANTS Reader,
          Ordinary, LineEnd,    \* characters
          MAX_INPUT,
          Lengths               \* the maxlen of calls of terminal_read()

ASSUME TerminalAssumption ==
    /\ MAX_INPUT \in Nat \ {0, 1} /\ Lengths \subseteq Nat
    /\ Ordinary \cap LineEnd = {} /\ LineEnd # {}

Char == Ordinary \cup LineEnd

VARIABLES inputbuf, inputhead, inputtail,
          icanon, ixon,         \* flags of termio
          pc,                   \* where in terminal_read() a process is
          maxlen,               \* .. and how much it may still read
          taken,                \* not in the code: what this step read
          halt                  \* why nothing is modelled from here on

ring  == <<inputbuf, inputhead, inputtail>>
flags == <<icanon, ixon>>
vars  == <<ring, flags, pc, maxlen, taken, halt>>

Index == 0..(MAX_INPUT - 1)

Init ==
    /\ inputbuf \in [Index -> LineEnd] /\ inputhead = 0 /\ inputtail = 0
    /\ icanon = TRUE /\ ixon = FALSE
    /\ pc = [r \in Reader |-> "user"]
    /\ maxlen = [r \in Reader |-> 0]
    /\ taken = <<>> /\ halt = ""

Halt(why) ==
    /\ halt' = why /\ taken' = <<>>
    /\ UNCHANGED <<ring, flags, pc, maxlen>>

(***************************************************************************)
(* The characters in the ring, oldest first.  Between the two statements   *)
(* that move it on, inputtail may be MAX_INPUT.                            *)
(***************************************************************************)
Wrapped(i) == IF i >= MAX_INPUT THEN 0 ELSE i

Used == (inputhead - Wrapped(inputtail)) % MAX_INPUT

Unread == [i \in 1..Used |-> inputbuf[(Wrapped(inputtail) + i - 1) % MAX_INPUT]]

Ends(s) == {i \in 1..Len(s) : s[i] \in LineEnd}

(***************************************************************************)
(* terminal_add_to_inputbuf()                                              *)
(***************************************************************************)
WakesRaw(c) == ~icanon                                  \* mutant

Wakes(c) == ~icanon \/ c \in LineEnd

WakesTo(state) ==
    CASE state = "asleep_line" -> "line"
      [] state = "asleep_raw"  -> "copy"
      [] OTHER                 -> state

Full(next) == next = inputtail

\* Wakes first, stores afterwards; with IXON nothing is stored at all.
TypeChar(c) ==
    LET next == Wrapped(inputhead + 1)
    IN  /\ pc' = IF Wakes(c) THEN [r \in Reader |-> WakesTo(pc[r])] ELSE pc
        /\ taken' = <<>>
        /\ UNCHANGED <<inputtail, flags, maxlen, halt>>
        /\ IF ixon \/ Full(next)
             THEN UNCHANGED <<inputbuf, inputhead>>
             ELSE /\ next # Wrapped(inputtail)
                  /\ inputbuf' = [inputbuf EXCEPT ![inputhead] = c]
                  /\ inputhead' = next

\* The ring is full but does not look so, because inputtail is MAX_INPUT just
\* now: with this character it will look empty.
Overrun ==
    LET next == Wrapped(inputhead + 1)
    IN  /\ ~ixon /\ ~Full(next) /\ next = Wrapped(inputtail)
        /\ Halt("overrun")

\* The character before position h may be taken back.
ErasableAny(h) == h # inputtail /\ h > 0                \* mutant

Erasable(h) == h # inputtail /\ h > 0 /\ inputbuf[h - 1] \notin LineEnd

ErasedTo(all) ==
    IF ~all THEN inputhead - 1
    ELSE CHOOSE h \in 0..inputhead :
            /\ \A i \in (h + 1)..inputhead : Erasable(i)
            /\ ~Erasable(h)

\* VERASE and VKILL, in canonical mode (in raw mode they are ordinary characters).
EraseChars(all) ==
    /\ icanon
    /\ inputhead' = IF Erasable(inputhead) THEN ErasedTo(all) ELSE inputhead
    /\ taken' = <<>>
    /\ UNCHANGED <<inputbuf, inputtail, flags, pc, maxlen, halt>>

\* At position 0 the code looks at inputbuf[-1], the index being unsigned: a byte
\* of pgrp, which may or may not look like the end of a line.  If not, inputhead
\* leaves the ring.
EraseAtZero(all) ==
    /\ icanon
    /\ LET h == IF all /\ Erasable(inputhead) THEN ErasedTo(all) ELSE inputhead
       IN  h = 0 /\ h # inputtail
    /\ Halt("head_lost")

(***************************************************************************)
(* terminal_read(), canonical                                              *)
(***************************************************************************)
Read(r, n) ==
    /\ pc[r] = "user"
    /\ pc' = [pc EXCEPT ![r] = IF icanon THEN "line"
                               ELSE IF inputtail = inputhead THEN "empty" ELSE "copy"]
    /\ maxlen' = [maxlen EXCEPT ![r] = n]
    /\ taken' = <<>>
    /\ UNCHANGED <<ring, flags, halt>>

LineLength == CHOOSE n \in Ends(Unread) : \A m \in Ends(Unread) : n <= m

AtMost(m, n) == IF m < n THEN m ELSE n

ReadLine(r) ==
    /\ pc[r] = "line" /\ inputtail \in Index
    /\ Ends(Unread) # {} /\ maxlen[r] > 0
    /\ LET n == AtMost(LineLength, maxlen[r])
       IN  /\ taken' = SubSeq(Unread, 1, n)
           /\ inputtail' = (inputtail + n) % MAX_INPUT
    /\ pc' = [pc EXCEPT ![r] = "user"]
    /\ maxlen' = [maxlen EXCEPT ![r] = 0]
    /\ UNCHANGED <<inputbuf, inputhead, flags, halt>>

SleepForLine(r) ==
    /\ pc[r] = "line" /\ inputtail \in Index /\ Ends(Unread) = {}
    /\ pc' = [pc EXCEPT ![r] = "asleep_line"]
    /\ taken' = <<>>
    /\ UNCHANGED <<ring, flags, maxlen, halt>>

\* A line and no room for any of it: the loop goes on, with interrupts disabled.
Spins(r) ==
    /\ pc[r] = "line" /\ inputtail \in Index
    /\ Ends(Unread) # {} /\ maxlen[r] = 0
    /\ Halt("spins")

\* inputbuf[MAX_INPUT] is read while a raw reader is about to wrap inputtail.
ReadsOutside(r) ==
    /\ pc[r] \in {"line", "take"} /\ inputtail \notin Index
    /\ Halt("outside")

(***************************************************************************)
(* terminal_read(), raw                                                    *)
(***************************************************************************)
SleepForChar(r) ==
    /\ pc[r] = "empty"
    /\ pc' = [pc EXCEPT ![r] = "asleep_raw"]
    /\ taken' = <<>>
    /\ UNCHANGED <<ring, flags, maxlen, halt>>

\* A signal ends a sleep too.
Signal(r) ==
    /\ pc[r] \in {"asleep_line", "asleep_raw"}
    /\ pc' = [pc EXCEPT ![r] = WakesTo(@)]
    /\ taken' = <<>>
    /\ UNCHANGED <<ring, flags, maxlen, halt>>

CopyLoop(r) ==
    /\ pc[r] = "copy"
    /\ IF maxlen[r] = 0 \/ inputtail = inputhead
         THEN /\ pc' = [pc EXCEPT ![r] = "user"]
              /\ maxlen' = [maxlen EXCEPT ![r] = 0]
         ELSE pc' = [pc EXCEPT ![r] = "take"] /\ UNCHANGED maxlen
    /\ taken' = <<>>
    /\ UNCHANGED <<ring, flags, halt>>

Take(r) ==
    /\ pc[r] = "take" /\ inputtail \in Index
    /\ Used > 0
    /\ taken' = <<inputbuf[inputtail]>>
    /\ inputtail' = inputtail + 1
    /\ pc' = [pc EXCEPT ![r] = "wrap"]
    /\ UNCHANGED <<inputbuf, inputhead, flags, maxlen, halt>>

\* What was seen in the loop is gone (another reader, or an erase after a change of
\* mode), or two readers move inputtail on at a time: neither is defined.
TakeRaces(r) ==
    /\ pc[r] = "take" /\ inputtail \in Index
    /\ Used = 0 \/ \E q \in Reader \ {r} : pc[q] = "take"
    /\ Halt("race")

Wrap(r) ==
    /\ pc[r] = "wrap"
    /\ inputtail' = Wrapped(inputtail)
    /\ pc' = [pc EXCEPT ![r] = "copy"]
    /\ maxlen' = [maxlen EXCEPT ![r] = @ - 1]
    /\ taken' = <<>>
    /\ UNCHANGED <<inputbuf, inputhead, flags, halt>>

(***************************************************************************)
(* pccon_ioctl(), TIOCSETA                                                 *)
(***************************************************************************)
SetTermio(canon, xon) ==
    /\ icanon' = canon /\ ixon' = xon /\ taken' = <<>>
    /\ UNCHANGED <<ring, pc, maxlen, halt>>

Next ==
    /\ halt = ""
    /\ \/ \E c \in Char : TypeChar(c)
       \/ Overrun
       \/ \E all \in BOOLEAN : EraseChars(all) \/ EraseAtZero(all)
       \/ \E r \in Reader :
             \/ \E n \in Lengths : Read(r, n)
             \/ ReadLine(r) \/ SleepForLine(r) \/ Spins(r) \/ ReadsOutside(r)
             \/ SleepForChar(r) \/ Signal(r)
             \/ CopyLoop(r) \/ Take(r) \/ TakeRaces(r) \/ Wrap(r)
       \/ \E canon, xon \in BOOLEAN : SetTermio(canon, xon)

Spec == Init /\ [][Next]_vars

-----------------------------------------------------------------------------
TypeOK ==
    /\ inputbuf \in [Index -> Char]
    /\ inputhead \in Index /\ inputtail \in 0..MAX_INPUT
    /\ icanon \in BOOLEAN /\ ixon \in BOOLEAN
    /\ pc \in [Reader -> {"user", "line", "asleep_line", "empty", "asleep_raw",
                          "copy", "take", "wrap"}]
    /\ maxlen \in [Reader -> Nat]
    /\ halt \in {"", "overrun", "head_lost", "spins", "outside", "race"}

\* No lost wakeup in canonical mode: a process asleep for a line has none to read,
\* whatever mode changes, signals and other readers there were.
LineReaderMissesNothing ==
    /\ TypeOK
    /\ \A r \in Reader : pc[r] = "asleep_line" => Ends(Unread) = {}

\* The ring is a queue: it loses, doubles and swaps no character over wraps and
\* erases, and an erase stops at the end of the line before.
T == INSTANCE Tty WITH input <- Unread, Capacity <- MAX_INPUT - 1
ImplementsTty == T!Spec
=============================================================================
