------------------------------ MODULE Console ------------------------------
(***************************************************************************)
(* The output side of a terminal (terminal_write() of kern/terminal.c) and *)
(* the virtual consoles it ends on: pccon.c, pccon_video.c, pccon_keyb.c.  *)
(*                                                                         *)
(* A process converts its text into the outputbuf of the terminal, locks   *)
(* the console and prints it, all with interrupts enabled: each access to  *)
(* what an interrupt or another process may change is a step.  The         *)
(* keyboard interrupt echoes, toggles locks and switches consoles between  *)
(* any two of them, without taking any lock; printk() does the same from   *)
(* anywhere.  Both are one step.                                           *)
(*                                                                         *)
(* A character is one with a meaning for printchar() or one that is shown. *)
(* Left out: colours, the translation of scancodes to characters and the   *)
(* modifiers it depends on, the input ring (module Terminal), flags other  *)
(* than OPOST, ONLCR and ECHO, and the memory behind the last line of a    *)
(* screen.  Writing to the display's or the keyboard's registers is one    *)
(* step.  A key that switches consoles comes with its modifiers held:      *)
(* without them it changes nothing, or types an arrow.                     *)
(***************************************************************************)
EXTENDS Integers, Sequences, FiniteSets

CONSTANTS Writer,
          Texts,                \* Texts[p]: what process p may write
          Opens,                \* <<p, v>>: p uses console v
          Screens,              \* MAX_NR_OF_VCS
          NRows, NCols, Tab,
          MAX_OUTPUT, OUTPUT_MARGIN,
          Typed,                \* characters on the keys
          LockKey,              \* the lock keys there are
          MaxWrites, MaxStrokes,   \* bounds
          Null

VC == 0..(Screens - 1)

ASSUME ConsoleAssumption ==
    /\ {Screens, NRows, NCols, Tab, MAX_OUTPUT, OUTPUT_MARGIN} \subseteq Nat \ {0}
    /\ OUTPUT_MARGIN < MAX_OUTPUT
    /\ LockKey \subseteq {"numlock", "scrolllock", "capslock"}
    /\ Opens \subseteq Writer \X VC

VARIABLES vc,           \* pccon_vc
          current,      \* pccon_current_vc
          video,        \* the video memory
          hwcursor, leds,
          keypressed,   \* pccon_keypressed, of the lock keys
          out,          \* outputbuf and outputlen of the termstate of each console
          refcount,     \* of the device of each console
          job,          \* where each process is
          halted,       \* the machine has followed a NULL pointer
          writes, strokes       \* bounds

display == <<vc, current, video, hwcursor>>
bounds  == <<writes, strokes>>
consoleVars == <<display, leds, keypressed, out, refcount, job, halted, bounds>>

Cell  == 0..((NRows * NCols) - 1)
Blank == [i \in Cell |-> " "]

NoVc  == [open |-> FALSE, cells |-> Blank, cursor_row |-> 0, cursor_column |-> 0,
          lockmode |-> {}, lock |-> Null]
NewVc == [NoVc EXCEPT !.open = TRUE]

Idle == [at |-> "idle", v |-> 0, text |-> <<>>, done |-> 0, len |-> 0, k |-> 1,
         spaces |-> 0, ch |-> " ", inVideo |-> FALSE]

ConsoleInit ==
    /\ vc = [v \in VC |-> IF v = 0 THEN NewVc ELSE NoVc]
    /\ current = 0 /\ video = Blank /\ hwcursor = 0
    /\ leds = {} /\ keypressed = {}
    /\ out = [v \in VC |-> [buf |-> [i \in 1..MAX_OUTPUT |-> " "], len |-> 0]]
    /\ refcount = [v \in VC |-> 0]
    /\ job = [p \in Writer |-> Idle]
    /\ halted = FALSE
    /\ writes = [p \in Writer |-> 0] /\ strokes = 0

\* What the user would see of a console.
Screen(v) == IF v = current THEN video ELSE vc[v].cells

(***************************************************************************)
(* printchar() in parts; s is the display, [vc, current, video, hwcursor]  *)
(***************************************************************************)
Display == [vc |-> vc, current |-> current, video |-> video, hwcursor |-> hwcursor]

Shows(s) ==
    /\ vc' = s.vc /\ current' = s.current
    /\ video' = s.video /\ hwcursor' = s.hwcursor

\* "cc": the video memory or the cells of the console.
InVideo(s, v) == v = s.current

SetCells(s, v, inVideo, cells) ==
    IF inVideo THEN [s EXCEPT !.video = cells] ELSE [s EXCEPT !.vc[v].cells = cells]

CellsOf(s, v, inVideo) == IF inVideo THEN s.video ELSE s.vc[v].cells

CursorAt(s, v, row, col) ==
    IF v = s.current THEN [s EXCEPT !.hwcursor = (row * NCols) + col] ELSE s

\* Set at the end of a printchar(); in the last column after a shown character only.
CursorFollows(s, v) == CursorAt(s, v, s.vc[v].cursor_row, s.vc[v].cursor_column)

CursorFollowsChar(s, v) ==
    LET col == s.vc[v].cursor_column
    IN  CursorAt(s, v, s.vc[v].cursor_row, IF col = NCols THEN col - 1 ELSE col)

ClearedIn(s, v, inVideo) ==
    LET t == [SetCells(s, v, inVideo, Blank) EXCEPT
                !.vc[v].cursor_row = 0, !.vc[v].cursor_column = 0]
    IN  CursorAt(t, v, 0, 0)

LineUp(cells) ==
    [i \in Cell |-> IF i + NCols \in Cell THEN cells[i + NCols] ELSE " "]

\* pccon_checkscroll(), which looks for itself where the screen is.
ScrollsVideo(s, v) ==                                           \* mutant
    IF s.vc[v].cursor_row < NRows THEN s
    ELSE SetCells([s EXCEPT !.vc[v].cursor_row = NRows - 1],
                  v, TRUE, LineUp(CellsOf(s, v, TRUE)))

CheckScroll(s, v) ==
    IF s.vc[v].cursor_row < NRows THEN s
    ELSE SetCells([s EXCEPT !.vc[v].cursor_row = NRows - 1],
                  v, InVideo(s, v), LineUp(CellsOf(s, v, InVideo(s, v))))

Down(s, v)    == [s EXCEPT !.vc[v].cursor_row = @ + 1]
NextLine(s, v)    == [Down(s, v) EXCEPT !.vc[v].cursor_column = 0]
Advance(s, v) == [s EXCEPT !.vc[v].cursor_column = @ + 1]
AtEdge(s, v)  == s.vc[v].cursor_column >= NCols

Store(s, v, inVideo, ch) ==
    LET i == (NCols * s.vc[v].cursor_row) + s.vc[v].cursor_column
    IN  IF i \in Cell
          THEN SetCells(s, v, inVideo, [CellsOf(s, v, inVideo) EXCEPT ![i] = ch])
          ELSE s

\* The characters that only move the cursor or clear the screen.
Moved(s, v, ch) ==
    CASE ch = "bs" -> CursorFollows([s EXCEPT !.vc[v].cursor_column =
                                        IF @ > 0 THEN @ - 1 ELSE 0], v)
      [] ch = "cr" -> CursorFollows([s EXCEPT !.vc[v].cursor_column = 0], v)
      [] ch = "bel" -> s

Shown(ch) == ch \notin {"bel", "bs", "ff", "nl", "cr", "tab"}

Spaces(s, v) == Tab - (s.vc[v].cursor_column % Tab)

PrintShown(s, v, ch) ==
    LET inVideo == InVideo(s, v)
        t == IF AtEdge(s, v) THEN CheckScroll(NextLine(s, v), v) ELSE s
    IN  CursorFollowsChar(Advance(Store(t, v, inVideo, ch), v), v)

PrintSpaces(s, v) ==
    LET printed[i \in 0..Spaces(s, v)] ==
            IF i = 0 THEN s ELSE PrintShown(printed[i-1], v, " ")
    IN  printed[Spaces(s, v)]

\* All of printchar(), for who has interrupts disabled.
PrintChar(s, v, ch) ==
    CASE Shown(ch)  -> PrintShown(s, v, ch)
      [] ch = "nl"  -> CursorFollows(CheckScroll(Down(s, v), v), v)
      [] ch = "ff"  -> ClearedIn(s, v, InVideo(s, v))
      [] ch = "tab"  -> PrintSpaces(s, v)
      [] OTHER      -> Moved(s, v, ch)

PrintAll(s, v, chars) ==
    LET printed[i \in 0..Len(chars)] ==
            IF i = 0 THEN s ELSE PrintChar(printed[i-1], v, chars[i])
    IN  printed[Len(chars)]

(***************************************************************************)
(* Opening, closing and asking                                             *)
(***************************************************************************)
Runs(p, at) == ~halted /\ job[p].at = at

Goes(p, at) == job' = [job EXCEPT ![p].at = at]

Open(p, v) ==
    /\ Runs(p, "idle") /\ <<p, v>> \in Opens /\ refcount[v] < Cardinality(Writer)
    /\ IF vc[v].open
         THEN /\ refcount' = [refcount EXCEPT ![v] = @ + 1]
              /\ job' = [job EXCEPT ![p] = [Idle EXCEPT !.at = "opened", !.v = v]]
         ELSE /\ job' = [job EXCEPT ![p] = [Idle EXCEPT !.at = "init", !.v = v]]
              /\ UNCHANGED refcount
    /\ UNCHANGED <<display, leds, keypressed, out, halted, bounds>>

LedsOf(s) == s.vc[s.current].lockmode

\* pccon_vc_init() allocates and sets the LEDs; then the console takes its place,
\* also if another process opened it in the meantime.
Initialised(p) ==
    /\ Runs(p, "init")
    /\ LET v == job[p].v
       IN  /\ vc' = [vc EXCEPT ![v] = NewVc]
           /\ out' = [out EXCEPT ![v].len = 0]
           /\ refcount' = [refcount EXCEPT ![v] = @ + 1]
    /\ leds' = LedsOf(Display)
    /\ Goes(p, "opened")
    /\ UNCHANGED <<current, video, hwcursor, keypressed, halted, bounds>>

\* pccon_vc_init() finds no memory: NULL takes its place and the open succeeds.
\* The machine is lost when a console that another process has just opened goes,
\* or when the process goes on to write.
NotInitialised(p) ==
    /\ Runs(p, "init")
    /\ halted' = vc[job[p].v].open
    /\ refcount' = [refcount EXCEPT ![job[p].v] = @ + 1]
    /\ Goes(p, "opened")
    /\ UNCHANGED <<display, leds, keypressed, out, bounds>>

WriteToNull(p) ==
    /\ Runs(p, "opened") /\ ~vc[job[p].v].open
    /\ halted' = TRUE
    /\ UNCHANGED <<display, leds, keypressed, out, refcount, job, bounds>>

Close(p) ==
    /\ Runs(p, "opened") /\ refcount[job[p].v] > 0
    /\ refcount' = [refcount EXCEPT ![job[p].v] = @ - 1]
    /\ job' = [job EXCEPT ![p] = Idle]
    /\ UNCHANGED <<display, leds, keypressed, out, halted, bounds>>

(***************************************************************************)
(* pccon_write() and terminal_write()                                      *)
(***************************************************************************)
Left(p) == Len(job[p].text) - job[p].done

Write(p) ==
    /\ Runs(p, "opened") /\ vc[job[p].v].open /\ writes[p] < MaxWrites
    /\ writes' = [writes EXCEPT ![p] = @ + 1]
    /\ \E text \in Texts[p] : job' = [job EXCEPT ![p].at = "start", ![p].text = text, ![p].done = 0]
    /\ UNCHANGED <<display, leds, keypressed, out, refcount, halted, strokes>>

\* The loop of pccon_write(), and the first statements of terminal_write().
Start(p) ==
    /\ Runs(p, "start")
    /\ IF Left(p) = 0
         THEN /\ job' = [job EXCEPT ![p] = [Idle EXCEPT !.at = "opened", !.v = job[p].v]]
              /\ UNCHANGED out
         ELSE Goes(p, "convert") /\ out' = [out EXCEPT ![job[p].v].len = 0]
    /\ UNCHANGED <<display, leds, keypressed, refcount, halted, bounds>>

\* outputbuf[outputlen++] = ch
Append1(o, ch) ==
    [buf |-> IF o.len < MAX_OUTPUT THEN [o.buf EXCEPT ![o.len + 1] = ch] ELSE o.buf,
     len |-> o.len + 1]

NextChar(p) == job[p].text[job[p].done + 1]

\* A newline becomes two characters, one after the other.
ConvertNewline(p) ==
    /\ Runs(p, "convert") /\ Left(p) > 0 /\ NextChar(p) = "nl"
    /\ out' = [out EXCEPT ![job[p].v] = Append1(@, "cr")]
    /\ Goes(p, "append")
    /\ UNCHANGED <<display, leds, keypressed, refcount, halted, bounds>>

AlmostFullForOne(o) == o.len > MAX_OUTPUT - 2                   \* mutant

AlmostFull(o) == o.len >= MAX_OUTPUT - OUTPUT_MARGIN

Convert(p) ==
    /\ \/ Runs(p, "convert") /\ Left(p) > 0 /\ NextChar(p) # "nl"
       \/ Runs(p, "append")
    /\ out' = [out EXCEPT ![job[p].v] = Append1(@, NextChar(p))]
    /\ job' = [job EXCEPT ![p].at = "check", ![p].done = @ + 1]
    /\ UNCHANGED <<display, leds, keypressed, refcount, halted, bounds>>

\* A buffer that is almost full goes back without a call of ts->write: what is
\* in it is not shown.
CheckOutput(p) ==
    /\ Runs(p, "check")
    /\ Goes(p, IF AlmostFull(out[job[p].v]) THEN "start" ELSE "convert")
    /\ UNCHANGED <<display, leds, keypressed, out, refcount, halted, bounds>>

CallWrite(p) ==
    /\ Runs(p, "convert") /\ Left(p) = 0
    /\ job' = [job EXCEPT ![p].at = "lock", ![p].len = out[job[p].v].len, ![p].k = 1]
    /\ UNCHANGED <<display, leds, keypressed, out, refcount, halted, bounds>>

(***************************************************************************)
(* pccon_termwrite(), for a process                                        *)
(***************************************************************************)
LockVc(p) ==
    /\ Runs(p, "lock") /\ vc[job[p].v].lock = Null
    /\ vc' = [vc EXCEPT ![job[p].v].lock = p]
    /\ Goes(p, "print")
    /\ UNCHANGED <<current, video, hwcursor, leds, keypressed, out, refcount, halted, bounds>>

UnlockVc(p) ==
    /\ Runs(p, "print") /\ job[p].k > job[p].len /\ job[p].spaces = 0
    /\ vc' = [vc EXCEPT ![job[p].v].lock = Null]
    /\ job' = [job EXCEPT ![p].at = "start", ![p].len = 0, ![p].k = 1]
    /\ UNCHANGED <<current, video, hwcursor, leds, keypressed, out, refcount, halted, bounds>>

\* The character to print: a space of a tab, or the next one of outputbuf as it
\* is by now.
Printing(p) == IF job[p].spaces > 0 THEN " " ELSE out[job[p].v].buf[job[p].k]

HasMore(p) == job[p].spaces > 0 \/ job[p].k <= job[p].len

Printed(j) == [j EXCEPT !.at = "print", !.inVideo = FALSE, !.ch = " ",
                        !.spaces = IF @ > 0 THEN @ - 1 ELSE 0,
                        !.k = IF j.spaces > 0 THEN @ ELSE @ + 1]

PrintsOn(p, s, at) ==
    /\ Shows(s) /\ Goes(p, at)
    /\ UNCHANGED <<leds, keypressed, out, refcount, halted, bounds>>

PrintsLast(p, s) ==
    /\ Shows(s) /\ job' = [job EXCEPT ![p] = Printed(@)]
    /\ UNCHANGED <<leds, keypressed, out, refcount, halted, bounds>>

\* Characters that are one access to the cursor (and one to the display).
Move(p) ==
    /\ Runs(p, "print") /\ HasMore(p) /\ Printing(p) \in {"bel", "bs", "cr"}
    /\ PrintsLast(p, Moved(Display, job[p].v, Printing(p)))

ClearScreen(p) ==
    /\ Runs(p, "print") /\ HasMore(p) /\ Printing(p) = "ff"
    /\ job' = [job EXCEPT ![p].at = "clear", ![p].inVideo = InVideo(Display, job[p].v)]
    /\ UNCHANGED <<display, leds, keypressed, out, refcount, halted, bounds>>

Cleared(p) ==
    /\ Runs(p, "clear")
    /\ PrintsLast(p, ClearedIn(Display, job[p].v, job[p].inVideo))

TabStop(p) ==
    /\ Runs(p, "print") /\ HasMore(p) /\ Printing(p) = "tab"
    /\ job' = [job EXCEPT ![p].spaces = Spaces(Display, job[p].v), ![p].k = @ + 1]
    /\ UNCHANGED <<display, leds, keypressed, out, refcount, halted, bounds>>

NewLine(p) ==
    /\ Runs(p, "print") /\ HasMore(p) /\ Printing(p) = "nl"
    /\ PrintsOn(p, Down(Display, job[p].v), "scroll")

NewLineScroll(p) ==
    /\ Runs(p, "scroll")
    /\ PrintsOn(p, CheckScroll(Display, job[p].v), "follow")

NewLineCursor(p) ==
    /\ Runs(p, "follow")
    /\ PrintsLast(p, CursorFollows(Display, job[p].v))

\* A character that is shown is passed by value, and where it goes is decided first, ..
PrintShownAt(p) ==
    /\ Runs(p, "print") /\ HasMore(p) /\ Shown(Printing(p))
    /\ job' = [job EXCEPT ![p].at = IF AtEdge(Display, job[p].v) THEN "wrap" ELSE "store",
                          ![p].ch = Printing(p), ![p].inVideo = InVideo(Display, job[p].v)]
    /\ UNCHANGED <<display, leds, keypressed, out, refcount, halted, bounds>>

WrapLine(p) ==
    /\ Runs(p, "wrap")
    /\ PrintsOn(p, NextLine(Display, job[p].v), "wrapscroll")

WrapScroll(p) ==
    /\ Runs(p, "wrapscroll")
    /\ PrintsOn(p, CheckScroll(Display, job[p].v), "store")

\* .. where in it, when it is stored.
StoreChar(p) ==
    /\ Runs(p, "store")
    /\ PrintsOn(p, Store(Display, job[p].v, job[p].inVideo, job[p].ch), "advance")

AdvanceColumn(p) ==
    /\ Runs(p, "advance")
    /\ PrintsOn(p, Advance(Display, job[p].v), "cursor")

SetCursor(p) ==
    /\ Runs(p, "cursor")
    /\ PrintsLast(p, CursorFollowsChar(Display, job[p].v))

(***************************************************************************)
(* The keyboard interrupt and kernel messages                              *)
(***************************************************************************)
Stroke == ~halted /\ strokes < MaxStrokes /\ strokes' = strokes + 1


Switched(s, v) ==
    IF v = s.current THEN s
    ELSE CursorFollows([s EXCEPT !.vc[s.current].cells = s.video,
                                 !.video = s.vc[v].cells, !.current = v], v)

SwitchTo(v) ==
    LET s == Switched(Display, v)
    IN  /\ Shows(s)
        /\ leds' = IF v = current THEN leds ELSE LedsOf(s)

\* pccon_nextvc(): the next console there is, going round.
NextVc(direction) ==
    LET Away(i) == (current + (i * direction)) % Screens
        I == {i \in 1..Screens : vc[Away(i)].open}
    IN  Away(CHOOSE i \in I : \A j \in I : i <= j)

Toggled(set, k) == (set \ {k}) \cup ({k} \ set)

\* Pressed, and pressed again by the keyboard while it is held.
PressLock(k) ==
    /\ Stroke
    /\ LET mode == IF k \in keypressed THEN vc[current].lockmode
                   ELSE Toggled(vc[current].lockmode, k)
       IN  vc' = [vc EXCEPT ![current].lockmode = mode] /\ leds' = mode
    /\ keypressed' = keypressed \cup {k}
    /\ UNCHANGED <<current, video, hwcursor, out, refcount, job, halted, writes>>

ReleaseLock(k) ==
    /\ ~halted /\ k \in keypressed
    /\ keypressed' = keypressed \ {k}
    /\ UNCHANGED <<display, leds, out, refcount, job, halted, bounds>>

\* The function key of console v, with Ctrl and the left Alt.
PressFkey(v) ==
    /\ Stroke /\ v # current /\ vc[v].open
    /\ SwitchTo(v)
    /\ UNCHANGED <<keypressed, out, refcount, job, halted, writes>>

PressLeftRight(direction) ==
    /\ Stroke
    /\ SwitchTo(NextVc(direction))
    /\ UNCHANGED <<keypressed, out, refcount, job, halted, writes>>

\* terminal_write() with interrupts disabled: outputlen is set back and the
\* console's lock is not looked at.
Filled(o, chars) ==
    [buf |-> [i \in DOMAIN o.buf |-> IF i \in DOMAIN chars THEN chars[i] ELSE o.buf[i]],
     len |-> Len(chars)]

Echoed(chars) ==
    /\ Shows(PrintAll(Display, current, chars))
    /\ out' = [out EXCEPT ![current] = Filled(@, chars)]
    /\ UNCHANGED <<leds, keypressed, refcount, job, halted, writes>>

EchoOf(ch) == IF ch = "nl" THEN <<"cr", "nl">> ELSE <<ch>>

PressChar(ch) ==
    /\ Stroke
    /\ Echoed(EchoOf(ch))

\* VERASE or the delete key, if there is something to erase; shown as it is if not.
PressErase ==
    /\ Stroke
    /\ Echoed(<<"bs", " ", "bs">>)

\* An arrow: three characters, with an echo each.
PressArrow ==
    /\ Stroke
    /\ Shows(PrintAll(Display, current, <<"e", "e", "e">>))
    /\ out' = [out EXCEPT ![current] = Filled(@, <<"e">>)]
    /\ UNCHANGED <<leds, keypressed, refcount, job, halted, writes>>

\* printk(): pccon_slowputs() on console 0.  (panic() also shows console 0, and stops.)
KernelMessage ==
    /\ Stroke
    /\ Shows(PrintAll(Display, 0, <<"k", "cr", "nl">>))
    /\ UNCHANGED <<leds, keypressed, out, refcount, job, halted, writes>>

Keyboard ==
    \/ \E k \in LockKey : PressLock(k) \/ ReleaseLock(k)
    \/ \E v \in VC : PressFkey(v)
    \/ \E direction \in {-1, 1} : PressLeftRight(direction)
    \/ \E ch \in Typed : PressChar(ch)
    \/ PressErase \/ PressArrow

PrintSteps(p) ==
    \/ Move(p) \/ ClearScreen(p) \/ Cleared(p) \/ TabStop(p)
    \/ NewLine(p) \/ NewLineScroll(p) \/ NewLineCursor(p)
    \/ PrintShownAt(p) \/ WrapLine(p) \/ WrapScroll(p)
    \/ StoreChar(p) \/ AdvanceColumn(p) \/ SetCursor(p)

Process(p) ==
    \/ \E v \in VC : Open(p, v)
    \/ Initialised(p) \/ NotInitialised(p) \/ Close(p) \/ WriteToNull(p)
    \/ Write(p) \/ Start(p) \/ ConvertNewline(p) \/ Convert(p) \/ CheckOutput(p)
    \/ CallWrite(p) \/ LockVc(p) \/ PrintSteps(p) \/ UnlockVc(p)

ConsoleNext == Keyboard \/ KernelMessage \/ \E p \in Writer : Process(p)

ConsoleSpec == ConsoleInit /\ [][ConsoleNext]_consoleVars

-----------------------------------------------------------------------------
(***************************************************************************)
(* Properties                                                              *)
(***************************************************************************)

\* Whatever comes between the steps of a printchar(), the screen of a console
\* changes only by what is printed to it: a switch keeps both screens, and scrolling
\* moves the lines of the right one.  The exceptions are a character (or a cleared
\* screen) whose console was taken from under it: decided for the video memory
\* (pccon_video.c:379), stored when another console is shown there (:393); and a
\* console opened for the first time by two processes, the second of which
\* replaces what the first one has printed to (pccon.c:256-257).
PrintsTo(p, v) == job[p].v = v /\ job[p].at \notin {"idle", "opened", "start",
                                                   "convert", "append", "check", "lock"}

Strays(p) == job[p].at \in {"store", "clear"} /\ job[p].inVideo

Message == strokes' # strokes /\ current' = current

ScreensKept ==
    [][\A v \in VC : vc[v].open /\ Screen(v)' # Screen(v) =>
          \/ \E p \in Writer : PrintsTo(p, v) \/ (v = current /\ Strays(p))
          \/ Message /\ v \in {0, current}]_consoleVars

\* Two processes that convert into the outputbuf of one console at a time, while
\* echoes set outputlen back, stay inside of it: each adds at most a CR and a NL
\* after it has looked for room (terminal.c:168-192), and the margin is four. A
\* third writer may exceed it.
OutputbufFits == \A v \in VC : out[v].len <= MAX_OUTPUT

=============================================================================
