-------------------------------- MODULE Disk --------------------------------
(***************************************************************************)
(* Reading blocks: the buffer cache (vfs_block.c) over the floppy driver   *)
(* (fdc.c), its controller, its interrupt and the timer of its motors.     *)
(*                                                                         *)
(* Each mounted file system has a drive, named by the same value; its      *)
(* lock is held over the search of the device, fdc_lock over everything    *)
(* one fdc_read() does.  A command is sent with interrupts enabled, then   *)
(* the driver sleeps for fdc_irqhandler: the interrupt may come before,    *)
(* and a signal may end the sleep without it.                              *)
(*                                                                         *)
(* The controller is external: it finishes a command well or badly.  The   *)
(* contents of a block is the block it was read from.  Writing is left     *)
(* out: no file system calls block_write().                                *)
(***************************************************************************)
EXTENDS Integers, Sequences, FiniteSets

CONSTANTS Proc, Drive,
          NCyls, NHeads, NSec,  \* fdc_nrcyls, fdc_nrheads, fdc_nrsec
          Retries,              \* NR_RETRIES
          Requests,             \* bound: <<p, d, b>>, who reads which block of which drive
          MaxReads, MaxSignals, \* bounds
          DiskAnswers,          \* the result of a read comes while fdc_readdata() polls
          Null

ASSUME DiskAssumption ==
    /\ NCyls \in Nat \ {0} /\ NHeads \in Nat \ {0} /\ NSec \in Nat \ {0}
    /\ Retries \in Nat /\ DiskAnswers \in BOOLEAN
    /\ Requests \subseteq Proc \X Drive \X (0..(NCyls * NHeads * NSec - 1))
    /\ Null \notin Proc \cup (Drive \X Int)

Block == 0..(NCyls * NHeads * NSec - 1)
Cylinder == 0..(NCyls - 1)

VARIABLES entries,      \* entries[d][b]: bcache_entry structs of the block, newest first
          milock,       \* milock[d]: owner of mi->lock
          fdclock,      \* owner of fdc_lock
          status,       \* fdc_drivestatus
          head,         \* head[d]: the cylinder the heads are at
          command,      \* what the controller does, or did last
          dma,          \* the first block of the track at fdc_bufferaddr
          alarm,        \* whether fdc_disablemotors() is on the timer chain
          op,           \* op[p]: where p is in its read
          reads, signals \* bounds: how many there were

hardware == <<head, command, dma>>
bounds   == <<reads, signals>>
vars == <<entries, milock, fdclock, status, alarm, op, hardware, bounds>>

\* r, h: retries and hardretries of fdc_read_sectors(); sr, sh: of the seek.
Idle == [at |-> "idle", d |-> Null, b |-> 0, found |-> FALSE, data |-> Null, doing |-> "",
         r |-> 0, h |-> 0, sr |-> 0, sh |-> 0]

NoCommand == [what |-> "", d |-> Null, cyl |-> 0, start |-> 0, busy |-> FALSE, ok |-> FALSE]

Init ==
    /\ entries = [d \in Drive |-> [b \in Block |-> <<>>]]
    /\ milock = [d \in Drive |-> Null] /\ fdclock = Null
    /\ status = [d \in Drive |-> [motor |-> FALSE, cur_track |-> 0, recalibrate |-> TRUE]]
    /\ head = [d \in Drive |-> NCyls - 1]
    /\ command = NoCommand
    /\ dma = Null /\ alarm = FALSE
    /\ op = [p \in Proc |-> Idle]
    /\ reads = 0 /\ signals = 0

Goto(p, at) == op' = [op EXCEPT ![p].at = at]

(***************************************************************************)
(* fdc_whichsector() and fdc_readtip(): always the whole track.            *)
(***************************************************************************)
Which(b) == [c |-> (b \div NSec) \div NHeads, h |-> (b \div NSec) % NHeads, s |-> (b % NSec) + 1]

Startblock(b) == (NHeads * Which(b).c + Which(b).h) * NSec

(***************************************************************************)
(* buffercache_read() up to the device: the chain is searched before the   *)
(* lock is taken.                                                          *)
(***************************************************************************)
Search(p, d, b) ==
    /\ op[p] = Idle /\ reads < MaxReads
    /\ reads' = reads + 1
    /\ op' = [op EXCEPT ![p] = [Idle EXCEPT !.at = "lock_mi", !.d = d, !.b = b,
                !.found = entries[d][b] # <<>>,
                !.data = IF entries[d][b] = <<>> THEN Null ELSE entries[d][b][1]]]
    /\ UNCHANGED <<entries, milock, fdclock, status, alarm, hardware, signals>>

\* Nothing is asked of the device when there is no memory for the track.
LockMi(p) ==
    LET d == op[p].d
    IN  /\ op[p].at = "lock_mi" /\ milock[d] = Null
        /\ \/ op[p].found /\ Goto(p, "done") /\ milock' = [milock EXCEPT ![d] = p]
           \/ ~op[p].found /\ Goto(p, "lock_fdc") /\ milock' = [milock EXCEPT ![d] = p]
           \/ ~op[p].found /\ op' = [op EXCEPT ![p] = Idle] /\ UNCHANGED milock
        /\ UNCHANGED <<entries, fdclock, status, alarm, hardware, bounds>>

(***************************************************************************)
(* fdc_read_sectors() and fdc_seek_to_cylinder()                           *)
(***************************************************************************)
FreeAnyway == TRUE                                              \* mutant

FdcFree == fdclock = Null

LockFdc(p) ==
    /\ op[p].at = "lock_fdc" /\ FdcFree
    /\ fdclock' = p
    /\ op' = [op EXCEPT ![p] = [@ EXCEPT !.at = "seek", !.r = Retries, !.h = Retries,
                                         !.sr = Retries, !.sh = Retries]]
    /\ UNCHANGED <<entries, milock, status, alarm, hardware, bounds>>

Send(p, what) ==
    /\ command' = [what |-> what, d |-> op[p].d, cyl |-> Which(op[p].b).c,
                   start |-> Startblock(op[p].b), busy |-> TRUE, ok |-> FALSE]
    /\ op' = [op EXCEPT ![p].at = "sent", ![p].doing = what]

Seek(p) ==
    LET d == op[p].d
    IN  /\ op[p].at = "seek"
        /\ IF /\ status[d].motor /\ ~status[d].recalibrate
              /\ status[d].cur_track = Which(op[p].b).c
             THEN Send(p, "read") /\ UNCHANGED status
             ELSE /\ status' = [status EXCEPT ![d].motor = TRUE]
                  /\ Send(p, IF status[d].recalibrate THEN "recalibrate" ELSE "seek")
        /\ UNCHANGED <<entries, milock, fdclock, alarm, head, dma, bounds>>

Sleep(p) ==
    /\ op[p].at = "sent" /\ Goto(p, "asleep")
    /\ UNCHANGED <<entries, milock, fdclock, status, alarm, hardware, bounds>>

\* The controller ends its command, and fdc_irqhandler() wakes who sleeps.
\* A read finds its track only under the right cylinder.
Interrupt ==
    LET d == command.d
        done(ok) == command' = [command EXCEPT !.busy = FALSE, !.ok = ok]
    IN  /\ command.busy
        /\ \/ /\ command.what \in {"seek", "recalibrate"}
              /\ head' = [head EXCEPT ![d] = IF command.what = "seek" THEN command.cyl ELSE 0]
              /\ done(TRUE) /\ UNCHANGED dma
           \/ /\ command.what = "read" /\ head[d] = command.cyl
              /\ dma' = <<d, command.start>> /\ done(TRUE) /\ UNCHANGED head
           \/ done(FALSE) /\ UNCHANGED <<head, dma>>
        /\ op' = [p \in Proc |-> IF op[p].at = "asleep" THEN [op[p] EXCEPT !.at = "woken"] ELSE op[p]]
        /\ UNCHANGED <<entries, milock, fdclock, status, alarm, bounds>>

\* sig_post() wakes the process whatever it sleeps for.
Signal(p) ==
    /\ op[p].at = "asleep" /\ signals < MaxSignals
    /\ signals' = signals + 1 /\ Goto(p, "woken")
    /\ UNCHANGED <<entries, milock, fdclock, status, alarm, hardware, reads>>

\* FDCCMD_SENSE says nothing of the command, only of a drive fault.
Recalibrated(p) ==
    /\ op[p].at = "woken" /\ op[p].doing = "recalibrate"
    /\ \E fault \in BOOLEAN : status' = [status EXCEPT ![op[p].d].recalibrate = fault]
    /\ Send(p, "seek")
    /\ UNCHANGED <<entries, milock, fdclock, alarm, head, dma, bounds>>

RetryForever(r, h) == <<r, h>>                                  \* mutant

\* What is left of retries and hardretries after an error, <<>> for nothing.
Retry(r, h) == IF r > 0 THEN <<r - 1, h>> ELSE IF h > 0 THEN <<Retries, h - 1>> ELSE <<>>

\* The cylinder is the right one; or the status is not that of a seek that
\* ended, as while it goes on; or the cylinder is another.
SeekDone(p) ==
    LET d == op[p].d  c == Which(op[p].b).c  left == Retry(op[p].sr, op[p].sh)
    IN  /\ op[p].at = "woken" /\ op[p].doing = "seek"
        /\ IF ~command.busy /\ command.ok
             THEN IF head[d] = c
                    THEN status' = [status EXCEPT ![d].cur_track = c] /\ Send(p, "read")
                    ELSE Goto(p, "failed") /\ UNCHANGED <<status, command>>
             ELSE /\ status' = [status EXCEPT ![d].recalibrate = @ \/ op[p].sr = 0]
                  /\ op' = [op EXCEPT ![p] = IF left = <<>> THEN [@ EXCEPT !.at = "failed"]
                              ELSE [@ EXCEPT !.at = "seek", !.sr = left[1], !.sh = left[2]]]
                  /\ UNCHANGED command
        /\ UNCHANGED <<entries, milock, fdclock, alarm, head, dma, bounds>>

\* fdc_readdata() polls for the result; given up, it returns zeros, which
\* read as a success.
ReadDone(p) ==
    LET left == Retry(op[p].r, op[p].h)
    IN  /\ op[p].at = "woken" /\ op[p].doing = "read"
        /\ DiskAnswers => ~command.busy
        /\ IF command.busy \/ command.ok
             THEN op' = [op EXCEPT ![p].at = "got", ![p].data = dma] /\ UNCHANGED status
             ELSE /\ status' = [status EXCEPT ![op[p].d].recalibrate = TRUE]
                  /\ op' = [op EXCEPT ![p] = IF left = <<>> THEN [@ EXCEPT !.at = "failed"]
                              ELSE [@ EXCEPT !.at = "seek", !.r = left[1], !.h = left[2],
                                             !.sr = Retries, !.sh = Retries]]
        /\ UNCHANGED <<entries, milock, fdclock, alarm, hardware, bounds>>

(***************************************************************************)
(* The end of fdc_read() and of buffercache_read()                         *)
(***************************************************************************)
UnlockFdc(p) ==
    /\ op[p].at \in {"got", "failed"}
    /\ fdclock' = Null
    /\ command' = IF command.busy THEN command ELSE NoCommand
    /\ op' = [op EXCEPT ![p] = [@ EXCEPT !.at = IF op[p].at = "got" THEN "fill" ELSE "error",
                                         !.doing = "", !.r = 0, !.h = 0, !.sr = 0, !.sh = 0]]
    /\ UNCHANGED <<entries, milock, status, alarm, head, dma, bounds>>

\* The i-th block of what was read.
Part(track, i) == IF track = Null THEN Null ELSE <<track[1], track[2] + i>>

\* The first n blocks are added.  The one at startblock is looked for first;
\* for the others the search asks for startblock too, under their own hash.
Filled(p, n) ==
    LET start == Startblock(op[p].b)
        added == {start + i : i \in 0..(n - 1)} \
                   (IF entries[op[p].d][start] # <<>> THEN {start} ELSE {})
    IN  [b \in Block |-> IF b \in added
           THEN <<Part(op[p].data, b - start)>> \o entries[op[p].d][b] ELSE entries[op[p].d][b]]

\* The alarm that stops the motors is set, or set anew; an error is
\* returned.  Memory may run out in the middle of the track.
Fill(p) ==
    /\ op[p].at \in {"fill", "error"}
    /\ alarm' = TRUE
    /\ \/ op[p].at = "error" /\ Goto(p, "return") /\ UNCHANGED entries
       \/ /\ op[p].at = "fill"
          /\ \E n \in 0..NSec :
               /\ entries' = [entries EXCEPT ![op[p].d] = Filled(p, n)]
               /\ op' = [op EXCEPT ![p] = IF n < NSec THEN [@ EXCEPT !.at = "return", !.data = Null]
                    ELSE [@ EXCEPT !.at = "done", !.data = Part(op[p].data, op[p].b - Startblock(op[p].b))]]
    /\ UNCHANGED <<milock, fdclock, status, hardware, bounds>>

Return(p) ==
    /\ op[p].at \in {"done", "return"}
    /\ milock' = [milock EXCEPT ![op[p].d] = Null]
    /\ op' = [op EXCEPT ![p] = Idle]
    /\ UNCHANGED <<entries, fdclock, status, alarm, hardware, bounds>>

(***************************************************************************)
(* fdc_disablemotors(), from the timer: not while a read is under way.     *)
(***************************************************************************)
StopAnyway == TRUE                                              \* mutant

MayStop == fdclock = Null

DisableMotors ==
    /\ alarm /\ alarm' = FALSE
    /\ status' = IF MayStop THEN [d \in Drive |-> [status[d] EXCEPT !.motor = FALSE]] ELSE status
    /\ UNCHANGED <<entries, milock, fdclock, op, hardware, bounds>>

Step(p) ==
    \/ LockMi(p) \/ LockFdc(p) \/ Seek(p) \/ Sleep(p) \/ Recalibrated(p) \/ SeekDone(p)
    \/ ReadDone(p) \/ UnlockFdc(p) \/ Fill(p) \/ Return(p)

Next ==
    \/ \E p \in Proc : Step(p) \/ Signal(p)
    \/ \E q \in Requests : Search(q[1], q[2], q[3])
    \/ Interrupt \/ DisableMotors

\* The scheduler runs every process that can go on, the controller ends its
\* commands, and the timer reaches the alarm.
Spec ==
    /\ Init /\ [][Next]_vars
    /\ \A p \in Proc : WF_vars(Step(p))
    /\ WF_vars(Interrupt) /\ WF_vars(DisableMotors)

(***************************************************************************)
(* Properties                                                              *)
(***************************************************************************)
\* What a read returns, and every entry of the cache, is the block it is for:
\* through the whole track that is read for one block, retries, seeks that a
\* signal cut short, and two processes that miss the same block.
CacheHoldsDisk ==
    /\ \A d \in Drive, b \in Block : \A i \in DOMAIN entries[d][b] : entries[d][b][i] = <<d, b>>
    /\ \A p \in Proc : op[p].at = "done" => op[p].data = <<op[p].d, op[p].b>>

\* A drive that a process waits for has its motor on: neither the timer nor
\* the other drive's user turns it off (fdc_disablemotors()).
MotorRunsWhileWaiting ==
    \A p \in Proc : op[p].at \in {"sent", "asleep", "woken"} => status[op[p].d].motor

\* A process sleeps for an interrupt that came before sleep() was called.
Overslept == \E p \in Proc : op[p].at = "asleep" /\ ~command.busy

\* However often the drive fails, the reads that were called return, and then
\* the motors stop, unless somebody sleeps for an interrupt that has been.
Quiet == (\A p \in Proc : op[p] = Idle) /\ \A d \in Drive : ~status[d].motor
ReadsEnd == []<>(Quiet \/ Overslept)
=============================================================================
