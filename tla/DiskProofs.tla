----------------------------- MODULE DiskProofs -----------------------------
(***************************************************************************)
(* Proofs about Disk.tla, for any processes, drives, geometry, requests    *)
(* and bounds: the motor of a drive in use runs, and, if the controller's  *)
(* result is there while the driver polls for it, the cache and the reads  *)
(* have the block they say.                                                *)
(*                                                                         *)
(* Both rest on who may be in the driver: whoever is has fdc_lock, so one  *)
(* process at a time, and the timer cannot take it.  For the data, what    *)
(* the driver asked for is followed through the controller (Follows),      *)
(* into the buffer (Transferred) and out of it (Holds).                    *)
(***************************************************************************)
EXTENDS Disk, TLAPS

Where == {"idle", "lock_mi", "lock_fdc", "seek", "sent", "asleep", "woken",
          "got", "failed", "fill", "error", "done", "return"}
Doing == {"", "recalibrate", "seek", "read"}
Datum == {Null} \cup ((Drive \cup {Null}) \X Int)

Op == [at : Where, d : Drive \cup {Null}, b : Int, found : BOOLEAN, data : Datum,
       doing : Doing, r : Int, h : Int, sr : Int, sh : Int]

Command == [what : Doing, d : Drive \cup {Null}, cyl : Int, start : Int,
            busy : BOOLEAN, ok : BOOLEAN]

DriveStatus == [motor : BOOLEAN, cur_track : Int, recalibrate : BOOLEAN]

Typed ==
    /\ entries \in [Drive -> [Block -> Seq(Datum)]]
    /\ dma \in Datum
    /\ op \in [Proc -> Op]
    /\ command \in Command
    /\ status \in [Drive -> DriveStatus]

\* Inside fdc_read_sectors(), and waiting in it.
InDriver == {"seek", "sent", "asleep", "woken", "got", "failed"}
Waiting  == {"sent", "asleep", "woken"}

HasLock == \A p \in Proc : op[p].at \in InDriver => fdclock = p

HasDrive == \A p \in Proc : op[p].at # "idle" => op[p].d \in Drive

MotorInv == Typed /\ HasLock /\ HasDrive /\ MotorRunsWhileWaiting

-----------------------------------------------------------------------------
Same(e, x) == e.d = x.d /\ e.b = x.b /\ e.found = x.found /\ e.data = x.data

\* What the actions make of a process's record is one of the same type.
Restart(x, at, r, h, sr, sh) ==
    [x EXCEPT !.at = at, !.r = r, !.h = h, !.sr = sr, !.sh = sh]

\* A process starts on the track, or anew after an error.
LEMMA RestartType ==
    ASSUME NEW x \in Op, NEW at \in Where,
           NEW r \in Int, NEW h \in Int, NEW sr \in Int, NEW sh \in Int
    PROVE  LET e == Restart(x, at, r, h, sr, sh)
           IN  e \in Op /\ e.at = at /\ Same(e, x)
BY DEF Op, Restart, Same

Reseek(x, sr, sh) == [x EXCEPT !.at = "seek", !.sr = sr, !.sh = sh]

\* The seek is tried again.
LEMMA ReseekType ==
    ASSUME NEW x \in Op, NEW sr \in Int, NEW sh \in Int
    PROVE  LET e == Reseek(x, sr, sh)
           IN  e \in Op /\ e.at = "seek" /\ Same(e, x)
BY DEF Op, Reseek, Where, Same

Moved(x, at) == [x EXCEPT !.at = at]

\* Only the place in the read changes.
LEMMA MovedType ==
    ASSUME NEW x \in Op, NEW at \in Where
    PROVE  LET e == Moved(x, at)
           IN  e \in Op /\ e.at = at /\ e.doing = x.doing /\ Same(e, x)
BY DEF Op, Moved, Same

With(x, at, data) == [x EXCEPT !.at = at, !.data = data]

\* The place changes and the data is the new one.
LEMMA WithType ==
    ASSUME NEW x \in Op, NEW at \in Where, NEW data \in Datum
    PROVE  LET e == With(x, at, data)
           IN  e \in Op /\ e.at = at /\ e.data = data /\ e.d = x.d /\ e.b = x.b
BY DEF Op, With

Counted(x, r, h, sr, sh) == [x EXCEPT !.r = r, !.h = h, !.sr = sr, !.sh = sh]

\* The four counts of retries are set.
LEMMA CountedType ==
    ASSUME NEW x \in Op, NEW r \in Int, NEW h \in Int, NEW sr \in Int, NEW sh \in Int
    PROVE  LET e == Counted(x, r, h, sr, sh)
           IN  e \in Op /\ e.at = x.at /\ Same(e, x)
BY DEF Op, Counted, Same

Released(x, at) ==
    [x EXCEPT !.at = at, !.doing = "", !.r = 0, !.h = 0, !.sr = 0, !.sh = 0]

\* The process leaves the driver.
LEMMA ReleasedType ==
    ASSUME NEW x \in Op, NEW at \in Where
    PROVE  LET e == Released(x, at)
           IN  e \in Op /\ e.at = at /\ Same(e, x)
<1> DEFINE y == Moved(x, at)
           z == [y EXCEPT !.doing = ""]
           e == Counted(z, 0, 0, 0, 0)
<1>1. y \in Op /\ y.at = at /\ Same(y, x)
  BY MovedType
<1>2. e = Released(x, at)
  BY DEF Released, Moved, Counted
<1>3. "" \in Doing
  BY DEF Doing
<1> HIDE DEF y
<1>4. z \in Op /\ z.at = y.at /\ Same(z, y)
  BY <1>1, <1>3 DEF Op, Same
<1> HIDE DEF z
<1>5. e \in Op /\ e.at = z.at /\ Same(e, z)
  BY <1>4, CountedType
<1> HIDE DEF e
<1> QED
  BY <1>1, <1>2, <1>4, <1>5 DEF Same

\* No command is a command.
LEMMA NoCommandType == NoCommand \in Command
BY DEF NoCommand, Command, Doing

\* NR_RETRIES is a number.
LEMMA RetriesIsInt == Retries \in Int
BY DiskAssumption

\* The track of a block is a number (fdc_whichsector(), fdc_readtip()).
LEMMA TrackIsInt ==
    ASSUME NEW b \in Int
    PROVE  Which(b).c \in Int /\ Startblock(b) \in Int
<1>1. NSec \in Nat \ {0} /\ NHeads \in Nat \ {0}
  BY DiskAssumption
<1>2. b \div NSec \in Int
  BY <1>1
<1>3. (b \div NSec) \div NHeads \in Int /\ (b \div NSec) % NHeads \in Int
  BY <1>1, <1>2
<1>4. Which(b).c \in Int /\ Which(b).h \in Int
  BY <1>3 DEF Which
<1> QED
  BY <1>1, <1>4 DEF Startblock

\* What is left of the retries is nothing or two numbers.
LEMMA RetryType ==
    ASSUME NEW r \in Int, NEW h \in Int
    PROVE  Retry(r, h) = <<>> \/ (Retry(r, h)[1] \in Int /\ Retry(r, h)[2] \in Int)
BY DiskAssumption DEF Retry

\* A process that does not read.
LEMMA IdleIsOp == Idle \in Op /\ Idle.at = "idle"
BY DEF Idle, Op, Where, Doing, Datum

\* Nobody reads at first.
THEOREM MotorInit == Init => MotorInv
<1> SUFFICES ASSUME Init PROVE MotorInv
  OBVIOUS
<1>1. \A p \in Proc : op[p] = Idle
  BY DEF Init
<1>2. Idle \in Op /\ Idle.at = "idle"
  BY IdleIsOp
<1>3. NoCommand \in Command
  BY NoCommandType
<1>4. dma \in Datum /\ entries \in [Drive -> [Block -> Seq(Datum)]]
  <2>1. <<>> \in Seq(Datum)
    OBVIOUS
  <2> QED
    BY <2>1 DEF Init, Datum
<1>5. status \in [Drive -> DriveStatus]
  BY DEF Init, DriveStatus
<1>6. op \in [Proc -> Op] /\ command \in Command
  BY <1>2, <1>3 DEF Init
<1>7. Typed
  BY <1>4, <1>5, <1>6 DEF Typed
<1> QED
  BY <1>1, <1>2, <1>7 DEF MotorInv, HasLock, HasDrive, MotorRunsWhileWaiting, InDriver

(***************************************************************************)
(* Each action keeps MotorInv.  What a step does to other processes is     *)
(* nothing, but for Interrupt, which may wake those asleep.                *)
(***************************************************************************)
\* A step of one process, which is e after it, and turns no motor off.
LEMMA OneProcess ==
    ASSUME MotorInv, NEW p \in Proc, NEW e \in Op,
           op' = [op EXCEPT ![p] = e],
           e.at # "idle" => e.d \in Drive,
           e.at \in InDriver => fdclock' = p,
           e.at \in Waiting => status'[e.d].motor,
           op[p].at \in InDriver \/ fdclock = Null \/ fdclock' = fdclock,
           entries' \in [Drive -> [Block -> Seq(Datum)]], dma' \in Datum,
           command' \in Command,
           status' \in [Drive -> DriveStatus],
           \A d \in Drive : status[d].motor => status'[d].motor
    PROVE  MotorInv'
<1> USE DEF MotorInv
<1>1. op'[p] = e /\ \A q \in Proc \ {p} : op'[q] = op[q]
  BY DEF Typed
<1>2. Typed'
  BY DEF Typed
<1>3. HasLock'
  BY <1>1, DiskAssumption DEF HasLock
<1>4. HasDrive'
  BY <1>1 DEF HasDrive
<1>5. MotorRunsWhileWaiting'
  BY <1>1 DEF MotorRunsWhileWaiting, HasDrive, Waiting
<1> QED
  BY <1>2, <1>3, <1>4, <1>5

\* A command is sent by who has the lock, to a drive whose motor is on by then.
LEMMA SendMotor ==
    ASSUME MotorInv, NEW p \in Proc, op[p].at \in InDriver, NEW what \in Doing,
           Send(p, what), UNCHANGED <<entries, dma, fdclock>>,
           status' \in [Drive -> DriveStatus],
           \A d \in Drive : status[d].motor => status'[d].motor,
           status'[op[p].d].motor
    PROVE  MotorInv'
<1> DEFINE e == [op[p] EXCEPT !.at = "sent", !.doing = what]
<1>1. op[p] \in Op /\ op[p].d \in Drive /\ fdclock = p
  BY DEF MotorInv, Typed, HasDrive, HasLock, InDriver
<1>2. command' \in Command
  BY <1>1, TrackIsInt DEF Send, Command, Op
<1>3. e \in Op /\ e.at = "sent" /\ e.d = op[p].d
  BY <1>1 DEF Op, Where
<1>4. op' = [op EXCEPT ![p] = e]
  BY DEF Send
<1>5. entries' \in [Drive -> [Block -> Seq(Datum)]] /\ dma' \in Datum
  BY DEF MotorInv, Typed
<1> HIDE DEF e
<1> QED
  BY <1>1, <1>2, <1>3, <1>4, <1>5, OneProcess

\* A process goes on, in the driver only if it was in it, and waits only if it did.
LEMMA GotoMotor ==
    ASSUME MotorInv, NEW p \in Proc, op[p].at # "idle", NEW at \in Where, Goto(p, at),
           at \in InDriver => op[p].at \in InDriver,
           at \in Waiting => op[p].at \in Waiting,
           UNCHANGED <<entries, dma, fdclock, status, command>>
    PROVE  MotorInv'
<1> DEFINE e == [op[p] EXCEPT !.at = at]
<1>1. op[p] \in Op /\ op[p].d \in Drive
  BY DEF MotorInv, Typed, HasDrive
<1>2. e \in Op /\ e.at = at /\ e.d = op[p].d
  BY <1>1 DEF Op
<1>3. op' = [op EXCEPT ![p] = e]
  BY DEF Goto
<1>4. at \in InDriver => fdclock' = p
  BY DEF MotorInv, HasLock
<1>5. at \in Waiting => status'[e.d].motor
  BY <1>2 DEF MotorInv, MotorRunsWhileWaiting, Waiting
<1> HIDE DEF e
<1> QED
  BY <1>1, <1>2, <1>3, <1>4, <1>5, OneProcess DEF MotorInv, Typed

\* buffercache_read() begins.
LEMMA SearchMotor ==
    ASSUME MotorInv, NEW p \in Proc, NEW d \in Drive, NEW b \in Block, Search(p, d, b)
    PROVE  MotorInv'
<1> DEFINE x == IF entries[d][b] = <<>> THEN Null ELSE entries[d][b][1]
           f == entries[d][b] # <<>>
           e == [Idle EXCEPT !.at = "lock_mi", !.d = d, !.b = b, !.found = f, !.data = x]
<1>1. x \in Datum
  <2>1. entries[d][b] \in Seq(Datum)
    BY DEF MotorInv, Typed
  <2> QED
    BY <2>1 DEF Datum
<1>2. f \in BOOLEAN /\ b \in Int
  BY DiskAssumption DEF Block
<1>3. op' = [op EXCEPT ![p] = e] /\ UNCHANGED <<entries, dma, fdclock, status, command>>
  BY DEF Search, hardware
<1> HIDE DEF x, f
<1>4. e \in Op /\ e.at = "lock_mi" /\ e.d = d
  BY <1>1, <1>2, IdleIsOp DEF Op, Where
<1> HIDE DEF e
<1> QED
  BY <1>3, <1>4, OneProcess DEF MotorInv, Typed, InDriver, Waiting

\* The process leaves the read, without the lock of the driver.
LEMMA IdleMotor ==
    ASSUME MotorInv, NEW p \in Proc, op' = [op EXCEPT ![p] = Idle],
           UNCHANGED <<entries, dma, fdclock, status, command>>
    PROVE  MotorInv'
BY IdleIsOp, OneProcess DEF MotorInv, Typed, InDriver, Waiting

\* The lock of the file system is taken.
LEMMA LockMiMotor == ASSUME MotorInv, NEW p \in Proc, LockMi(p) PROVE MotorInv'
<1>1. UNCHANGED <<entries, dma, fdclock, status, command>>
  BY DEF LockMi, hardware
<1>2. CASE Goto(p, "done")
  BY <1>1, <1>2, GotoMotor DEF LockMi, Where, InDriver, Waiting
<1>3. CASE Goto(p, "lock_fdc")
  BY <1>1, <1>3, GotoMotor DEF LockMi, Where, InDriver, Waiting
<1>4. CASE op' = [op EXCEPT ![p] = Idle]
  BY <1>1, <1>4, IdleMotor
<1> QED
  BY <1>2, <1>3, <1>4 DEF LockMi

\* fdc_lock is taken: nobody is in the driver.
LEMMA LockFdcMotor == ASSUME MotorInv, NEW p \in Proc, LockFdc(p) PROVE MotorInv'
<1> DEFINE e == Restart(op[p], "seek", Retries, Retries, Retries, Retries)
<1>1. op[p] \in Op /\ op[p].d \in Drive
  BY DEF MotorInv, Typed, HasDrive, LockFdc
<1>2. e \in Op /\ e.at = "seek" /\ e.d = op[p].d
  BY <1>1, RetriesIsInt, RestartType DEF Where, Same
<1>3. op' = [op EXCEPT ![p] = e] /\ fdclock = Null /\ fdclock' = p
  BY DEF LockFdc, FdcFree, Restart
<1>4. UNCHANGED <<entries, dma, status, command>>
  BY DEF LockFdc, hardware
<1> HIDE DEF e
<1> QED
  BY <1>1, <1>2, <1>3, <1>4, OneProcess DEF MotorInv, Typed, Waiting

\* The motor is on, or is turned on with the command.
LEMMA SeekMotor == ASSUME MotorInv, NEW p \in Proc, Seek(p) PROVE MotorInv'
<1>1. op[p].at \in InDriver /\ op[p].d \in Drive
  BY DEF Seek, InDriver, MotorInv, HasDrive
<1>2. UNCHANGED <<entries, dma, fdclock>>
  BY DEF Seek
<1>3. status \in [Drive -> DriveStatus]
  BY DEF MotorInv, Typed
<1>4. CASE status[op[p].d].motor /\ Send(p, "read") /\ UNCHANGED status
  BY <1>1, <1>2, <1>3, <1>4, SendMotor DEF Doing
<1>5. CASE /\ status' = [status EXCEPT ![op[p].d].motor = TRUE]
           /\ Send(p, "recalibrate") \/ Send(p, "seek")
  <2>1. /\ status' \in [Drive -> DriveStatus] /\ status'[op[p].d].motor
        /\ \A d \in Drive : status[d].motor => status'[d].motor
    BY <1>1, <1>3, <1>5 DEF DriveStatus
  <2> QED
    BY <1>1, <1>2, <1>5, <2>1, SendMotor DEF Doing
<1> QED
  BY <1>4, <1>5 DEF Seek

\* A process that sent its command sleeps.
LEMMA SleepMotor == ASSUME MotorInv, NEW p \in Proc, Sleep(p) PROVE MotorInv'
BY GotoMotor DEF Sleep, hardware, Where, InDriver, Waiting

\* A signal wakes a process that waits.
LEMMA SignalMotor == ASSUME MotorInv, NEW p \in Proc, Signal(p) PROVE MotorInv'
BY GotoMotor DEF Signal, hardware, Where, InDriver, Waiting

\* After the recalibration the seek is sent; the motor was on.
LEMMA RecalibratedMotor == ASSUME MotorInv, NEW p \in Proc, Recalibrated(p) PROVE MotorInv'
<1>1. op[p].at \in InDriver /\ op[p].d \in Drive /\ status[op[p].d].motor
  BY DEF Recalibrated, InDriver, MotorInv, HasDrive, MotorRunsWhileWaiting
<1>2. UNCHANGED <<entries, dma, fdclock>> /\ Send(p, "seek")
  BY DEF Recalibrated
<1>3. PICK fault \in BOOLEAN : status' = [status EXCEPT ![op[p].d].recalibrate = fault]
  BY DEF Recalibrated
<1>4. /\ status' \in [Drive -> DriveStatus]
      /\ \A d \in Drive : status'[d].motor = status[d].motor
  BY <1>3 DEF MotorInv, Typed, DriveStatus
<1> QED
  BY <1>1, <1>2, <1>4, SendMotor DEF Doing

\* After the seek: the read is sent, or the seek fails or is tried again.
LEMMA SeekDoneMotor == ASSUME MotorInv, NEW p \in Proc, SeekDone(p) PROVE MotorInv'
<1> DEFINE c == Which(op[p].b).c
           left == Retry(op[p].sr, op[p].sh)
           e == IF left = <<>> THEN Moved(op[p], "failed") ELSE Reseek(op[p], left[1], left[2])
<1>1. op[p].at = "woken" /\ op[p] \in Op /\ op[p].d \in Drive /\ fdclock = p
  BY DEF SeekDone, InDriver, MotorInv, HasDrive, HasLock, Typed
<1>2. UNCHANGED <<entries, dma, fdclock>>
  BY DEF SeekDone
<1>3. status[op[p].d].motor /\ status \in [Drive -> DriveStatus]
  BY <1>1 DEF MotorInv, MotorRunsWhileWaiting, Typed
<1>4. op[p].b \in Int /\ op[p].sr \in Int /\ op[p].sh \in Int
  BY <1>1 DEF Op
<1>5. c \in Int
  BY <1>4, TrackIsInt
<1>6. left = <<>> \/ (left[1] \in Int /\ left[2] \in Int)
  BY <1>4, RetryType
<1> HIDE DEF c, left
<1>7. CASE status' = [status EXCEPT ![op[p].d].cur_track = c] /\ Send(p, "read")
  <2>1. /\ status' \in [Drive -> DriveStatus]
        /\ \A d \in Drive : status'[d].motor = status[d].motor
    BY <1>3, <1>5, <1>7 DEF DriveStatus
  <2> QED
    BY <1>1, <1>2, <1>3, <1>7, <2>1, SendMotor DEF Doing, InDriver
<1>8. CASE Goto(p, "failed") /\ UNCHANGED <<status, command>>
  BY <1>1, <1>2, <1>8, GotoMotor DEF Where, InDriver, Waiting
<1>9. CASE /\ status' = [status EXCEPT ![op[p].d].recalibrate = @ \/ op[p].sr = 0]
           /\ op' = [op EXCEPT ![p] = e] /\ UNCHANGED command
  <2>1. /\ status' \in [Drive -> DriveStatus]
        /\ \A d \in Drive : status'[d].motor = status[d].motor
    <3> DEFINE f == status[op[p].d].recalibrate \/ op[p].sr = 0
    <3>1. f \in BOOLEAN
      BY <1>1, <1>3 DEF DriveStatus
    <3>2. status' = [status EXCEPT ![op[p].d].recalibrate = f]
      BY <1>9
    <3> HIDE DEF f
    <3> QED
      BY <1>1, <1>3, <3>1, <3>2 DEF DriveStatus
  <2>2. e \in Op /\ e.at \in {"failed", "seek"} /\ e.d = op[p].d
    BY <1>1, <1>6, MovedType, ReseekType DEF Where, Same
  <2>3. entries' \in [Drive -> [Block -> Seq(Datum)]] /\ dma' \in Datum /\ command' \in Command
    BY <1>2, <1>9 DEF MotorInv, Typed
  <2> HIDE DEF e
  <2> QED
    BY <1>1, <1>2, <1>9, <2>1, <2>2, <2>3, OneProcess DEF Waiting
<1> QED
  BY <1>7, <1>8, <1>9 DEF SeekDone, c, left, Moved, Reseek

\* After the read: its data, or another try, or none.
LEMMA ReadDoneMotor == ASSUME MotorInv, NEW p \in Proc, ReadDone(p) PROVE MotorInv'
<1> DEFINE left == Retry(op[p].r, op[p].h)
           e == IF left = <<>> THEN Moved(op[p], "failed")
                ELSE Restart(op[p], "seek", left[1], left[2], Retries, Retries)
<1>1. op[p].at = "woken" /\ op[p] \in Op /\ op[p].d \in Drive /\ fdclock = p
  BY DEF ReadDone, InDriver, MotorInv, HasDrive, HasLock, Typed
<1>2. UNCHANGED <<entries, dma, fdclock, command>>
  BY DEF ReadDone, hardware
<1>3. status[op[p].d].motor /\ status \in [Drive -> DriveStatus]
  BY <1>1 DEF MotorInv, MotorRunsWhileWaiting, Typed
<1>4. op[p].r \in Int /\ op[p].h \in Int
  BY <1>1 DEF Op
<1>5. left = <<>> \/ (left[1] \in Int /\ left[2] \in Int)
  BY <1>4, RetryType
<1> HIDE DEF left
<1>6. entries' \in [Drive -> [Block -> Seq(Datum)]] /\ dma' \in Datum /\ command' \in Command
  BY <1>2 DEF MotorInv, Typed
<1>7. CASE op' = [op EXCEPT ![p] = With(op[p], "got", dma)] /\ UNCHANGED status
  <2> DEFINE w == With(op[p], "got", dma)
  <2>1. w \in Op /\ w.at = "got" /\ w.d = op[p].d
    BY <1>1, WithType DEF Where, MotorInv, Typed
  <2> HIDE DEF w
  <2> QED
    BY <1>1, <1>2, <1>3, <1>6, <1>7, <2>1, OneProcess DEF w, Waiting
<1>8. CASE /\ status' = [status EXCEPT ![op[p].d].recalibrate = TRUE]
           /\ op' = [op EXCEPT ![p] = e]
  <2>1. /\ status' \in [Drive -> DriveStatus]
        /\ \A d \in Drive : status'[d].motor = status[d].motor
    BY <1>3, <1>8 DEF DriveStatus
  <2>2. e \in Op /\ e.at \in {"failed", "seek"} /\ e.d = op[p].d
    <3>1. CASE left = <<>>
      BY <1>1, <3>1, MovedType DEF Where, Same
    <3>2. CASE left # <<>>
      BY <1>1, <1>5, <3>2, RestartType, RetriesIsInt DEF Where, Same
    <3> QED
      BY <3>1, <3>2
  <2> HIDE DEF e
  <2> QED
    BY <1>1, <1>2, <1>6, <1>8, <2>1, <2>2, OneProcess DEF Waiting
<1> QED
  BY <1>7, <1>8 DEF ReadDone, left, Moved, Restart, With

\* The process leaves the driver and gives the lock back.
LEMMA UnlockFdcMotor == ASSUME MotorInv, NEW p \in Proc, UnlockFdc(p) PROVE MotorInv'
<1> DEFINE at == IF op[p].at = "got" THEN "fill" ELSE "error"
           e == Released(op[p], at)
<1>1. op[p].at \in InDriver /\ op[p] \in Op /\ op[p].d \in Drive
  BY DEF UnlockFdc, InDriver, MotorInv, HasDrive, Typed
<1>2. e \in Op /\ e.at = at /\ e.d = op[p].d
  BY <1>1, ReleasedType DEF Where, Same
<1>3. op' = [op EXCEPT ![p] = e]
  BY DEF UnlockFdc, Released
<1>4. command' \in Command
  <2>1. command \in Command
    BY DEF MotorInv, Typed
  <2> QED
    BY <2>1, NoCommandType DEF UnlockFdc
<1>5. UNCHANGED <<entries, dma, status>>
  BY DEF UnlockFdc
<1>6. at \notin InDriver /\ at \notin Waiting /\ at # "idle"
  BY DEF InDriver, Waiting
<1> HIDE DEF e, at
<1> QED
  BY <1>1, <1>2, <1>3, <1>4, <1>5, <1>6, OneProcess DEF MotorInv, Typed

\* The read ends.
LEMMA ReturnMotor == ASSUME MotorInv, NEW p \in Proc, Return(p) PROVE MotorInv'
BY IdleMotor DEF Return, hardware

\* What Fill() puts at the head of a chain is a block of the track.
LEMMA PartType ==
    ASSUME NEW x \in Datum, NEW i \in Int
    PROVE  Part(x, i) \in Datum
<1>1. CASE x = Null
  BY <1>1 DEF Part, Datum
<1>2. CASE x # Null
  BY <1>2 DEF Part, Datum
<1> QED
  BY <1>1, <1>2

\* The track goes into the cache; the driver is not touched.
LEMMA FillMotor == ASSUME MotorInv, NEW p \in Proc, Fill(p) PROVE MotorInv'
<1> DEFINE off == op[p].b - Startblock(op[p].b)
           x == Part(op[p].data, off)
<1>1. op[p] \in Op /\ op[p].d \in Drive /\ op[p].at \in {"fill", "error"}
  BY DEF Fill, MotorInv, HasDrive, Typed
<1>2. UNCHANGED <<dma, fdclock, status, command>>
  BY DEF Fill, hardware
<1>3. op[p].data \in Datum /\ op[p].b \in Int
  BY <1>1 DEF Op
<1>4. Startblock(op[p].b) \in Int
  BY <1>3, TrackIsInt
<1>5. off \in Int
  BY <1>3, <1>4
<1> HIDE DEF off
<1>6. CASE Goto(p, "return") /\ UNCHANGED entries
  BY <1>1, <1>2, <1>6, GotoMotor DEF Where, InDriver, Waiting
<1>7. ASSUME NEW n \in 0..NSec, entries' = [entries EXCEPT ![op[p].d] = Filled(p, n)],
             NEW e \in {With(op[p], "return", Null), With(op[p], "done", x)},
             op' = [op EXCEPT ![p] = e]
      PROVE  MotorInv'
  <2>1. x \in Datum /\ Null \in Datum
    BY <1>3, <1>5, PartType DEF Datum
  <2>2. e \in Op /\ e.at \in {"return", "done"} /\ e.d = op[p].d
    <3>1. "return" \in Where /\ "done" \in Where
      BY DEF Where
    <3>2. CASE e = With(op[p], "return", Null)
      BY <1>1, <2>1, <3>1, <3>2, WithType
    <3>3. CASE e = With(op[p], "done", x)
      BY <1>1, <2>1, <3>1, <3>3, WithType
    <3> QED
      BY <1>7, <3>2, <3>3
  <2>3. ASSUME NEW c \in Block
        PROVE  Filled(p, n)[c] \in Seq(Datum)
    <3>1. c - Startblock(op[p].b) \in Int
      BY <1>4, DiskAssumption DEF Block
    <3>2. Part(op[p].data, c - Startblock(op[p].b)) \in Datum
      BY <1>3, <3>1, PartType
    <3>3. entries[op[p].d][c] \in Seq(Datum)
      BY <1>1 DEF MotorInv, Typed
    <3>4. \/ Filled(p, n)[c] = entries[op[p].d][c]
          \/ Filled(p, n)[c] =
               <<Part(op[p].data, c - Startblock(op[p].b))>> \o entries[op[p].d][c]
      BY DEF Filled
    <3> DEFINE u == Part(op[p].data, c - Startblock(op[p].b))
               old == entries[op[p].d][c]
    <3> HIDE DEF u, old
    <3>5. u \in Datum /\ old \in Seq(Datum)
      BY <3>2, <3>3 DEF u, old
    <3>6. <<u>> \o old \in Seq(Datum)
      BY <3>5
    <3>7. Filled(p, n)[c] = old \/ Filled(p, n)[c] = <<u>> \o old
      BY <3>4 DEF u, old
    <3> QED
      BY <3>5, <3>6, <3>7
  <2>4. Filled(p, n) = [c \in Block |-> Filled(p, n)[c]]
    BY DEF Filled
  <2>5. Filled(p, n) \in [Block -> Seq(Datum)]
    BY <2>3, <2>4
  <2>6. entries' \in [Drive -> [Block -> Seq(Datum)]]
    BY <1>1, <1>7, <2>5 DEF MotorInv, Typed
  <2>7. dma' \in Datum /\ command' \in Command /\ status' \in [Drive -> DriveStatus]
    BY <1>2 DEF MotorInv, Typed
  <2> QED
    BY <1>1, <1>2, <1>7, <2>2, <2>6, <2>7, OneProcess DEF InDriver, Waiting
<1> QED
  BY <1>6, <1>7 DEF Fill, With, x, off

\* The interrupt moves who sleeps from one place of Waiting to another.
LEMMA InterruptMotor == ASSUME MotorInv, Interrupt PROVE MotorInv'
<1> DEFINE e(p) == IF op[p].at = "asleep" THEN Moved(op[p], "woken") ELSE op[p]
<1>1. ASSUME NEW p \in Proc
      PROVE  /\ op'[p] = e(p) /\ e(p) \in Op /\ e(p).d = op[p].d
             /\ e(p).at \in Waiting <=> op[p].at \in Waiting
             /\ e(p).at \in InDriver <=> op[p].at \in InDriver
             /\ e(p).at = "idle" <=> op[p].at = "idle"
  <2>1. op[p] \in Op /\ op'[p] = e(p)
    BY DEF MotorInv, Typed, Interrupt, Moved
  <2>2. CASE op[p].at = "asleep"
    BY <2>1, <2>2, MovedType DEF Where, Waiting, InDriver, Same
  <2>3. CASE op[p].at # "asleep"
    BY <2>1, <2>3
  <2> QED
    BY <2>1, <2>2, <2>3
<1>2. op' = [p \in Proc |-> e(p)]
  BY DEF Interrupt, Moved
<1> HIDE DEF e
<1>3. op' \in [Proc -> Op]
  BY <1>1, <1>2
<1>4. UNCHANGED <<entries, fdclock, status>>
  BY DEF Interrupt
<1>5. command' \in Command /\ dma' \in Datum
  <2>1. command \in Command /\ dma \in Datum
    BY DEF MotorInv, Typed
  <2>2. /\ \E ok \in BOOLEAN : command' = [command EXCEPT !.busy = FALSE, !.ok = ok]
        /\ dma' = dma \/ dma' = <<command.d, command.start>>
    BY DEF Interrupt
  <2>3. command.d \in Drive \cup {Null} /\ command.start \in Int
    BY <2>1 DEF Command
  <2>4. command' \in Command
    BY <2>1, <2>2 DEF Command
  <2>5. <<command.d, command.start>> \in Datum
    BY <2>3 DEF Datum
  <2> QED
    BY <2>1, <2>2, <2>4, <2>5
<1>6. Typed'
  BY <1>3, <1>4, <1>5 DEF MotorInv, Typed
<1>7. HasLock' /\ HasDrive'
  BY <1>1, <1>4 DEF MotorInv, HasLock, HasDrive
<1>8. MotorRunsWhileWaiting'
  BY <1>1, <1>4 DEF MotorInv, MotorRunsWhileWaiting, Waiting
<1> QED
  BY <1>6, <1>7, <1>8 DEF MotorInv

\* The timer stops the motors only when nobody has the lock: nobody waits.
LEMMA DisableMotor == ASSUME MotorInv, DisableMotors PROVE MotorInv'
<1>1. UNCHANGED <<entries, dma, fdclock, op, command>>
  BY DEF DisableMotors, hardware
<1>2. CASE MayStop
  <2>1. status' = [d \in Drive |-> [status[d] EXCEPT !.motor = FALSE]]
    BY <1>2 DEF DisableMotors
  <2>2. status' \in [Drive -> DriveStatus]
    <3>1. ASSUME NEW x \in DriveStatus PROVE [x EXCEPT !.motor = FALSE] \in DriveStatus
      BY DEF DriveStatus
    <3>2. \A d \in Drive : status[d] \in DriveStatus
      BY DEF MotorInv, Typed
    <3> QED
      BY <2>1, <3>1, <3>2
  <2>3. \A p \in Proc : op[p].at \notin Waiting
    BY <1>2, DiskAssumption DEF MayStop, MotorInv, HasLock, InDriver, Waiting
  <2>4. Typed' /\ HasLock' /\ HasDrive'
    BY <1>1, <2>2 DEF MotorInv, Typed, HasLock, HasDrive
  <2>5. MotorRunsWhileWaiting'
    BY <1>1, <2>3 DEF MotorRunsWhileWaiting, Waiting
  <2> QED
    BY <2>4, <2>5 DEF MotorInv
<1>3. CASE ~MayStop
  <2>1. status' = status
    BY <1>3 DEF DisableMotors
  <2> QED
    BY <1>1, <2>1 DEF MotorInv, Typed, HasLock, HasDrive, MotorRunsWhileWaiting
<1> QED
  BY <1>2, <1>3

\* MotorInv is inductive.
THEOREM MotorStep == MotorInv /\ [Next]_vars => MotorInv'
<1> SUFFICES ASSUME MotorInv, [Next]_vars PROVE MotorInv'
  OBVIOUS
<1>1. CASE UNCHANGED vars
  BY <1>1 DEF vars, hardware, MotorInv, Typed, HasLock, HasDrive, MotorRunsWhileWaiting
<1>2. ASSUME NEW p \in Proc, Step(p) \/ Signal(p) PROVE MotorInv'
  BY <1>2, LockMiMotor, LockFdcMotor, SeekMotor, SleepMotor, RecalibratedMotor,
     SeekDoneMotor, ReadDoneMotor, UnlockFdcMotor, FillMotor, ReturnMotor, SignalMotor DEF Step
<1>3. ASSUME NEW q \in Requests, Search(q[1], q[2], q[3]) PROVE MotorInv'
  BY <1>3, SearchMotor, DiskAssumption DEF Block
<1> QED
  BY <1>1, <1>2, <1>3, InterruptMotor, DisableMotor DEF Next

\* Whatever processes read which blocks of which drives, and however often the
\* drives fail and signals wake who waits: a drive that is waited for has its
\* motor on (fdc_disablemotors(), fdc_seek_to_cylinder()).
THEOREM MotorAlwaysRuns == Spec => []MotorRunsWhileWaiting
<1>1. MotorInv => MotorRunsWhileWaiting
  BY DEF MotorInv
<1> QED
  BY <1>1, MotorInit, MotorStep, PTL DEF Spec

-----------------------------------------------------------------------------
(***************************************************************************)
(* The data.  DataInv is kept by the steps from states with MotorInv.      *)
(***************************************************************************)
\* Who waits waits for the command the controller has.
Follows(x, c) ==
    x.at \in Waiting => c.what = x.doing /\ c.d = x.d /\ c.start = Startblock(x.b)

\* The track or the block that a process carries is what it asked for.
Holds(x) ==
    /\ x.at \in {"got", "fill"} => x.data = <<x.d, Startblock(x.b)>>
    /\ x.at = "done" \/ (x.at = "lock_mi" /\ x.found) => x.data = <<x.d, x.b>>

\* A read that ended well left its track in the buffer.
Transferred ==
    command.what = "read" /\ command.ok /\ ~command.busy => dma = <<command.d, command.start>>

Cached ==
    \A d \in Drive, b \in Block : \A i \in DOMAIN entries[d][b] : entries[d][b][i] = <<d, b>>

DataInv ==
    /\ \A p \in Proc : Follows(op[p], command) /\ Holds(op[p])
    /\ Transferred /\ Cached

\* A step of one process: commands change only under its own fdc_lock, when nobody
\* else waits for one.
LEMMA OneProcessData ==
    ASSUME MotorInv, DataInv, NEW p \in Proc, NEW e, op' = [op EXCEPT ![p] = e],
           Follows(e, command'), Holds(e), Transferred', Cached',
           op[p].at \in InDriver \/ command' = command
    PROVE  DataInv'
<1>1. op'[p] = e /\ \A q \in Proc \ {p} : op'[q] = op[q]
  BY DEF MotorInv, Typed
<1>2. ASSUME NEW q \in Proc \ {p}
      PROVE  Follows(op[q], command') /\ Holds(op[q])
  <2>1. Follows(op[q], command) /\ Holds(op[q])
    BY DEF DataInv
  <2>2. CASE command' = command
    BY <2>1, <2>2
  <2>3. CASE op[p].at \in InDriver
    <3>1. op[q].at \notin Waiting
      BY <2>3 DEF MotorInv, HasLock, Waiting, InDriver
    <3> QED
      BY <2>1, <3>1 DEF Follows
  <2> QED
    BY <2>2, <2>3
<1>3. \A q \in Proc : Follows(op'[q], command') /\ Holds(op'[q])
  BY <1>1, <1>2
<1> QED
  BY <1>3 DEF DataInv

\* A process goes where it carries nothing, and touches nothing else.
LEMMA CarriesNothing ==
    ASSUME MotorInv, DataInv, NEW p \in Proc, NEW e, op' = [op EXCEPT ![p] = e],
           e.at \notin Waiting \cup {"got", "fill", "done", "lock_mi"},
           UNCHANGED <<entries, command, dma>>
    PROVE  DataInv'
<1>1. Follows(e, command') /\ Holds(e)
  BY DEF Follows, Holds
<1>2. Transferred' /\ Cached'
  BY DEF DataInv, Transferred, Cached
<1> QED
  BY <1>1, <1>2, OneProcessData

\* The command sent is for what the process reads, and has transferred nothing yet.
LEMMA SendData ==
    ASSUME MotorInv, DataInv, NEW p \in Proc, op[p].at \in InDriver, NEW what \in Doing,
           Send(p, what), UNCHANGED <<entries, dma>>
    PROVE  DataInv'
<1> DEFINE e == [op[p] EXCEPT !.at = "sent", !.doing = what]
<1>1. op[p] \in Op
  BY DEF MotorInv, Typed
<1>2. e.at = "sent" /\ e.doing = what /\ Same(e, op[p])
  BY <1>1 DEF Op, Same
<1>3. op' = [op EXCEPT ![p] = e]
  BY DEF Send
<1> HIDE DEF e
<1>4. /\ command'.what = what /\ command'.d = op[p].d
      /\ command'.start = Startblock(op[p].b) /\ ~command'.ok
  BY DEF Send
<1>5. Follows(e, command') /\ Holds(e)
  BY <1>2, <1>4 DEF Follows, Holds, Same
<1>6. Transferred' /\ Cached'
  BY <1>4 DEF Transferred, DataInv, Cached
<1> QED
  BY <1>3, <1>5, <1>6, OneProcessData

\* A process goes on with what it had.
LEMMA MovedData ==
    ASSUME MotorInv, DataInv, NEW p \in Proc, NEW at \in Where, Goto(p, at),
           at \in Waiting => op[p].at \in Waiting,
           at \notin {"got", "fill", "lock_mi"},
           at = "done" => op[p].at = "lock_mi" /\ op[p].found,
           UNCHANGED <<entries, command, dma>>
    PROVE  DataInv'
<1> DEFINE e == Moved(op[p], at)
<1>1. op[p] \in Op
  BY DEF MotorInv, Typed
<1>2. e.at = at /\ e.doing = op[p].doing /\ Same(e, op[p])
  BY <1>1, MovedType
<1>3. op' = [op EXCEPT ![p] = e]
  BY DEF Goto, Moved
<1> HIDE DEF e
<1>4. Follows(op[p], command) /\ Holds(op[p])
  BY DEF DataInv
<1>5. Follows(e, command')
  BY <1>2, <1>4 DEF Follows, Same
<1>6. Holds(e)
  BY <1>2, <1>4 DEF Holds, Same
<1>7. Transferred' /\ Cached'
  BY DEF DataInv, Transferred, Cached
<1> QED
  BY <1>3, <1>5, <1>6, <1>7, OneProcessData

\* A process that leaves the read carries nothing.
LEMMA IdleData ==
    ASSUME MotorInv, DataInv, NEW p \in Proc, op' = [op EXCEPT ![p] = Idle],
           UNCHANGED <<entries, command, dma>>
    PROVE  DataInv'
BY IdleIsOp, CarriesNothing DEF Waiting

\* What was found before the lock is still the block.
LEMMA LockMiData == ASSUME MotorInv, DataInv, NEW p \in Proc, LockMi(p) PROVE DataInv'
<1>1. UNCHANGED <<entries, dma, command>> /\ op[p].at = "lock_mi"
  BY DEF LockMi, hardware
<1>2. CASE op[p].found /\ Goto(p, "done")
  BY <1>1, <1>2, MovedData DEF Where, Waiting
<1>3. CASE Goto(p, "lock_fdc")
  BY <1>1, <1>3, MovedData DEF Where, Waiting
<1>4. CASE op' = [op EXCEPT ![p] = Idle]
  BY <1>1, <1>4, IdleData
<1> QED
  BY <1>2, <1>3, <1>4 DEF LockMi

\* The driver is entered with nothing.
LEMMA LockFdcData == ASSUME MotorInv, DataInv, NEW p \in Proc, LockFdc(p) PROVE DataInv'
<1> DEFINE e == Restart(op[p], "seek", Retries, Retries, Retries, Retries)
<1>1. op[p] \in Op
  BY DEF MotorInv, Typed
<1>2. e.at = "seek"
  BY <1>1, RetriesIsInt, RestartType DEF Where
<1>3. op' = [op EXCEPT ![p] = e] /\ UNCHANGED <<entries, dma, command>>
  BY DEF LockFdc, Restart, hardware
<1> HIDE DEF e
<1> QED
  BY <1>2, <1>3, CarriesNothing DEF Waiting

\* A command is sent.
LEMMA SeekData == ASSUME MotorInv, DataInv, NEW p \in Proc, Seek(p) PROVE DataInv'
<1>1. op[p].at \in InDriver /\ UNCHANGED <<entries, dma>>
  BY DEF Seek, InDriver
<1>2. Send(p, "read") \/ Send(p, "recalibrate") \/ Send(p, "seek")
  BY DEF Seek
<1> QED
  BY <1>1, <1>2, SendData DEF Doing

\* The seek is sent.
LEMMA RecalibratedData ==
    ASSUME MotorInv, DataInv, NEW p \in Proc, Recalibrated(p) PROVE DataInv'
BY SendData DEF Recalibrated, InDriver, Doing

\* After the seek there is no data yet.
LEMMA SeekDoneData == ASSUME MotorInv, DataInv, NEW p \in Proc, SeekDone(p) PROVE DataInv'
<1> DEFINE left == Retry(op[p].sr, op[p].sh)
           e == IF left = <<>> THEN Moved(op[p], "failed") ELSE Reseek(op[p], left[1], left[2])
<1>1. op[p].at \in InDriver /\ op[p] \in Op /\ UNCHANGED <<entries, dma>>
  BY DEF SeekDone, InDriver, MotorInv, Typed
<1>2. left = <<>> \/ (left[1] \in Int /\ left[2] \in Int)
  BY <1>1, RetryType DEF Op
<1> HIDE DEF left
<1>3. CASE Send(p, "read")
  BY <1>1, <1>3, SendData DEF Doing
<1>4. CASE Goto(p, "failed") /\ UNCHANGED command
  BY <1>1, <1>4, MovedData DEF Where, Waiting
<1>5. CASE op' = [op EXCEPT ![p] = e] /\ UNCHANGED command
  <2>1. e.at \in {"failed", "seek"}
    BY <1>1, <1>2, MovedType, ReseekType DEF Where
  <2> HIDE DEF e
  <2> QED
    BY <1>1, <1>5, <2>1, CarriesNothing DEF Waiting
<1> QED
  BY <1>3, <1>4, <1>5 DEF SeekDone, left, Moved, Reseek

\* Here the result has to be in: the driver takes the buffer for the track it
\* asked for if the read ended well.
LEMMA ReadDoneData ==
    ASSUME DiskAnswers, MotorInv, DataInv, NEW p \in Proc, ReadDone(p)
    PROVE  DataInv'
<1> DEFINE left == Retry(op[p].r, op[p].h)
           e == IF left = <<>> THEN Moved(op[p], "failed")
                ELSE Restart(op[p], "seek", left[1], left[2], Retries, Retries)
           g == With(op[p], "got", dma)
<1>1. /\ op[p].at = "woken" /\ op[p].doing = "read" /\ op[p] \in Op
      /\ ~command.busy /\ UNCHANGED <<entries, dma, command>>
  BY DEF ReadDone, MotorInv, Typed, hardware
<1>2. left = <<>> \/ (left[1] \in Int /\ left[2] \in Int)
  BY <1>1, RetryType DEF Op
<1> HIDE DEF left
<1>3. CASE command.ok /\ op' = [op EXCEPT ![p] = g]
  <2>1. g.at = "got" /\ g.data = dma /\ g.d = op[p].d /\ g.b = op[p].b
    <3>1. dma \in Datum /\ "got" \in Where
      BY DEF MotorInv, Typed, Where
    <3> QED
      BY <1>1, <3>1, WithType
  <2> HIDE DEF g
  <2>2. Follows(op[p], command) /\ Transferred
    BY DEF DataInv
  <2>3. dma = <<op[p].d, Startblock(op[p].b)>>
    BY <1>1, <1>3, <2>2 DEF Follows, Transferred, Waiting
  <2>4. Follows(g, command') /\ Holds(g)
    BY <2>1, <2>3 DEF Follows, Holds, Waiting
  <2>5. Transferred' /\ Cached'
    BY <1>1 DEF DataInv, Transferred, Cached
  <2> QED
    BY <1>1, <1>3, <2>4, <2>5, OneProcessData
<1>4. CASE op' = [op EXCEPT ![p] = e]
  <2>1. e.at \in {"failed", "seek"}
    <3>1. CASE left = <<>>
      BY <1>1, <3>1, MovedType DEF Where
    <3>2. CASE left # <<>>
      BY <1>1, <1>2, <3>2, RestartType, RetriesIsInt DEF Where
    <3> QED
      BY <3>1, <3>2
  <2> HIDE DEF e
  <2> QED
    BY <1>1, <1>4, <2>1, CarriesNothing DEF Waiting
<1> QED
  BY <1>1, <1>3, <1>4 DEF ReadDone, left, Moved, Restart, With

\* The process leaves the driver with its track.
LEMMA UnlockFdcData == ASSUME MotorInv, DataInv, NEW p \in Proc, UnlockFdc(p) PROVE DataInv'
<1> DEFINE at == IF op[p].at = "got" THEN "fill" ELSE "error"
           e == Released(op[p], at)
<1>1. op[p] \in Op /\ op[p].at \in InDriver /\ UNCHANGED <<entries, dma>>
  BY DEF MotorInv, Typed, UnlockFdc, InDriver
<1>2. e.at = at /\ Same(e, op[p])
  BY <1>1, ReleasedType DEF Where
<1>3. op' = [op EXCEPT ![p] = e]
  BY DEF UnlockFdc, Released
<1> HIDE DEF e
<1>4. Holds(op[p])
  BY DEF DataInv
<1>5. Follows(e, command') /\ Holds(e)
  BY <1>2, <1>4 DEF Follows, Holds, Same, Waiting
<1>6. command' = command \/ ~command'.ok
  BY DEF UnlockFdc, NoCommand
<1>7. Transferred' /\ Cached'
  BY <1>1, <1>6 DEF DataInv, Transferred, Cached
<1> QED
  BY <1>1, <1>3, <1>5, <1>7, OneProcessData

\* Every block of the track goes under its own number.
LEMMA FillData == ASSUME MotorInv, DataInv, NEW p \in Proc, Fill(p) PROVE DataInv'
<1> DEFINE start == Startblock(op[p].b)
           x == Part(op[p].data, op[p].b - start)
<1>1. /\ op[p] \in Op /\ op[p].d \in Drive /\ op[p].b \in Int
      /\ op[p].at \in {"fill", "error"} /\ UNCHANGED <<command, dma>>
  BY DEF Fill, MotorInv, HasDrive, Typed, Op, hardware
<1>2. start \in Int
  BY <1>1, TrackIsInt
<1>3. ASSUME op[p].at = "fill", NEW c \in Int
      PROVE  Part(op[p].data, c - start) = <<op[p].d, c>>
  <2>1. op[p].data = <<op[p].d, start>>
    BY <1>3 DEF DataInv, Holds
  <2> HIDE DEF start
  <2>2. op[p].data # Null
    BY <1>1, <1>2, <2>1, DiskAssumption
  <2>3. op[p].data[1] = op[p].d /\ op[p].data[2] = start
    BY <2>1
  <2> QED
    BY <1>2, <2>2, <2>3 DEF Part
<1>4. CASE Goto(p, "return") /\ UNCHANGED entries
  BY <1>1, <1>4, MovedData DEF Where, Waiting
<1>5. ASSUME op[p].at = "fill",
             NEW n \in 0..NSec, entries' = [entries EXCEPT ![op[p].d] = Filled(p, n)],
             NEW e \in {With(op[p], "return", Null), With(op[p], "done", x)},
             op' = [op EXCEPT ![p] = e]
      PROVE  DataInv'
  <2>1. x = <<op[p].d, op[p].b>>
    BY <1>1, <1>3, <1>5
  <2>2. \/ e.at = "return"
        \/ e.at = "done" /\ e.data = <<op[p].d, op[p].b>> /\ e.d = op[p].d /\ e.b = op[p].b
    <3>1. "return" \in Where /\ "done" \in Where /\ Null \in Datum
      BY DEF Where, Datum
    <3>2. <<op[p].d, op[p].b>> \in Datum
      BY <1>1 DEF Datum
    <3>3. CASE e = With(op[p], "return", Null)
      BY <1>1, <3>1, <3>3, WithType
    <3>4. CASE e = With(op[p], "done", <<op[p].d, op[p].b>>)
      BY <1>1, <3>1, <3>2, <3>4, WithType
    <3> QED
      BY <1>5, <2>1, <3>3, <3>4
  <2>3. Follows(e, command') /\ Holds(e)
    BY <2>2 DEF Follows, Holds, Waiting
  <2>4. ASSUME NEW d \in Drive, NEW c \in Block, NEW i \in DOMAIN entries'[d][c]
        PROVE  entries'[d][c][i] = <<d, c>>
    <3> DEFINE old == entries[d][c]
    <3>1. \A j \in DOMAIN old : old[j] = <<d, c>>
      BY DEF DataInv, Cached
    <3>2. old \in Seq(Datum) /\ entries \in [Drive -> [Block -> Seq(Datum)]]
      BY DEF MotorInv, Typed
    <3>3. entries'[d][c] = old \/ entries'[d][c] = <<<<d, c>>>> \o old
      <4>1. CASE d # op[p].d
        BY <1>1, <1>5, <3>2, <4>1
      <4>2. CASE d = op[p].d
        <5>1. entries'[d] = Filled(p, n)
          BY <1>1, <1>5, <3>2, <4>2
        <5>2. Filled(p, n)[c] = old \/ Filled(p, n)[c] = <<Part(op[p].data, c - start)>> \o old
          BY <4>2 DEF Filled
        <5>3. c \in Int
          BY DiskAssumption DEF Block
        <5> QED
          BY <1>3, <1>5, <4>2, <5>1, <5>2, <5>3
      <4> QED
        BY <4>1, <4>2
    <3> HIDE DEF old
    <3>4. CASE entries'[d][c] = old
      BY <2>4, <3>1, <3>4
    <3>5. CASE entries'[d][c] = <<<<d, c>>>> \o old
      BY <2>4, <3>1, <3>2, <3>5
    <3> QED
      BY <3>3, <3>4, <3>5
  <2>5. Transferred' /\ Cached'
    BY <1>1, <2>4 DEF DataInv, Transferred, Cached
  <2> QED
    BY <1>1, <1>5, <2>3, <2>5, OneProcessData
<1> QED
  BY <1>1, <1>4, <1>5 DEF Fill, With

\* What the chain has is the block it is the chain of.
LEMMA SearchData ==
    ASSUME MotorInv, DataInv, NEW p \in Proc, NEW d \in Drive, NEW b \in Block, Search(p, d, b)
    PROVE  DataInv'
<1> DEFINE x == IF entries[d][b] = <<>> THEN Null ELSE entries[d][b][1]
           f == entries[d][b] # <<>>
           e == [Idle EXCEPT !.at = "lock_mi", !.d = d, !.b = b, !.found = f, !.data = x]
<1>1. entries[d][b] \in Seq(Datum)
  BY DEF MotorInv, Typed
<1>2. f => x = <<d, b>>
  <2>1. SUFFICES ASSUME f PROVE 1 \in DOMAIN entries[d][b]
    BY DEF DataInv, Cached
  <2> QED
    BY <1>1, <2>1
<1>3. op' = [op EXCEPT ![p] = e] /\ UNCHANGED <<entries, dma, command>>
  BY DEF Search, hardware
<1> HIDE DEF x, f
<1>4. e.at = "lock_mi" /\ e.d = d /\ e.b = b /\ e.found = f /\ e.data = x
  BY IdleIsOp DEF Op
<1> HIDE DEF e
<1>5. Follows(e, command') /\ Holds(e)
  BY <1>2, <1>4 DEF Follows, Holds, Waiting
<1>6. Transferred' /\ Cached'
  BY <1>3 DEF DataInv, Transferred, Cached
<1> QED
  BY <1>3, <1>5, <1>6, OneProcessData

\* The controller ends what was asked, whoever sleeps.
LEMMA InterruptData == ASSUME MotorInv, DataInv, Interrupt PROVE DataInv'
<1>1. entries' = entries /\ command \in Command
  BY DEF Interrupt, MotorInv, Typed
<1>2. /\ command'.what = command.what /\ command'.d = command.d
      /\ command'.start = command.start
      /\ command'.ok /\ command.what = "read" => dma' = <<command.d, command.start>>
  BY <1>1 DEF Interrupt, Command
<1>3. ASSUME NEW p \in Proc
      PROVE  Follows(op'[p], command') /\ Holds(op'[p])
  <2> DEFINE e == Moved(op[p], "woken")
  <2>1. op[p] \in Op /\ Follows(op[p], command) /\ Holds(op[p])
    BY DEF MotorInv, Typed, DataInv
  <2>2. e.at = "woken" /\ e.doing = op[p].doing /\ Same(e, op[p])
    BY <2>1, MovedType DEF Where
  <2>3. op'[p] = op[p] \/ (op[p].at = "asleep" /\ op'[p] = e)
    BY DEF Interrupt, Moved
  <2> HIDE DEF e
  <2>4. CASE op'[p] = op[p]
    BY <1>2, <2>1, <2>4 DEF Follows
  <2>5. CASE op[p].at = "asleep" /\ op'[p] = e
    BY <1>2, <2>1, <2>2, <2>5 DEF Follows, Holds, Same, Waiting
  <2> QED
    BY <2>3, <2>4, <2>5
<1>4. Transferred' /\ Cached'
  BY <1>1, <1>2 DEF Transferred, DataInv, Cached
<1> QED
  BY <1>3, <1>4 DEF DataInv

\* DataInv holds at first, and is inductive with MotorInv.
THEOREM DataInit == Init => DataInv
<1> SUFFICES ASSUME Init PROVE DataInv
  OBVIOUS
<1>1. \A p \in Proc : op[p] = Idle
  BY DEF Init
<1>2. \A d \in Drive, b \in Block : entries[d][b] = <<>>
  BY DEF Init
<1>3. ~command.ok
  BY DEF Init, NoCommand
<1>4. Cached
  BY <1>2 DEF Cached
<1> QED
  BY <1>1, <1>3, <1>4, IdleIsOp DEF DataInv, Follows, Holds, Transferred, Waiting

\* The one step that needs DiskAnswers is ReadDone.
THEOREM DataStep == DiskAnswers /\ MotorInv /\ DataInv /\ [Next]_vars => DataInv'
<1> SUFFICES ASSUME DiskAnswers, MotorInv, DataInv, [Next]_vars PROVE DataInv'
  OBVIOUS
<1>1. CASE UNCHANGED <<entries, dma, command, op>>
  BY <1>1 DEF DataInv, Follows, Holds, Transferred, Cached
<1>2. ASSUME NEW p \in Proc, Step(p) \/ Signal(p) PROVE DataInv'
  <2>1. CASE Sleep(p) \/ Signal(p)
    BY <2>1, MovedData DEF Sleep, Signal, hardware, Where, Waiting
  <2>2. CASE Return(p)
    BY <2>2, IdleData DEF Return, hardware
  <2> QED
    BY <1>2, <2>1, <2>2, LockMiData, LockFdcData, SeekData, RecalibratedData,
       SeekDoneData, ReadDoneData, UnlockFdcData, FillData DEF Step
<1>3. ASSUME NEW q \in Requests, Search(q[1], q[2], q[3]) PROVE DataInv'
  BY <1>3, SearchData, DiskAssumption DEF Block
<1>4. CASE DisableMotors \/ UNCHANGED vars
  BY <1>1, <1>4 DEF DisableMotors, vars, hardware
<1> QED
  BY <1>2, <1>3, <1>4, InterruptData DEF Next

\* For any number of processes, drives, retries and signals, and tracks of any
\* length: if the result is there while the driver polls for it, every entry of
\* the cache and every block a read returns is the one it is for
\* (buffercache_read(), fdc_read()).
THEOREM CacheAlwaysHoldsDisk == DiskAnswers => (Spec => []CacheHoldsDisk)
<1> SUFFICES ASSUME DiskAnswers PROVE Spec => []CacheHoldsDisk
  OBVIOUS
<1>1. Init => MotorInv /\ DataInv
  BY MotorInit, DataInit
<1>2. (MotorInv /\ DataInv) /\ [Next]_vars => (MotorInv /\ DataInv)'
  BY MotorStep, DataStep
<1>3. DataInv => CacheHoldsDisk
  BY DEF DataInv, Cached, Holds, CacheHoldsDisk
<1> QED
  BY <1>1, <1>2, <1>3, PTL DEF Spec
=============================================================================
