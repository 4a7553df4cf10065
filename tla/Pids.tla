-------------------------------- MODULE Pids --------------------------------
(***************************************************************************)
(* Process ids: get_unused_pid() and remove_pid() of kern/sys_fork.c and   *)
(* the lives of the pids they hand out, from sys_fork() to proc_remove().  *)
(*                                                                         *)
(* Both functions work under pidbitmap_lock with interrupts enabled, so a  *)
(* scan is many steps, and any number of other calls may be under way: in  *)
(* the loop of lock(), or between a failed fork and its remove_pid().      *)
(* A slot is one process from the fork that makes it to its removal.       *)
(***************************************************************************)
EXTENDS Integers, FiniteSets

CONSTANTS Slot,               \* processes there can be at a time
          PID_MIN, PID_MAX

ASSUME PidRange == /\ PID_MIN \in Nat \ {0} /\ PID_MAX \in Nat
                   /\ PID_MIN <= PID_MAX

PidRangeSet == PID_MIN..PID_MAX

VARIABLES pidbitmap,          \* the pids whose bit is set
          pidbitmap_lock,     \* the slot that holds it, as a set
          lastpid,
          oldlastpid,         \* where the scan of a slot began
          pid,                \* p->pid, and child_pid before that
          stage               \* where a slot is in its life

vars == <<pidbitmap, pidbitmap_lock, lastpid, oldlastpid, pid, stage>>

Stage == {"none", "get", "scan", "found", "fork", "alive", "remove", "clear"}

Init ==
    /\ pidbitmap = {} /\ pidbitmap_lock = {}
    /\ lastpid = PID_MIN
    /\ oldlastpid = [s \in Slot |-> PID_MIN]
    /\ pid = [s \in Slot |-> 0]
    /\ stage = [s \in Slot |-> "none"]

\* lock() and unlock() of pidbitmap_lock: see Lock.tla.
LockFreeAnyway == TRUE          \* mutant: no lock

LockFree == pidbitmap_lock = {}

(***************************************************************************)
(* get_unused_pid()                                                        *)
(***************************************************************************)
ForkBegin(s) ==
    /\ stage[s] = "none"
    /\ stage' = [stage EXCEPT ![s] = "get"]
    /\ UNCHANGED <<pidbitmap, pidbitmap_lock, lastpid, oldlastpid, pid>>

\* lastpid may have been left at PID_MAX + 1.
LastpidInRange == IF lastpid \in PidRangeSet THEN lastpid ELSE PID_MIN

GetLock(s) ==
    /\ stage[s] = "get" /\ LockFree
    /\ pidbitmap_lock' = {s}
    /\ lastpid' = LastpidInRange
    /\ oldlastpid' = [oldlastpid EXCEPT ![s] = LastpidInRange]
    /\ stage' = [stage EXCEPT ![s] = "scan"]
    /\ UNCHANGED <<pidbitmap, pid>>

\* Mutant: the wrap misses the last pid.
NextPidEarly(n) == IF n + 1 >= PID_MAX THEN PID_MIN ELSE n + 1

NextPid(n) == IF n + 1 > PID_MAX THEN PID_MIN ELSE n + 1

ScanUsed(s) ==
    /\ stage[s] = "scan" /\ lastpid \in pidbitmap
    /\ NextPid(lastpid) # oldlastpid[s]
    /\ lastpid' = NextPid(lastpid)
    /\ UNCHANGED <<pidbitmap, pidbitmap_lock, oldlastpid, pid, stage>>

ScanFree(s) ==
    /\ stage[s] = "scan" /\ lastpid \notin pidbitmap
    /\ pid' = [pid EXCEPT ![s] = lastpid]
    /\ stage' = [stage EXCEPT ![s] = "found"]
    /\ UNCHANGED <<pidbitmap, pidbitmap_lock, lastpid, oldlastpid>>

MarkNothing(s) == pidbitmap      \* mutant: the bit is left to the caller

Mark(s) == pidbitmap \cup {pid[s]}

Found(s) ==
    /\ stage[s] = "found"
    /\ pidbitmap' = Mark(s)
    /\ lastpid' = lastpid + 1
    /\ pidbitmap_lock' = {}
    /\ stage' = [stage EXCEPT ![s] = "fork"]
    /\ UNCHANGED <<oldlastpid, pid>>

\* "no more free PIDs!": 0 is returned, and sys_fork() goes on with it.
ScanFails(s) ==
    /\ stage[s] = "scan" /\ lastpid \in pidbitmap
    /\ NextPid(lastpid) = oldlastpid[s]
    /\ lastpid' = NextPid(lastpid)
    /\ pid' = [pid EXCEPT ![s] = 0]
    /\ pidbitmap_lock' = {}
    /\ stage' = [stage EXCEPT ![s] = "fork"]
    /\ UNCHANGED <<pidbitmap, oldlastpid>>

(***************************************************************************)
(* sys_fork() succeeds, or runs out of memory and gives the pid back; a    *)
(* process that wait4() has collected is proc_remove()d.                   *)
(***************************************************************************)
ForkDone(s) ==
    /\ stage[s] = "fork"
    /\ stage' = [stage EXCEPT ![s] = "alive"]
    /\ UNCHANGED <<pidbitmap, pidbitmap_lock, lastpid, oldlastpid, pid>>

RemoveBegin(s) ==
    /\ stage[s] \in {"fork", "alive"}
    /\ stage' = [stage EXCEPT ![s] = "remove"]
    /\ UNCHANGED <<pidbitmap, pidbitmap_lock, lastpid, oldlastpid, pid>>

(***************************************************************************)
(* remove_pid()                                                            *)
(***************************************************************************)
RemoveOutOfRange(s) ==
    /\ stage[s] = "remove" /\ pid[s] \notin PidRangeSet
    /\ pid' = [pid EXCEPT ![s] = 0]
    /\ stage' = [stage EXCEPT ![s] = "none"]
    /\ UNCHANGED <<pidbitmap, pidbitmap_lock, lastpid, oldlastpid>>

RemoveLock(s) ==
    /\ stage[s] = "remove" /\ pid[s] \in PidRangeSet /\ LockFree
    /\ pidbitmap_lock' = {s}
    /\ stage' = [stage EXCEPT ![s] = "clear"]
    /\ UNCHANGED <<pidbitmap, lastpid, oldlastpid, pid>>

RemoveClear(s) ==
    /\ stage[s] = "clear"
    /\ pidbitmap' = pidbitmap \ {pid[s]}
    /\ pid' = [pid EXCEPT ![s] = 0]
    /\ pidbitmap_lock' = {}
    /\ stage' = [stage EXCEPT ![s] = "none"]
    /\ UNCHANGED <<lastpid, oldlastpid>>

Next == \E s \in Slot :
    \/ ForkBegin(s) \/ GetLock(s) \/ ScanUsed(s) \/ ScanFree(s) \/ Found(s)
    \/ ScanFails(s) \/ ForkDone(s) \/ RemoveBegin(s)
    \/ RemoveOutOfRange(s) \/ RemoveLock(s) \/ RemoveClear(s)

Spec == Init /\ [][Next]_vars

-----------------------------------------------------------------------------
TypeOK ==
    /\ pidbitmap \subseteq PidRangeSet
    /\ pidbitmap_lock \in SUBSET Slot
    /\ lastpid \in PID_MIN..(PID_MAX + 1)
    /\ oldlastpid \in [Slot -> PidRangeSet]
    /\ pid \in [Slot -> PidRangeSet \cup {0}]
    /\ stage \in [Slot -> Stage]

\* A pid belongs to one process at a time: get_unused_pid() returns one
\* "guaranteed to not be used by any other process" (sys_fork.c:105-106), while
\* other processes fork, fail to fork and are removed during its scan.
PidsUnique ==
    \A s, t \in Slot : s # t /\ pid[s] = pid[t] => pid[s] = 0

\* The bitmap holds just the pids of the processes: none leaks when a fork fails
\* or a process goes, and none in use is given up.
BitmapAgrees ==
    pidbitmap = {pid[s] : s \in {t \in Slot : stage[t] # "found"}} \ {0}

\* get_unused_pid() gives up only when no pid is free, wherever lastpid was and
\* whatever was freed before.
GivesUpOnlyWhenFull ==
    [][\A s \in Slot : stage[s] = "scan" /\ stage'[s] = "fork" /\ pid'[s] = 0
           => pidbitmap = PidRangeSet]_vars
=============================================================================
