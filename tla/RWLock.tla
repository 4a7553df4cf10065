------------------------------- MODULE RWLock -------------------------------
(***************************************************************************)
(* What kern/lock.c promises its callers: a table of resources, each held  *)
(* by any number of readers or by one writer.  A call either gets the      *)
(* resource in one step or has not got it yet; nothing is said of how the  *)
(* caller waits.  Lock.tla is shown to implement this specification.       *)
(***************************************************************************)
CONSTANTS Proc,   \* processes that call lock() and unlock()
          Locks   \* the lockstructs

VARIABLES readers,  \* readers[l]: processes holding l with LOCK_RO
          writers   \* writers[l]: processes holding l with LOCK_RW

absVars == <<readers, writers>>

AbsInit ==
    /\ readers = [l \in Locks |-> {}]
    /\ writers = [l \in Locks |-> {}]

AcquireRead(p, l) ==
    /\ writers[l] = {}
    /\ p \notin readers[l]
    /\ readers' = [readers EXCEPT ![l] = @ \cup {p}]
    /\ UNCHANGED writers

AcquireWrite(p, l) ==
    /\ writers[l] = {} /\ readers[l] = {}
    /\ writers' = [writers EXCEPT ![l] = {p}]
    /\ UNCHANGED readers

Release(p, l) ==
    \/ /\ p \in readers[l]
       /\ readers' = [readers EXCEPT ![l] = @ \ {p}]
       /\ UNCHANGED writers
    \/ /\ p \in writers[l]
       /\ writers' = [writers EXCEPT ![l] = @ \ {p}]
       /\ UNCHANGED readers

AbsNext ==
    \E p \in Proc, l \in Locks :
        AcquireRead(p, l) \/ AcquireWrite(p, l) \/ Release(p, l)

AbsSpec == AbsInit /\ [][AbsNext]_absVars
=============================================================================
