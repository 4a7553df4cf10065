----------------------------- MODULE ProcQueues -----------------------------
(***************************************************************************)
(* The process queues of kern/proc.c as the code keeps them: every process *)
(* structure has a next and a prev pointer, and procqueue[i] points at one *)
(* member of a circular list.  The operators take and return the pointers  *)
(* as one record, links = [next, prev, head], so that the order of the     *)
(* assignments in the code can be followed.                                *)
(***************************************************************************)
EXTENDS Integers, Sequences, FiniteSets, SequencesExt

CONSTANTS Proc,   \* addresses of process structures
          NULL    \* the null pointer

Queue == {"run", "sleep", "zombie"}

Links == [next : [Proc -> Proc \cup {NULL}],
          prev : [Proc -> Proc \cup {NULL}],
          head : [Queue -> Proc \cup {NULL}]]

NoLinks == [next |-> [p \in Proc |-> NULL],
            prev |-> [p \in Proc |-> NULL],
            head |-> [q \in Queue |-> NULL]]

(***************************************************************************)
(* The members of a queue from its head on, in the order of next.          *)
(***************************************************************************)
Ring(l, q) ==
    LET walk[n \in 0..Cardinality(Proc)] ==
            IF n = 0 \/ l.head[q] = NULL THEN <<>>
            ELSE IF n = 1 THEN <<l.head[q]>>
            ELSE LET r == walk[n-1]
                     p == l.next[Last(r)]
                 IN  IF p = NULL \/ Contains(r, p) THEN r ELSE Append(r, p)
    IN  walk[Cardinality(Proc)]

Members(l, q) == ToSet(Ring(l, q))

\* p->prev->next = p->next; p->next->prev = p->prev;
Unlink(l, p) ==
    LET l1 == [l EXCEPT !.next[l.prev[p]] = l.next[p]]
    IN  [l1 EXCEPT !.prev[l1.next[p]] = l1.prev[p]]

\* p becomes the second of the queue, or its only member: the insertion that
\* wakeup(), wakeup_proc(), machdep_fork() and proc_exit() share.
InsertAfterHead(l, q, p) ==
    LET h  == l.head[q]
        l1 == [l EXCEPT !.next[p] = l.next[h], !.prev[p] = h]
        l2 == [l1 EXCEPT !.prev[l1.next[h]] = p]
    IN  IF h = NULL
          THEN [l EXCEPT !.next[p] = p, !.prev[p] = p, !.head[q] = p]
          ELSE [l2 EXCEPT !.next[h] = p]

\* sleep(): the running process leaves the run queue, whose head it is ...
LeaveRunQueue(l, p) ==
    LET l1 == [l EXCEPT !.prev[l.next[p]] = l.prev[p]]
        l2 == [l1 EXCEPT !.next[l1.prev[p]] = l1.next[p]]
    IN  IF l2.next[p] = p THEN [l2 EXCEPT !.head["run"] = NULL]
        ELSE [l2 EXCEPT !.head["run"] = l2.next[@]]

\* ... and is put before the head of the sleep queue, as its new head.
EnterSleepQueue(l, p) ==
    LET h  == l.head["sleep"]
        l1 == [l EXCEPT !.next[l.prev[h]] = p]
        l2 == [l1 EXCEPT !.prev[p] = l1.prev[h]]
        l3 == [l2 EXCEPT !.next[p] = h]
    IN  IF h = NULL
          THEN [l EXCEPT !.next[p] = p, !.prev[p] = p, !.head["sleep"] = p]
          ELSE [l3 EXCEPT !.prev[h] = p, !.head["sleep"] = p]

\* Mutant: the head always moves on.
AwakenLeavingHead(l, p) ==
    InsertAfterHead([Unlink(l, p) EXCEPT !.head["sleep"] = l.next[p]], "run", p)

\* wakeup(), second round, for one process of the sleep queue: unlike in
\* wakeup_proc() below, the last sleeper takes the queue with it.
Awaken(l, p) ==
    LET l1 == [Unlink(l, p) EXCEPT
                 !.head["sleep"] = IF l.next[p] = p THEN NULL ELSE l.next[p]]
    IN  InsertAfterHead(l1, "run", p)

\* wakeup_proc() for a process with status P_SLEEP.
AwakenProc(l, p) ==
    LET l1 == Unlink(l, p)
        l2 == IF l1.head["sleep"] = p
                THEN [l1 EXCEPT !.head["sleep"] = l1.next[p]] ELSE l1
    IN  InsertAfterHead(l2, "run", p)

\* proc_exit() takes p out of whichever queues hold it; the predecessor becomes
\* the head, so that a pswitch() goes on with the successor of p.
RemoveFrom(l, q, p) ==
    IF p \notin Members(l, q) THEN l
    ELSE IF l.next[p] = p THEN [l EXCEPT !.head[q] = NULL]
    ELSE [Unlink(l, p) EXCEPT !.head[q] = l.prev[p]]

\* Mutant: a process that exits is taken to be running.
RemoveFromRunQueue(l, p) == RemoveFrom(l, "run", p)

RemoveFromAll(l, p) ==
    RemoveFrom(RemoveFrom(RemoveFrom(l, "run", p), "sleep", p), "zombie", p)

\* proc_remove(): unlink a reaped process and free its structure.
Discard(l, p) ==
    LET l1 == Unlink(l, p)
        l2 == [l1 EXCEPT !.head = [q \in Queue |->
                  IF l1.head[q] # p THEN l1.head[q]
                  ELSE IF l1.next[p] = p THEN NULL ELSE l1.next[p]]]
    IN  [l2 EXCEPT !.next[p] = NULL, !.prev[p] = NULL]

(***************************************************************************)
(* A queue is sound when its pointers close up into one ring that can be   *)
(* walked both ways.                                                       *)
(***************************************************************************)
SoundQueue(l, q) ==
    LET ring == Ring(l, q) IN
    \A i \in DOMAIN ring :
        LET succ == ring[IF i = Len(ring) THEN 1 ELSE i + 1]
        IN  l.next[ring[i]] = succ /\ l.prev[succ] = ring[i]
=============================================================================
