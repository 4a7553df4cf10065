-------------------------------- MODULE Sched -------------------------------
(***************************************************************************)
(* Processes: kern/proc.c with the callers that change process state,      *)
(* sys_exit() and sys_wait4() of kern/sys_proc.c, sys_fork() and           *)
(* machdep_fork(), sys_kill() and sig_post(), the switch at the end of     *)
(* syscall() and irq_dispatcher(), and the tick of kern/timer.c.           *)
(*                                                                         *)
(* There is one CPU.  A step is what the kernel does between two points    *)
(* where interrupts are enabled: at such a point an interrupt may come,    *)
(* wake processes and switch to another one.  A process that was switched  *)
(* away from goes on, when it is switched to, where pc[p] says.            *)
(*                                                                         *)
(* Left out: memory, descriptors and directories of a process (other       *)
(* modules), pids (Pids.tla), and the time before the first process runs.  *)
(***************************************************************************)
EXTENDS ProcQueues

CONSTANTS Chan,          \* addresses drivers sleep on
          Console,       \* a terminal nobody types at: a channel never woken
          Resident,      \* a process that may be asleep on it from the start
          First,         \* the process the others descend from
          Killable,      \* processes that may be the target of kill()
          Handling       \* processes that may install handlers and mask signals
                         \* (First has installed them at the beginning)

ASSUME ProcFinite == IsFiniteSet(Proc) /\ NULL \notin Proc
ASSUME StartOK == /\ First \in Proc /\ Resident \in Proc \ {First}
                  /\ Killable \cup Handling \subseteq Proc \ {Resident}
ASSUME AddressesDiffer == Console \notin Chan /\ (Chan \cup {Console}) \cap Proc = {}

VARIABLES
    links,                \* queue pointers (ProcQueues)
    status,               \* p->status; "unused": no such structure
    wchan,                \* p->wchan; p itself stands for &p->nr_of_children
    parent,               \* p->parent
    nr_of_children,       \* p->nr_of_children
    disposition,          \* what p does about a signal: default, caught, masked
    curproc, idle, in_pswitch, need_to_pswitch,
    pc,                   \* where p is in the kernel, "user" outside of it
    victim,               \* the process p reaps, exits or kills
    halt                  \* "no", or why nothing is modelled from here on

procVars  == <<status, wchan, parent, nr_of_children, disposition>>
cpuVars   == <<curproc, idle, in_pswitch, need_to_pswitch>>
whereVars == <<pc, victim>>
vars == <<links, procVars, cpuVars, whereVars, halt>>

Address == Proc \cup Chan \cup {Console}
Disposition == {"default", "caught", "masked"}
Alive(p) == status[p] \notin {"unused", "zombie"}

Init ==
    /\ \E r \in {NULL, Resident} :
          /\ status = [p \in Proc |-> IF p = First THEN "run"
                                      ELSE IF p = r THEN "sleep" ELSE "unused"]
          /\ links = LET l == InsertAfterHead(NoLinks, "run", First)
                     IN  IF r = NULL THEN l ELSE EnterSleepQueue(l, r)
          /\ wchan = [p \in Proc |-> IF p = r THEN Console ELSE NULL]
          /\ parent = [p \in Proc |-> IF p = r THEN First ELSE NULL]
          /\ nr_of_children = [p \in Proc |-> IF p = First /\ r # NULL THEN 1 ELSE 0]
    /\ disposition = [p \in Proc |-> IF p = First THEN "caught" ELSE "default"]
    /\ curproc = First
    /\ idle = FALSE /\ in_pswitch = FALSE /\ need_to_pswitch = FALSE
    /\ pc = [p \in Proc |-> "user"]
    /\ victim = [p \in Proc |-> NULL]
    /\ halt = "no"

\* curproc executes, rather than the idle loop on its stack.
Running(p) == halt = "no" /\ curproc = p /\ ~in_pswitch

\* sys_wait4() keeps interrupts disabled from its scan to its sleep, and from
\* its wakeup to the next scan; the idle loop enables them.
InterruptsOn == halt = "no" /\ (in_pswitch \/ pc[curproc] # "wait4")

(***************************************************************************)
(* pswitch(), called with the queues in l and need_to_pswitch in need.     *)
(***************************************************************************)
Launch(l) ==
    LET p == l.next[l.head["run"]] IN
    /\ links' = [l EXCEPT !.head["run"] = p]
    /\ curproc' = p
    /\ in_pswitch' = FALSE /\ need_to_pswitch' = FALSE

\* No process to run: the idle loop, on the stack of curproc.
StartIdle(l, need) ==
    /\ links' = l /\ need_to_pswitch' = need
    /\ idle' = TRUE /\ in_pswitch' = TRUE
    /\ UNCHANGED curproc

Pswitch(l, need) ==
    \/ /\ in_pswitch
       /\ links' = l /\ need_to_pswitch' = need
       /\ UNCHANGED <<curproc, idle, in_pswitch>>
    \/ /\ ~in_pswitch /\ l.head["run"] = NULL
       /\ StartIdle(l, need)
    \/ /\ ~in_pswitch /\ l.head["run"] # NULL
       /\ Launch(l)
       /\ UNCHANGED idle

\* The idle loop has seen idle = 0, and pswitch() goes on.
LeaveIdle ==
    /\ halt = "no" /\ in_pswitch /\ ~idle
    /\ Launch(links)
    /\ UNCHANGED <<procVars, idle, whereVars, halt>>

(***************************************************************************)
(* sleep(addr) by the running process.                                     *)
(***************************************************************************)
Sleep(p, addr) ==
    \/ /\ status[p] \notin {"run", "idl"}
       /\ UNCHANGED <<links, status, wchan, cpuVars, halt>>
    \/ /\ status[p] \in {"run", "idl"} /\ links.head["run"] # p
       /\ halt' = "sleep_panic"
       /\ UNCHANGED <<links, status, wchan, cpuVars>>
    \/ /\ status[p] \in {"run", "idl"} /\ links.head["run"] = p
       /\ status' = [status EXCEPT ![p] = "sleep"]
       /\ wchan' = [wchan EXCEPT ![p] = addr]
       /\ Pswitch(EnterSleepQueue(LeaveRunQueue(links, p), p), need_to_pswitch)
       /\ UNCHANGED halt

\* wakeup(addr): the processes of the sleep queue it moves, and how it moves
\* them, going once around the queue.
Sleepers(addr) ==
    {p \in Members(links, "sleep") : wchan[p] = addr \/ status[p] = "run"}

SecondRound(addr) ==
    LET r == Ring(links, "sleep")
        round[i \in 0..Len(r)] ==
            IF i = 0 THEN links
            ELSE IF r[i] \in Sleepers(addr) THEN Awaken(round[i-1], r[i])
            ELSE round[i-1]
    IN  round[Len(r)]

Awakened(addr) ==
    LET woken == Sleepers(addr) IN
    [links  |-> SecondRound(addr),
     status |-> [p \in Proc |-> IF p \in woken THEN "run" ELSE status[p]],
     wchan  |-> [p \in Proc |-> IF p \in woken THEN NULL ELSE wchan[p]],
     any    |-> woken # {}]

(***************************************************************************)
(* Interrupts.  A driver's handler wakes the sleepers of its channel and   *)
(* irq_dispatcher() switches if that asks for it.                          *)
(***************************************************************************)
StaysIdleWhenWoken(l) == idle       \* mutant: wakeup() leaves idle alone

\* wakeup() gives up at once when nobody sleeps.
StaysIdle(l) == idle /\ (links.head["sleep"] = NULL \/ l.head["run"] = NULL)

IrqWakeup(c) ==
    LET w    == Awakened(c)
        need == need_to_pswitch \/ w.any
    IN  /\ InterruptsOn
        /\ status' = w.status /\ wchan' = w.wchan
        /\ \/ /\ in_pswitch
              /\ links' = w.links /\ need_to_pswitch' = need
              /\ idle' = StaysIdle(w.links)
              /\ UNCHANGED <<curproc, in_pswitch>>
           \/ ~in_pswitch /\ need /\ Pswitch(w.links, need)
           \/ ~in_pswitch /\ ~need /\ UNCHANGED <<links, cpuVars>>
        /\ UNCHANGED <<parent, nr_of_children, disposition, whereVars, halt>>

\* A tick of timer() at which ticks_until_pswitch runs out.  The other ticks
\* change nothing here, and which tick it is depends on switchratio alone.
Tick ==
    /\ InterruptsOn
    /\ Pswitch(links, need_to_pswitch)
    /\ UNCHANGED <<procVars, whereVars, halt>>

(***************************************************************************)
(* Steps of the running process.  A pending switch is made at the end of   *)
(* the system call that asked for it, before anything else.                *)
(***************************************************************************)
Ready(p) ==
    /\ Running(p) /\ pc[p] = "user" /\ status[p] # "zombie"
    /\ ~need_to_pswitch

ReturnFromSyscall(p) ==
    /\ Running(p) /\ pc[p] = "user" /\ need_to_pswitch
    /\ Pswitch(links, need_to_pswitch)
    /\ UNCHANGED <<procVars, whereVars, halt>>

DriverSleep(p, c) ==
    /\ Ready(p)
    /\ Sleep(p, c)
    /\ UNCHANGED <<parent, nr_of_children, disposition, whereVars>>

\* sigaction() and sigprocmask().
SetDisposition(p, d) ==
    /\ Ready(p) /\ disposition[p] # d
    /\ disposition' = [disposition EXCEPT ![p] = d]
    /\ UNCHANGED <<links, status, wchan, parent, nr_of_children,
                   cpuVars, whereVars, halt>>

(***************************************************************************)
(* sys_fork().  The child copies status, wchan and the signal mask, not    *)
(* the handlers.  The address of its structure is one no process still     *)
(* points at; what happens to a pointer into reused memory is left out.    *)
(***************************************************************************)
Fresh(c) ==
    /\ c # Resident /\ status[c] = "unused"
    /\ \A q \in Proc : status[q] # "unused" => parent[q] # c /\ victim[q] # c

Fork(p, c) ==
    /\ Ready(p) /\ Fresh(c)
    /\ status' = [status EXCEPT ![c] = status[p]]
    /\ wchan' = [wchan EXCEPT ![c] = wchan[p]]
    /\ disposition' = [disposition EXCEPT ![c] =
                          IF disposition[p] = "masked" THEN "masked" ELSE "default"]
    /\ parent' = [parent EXCEPT ![c] = p]
    /\ nr_of_children' = [nr_of_children EXCEPT ![p] = @ + 1, ![c] = 0]
    /\ links' = InsertAfterHead(links, "run", c)
    /\ need_to_pswitch' = TRUE
    /\ UNCHANGED <<curproc, idle, in_pswitch, whereVars, halt>>

(***************************************************************************)
(* proc_exit(v, ..), run by process p in two steps: with interrupts        *)
(* enabled it marks v P_IDL and takes its memory and files; with           *)
(* interrupts disabled it moves v to the zombie queue and tells the        *)
(* parent.  The model stops when proc_exit() is entered for a process that *)
(* already went through it (its directory vnodes are released twice) and   *)
(* when freed memory is touched.                                           *)
(***************************************************************************)
ExitBegin(p, v, where) ==
    \/ /\ status[v] = "unused"
       /\ halt' = "freed"
       /\ UNCHANGED <<status, whereVars>>
    \/ /\ status[v] = "zombie"
       /\ halt' = "exit_twice"
       /\ UNCHANGED <<status, whereVars>>
    \/ /\ Alive(v)
       /\ status' = [status EXCEPT ![v] = "idl"]
       /\ pc' = [pc EXCEPT ![p] = where]
       /\ victim' = [victim EXCEPT ![p] = v]
       /\ UNCHANGED halt

\* wakeup_proc(q), with the queues in l and v already a zombie.
\* If q sleeps alone the sleep queue keeps it, and the model stops.
WakeupProc(q, l, st) ==
    \/ /\ status[q] = "sleep"
       /\ links' = AwakenProc(l, q)
       /\ status' = [st EXCEPT ![q] = "run"]
       /\ wchan' = [wchan EXCEPT ![q] = NULL]
       /\ halt' = IF l.next[q] = q THEN "sleepqueue_lost" ELSE halt
    \/ /\ status[q] # "sleep"
       /\ links' = l /\ status' = st
       /\ UNCHANGED <<wchan, halt>>

\* sig_post(.., SIGCHLD) without a handler is proc_exit() of the parent inside
\* the section that has interrupts disabled, where vm_object_free() -> lock()
\* panics, unless the parent's memory is already gone.
FatalToParent(q) ==
    IF status[q] \in {"run", "sleep"} THEN {"lock_panic"}
    ELSE IF status[q] = "idl" THEN {"lock_panic", "exit_twice"} ELSE {"exit_twice"}

NeverInWait4(q) == FALSE            \* mutant: the parent is always sent SIGCHLD

InWait4(q) == wchan[q] = q

NotifyParent(v, l, st) ==
    LET q == parent[v]
        quiet == links' = l /\ status' = st /\ UNCHANGED wchan
    IN  \/ /\ q = NULL
           /\ quiet /\ UNCHANGED halt
        \/ /\ q # NULL /\ status[q] = "unused"
           /\ halt' = "freed"
           /\ quiet
        \/ /\ q # NULL /\ status[q] # "unused" /\ InWait4(q)
           /\ WakeupProc(q, l, st)
        \/ /\ q # NULL /\ status[q] # "unused" /\ ~InWait4(q)
           /\ \/ /\ disposition[q] = "masked"
                 /\ quiet /\ UNCHANGED halt
              \/ /\ disposition[q] = "default"
                 /\ halt' \in FatalToParent(q)
                 /\ quiet
              \/ /\ disposition[q] = "caught"
                 /\ WakeupProc(q, l, st)

ExitFinish(v) ==
    \/ /\ ~Alive(v)
       /\ halt' = IF status[v] = "unused" THEN "freed" ELSE "exit_twice"
       /\ UNCHANGED <<links, status, wchan>>
    \/ /\ Alive(v)
       /\ NotifyParent(v, InsertAfterHead(RemoveFromAll(links, v), "zombie", v),
                       [status EXCEPT ![v] = "zombie"])

ExitStart(p) ==
    /\ Ready(p)
    /\ ExitBegin(p, p, "exit")
    /\ UNCHANGED <<links, wchan, parent, nr_of_children, disposition, cpuVars>>

ExitEnd(p) ==
    /\ Running(p) /\ pc[p] = "exit"
    /\ ExitFinish(victim[p])
    /\ pc' = [pc EXCEPT ![p] = "exited"]
    /\ UNCHANGED <<parent, nr_of_children, disposition, cpuVars, victim>>

\* sys_exit() switches away for good.
ExitSwitch(p) ==
    /\ Running(p) /\ pc[p] = "exited"
    /\ Pswitch(links, need_to_pswitch)
    /\ UNCHANGED <<procVars, whereVars, halt>>

(***************************************************************************)
(* sys_wait4(): scan the zombies for a child; sleep when there is none.    *)
(* proc_remove() of the child follows with interrupts enabled.             *)
(***************************************************************************)
Zombies == Ring(links, "zombie")

AnyZombie(p) == DOMAIN Zombies                 \* mutant: whoever is dead

ZombieChildren(p) == {i \in DOMAIN Zombies : parent[Zombies[i]] = p}

ChildrenLeft(p) == nr_of_children[p] - 1

Wait4(p) ==
    /\ Running(p)
    /\ (Ready(p) /\ nr_of_children[p] > 0) \/ pc[p] = "wait4"
    /\ \/ /\ \E i \in ZombieChildren(p) :
                /\ \A j \in ZombieChildren(p) : i <= j
                /\ victim' = [victim EXCEPT ![p] = Zombies[i]]
          /\ nr_of_children' = [nr_of_children EXCEPT ![p] = ChildrenLeft(p)]
          /\ pc' = [pc EXCEPT ![p] = "reap"]
          /\ UNCHANGED <<links, status, wchan, cpuVars, halt>>
       \/ /\ ZombieChildren(p) = {}
          /\ Sleep(p, p)
          /\ pc' = [pc EXCEPT ![p] = "wait4"]
          /\ UNCHANGED <<nr_of_children, victim>>
    /\ UNCHANGED <<parent, disposition>>

Reap(p) ==
    LET c == victim[p] IN
    /\ Running(p) /\ pc[p] = "reap"
    /\ links' = Discard(links, c)
    /\ status' = [status EXCEPT ![c] = "unused"]
    /\ wchan' = [wchan EXCEPT ![c] = NULL]
    /\ parent' = [parent EXCEPT ![c] = NULL]
    /\ nr_of_children' = [nr_of_children EXCEPT ![c] = 0]
    /\ pc' = [pc EXCEPT ![p] = "user", ![c] = "user"]
    /\ victim' = [victim EXCEPT ![p] = NULL, ![c] = NULL]
    /\ disposition' = [disposition EXCEPT ![c] = "default"]
    /\ UNCHANGED <<cpuVars, halt>>

(***************************************************************************)
(* sys_kill(): the target is looked up with interrupts disabled, and       *)
(* posted to after they are enabled again.                                 *)
(***************************************************************************)
KillLookup(p, v) ==
    /\ Ready(p)
    /\ \E q \in Queue : v \in Members(links, q)
    /\ pc' = [pc EXCEPT ![p] = "kill"]
    /\ victim' = [victim EXCEPT ![p] = v]
    /\ UNCHANGED <<links, procVars, cpuVars, halt>>

\* sig_post(): the signal is fatal if it is SIGKILL or has no handler.
KillPost(p) ==
    LET v == victim[p] IN
    /\ Running(p) /\ pc[p] = "kill"
    /\ \/ /\ status[v] = "unused"
          /\ halt' = "freed"
          /\ UNCHANGED <<links, status, wchan, whereVars>>
       \/ /\ ExitBegin(p, v, "killexit")
          /\ UNCHANGED <<links, wchan>>
       \/ /\ status[v] # "unused" /\ disposition[v] = "caught"
          /\ WakeupProc(v, links, status)
          /\ pc' = [pc EXCEPT ![p] = "user"]
          /\ victim' = [victim EXCEPT ![p] = NULL]
       \/ /\ status[v] # "unused" /\ disposition[v] = "masked"
          /\ pc' = [pc EXCEPT ![p] = "user"]
          /\ victim' = [victim EXCEPT ![p] = NULL]
          /\ UNCHANGED <<links, status, wchan, halt>>
    /\ UNCHANGED <<parent, nr_of_children, disposition, cpuVars>>

KillEnd(p) ==
    /\ Running(p) /\ pc[p] = "killexit"
    /\ ExitFinish(victim[p])
    /\ pc' = [pc EXCEPT ![p] = "user"]
    /\ victim' = [victim EXCEPT ![p] = NULL]
    /\ UNCHANGED <<parent, nr_of_children, disposition, cpuVars>>

\* A process that killed itself returns to user mode without memory: the page
\* fault is a SIGSEGV, a second proc_exit().
ZombieFault(p) ==
    /\ Running(p) /\ pc[p] = "user" /\ status[p] = "zombie"
    /\ halt' = "exit_twice"
    /\ UNCHANGED <<links, procVars, cpuVars, whereVars>>

Halted == halt # "no" /\ UNCHANGED vars

Next ==
    \/ LeaveIdle
    \/ \E c \in Chan : IrqWakeup(c)
    \/ Tick
    \/ \E p \in Proc :
          \/ ReturnFromSyscall(p)
          \/ ExitStart(p) \/ ExitEnd(p) \/ ExitSwitch(p)
          \/ Wait4(p) \/ Reap(p)
          \/ KillPost(p) \/ KillEnd(p) \/ ZombieFault(p)
    \/ \E p \in Proc, c \in Chan : DriverSleep(p, c)
    \/ \E p \in Handling, d \in Disposition : SetDisposition(p, d)
    \/ \E p, c \in Proc : Fork(p, c)
    \/ \E p \in Proc, v \in Killable : KillLookup(p, v)
    \/ Halted

Spec == Init /\ [][Next]_vars

-----------------------------------------------------------------------------
TypeOK ==
    /\ links \in Links
    /\ status \in [Proc -> {"unused", "run", "sleep", "idl", "zombie"}]
    /\ wchan \in [Proc -> Address \cup {NULL}]
    /\ parent \in [Proc -> Proc \cup {NULL}]
    /\ nr_of_children \in [Proc -> Nat]
    /\ disposition \in [Proc -> Disposition]
    /\ curproc \in Proc
    /\ idle \in BOOLEAN /\ in_pswitch \in BOOLEAN /\ need_to_pswitch \in BOOLEAN
    /\ pc \in [Proc -> {"user", "wait4", "reap", "exit", "exited", "kill", "killexit"}]
    /\ victim \in [Proc -> Proc \cup {NULL}]
    /\ halt \in {"no", "sleepqueue_lost", "sleep_panic", "lock_panic", "freed", "exit_twice"}

\* The three queues are rings that can be walked both ways and share nobody:
\* the pointer surgery of sleep(), wakeup(), wakeup_proc(), fork, proc_exit()
\* and proc_remove() fits together, until wakeup_proc() meets a lone sleeper.
QueuesSound ==
    /\ TypeOK
    /\ halt # "sleepqueue_lost" =>
          /\ \A q \in Queue : SoundQueue(links, q)
          /\ \A q, r \in Queue : q # r => Members(links, q) \cap Members(links, r) = {}

\* A process is on the queue its status says, so that whoever walks the queue
\* (pswitch(), wakeup(), wait4(), kill()) meets it; a process in the course of
\* proc_exit() is on one of the queues it came from.
QueueMatchesStatus ==
    LET on == [q \in Queue |-> Members(links, q)] IN
    \A p \in Proc :
        CASE status[p] = "unused" -> \A q \in Queue : p \notin on[q]
          [] status[p] = "idl"    -> p \in on["run"] \cup on["sleep"]
          [] OTHER                -> p \in on[status[p]]

\* The CPU idles exactly while nobody can run: pswitch() enters its idle loop
\* only with an empty run queue, every wakeup ends it, and it is left only with
\* a process to run ("pswitch: no runqueue, dangerous").
IdleOnlyWhenNobodyRuns ==
    /\ idle => in_pswitch /\ links.head["run"] = NULL
    /\ in_pswitch /\ ~idle => links.head["run"] # NULL

NoDeadChildMissed ==
    \A p \in Proc : status[p] = "sleep" /\ wchan[p] = p => ZombieChildren(p) = {}

ChildrenCounted ==
    \A p \in Proc : Alive(p) =>
        nr_of_children[p] = Cardinality({c \in Proc :
            /\ status[c] # "unused" /\ parent[c] = p
            /\ ~(pc[p] = "reap" /\ victim[p] = c)})

\* A parent asleep in wait4() has no dead child: neither the window between
\* its scan and its sleep, nor a child that dies while it is awake for another
\* reason, nor a masked SIGCHLD loses the wakeup.  And nr_of_children, by which
\* sys_wait4() decides on ECHILD, is the number of processes, living or dead,
\* whose parent it is and that wait4() has not taken.
ChildrenAccounted == NoDeadChildMissed /\ ChildrenCounted

\* Fork, exit, kill and wait4 together implement the life of a process: nobody
\* dies twice, a zombie stays until its own living parent reaps it, and a
\* reaped process is gone.  (Where the code breaks this the model has stopped.)
Life == INSTANCE ProcLife WITH alive  <- {p \in Proc : Alive(p)},
                               dead   <- {p \in Proc : status[p] = "zombie"},
                               mother <- parent

ImplementsProcLife == Life!Spec
=============================================================================
