------------------------------- MODULE Files -------------------------------
(***************************************************************************)
(* Vnodes, the two chains that cache them, and the descriptors of          *)
(* processes: vfs_vnode.c, filedesc.c, and the system calls of sys_fd.c,   *)
(* sys_file.c, vfs_mount.c, sys_execve.c and sys_fork.c that use them.     *)
(*                                                                         *)
(* vnode_lookup() finds a vnode by name; failing that it stats the file,   *)
(* which sleeps for the disk, and looks for its inode; failing that it     *)
(* makes a vnode.  The chain lock is given back in between, so each is a   *)
(* step, and so is taking the lock of the vnode, which the caller then     *)
(* holds.  A call with the vnode locked is one step unless it needs        *)
(* another lock.                                                           *)
(*                                                                         *)
(* Left out: file data, permissions, descriptors that are not vnodes, and  *)
(* the lock of a descriptor, held only around single assignments.  Where   *)
(* the code goes on with a lock nobody gives back or with a NULL pointer,  *)
(* the model stops and "halt" says why.                                    *)
(***************************************************************************)
EXTENDS Integers, FiniteSets, FiniteSetsExt

CONSTANTS Proc, FirstProc,
          Inode, Dir, Device,   \* inodes; those of directories, of devices
          Name, InodeOf,        \* pathnames; InodeOf[n]: what is there
          Home,                 \* the directory the first process is in
          NSlots,               \* p->nr_of_fdesc
          Size,                 \* bound: the size of a file, in reads
          Lookups,              \* bound: the pairs of a call and the name it is given
          MaxCalls,             \* bound: system calls
          Null

\* The calls that are given a name.
Call == {"stat", "open_r", "open_w", "chdir", "mount", "exec"}

Slot == 0..(NSlots - 1)
\* A descriptor lives in the slot of the process that opened it.
Fdesc == Proc \X Slot

ASSUME FilesAssumption ==
    /\ IsFiniteSet(Proc) /\ FirstProc \in Proc
    /\ Dir \cup Device \subseteq Inode
    /\ InodeOf \in [Name -> Inode] /\ Home \in Dir
    /\ Lookups \subseteq Call \X Name
    /\ NSlots \in Nat \ {0} /\ Size \in Nat
    /\ Null \notin Proc \cup Inode \cup Fdesc

VARIABLES vnode,        \* vnode[i]: the vnode of inode i; its "there" says if there is one
          names,        \* names[n]: the inode of the vnode the name chain has
          vlock,        \* vlock[i]: owner of the lock of the vnode
          fdesc,        \* fdesc[x]: vnode, refcount, write mode and cur_ofs
          table,        \* table[p][s]: p->fdesc[s]
          cloexec,      \* cloexec[p]: slots with FD_CLOEXEC
          cwd,          \* cwd[p]: inode of p->currentdir_vnode
          op,           \* op[p]: what p is doing in the kernel
          calls,        \* bound: how many calls there were
          halt          \* why nothing is modelled from here on

cache == <<vnode, names>>
open  == <<fdesc, table, cloexec>>
vars  == <<cache, vlock, open, cwd, op, calls, halt>>

NoVnode == [there |-> FALSE, refcount |-> 0, write |-> 0, exec |-> 0, mounted |-> FALSE]
NoFdesc == [v |-> Null, refcount |-> 0, write |-> FALSE, ofs |-> 0]
NewVnode == [NoVnode EXCEPT !.there = TRUE]

\* at: the step; todo: the slots still to be closed; then: what follows.
User == [at |-> "user", call |-> "", name |-> Null, v |-> Null, slot |-> 0, ofs |-> 0,
         todo |-> {}, then |-> "user"]
Unused == [User EXCEPT !.at = "unused"]

Init ==
    /\ vnode = [i \in Inode |-> IF i = Home THEN [NewVnode EXCEPT !.refcount = 1] ELSE NoVnode]
    /\ names = [n \in Name |-> IF InodeOf[n] = Home THEN Home ELSE Null]
    /\ vlock = [i \in Inode |-> Null]
    /\ fdesc = [x \in Fdesc |-> NoFdesc]
    /\ table = [p \in Proc |-> [s \in Slot |-> Null]]
    /\ cloexec = [p \in Proc |-> {}]
    /\ cwd = [p \in Proc |-> IF p = FirstProc THEN Home ELSE Null]
    /\ op = [p \in Proc |-> IF p = FirstProc THEN User ELSE Unused]
    /\ calls = 0 /\ halt = ""

Called(p) == op[p] = User /\ calls < MaxCalls /\ calls' = calls + 1

Halt(why) == halt' = why /\ UNCHANGED <<cache, vlock, open, cwd, op, calls>>

(***************************************************************************)
(* vnode_lookup()                                                          *)
(***************************************************************************)
LookupName(p, call, n) ==
    /\ Called(p)
    /\ op' = [op EXCEPT ![p] = [User EXCEPT !.call = call, !.name = n, !.v = InodeOf[n],
                                   !.at = IF names[n] # Null THEN "lock" ELSE "stat"]]
    /\ UNCHANGED <<cache, vlock, open, cwd, halt>>

\* The file is gone, or reading the directory fails.
StatFails(p) ==
    /\ op[p].at = "stat"
    /\ op' = [op EXCEPT ![p] = User]
    /\ UNCHANGED <<cache, vlock, open, cwd, calls, halt>>

LookupInode(p) ==
    LET i == op[p].v
    IN  /\ op[p].at = "stat"
        /\ IF vnode[i].there
             THEN /\ names' = [names EXCEPT ![op[p].name] = i]
                  /\ op' = [op EXCEPT ![p].at = "lock"]
             ELSE /\ op' = [op EXCEPT ![p].at = "create"] /\ UNCHANGED names
        /\ UNCHANGED <<vnode, vlock, open, cwd, calls, halt>>

\* Made and locked without another look at the chains.
VnodeCreate(p) ==
    LET i == op[p].v
    IN  /\ op[p].at = "create"
        /\ IF vnode[i].there THEN Halt("two vnodes of one inode")
           ELSE /\ vnode' = [vnode EXCEPT ![i] = NewVnode]
                /\ names' = [names EXCEPT ![op[p].name] = i]
                /\ vlock' = [vlock EXCEPT ![i] = p]
                /\ op' = [op EXCEPT ![p].at = "have"]
                /\ UNCHANGED <<open, cwd, calls, halt>>

LockVnode(p) ==
    /\ op[p].at = "lock" /\ vlock[op[p].v] = Null
    /\ vlock' = [vlock EXCEPT ![op[p].v] = p]
    /\ op' = [op EXCEPT ![p].at = "have"]
    /\ UNCHANGED <<cache, open, cwd, calls, halt>>

Has(p, call) == op[p].at = "have" /\ op[p].call = call

Done(p) ==
    /\ vlock' = [vlock EXCEPT ![op[p].v] = Null]
    /\ op' = [op EXCEPT ![p] = User]
    /\ UNCHANGED <<names, calls, halt>>

\* An error, or a call that only looks at the vnode: stat(), readlink().
Refused(p) == Done(p) /\ UNCHANGED <<vnode, open, cwd>>

Stat(p) == Has(p, "stat") /\ Refused(p)

(***************************************************************************)
(* sys_open(): a file that is being executed is not opened for writing.    *)
(* Unknown flags, no memory, no free slot, or a device that does not open  *)
(* end in an error that takes back what was counted.                       *)
(***************************************************************************)
FreeSlots(p) == {s \in Slot : table[p][s] = Null}
FreeFdesc(p) == {x \in Fdesc : fdesc[x].refcount = 0}

NeverBusy(i) == FALSE                                   \* mutant

Busy(i) == vnode[i].exec > 0

\* first_unused_fdesc is only a hint, so any free slot may be the one.
OpenVnode(p, s, write) ==
    LET i == op[p].v  x == CHOOSE y \in FreeFdesc(p) : TRUE
    IN  /\ ~(write /\ Busy(i))
        /\ s \in FreeSlots(p)
        /\ vnode' = [vnode EXCEPT ![i].refcount = @ + 1,
                                  ![i].write = IF write THEN @ + 1 ELSE @]
        /\ fdesc' = [fdesc EXCEPT ![x] = [v |-> i, refcount |-> 1, write |-> write, ofs |-> 0]]
        /\ table' = [table EXCEPT ![p][s] = x]
        /\ cloexec' = [cloexec EXCEPT ![p] = @ \ {s}]
        /\ Done(p) /\ UNCHANGED cwd

Open(p) ==
    \E write \in BOOLEAN :
        /\ Has(p, IF write THEN "open_w" ELSE "open_r")
        /\ Refused(p) \/ \E s \in Slot : OpenVnode(p, s, write)

(***************************************************************************)
(* sys_chdir(): with the new directory locked, the old one is locked too   *)
(* to count it down, unless they are the same.  sys_chroot() does the same *)
(* with rootdir_vnode.                                                     *)
(***************************************************************************)
LocksAnyway(p) == TRUE                                  \* mutant

ChdirLocks(p) == cwd[p] # op[p].v

ChdirTo(p) ==
    /\ vnode' = [i \in Inode |->
         [vnode[i] EXCEPT !.refcount =
             @ + (IF i = op[p].v THEN 1 ELSE 0)
               - (IF i = cwd[p] /\ ChdirLocks(p) THEN 1 ELSE 0)]]
    /\ cwd' = [cwd EXCEPT ![p] = op[p].v]
    /\ Done(p) /\ UNCHANGED open

Chdir(p) ==
    /\ Has(p, "chdir")
    /\ IF op[p].v \notin Dir THEN Refused(p)
       ELSE IF ~ChdirLocks(p) THEN ChdirTo(p)
       ELSE /\ op' = [op EXCEPT ![p].at = "lock_old"]
            /\ UNCHANGED <<cache, vlock, open, cwd, calls, halt>>

ChdirLocked(p) == op[p].at = "lock_old" /\ vlock[cwd[p]] = Null /\ ChdirTo(p)

\* sys_fchdir() locks the one, then the other, never both.
Fchdir(p, s) ==
    LET i == fdesc[table[p][s]].v
    IN  /\ table[p][s] # Null
        /\ i \in Dir /\ i # cwd[p] /\ vlock[i] = Null /\ vlock[cwd[p]] = Null
        /\ Called(p)
        /\ vnode' = [vnode EXCEPT ![i].refcount = @ + 1, ![cwd[p]].refcount = @ - 1]
        /\ cwd' = [cwd EXCEPT ![p] = i]
        /\ UNCHANGED <<names, vlock, open, op, halt>>

(***************************************************************************)
(* vfs_mount() on a directory: every error leaves the vnode locked.        *)
(***************************************************************************)
Mount(p) ==
    LET i == op[p].v
    IN  /\ Has(p, "mount") /\ i \in Dir
        /\ \/ Halt("mount() left a vnode locked")
           \/ /\ ~vnode[i].mounted
              /\ vnode' = [vnode EXCEPT ![i].mounted = TRUE, ![i].refcount = @ + 1]
              /\ Done(p) /\ UNCHANGED <<open, cwd>>

(***************************************************************************)
(* fd_detach(), of the slots in op.todo: the last reference to a           *)
(* descriptor closes its vnode, whose lock that takes.                     *)
(***************************************************************************)
Closing(o, todo, then) ==
    IF todo # {} THEN [o EXCEPT !.at = "detach", !.todo = todo, !.then = then]
    ELSE IF then = "user" THEN User
    ELSE [o EXCEPT !.at = then, !.todo = {}]

\* proc_exit() closes from the last slot down, everybody else from the first up.
NextSlot(o) == IF o.then = "exit" THEN Max(o.todo) ELSE Min(o.todo)

LastReference(x) == fdesc[x].refcount = 1

Detach(p) ==
    LET s == NextSlot(op[p])  x == table[p][s]  i == fdesc[x].v
        last == LastReference(x)
    IN  /\ op[p].at = "detach"
        /\ last => vlock[i] = Null
        /\ \/ /\ fdesc' = IF last THEN [fdesc EXCEPT ![x] = NoFdesc]
                                  ELSE [fdesc EXCEPT ![x].refcount = @ - 1]
              /\ vnode' = IF last THEN [vnode EXCEPT ![i].refcount = @ - 1] ELSE vnode
              /\ table' = [table EXCEPT ![p][s] = Null]
              /\ op' = [op EXCEPT ![p] = Closing(op[p], op[p].todo \ {s}, op[p].then)]
              /\ UNCHANGED <<names, vlock, cloexec, cwd, calls, halt>>
           \/ /\ last /\ i \in Device /\ vnode[i].refcount = 1
              /\ Halt("a failed close left a vnode locked")

Close(p, s) ==
    /\ Called(p) /\ table[p][s] # Null
    /\ op' = [op EXCEPT ![p] = Closing(User, {s}, "user")]
    /\ UNCHANGED <<cache, vlock, open, cwd, halt>>

(***************************************************************************)
(* sys_dup2(), F_DUPFD, F_SETFD and sys_fork(): more references to one     *)
(* descriptor.                                                             *)
(***************************************************************************)
Dup(p, from, to) ==
    /\ fdesc' = [fdesc EXCEPT ![table[p][from]].refcount = @ + 1]
    /\ table' = [table EXCEPT ![p][to] = table[p][from]]

Dup2(p, from, to) ==
    /\ table[p][from] # Null
    /\ IF from = to THEN op[p] = User /\ Halt("dup2() followed a NULL pointer")
       ELSE /\ Called(p)
            /\ IF table[p][to] = Null
                 THEN Dup(p, from, to) /\ UNCHANGED op
                 ELSE /\ op' = [op EXCEPT ![p] =
                            Closing([User EXCEPT !.slot = from, !.ofs = to], {to}, "dup")]
                      /\ UNCHANGED <<fdesc, table>>
            /\ UNCHANGED <<cache, vlock, cloexec, cwd, halt>>

Fcntl(p, s) ==
    /\ Called(p) /\ table[p][s] # Null
    /\ \/ /\ FreeSlots(p) # {}
          /\ Dup(p, s, Min(FreeSlots(p)))
          /\ cloexec' = [cloexec EXCEPT ![p] = @ \ {Min(FreeSlots(p))}]
       \/ /\ cloexec' = [cloexec EXCEPT ![p] = @ \cup {s}]
          /\ UNCHANGED <<fdesc, table>>
    /\ UNCHANGED <<cache, vlock, cwd, op, halt>>

ShareWithoutCount(p) == fdesc                           \* mutant

Shared(p) ==
    [x \in Fdesc |-> [fdesc[x] EXCEPT !.refcount =
        @ + Cardinality({s \in Slot : table[p][s] = x})]]

Fork(p, c) ==
    /\ Called(p) /\ op[c] = Unused
    /\ fdesc' = Shared(p)
    /\ vnode' = [vnode EXCEPT ![cwd[p]].refcount = @ + 1]
    /\ table' = [table EXCEPT ![c] = table[p]]
    /\ cloexec' = [cloexec EXCEPT ![c] = cloexec[p]]
    /\ cwd' = [cwd EXCEPT ![c] = cwd[p]]
    /\ op' = [op EXCEPT ![c] = User]
    /\ UNCHANGED <<names, vlock, halt>>

DupAfterClose(p) ==
    /\ op[p].at = "dup"
    /\ Dup(p, op[p].slot, op[p].ofs)
    /\ op' = [op EXCEPT ![p] = User]
    /\ UNCHANGED <<cache, vlock, cloexec, cwd, calls, halt>>

(***************************************************************************)
(* sys_execve() and proc_exit().  The counts of an executed file stay up.  *)
(***************************************************************************)
Executable(i) == vnode[i].write = 0

Execve(p) ==
    LET i == op[p].v
    IN  /\ Has(p, "exec")
        /\ IF i \in Dir \cup Device \/ ~Executable(i) THEN Refused(p)
           ELSE \/ Refused(p)         \* not a program, or not read
                \/ /\ vnode' = [vnode EXCEPT ![i].exec = @ + 1, ![i].refcount = @ + 1]
                   /\ vlock' = [vlock EXCEPT ![i] = Null]
                   /\ op' = [op EXCEPT ![p] =
                          Closing(User, {s \in cloexec[p] : table[p][s] # Null}, "user")]
                   /\ UNCHANGED <<names, open, cwd, calls, halt>>

Exit(p) ==
    /\ op[p] = User
    /\ op' = [op EXCEPT ![p] = Closing(User, {s \in Slot : table[p][s] # Null}, "exit")]
    /\ UNCHANGED <<cache, vlock, open, cwd, calls, halt>>

\* Counted down without the lock of the directory.
Exited(p) ==
    /\ op[p].at = "exit"
    /\ vnode' = [vnode EXCEPT ![cwd[p]].refcount = @ - 1]
    /\ cwd' = [cwd EXCEPT ![p] = Null]
    /\ cloexec' = [cloexec EXCEPT ![p] = {}]
    /\ op' = [op EXCEPT ![p] = Unused]
    /\ UNCHANGED <<names, vlock, fdesc, table, calls, halt>>

(***************************************************************************)
(* sys_read() and sys_write() of a regular file: cur_ofs is copied, the    *)
(* transfer sleeps, and the copy moved on is written back.  Past the end   *)
(* the length left is negative, and taken as a size.                       *)
(***************************************************************************)
Transfer(p, s) ==
    LET x == table[p][s]
    IN  /\ Called(p) /\ x # Null
        /\ fdesc[x].v \notin Dir \cup Device
        /\ IF fdesc[x].ofs > Size THEN op' = op /\ halt' = "read beyond the end"
           ELSE /\ op' = [op EXCEPT ![p].at = "transfer", ![p].slot = s, ![p].ofs = fdesc[x].ofs]
                /\ UNCHANGED halt
        /\ UNCHANGED <<cache, vlock, open, cwd>>

Transferred(p) ==
    LET x == table[p][op[p].slot]
    IN  /\ op[p].at = "transfer"
        /\ \E n \in 0..(Size - op[p].ofs) : fdesc' = [fdesc EXCEPT ![x].ofs = op[p].ofs + n]
        /\ op' = [op EXCEPT ![p] = User]
        /\ UNCHANGED <<cache, vlock, table, cloexec, cwd, calls, halt>>

\* lseek() to the start, over the end, or by SEEK_END under the vnode's lock.
Lseek(p, s) ==
    LET x == table[p][s]
    IN  /\ Called(p) /\ x # Null
        /\ \E o \in {0, Size, Size + 1} :
              /\ o = Size => vlock[fdesc[x].v] = Null
              /\ fdesc' = [fdesc EXCEPT ![x].ofs = o]
        /\ UNCHANGED <<cache, vlock, table, cloexec, cwd, op, halt>>

Next ==
    /\ halt = ""
    /\ \E p \in Proc :
        \/ \E l \in Lookups : LookupName(p, l[1], l[2])
        \/ StatFails(p) \/ LookupInode(p) \/ VnodeCreate(p) \/ LockVnode(p)
        \/ Stat(p) \/ Open(p) \/ Chdir(p) \/ ChdirLocked(p) \/ Mount(p) \/ Execve(p)
        \/ \E s \in Slot : Fchdir(p, s) \/ Close(p, s) \/ Fcntl(p, s)
                           \/ Transfer(p, s) \/ Lseek(p, s)
        \/ \E s, t \in Slot : Dup2(p, s, t)
        \/ \E c \in Proc : Fork(p, c)
        \/ Detach(p) \/ DupAfterClose(p) \/ Exit(p) \/ Exited(p) \/ Transferred(p)

Spec == Init /\ [][Next]_vars

(***************************************************************************)
(* Properties                                                              *)
(***************************************************************************)
\* Slots name descriptors in use, and every step has the lock it needs.
TypeOK ==
    /\ \A i \in Inode : vlock[i] \in Proc \cup {Null}
    /\ \A n \in Name : names[n] \in {Null, InodeOf[n]}
    /\ \A p \in Proc :
          /\ \A s \in Slot : table[p][s] # Null => fdesc[table[p][s]].refcount > 0
          /\ op[p].at \in {"have", "lock_old"} => vlock[op[p].v] = p
          /\ (op[p].at = "unused") = (cwd[p] = Null)
    /\ \A i \in Inode : vnode[i].refcount \in Nat /\ vnode[i].write \in Nat

References(x) == Cardinality({ps \in Proc \X Slot : table[ps[1]][ps[2]] = x})
OpenOn(i) == {x \in Fdesc : fdesc[x].refcount > 0 /\ fdesc[x].v = i}

\* A descriptor counts the slots of all processes that name it, over fork,
\* dup2, close-on-exec and exit, so that it is freed with the last of them;
\* and a vnode counts at least its descriptors and the processes that are in
\* it, so that no device closes under an open descriptor (filedesc.c, vnode_close()).
CountsSafe ==
    /\ TypeOK
    /\ \A x \in Fdesc : fdesc[x].refcount = References(x)
    /\ \A i \in Inode : vnode[i].refcount >= Cardinality(OpenOn(i))
                                           + Cardinality({p \in Proc : cwd[p] = i})

\* No program runs from a file that a descriptor can write to: open() and
\* execve() refuse the second comer, whatever is closed in between.
NobodyWritesProgram ==
    \A x \in Fdesc : fdesc[x].refcount > 0 /\ fdesc[x].write => vnode[fdesc[x].v].exec = 0

\* Two processes wait for each other only where each changes into the
\* directory the other is in: no other call waits with a vnode locked.
WaitsFor(p) ==
    CASE op[p].at = "lock" -> vlock[op[p].v]
      [] op[p].at = "lock_old" -> vlock[cwd[p]]
      [] op[p].at = "detach" /\ LastReference(table[p][NextSlot(op[p])])
           -> vlock[fdesc[table[p][NextSlot(op[p])]].v]
      [] OTHER -> Null
LocksComeFree ==
    \A p, q \in Proc : WaitsFor(p) = q /\ WaitsFor(q) = p =>
        p # q /\ op[p].at = "lock_old" /\ op[q].at = "lock_old"
=============================================================================
