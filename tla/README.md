# Yoctix 0.0.84: TLA+ models, checks and proofs

Yoctix is a small Unix kernel for the i386 (with the beginnings of a mac68k
port). It runs on one CPU; its processes share kernel memory, and most of what
can go wrong between two lines of C does so because an interrupt came in
between. This directory models its core in TLA+, checks the models with TLC on
small instances, and proves part of the results for every instance with TLAPS.
Paths below are relative to `src/src/sys` unless they say otherwise.

## 1. The system

| part | files | state | operations | who calls it |
|---|---|---|---|---|
| processes, scheduler | `kern/proc.c`, `arch/i386/proc.c`, `kern/syscall.c` | `procqueue[]` (run, sleep, zombie rings), `curproc`, `idle`, `in_pswitch`, `need_to_pswitch`; per process `status`, `wchan`, `parent`, `nr_of_children` | `pswitch`, `sleep`, `wakeup`, `wakeup_proc`, `proc_alloc`, `proc_exit`, `proc_remove`, `machdep_fork` | every system call, every driver, every interrupt |
| fork, wait, signals | `kern/sys_fork.c`, `kern/sys_proc.c`, `kern/signal.c`, `kern/sys_sig.c` | `sigmask`, `sigacts`, `siglist` | `sys_fork`, `sys_exit`, `sys_wait4`, `sys_kill`, `sig_post`, `sig_deliver` | system calls; `proc_exit` posts SIGCHLD |
| process ids | `kern/sys_fork.c` | `pidbitmap`, `lastpid`, `pidbitmap_lock` | `get_unused_pid`, `remove_pid` | fork, `proc_remove` |
| locks | `kern/lock.c` | `lockstruct` in pids, vnodes, descriptors, vm objects, `fdc`, ... | `lock`, `unlock` | everything above the scheduler |
| timer | `kern/timer.c` | `first_twc`, clock | `timer`, `timer_sleep`, `timer_ksleep` | clock interrupt; `nanosleep`, block cache, floppy |
| memory allocator | `kern/malloc.c` | MCB array, search positions | `malloc`, `free` | everything |
| virtual memory | `vm/*.c`, `kern/sys_mmap.c`, `arch/i386/pmap.c` | objects with shadow chains and page chains, regions, page tables | fork, fault, map, unmap, break, exit | fork, exec, exit, page faults |
| vnodes, descriptors | `vfs/vfs_vnode.c`, `kern/filedesc.c`, `kern/sys_fd.c`, `kern/sys_file.c` | two vnode chains, reference counts, `fdesc[]` | lookup, create, open, close, dup2, chdir, read, lseek | system calls, exec, exit |
| block cache | `vfs/vfs_block.c` | `bcache_chain` | read, flush | file systems |
| mounts, paths | `vfs/vfs_mount.c`, `vfs/vfs_stat.c`, `vfs/vfs_namei.c` | chain of mount instances | mount, walk a path | `init_main`, lookup |
| file systems | `modules/fs/*` | volumes on disk; devfs and procfs have none | stat, name to inode, read, list | paths, `read`, `getdirentries` |
| terminals | `kern/terminal.c` | input ring, output buffer | read, write, input from interrupt | console, serial |
| console | `modules/bus/isa/pccon/*` | `pccon_vc[]`, current console, video memory, lock keys | print, scroll, switch, keyboard interrupt | terminals, `printk` |
| ISA drivers | `modules/bus/isa/*` | motors, tracks, expected interrupt | init, read sectors, interrupt handler | block cache, boot |
| registries | `reg/*.c` | lists of modules, devices, irqs, ports, dma channels | register, unregister | the init functions, `open` |
| exec, emulation | `kern/sys_execve.c`, `modules/emul/*` | | set up regions and the stack | `execve` |
| small calls, kdb, std, userland | the rest | | sequential | |

**How the parts interact.** A process enters the kernel by `syscall()`. It runs
there until it sleeps, is switched away from by an interrupt, or returns; a
system call that has set `need_to_pswitch` ends in `pswitch()`. Interrupts are
enabled in the kernel except where the code disables them, so any interrupt
handler may run between two instructions, wake sleepers, and, at the end of
`irq_dispatcher()` or of `timer()`, switch to another process in the middle of
the first one's system call. Critical sections are therefore of two kinds:
short ones with interrupts disabled (queues, allocator, timer chain, the
fields of a lock), and long ones under a `lockstruct`.

**What is hard.** (1) The queues are edited by eight pieces of code that each
spell out the pointer assignments. (2) `sleep()`/`wakeup()` pairs: the
condition is tested before the sleep. (3) `proc_exit()` runs for the caller,
for a `kill()` victim, for a page fault, and recursively for a parent.
(4) Pointers to processes outlive the section in which they were looked up.
(5) The timer chain stores differences, and functions it calls edit it.
(6) Locks spin with interrupts enabled, and a killed holder never unlocks.
(7) Reference counts of vnodes, descriptors and vm objects are changed on many
paths, the failing ones included, and decide what is freed. (8) Some pairs of
locks are taken without an order. (9) A driver waits for its interrupt with
`sleep()`, which a signal ends as well. (10) The console is printed on with
interrupts enabled, and the keyboard interrupt switches and scrolls it.
(11) Each init function backs out in code of its own. `PROJECT.json` lists
these, each at its line.

**What makes each part correct.** Scheduler: every process is on the queue its
status names, and a process that can run is reached by `pswitch()`; a parent
asleep in `wait4()` has no dead child; nobody dies twice. Pids: unique, none
leaks. Locks: a writer is alone, the counters agree with the holders, a caller
that waits gets in. Timer: an alarm goes off exactly when it is due whatever
happens to the others. Allocator: blocks do not overlap, all memory comes back.
Vm: each process has a memory of its own; a count equals the number of
references; no frame leaks. Vnodes: a descriptor lives as long as its users, no
device closes under one. Disks: what a read returns is the block that was asked
for, and it returns. Registries: nothing has two owners, nobody takes another's.
File systems and paths: names and offsets lead where the tree and the file say.
Console: a screen shows what was printed on it.

## 2. The modules

| module | models |
|---|---|
| `RWLock` | abstract: a table of read/write locks |
| `Lock` | `kern/lock.c`; implements `RWLock` |
| `ProcQueues` | the three rings and the pointer edits of `kern/proc.c`, as operators on a record `[next, prev, head]` |
| `ProcLife` | abstract: birth, death and funeral of processes |
| `Sched` | processes, CPU, interrupts, fork, exit, wait4, kill; implements `ProcLife` |
| `SchedProofs` | proofs about `Sched` and `ProcQueues` |
| `Pids` | `get_unused_pid()`, `remove_pid()` and their callers |
| `Alarms` | abstract: alarms that count down independently |
| `Timer` | `kern/timer.c` and its users; implements `Alarms` |
| `PidsTimerProofs` | proofs about `Pids` and about `Timer` |
| `Heap` | abstract: blocks of memory handed out and taken back |
| `Malloc` | `kern/malloc.c`; implements `Heap` |
| `LockMallocProofs` | proofs about `Lock` and about `Malloc` |
| `Tty` | abstract: a queue of characters with lines and erasing |
| `Terminal` | the input side of `kern/terminal.c`; implements `Tty` |
| `TerminalProofs` | proofs about `Terminal`, and about the output buffer and the screens of `Console` |
| `PrivateMemory` | abstract: a memory per process |
| `Vm` | `vm/*.c`, `kern/sys_mmap.c`, the regions and pages of `execve()`, `exit()`; implements `PrivateMemory` |
| `VmProofs` | proofs about `Vm` |
| `Files` | vnodes, their chains and locks, descriptors and the calls on them |
| `FilesProofs` | proofs about `Files` |
| `Disk` | `buffercache_read()` over the floppy driver, its interrupt and its motor alarm |
| `DiskProofs` | proofs about `Disk` |
| `Registry` | `reg/*.c`: what can be claimed, and how it is given back |
| `Boot` | the init functions of all modules and the mounts of the boot; extends `Registry` |
| `BootProofs` | proofs about `Boot` |
| `Ffs`, `Msdosfs`, `FakeDirs` | reading and naming in each file system, as functions |
| `Paths` | the walk of a path over mounts; extends `Ffs`, `FakeDirs` |
| `UserSpace` | `vm_prot.c`, the search for room, the stack of `execve()` |
| `Numbers` | `snprintf()`, dates, disk geometry |
| `Lookups` | asks all of these, and states what the answers should be |
| `Console` | `terminal_write()` and `pccon`: output against keyboard and switches |
| `MC*` | the instances TLC checks |

### Lock
`lock()` works with interrupts disabled, so its test and the acquisition are
one step (`LockAtOnce`, `LockRefused`, `LockBlocks`); the loop enables
interrupts between tests, so a blocked call is a state (`waiting`) from which
`SpinAcquires` is a later step. `hold` is not in the code: it is what the
callers believe, and what the counters are compared with. `unlock()` decides by
the fields alone whether it ends a read or a write lock (`ReleaseWrite`,
`ReleaseRead`), and may panic; a panic is a disabled step, which the deadlock
check of the run would report. The callers are taken to unlock only what they
locked and to nest in one order, as the call sites do.

### Sched
A step is what the code does between two points at which interrupts are
enabled. `pc[p]` says where in the kernel a process is that may be switched
away from: after the first half of `proc_exit()` (`exit`), after the second
(`exited`), asleep in `wait4()`, between the scan and the removal of a child
(`reap`), between lookup and posting of a signal (`kill`), and in the
`proc_exit()` of a victim (`killexit`). `Pswitch` has the three outcomes of the
code: return at once inside the idle loop, start the idle loop (the CPU stays
on the stack of the process that called), or switch. `IrqWakeup` is a driver's
interrupt with the switch at the end of `irq_dispatcher()`; `Tick` is a timer
interrupt that switches; `DriverSleep` is any sleep on a driver's channel.
`wakeup()`'s two rounds are `Sleepers` and `SecondRound`, which goes once around
the sleep queue and moves those with `Awaken`.

`halt` says why nothing is modelled from a state on: the sleep queue is lost
(`wakeup_proc()` of the last sleeper), a panic in `sleep()` or `lock()`,
freed memory touched, or a second `proc_exit()` of a process. These states are
reachable in the code; section 5 says how. The properties hold in these states
too, except `QueuesSound`, which excludes the lost sleep queue by name.

Left out: memory and descriptors of a process, which are in `Vm` and `Files`; the user side
of signal handlers (a caught signal only wakes); reuse of the memory of a
process structure while somebody still points at it (`Fresh`).

### Pids
The scan runs with interrupts enabled under a lock, so each iteration is a
step. `RemoveBegin` from stage `fork` is a fork that failed for want of memory.
The stages `found` and `clear` are the half-finished states inside the lock.

### Timer
The chain is a sequence of entries, each with the ticks to wait after the one
before. `Insert`, `Without` and `timer` follow the loops of the code. `left` is
not in the code: it is how long a sleeper still has to sleep, against which the
chain is judged. `flushing` records whether `malloc()` has ever failed for the
block cache's alarm.

### Malloc
Both functions run with interrupts disabled: a call is a step. `mcb_size` and
`bitmap` are the fields of the control blocks, `live` is not in the code: it is
what the callers hold. The two scans are given by what they find (`RunsFound`,
`PagesFound`): the first fit in scan order from the search position of the size
class, with the code's rules on where a scan starts afresh and where it gives
up. `MakeVmObjectPage` is the vm writing its own code over the size of a page.
`free()` is enabled only where none of its panics strikes; that it always is,
is `BlocksCanBeFreed`.

### Terminal
The keyboard interrupt is a step (`TypeChar`, `EraseChars`). A canonical reader
has interrupts disabled from its scan to its sleep or return (`ReadLine`,
`SleepForLine`); a raw reader has not, so its test, its sleep, the load of a
character and the wrap of `inputtail` are steps (`Read`, `SleepForChar`,
`CopyLoop`, `Take`, `Wrap`). `SetTermio` is an ioctl of any process at any time.
`taken` is not in the code: it is what a step copied to a reader's buffer. `halt`
names the ends the code has no state for: a character added to a full ring
(`overrun`), an erase at position 0 that reads `inputbuf[-1]` and does not stop
there (`head_lost`; that it may stop is the other outcome), a read of length 0
that loops with interrupts disabled (`spins`), a read at `inputbuf[MAX_INPUT]`
(`outside`), and two readers or a reader and an erase that take the same
character (`race`).

### Vm
All of it runs with interrupts enabled but `fork()`, so a fault is a step per
object it searches, and `vm_object_free()` a step per lock and per decision
(`Enter`, `Decide`, `LockNew`, `Combine`, `Leave`). `op[p]` holds the local
variables of the call: the objects still to be freed (`todo`), those the
recursion has locked (`held`), the object searched. `Fork` gives every writable
region two new shadow objects and takes write access from both page tables;
`CopyPage` and `MapFound` end a fault. `Image` is the refinement mapping: what a
process would read at each page, through its page table, else through the first
object of the chain that has the page. `CountsExact` has to know where a
half-finished `vm_object_free()` still has a reference to give up, and where it has
given it up and the object is not yet free (`GaveBack`).
`halt` stands for the code going on with memory it has freed or a lock that is
another's, each listed in section 5.

### Files
A system call with a path is `LookupName` (name chain), `LookupInode` (after the
stat, which sleeps), `VnodeCreate`, `LockVnode` and then the call itself, with the
vnode locked. `Detach` closes descriptors one by one (exit, close-on-exec, dup2,
failed open), each waiting for its vnode. `Transfer` and `Transferred` are
`read()` without the lock of the descriptor in between. A vnode's `refcount` may
be too large (an `open()` that fails late keeps it), never too small.

### Disk
`Search` looks in the cache before the lock is taken, `LockMi` takes it. `Seek`
sends a command and `Sleep` comes after it; `Interrupt` finds somebody asleep or
nobody; `Signal` ends a sleep without an interrupt. `SeekDone` reads the result
and may start a recalibration or retry; `ReadDone` polls for the result of a
read. `command`, `head` and `dma` are the controller, which is external. `Fill`
puts the whole track into the cache, or as much as there is memory for.
`DiskAnswers` says whether the result of a read is there while the driver
polls; see section 5 for what happens if it is not.

### Registry and Boot
`Registry` has the lists and one operator per registering function. `Boot` runs
the init functions in the order of `CONFIG-ALL`: an init is a list of claims
(`PcconClaims`, `WdcClaims`, ...), chosen by what hardware it finds, and each claim
is a step that is granted, refused or short of memory. What happens on a refusal
differs between inits (`must`, `GivesBack`) and is the point of the module.
`PortsGivenBack` and `IrqsGivenBack` are the calls of `ports_unregister()` and
`irq_unregister()` on such a way out, one after the other. `wdc` reads partition
tables and gives letters, entry by entry (`Enter`, `Letters`).

`PortsAssumption` says where hardware sits: the port `isapnp` reads from is one it
tries (0x203 and every fourth from there on), the video controller is at 0x3b0 or
0x3d0 (`pccon_video.c`), and a serial port begins at a multiple of 8, since the
chip decodes the lower three bits. Without the last, a BIOS table that puts a
serial port at 0x279 would let `isapnp_init()`, refused that port, unregister it.

### Ffs, Msdosfs, FakeDirs, Paths, UserSpace, Numbers, Lookups
These hold no state while they answer: each function is an operator from the
contents of a disk, a tree or a memory to the result, with loops as folds or
recursive functions. `Lookups` asks: a step picks a question and computes the
answer. The properties compare it with a definition from what was put on the
disk: the words of the file rather than blocks and indirect blocks, the tree
rather than directories and mounts, addresses one by one rather than regions,
days by the calendar rather than by the loop. Words and bytes are small
numbers; names are tuples of character codes because names are compared, split
and, in procfs, read as numbers. `Snprintf()` takes a format and the words of its
arguments apart, as `va_arg()` does: the text must be that of the arguments, one
piece for each part of the format, and `%X`, whose code is commented out, counts as
if it were not there, so the next conversion gets the lower half of its argument.

### Console
A process goes through `terminal_write()` and `printchar()` access by access
(`job[p].at`): room in the buffer, the character and its carriage return, the
lock of the console, then per character the decision between video memory and
cells, the wrap, the scroll, the store, the cursor. The keyboard interrupt (a key
with echo, an erase, an arrow, a lock key, a switch) and `printk()` are single
steps between any two of these. `Screen(v)` is what a user would see of console
`v`: the video memory if it is shown, its cells if not.

## 3. Runs

| run | instance | states | what it shows |
|---|---|---|---|
| `sched` | 4 processes (one asleep from the start on a console, one ancestor, two that come and go), 1 channel | 413 089 | queues sound, no dead child missed, one life and one funeral each |
| `lock` | 3 processes, 2 locks, 2 calls each | 8 246 | mutual exclusion, honest counters, every call returns |
| `pids` | 4 slots, 3 pids | 262 954 | unique pids, no leak, no wrong refusal |
| `timer` | 2 sleepers, naps of 0, 1 and 3 ticks, alarms of 3 and 2 ticks, 4 entries | 20 352 | relative ticks act as independent alarms |
| `malloc` | 3 pages of 4 units, 5 blocks, lengths from a quarter of a page to 3 pages | 72 874 | disjoint blocks, all memory comes back |
| `terminal` | ring of 4 places, 2 readers asking for 0 or 2 characters | 367 296 | the ring is a queue, no reader of lines misses one |
| `vm` | 2 processes, 2 pages of address space, 5 objects, 3 frames, 2 calls, a heap or a program with text and data | 334 551 | memories are private, counts exact, no frame lost, no lock stuck |
| `files` | 2 processes, 2 slots, 4 inodes under 5 names, 4 calls | 368 888 | counts safe, no program written to, one known circle of locks |
| `disk` | 2 processes, 2 floppies of 2 cylinders of 2 sectors, 2 reads, 1 retry, 1 signal | 496 717 | reads return their own block and end |
| `boot` | 19 inits, 8 irqs, serial ports at 3 places, 2 network cards at any of 2 places, 3 sets of disks, 2 partition tables, 1 failing `malloc()` | 413 870 | one owner for everything, backing out takes nobody else's |
| `lookup` | a volume of 3 groups, a floppy of 9 clusters, 4 mounts, 4 regions, all requests over them | 19 794 | reads, names and values are the right ones |
| `console` | 3 consoles of 2 lines, 2 writers, buffer of 7, 2 key strokes | 2 211 260 | the buffer holds, screens change only by printing |

**Sched properties.** `QueuesSound`: the queues are rings in both directions
and disjoint. `QueueMatchesStatus`: a process is on the queue of its status.
`IdleOnlyWhenNobodyRuns`: the idle loop runs only with an empty run queue and is
left only with somebody to run. `ChildrenAccounted`: no lost wakeup in `wait4()`,
and the count behind ECHILD is the number of children. `ImplementsProcLife`: one
birth, one death, one funeral by the mother.

**Lock properties.** `WriterExcludes`, `LockstructAgrees`, `ImplementsRWLock`,
and `EveryCallReturns` under the fairness below.

**Pids properties.** `PidsUnique`, `BitmapAgrees` (no leak, none given up in
use), `GivesUpOnlyWhenFull`.

**Timer properties.** `AlarmsAreSet` (the kernel's alarms are there once, a
sleeper's is there in time), `ImplementsAlarms` (no operation shifts another
alarm by a tick), `SleepersWake`.

**Malloc properties.** `ImplementsHeap`: blocks never overlap, stay inside the
memory there is, and the count of free memory is what is left.
`BlocksCanBeFreed`: no consistency check of `free()` panics. `NothingLeaks`: a
page is marked free exactly if nothing lies on it. `RefusesOnlyNearlyFull`: a
small block is refused only when at most one page has room for it.

**Terminal properties.** `ImplementsTty`: the ring neither loses, doubles nor
swaps characters, and an erase stops at a line end. `LineReaderMissesNothing`:
nobody sleeps for a line that is there.

**Vm properties.** `ImplementsPrivateMemory`: a store changes one page of one
process, a child begins with its parent's memory, and nothing the others do
shows. `CountsExact`: a reference count is the number of regions and shadows over
an object, those a half-done `vm_object_free()` is about to give up included, and
zero for a free object.
`FramesAccounted`: a frame is in one page chain or free, and `vm_fault()` and
`vm_object_combine()` meet nothing they panic at. `LocksComeFree`: whoever
a process waits for does not wait for it, but for the circle in section 5.

**Files properties.** `CountsSafe`: a descriptor counts its slots exactly and a
vnode at least its users. `NobodyWritesProgram`. `LocksComeFree`: two processes
wait for each other only in two crossing `chdir()`.

**Disk properties.** `CacheHoldsDisk`: nothing in the cache, and nothing a read
returns, is another block's data. `MotorRunsWhileWaiting`. `ReadsEnd`: reads
return and motors stop, again and again, unless an interrupt came before the
`sleep()` that waits for it (section 5).

**Boot properties.** `PortsDisjoint`, `OwnersRegistered` (nobody owns anything
after its module is gone, but for irq 1 of `pccon`), `NamesDistinct`,
`OthersKeepTheirs` (an init takes away only its own).

**Lookup properties.** `ReadsReturnTheFile`, `NamesResolve`, `ValuesRight`, as
described under the module. The exceptions in them (procfs with a full buffer, a
string over a page boundary of the stack, empty argument lists, the smallest
integer) are in section 5.

**Console properties.** `OutputbufFits`: two writers and the echoes stay inside
the margin; with three they do not (section 5). `ScreensKept`: a switch or a scroll
loses and mixes nothing; the excepted steps are in section 5.

**Bounds.** Four processes give every shape of the rings (empty, alone, head,
middle, last) and a family of parent, child and grandchild beside a stranger
that keeps the sleep queue occupied. Three processes are enough for two readers
and a writer, and two locks for the only nesting the code has. One pid fewer
than processes makes the scan wrap, fail and start at `PID_MAX + 1`. Four timer
entries hold both alarms, a sleeper and a stale entry.
Three pages beside the one of the control blocks let a block of two pages lie
at either end, with two sub-page classes competing for the third; five blocks
fill a page of small blocks and open another. A ring of four places wraps,
fills and is erased over its end within three characters.
`Vm`: a fork makes two shadows of each object, so two calls and five objects let
two forks pile shadows on shadows and both sides combine them; three frames let
each of two processes have its copy beside the original. With three pages of
address space (`LastAddr = 2`) `munmap()` can split a region; that instance does not
finish in five minutes and runs into the panic in section 5.
`Files`: four calls are two on each side, enough for open, fork, dup2 and exit, or
two lookups that cross. `Disk`: two blocks on two cylinders of one drive and one
of the other make every read seek, and a second process find the cache filled
while it waited. `Boot`: one failing allocation at every point of every init.
`Lookup`: files reach through direct into indirect blocks with partial first and
last blocks, FAT entries lie across sectors, the same volume is mounted within
itself. `Console`: a screen of two lines scrolls with the second line; a buffer
of seven with a margin of three has to be emptied within one text.

**Fairness.** `Lock`: a process in the loop of `lock()` is runnable, and the
timer interrupt gives every runnable process the CPU again and again, so a test
that stays successful is made (`WF SpinAcquires`), and a holder goes on to its
`unlock()`. No process is obliged to call. The number of calls is bounded:
without that, overlapping readers keep a writer out for ever, which the code
does not prevent. `Timer`: only the clock interrupt itself is fair. `Disk`: a
process inside the driver goes on (the scheduler is round robin), the controller
ends its commands, and the timer reaches the alarm; nobody is obliged to read.
The other modules state no fairness and no liveness.

## 4. Proofs

`LockMallocProofs` is about the two services the others rely on. For `Lock` (any set
of processes, locks and bound of calls) it shows
`TypeCorrect`, `LockstructAlwaysAgrees`, `MutualExclusion` and
`LockImplementsRWLock`. The invariant is `LockTypeOK /\ LockstructAgrees /\
WriterExcludes`: exclusion alone is not inductive, because an acquisition looks
at the counters and not at the holders; the counters have to be tied to them,
and the reader count is a cardinality, so the proof rests on lemmas about adding
a process to and taking one from a finite set of holders. Refinement follows
from the same invariant: an acquisition finds the abstract lock free, and a
release removes the caller and nobody else.

`SchedProofs` (for any finite set of processes, any channels and any processes
that handle or receive signals) shows all five properties of the `sched` run:
`QueuesAreSound`, `StatusNamesQueue`, `IdlesOnlyWhenNobodyRuns`,
`ChildrenAreAccounted` and `ProcessesLive`. It has two halves.

The first is about pointers. `Ring` walks along `next`, so a direct proof would be
an induction over the walk at each edit. Instead `RingOf(l, q, M)` says without a
walk that the pointers of the processes of `M` form one circle: `next` and `prev`
are inverse on `M`, and no smaller set is closed under `next`. For each edit a lemma
says which circle it makes of which (`Unlinked`, `Inserted`, `LeftRunQueue`,
`EnteredSleepQueue`, `Taken`), and for each procedure where everybody is afterwards
(`PutToSleep`, `AwakenMoves`, `AwakenProcMoves`, `ToZombies`, `Discarded`,
`WakeupMoves`). `RingIs` is the only place with a walk: a walk along a circle meets
just its members, by a least counterexample. The same device (`Iterate`,
`LeastNatural`) serves the second round of `wakeup()`.

The second is the invariant `IInv`. To where everybody is (`Placed`) and that the
queues share nobody (`Apart`) it adds: who runs is not asleep, and is dead only on
its way out (`CpuSound`), which a child that copies its parent's status needs; the
process that a caller of `kill()` or `wait4()` holds is still what it was looked up
as (`VictimNamed`, `Reaping`), which `proc_remove()` needs; and nobody is its own
parent (`ParentOther`), or `wakeup_proc()` could revive the process that is dying.
In `ProcessesLive` a death is the second half of `proc_exit()`, a funeral is `Reap`,
whose process is alive by `CpuSound`. Where the code breaks one of these things the
model has stopped (`halt`), and the theorems say what still holds there; only
`QueuesSound` excludes a state, the sleep queue that `wakeup_proc()` loses.

`PidsTimerProofs` (for any set of slots and any range of pids) shows `TypeCorrect`,
`PidsAlwaysUnique`, `BitmapAlwaysAgrees` and `GaveUpOnlyWhenFull`. The
invariant adds what holds inside the lock: a slot in the middle of a scan holds
the lock, has no pid yet, and has found every pid from where it began up to
`lastpid`, going round, taken. The last part is what makes giving up right.

Its other half (for any finite set of processes, any times and any length of the
chain) shows `AlarmsStaySet` and `ChainImplementsAlarms`. How long an entry has to
go is a sum over the entries before it, so a step that edits one entry changes what
the others mean. The proof therefore never speaks of a place in the chain, but of
how many entries have their address and their time to go in a set (`HowMany`), and
three lemmas say what the operations do to this number: `InsertCounts` adds the new
entry and moves no other, `WithoutIs` takes away the entries of one address, and
`TickCounts` moves all of them by one tick. Under them, `Sums` shows that a function
that adds up the ticks is `Due`, and `BeforeIs` that the entries due first stand
first. In these numbers `AlarmsAreSet` is inductive as it stands: what makes a tick
right is that a sleeper who is not woken had nothing due, so the entry that was to
wake it within `left` ticks is still there. The refinement adds that no entry is
further away than the longest time used (`Near`), the range of the abstract table.
The flush that arms itself anew during the walk is the abstract `Tick` with the flush
in `again`, a `malloc()` that fails the one without it. That a sleeper does wake up
(`SleepersWake`) stays with TLC.

`DiskProofs` (for any processes, drives, geometry, requests and number of retries
and signals) shows `MotorAlwaysRuns` and, if `DiskAnswers`, `CacheAlwaysHoldsDisk`.
Both rest on `HasLock`: whoever is in the driver holds `fdc_lock`, so the timer,
which stops the motors only when it is free, finds nobody waiting, and a command
is not replaced under who waits for it. For the data, `CacheHoldsDisk` says nothing
of a read under way; `DataInv` follows it: the controller's command is what the
waiting process asked for (`Follows`), a read that ended well left its track in the
buffer (`Transferred`), and what a process takes out of it or found in the cache is
its own (`Holds`). `DiskAnswers` is needed in one step, `ReadDone`: section 5 says
what happens without it.

`FilesProofs` (for any finite set of processes, any files, names, slots and calls)
shows `CountsAlwaysSafe`, `ProgramsNeverWritten` and `LocksAlwaysComeFree`. A count
that equals its references is not inductive by itself, because a system call keeps
a vnode or a slot in its local variables from one step to a later one. `Place`
therefore says, for each point a call can be at, what it still relies on there: in
`have` and `lock_old` it holds the lock of its vnode, in `detach` the slots it will
close are still taken, and so on; `Holders` says the converse, that whoever owns a
lock is at one of these points. With both, each action changes one count and one
set of references by one element. That `open()` finds a descriptor while a slot is
free is a pigeonhole argument (`FilesAssumption` and the size of `Fdesc`).

`TerminalProofs` (for a ring of any size, any readers and any characters) shows
`NoLineMissed` and `TerminalImplementsTty`. The content of the ring is a sequence
read off modulo `MAX_INPUT`; lemmas say what one step of the head or the tail does to
it. The invariant adds `RoomLeft` (who is about to take a character may read one)
and `LineUnlessAwake`. The ends named in `halt` are part of the model, so the theorem
is about everything up to them.

The output side (for any number of processes, consoles, texts, keys and any sizes of
the screen) is about `outputbuf`. `OutputIsBounded` says how full it gets: two
characters for each process that may write to the console, beyond the place at which
`terminal_write()` goes back. `OutputFits` follows: `OutputbufFits` holds if twice the
number of writers is at most `OUTPUT_MARGIN + 1`. The bound itself is not inductive;
the invariant adds what each process will still put in before it looks again, two
characters in `convert` and one in `append` (`Owed`), so that adding a character
changes nothing, an echo, which sets the length back, only helps, and a process that
looks and goes on finds the others owing two each. `OutputSizes` asks that an echo of
three characters fits.

For the screens, `SwitchesKeepScreens` shows `ScreensKept`. What a user sees of a
console is in one of two places, the video memory or the cells of its structure, and a
switch moves it, so the proof follows the screen and not the place: `Only(X, s, t, v)`
says that from the display `s` to `t` no screen but that of `v` is another, whatever
happens in the structures. Each part of `printchar()` has a lemma of this form
(`CursorMoves`, `ScrollsOnly`, `StoresOnly`, `ClearsOnly`), with the target where it was
decided, which is `v` unless the console was taken away in between (`Target`); they
compose, and a whole message is a walk of them (`StepsOnly`). A switch changes no
screen at all (`SwitchKeeps`). The invariant is that the display is one, of characters
out of some set, and that the console shown is open, so that `pccon_nextvc()` always
finds one.

For `Malloc` (any page size, any divisors of it as small sizes, any number of
pages and any requests) `LockMallocProofs` shows `MallocImplementsHeap`, `FreeNeverPanics`,
`AllPagesComeBack` and `SearchMissesOnePageAtMost`. The invariant ties the MCBs to
the blocks in use in both directions: every block is either a run of pages whose
MCBs say so or a slot whose bit is set (`Located`), and every MCB that is not free
and every bit that is set belongs to a block (`Listed`). From the first, two blocks
that share a page are two slots of it (`HeldTogether`), so no address is handed out
twice; from the second, a page found free has nothing on it. `Accounted` makes
`malloc_totalfreememory` the number of addresses in no block. The arithmetic is
nonlinear in the page size, and rests on two lemmas about division.

`VmProofs` (for any finite set of processes, any number of objects, frames and pages,
any layouts of programs and any ranges given to `munmap()`) shows `CountsStayExact`:
as long as no `halt` is reached, each `refcount` is the number of regions and shadow
objects that refer to the object, at every step of a fault, a `fork()`, an unmapping
and a chain being freed. It assumes that an executable's regions are regions and that
the first one finds objects for its anonymous ones (`LayoutsAssumption`). Exact counts
are not inductive, because the code decides by them and by pointers at different
steps. `VmInv` adds what ties the two together:
- the object of the executable stays, and nothing is below an object of a file
  (`FileStays`);
- a shadow object that a process shows is shown by no other, has nothing over it and
  is writable (`ShadowsPrivate`), so `CopyPage` and `Fork`, which take a reference from
  one and give it to another, know whose it was;
- a shadow object under others knows two of them (`RefsSet`), so the code's choice of
  `shadow_ref1` or `shadow_ref2` in `vm_object_free()` loses none;
- an object that `vm_object_free()` holds has no reference left, or is a file's
  (`FreesDead`), and is locked by the one process that frees it (`Locks`), so nobody
  else frees it or combines it away, and an object with two references left, one of
  them the dying one's, is combined with the one object over it (`Mergeable`).

`VmInv` is a predicate `Holds` of the values of the variables, so a lemma can say what a
single edit does to it: one for an object made, shadowed, split, attached, given back,
freed and combined (`SoundNew` to `SoundMerged`). The loops over the regions of a process
(`execve()`, `fork()`, `munmap()`) are taken turn by turn: each has a predicate of the
state after n regions (`LoadStage`, `ForkStage`, `UnmapStage`), in which the regions not
done count for the object they showed before. `OneStep` leaves the other processes'
part alone, and each action has a lemma of its own.

`BootProofs` (for any serial ports, cards, disks, partition tables, number of
consoles and number of failing `malloc()`s) shows `PortsNeverShared`,
`OwnersAlwaysRegistered`, `NamesAlwaysDistinct` and `OthersAlwaysKeepTheirs`. None of
the four is inductive, since what an init gives back it finds by base or by line,
not by owner. `BootInv` adds three things. First, what the init has claimed so far
is what it holds (`Held`): every range, line and device it owns is a claim in
`made` that was met, and the other way round. Second, what is still to be claimed is
in a sound order (`Going`): what no init gives back, a DMA channel or a device,
comes when no refusal can end the init any more (`GiveUp` could otherwise free a
module that owns one), and a range that is dropped was claimed first. Third,
the bases other modules hold are among those the earlier inits ask for
(`OldBases`), and `isadma`, `pccon` and `isapnp`, which unregister bases they may not
have got, name none of these. The last is arithmetic over the lists of claims and
needs `PortsAssumption`. `pccom` gives back nothing, and is right only because the
claim it can fail last, its interrupt, is free whenever it asks (`ComIrqs`). For the
names, the list of devices is numbered downwards, so its head has the largest
number, and a free module number is found by a pigeonhole argument. What the
recursive functions of the model compute (`PortsGivenBack`, `Letters`, the search for
a place in the list of ranges) follows from a lemma that bounds them step by step
(`Iterate`, `Climb`).

Assumptions: the `ASSUME`s of the modules and nothing else.

Only model-checked are:
- liveness (`EveryCallReturns`, `SleepersWake`, `ReadsEnd`), which is out of the
  prover's reach;
- `Lookups`, whose answers are computed by recursion over the data of a disk or a
  tree, an induction over data;
- of `Vm`, `FramesAccounted`, `LocksComeFree` and `ImplementsPrivateMemory`: what a
  process reads is the first page of that number along a shadow chain, a recursion
  over the data, and needs that these chains end.

## 5. Where the code does something else than it says

Met while modelling. The models have each of these, as a `halt`, as an outcome of
a step, or as an exception a property names.

*Processes and signals.* `wakeup_proc()` of the only sleeper leaves it the head of
the sleep queue (`kern/proc.c:557`; `wakeup()` handles the case, `:663`). A child
of a process without SIGCHLD handler, dying while the parent is not in `wait4()`,
ends the parent with interrupts disabled, and `lock()` panics (`kern/proc.c:870`).
Killing a runnable process may move the head of the run queue off the killer,
whose next `sleep()` panics (`kern/proc.c:840`). With no free pid, children get
pid 0 (`kern/sys_fork.c:199`). A `nanosleep()` that a signal ended shortens the
next one (`kern/timer.c:329`).

*Allocator.* A small block that is found only on the last page looked at is
reported as no memory (`kern/malloc.c:472`, bounded by `RefusesOnlyNearlyFull`).

*Terminal input.* A character typed while a raw reader wraps `inputtail` is added
to a full ring, and all of it is lost (`kern/terminal.c:505`). A raw reader loses
the wakeup of a character typed between its test and its sleep (`:497`). An erase
with `inputhead` 0 never wraps, because `lastindex` is unsigned (`:279`). A
canonical read of length 0 hangs the machine when a line is there (`:449`).

*Terminal output.* `terminal_write()` returns without `ts->write` near the end of
`outputbuf`, so a write of 508 bytes or more is not shown (`kern/terminal.c:192`).
Two writers of one console share the buffer: the text of one is printed twice,
the other's is lost. `printchar()` decides before a switch where a character goes
and stores it after it, on another console's screen (`pccon_video.c:379`).
Three writers of one console may each find room in the buffer and then add a CR
and a NL, one character more than `OUTPUT_MARGIN` leaves (`terminal.c:192`;
`OutputFits` says how large the margin has to be, and TLC finds the overflow in the
model of `console` given a third writer, a buffer of 8 and the margin of 4). A
console opened first by two processes at a time gets a second `vc` over the one
the first has printed on, and if `malloc()` fails the open succeeds with NULL
(`pccon.c:256`).

*Virtual memory.* The SIGSEGV path unlocks `vm_fault_lock` twice, the second time
perhaps another's (`vm_fault.c:146`). `vm_object_combine()` changes a chain that a
fault is searching, whose lock it does not take. Two processes that free two
shadows of one object may each hold what the other waits for (`vm_object.c:295`).
After `munmap()` of the middle of a region, `vm_object_combine()` panics with
"chain is corrupt" (`vm_object.c:328`). A failed `fork()` detaches regions of the
parent (`kern/sys_fork.c:293`). `break()` writes to a region its `sys_munmap()` has
freed, and shows old pages when it shrinks and grows (`kern/sys_mmap.c:431`).
A program that cannot be loaded frees the object of its file, which the vnode
keeps (`kern/sys_execve.c:363`). The `malloc()` of a copied page is not looked at
(`vm_fault.c:328`). Empty argument or environment lists panic
(`kern/sys_execve.c:409`), and a string that crosses a page of the stack is
copied from its beginning again (`openbsd_aout.c:286`).

*Files.* Two lookups that miss make two vnodes (`vfs_vnode.c:544`). Two `chdir()`
into each other's directory wait for ever (`sys_file.c:154`). An error in mount
leaves the mount point locked (`vfs_mount.c:101`), a failed close its vnode
(`vfs_vnode.c:632`). `dup2(d, d)` follows a NULL pointer (`sys_fd.c:668`).
`refcount_write` is never decremented, so a file written once cannot be
executed (`sys_fd.c:212`). Two readers of one descriptor overwrite each other's
offset (`sys_fd.c:338`).

*Disks.* An interrupt between the command and `sleep()` is lost, and the driver
sleeps with `fdc_lock` held (`fdc.c:400`). A signal ends the driver's sleep before
the track is read; if the controller's answer comes after the driver has stopped
polling (`DiskAnswers = FALSE`), the buffer's old track goes into the cache and
`CacheHoldsDisk` fails (`kern/signal.c:149`). The cache is searched before the lock
is taken, so a block may be read, and entered, twice (`vfs_block.c:207`, `:278`).

*Registries.* `pccon` keeps irq 1 when it lacks a port (`pccon.c:455`). `pccom`
gives back nothing. `wdc_register_partition()` uses a device it has freed
(`wdc_partitions.c:66`). `device_unregister()` of an unknown device returns with
interrupts disabled (`reg/device.c:273`). `openbsd_aout_init()` clears memory at
NULL when it gets none. `wdc_read()` compares a digit with a number, so every
partition table is read from disk 0.

*File systems and paths.* In ffs, holes read block 0, a second indirection
panics, a directory longer than a block is searched past the buffer, a removed
first entry is found, and `readlink()` pads with what is behind the link. In
msdosfs a file's last cluster may be refused. A procfs listing that fills the
buffer returns with interrupts disabled, and the next `lock()` panics
(`procfs.c:240`); its process directories have not even "."; the name "a" is
process 49. A relative mount point, or one that ends in a slash, gets the wrong
parent. "/" below a changed root is the root of the instance.

*Numbers.* `%X` prints nothing and leaves its argument to the next conversion,
although the header lists it as implemented (`snprintf.c:38`, `:226`): the line
about a superblock shows half of `maxfilesize` as `fsbtodb` (`ffs/super.c:52`);
the smallest integer is "-"; 2100 is a leap year; `vm_prot_stringlen()` of a string
without an end is `buflen`; the end of a range wraps in `vm_prot_accessible()`.

## 6. Plan

1. Done: locks, queues and scheduler, pids, timer, allocator, terminals, virtual
   memory, vnodes and descriptors, floppy and block cache, registries and boot,
   file systems and paths, console; proofs for queues and scheduler, locks, pids, the
   floppy, vnodes and descriptors, terminals, the allocator, the timer, the boot, and the counts of virtual memory.
2. Composition of `Lock` with its users when a process is killed while it holds
   one.

**Not modelled.** Small system calls are accessors of one field or stubs. `kdb`
stops the machine. Userland runs outside the kernel. The transfers of `wdc`, which
polls under one lock, and of `ep`, `pccom` and `pcppi` are register programming
without state that two steps share. Writing to disks does not exist above the
drivers. The mac68k port is a console and little more so far.
