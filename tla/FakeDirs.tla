------------------------------ MODULE FakeDirs ------------------------------
(***************************************************************************)
(* The file systems that have no disk: devfs shows the list of devices,    *)
(* procfs the queues of processes (modules/fs/devfs, modules/fs/procfs),   *)
(* and sys_getdirentries(), which lists them a buffer at a time.           *)
(*                                                                         *)
(* Names are sequences of character codes.  A file system is a record:     *)
(* fstype, root_inode, and devices (their names, first to last) or queues  *)
(* (the pids in each).                                                     *)
(***************************************************************************)
EXTENDS Integers, Sequences, SequencesExt

Dot == <<46>>
DotDot == <<46, 46>>

Found(ino, isdir) == [res |-> "ok", st_ino |-> ino, dir |-> isdir]
NotFound(why) == [res |-> why, st_ino |-> 0, dir |-> FALSE]

\* An address of a struct device, told from the root's inode 1.
DeviceInode(k) == 100 + k

\* devfs_namestat(): the first device of that name.
DevfsNamestat(fs, dirinode, name) ==
  LET at == {k \in DOMAIN fs.devices : fs.devices[k] = name}
  IN  CASE dirinode # fs.root_inode -> NotFound("ENOENT")
        [] dirinode = fs.root_inode /\ name \in {Dot, DotDot} -> Found(fs.root_inode, TRUE)
        [] OTHER -> IF at = {} THEN NotFound("ENOENT")
                    ELSE Found(DeviceInode(CHOOSE k \in at : \A j \in at : k <= j), FALSE)

\* The number procfs reads in a name: five characters at most, digits or not.
ProcNumber(name) ==
  FoldLeft(LAMBDA b, a : (b * 10) + (a - 48), 0,
           SubSeq(name, 1, IF Len(name) < 5 THEN Len(name) ELSE 5))

Pids(fs) == UNION {ToSet(fs.queues[q]) : q \in DOMAIN fs.queues}

\* procfs_namestat(): a process is an (empty) directory.
ProcfsNamestat(fs, dirinode, name) ==
  CASE dirinode # fs.root_inode -> NotFound("ENOENT")
    [] dirinode = fs.root_inode /\ name \in {Dot, DotDot} -> Found(fs.root_inode, TRUE)
    [] OTHER -> IF ProcNumber(name) \in Pids(fs) THEN Found(ProcNumber(name), TRUE)
                ELSE NotFound("ENOENT")

\* devfs_istat() and procfs_istat() know the root directory only.
FakeIstat(fs, inode) ==
  IF inode = fs.root_inode THEN Found(inode, TRUE) ELSE NotFound("EINVAL")

-----------------------------------------------------------------------------
\* The chain that is listed: the devices, or queue after queue.
DevfsChain(fs) == fs.devices
ProcfsChain(fs) == FlattenSeq(fs.queues)

\* Bytes of an entry.
EntrySize(fs) == IF fs.fstype = "devfs" THEN 64 ELSE 32

Chain(fs) == IF fs.fstype = "devfs" THEN DevfsChain(fs) ELSE ProcfsChain(fs)

\* Whole entries that fit in what is left of the buffer.
Fits(fs, buflen) == buflen \div EntrySize(fs)

\* devfs_get_direntries() and procfs_get_direntries(): the entries from
\* offset curofs on, if an entry starts there.
GetDirentries(fs, curofs, buflen) ==
  LET from == curofs \div EntrySize(fs)
      left == Len(Chain(fs)) - from
      n == IF Fits(fs, buflen) < left THEN Fits(fs, buflen) ELSE left
  IN  IF curofs % EntrySize(fs) # 0 \/ left <= 0 THEN <<>>
      ELSE SubSeq(Chain(fs), from + 1, from + n)

\* procfs_get_direntries() returns from inside its loop when the buffer is
\* full, with interrupts disabled.
LeavesInterruptsDisabled(fs, curofs, buflen) ==
  /\ fs.fstype = "procfs" /\ buflen >= 32
  /\ Len(GetDirentries(fs, curofs, buflen)) = Fits(fs, buflen)

\* sys_getdirentries() again and again, until it returns nothing: what the
\* descriptor's cur_ofs makes the next call list.  The lock() that guards
\* cur_ofs panics when interrupts are disabled.
Listing(fs, nbytes) ==
  LET call[n \in 0..Len(Chain(fs)) + 1] ==
        IF n = 0 THEN [res |-> "ok", ofs |-> 0, got |-> <<>>]
        ELSE LET last == call[n - 1]
                 more == GetDirentries(fs, last.ofs, nbytes)
             IN  IF last.res = "ok" /\ ~LeavesInterruptsDisabled(fs, last.ofs, nbytes)
                 THEN [res |-> "ok", ofs |-> last.ofs + (Len(more) * EntrySize(fs)),
                       got |-> last.got \o more]
                 ELSE [last EXCEPT !.res = "panic"]
  IN  call[Len(Chain(fs)) + 1]
=============================================================================
