------------------------------- MODULE Paths -------------------------------
(***************************************************************************)
(* Walking a path over mounted file systems (vfs/vfs_stat.c) and the way   *)
(* vfs_mount() hooks one in.                                               *)
(*                                                                         *)
(* The chain of mount instances is a sequence; a file is known by the      *)
(* place of its instance in it and its inode.  A path is a record: abs, it *)
(* starts with a slash; names, what is between slashes; slash, it ends     *)
(* with one.                                                               *)
(***************************************************************************)
EXTENDS Ffs, FakeDirs

\* The namestat() and istat() of the file system of an instance.
Filled(ss) == IF ss.res # "ok" THEN NotFound(ss.res) ELSE Found(ss.data.st_ino, ss.data.dir)

Namestat(fs, dirinode, name) ==
  CASE fs.fstype = "devfs" -> DevfsNamestat(fs, dirinode, name)
    [] fs.fstype = "procfs" -> ProcfsNamestat(fs, dirinode, name)
    [] OTHER -> Filled(FfsNamestat(fs, dirinode, name))

IstatRoot(fs) ==
  IF fs.fstype \in {"devfs", "procfs"} THEN FakeIstat(fs, fs.root_inode)
  ELSE Filled(Istat(fs, fs.root_inode, <<>>))

At(mi, ino) == [mi |-> mi, ino |-> ino]

MountedOn(ms, node) ==
  {k \in DOMAIN ms : ms[k].parent = node.mi /\ ms[k].mounted_at = node.ino}

First(S) == CHOOSE k \in S : \A j \in S : k <= j

\* The mutant never looks for a file system that is mounted here.
StaysHere(ms, node) == node

\* To the root of the file system mounted on this directory, if there is one.
Crossed(ms, node) ==
  IF MountedOn(ms, node) = {} THEN node
  ELSE LET k == First(MountedOn(ms, node)) IN At(k, ms[k].fs.root_inode)

\* ".." in the root of a mounted file system?
AboveMount(ms, node, name) ==
  node.ino = ms[node.mi].fs.root_inode /\ name = DotDot /\ ms[node.mi].parent # 0

\* What a name in a directory is; ".." in the root of an instance, once it is
\* found there, is the directory over the one it is mounted on.
NameIn(ms, node, name, ss) ==
  LET mi == ms[node.mi].parent
  IN  IF AboveMount(ms, node, name) /\ ss.res = "ok"
      THEN Namestat(ms[mi].fs, ms[node.mi].parent_inode, Dot)
      ELSE ss

WalkedTo(mi, ss) == [node |-> At(mi, ss.st_ino), ss |-> ss]

NextName(ms, node, name) ==
  WalkedTo(IF AboveMount(ms, node, name) THEN ms[node.mi].parent ELSE node.mi,
           NameIn(ms, node, name, Namestat(ms[node.mi].fs, node.ino, name)))

\* One round of the loop: "walk" is the directory reached, or the last name.
Step(ms, walk, name) ==
  CASE walk.ss.res # "ok" -> walk
    [] walk.ss.res = "ok" /\ ~walk.ss.dir -> [walk EXCEPT !.ss = NotFound("ENOTDIR")]
    [] OTHER -> NextName(ms, Crossed(ms, walk.node), name)

RootOf(ms, mi) == [node |-> At(mi, ms[mi].fs.root_inode), ss |-> IstatRoot(ms[mi].fs)]

\* The end of the loop: a directory something is mounted on is the root of that.
Ended(ms, walk) ==
  IF walk.ss.res = "ok" /\ walk.ss.dir /\ MountedOn(ms, walk.node) # {}
  THEN RootOf(ms, Crossed(ms, walk.node).mi)
  ELSE walk

\* vfs_stat(): where the path leads, with the directory of a mount replaced
\* by what is mounted there.  A path of slashes is the root of the instance.
Stat(ms, rootdir, cwd, path) ==
  LET start == IF path.abs THEN rootdir ELSE cwd
      names == path.names \o (IF path.slash THEN <<Dot>> ELSE <<>>)
  IN  CASE path.names = <<>> /\ ~path.abs -> [node |-> start, ss |-> NotFound("ENOENT")]
        [] path.names = <<>> /\ path.abs -> RootOf(ms, start.mi)
        [] OTHER -> Ended(ms, FoldLeft(LAMBDA w, name : Step(ms, w, name),
                                       [node |-> start, ss |-> Found(start.ino, TRUE)], names))

-----------------------------------------------------------------------------
\* The path without its last part; mount points are absolute and do not end
\* with a slash (of others, the code keeps another part).
ParentPath(path) ==
  [abs |-> TRUE, names |-> Front(path.names), slash |-> Len(path.names) > 1]

\* vfs_mount(): the first instance is the root, whatever the mount point; v is
\* the mount point, above what it is in.
MountedAt(ms, fs, v, above) ==
  IF v.ss.res # "ok" \/ MountedOn(ms, v.node) # {} THEN ms
  ELSE Append(ms, [fs |-> fs, parent |-> v.node.mi, mounted_at |-> v.node.ino,
                   parent_inode |-> above.node.ino])

Mounted(ms, rootdir, fs, path) ==
  IF ms = <<>> THEN <<[fs |-> fs, parent |-> 0, mounted_at |-> 0, parent_inode |-> 0]>>
  ELSE MountedAt(ms, fs, Stat(ms, rootdir, rootdir, path),
                 Stat(ms, rootdir, rootdir, ParentPath(path)))

\* The mounts of a boot, one after the other.
MountedAll(requests) ==
  FoldLeft(LAMBDA ms, r : Mounted(ms, At(1, IF ms = <<>> THEN 0 ELSE ms[1].fs.root_inode),
                                  r.fs, r.at),
           <<>>, requests)
=============================================================================
