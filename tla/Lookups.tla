------------------------------ MODULE Lookups ------------------------------
(***************************************************************************)
(* Questions the kernel answers by reading what is there: words of a file, *)
(* names, listings, the memory of a process, conversions.  A step asks one *)
(* question and computes the code's answer; the properties compare it with *)
(* an answer found another way, from what was put there.                   *)
(***************************************************************************)
EXTENDS Paths, Msdosfs, UserSpace, Numbers

CONSTANTS
    Volume,     \* a fast file system, as in module Ffs
    Contents,   \* the words of each of its files, by inode
    Links,      \* the words of its symbolic links, by inode
    Floppy,     \* an MS-DOS file system, as in module Msdosfs
    Clusters,   \* the clusters of each of its files
    FatTree,    \* what is in its directories, by directory and name
    Requests,   \* file systems and the paths they are mounted at, in order
    Trees,      \* the files of each: inode and kind by path
    Walks,      \* paths to look up
    Places,     \* and the directories to start from, as paths
    Regions,    \* the memory of a process
    Memory,     \* bytes in it
    ArgLists,   \* argument and environment strings for execve()
    Formats,    \* formats for snprintf(), with the words of their arguments
    Days,       \* dates, <<year, month, day>>
    Drive       \* the geometry of a hard disk

ASSUME VolumeAssumption == SuperblockAccepted(Volume)

VARIABLES question, answer
vars == <<question, answer>>

Nothing == [kind |-> "none"]

Ask(q, a) == question' = q /\ answer' = a

Mounts == MountedAll(Requests)
RootDir == At(1, Mounts[1].fs.root_inode)

Absolute(names) == [abs |-> TRUE, names |-> names, slash |-> FALSE]

-----------------------------------------------------------------------------
\* sys_read() asks for no more than is left of the file.
AskRead ==
  \E i \in DOMAIN Contents : \E offset \in 0..Len(Contents[i]) - 1 :
    \E length \in 1..Len(Contents[i]) - offset :
      Ask([kind |-> "read", inode |-> i, offset |-> offset, length |-> length],
          FfsRead(Volume, i, offset, length))

AskReadlink ==
  \E i \in DOMAIN Contents \cup DOMAIN Links, length \in 1..4 :
    Ask([kind |-> "readlink", inode |-> i, length |-> length],
        FfsReadlink(Volume, i, length))

AskFatRead ==
  \E f \in DOMAIN Clusters : \E offset \in 0..Clusters[f].size - 1 :
    \E length \in 1..Clusters[f].size - offset :
      Ask([kind |-> "fatread", file |-> f, offset |-> offset, length |-> length],
          MsdosRead(Floppy, Clusters[f].chain[1], Clusters[f].size, offset, length))

AskFatName ==
  \E dir \in DOMAIN FatTree : \E name \in UNION {DOMAIN FatTree[d] : d \in DOMAIN FatTree} :
    Ask([kind |-> "fatname", dir |-> dir, name |-> name], MsdosNamestat(Floppy, dir, name))

AskName ==
  \E path \in Walks, from \in Places :
    Ask([kind |-> "name", from |-> from, path |-> path],
        Stat(Mounts, RootDir, Stat(Mounts, RootDir, RootDir, Absolute(from)).node, path))

AskList ==
  \E k \in DOMAIN Mounts : \E nbytes \in {31, 32, 64, 100, 200} :
    /\ Mounts[k].fs.fstype \in {"devfs", "procfs"}
    /\ nbytes >= EntrySize(Mounts[k].fs)
    /\ Ask([kind |-> "list", mi |-> k, nbytes |-> nbytes],
           Listing(Mounts[k].fs, nbytes))

AskRange ==
  \E addr \in 0..StackTop, len \in 1..StackTop, access \in {"read", "write"} :
    /\ addr + len <= StackTop + 1
    /\ Ask([kind |-> "range", addr |-> addr, len |-> len, access |-> access],
           Accessible(Regions, addr, len, access))

AskMost ==
  \E addr \in 0..StackTop, access \in {"read", "write"} :
    Ask([kind |-> "most", addr |-> addr, access |-> access],
        MaxMemRange(Regions, addr, access))

AskString ==
  \E addr \in DOMAIN Memory, buflen \in 1..PAGESIZE :
    Ask([kind |-> "string", addr |-> addr, buflen |-> buflen],
        StringLen(Memory, addr, buflen))

AskRoom ==
  \E len \in 0..StackTop :
    Ask([kind |-> "room", len |-> len], FindFree(Regions, len))

AskArgs ==
  \E argv \in ArgLists, envp \in ArgLists :
    Ask([kind |-> "args", argv |-> argv, envp |-> envp], SetUpArgs(argv, envp))

AskText ==
  \E len \in 1..10, format \in Formats :
    Ask([kind |-> "text", len |-> len, format |-> format],
        Snprintf(len, format.fmt, format.args))

AskInt ==
  \E n \in AsInt(IntSpan \div 2)..(IntSpan \div 2) - 1 :
    Ask([kind |-> "int", n |-> n], Int2Str(n))

Bcd(n) == (16 * (n \div 10)) + (n % 10)

AskDay ==
  \E d \in Days, bcd \in BOOLEAN :
    LET Byte(n) == IF bcd THEN Bcd(n) ELSE n
    IN  Ask([kind |-> "day", day |-> d],
            CmosDays(Bcd(d[1] \div 100), Byte(d[1] % 100), Byte(d[2]), Byte(d[3]), bcd))

AskSector ==
  \E s \in 0..(Drive.secpertrack * Drive.nrheads * Drive.cyls) - 1 :
    Ask([kind |-> "sector", sector |-> s], WhichSector(s, Drive))

\* The next question.
Answered == question # Nothing /\ question' = Nothing /\ answer' = Nothing

Init == question = Nothing /\ answer = Nothing

Next ==
  \/ /\ question = Nothing
     /\ \/ AskRead \/ AskReadlink \/ AskFatRead \/ AskFatName \/ AskName \/ AskList
        \/ AskRange \/ AskMost \/ AskString \/ AskRoom \/ AskArgs
        \/ AskText \/ AskInt \/ AskDay \/ AskSector
  \/ Answered

Spec == Init /\ [][Next]_vars

-----------------------------------------------------------------------------
(***************************************************************************)
(* What was put there.                                                     *)
(***************************************************************************)
\* Byte n of a file of the floppy: its place in the cluster that holds it.
FatByteOf(f, n) ==
  LET cluster == Clusters[f].chain[(n \div ClusterBytes(Floppy)) + 1]
      within == n % ClusterBytes(Floppy)
  IN  <<Floppy.data_at[cluster] + (within \div SectorSize), within % SectorSize>>

IsPrefixOf(p, q) == Len(p) <= Len(q) /\ SubSeq(q, 1, Len(p)) = p

\* The file system a path is in: the one mounted furthest along it.
Deepest(path) ==
  LET over == {k \in DOMAIN Requests : IsPrefixOf(Requests[k].at.names, path)}
  IN  CHOOSE k \in over : \A j \in over :
        Len(Requests[j].at.names) <= Len(Requests[k].at.names)

InTree(path) ==
  LET k == Deepest(path)
      rest == SubSeq(path, Len(Requests[k].at.names) + 1, Len(path))
  IN  IF rest \in DOMAIN Trees[k]
      THEN [res |-> "ok", mi |-> k, ino |-> Trees[k][rest].ino, dir |-> Trees[k][rest].dir]
      ELSE [res |-> "ENOENT", mi |-> 0, ino |-> 0, dir |-> FALSE]

\* Where a path leads when a directory is the list of names from the root.
Reached(from, path) ==
  LET Go(acc, name) ==
        IF acc.res # "ok" THEN acc
        ELSE IF ~InTree(acc.at).dir THEN [acc EXCEPT !.res = "ENOTDIR"]
        ELSE LET to == CASE name = Dot -> acc.at
                         [] name = DotDot -> IF acc.at = <<>> THEN <<>> ELSE Front(acc.at)
                         [] OTHER -> Append(acc.at, name)
             IN  [at |-> to, res |-> InTree(to).res]
  IN  FoldLeft(Go, [at |-> IF path.abs THEN <<>> ELSE from, res |-> "ok"],
               path.names \o (IF path.slash THEN <<Dot>> ELSE <<>>))

Allowed(a, access) ==
  \E k \in DOMAIN Regions :
    Regions[k].from <= a /\ a <= Regions[k].to /\ access \in Regions[k].access

Mapped(a) == \E k \in DOMAIN Regions : Regions[k].from <= a /\ a <= Regions[k].to

\* Pages below a region where a mapping of that many pages would fit.
RoomFor(pages) ==
  {a \in 1..StackTop :
     /\ a % PAGESIZE = 0
     /\ \E k \in DOMAIN Regions : Regions[k].from = a + (pages * PAGESIZE)
     /\ \A b \in a..a + (pages * PAGESIZE) - 1 : ~Mapped(b)}

\* What a program finds on its stack.
WordAt(mem, a) == ByteAt(mem, a) + (256 * ByteAt(mem, a + 1))

StringAt(mem, a) ==
  LET end == CHOOSE n \in 0..StackSize :
               ByteAt(mem, a + n) = 0 /\ \A m \in 0..n - 1 : ByteAt(mem, a + m) # 0
  IN  [k \in 1..end |-> ByteAt(mem, a + k - 1)]

StringsAt(mem, table, n) == [k \in 1..n |-> StringAt(mem, WordAt(mem, table + (4 * (k - 1))))]

\* No string goes on to another page (of one that does, copystr() repeats
\* the beginning there).
OnOnePage(stack, strings, table) ==
  \A k \in DOMAIN strings :
    LET a == WordAt(stack.mem, table + (4 * (k - 1)))
    IN  a \div PAGESIZE = (a + Len(strings[k])) \div PAGESIZE

NumberOf(text) ==
  IF text[1] = 45 THEN 0 - FoldLeft(LAMBDA n, c : (10 * n) + c - 48, 0, Tail(text))
  ELSE FoldLeft(LAMBDA n, c : (10 * n) + c - 48, 0, text)

\* A decimal number as one writes it, and what hex digits mean.
IsNumeral(text) ==
  LET digits == IF text # <<>> /\ text[1] = 45 THEN Tail(text) ELSE text
  IN  /\ digits # <<>> /\ \A k \in DOMAIN digits : digits[k] \in 48..57
      /\ digits[1] = 48 => text = <<48>>

HexNumberOf(text) ==
  FoldLeft(LAMBDA n, c : (16 * n) + (IF c >= 97 THEN c - 87 ELSE c - 48), 0, text)

\* Text that says what a conversion was given.
Says(text, token, word) ==
  CASE token.conv \in {"i", "u"} -> IsNumeral(text) /\ NumberOf(text) = word.n
    [] token.conv = "y" -> Len(text) = 2 /\ HexNumberOf(text) = word.n % 256
    [] token.conv = "Y" -> Len(text) = 4 /\ HexNumberOf(text) = word.n % 65536
    [] token.conv = "x" -> Len(text) = 8 /\ HexNumberOf(text) = word.n
    [] token.conv = "c" -> text = <<word.n>>
    [] token.conv = "s" -> text = (IF word.n = 0 THEN NullText ELSE word.text)
    [] token.conv = "%" -> text = <<37>>
    [] token.conv = "plain" -> text = <<token.ch>>

\* Text that can be cut into one piece for every part of the format, each saying
\* what its own argument is.
Reads(text, fmt, args) ==
  LET n == Len(fmt)
      mine(k) == 1 + Cardinality({j \in 1..k - 1 : fmt[j].conv \notin {"%", "plain"}})
      word(k) == IF fmt[k].conv \in {"%", "plain"} THEN [n |-> 0, text |-> <<>>] ELSE args[mine(k)]
  IN  \E cut \in [0..n -> 0..Len(text)] :
        /\ cut[0] = 0 /\ cut[n] = Len(text)
        /\ \A k \in 1..n : /\ cut[k - 1] <= cut[k]
                           /\ Says(SubSeq(text, cut[k - 1] + 1, cut[k]), fmt[k], word(k))

\* Days since 1970, counted by the Gregorian rules.
GregorianDays(d) ==
  LET Leap(y) == y % 4 = 0 /\ (y % 100 # 0 \/ y % 400 = 0)
      leaps == Cardinality({y \in 1970..d[1] - 1 : Leap(y)})
      before == <<0, 31, 59, 90, 120, 151, 181, 212, 243, 273, 304, 334>>[d[2]]
  IN  (365 * (d[1] - 1970)) + leaps + before + d[3] - 1
        + (IF d[2] > 2 /\ Leap(d[1]) THEN 1 ELSE 0)

-----------------------------------------------------------------------------
(***************************************************************************)
(* A read returns the words of the file from its offset on, over direct    *)
(* and indirect blocks and fragments, or clusters in any order (not over   *)
(* holes and second indirections), and readlink() begins with the text of  *)
(* the link (ffs/read.c, ffs/dinode.c, msdosfs.c).                         *)
(***************************************************************************)
ReadsReturnTheFile ==
  /\ question.kind = "read" =>
       answer = Result("ok", SubSeq(Contents[question.inode], question.offset + 1,
                                    question.offset + question.length))
  /\ question.kind = "fatread" =>
       answer = [k \in 1..question.length |->
                   FatByteOf(question.file, question.offset + k - 1)]
  /\ question.kind = "readlink" =>
       /\ (answer.res = "ok") <=> (question.inode \in DOMAIN Links)
       /\ question.inode \in DOMAIN Links =>
            \A k \in 1..question.length : k <= Len(Links[question.inode]) =>
              answer.data[k] = Links[question.inode][k]

(***************************************************************************)
(* A path leads where the names lead in the tree of mounted file systems,  *)
(* also over mount points, up through ".." and back, and not past a file;  *)
(* a listing in pieces shows every entry once, in order, unless procfs     *)
(* fills the buffer, which panics (vfs/vfs_stat.c, the namestat() of each  *)
(* file system, sys_getdirentries()).                                      *)
(***************************************************************************)
NamesResolve ==
  /\ question.kind = "name" =>
       LET to == Reached(question.from, question.path)
       IN  /\ answer.ss.res = to.res
           /\ to.res = "ok" =>
                /\ answer.ss.st_ino = InTree(to.at).ino
                /\ answer.ss.dir = InTree(to.at).dir
                /\ answer.node.mi = InTree(to.at).mi
  /\ question.kind = "list" =>
       LET fs == Mounts[question.mi].fs
       IN  IF fs.fstype = "procfs" /\ question.nbytes \div EntrySize(fs) <= Len(Chain(fs))
           THEN answer.res = "panic"
           ELSE answer.res = "ok" /\ answer.got = Chain(fs)
  /\ question.kind = "fatname" =>
       answer = (IF question.name \in DOMAIN FatTree[question.dir]
                 THEN FatTree[question.dir][question.name] ELSE "ENOENT")

(***************************************************************************)
(* What the kernel computes for a system call is so: a range is accessible *)
(* just when each address of it is, mmap() gets unmapped pages, the        *)
(* program finds the arguments execve() was given on stack pages that      *)
(* exist, text stays in its buffer and says what the arguments are, piece  *)
(* by piece, with %X as if it were not in the format (the conversion after *)
(* it gets its argument), dates mean what they meant                       *)
(* (vm_prot.c, vm_region.c, openbsd_aout.c, snprintf.c, timer.c).          *)
(***************************************************************************)
ValuesRight ==
  /\ question.kind = "range" =>
       (answer <=> \A a \in question.addr..question.addr + question.len - 1 :
                     Allowed(a, question.access))
  /\ question.kind = "most" =>
       /\ \A a \in question.addr..question.addr + answer - 1 : Allowed(a, question.access)
       /\ ~Allowed(question.addr + answer, question.access)
  /\ question.kind = "string" =>
       \A n \in 0..question.buflen - 1 :
         (ByteAt(Memory, question.addr + n) = 0
           /\ \A m \in 0..n - 1 : ByteAt(Memory, question.addr + m) # 0) => answer = n
  /\ question.kind = "room" =>
       answer = Max({0} \cup RoomFor(IF question.len = 0 THEN 1
                                     ELSE (question.len + PAGESIZE - 1) \div PAGESIZE))
  /\ question.kind = "args" =>
       (answer.res = "panic") = (question.argv = <<>> \/ question.envp = <<>>)
  /\ question.kind = "args" /\ answer.res = "ok" =>
       LET argc == WordAt(answer.mem, answer.esp)
           args == answer.esp + 4
           envs == args + (4 * (Len(question.argv) + 1))
       IN  /\ argc = Len(question.argv)
           /\ answer.esp % 4 = 0
           /\ answer.pages \subseteq 0..(StackSize \div PAGESIZE) - 1
           /\ DOMAIN answer.mem \subseteq {a \in 0..StackTop - 1 :
                (a - (StackTop - StackSize)) \div PAGESIZE \in answer.pages}
           /\ WordAt(answer.mem, args + (4 * argc)) = 0
           /\ WordAt(answer.mem, envs + (4 * Len(question.envp))) = 0
           /\ (OnOnePage(answer, question.argv, args) /\ OnOnePage(answer, question.envp, envs))
                => /\ StringsAt(answer.mem, args, argc) = question.argv
                   /\ StringsAt(answer.mem, envs, Len(question.envp)) = question.envp
  /\ question.kind = "text" =>
       LET fmt == question.format.fmt
           args == question.format.args
           whole == Snprintf(100, fmt, args).text
       IN  /\ answer.top < question.len
           /\ answer.text = SubSeq(whole, 1, Min({Len(whole), question.len - 1}))
           /\ Reads(whole, SelectSeq(fmt, LAMBDA token : token.conv # "X"), args)
  /\ question.kind = "int" =>
       (question.n > AsInt(IntSpan \div 2) => NumberOf(answer) = question.n)
  /\ question.kind = "day" => answer = GregorianDays(question.day)
  /\ question.kind = "sector" =>
       /\ answer.sector \in 1..Drive.secpertrack /\ answer.head \in 0..Drive.nrheads - 1
       /\ answer.cyl \in 0..Drive.cyls - 1
       /\ question.sector = answer.sector - 1
            + (Drive.secpertrack * answer.head)
            + (Drive.nrheads * Drive.secpertrack * answer.cyl)
=============================================================================
