----------------------------- MODULE MCLookups -----------------------------
\* A volume of three groups, a floppy with nine clusters, a process with
\* three regions, and the questions asked of them.
EXTENDS Lookups, TLC

MCNDADDR == 2

Dino(blocks, ib, size, dir, link) ==
  [di_blocks |-> 100, di_db |-> blocks, di_ib |-> ib, di_size |-> size,
   dir |-> dir, link |-> link]
NoDino == Dino(<<0, 0>>, 0, 0, FALSE, FALSE)

Ent(ino, name, reclen) == [d_ino |-> ino, d_name |-> name, d_reclen |-> reclen]
Unused == Ent(0, <<0>>, 1)

\* The words of a file say which file and which word.
Words(i, n) == [k \in 1..n |-> (1000 * i) + k]
Fragment(i, k) == [j \in 1..4 |-> (1000 * i) + (4 * k) + j]

\* "d", "g" and so on; 3 and 5 are files, 6 is a link, the others directories.
\* An entry of "d" was removed and another one was removed at its start.
VolumeDisk ==
  2 :> <<NoDino, NoDino>>
  @@ 3 :> <<Dino(<<4, 0>>, 0, 8, TRUE, FALSE), Dino(<<16, 0>>, 0, 5, FALSE, FALSE)>>
  @@ 35 :> <<Dino(<<6, 0>>, 0, 6, TRUE, FALSE), Dino(<<8, 10>>, 14, 27, FALSE, FALSE)>>
  @@ 36 :> <<Dino(<<77, 78>>, 0, 2, FALSE, TRUE), Dino(<<18, 0>>, 0, 2, TRUE, FALSE)>>
  @@ 66 :> <<Dino(<<20, 0>>, 0, 2, TRUE, FALSE), NoDino>>
  @@ 67 :> <<NoDino, NoDino>>
  @@ 4 :> <<Ent(2, <<46>>, 1), Ent(2, <<46, 46>>, 1), Ent(4, <<100>>, 1), Ent(8, <<112>>, 1)>>
  @@ 5 :> <<Ent(5, <<102>>, 2), Unused, Ent(6, <<108>>, 2), Unused>>
  @@ 6 :> <<Ent(4, <<46>>, 1), Ent(2, <<46, 46>>, 2), Ent(3, <<114>>, 1), Ent(3, <<103>>, 1)>>
  @@ 7 :> <<Ent(7, <<115>>, 1), Unused, Unused, Unused>>
  @@ 18 :> <<Ent(7, <<46>>, 1), Ent(4, <<46, 46>>, 1), Unused, Unused>>
  @@ 20 :> <<Ent(8, <<46>>, 1), Ent(2, <<46, 46>>, 1), Unused, Unused>>
  @@ 8 :> Fragment(5, 0) @@ 9 :> Fragment(5, 1)
  @@ 10 :> Fragment(5, 2) @@ 11 :> Fragment(5, 3)
  @@ 14 :> <<12, 70, 0, 0>>
  @@ 12 :> Fragment(5, 4) @@ 13 :> Fragment(5, 5)
  @@ 70 :> Fragment(5, 6)
  @@ 16 :> Fragment(3, 0) @@ 17 :> Fragment(3, 1)
  @@ [b \in 0..80 |-> <<0, 0, 0, 0>>]

MCVolume ==
  [fstype |-> "ffs", root_inode |-> 2, fs_ncg |-> 3, fs_fsize |-> 4, fs_frag |-> 2,
   fs_bsize |-> 8, fs_fpg |-> 32, fs_ipg |-> 4, fs_iblkno |-> 2, fs_cgoffset |-> 1,
   cgcycle |-> 2, inopf |-> 2, disk |-> VolumeDisk]
MCContents == 3 :> Words(3, 5) @@ 5 :> Words(5, 27)
MCLinks == 6 :> <<77, 78>>

-----------------------------------------------------------------------------
MCSectorSize == 4

\* The table for the chains 2, 5, 3 and 7, 8, 6 and the directory in 4.
FatEntry(n) ==
  CASE n = 2 -> 5 [] n = 5 -> 3 [] n = 7 -> 8 [] n = 8 -> 6
    [] n \in {3, 6, 4} -> 4095 [] n = 0 -> 4080 [] OTHER -> 0
FatBytes ==
  FlattenSeq([m \in 1..6 |->
    LET lo == FatEntry(2 * (m - 1))
        hi == FatEntry((2 * (m - 1)) + 1)
    IN  <<lo % 256, (lo \div 256) + (16 * (hi % 16)), hi \div 16>>])

DosEntry(kind, name, cluster) == [kind |-> kind, name |-> name, cluster |-> cluster]

MCFloppy ==
  [nr_of_reserved_sectors |-> 1, nr_of_fats |-> 1, sectors_per_fat |-> 4,
   rootdir_sectors |-> 2, nr_of_sectors |-> 23, sectors_per_cluster |-> 2,
   fat |-> FatBytes \o <<0, 0>>,
   data_at |-> [c \in 2..9 |-> 7 + (2 * (c - 2))],
   dir |-> 5 :> <<DosEntry("label", <<102>>, 0), DosEntry("file", <<102>>, 2)>>
           @@ 6 :> <<DosEntry("deleted", <<103>>, 9), DosEntry("dir", <<100>>, 4)>>
           @@ 11 :> <<DosEntry("dir", <<46>>, 4), DosEntry("dir", <<46, 46>>, 0)>>
           @@ 12 :> <<DosEntry("file", <<103>>, 7)>>]
MCClusters == 1 :> [chain |-> <<2, 5, 3>>, size |-> 21] @@ 2 :> [chain |-> <<7, 8, 6>>, size |-> 17]
MCFatTree ==
  1 :> (<<46>> :> 1 @@ <<46, 46>> :> 1 @@ <<102>> :> 2 @@ <<100>> :> 4)
  @@ 4 :> (<<46>> :> 4 @@ <<46, 46>> :> 1 @@ <<103>> :> 7)

-----------------------------------------------------------------------------
Devfs == [fstype |-> "devfs", root_inode |-> 1, devices |-> <<<<99>>, <<102, 100>>, <<119>>>>]
Procfs == [fstype |-> "procfs", root_inode |-> 1, queues |-> <<<<3>>, <<12, 1>>, <<>>, <<7>>>>]

\* The volume is mounted again in a directory of itself, as two disks of the
\* same make would be, and devfs in that.
Mount(fs, names) == [fs |-> fs, at |-> [abs |-> TRUE, names |-> names, slash |-> FALSE]]
MCRequests ==
  <<Mount(MCVolume, <<>>), Mount(Procfs, <<<<112>>>>), Mount(MCVolume, <<<<100>>, <<115>>>>),
    Mount(Devfs, <<<<100>>, <<115>>, <<112>>>>)>>

Node(ino, dir) == [ino |-> ino, dir |-> dir]
VolumeTree ==
  <<>> :> Node(2, TRUE) @@ <<<<100>>>> :> Node(4, TRUE) @@ <<<<112>>>> :> Node(8, TRUE)
  @@ <<<<102>>>> :> Node(5, FALSE) @@ <<<<108>>>> :> Node(6, FALSE)
  @@ <<<<100>>, <<103>>>> :> Node(3, FALSE) @@ <<<<100>>, <<115>>>> :> Node(7, TRUE)
  @@ <<<<100>>, <<114>>>> :> Node(3, FALSE)
ProcTree ==
  <<>> :> Node(1, TRUE) @@ <<<<51>>>> :> Node(3, TRUE) @@ <<<<49, 50>>>> :> Node(12, TRUE)
DevTree ==
  <<>> :> Node(1, TRUE) @@ <<<<99>>>> :> Node(101, FALSE) @@ <<<<119>>>> :> Node(103, FALSE)
MCTrees == <<VolumeTree, ProcTree, VolumeTree, DevTree>>

Parts == {<<46>>, <<46, 46>>, <<100>>, <<112>>, <<102>>, <<115>>, <<99>>, <<120>>}
Named == UNION {[1..n -> Parts] : n \in 1..3}
         \cup {<<<<100>>, <<115>>, <<100>>, <<103>>>>, <<<<100>>, <<115>>, <<112>>, <<119>>>>,
               <<<<100>>, <<115>>, <<112>>, <<46, 46>>, <<46, 46>>, <<46, 46>>, <<112>>>>}
\* The directory of a process has no entries, not even ".".
Processes == {<<<<112>>, <<51>>>>, <<<<112>>, <<49, 50>>>>, <<<<112>>, <<50>>>>}
MCWalks == [abs : {FALSE}, names : Named, slash : BOOLEAN]
           \cup [abs : {TRUE}, names : {<<>>} \cup [1..2 -> Parts] \cup Processes, slash : {FALSE}]
MCPlaces == {<<>>, <<<<100>>>>, <<<<112>>>>, <<<<100>>, <<115>>>>, <<<<100>>, <<115>>, <<112>>>>}

-----------------------------------------------------------------------------
MCRegions ==
  <<[from |-> 8, to |-> 15, access |-> {"read"}],
    [from |-> 16, to |-> 31, access |-> {"read", "write"}],
    [from |-> 56, to |-> 63, access |-> {"write"}],
    [from |-> 72, to |-> 95, access |-> {"read", "write"}]>>
MCMemory == [a \in 8..31 |-> IF a \in {11, 12, 19, 30} THEN 0 ELSE 97]
Strings == {<<>>, <<97>>, <<97, 98>>, <<97, 98, 99>>}
MCArgLists == {<<>>} \cup {<<s>> : s \in Strings} \cup {<<s, t>> : s, t \in Strings}

\* A part of a format, with the words it is given; those of %X are the two halves
\* of a 64-bit number.
Part(conv, words) == [token |-> [conv |-> conv, ch |-> 120], words |-> words]
Num(n) == [n |-> n, text |-> <<>>]
Str(text) == [n |-> 1, text |-> text]
Pieces ==
  {Part("i", <<Num(0)>>), Part("i", <<Num(-31)>>), Part("u", <<Num(47)>>),
   Part("x", <<Num(2748)>>), Part("Y", <<Num(70000)>>), Part("y", <<Num(313)>>),
   Part("X", <<Num(0), Num(0)>>), Part("X", <<Num(5), Num(0)>>),
   Part("s", <<Num(0)>>), Part("s", <<Str(<<>>)>>), Part("s", <<Str(<<97, 98, 99>>)>>),
   Part("c", <<Num(121)>>), Part("%", <<>>), Part("plain", <<>>)}
Format(parts) ==
  [fmt |-> [k \in DOMAIN parts |-> parts[k].token],
   args |-> FlattenSeq([k \in DOMAIN parts |-> parts[k].words])]
\* A string after %X is looked for at the address the number is: only 0 is one.
\* The last is what the file system prints of its superblock (ffs/super.c:52).
Printable(parts) ==
  \A k \in 2..Len(parts) :
    parts[k].token.conv = "s" /\ parts[k-1].token.conv = "X" => parts[k-1].words[1].n = 0
MCFormats ==
  {Format(parts) : parts \in {p \in UNION {[1..n -> Pieces] : n \in 0..2} : Printable(p)}}
  \cup {Format(<<Part("s", <<Str(<<97>>)>>), Part("i", <<Num(2)>>),
                 Part("X", <<Num(9), Num(0)>>), Part("i", <<Num(-31)>>)>>)}
MCDays ==
  {<<y, m, d>> : y \in {1970, 1972, 1999, 2000, 2001, 2004, 2037}, m \in 1..12, d \in {1, 28}}
  \cup {<<1972, 2, 29>>, <<2000, 2, 29>>, <<1999, 12, 31>>}
MCDrive == [secpertrack |-> 3, nrheads |-> 2, cyls |-> 4]
=============================================================================
