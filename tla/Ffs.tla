-------------------------------- MODULE Ffs --------------------------------
(***************************************************************************)
(* The fast file system, read only (modules/fs/ffs): where the dinode of   *)
(* an inode is on the disk, which disk block holds a block of a file, what *)
(* a read returns and how a name is found in a directory.                  *)
(*                                                                         *)
(* A file system is a record: its geometry, named as in the superblock,    *)
(* and "disk", a function from fragment numbers to what they hold.  Data   *)
(* is counted in words as long as a block pointer.  A fragment holds       *)
(* fs_fsize words or, in the inode area, inopf dinodes; in a directory the *)
(* word where an entry starts is the entry.                                *)
(***************************************************************************)
EXTENDS Integers, Sequences, SequencesExt

CONSTANT NDADDR     \* blocks a dinode points to directly, 12 in the code

Bsize(fs) == fs.fs_bsize

\* ffs_read_superblock(): the geometry it accepts.
SuperblockAccepted(fs) ==
  /\ fs.fs_ncg >= 1 /\ fs.fs_fsize >= 1 /\ fs.fs_frag >= 1
  /\ fs.fs_bsize = fs.fs_fsize * fs.fs_frag

-----------------------------------------------------------------------------
\* cgstart: fs_cgoffset * (c & ~fs_cgmask), the mask being a power of two.
Cgstart(fs, c) == fs.fs_fpg * c + fs.fs_cgoffset * (c % fs.cgcycle)
Cgimin(fs, c) == Cgstart(fs, c) + fs.fs_iblkno

\* ffs__readdinode(): reads the one fragment that holds it.
ReadDinode(fs, i) ==
  LET within == i % fs.fs_ipg
      b == Cgimin(fs, i \div fs.fs_ipg) + (within \div fs.inopf)
  IN  fs.disk[b][(within % fs.inopf) + 1]

\* block_read() of the fragments of a block.
BlockAt(fs, a) == FlattenSeq([k \in 1..fs.fs_frag |-> fs.disk[a + k - 1]])

Result(res, data) == [res |-> res, data |-> data]

\* ffs__readblock(): one level of indirection; a pointer of 0, a hole, is
\* read like any other.
ReadBlock(fs, i, blnr) ==
  LET di == ReadDinode(fs, i)
      localbn == blnr - NDADDR
  IN  CASE blnr > di.di_blocks -> Result("EINVAL", <<>>)
        [] blnr <= di.di_blocks /\ blnr < NDADDR ->
             Result("ok", BlockAt(fs, di.di_db[blnr + 1]))
        [] blnr <= di.di_blocks /\ localbn >= Bsize(fs) -> Result("panic", <<>>)
        [] OTHER ->
             Result("ok", BlockAt(fs, BlockAt(fs, di.di_ib)[localbn + 1]))

-----------------------------------------------------------------------------
\* The mutant starts every block where the first one was started.
StartKept(fs, offset, blnr) == offset % Bsize(fs)

\* offset_within_block: only the first block is not read from its start.
StartWithin(fs, offset, blnr) ==
  IF blnr = offset \div Bsize(fs) THEN offset % Bsize(fs) ELSE 0

\* ffs_read(): block after block until "length" is reached or one fails.
FfsRead(fs, i, offset, length) ==
  LET first == offset \div Bsize(fs)
      Copy(acc, blnr) ==
        LET block == ReadBlock(fs, i, blnr)
            start == StartWithin(fs, offset, blnr)
            left == length - Len(acc.data)
            n == IF left + start > Bsize(fs) THEN Bsize(fs) - start ELSE left
        IN  CASE acc.res # "ok" -> acc
              [] acc.res = "ok" /\ block.res # "ok" -> Result(block.res, acc.data)
              [] OTHER -> Result("ok", acc.data \o SubSeq(block.data, start + 1, start + n))
  IN  IF length = 0 THEN Result("ok", <<>>)
      ELSE FoldLeft(Copy, Result("ok", <<>>),
                    [k \in 1..((offset + length - 1) \div Bsize(fs)) - first + 1
                       |-> first + k - 1])

\* ffs_readlink(): the words from di_db on.  Its end is computed in units of
\* dinodes, so a link is never shorter than the buffer: what follows di_db in
\* memory comes after the text.
FfsReadlink(fs, i, bufsize) ==
  LET di == ReadDinode(fs, i)
  IN  IF ~di.link THEN Result("EINVAL", <<>>)
      ELSE Result("ok", [k \in 1..bufsize |-> IF k <= Len(di.di_db) THEN di.di_db[k]
                                              ELSE "garbage"])

-----------------------------------------------------------------------------
\* ffs_istat(): fills ss, or leaves it as it was.
Istat(fs, i, ss) ==
  IF i < 2 THEN Result("EINVAL", ss)
  ELSE LET di == ReadDinode(fs, i)
       IN  Result("ok", [st_ino |-> i, st_size |-> di.di_size, dir |-> di.dir])

\* ffs_namestat(): scans the directory a block at a time.  The end of the
\* scan is counted from the end of the directory, not of the block, so it
\* leaves the buffer when there are more blocks.  A match whose inode cannot
\* be statted leaves the directory itself in ss, and succeeds.
Scanned(fs, name, dir, block) ==
  LET scan[pos \in 1..dir.st_size + 1] ==
        CASE pos > dir.st_size -> Result("ENOENT", <<>>)
          [] pos <= dir.st_size /\ pos > Len(block.data) -> Result("outside", <<>>)
          [] OTHER ->
               IF block.data[pos].d_name = name
               THEN Result("ok", Istat(fs, block.data[pos].d_ino, dir).data)
               ELSE scan[pos + block.data[pos].d_reclen]
  IN  CASE dir.st_size = 0 -> Result("ENOENT", <<>>)
        [] dir.st_size > 0 /\ block.res # "ok" -> Result(block.res, <<>>)
        [] OTHER -> scan[1]

FfsNamestat(fs, dirinode, name) ==
  IF dirinode < 2 THEN Result("EINVAL", <<>>)
  ELSE Scanned(fs, name, Istat(fs, dirinode, <<>>).data, ReadBlock(fs, dirinode, 0))
=============================================================================
