------------------------------ MODULE Msdosfs ------------------------------
(***************************************************************************)
(* The MS-DOS file system, read only (modules/fs/msdosfs, which CONFIG-ALL *)
(* leaves out of the kernel): 12-bit entries of the file allocation table, *)
(* cluster chains, reads and names.                                        *)
(*                                                                         *)
(* A file system is a record: the fields of the boot sector, "fat", the    *)
(* bytes of the first table, and "dir", the entries of each sector of a    *)
(* directory.  A data sector holds its own places, <<sector, byte>>.       *)
(***************************************************************************)
EXTENDS Integers, Sequences, SequencesExt

CONSTANT SectorSize     \* bytes of a sector, 512 in the code

\* msdosfs_read_superblock(): where the parts of the disk start.
FirstRootdirSector(fs) == fs.sectors_per_fat * fs.nr_of_fats + fs.nr_of_reserved_sectors
FirstDataSector(fs) == FirstRootdirSector(fs) + fs.rootdir_sectors

NrOfBlocks(fs) ==
  fs.nr_of_sectors - (fs.sectors_per_fat * fs.nr_of_fats)
    - fs.nr_of_reserved_sectors - fs.rootdir_sectors

NrOfEntries(fs) == NrOfBlocks(fs) \div fs.sectors_per_cluster

ClusterToSector(fs, cluster) ==
  FirstDataSector(fs) + (fs.sectors_per_cluster * (cluster - 2))

FatByte(fs, sector, ofs) == fs.fat[(sector * SectorSize) + ofs + 1]

\* An entry may have its second byte in the next sector.
SecondByte(fs, ofs) ==
  IF ofs % SectorSize = SectorSize - 1
  THEN FatByte(fs, (ofs + 1) \div SectorSize, 0)
  ELSE FatByte(fs, ofs \div SectorSize, (ofs % SectorSize) + 1)

\* msdosfs_next_cluster(): 0 at the end of the chain, and for a cluster that
\* is taken to be outside: clusters are numbered from 2, but compared with
\* their number.
NextCluster(fs, cluster) ==
  LET ofs == (3 * cluster) \div 2
      word == FatByte(fs, ofs \div SectorSize, ofs % SectorSize)
              + (SecondByte(fs, ofs) * 256)
      new == IF cluster % 2 = 1 THEN word \div 16 ELSE word % 4096
  IN  IF cluster > NrOfEntries(fs) \/ new >= 4080 THEN 0 ELSE new

-----------------------------------------------------------------------------
ClusterBytes(fs) == fs.sectors_per_cluster * SectorSize

ReadCluster(fs, cluster) ==
  FlattenSeq([k \in 1..fs.sectors_per_cluster |->
    [b \in 1..SectorSize |-> <<ClusterToSector(fs, cluster) + k - 1, b - 1>>]])

\* msdosfs_read(): follows the chain to the first cluster, then copies from
\* cluster after cluster.  As sys_read() asks for no byte after the end of
\* the file, the correction for a cluster after it is left out.
MsdosRead(fs, first, size, offset, length) ==
  LET skipped == offset \div ClusterBytes(fs)
      chain[n \in 0..size] ==
        IF n = 0 THEN first
        ELSE IF chain[n - 1] = 0 THEN 0 ELSE NextCluster(fs, chain[n - 1])
      Copy(acc, n) ==
        LET start == IF n = skipped THEN offset % ClusterBytes(fs) ELSE 0
            left == length - Len(acc)
            room == ClusterBytes(fs) - start
            len == IF left >= room THEN room ELSE left
        IN  IF chain[n] = 0 THEN acc
            ELSE acc \o SubSeq(ReadCluster(fs, chain[n]), start + 1, start + len)
  IN  FoldLeft(Copy, <<>>,
               [k \in 1..(((offset + length - 1) \div ClusterBytes(fs)) - skipped + 1)
                  |-> skipped + k - 1])

-----------------------------------------------------------------------------
\* msdosfs__findfilenameinbuf(): deleted entries and the volume label are
\* passed over.
FindInSector(fs, sector, name) ==
  {k \in DOMAIN fs.dir[sector] :
     fs.dir[sector][k].kind \in {"file", "dir"} /\ fs.dir[sector][k].name = name}

\* The entry in the first of these sectors that has one.
FindInSectors(fs, sectors, name) ==
  LET with == SelectSeq(sectors, LAMBDA s : FindInSector(fs, s, name) # {})
      k == CHOOSE k \in FindInSector(fs, with[1], name) :
             \A j \in FindInSector(fs, with[1], name) : k <= j
  IN  IF with = <<>> THEN [kind |-> "ENOENT", name |-> name, cluster |-> 0]
      ELSE fs.dir[with[1]][k]

\* msdosfs_namestat(): the root directory, inode 1, has a place of its own
\* and no "." or "..", which are made up; a directory of cluster 0 is the root.
MsdosNamestat(fs, dirinode, name) ==
  LET root == [k \in 1..fs.rootdir_sectors |-> FirstRootdirSector(fs) + k - 1]
      chain[n \in 0..NrOfEntries(fs)] ==
        IF n = 0 THEN dirinode
        ELSE IF chain[n - 1] = 0 THEN 0 ELSE NextCluster(fs, chain[n - 1])
      clusters == SelectSeq([n \in 1..NrOfEntries(fs) |-> chain[n - 1]], LAMBDA c : c > 0)
      sectors == FlattenSeq([n \in DOMAIN clusters |->
                   [k \in 1..fs.sectors_per_cluster |->
                      ClusterToSector(fs, clusters[n]) + k - 1]])
      found == FindInSectors(fs, IF dirinode = 1 THEN root ELSE sectors, name)
  IN  CASE found.kind = "ENOENT" /\ dirinode = 1 /\ name \in {<<46>>, <<46, 46>>} -> 1
        [] found.kind = "ENOENT" /\ (dirinode # 1 \/ name \notin {<<46>>, <<46, 46>>}) -> "ENOENT"
        [] OTHER -> IF found.kind = "dir" /\ found.cluster = 0 THEN 1 ELSE found.cluster
=============================================================================
