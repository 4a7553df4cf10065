SPECIFICATION Spec
CONSTANTS
  NDADDR <- MCNDADDR
  SectorSize <- MCSectorSize
  PAGESIZE = 8
  AddrSpace = 128
  StackTop = 96
  StackSize = 48
  IntSpan = 64
  Volume <- MCVolume
  Contents <- MCContents
  Links <- MCLinks
  Floppy <- MCFloppy
  Clusters <- MCClusters
  FatTree <- MCFatTree
  Requests <- MCRequests
  Trees <- MCTrees
  Walks <- MCWalks
  Places <- MCPlaces
  Regions <- MCRegions
  Memory <- MCMemory
  ArgLists <- MCArgLists
  Formats <- MCFormats
  Days <- MCDays
  Drive <- MCDrive
INVARIANT ReadsReturnTheFile
INVARIANT NamesResolve
INVARIANT ValuesRight
