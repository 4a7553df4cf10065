CONSTANTS
  Irqs = {0, 1, 3, 4, 6, 7, 10, 14}
  DmaChannels = {2}
  NoOwner = NoOwner
  ComPorts = {0, 1016, 544}
  ReadPorts = {0, 547}
  EpPorts = {544, 1008}
  FdcPorts = {0, 1008}
  DiskSets <- MCDiskSets
  Tables <- MCTables
  CrtcPorts <- MCCrtcPorts
  MaxFailures = 1
  NrOfVcs = 1
SPECIFICATION Spec
CHECK_DEADLOCK FALSE
INVARIANTS
  PortsDisjoint
  OwnersRegistered
  NamesDistinct
PROPERTY
  OthersKeepTheirs
