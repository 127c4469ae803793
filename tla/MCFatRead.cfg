CONSTANTS
  SectorSize = 4
  SectorsPerCluster = 2
  ReservedSectors = 2
  FatCopies = 1
  SectorsPerFat = 3
  RootDirEntries = 3
  ItemSize = 4
  WordSize = 65536
  DiskSize = 72
  Disks <- SmallDisks
  Requests <- SmallRequests

SPECIFICATION Spec
INVARIANTS TypeOK FirstClusterReads BufferExact
PROPERTY ReadEnds
CHECK_DEADLOCK FALSE
