SPECIFICATION Spec
CONSTANTS
  DirCount = 2
  LocalSpan = 2
  CSE <- Chunk24
  PoolCap = 2
  PoolInit = 1
  GidCap = 2
  GidInit = 1
  PosSpan = 8
  Data <- OneThree
  Offsets <- Ends
  Counts = {1, 2}
  None = None
  npos = npos
  a = a
  b = b
  MemMayFail = TRUE
  DiskMayFail = TRUE
  MaxCrashes = 0
CONSTRAINT Undamaged
INVARIANTS
  ReadsBack
  NoSharing
  NoOrphans
  MemoryMatchesDisk
  StatCovers
  DataFit
