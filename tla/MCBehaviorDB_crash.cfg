SPECIFICATION Spec
CONSTANTS
  DirCount = 2
  LocalSpan = 2
  CSE <- Chunk24
  PoolCap = 2
  PoolInit = 2
  GidCap = 2
  GidInit = 2
  PosSpan = 8
  Data <- OneThree
  Offsets <- Ends
  Counts = {1}
  None = None
  npos = npos
  a = a
  b = b
  MemMayFail = FALSE
  DiskMayFail = FALSE
  MaxCrashes = 1
CONSTRAINT Undamaged
INVARIANTS
  ReadsBack
PROPERTIES
  SafeCalls
