SPECIFICATION Spec
CONSTANTS
  DirCount = 2
  LocalSpan = 2
  CSE <- Chunk24
  PoolCap = 2
  PoolInit = 1
  GidCap = 2
  GidInit = 1
  PosSpan = 4
  Data <- OneThree
  Offsets <- Ends
  Counts = {1}
  None = None
  npos = npos
  a = a
  b = b
  MemMayFail = FALSE
  DiskMayFail = FALSE
  MaxCrashes = 0
INVARIANTS
  ReadsBack
