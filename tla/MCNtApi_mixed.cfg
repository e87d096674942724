SPECIFICATION NtSpec
CONSTANTS
  DirCount = 2
  LocalSpan = 2
  CSE <- Chunk24
  PoolCap = 1
  PoolInit = 1
  GidCap = 1
  GidInit = 1
  PosSpan = 8
  Data <- OneThreeFive
  Offsets = {0}
  Counts = {1}
  None = None
  Unsure = Unsure
  npos = npos
  a = a
  b = b
  MemMayFail = FALSE
  DiskMayFail = TRUE
  MaxCrashes = 1
INVARIANTS
  TypeOK
  NtReadsBack
  IdsUndisturbed
  ChunksOwned
