SPECIFICATION Spec
CONSTANTS
  DirCount = 4
  LocalSpan = 8
  CSE <- Default4
  Bits = 5
  SizeSpan = 256
  Span = 16
  Block = 6
  Chunk = 8
  MinSizes = {1, 2, 4, 128}
  Sizes = {0, 1, 3, 4, 6, 7, 12, 13, 24, 25, 32, 33}
INVARIANTS
  RangeReads
