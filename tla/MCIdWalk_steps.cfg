SPECIFICATION Spec
CONSTANTS
  Cap = 5
  InitSize = 2
  Beg = 0
  None = None
  MemMayFail = TRUE
INVARIANTS
  TypeOK
  NothingSkipped
  NeverStrands
  FullIsTrue
PROPERTIES
  GoesForward
  WalkEnds
