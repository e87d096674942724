SPECIFICATION Spec
CONSTANTS
  Cap = 2
  InitSize = 1
  Vals = {v1, v2}
  None = None
  MaxDepth = 2
  MaxLog = 4
  DiskMayFail = FALSE
  MemMayFail = TRUE
PROPERTIES
  AbsSpec
