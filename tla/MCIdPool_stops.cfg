SPECIFICATION Spec
CONSTANTS
  Cap = 2
  InitSize = 1
  Vals = {v1, v2}
  None = None
  MaxDepth = 1
  MaxLog = 2
  DiskMayFail = TRUE
  MemMayFail = FALSE
PROPERTIES
  StopsOnFailure
