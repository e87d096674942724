SPECIFICATION Spec
CONSTANTS
  Block = 3
  Datum = 7
  Span = 23
  Jobs <- SomeJobs
  MaxSignals = 3
  DiskMayFail = TRUE
CHECK_DEADLOCK FALSE
INVARIANTS
  TypeOK
  CopiesExactly
  KeptMeansUntouched
  StaysInTarget
PROPERTIES
  Returns
