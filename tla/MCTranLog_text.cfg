SPECIFICATION Spec
CONSTANTS
  Char <- Alphabet
  Digit <- Binary
  Width = 2
  Texts <- LikeRecords
  Offs = {1, 2}
  Span = 8
  InitSize = 1
  MaxAppends = 3
  MaxTears = 1
CHECK_DEADLOCK FALSE
INVARIANTS
  TypeOK
  WholeLogReads
  OneRowAtRisk
  CellsHoldRows
