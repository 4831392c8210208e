CONSTANTS
  Name <- FiveNames
  PageSize = 2
SPECIFICATION Spec
INVARIANTS
  ScanIsComplete
CHECK_DEADLOCK FALSE
