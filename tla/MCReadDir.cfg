CONSTANTS
  Name <- FiveNames
  PageSize = 2
SPECIFICATION FairSpec
INVARIANTS
  NothingMissed
  NothingTwice
PROPERTIES
  ScanEnds
CHECK_DEADLOCK FALSE
