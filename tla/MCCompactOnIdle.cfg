CONSTANTS
  MaxPages = 7
  MaxMeta = 2
  MaxSize = 8
  MinReclaim = 2
  Ratio = 3

SPECIFICATION CompactFairSpec

INVARIANTS
  VacuumReclaims

PROPERTIES
  NoCompactionOverCall
  FreedSpaceReclaimed
