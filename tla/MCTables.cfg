CONSTANTS
  Names = {a, b}
  MaxIno = 4
  Modes <- NoModes
  XNames = {}
  Capability = cap
  BlockSize = 2
  MaxLen = 3
  MaxSize = 3
SPECIFICATION Spec
SYMMETRY NameSymmetry
INVARIANTS
  TypeOK
  NoDanglingNames
  NoUnreachableInodes
  AllReachableFromRoot
  NoOrphanRows
  BlocksWithinSize
  CeilingRespected
PROPERTIES
  InodeNumbersNeverReused
