SPECIFICATION Spec
CONSTANTS
  c1 = c1
  c2 = c2
  Creators = {c1, c2}
  Ceiling <- MCCeiling
  Names = {"a", "b"}
  MaxIno = 4
INVARIANTS
  VersionRowIsLast
  ServedIsWhole
  NoOrphanAttributes
  CheckNeverAlarms
PROPERTIES
  OpeningKeepsTree
  NumbersNeverReused
  CeilingAsCreated
CHECK_DEADLOCK FALSE
