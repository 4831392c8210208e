CONSTANTS
  Proc = {p, q}
  Alias = {"a", "b"}
  Value <- OneValue
  Inode = {i1, i2, i3, i4}
  Header = "#"
  MaxCommands = 4
  MaxBoots = 1
SPECIFICATION Spec
SYMMETRY NameSymmetry
INVARIANTS
  TypeOK
PROPERTIES
  RewritesWhole
  OthersKept
CHECK_DEADLOCK FALSE
