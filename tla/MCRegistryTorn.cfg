CONSTANTS
  Proc = {p, q}
  Alias = {"a", "b"}
  Value <- OneValue
  Inode = {i1, i2, i3, i4}
  Header = "#"
  MaxCommands = 3
  MaxBoots = 0
SPECIFICATION Spec
SYMMETRY NameSymmetry
PROPERTIES
  NeverHalfWritten
CHECK_DEADLOCK FALSE
