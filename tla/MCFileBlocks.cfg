CONSTANTS
  Byte <- TwoBytes
  BlockSize = 2
  MaxLen = 6
  MaxWrite = 4
SPECIFICATION Spec
INVARIANTS
  NoStaleBytes
PROPERTIES
  ImplementsPosix
