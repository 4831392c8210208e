CONSTANTS
  Names = {a}
  MaxIno = 3
  Modes <- PrivilegedModes
  XNames = {cap, user}
  Capability = cap
  BlockSize = 1
  MaxLen = 1
  MaxSize = 0
SPECIFICATION Spec
INVARIANTS
  PrivilegesDropped
  NoOrphanRows
