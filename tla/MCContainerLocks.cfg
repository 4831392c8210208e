CONSTANTS
  Proc = {p, q, r}
  Key = {k1, k2}
  Nobody = Nobody
  Stale = Stale
SPECIFICATION Spec
SYMMETRY ProcSymmetry
INVARIANTS
  OneWriter
  NoStaleKey
  IndexIntact
  ExclusiveIsAlone
  SocketIsOwn
