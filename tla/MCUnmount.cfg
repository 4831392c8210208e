CONSTANTS
  Daemon = {d, e, f}
  Foreign = {f}
  Watched = {d}
  User = {u}
  Number = {1, 2}
  Nobody = Nobody
SPECIFICATION FairSpec
PROPERTIES
  AbortOnlyDetached
  OkMeansUnmounted
  DetachedDaemonEnds
  IdleIsUnmounted
