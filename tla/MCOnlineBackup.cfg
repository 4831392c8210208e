CONSTANTS
  Client = {c, d}
  Nobody = Nobody
  Page = {0, 1}
  MaxPages = 2
  PagesPerStep = 1
SPECIFICATION FairSpec
PROPERTIES
  ImplementsSnapshot
  EveryClientAnswered
  EveryCopyEnds
