CONSTANTS
  loop = loop
  web = web
  k1 = k1
  k2 = k2
  k3 = k3
  Task = {loop}
  LoopTask = loop
  RuntimeKey = {k1, k2}
  CatalogKey = CatalogKey
  NoKey = NoKey
  MinValue = 0
  MaxValue = 1
  PendingMax = 3
  RuntimeMax = 2
  Delays = {1}
  Calls <- LivenessCalls
  MaxSeq = 6
  MaxFaults = 1
  MaxCrashes = 0
SPECIFICATION FairSpec
PROPERTIES
  WritesReachNvs
