CONSTANTS
  loop = loop
  web = web
  k1 = k1
  k2 = k2
  k3 = k3
  Task = {loop, web}
  LoopTask = loop
  RuntimeKey = {k1, k2}
  CatalogKey = CatalogKey
  NoKey = NoKey
  MinValue = 0
  MaxValue = 2
  PendingMax = 3
  RuntimeMax = 2
  Delays = {1}
  Calls <- CreateCalls
  MaxSeq = 4
  MaxFaults = 0
  MaxCrashes = 0
SYMMETRY KeySymmetry
SPECIFICATION Spec
INVARIANTS
  RegistryPersisted
