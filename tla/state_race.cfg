CONSTANTS
  loop = loop
  web = web
  k1 = k1
  k2 = k2
  k3 = k3
  Task = {loop, web}
  LoopTask = loop
  RuntimeKey = {k1}
  CatalogKey = CatalogKey
  NoKey = NoKey
  MinValue = 0
  MaxValue = 1
  PendingMax = 3
  RuntimeMax = 2
  Delays = {1}
  Calls <- SingleCommitterCalls
  MaxSeq = 5
  MaxFaults = 1
  MaxCrashes = 0
SYMMETRY KeySymmetry
SPECIFICATION Spec
INVARIANTS
  SeqNamesWrite
  ReadsLatestWrite
PROPERTIES
  ClearsOnlyDurable
  NvsNeverGoesBack
  ImplementsStore
