CONSTANTS
  loop = loop
  web = web
  k1 = k1
  k2 = k2
  k3 = k3
  Task = {loop}
  LoopTask = loop
  RuntimeKey = {k1, k2, k3}
  CatalogKey = CatalogKey
  NoKey = NoKey
  MinValue = 0
  MaxValue = 1
  PendingMax = 3
  RuntimeMax = 2
  Delays = {0, 1}
  Calls <- SequentialCalls
  MaxSeq = 6
  MaxFaults = 0
  MaxCrashes = 1
SYMMETRY KeySymmetry
SPECIFICATION Spec
INVARIANTS
  TypeOK
  OneSlotPerKey
  BufferAgrees
  RegistryPersisted
  CommitPersists
