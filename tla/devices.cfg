CONSTANTS
  loop = loop
  shared = shared
  own = own
  web = web
  Task = {loop, web}
  Calls <- OneRegistrarCalls
  Port = {i2c0}
  Mapped = {i2c0}
  Addr = {shared, own}
  ValidAddr = {shared, own}
  DeviceMax = 2
  Fragile = {shared}
  Users <- SharedOrWeb
  Threshold = 2
  Counts = {1, 2}
  Object = {o1, o2}
  NoObject = NoObject
  MaxResets = 1
CHECK_DEADLOCK FALSE
SPECIFICATION FairSpec
INVARIANTS
  RegistryAgrees
  ParkedForCause
PROPERTIES
  DeadIsParked
