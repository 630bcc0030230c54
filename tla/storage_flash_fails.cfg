CONSTANTS
  Function <- AllFunctions
  Maps <- SomeMaps
  Cycle = 12
  Interval = 3
  Tick = 1
  MaxLate = 1
  HasLdo = TRUE
  MaxSwaps = 2
  MaxFaults = 1
CHECK_DEADLOCK FALSE
SPECIFICATION FairSpec
PROPERTIES
  BackendsIndependent
