CONSTANTS
  Function <- AllFunctions
  Maps <- SomeMaps
  Cycle = 16
  Interval = 3
  Tick = 1
  MaxLate = 2
  HasLdo = TRUE
  MaxSwaps = 5
  MaxFaults = 2
CHECK_DEADLOCK FALSE
SPECIFICATION FairSpec
INVARIANTS
  PowerFollowsMount
PROPERTIES
  ChecksOnTime
  SdFollowsCard
