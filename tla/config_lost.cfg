CONSTANTS
  loop = loop
  web = web
  NoOverride = NoOverride
  Junk = Junk
  Task = {loop, web}
  LoopTask = loop
  KeyCount = 2
  Value = {0, 1}
  Default <- MCDefault
  LiveKey = {1}
  Calls <- SetCalls
  MaxCalls = 2
  MaxFaults = 0
  MaxCrashes = 0
SPECIFICATION Spec
INVARIANTS
  SetsAreKept
CHECK_DEADLOCK FALSE
