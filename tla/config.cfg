CONSTANTS
  loop = loop
  web = web
  NoOverride = NoOverride
  Junk = Junk
  Task = {loop, web}
  LoopTask = loop
  KeyCount = 2
  Value = {0, 1, 2}
  Default <- MCDefault
  LiveKey = {1}
  Calls <- SingleWriterCalls
  MaxCalls = 3
  MaxFaults = 1
  MaxCrashes = 1
SPECIFICATION Spec
INVARIANTS
  RebootFindsSaved
  AppliedIsConfigured
CHECK_DEADLOCK FALSE
