CONSTANTS
  loop = loop
  web = web
  Task = {loop}
  LoopTask = loop
  RetryMax = 2
  MaxCalls = 2
  MaxChanges = 1
  MaxRefusals = 0
SPECIFICATION Spec
INVARIANTS
  OnlineMeansIp
CHECK_DEADLOCK FALSE
