CONSTANTS
  loop = loop
  web = web
  Task = {loop}
  LoopTask = loop
  RetryMax = 3
  MaxCalls = 2
  MaxChanges = 2
  MaxRefusals = 1
SPECIFICATION FairSpec
INVARIANTS
  TypeOK
  OnlineShown
  RouteFollowsEth
  GivesUp
PROPERTIES
  NoRetryAfterDisconnect
  Retries
  NotStuckConnecting
CHECK_DEADLOCK FALSE
