CONSTANTS
  Net = net
  Logger = {loop, main}
  MaxClients = 2
  QueueMax = 3
  MaxLines = 2
CHECK_DEADLOCK FALSE
SPECIFICATION Spec
INVARIANTS
  NeverOverflows
SYMMETRY Loggers
