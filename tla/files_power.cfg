CONSTANTS
  t1 = t1
  t2 = t2
  a = a
  b = b
  ta = ta
  tb = tb
  NoTask = NoTask
  Missing = Missing
  Task = {t1}
  Target = {a}
  TempPath = {ta}
  Temp <- OneFile
  Data <- MCData
  Calls <- AtomicCalls
  MaxLength = 2
  MaxFaults = 0
  MaxCrashes = 1
SPECIFICATION Spec
PROPERTIES
  PowerSafe
