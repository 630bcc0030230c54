CONSTANTS
  t1 = t1
  t2 = t2
  a = a
  b = b
  ta = ta
  tb = tb
  NoTask = NoTask
  Missing = Missing
  Task = {t1, t2}
  Target = {a, b}
  TempPath = {ta, tb}
  Temp <- MCTemp
  Data <- MCData
  Calls <- AllCalls
  MaxLength = 1
  MaxFaults = 1
  MaxCrashes = 1
SPECIFICATION FairSpec
INVARIANTS
  TypeOK
  WholeFiles
  AtomicOutcome
  MountKnown
PROPERTIES
  ReadsSettled
  CallsReturn
