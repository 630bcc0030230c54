CONSTANTS
  loop = loop
  web = web
  sda = sda
  scl = scl
  tx = tx
  rx = rx
  beyond = beyond
  none = none
  Task = {loop, web}
  Validator = {loop}
  GpioCount = 5
  Caps <- SmallChip
  Function = {sda, scl, tx, rx}
  NoFunction = none
  Needs <- SmallNeeds
  PortPins <- SmallPorts
  MaxBindings = 2
  Instance = {0, 1}
  BootPins <- AllPins
  BootBindings <- AllBindings
  EditPins <- NewPins
  EditBindings <- NewBindings
  MaxEdits = 2
SPECIFICATION Spec
INVARIANTS
  VerdictIsRight
  AnswersAreAccepted
