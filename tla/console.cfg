CONSTANTS
  short = short
  long = long
  warning = warning
  Ui = ui
  Writer = {w1, w2}
  Text = {short, long, warning}
  Warning = warning
  Length <- Lengths
  Key = {a, b}
  EnterKeys <- CrLf
  LineMax = 2
  Capacity = 7
  MaxLines = 3
  MaxEnters = 2
  MaxClears = 1
SYMMETRY WriterSymmetry
SPECIFICATION ConsoleSpec
INVARIANTS
  ShellShows
  RingIsScreen
PROPERTIES
  LinesAlone
