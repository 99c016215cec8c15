\* The display changes while a reset applies its effects.
CONSTANTS
  w1 = w1
  w2 = w2
  m1 = m1
  m2 = m2
  b1 = b1
  b2 = b2
  b3 = b3
  Windows = {w1, w2}
  Monitors = {m1, m2}
  Bars = {b1, b2}
  NoWindow = NoWindow
  NoMonitor = NoMonitor
  Flyout = Flyout
  NoBar = NoBar
  NoRule = NoRule
  Primary = m1
  Colours <- MCColours
  PreviewColour = "preview"
  IsWindows11 = TRUE
  TaskbarKind = "XAML"
  Configs <- OneConfig
  InitialConfig <- WindowRules
  InitialDesks <- MCDesks
  Inputs = {"display"}
  MaxChanges = 2
  MaxQueue = 2
  PickedModes = {"Desktop"}
  MaxDepth = 4
  JustBooted = FALSE
SYMMETRY BarSymmetry
SPECIFICATION Spec
INVARIANT ResetsAreServed
CHECK_DEADLOCK FALSE
