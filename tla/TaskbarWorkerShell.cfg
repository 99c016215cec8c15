\* A classic taskbar of one monitor or two: the shell, Explorer and the user.
CONSTANTS
  w1 = w1
  w2 = w2
  m1 = m1
  m2 = m2
  b1 = b1
  b2 = b2
  b3 = b3
  Windows = {w1}
  Monitors = {m1, m2}
  Bars = {b1, b2}
  NoWindow = NoWindow
  NoMonitor = NoMonitor
  Flyout = Flyout
  NoBar = NoBar
  NoRule = NoRule
  Primary = m1
  Colours <- MCColours
  PreviewColour = "preview"
  IsWindows11 = FALSE
  TaskbarKind = "Classic"
  Configs <- TwoConfigs
  InitialConfig <- AllModes
  InitialDesks <- MCDesks
  Inputs = {"show", "flyout", "taskView", "saver", "peek", "config", "preview", "repaint", "explorer", "workArea", "manual", "create", "activate"}
  MaxChanges = 2
  MaxQueue = 2
  PickedModes = {"Desktop"}
  MaxDepth = 4
  JustBooted = FALSE
SPECIFICATION Spec
INVARIANTS ShellIsFollowed OneRestartIsTolerated
PROPERTY Settles
CHECK_DEADLOCK FALSE
