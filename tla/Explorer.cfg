SPECIFICATION MCSpec
CONSTANTS
  p1 = p1
  p2 = p2
  Instances = {p1, p2}
  Version <- MCVersion
  Frames = {"frame"}
  MaxAttempts = 2
  ReadyTimeout = 3
  NoInstance = NoInstance
  MaxExplorers = 2
  LoadAttempts = 3
  MaxLoads = 2
  MaxChanges = 3
  Bars = {"b1", "b2"}
  MaxDepth = 3
  MaxRequests = 1
  MaxOutside = 3
INVARIANTS
  TapTypeOK
  BrushesCanBeTakenBack
  WatchIsArmed
  WaitOutlastsTries
  QuitThreadIsCleanWhenTerminated
  WorkerFollowsTaskView
  AccentSettles
  StockAfterExit
PROPERTIES
  WatchedDeathIsUndone
  InjectionEnds
  UninstallReturns
  SwallowedMeansPainted
CHECK_DEADLOCK FALSE
