SPECIFICATION MCSpec
CONSTANTS
  States = {"a"}
  MaxThreads = 4
  MaxActs = 3
  MaxBroadcasts = 2
  IsAlphaEnabled = TRUE
  NoColor = NoColor
  NotAColor = NotAColor
  WorkAreas <- MCWorkAreas
  Sizes <- MCSizes
  Places <- MCPlaces
  IconSize <- MCIcon
  LeftToRight = TRUE
INVARIANTS
  AppTypeOK
  OneWindowPerThread
  OnePickerPerState
  PreviewEnds
  NoChangeIsDropped
  TrayTypeOK
  IconFollowsConfig
  PickerTypeOK
  SettledWindowIsRight
PROPERTIES
  MainThreadReturns
  HsvIsKept
  WhatIsAskedIsApplied
  WindowsAreInReach
CHECK_DEADLOCK FALSE
