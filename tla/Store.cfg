SPECIFICATION MCSpec
CONSTANTS
  Configs <- MCConfigs
  Default <- MCDefault
  NoFile = NoFile
  Broken = Broken
  DiskCanFill = TRUE
  MaxEdits = 2
  MaxMenus = 1
  MaxRuns = 2
  Shades = {"black", "red"}
  DefaultShade = "black"
  XamlMenuWorks = FALSE
  IdBits = 5
  MaxBuilt = 3
  MaxChanges = 2
INVARIANTS
  StoreTypeOK
  ChangeIsNoticed
  MenuTypeOK
PROPERTIES
  FileIsFollowed
  FileChangesAtOnce
  ClickChangesOneThing
CHECK_DEADLOCK FALSE
