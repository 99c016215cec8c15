SPECIFICATION AppSpec
CONSTANTS
  States = {"a"}
  MaxThreads = 4
  MaxActs = 3
INVARIANT WelcomeAgain
CHECK_DEADLOCK FALSE
