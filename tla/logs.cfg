SPECIFICATION FairSpec
CONSTANTS
  Files <- MCFiles
  Settings <- MCSettings
  MaxFailures = 1
  Nil = Nil
CHECK_DEADLOCK FALSE
INVARIANTS
  FollowedExactly
PROPERTIES
  CatchesUp
  StopReturns
