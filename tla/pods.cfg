SPECIFICATION FairSpec
CONSTANTS
  Pods <- MCPods
  Layouts <- MCLayouts
  Subscribers <- MCSubscribers
  Reused = {"p1"}
  NamedSubs = {"profiles"}
  Nil = Nil
CHECK_DEADLOCK FALSE
INVARIANTS
  TypeOK
  TablesFollow
  RestartHeals
PROPERTIES
  CatchesUp
