SPECIFICATION FairSpec
CONSTANTS
  Pods <- MCPods
  Addrs = {"a1", "a2", "a3"}
  Layouts <- MCLayouts
  Cumulative = {"heap"}
  MaxWork = 2
  MaxFaults = 1
  Nil = Nil
CHECK_DEADLOCK FALSE
INVARIANTS
  TypeOK
  NeverTwice
  Delivered
  NoOrphans
PROPERTIES
  ReadToTheEnd
