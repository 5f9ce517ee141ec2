SPECIFICATION FairSpec
CONSTANTS
  Rows = {"r1"}
  Width = 2
  MaxWork = 2
  MaxFaults = 1
  Nil = Nil
CHECK_DEADLOCK FALSE
INVARIANTS
  IncreasesAreReal
  FreshOrFlagged
  ReplicationSeen
PROPERTIES
  Recovers
