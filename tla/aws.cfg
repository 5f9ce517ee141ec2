SPECIFICATION FairSpec
CONSTANTS
  Instances <- MCInstances
  RegionOf <- MCRegionOf
  KindOf <- MCKindOf
  Cfgs <- MCCfgs
  Ungrouped = {"cache"}
  MaxUpdates = 3
  MaxFaults = 1
  Nil = Nil
CHECK_DEADLOCK FALSE
INVARIANTS
  RegistryMatches
  CleanPassExact
PROPERTIES
  Converges
  StopReturns
