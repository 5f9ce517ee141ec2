SPECIFICATION FairSpec
CONSTANTS
  PodTargets  <- OwnPodTargets
  Configs     <- OwnConfigs
  SecretSpecs <- MCSecretSpecs
  Incarnations = {1, 2}
  Nil = Nil
PROPERTIES
  RemovalUnregisters
  TableRefined
  PlainTargetsAreTried
