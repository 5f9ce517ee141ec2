SPECIFICATION Spec
CONSTANTS
  PodTargets  <- SharedPodTargets
  Configs     <- SharedConfigs
  SecretSpecs <- MCSecretSpecs
  Incarnations = {1, 2, 3}
  Nil = Nil
INVARIANTS
  CurrentExportWorks
  DarkOnlyBehindStale
