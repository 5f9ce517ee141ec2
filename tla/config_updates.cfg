SPECIFICATION UpdaterSpec
CONSTANTS
  PodTargets  <- MCPodTargets
  Configs     <- MCConfigs
  SecretSpecs = {}
  Incarnations = {1, 2, 3}
  Nil = Nil
INVARIANTS
  ExactlyReceived
PROPERTIES
  ServedIsInstalled
  ConfigHeals
