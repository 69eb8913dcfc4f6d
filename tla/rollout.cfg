SPECIFICATION Spec
CONSTANTS
  v1 = v1
  v2 = v2
  greeter = greeter
  Versions <- TwoVersions
  Services = {greeter}
  Serves <- OneService
  Incarnations <- Twice
  MaxInvocations = 1
  NoId = NoId
  Foreign = Foreign
  NoVersion = NoVersion
  HistoryLimit = 0
  DrainDelay = 0
  DrainTimeout = 0
  PolicyChoices = {"drainHold"}
  AutoscalingChoices = {FALSE}
  ClusterStates = {"ready"}
  MayDelete = FALSE
  ForeignUsers = TRUE
  FlakyPods = FALSE
  LagBetweenPasses = FALSE
  LoseRegistrations = TRUE
  MaxGenerations = 2
  MaxFaults = 1
INVARIANTS RecordedServingUp ReadyMeansRouted RolloutSafe
PROPERTY YieldsToForeign
SYMMETRY VersionSymmetry
