SPECIFICATION Spec
CONSTANTS
  v1 = v1
  v2 = v2
  greeter = greeter
  Versions <- TwoVersions
  Services = {greeter}
  Serves <- OneService
  Incarnations <- Once
  MaxInvocations = 1
  NoId = NoId
  Foreign = Foreign
  NoVersion = NoVersion
  HistoryLimit = 1
  DrainDelay = 1
  DrainTimeout = 0
  PolicyChoices = {"drainHold"}
  AutoscalingChoices = {FALSE}
  ClusterStates = {"ready"}
  MayDelete = TRUE
  ForeignUsers = FALSE
  FlakyPods = FALSE
  LagBetweenPasses = FALSE
  LoseRegistrations = FALSE
  MaxGenerations = 0
  MaxFaults = 0
PROPERTY OnlyForceAbandons
CHECK_DEADLOCK FALSE
