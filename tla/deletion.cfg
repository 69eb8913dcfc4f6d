SPECIFICATION Spec
CONSTANTS
  v1 = v1
  v2 = v2
  greeter = greeter
  Versions <- TwoVersions
  Services = {greeter}
  Serves <- OneService
  Incarnations <- Twice
  MaxInvocations = 1
  NoId = NoId
  Foreign = Foreign
  NoVersion = NoVersion
  HistoryLimit = 1
  DrainDelay = 1
  DrainTimeout = 0
  PolicyChoices = {"force", "drainHold"}
  AutoscalingChoices = {FALSE}
  ClusterStates = {"ready", "absent"}
  MayDelete = TRUE
  ForeignUsers = FALSE
  FlakyPods = TRUE
  LagBetweenPasses = FALSE
  LoseRegistrations = FALSE
  MaxGenerations = 1
  MaxFaults = 1
INVARIANTS TypeOK NothingOrphaned
PROPERTY KeepsContract
CHECK_DEADLOCK FALSE
