SPECIFICATION FairSpec
CONSTANTS
  v1 = v1
  v2 = v2
  greeter = greeter
  Versions <- TwoVersions
  Services = {greeter}
  Serves <- OneService
  Incarnations <- Once
  MaxInvocations = 1
  NoId = NoId
  Foreign = Foreign
  NoVersion = NoVersion
  HistoryLimit = 0
  DrainDelay = 0
  DrainTimeout = 1
  PolicyChoices = {"force", "drainForce", "drainHold"}
  AutoscalingChoices = {FALSE}
  ClusterStates = {"ready", "absent"}
  MayDelete = TRUE
  ForeignUsers = FALSE
  FlakyPods = FALSE
  LagBetweenPasses = TRUE
  LoseRegistrations = FALSE
  MaxGenerations = 1
  MaxFaults = 0
PROPERTIES DrainFinishesOldWork DeletionEnds
CHECK_DEADLOCK FALSE
