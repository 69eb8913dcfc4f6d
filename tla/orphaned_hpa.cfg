SPECIFICATION FairSpec
CONSTANTS
  v1 = v1
  v2 = v2
  greeter = greeter
  Versions <- TwoVersions
  Services = {greeter}
  Serves <- OneService
  Incarnations <- Twice
  MaxInvocations = 0
  NoId = NoId
  Foreign = Foreign
  NoVersion = NoVersion
  HistoryLimit = 0
  DrainDelay = 0
  DrainTimeout = 0
  PolicyChoices = {"drainHold"}
  AutoscalingChoices = {TRUE}
  ClusterStates = {"ready"}
  MayDelete = FALSE
  ForeignUsers = FALSE
  FlakyPods = FALSE
  LagBetweenPasses = FALSE
  LoseRegistrations = FALSE
  MaxGenerations = 2
  MaxFaults = 1
PROPERTY NoOrphanedHpas
