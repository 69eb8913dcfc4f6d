SPECIFICATION FairSpec
CONSTANTS
  v1 = v1
  v2 = v2
  greeter = greeter
  Versions <- TwoVersions
  Services = {greeter}
  Serves <- OneService
  Incarnations <- Twice
  MaxInvocations = 0
  NoId = NoId
  Foreign = Foreign
  NoVersion = NoVersion
  HistoryLimit = 1
  DrainDelay = 1
  DrainTimeout = 0
  PolicyChoices = {"drainHold"}
  AutoscalingChoices = {TRUE, FALSE}
  ClusterStates = {"ready", "unready", "absent"}
  MayDelete = FALSE
  ForeignUsers = FALSE
  FlakyPods = FALSE
  LagBetweenPasses = FALSE
  LoseRegistrations = FALSE
  MaxGenerations = 2
  MaxFaults = 1
PROPERTIES Converges OldVersionsRetire AutoscalersSettle
