SPECIFICATION HistorySpec
CONSTANTS
  v1 = v1
  v2 = v2
  v3 = v3
  greeter = greeter
  mailer = mailer
  Versions <- ThreeVersions
  Services = {greeter, mailer}
  Serves <- Growing
  Incarnations <- Once
  MaxInvocations = 0
  NoId = NoId
  Foreign = Foreign
  NoVersion = NoVersion
  HistoryLimit = 1
  DrainDelay = 1
  DrainTimeout = 0
  PolicyChoices = {"drainHold"}
  AutoscalingChoices = {TRUE}
  ClusterStates = {"ready"}
  MayDelete = FALSE
  ForeignUsers = FALSE
  FlakyPods = FALSE
  LagBetweenPasses = FALSE
  LoseRegistrations = FALSE
  MaxGenerations = 3
  MaxFaults = 0
INVARIANTS HistoryBounded StoppedHasNoHpa
PROPERTIES RetainsNewest DrainDelayRespected ConflictMeansForeign
