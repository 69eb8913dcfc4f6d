SPECIFICATION FairSpec
CONSTANTS
  s1 = s1
  t1 = t1
  t2 = t2
  n1 = n1
  n2 = n2
  tag = tag
  NoId = NoId
  Foreign = Foreign
  NoVersion = NoVersion
  Versions <- MCVersions
  Services <- MCServices
  Serves <- MCServes
  Incarnations <- MCIncarnations
  MaxInvocations = 1
  Templates <- MCTemplates
  UserTags <- MCUserTags
  Hash <- MCHash
  MaxCollisions = 1
  Choices <- MCChoices
  DrainDelay = 1
  Policy = "drainHold"
  SlowCollection = TRUE
  LagBetweenPasses = FALSE
  MaxGenerations = 1
  FailingSteps = {"confirm", "delete"}
  WantsPodIdentity = TRUE
  Followed = {"RestateCluster", "RestateDeployment"}
INVARIANTS OperatorTypeOK ReadyMeansRouted ReadyTagUnscheduled SignalStopsWait
PROPERTIES AllClearIsTrue EventuallyRuns KnativeConverges KnativeDeletionEnds OneTemplatePerHash RoutesToServing RolloutSparesWork ReleaseLeavesNothing
CHECK_DEADLOCK FALSE
