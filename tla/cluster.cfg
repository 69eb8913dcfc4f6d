SPECIFICATION FairSpec
CONSTANTS
  Scenarios <- MCScenarios
  MaxSuspensions = 1
INVARIANTS ClusterTypeOK PoliciesFit NoStrangers ReadyMeansFit
PROPERTIES CanaryProves RollsAsAsked ClusterSettles SuspensionTold
