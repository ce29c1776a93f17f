CONSTANTS
  DurationBits = 30
  Second = 1000
  Workflows <- MCWorkflows
  Deployments <- MCDeployments
  MaxRestarts = 1
SPECIFICATION FairSpec
INVARIANTS
  DeploymentsReplay
  ReplayJudges
  WarningsLogged
  FailureExplained
PROPERTY EventuallyCloses
CHECK_DEADLOCK FALSE
