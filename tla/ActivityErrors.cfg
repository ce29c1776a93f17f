CONSTANTS
  MaxDuration = 4095
  MaxSeconds = 2000
  Errors <- MCErrors
  Chains <- MCChains
  MaxTries = 3
  RetryPolicies <- MCRetryPolicies
  Outages = {90, 3510}
  Hints <- MCHints
  Durations = {0}
SPECIFICATION ErrorsSpec
INVARIANTS
  RightlyRetried
  CancellationSurvives
  HintHonored
  OutageWeathered
  RateLimitBacksOff
  MirrorsServiceWhenCapped
CHECK_DEADLOCK FALSE
