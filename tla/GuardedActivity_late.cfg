CONSTANTS
  DurationBits = 30
  Second = 1000
  Calls <- MCCalls
  RetryTargets = {1, 2}
  FailureTimes = {0, 2500}
  MaxAttempts = 4
SPECIFICATION CrashSpec
INVARIANT RetriesPermittedWheneverCrashing
CHECK_DEADLOCK FALSE
