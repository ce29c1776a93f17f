CONSTANTS
  None = None
  DurationBits = 30
  Second = 100000
  Microsecond = 10
  Millisecond = 100
  Calls <- MCCalls
  RetryTargets = {0, 1, 2, 3}
  FailureTimes <- MCFailureTimes
  MaxAttempts = 4
  PyCalls <- MCPyCalls
  Severities <- MCSeverities
  Targets = {0, 2, 3}
SPECIFICATION VerdictsSpec
INVARIANTS
  TwinsAgree
  TimelineAgrees
  RetriesPermitted
  NoNeedlessViolation
PROPERTY EndsOnceAccepted
CHECK_DEADLOCK FALSE
