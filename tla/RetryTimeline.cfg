CONSTANTS
  Configs <- LongGrid
  RequiredRetries = 3
SPECIFICATION Spec
INVARIANTS
  ClosedFormExact
CHECK_DEADLOCK FALSE
