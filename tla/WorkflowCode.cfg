SPECIFICATION Spec
CONSTANTS
  Padding = 2
  ChildTakes = 3
  Timeouts = {0, 1, 3, 6, 8}
  Horizon = 8
  MaxSignals = 3
  Changes = {0, 1, 2, 3}
  MaxAnswers = 4
  EnvValues = {"", "eu", "us"}
  MaxReads = 3
  MaxCount = 3
  MaxAttempts = 3
  MaxConditions = 2
  MaxUID = 2
INVARIANTS
  SoftCompensated
  Settled
  NewestWins
  SignalsKept
  ReadsHold
  SameIdentity
  ResultIsOfItsJob
PROPERTIES
  ChildrenSurvive
  CancelEnds
CHECK_DEADLOCK FALSE
