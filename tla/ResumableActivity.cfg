CONSTANTS
  RecordIDs = 3
  MaxAttempts = 3
SPECIFICATION ResumableFairSpec
INVARIANTS
  NothingSkipped
  ReportedNotRepeated
PROPERTY EventuallyCompletes
CHECK_DEADLOCK FALSE
