CONSTANTS
  MaxDuration = 4095
  MaxSeconds = 2000
  Purchases <- TwinsAndUnknown
  MaxAttempts = 2
SPECIFICATION FairSpec
INVARIANTS
  ChargedOnce
  CompletedCharged
  RejectedUncharged
PROPERTY PurchasesEnd
CHECK_DEADLOCK FALSE
