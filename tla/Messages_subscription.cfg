CONSTANTS
  MaxSignals = 2
  Changes = {1}
  MaxAnswers = 1
SPECIFICATION MessagesSpec
INVARIANT SubscriptionContinues
CHECK_DEADLOCK FALSE
