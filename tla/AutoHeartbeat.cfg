CONSTANTS
  HeartbeatTimeouts = {0, 14, 15}
  defaultHeartbeatFrequency = 9
  Latency = 2
SPECIFICATION FairSpec
INVARIANTS
  NoSpuriousTimeout
PROPERTIES
  KeepsContract
  GoroutineExits
  CancellationReaches
CHECK_DEADLOCK FALSE
