CONSTANTS
  HeartbeatTimeouts = {0, 10, 14}
  DEFAULT_AUTO_HEARTBEAT_CADENCE = 9
  Latency = 2
SPECIFICATION FairSpec
INVARIANTS
  NoSpuriousTimeout
PROPERTIES
  KeepsContract
  ResultIsReturned
CHECK_DEADLOCK FALSE
