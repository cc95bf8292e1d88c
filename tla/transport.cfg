SPECIFICATION FairSpec
CONSTANTS
  Connections = {c1}
  Jitter <- JitterExtremes
  MaxAttempt = 7
INVARIANTS
  TransportInductive
  NoLostWakeup
  ViewIsHonest
PROPERTIES
  WaitsGrow
  ShutdownCompletes
  Reconnects
CHECK_DEADLOCK FALSE
