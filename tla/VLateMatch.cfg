CONSTANTS
  Reliable = FALSE
  KeepAll = TRUE
  MaxSamples = 2
  Depth = 1
  WriteMayFail = FALSE
  LatencyTest = FALSE
  LatencyCount = 2
  InitBurst = 1
  FinalAttempts = 2
  MaxSeq = 1
  SettleSuffices = FALSE
SPECIFICATION FairSpec
PROPERTY SubscriberStops
CHECK_DEADLOCK FALSE
