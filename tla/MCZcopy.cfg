CONSTANTS
  Reliable = TRUE
  KeepAll = FALSE
  MaxSamples = 2
  Depth = 1
  WriteMayFail = FALSE
  LatencyTest = FALSE
  LatencyCount = 2
  InitBurst = 1
  FinalAttempts = 2
  MaxSeq = 3
  SettleSuffices = TRUE
SPECIFICATION FairSpec
INVARIANTS LossExact
PROPERTIES SessionRefined SubscriberStops
CHECK_DEADLOCK FALSE
