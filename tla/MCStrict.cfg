CONSTANTS
  Reliable = TRUE
  KeepAll = TRUE
  MaxSamples = 2
  Depth = 2
  WriteMayFail = FALSE
  LatencyTest = TRUE
  LatencyCount = 2
  InitBurst = 3
  FinalAttempts = 2
  MaxSeq = 3
  SettleSuffices = TRUE
SPECIFICATION FairSpec
INVARIANTS LatencyComplete ReportsReconcile StrictInv
PROPERTIES TakeAnswersPing PublisherStops
CHECK_DEADLOCK FALSE
