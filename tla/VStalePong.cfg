CONSTANTS
  Reliable = FALSE
  KeepAll = TRUE
  MaxSamples = 2
  Depth = 1
  WriteMayFail = FALSE
  LatencyTest = TRUE
  LatencyCount = 2
  InitBurst = 1
  FinalAttempts = 2
  MaxSeq = 3
  SettleSuffices = TRUE
SPECIFICATION FairSpec
PROPERTY TakeAnswersPing
CHECK_DEADLOCK FALSE
