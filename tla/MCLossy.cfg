CONSTANTS
  Reliable = FALSE
  KeepAll = TRUE
  MaxSamples = 2
  Depth = 1
  WriteMayFail = TRUE
  LatencyTest = FALSE
  LatencyCount = 2
  InitBurst = 1
  FinalAttempts = 2
  MaxSeq = 3
  SettleSuffices = TRUE
SPECIFICATION FairSpec
INVARIANTS LossExact FinishAgreement ReportsReconcile FinishInv AccountInv
PROPERTIES SessionRefined FinishedIsFinal PublisherStops SubscriberStops
CHECK_DEADLOCK FALSE
