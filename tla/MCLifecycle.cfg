CONSTANTS
  Pool = 2
  QuietSetup = TRUE
SPECIFICATION FairSpec
INVARIANTS TypeOK LifecycleInv CallbackSafe ReturnReleases LoansAccounted
PROPERTIES AwaitEnds
CHECK_DEADLOCK FALSE
