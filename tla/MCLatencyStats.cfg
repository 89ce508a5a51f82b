CONSTANTS
  HistorySize = 3
  Latencies = {1, 2, 5}
  MaxPongs = 4
  CountFirst = TRUE
  UIntMod = 1024
SPECIFICATION Spec
INVARIANTS TypeOK StatsInv PercentilesInRange SummaryOrdered PercentilesCorrect
CHECK_DEADLOCK FALSE
