CONSTANTS
  HistorySize = 3
  Latencies = {1, 2, 5}
  MaxPongs = 4
  CountFirst = FALSE
  UIntMod = 1024
SPECIFICATION Spec
INVARIANT PercentilesSorted
CHECK_DEADLOCK FALSE
