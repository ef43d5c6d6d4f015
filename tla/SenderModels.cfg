SPECIFICATION Spec
CONSTANTS
  Intervals = {19, 20, 27, 40, 60}
  HistoryLimit = 4
  MinHistoryLimit = 2
  WarmupIntervals = 2
  HistoryGrowAfter = 1
  Ladder <- MCLadder
  Floor = 2
  JitterQuantile = 60
  JitterMargin = 3
  ChangePointScale = 2
  Step = 2
  MaxWakeScale = 2
  MaxArrivals = 6
  MaxEvents = 2
  Unit = 24
  Fits <- MCFits
  MaxTime = 16
  Seed <- MCSeed
  Block = 2
  History = 3
  MinIntervals = 2
  Window = 5
  Quantile = 60
  Margin = 25
  LongRun = 9
  ShortRun = 5
  MaxFaults = 1
INVARIANTS HistoryReal CadenceSound WindowsExact WatchdogExact
CHECK_DEADLOCK FALSE
