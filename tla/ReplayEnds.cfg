SPECIFICATION FairSpec
CONSTANTS
  Length = 3
  MaxCommands = 2
  Interval = 2
  IntervalOverlap = 1
  MetricsDelay = 2
  FilePrepDelay = 2
  MaxLate = 1
  MaxSlow = 1
  MaxRejects = 1
  Horizon = 12
  MaxLoops = 8
CHECK_DEADLOCK FALSE
INVARIANTS TypeOK DoneRanAll OverdueInGap MetricsCover
PROPERTY ReplaySettles
