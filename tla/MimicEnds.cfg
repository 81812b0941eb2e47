SPECIFICATION FairSpec
CONSTANTS
  N = 2
  MaxCommands = 1
  Overlap = 1
  MaxLoops = 2
  MaxStops = 1
  MaxRejects = 1
CHECK_DEADLOCK FALSE
INVARIANTS TypeOK DoneRanAll
PROPERTIES StatusForward MimicSettles
