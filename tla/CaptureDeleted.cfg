SPECIFICATION FairSpec
CONSTANTS
  Captures = {c1}
  UserStops = {}
  TimedStops = {}
  Deletes = {d1}
  Faults = {"lateAck"}
  Ticking = {}

CHECK_DEADLOCK FALSE
PROPERTY DeletedIsStopped
