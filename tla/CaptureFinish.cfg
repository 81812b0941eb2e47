SPECIFICATION FairSpec
CONSTANTS
  Captures = {c1, c2}
  UserStops = {s1}
  TimedStops = {t1}
  Deletes = {}
  Faults = {}
  Ticking = {}

CHECK_DEADLOCK FALSE
INVARIANT LogHasOwner
PROPERTY ImplementsStatus
