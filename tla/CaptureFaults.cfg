SPECIFICATION Spec
CONSTANTS
  Captures = {c1}
  UserStops = {s1}
  TimedStops = {t1}
  Deletes = {}
  Faults = {"op", "crash", "slowRow", "slowLoop", "slowReply", "lateAck", "double"}
  Ticking = {}

CHECK_DEADLOCK FALSE
INVARIANTS TypeOK OneFinish
PROPERTY NeverReopened
