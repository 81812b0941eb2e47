SPECIFICATION Spec
CONSTANTS
  Captures = {c1, c2}
  UserStops = {}
  TimedStops = {t1}
  Deletes = {d1}
  Faults = {"slowRow", "lateAck"}
  Ticking = {c1}
CHECK_DEADLOCK FALSE
INVARIANTS LogLostOnlyInWindow DoneIsComplete
