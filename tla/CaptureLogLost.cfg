SPECIFICATION Spec
CONSTANTS
  Captures = {c1, c2}
  UserStops = {s1}
  TimedStops = {}
  Deletes = {}
  Faults = {}
  Ticking = {}

CHECK_DEADLOCK FALSE
PROPERTY TurnOffOnlyWhenUnused
