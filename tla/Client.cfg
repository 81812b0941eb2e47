SPECIFICATION MCSpec
CONSTANTS
  CaptureNames = {n1}
  ReplayNames = {n1, n2}
  Captures = {x1}
  Databases = {d1, d2}
  Clicks = {c1, c2, c3}
  Replays = {x1, x2}
  CaptureName = n1
  Types = {t1, t2}
  Keys = {k1, k2}
  MaxFailures = 1
  MaxReplays = 2
  MaxPicks = 2
  MaxLoads = 3
  MaxEdits = 1
  MaxOut = 2
  MaxSaved = 1
  Refreshes = {d1, d2}
  Statuses = {"RUNNING", "DONE"}
  MaxChanges = 1
  MaxTurns = 1
  Admins = {d1, d2}
  Channels = {k1, k2}
  MaxRequests = 3
SYMMETRY Symmetry
CHECK_DEADLOCK FALSE
INVARIANTS TypeOK NamesDistinct DistinctDatabases LinesMatch SavedIsValidated 
  NotificationsTell
