SPECIFICATION FairSpec
CONSTANTS
  r1 = r1
  r2 = r2
  d1 = d1
  d2 = d2
  Requests = {r1, r2}
  Loads <- MCLoads
  Databases = {d1, d2}
  Users = {1, 2}
  MaxMimic = 2
  MaxFaults = 1
CHECK_DEADLOCK FALSE
INVARIANTS TypeOK TwoOnOneDatabase RestartSettles
PROPERTIES CreatedRuns
