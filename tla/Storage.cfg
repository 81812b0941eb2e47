SPECIFICATION MCSpec
CONSTANTS
  LastSample = 2
  Readers = {r1, r2}
  Finalisers = {f1, f2}
  Spares = {r2, f2}
  Failing = {r1}
CHECK_DEADLOCK FALSE
INVARIANTS TypeOK OnlyOvertakenLost CacheStandsForDepot LiveReadIsCurrent
PROPERTIES DoneUnchanged FinalFileBuilt
