SPECIFICATION MCSpec
CONSTANTS
  Users = {u1, u2}
  Names = {n1, n2}
  Envs = {e1, e2}
  Invitations = {i1}
  MaxFaults = 1
  Requests = {q1, q2, q3}
  MaxTokens = 2
SYMMETRY Symmetry
CHECK_DEADLOCK FALSE
INVARIANTS AccessTypeOK ReferencesFit OwnerSees ResetOnce
PROPERTIES ClearedByItsOwn ChangeKnowsPassword RevivedByItsOwn
