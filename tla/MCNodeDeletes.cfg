SPECIFICATION Spec
CONSTANTS
  Name = {1, 2, 3, 4, 5}
  Existing = {1, 3}
  PodName = {1, 2, 3}
  Caller = {a, b, c}
  Requests <- MCMixed
  AccessNum = 1
  Prd = TRUE
INVARIANT PodsInHand
CHECK_DEADLOCK FALSE
