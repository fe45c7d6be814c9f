CONSTANTS
  n1 = n1
  n2 = n2
  p1 = p1
  p2 = p2
  d1 = d1
  d2 = d2
  Key = {k1, k2}
  Node = {n1, n2}
  Capacity <- MCCapacity
  OldPod = {p1, p2}
  Home <- MCHome
  Priority <- MCPriority
  OldSize = 1
  NewSize = 2
  Owns <- MCOwns
  Requests <- MCRequests
  CreateOutcomes = {TRUE}
  MaxChanges = 0
  None = None
SPECIFICATION Spec
INVARIANT FailedMeansUnplaced
CHECK_DEADLOCK FALSE
