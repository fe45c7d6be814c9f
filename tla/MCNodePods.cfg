SPECIFICATION Spec
CONSTANTS
  Name = {1, 2}
  Existing = {1, 2}
  PodName = {1, 2}
  Caller = {a, b}
  Requests <- MCDeletes
  AccessNum = 1
  Prd = TRUE
PROPERTY PodsBeforeNodes
