CONSTANTS
  d = d
  Key = {k1, k2}
  Group <- MCGroup
  NoGroup = NoGroup
  NoReturn = NoReturn
  EmptyReturn = EmptyReturn
  Deployment = {d}
  Sizes = {1, 2}
  Request <- MCRequest
  Half = 4
  MaxScales = 2
  Nil = Nil
SPECIFICATION RequestsSpec
INVARIANTS TypeOK MapMatchesQueue QueuedAsAsked DiesOfGaps
PROPERTY ImplementsJobQueue
CHECK_DEADLOCK FALSE
