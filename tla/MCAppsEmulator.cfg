CONSTANTS
  n1 = n1
  n2 = n2
  Node = {n1, n2}
  Slots <- MCSlots
  Mirrored <- MCMirrored
  CreateOutcomes = {TRUE}
  Key = {k1, k2}
  Group <- MCGroups
  NoGroup = NoGroup
  NoKey = NoKey
SPECIFICATION FairSpec
INVARIANTS TypeOK NoPanic OneBaton NoOvercommit StatusIsTrue JobStartsClean StatusIsRight
PROPERTIES ImplementsJobService EveryJobAnswered StatusMovesForward
