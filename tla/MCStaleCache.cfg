CONSTANTS
  n1 = n1
  n2 = n2
  Node = {n1, n2}
  Slots <- MCSlots
  Mirrored <- MCMirrored
  CreateOutcomes = {TRUE}
  Key = {k1, k2}
  Group <- MCEqualGroups
  NoGroup = NoGroup
  NoKey = NoKey
SPECIFICATION Spec
INVARIANTS CountCouldSchedule
