CONSTANTS
  n1 = n1
  n2 = n2
  Node = {n1, n2}
  Slots <- MCSlots
  Mirrored <- MCMirrored
  CreateOutcomes = {TRUE, FALSE}
  Key = {k1, k2}
  Group <- MCGroups
  NoGroup = NoGroup
  NoKey = NoKey
  Kinds = {"nodes", "prediction", "apps", "retry", "foreign", "create"}
  MaxStruck = 1
  MaxRuns <- MCMaxRuns
  VisitorApps <- MCVisitorApps
SPECIFICATION InterferenceSpec
INVARIANTS InterferenceTypeOK BatonSurvivesDeletes NeverOverfull StatusSurvives
PROPERTY StillServes
CHECK_DEADLOCK FALSE
