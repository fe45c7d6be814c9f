CONSTANTS
  Requested <- MCRequested
  Needs <- MCNeeds
SPECIFICATION FairSpec
INVARIANTS TypeOK EndsAreTried PredictionIsMinimal EachTryNarrows
PROPERTIES PredictionEnds
CHECK_DEADLOCK FALSE
