CONSTANTS
  Requested <- MCGap
  Needs <- MCNeeds
SPECIFICATION FairSpec
PROPERTIES PredictionEnds
CHECK_DEADLOCK FALSE
