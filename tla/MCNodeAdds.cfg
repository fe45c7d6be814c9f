SPECIFICATION FairSpec
CONSTANTS
  Name = {1, 2, 3, 4, 5, 6}
  Existing = {}
  PodName = {}
  Caller = {a, b}
  Requests <- MCSameAdds
  AccessNum = 2
  Prd = TRUE
INVARIANTS TypeOK NeverShort Settled
PROPERTY AddsEnd
