SPECIFICATION Spec
CONSTANTS
  Aids = {a1}
  None = None
  ModeIds = {1, 2, 3, 4}
  MaxCalls = 3
  MaxCrashes = 1
  Overlap = FALSE
  MayReject = FALSE
  MaxExchanges = 0
  GuintMax = 2
INVARIANTS
  AddMeansRegistered
CHECK_DEADLOCK FALSE
