SPECIFICATION Spec
CONSTANTS
  Aids = {a1}
  None = None
  ModeIds = {1, 2, 3, 4}
  MaxCalls = 3
  MaxCrashes = 0
  Overlap = TRUE
  MayReject = FALSE
  MaxExchanges = 0
  GuintMax = 2
INVARIANTS
  RemoveMeansUnregistered
CHECK_DEADLOCK FALSE
