SPECIFICATION Spec
CONSTANTS
  Aids = {a1, a2}
  None = None
  ModeIds = {1, 2, 3, 4, 5}
  MaxCalls = 4
  MaxCrashes = 0
  Overlap = FALSE
  MayReject = FALSE
  MaxExchanges = 3
  GuintMax = 2
INVARIANTS
  AddMeansRegistered
  RemoveMeansUnregistered
  FlagIsCurrent
PROPERTIES
  ResponseIdsUsable
SYMMETRY AidSymmetry
CHECK_DEADLOCK FALSE
