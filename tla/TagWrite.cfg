SPECIFICATION Spec
CONSTANTS
  MaxReqs = 2
  MaxTags = 2
  MaxCrashes = 1
INVARIANTS
  SuccessMeansWritten
  NoLockLeft
  ExclusiveAccess
PROPERTIES
  WritesLikeContract
  AnsweredUnlessCrashed
CHECK_DEADLOCK FALSE
