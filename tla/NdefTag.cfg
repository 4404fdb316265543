SPECIFICATION Spec
CONSTANTS
  NULL = NULL
  Params <- MCParams
  Messages <- MCMessages
INVARIANTS
  ReadsBack
  CutIsMalformed
  RefusesWhatDoesNotFit
CHECK_DEADLOCK FALSE
