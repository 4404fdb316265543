SPECIFICATION Spec
CONSTANTS
  Adapters = {a1, a2}
  Tags = {t1}
  None = None
  MaxEvents = 6
INVARIANTS
  SettledIsAccurate
  StatusIsPushed
  ModeIsHeld
PROPERTIES
  EventuallyAccurate
CHECK_DEADLOCK FALSE
