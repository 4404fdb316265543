SPECIFICATION Spec
CONSTANTS
  Messages = {m1}
  Subscribers = {c1}
  None = None
  MaxEvents = 3
  MaxChanges = 1
INVARIANTS
  SubscribersUpToDate
  EnabledIsCurrent
  MessagesHeld
PROPERTIES
  EveryMessageAnswered
CHECK_DEADLOCK FALSE
