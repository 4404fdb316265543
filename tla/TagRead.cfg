SPECIFICATION Spec
CONSTANTS
  Paths = {p1, p2}
  NoPath = NoPath
  Uids = {"u1"}
  NoUid = "none"
  Cards <- MCCards
  MaxReads = 2
  MIFARE_NUM_SECTORS = 3
  MIFARE_NUM_DEFAULT_KEYS = 2
  SmallSectors = 1
  SmallBlocks = 1
  LargeBlocks = 2
INVARIANTS
  TypeOK
  NoDanglingRead
  InfoIsCurrent
  SubscribersUpToDate
  CompleteRead
  SweepIsSound
  ReadsOwnSector
PROPERTIES
  SweepAdvances
  ReadsEnd
