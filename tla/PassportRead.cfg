SPECIFICATION Spec
CONSTANTS
  MaxReads = 2
  MaxTags = 2
  MaxCrashes = 1
  FileLens = {1, 3}
  ChipLen = 4
  FirstLe = 2
  Chunk = 2
  PhotoAt = 1
  Gsize = 16
INVARIANTS
  OneReadAtATime
  FilesInBounds
  TagGivenBack
PROPERTIES
  FreshSession
  EveryReadAnswered
CHECK_DEADLOCK FALSE
