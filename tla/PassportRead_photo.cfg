SPECIFICATION Spec
CONSTANTS
  MaxReads = 1
  MaxTags = 1
  MaxCrashes = 0
  FileLens = {3}
  ChipLen = 4
  FirstLe = 2
  Chunk = 2
  PhotoAt = 1
  Gsize = 16
INVARIANTS
  PhotoIsWhole
CHECK_DEADLOCK FALSE
