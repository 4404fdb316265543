SPECIFICATION Spec
CONSTANTS
  Base = 4
  Q = 7
  Documents <- MCDocuments
  Typings <- MCTypings
  Challenges <- MCChallenges
  FirstLe = 4
  Chunk = 40
INVARIANTS
  InStep
  PasswordProved
  ReportsTheDocument
  ErrorTellsWhy
CHECK_DEADLOCK FALSE
