SPECIFICATION FairSpec
CONSTANTS
  NumFiles = 4
  MayBreak <- FirstFiles
  max_proc = 2
  UINT_MAX = 7
  ProcessLimit = 5
INVARIANTS
  CountsItsChildren
  NobodyIsAbandoned
  EveryFileOnce
  PoolIsBounded
PROPERTIES
  Terminates
