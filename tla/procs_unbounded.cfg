SPECIFICATION Spec
CONSTANTS
  NumFiles = 3
  MayBreak <- FirstFile
  max_proc = 3
  UINT_MAX = 7
  ProcessLimit = 6
INVARIANTS
  AtMostMaxProc
