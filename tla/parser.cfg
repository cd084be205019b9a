CONSTANTS
  Files <- TheFiles
  UINT_MAX = 12
  MAX_RESERVATION_SIZE = 3
SPECIFICATION Spec
INVARIANTS ReadsWhatTheLineSays StaysInStep
CHECK_DEADLOCK FALSE
