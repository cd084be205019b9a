CONSTANTS
  Clients = {c1, c2, c3}
  Mortal = {c3}
  Nobody = nobody
  MAX_SESSION_COUNT = 2
  MaxStarts = 2
SPECIFICATION Spec
SYMMETRY Symmetry
INVARIANTS TypeOK PermitsCountFreeSlots SessionsAreIsolated ServerStaysUp
PROPERTY PathsAreStable
CHECK_DEADLOCK FALSE
