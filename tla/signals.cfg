CONSTANTS
  Clients = {c1, c2}
  Mortal = {c2}
  Nobody = nobody
  MAX_SESSION_COUNT = 1
  MaxStarts = 1
  MaxSignals = 2
SPECIFICATION FairSignalsSpec
INVARIANTS SignalsTypeOK InterruptsCount SignalsDoNoHarm
PROPERTIES SignalsAreShown WokenWorkersStillServe
CHECK_DEADLOCK FALSE
