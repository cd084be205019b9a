CONSTANTS
  Clients = {c1, c2}
  Mortal = {}
  Nobody = nobody
  MAX_SESSION_COUNT = 2
  MaxStarts = 1
SPECIFICATION FairSpec
PROPERTY EveryClientIsServed
CHECK_DEADLOCK FALSE
