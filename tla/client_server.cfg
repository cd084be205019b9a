CONSTANTS
  Clients = {c1, c2}
  Mortal = {c2}
  EventIds = {1}
  Shapes <- ThreeOrFour
  SeatLists <- SecondSeat
  Capacity = 6
  Atomic = 2
  ServerStack = 3
  ClientStack = 3
  MaxCalls = 3
SPECIFICATION Spec
INVARIANTS TypeOK RequestsArriveWhole ServerSurvives
PROPERTIES ClientsSeeTheStore 
CHECK_DEADLOCK FALSE
