CONSTANTS
  Workers = {w1, w2}
  Printer = printer
  NoOne = noone
  EventIds = {e1, e2}
  Shapes <- PairShapes
  SeatLists <- PairSeatLists
  MaxEvents = 2
  MaxCalls = 2
SPECIFICATION Spec
SYMMETRY Symmetry
INVARIANTS TypeOK NumbersMatchSeats ReservationsAreWhole ListConsistent
  PrintedSeatsAreTaken
PROPERTIES SeatsAreFinal AtomicOperations
