CONSTANTS
  Workers = {w1, w2}
  Printer = printer
  NoOne = noone
  EventIds = {e1}
  Shapes <- SquareShapes
  SeatLists <- SquareSeatLists
  MaxEvents = 2
  MaxCalls = 2
SPECIFICATION FairSpec
PROPERTY EveryCallReturns
