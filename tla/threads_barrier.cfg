SPECIFICATION Spec
CONSTANTS
  Unread = Unread
  NULL = NULL
  NoOne = NoOne
  MaxThreads = 3
  Programs <- BarrierPrograms
  Garbage <- AnyGarbage
INVARIANTS
  BarrierSeparates
