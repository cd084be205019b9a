SPECIFICATION Spec
CONSTANTS
  Unread = Unread
  NULL = NULL
  Inputs <- AllFiles
INVARIANTS
  ListConsistent
  ReserveIsAllOrNothing
