SPECIFICATION FairSpec
CONSTANTS
  Unread = Unread
  NULL = NULL
  NoOne = NoOne
  MaxThreads = 3
  Programs <- AllPrograms
  Garbage <- AnyGarbage
INVARIANTS
  TypeOK
  LinesAreReadWhole
  EndsAfterTheLastLine
  StoreConsistent
  OutputIsContiguous
  FewLinesPassTheBarrier
PROPERTIES
  Terminates
  SequentialWithOneThread
