SPECIFICATION Spec
CONSTANTS
  Pages = 3
  PerPage = 2
  OldLen = 3
  NewLen = 4
  Tries = 3
  Conns = 2
  Writable <- MCAll
  MayCut = TRUE
  MayLose = TRUE
INVARIANTS
  TypeOK
  SuccessMeansInstalled
  MetaDataLast
PROPERTIES
  SlotSafe
  UpdateShrinks
  UpdateReturns
  CompleteRuns
