SPECIFICATION Spec
CONSTANTS
  Pages = 3
  PerPage = 2
  OldLen = 3
  NewLen = 4
  Tries = 3
  Conns = 2
  Writable <- MCLinked
  MayCut = FALSE
  MayLose = FALSE
PROPERTY
  Succeeds
