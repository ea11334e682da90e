SPECIFICATION Spec
CONSTANTS
  RxBufs = 2
  TxBufs = 2
  Last = 0
  Kinds = {"cmd", "beacon"}
  MayFail = TRUE
INVARIANTS
  TypeOK
  BuffersConserved
  HalfDuplex
  AcceptedOnce
  NoOtherDeadlock
PROPERTIES
  EdlReturns
  ReceptionResumes
  BeaconJoined
  CountSaved
