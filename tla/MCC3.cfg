SPECIFICATION Spec
CONSTANTS
  Epoch = 2
  DeployDelay = 1
  EdlTimeout = 1
  TxTimeout = 2
  ResetTimeout = 2
  MaxAttempts = 1
  Month = 3
  MaxTime = 6
  LastContact = 3
  SetTimes <- MCSetTimes
  MaxContacts = 2
  MaxCrashes = 1
INVARIANTS
  TypeOK
  BeaconOff
  DurableWhenAsleep
  WakeSource
PROPERTY
  NoRedeploy
