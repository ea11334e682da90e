SPECIFICATION Spec
CONSTANTS
  Epoch = 2
  DeployDelay = 1
  EdlTimeout = 1
  TxTimeout = 2
  ResetTimeout = 2
  MaxAttempts = 1
  Month = 3
  MaxTime = 6
  LastContact = 4
  SetTimes <- MCSetTimes
  MaxContacts = 1
  MaxCrashes = 0
PROPERTIES
  PredeployEnds
  EdlEnds
  BeaconStops
  DailyReset
