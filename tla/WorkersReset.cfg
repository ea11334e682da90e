SPECIFICATION Spec
CONSTANTS
  N = 3
  Critical <- MCCritical
  MaxChanges = 1
PROPERTY ManagerStops
CHECK_DEADLOCK FALSE
