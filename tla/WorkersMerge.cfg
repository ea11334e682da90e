SPECIFICATION Spec
CONSTANTS
  N = 3
  Critical <- MCCritical
  MaxChanges = 3
INVARIANT ManagerUpToDate
CHECK_DEADLOCK FALSE
