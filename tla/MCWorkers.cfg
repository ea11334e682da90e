SPECIFICATION Spec
CONSTANTS
  N = 3
  Critical <- MCCritical
  MaxChanges = 4
INVARIANTS
  TypeOK
  WorkersFollowState
PROPERTIES
  ChangeHandled
CHECK_DEADLOCK FALSE
