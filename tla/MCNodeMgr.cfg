SPECIFICATION Spec
CONSTANTS
  NodeCount = 2
  Cards = {0}
  Autostart = {0}
  Ground = {"edl"}
  Limit = 1
  Reads = 1
  Lossy = {0}
  Commanded = {0}
  Reports = {"unknown", "alive"}
INVARIANTS
  TypeOK
  BusDiscipline
  DrivenIsControlled
  AssertWindow
  PinFollowsEnable
  CyclesBounded
PROPERTY
  CommandsReturn
