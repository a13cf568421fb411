CONSTANTS
  Channels = 2
  Wrap = 2
  MaxTime = 3
SPECIFICATION Spec
INVARIANT HandlerFindsAlarm
CHECK_DEADLOCK FALSE
