CONSTANTS
  Channels = 2
  Wrap = 2
  MaxTime = 4
SPECIFICATION FairSpec
INVARIANT TypeOK
INVARIANT Armed
PROPERTY NeverEarly
PROPERTY Honoured
CHECK_DEADLOCK FALSE
