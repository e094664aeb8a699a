SPECIFICATION Spec
CONSTANTS
  t1 = t1
  t2 = t2
  Tab <- MCTab
  Instance = {1, 2, 3}
  MaxMoves = 3
  MaxSwitching = 2
  MaxQueue = 2
INVARIANT TypeOK
INVARIANT SeatsKnown
PROPERTY SettlesApart
PROPERTY GoneIsMissed
CHECK_DEADLOCK FALSE
