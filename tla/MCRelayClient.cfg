SPECIFICATION Spec
CONSTANTS
  t1 = t1
  Tab = {t1}
  Line = {1, 2, 3}
  NoLine = NoLine
  NoTab = NoTab
  MaxMoves = 1
  MaxClosed = 1
  MaxSwitching = 2
  MaxInbox = 1
INVARIANT TypeOK
INVARIANT OnlyCurrentReconnects
INVARIANT TransportHasRole
PROPERTY KeepsTrying
CHECK_DEADLOCK FALSE
