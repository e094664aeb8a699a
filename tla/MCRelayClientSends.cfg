SPECIFICATION Spec
CONSTANTS
  t1 = t1
  t2 = t2
  Tab = {t1, t2}
  Line = {1, 2, 3, 4}
  NoLine = NoLine
  NoTab = NoTab
  MaxMoves = 0
  MaxClosed = 1
  MaxSwitching = 2
  MaxInbox = 2
SYMMETRY Symmetry
INVARIANT SendsReachRelay
CHECK_DEADLOCK FALSE
