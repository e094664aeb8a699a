SPECIFICATION Spec
CONSTANTS
  LinkId = {1, 2}
  NoLink = NoLink
  MaxFaults = 1
  MaxTimers <- MCTimers
  MaxInbox = 1
CHECK_DEADLOCK FALSE
INVARIANT NeverStuck
