SPECIFICATION Spec
CONSTANTS
  LinkId = {1, 2}
  NoLink = NoLink
  MaxFaults = 1
  MaxTimers <- MCTimers
  MaxInbox = 1
INVARIANT TypeOK
INVARIANT CandidatesKept
INVARIANT StuckOnlyAfterHangUp
PROPERTY PairsUnaided
PROPERTY FailedRejoins
CHECK_DEADLOCK FALSE
