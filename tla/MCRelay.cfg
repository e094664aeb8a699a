SPECIFICATION ThreeSpec
CONSTANTS
  c1 = c1
  c2 = c2
  c3 = c3
  r1 = r1
  r2 = r2
  r3 = r3
  Conn = {c1, c2, c3}
  RoomId = {r1, r2, r3}
  NoConn = NoConn
  MaxRooms = 2
  MaxFrames = 1
  MaxTexts = 2
SYMMETRY Symmetry
INVARIANT TypeOK
INVARIANT SlotsAreHeld
INVARIANT RoomsAreInUse
INVARIANT GaugeCounts
INVARIANT PresenceKnown
INVARIANT TextsToldApart
CHECK_DEADLOCK FALSE
