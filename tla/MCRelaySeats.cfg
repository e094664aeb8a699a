SPECIFICATION Spec
CONSTANTS
  c1 = c1
  c2 = c2
  r1 = r1
  r2 = r2
  r3 = r3
  Conn = {c1, c2}
  RoomId = {r1, r2}
  NoConn = NoConn
  MaxRooms = 1
  MaxFrames = 1
  MaxTexts = 4
PROPERTY TableSpec
PROPERTY SlotsAreFreed
CHECK_DEADLOCK FALSE
