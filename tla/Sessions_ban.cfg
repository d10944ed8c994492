CONSTANTS
  ann = ann
  bob = bob
  UserId = {ann, bob}
  Conn = {c1, c2}
  Friends <- MCFriends
  ComId = {}
  RoomKey = {}
  Bannable = {ann}
  Capacity = 1
  None = None
  Gone = Gone
SPECIFICATION Spec
INVARIANT BannedAreOut
