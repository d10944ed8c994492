CONSTANTS
  ann = ann
  bob = bob
  UserId = {ann, bob}
  Conn = {c1, c2}
  Friends <- MCFriends
  ComId = {g1}
  RoomKey = {k1}
  Bannable = {ann}
  Capacity = 1
  None = None
  Gone = Gone
SPECIFICATION FairSpec
INVARIANTS OneSession FriendsTold TrackerExact RoomMembersOnline
PROPERTIES EndingSessionsClose
