CONSTANTS
  u1 = u1
  u2 = u2
  u3 = u3
  label1 = label1
  label2 = label2
  pass1 = pass1
  pass2 = pass2
  world1 = world1
  lobby1 = lobby1
  game1 = game1
  None = None
  UserId = {u1, u2, u3}
  Label = {label1, label2}
  Password = {pass1, pass2}
  World = {world1}
  Lobby = {lobby1}
  Team = {0, 1}
  MemberIdMod = 2
  GroupIdMod = 3
  ComId = {game1}
  CreateReq <- AnyCreateReq
  JoinReq <- AnyJoinReq
  SetReq <- AnySetReq
  MaxRooms = 2
  Explored <- OneOrPlain
  MaxCounted = 4
SPECIFICATION Spec
SYMMETRY Symmetry
INVARIANTS OneOwner MembersHoldSlots FullFlagExact GroupCountsMembers GroupCountsSlots UserRoomsExact IndexesExact
PROPERTIES SuccessionRespected RefinesRoomService
CHECK_DEADLOCK FALSE
