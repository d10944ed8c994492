------------------------ MODULE GuiRoomManagerProofs ------------------------
(***************************************************************************)
(* IInv of GuiRoomManager is inductive, for any users, games and requests. *)
(* Every action either replaces one room by a good one (UpdateKeepsIInv),  *)
(* adds a good one (InsertKeepsIInv) or removes one (RemoveKeepsIInv).     *)
(***************************************************************************)
EXTENDS GuiRoomManager, TLAPS, FiniteSetTheorems

(* What IInv says of one room.                                             *)
Good(r, room, n) ==
    /\ room \in GuiRoom
    /\ room.communication_id = r[1]
    /\ r[2] < n
    /\ room.members # {}
    /\ IsFiniteSet(room.members)
    /\ room.owners \subseteq room.members
    /\ \A u, v \in room.owners : u = v
    /\ ~room.quickmatch_room /\ room.total_slots > 0
         => Cardinality(room.members) <= room.total_slots

(* Only users are cleaned up after, and only such a cleanup waits.         *)
CleaningOK == waiting \subseteq closing /\ closing \subseteq UserId

(* A step that does not concern the cleanup.                               *)
LEMMA CleaningKept == CleaningOK /\ UNCHANGED cleaning => CleaningOK'
  BY DEF CleaningOK, cleaning

(* The end of a user's connection.                                         *)
LEMMA DropCleaning == ASSUME CleaningOK, NEW u \in UserId, Drop(u) PROVE CleaningOK'
  BY DEF CleaningOK, Drop

(* IInv, room by room.                                                     *)
ByRoom ==
    /\ cur_room_id \in Nat \ {0}
    /\ DOMAIN rooms \subseteq RoomId
    /\ \A r \in DOMAIN rooms : Good(r, rooms[r], cur_room_id)
    /\ comid_rooms \in [ComId -> SUBSET RoomId]
    /\ user_rooms \in [UserId -> SUBSET RoomId]
    /\ CleaningOK
    /\ UserRoomsExact
    /\ \A c \in ComId : comid_rooms[c] = {r \in DOMAIN rooms : rooms[r].communication_id = c}

(* The two forms of the invariant are the same, before and after a step.   *)
LEMMA IInvByRoom == (IInv <=> ByRoom) /\ (IInv' <=> ByRoom')
  BY DEF IInv, TypeOK, UserRoomsExact, ComidRoomsExact, AtMostOneOwner, CapacityKept, Good, ByRoom, CleaningOK

(* A room replaced by a good one, with user_rooms following its members.   *)
LEMMA UpdateKeepsIInv ==
    ASSUME IInv, NEW r \in DOMAIN rooms, NEW room, Good(r, room, cur_room_id),
           rooms' = [rooms EXCEPT ![r] = room],
           user_rooms' \in [UserId -> SUBSET RoomId],
           \A u \in UserId : user_rooms'[u] =
              IF u \in room.members THEN user_rooms[u] \cup {r} ELSE user_rooms[u] \ {r},
           UNCHANGED <<cur_room_id, comid_rooms>>, CleaningOK'
    PROVE  IInv'
  <1>1. DOMAIN rooms' = DOMAIN rooms
    OBVIOUS
  <1>2. \A q \in DOMAIN rooms : rooms'[q] = IF q = r THEN room ELSE rooms[q]
    OBVIOUS
  <1>3. r \in RoomId /\ Good(r, rooms[r], cur_room_id)
    BY IInvByRoom DEF ByRoom
  <1>4. \A q \in DOMAIN rooms' : Good(q, rooms'[q], cur_room_id')
    BY <1>1, <1>2, IInvByRoom DEF ByRoom
  <1>5. UserRoomsExact'
    BY <1>1, <1>2, IInvByRoom DEF UserRoomsExact, ByRoom
  <1>6. \A c \in ComId : comid_rooms'[c] = {q \in DOMAIN rooms' : rooms'[q].communication_id = c}
    <2>1. room.communication_id = rooms[r].communication_id
      BY <1>3 DEF Good
    <2>2. \A q \in DOMAIN rooms : rooms'[q].communication_id = rooms[q].communication_id
      BY <1>2, <2>1
    <2> QED
      BY <1>1, <2>2, IInvByRoom DEF ByRoom
  <1> QED
    BY <1>1, <1>4, <1>5, <1>6, IInvByRoom DEF ByRoom

(* A new room with a fresh id and one member.                              *)
LEMMA InsertKeepsIInv ==
    ASSUME IInv, NEW c \in ComId, NEW u \in UserId, NEW room, insert_room(c, u, room),
           Good(<<c, cur_room_id>>, room, cur_room_id + 1), room.members = {u}
    PROVE  IInv'
  <1> DEFINE r == <<c, cur_room_id>>
  <1>0. /\ cur_room_id \in Nat \ {0}
        /\ DOMAIN rooms \subseteq RoomId
        /\ \A q \in DOMAIN rooms : Good(q, rooms[q], cur_room_id)
        /\ comid_rooms \in [ComId -> SUBSET RoomId]
        /\ user_rooms \in [UserId -> SUBSET RoomId]
        /\ CleaningOK
    BY IInvByRoom DEF ByRoom
  <1>1. r \in RoomId /\ r[1] = c /\ r[2] = cur_room_id
    BY <1>0 DEF RoomId
  <1>2. r \notin DOMAIN rooms
    <2>1. \A q \in DOMAIN rooms : q[2] < cur_room_id /\ q[2] \in Nat
      BY <1>0 DEF Good, RoomId
    <2> QED
      BY <1>0, <1>1, <2>1
  <1>3. /\ DOMAIN rooms' = DOMAIN rooms \cup {r}
        /\ rooms'[r] = room
        /\ \A q \in DOMAIN rooms : rooms'[q] = rooms[q]
        /\ cur_room_id' = cur_room_id + 1
    BY <1>2 DEF insert_room, generate_room_id
  <1>4. /\ comid_rooms' = [comid_rooms EXCEPT ![c] = @ \cup {r}]
        /\ user_rooms' = [user_rooms EXCEPT ![u] = @ \cup {r}]
        /\ CleaningOK'
    BY <1>0, CleaningKept, Zenon DEF insert_room, generate_room_id
  <1>5. \A q \in DOMAIN rooms' : Good(q, rooms'[q], cur_room_id')
    <2>1. \A q \in DOMAIN rooms : Good(q, rooms[q], cur_room_id + 1)
      BY <1>0 DEF Good, RoomId
    <2> QED
      BY <1>3, <2>1
  <1>6. /\ comid_rooms' \in [ComId -> SUBSET RoomId]
        /\ user_rooms' \in [UserId -> SUBSET RoomId]
    BY <1>0, <1>1, <1>4
  <1>7. UserRoomsExact'
    BY <1>0, <1>2, <1>3, <1>4, IInvByRoom DEF UserRoomsExact, ByRoom
  <1>8. \A d \in ComId : comid_rooms'[d] = {q \in DOMAIN rooms' : rooms'[q].communication_id = d}
    <2>1. room.communication_id = c
      BY <1>1 DEF Good
    <2>2. \A d \in ComId : comid_rooms[d] = {q \in DOMAIN rooms : rooms[q].communication_id = d}
      BY IInvByRoom DEF ByRoom
    <2> QED
      BY <1>0, <1>2, <1>3, <1>4, <2>1, <2>2
  <1>9. cur_room_id' \in Nat \ {0} /\ DOMAIN rooms' \subseteq RoomId
    BY <1>0, <1>1, <1>3
  <1> QED
    BY <1>0, <1>4, <1>5, <1>6, <1>7, <1>8, <1>9, IInvByRoom DEF ByRoom

(* A room removed, and forgotten by all its members.                       *)
LEMMA RemoveKeepsIInv ==
    ASSUME IInv, NEW r \in DOMAIN rooms, RemoveRoom(r), ForgetRoom(r, rooms[r].members),
           UNCHANGED cur_room_id, CleaningOK'
    PROVE  IInv'
  <1>0. /\ DOMAIN rooms \subseteq RoomId
        /\ \A q \in DOMAIN rooms : Good(q, rooms[q], cur_room_id)
        /\ comid_rooms \in [ComId -> SUBSET RoomId]
        /\ user_rooms \in [UserId -> SUBSET RoomId]
    BY IInvByRoom DEF ByRoom
  <1>1. /\ DOMAIN rooms' = DOMAIN rooms \ {r}
        /\ \A q \in DOMAIN rooms' : rooms'[q] = rooms[q]
    BY DEF RemoveRoom
  <1>2. \A q \in DOMAIN rooms' : Good(q, rooms'[q], cur_room_id')
    BY <1>0, <1>1
  <1>3. \A u \in UserId : user_rooms'[u] = user_rooms[u] \ {r}
    BY DEF ForgetRoom, IInv, UserRoomsExact
  <1>4. user_rooms' \in [UserId -> SUBSET RoomId]
    BY <1>0 DEF ForgetRoom
  <1>5. UserRoomsExact'
    BY <1>1, <1>3 DEF UserRoomsExact, IInv
  <1>6. rooms[r].communication_id \in ComId
    BY <1>0 DEF Good, GuiRoom
  <1>7. comid_rooms' \in [ComId -> SUBSET RoomId]
    BY <1>0, <1>6 DEF RemoveRoom
  <1>8. \A d \in ComId : comid_rooms'[d] = {q \in DOMAIN rooms' : rooms'[q].communication_id = d}
    <2>1. \A d \in ComId : comid_rooms[d] = {q \in DOMAIN rooms : rooms[q].communication_id = d}
      BY IInvByRoom DEF ByRoom
    <2>2. \A d \in ComId : comid_rooms'[d] =
             IF d = rooms[r].communication_id THEN comid_rooms[d] \ {r} ELSE comid_rooms[d]
      BY <1>0, <1>6 DEF RemoveRoom
    <2>3. \A q \in DOMAIN rooms' : rooms'[q].communication_id = rooms[q].communication_id
      BY <1>1
    <2> TAKE d \in ComId
    <2>4. comid_rooms[d] = {q \in DOMAIN rooms : rooms[q].communication_id = d}
      BY <2>1
    <2>5. comid_rooms'[d] = comid_rooms[d] \ {r}
      <3>1. CASE d = rooms[r].communication_id BY <2>2, <3>1, Zenon
      <3>2. CASE d # rooms[r].communication_id
        <4>1. r \notin comid_rooms[d] BY <2>4, <3>2
        <4>2. comid_rooms'[d] = comid_rooms[d] BY <2>2, <3>2, Zenon
        <4> QED BY <4>1, <4>2
      <3> QED BY <3>1, <3>2
    <2> QED
      BY <1>1, <2>3, <2>4, <2>5, SMTT(30)
  <1> QED
    BY <1>0, <1>1, <1>2, <1>4, <1>5, <1>7, <1>8, IInvByRoom DEF ByRoom

-----------------------------------------------------------------------------
(* The new rooms are good.                                                 *)

(* A room has at most 64 slots.                                            *)
LEMMA ClampSlotsType == ASSUME NEW n \in Nat PROVE ClampSlots(n) \in 0..64
  BY DEF ClampSlots

(* The first member of a room.                                             *)
LEMMA FirstMember ==
    ASSUME NEW c \in ComId, NEW u \in UserId, NEW room \in GuiRoom, cur_room_id \in Nat \ {0},
           room.communication_id = c, room.members = {}, room.owners = {}
    PROVE  /\ Good(<<c, cur_room_id>>, add_member(room, u, TRUE), cur_room_id + 1)
           /\ add_member(room, u, TRUE).members = {u}
  <1> DEFINE new == add_member(room, u, TRUE)
  <1>1. /\ new \in GuiRoom
        /\ new.members = {u} /\ new.owners = {u}
        /\ new.communication_id = c
    BY Zenon DEF add_member, GuiRoom
  <1>2. IsFiniteSet({u}) /\ Cardinality({u}) = 1
    BY FS_Singleton, Zenon
  <1>3. new.total_slots \in 0..64
    BY <1>1, Zenon DEF GuiRoom
  <1> HIDE DEF new
  <1> QED
    <2>1. <<c, cur_room_id>>[1] = c /\ <<c, cur_room_id>>[2] < cur_room_id + 1
      OBVIOUS
    <2>2. /\ IsFiniteSet(new.members)
          /\ new.total_slots > 0 => Cardinality(new.members) <= new.total_slots
          /\ new.members # {} /\ new.owners \subseteq new.members
          /\ \A v, w \in new.owners : v = w
      BY <1>1, <1>2, <1>3
    <2>3. Good(<<c, cur_room_id>>, new, cur_room_id + 1)
      BY <1>1, <2>1, <2>2 DEF Good
    <2> QED
      BY <1>1, <2>3, Zenon DEF new

(* Hiding a complete room changes nothing that Good speaks of.             *)
LEMMA CompleteGood ==
    ASSUME NEW r, NEW room, NEW n, Good(r, room, n)
    PROVE  Good(r, Complete(room), n) /\ Complete(room).members = room.members
  <1>1. /\ Complete(room) \in GuiRoom
        /\ Complete(room).members = room.members
        /\ Complete(room).owners = room.owners
        /\ Complete(room).total_slots = room.total_slots
        /\ Complete(room).communication_id = room.communication_id
        /\ Complete(room).quickmatch_room = room.quickmatch_room
    BY Zenon DEF Complete, Good, GuiRoom
  <1> QED
    BY <1>1 DEF Good

(* CreateRoomGUI, and QuickMatchGUI when no room matches.                  *)
LEMMA CreateKeepsIInv ==
    ASSUME IInv, NEW u \in UserId, NEW c \in ComId, NEW req \in CreateReq, create_room_gui(u, c, req)
    PROVE  IInv'
  <1>1. from_protobuf(c, req) \in GuiRoom
    BY GuiAssumption, ClampSlotsType DEF from_protobuf, GuiRoom
  <1>2. cur_room_id \in Nat \ {0}
    BY IInvByRoom DEF ByRoom
  <1>3. /\ from_protobuf(c, req).communication_id = c
        /\ from_protobuf(c, req).members = {} /\ from_protobuf(c, req).owners = {}
    BY DEF from_protobuf
  <1> QED
    BY <1>1, <1>2, <1>3, FirstMember, InsertKeepsIInv, Zenon DEF create_room_gui

(* The second of them: the room may be complete, and hidden, at once.      *)
LEMMA QuickCreateKeepsIInv ==
    ASSUME IInv, NEW u \in UserId, NEW c \in ComId, NEW req \in QuickReq, NEW attr \in QuickAttrs(req),
           insert_room(c, u, Complete(add_member(from_quickmatch_protobuf(c, req, attr), u, TRUE)))
    PROVE  IInv'
  <1> DEFINE room == from_quickmatch_protobuf(c, req, attr)
  <1>1. attr \in Attr /\ req.available_num \in Nat
    BY GuiAssumption DEF QuickAttrs
  <1>2. room \in GuiRoom
    BY <1>1, ClampSlotsType DEF from_quickmatch_protobuf, GuiRoom
  <1>3. cur_room_id \in Nat \ {0}
    BY IInvByRoom DEF ByRoom
  <1>4. room.communication_id = c /\ room.members = {} /\ room.owners = {}
    BY DEF from_quickmatch_protobuf
  <1> HIDE DEF room
  <1>5. /\ Good(<<c, cur_room_id>>, add_member(room, u, TRUE), cur_room_id + 1)
        /\ add_member(room, u, TRUE).members = {u}
    BY <1>2, <1>3, <1>4, FirstMember, Zenon
  <1>6. /\ Good(<<c, cur_room_id>>, Complete(add_member(room, u, TRUE)), cur_room_id + 1)
        /\ Complete(add_member(room, u, TRUE)).members = {u}
    BY <1>5, CompleteGood, Zenon
  <1> QED
    BY <1>6, InsertKeepsIInv, Zenon DEF room

-----------------------------------------------------------------------------
(* Joining.                                                                *)

(* Adding u does not exceed the room's slots, if they count for it.        *)
HasSlot(room, u) ==
    u \in room.members \/ room.quickmatch_room \/ Cardinality(room.members) # room.total_slots

(* A room that takes one more member is good if it had a slot left.        *)
LEMMA AddMemberGood ==
    ASSUME NEW r, NEW room, NEW n, Good(r, room, n), NEW u \in UserId, HasSlot(room, u)
    PROVE  /\ Good(r, add_member(room, u, FALSE), n)
           /\ add_member(room, u, FALSE).members = room.members \cup {u}
  <1> DEFINE new == add_member(room, u, FALSE)
  <1>1. /\ new \in GuiRoom
        /\ new.members = room.members \cup {u}
        /\ new.owners = room.owners \ {u}
        /\ new.communication_id = room.communication_id
        /\ new.total_slots = room.total_slots /\ new.total_slots \in 0..64
        /\ new.quickmatch_room = room.quickmatch_room
    BY Zenon DEF add_member, Good, GuiRoom
  <1> HIDE DEF new
  <1>0. IsFiniteSet(room.members)
    BY DEF Good
  <1>2. IsFiniteSet(new.members)
    BY <1>0, <1>1, FS_AddElement
  <1>3. Cardinality(new.members) = IF u \in room.members THEN Cardinality(room.members)
                                                         ELSE Cardinality(room.members) + 1
    BY <1>0, <1>1, FS_AddElement, Zenon
  <1>4. Cardinality(room.members) \in Nat
    BY <1>0, FS_CardinalityType
  <1>5. ~new.quickmatch_room /\ new.total_slots > 0 => Cardinality(new.members) <= new.total_slots
    <2> SUFFICES ASSUME ~new.quickmatch_room, new.total_slots > 0
                 PROVE  Cardinality(new.members) <= new.total_slots
      OBVIOUS
    <2>1. Cardinality(room.members) <= room.total_slots
      BY <1>1 DEF Good
    <2>2. u \in room.members \/ Cardinality(room.members) # room.total_slots
      BY <1>1 DEF HasSlot
    <2> QED
      BY <1>1, <1>3, <1>4, <2>1, <2>2
  <1> QED
    <2>1. new.members # {} /\ new.owners \subseteq new.members
      BY <1>1 DEF Good
    <2>2. \A v, w \in new.owners : v = w
      BY <1>1 DEF Good
    <2>3. Good(r, new, n)
      BY <1>1, <1>2, <1>5, <2>1, <2>2 DEF Good
    <2> QED
      BY <1>1, <2>3, Zenon DEF new

(* add_member_to_room, in a room with a slot left or for quickmatching.    *)
LEMMA JoinKeepsIInv ==
    ASSUME IInv, NEW u \in UserId, NEW r \in DOMAIN rooms, NEW quick \in BOOLEAN,
           HasSlot(rooms[r], u),
           add_member_to_room(r, u, quick)
    PROVE  IInv'
  <1> DEFINE joined == add_member(rooms[r], u, FALSE)
             new == IF quick THEN Complete(joined) ELSE joined
  <1>0. /\ Good(r, rooms[r], cur_room_id)
        /\ user_rooms \in [UserId -> SUBSET RoomId]
        /\ r \in RoomId
        /\ CleaningOK
    BY IInvByRoom DEF ByRoom
  <1>1. Good(r, joined, cur_room_id) /\ joined.members = rooms[r].members \cup {u}
    BY <1>0, AddMemberGood, Zenon
  <1>2. Good(r, new, cur_room_id) /\ new.members = rooms[r].members \cup {u}
    BY <1>1, CompleteGood, Zenon
  <1>3. \A v \in UserId : r \in user_rooms[v] <=> v \in rooms[r].members
    BY DEF IInv, UserRoomsExact
  <1>4. UNCHANGED <<cur_room_id, comid_rooms>>
    BY DEF add_member_to_room
  <1>5. CASE r \notin user_rooms[u]
    <2>1. /\ rooms' = [rooms EXCEPT ![r] = new]
          /\ user_rooms' = [user_rooms EXCEPT ![u] = @ \cup {r}]
          /\ CleaningOK'
      BY <1>0, <1>5, CleaningKept, Zenon DEF add_member_to_room
    <2> HIDE DEF new
    <2>2. /\ user_rooms' \in [UserId -> SUBSET RoomId]
          /\ \A v \in UserId : user_rooms'[v] = IF v = u THEN user_rooms[v] \cup {r} ELSE user_rooms[v]
      BY <1>0, <2>1
    <2>3. \A v \in UserId : user_rooms'[v] =
             IF v \in new.members THEN user_rooms[v] \cup {r} ELSE user_rooms[v] \ {r}
      BY <1>2, <1>3, <2>2
    <2> QED
      BY <1>0, <1>2, <1>4, <2>1, <2>2, <2>3, UpdateKeepsIInv, Zenon
  <1>6. CASE r \in user_rooms[u]
    <2>1. /\ rooms' = [rooms EXCEPT ![r] = joined]
          /\ user_rooms' = user_rooms
          /\ CleaningOK'
      BY <1>0, <1>6, DropCleaning, Zenon DEF add_member_to_room
    <2> HIDE DEF joined
    <2>2. \A v \in UserId : user_rooms'[v] =
             IF v \in joined.members THEN user_rooms[v] \cup {r} ELSE user_rooms[v] \ {r}
      BY <1>1, <1>3, <1>6, <2>1, Zenon
    <2> QED
      BY <1>0, <1>1, <1>4, <2>1, <2>2, UpdateKeepsIInv, Zenon
  <1> QED
    BY <1>5, <1>6

-----------------------------------------------------------------------------
(* Leaving.                                                                *)

(* A room that somebody left is good, with the owner's mark gone or given  *)
(* to one of the others.                                                   *)
LEMMA DepartedGood ==
    ASSUME NEW r, NEW room, NEW n, Good(r, room, n), NEW u \in room.members,
           Departed(room, u).members # {}
    PROVE  /\ Departed(room, u).members = room.members \ {u}
           /\ Good(r, Departed(room, u), n)
           /\ u \in room.owners => \A granted \in Granted(Departed(room, u)) :
                                      Good(r, granted, n) /\ granted.members = room.members \ {u}
  <1> DEFINE left == Departed(room, u)
  <1>1. /\ left \in GuiRoom
        /\ left.members = room.members \ {u}
        /\ left.owners = room.owners \ {u}
        /\ left.communication_id = room.communication_id
        /\ left.total_slots = room.total_slots /\ left.total_slots \in 0..64
        /\ left.quickmatch_room = room.quickmatch_room
    BY Zenon DEF Departed, Good, GuiRoom
  <1>2. /\ IsFiniteSet(left.members)
        /\ Cardinality(left.members) = Cardinality(room.members) - 1
        /\ Cardinality(room.members) \in Nat
    BY <1>1, FS_RemoveElement, FS_CardinalityType DEF Good
  <1>3. left.members # {}
    OBVIOUS
  <1> HIDE DEF left
  <1>4. Good(r, left, n)
    BY <1>1, <1>2, <1>3 DEF Good
  <1>5. ASSUME u \in room.owners, NEW granted \in Granted(left)
        PROVE  Good(r, granted, n) /\ granted.members = room.members \ {u}
    <2>1. PICK m \in left.members : granted = [left EXCEPT !.owners = @ \cup {m}]
      BY <1>5 DEF Granted
    <2>2. left.owners = {}
      BY <1>1, <1>5 DEF Good
    <2>3. m \in UserId
      BY <1>1 DEF GuiRoom
    <2>4. /\ granted \in GuiRoom
          /\ granted.members = left.members
          /\ granted.owners = {m}
          /\ granted.communication_id = left.communication_id
          /\ granted.total_slots = left.total_slots
          /\ granted.quickmatch_room = left.quickmatch_room
      BY <1>1, <2>1, <2>2, <2>3 DEF GuiRoom
    <2> QED
      BY <1>1, <1>4, <2>4 DEF Good
  <1> QED
    BY <1>1, <1>4, <1>5 DEF left

(* leave_room_gui keeps IInv, whether it removes the room, hands it on or  *)
(* takes one member out.                                                   *)
LEMMA LeaveKeepsIInv ==
    ASSUME IInv, NEW u \in UserId, NEW r \in DOMAIN rooms, leave_room_gui(u, r),
           CleaningOK'
    PROVE  IInv'
  <1> DEFINE left == Departed(rooms[r], u)
  <1>0. /\ Good(r, rooms[r], cur_room_id)
        /\ user_rooms \in [UserId -> SUBSET RoomId]
        /\ r \in RoomId
        /\ u \in rooms[r].members
        /\ UNCHANGED cur_room_id
    BY IInvByRoom DEF leave_room_gui, ByRoom
  <1>1. \A v \in UserId : r \in user_rooms[v] <=> v \in rooms[r].members
    BY DEF IInv, UserRoomsExact
  <1>2. ASSUME NEW new, Good(r, new, cur_room_id), new.members = rooms[r].members \ {u},
               rooms' = [rooms EXCEPT ![r] = new], ForgetRoom(r, {u}), UNCHANGED comid_rooms
        PROVE  IInv'
    <2>1. /\ user_rooms' \in [UserId -> SUBSET RoomId]
          /\ \A v \in UserId : user_rooms'[v] = IF v = u THEN user_rooms[v] \ {r} ELSE user_rooms[v]
      BY <1>0, <1>2 DEF ForgetRoom
    <2>2. \A v \in UserId : user_rooms'[v] =
             IF v \in new.members THEN user_rooms[v] \cup {r} ELSE user_rooms[v] \ {r}
      BY <1>1, <1>2, <2>1
    <2> QED
      BY <1>0, <1>2, <2>1, <2>2, UpdateKeepsIInv, Zenon
  <1>3. CASE left.members = {} /\ RemoveRoom(r) /\ ForgetRoom(r, {u})
    <2>1. left.members = rooms[r].members \ {u}
      BY <1>0 DEF Departed, Good, GuiRoom
    <2>2. rooms[r].members = {u}
      BY <1>0, <1>3, <2>1
    <2> QED
      BY <1>0, <1>3, <2>2, RemoveKeepsIInv, Zenon
  <1>4. CASE RemoveRoom(r) /\ ForgetRoom(r, rooms[r].members)
    BY <1>0, <1>4, RemoveKeepsIInv
  <1>5. CASE /\ left.members # {} /\ u \in rooms[r].owners
             /\ \E granted \in Granted(left) : rooms' = [rooms EXCEPT ![r] = granted]
             /\ ForgetRoom(r, {u}) /\ UNCHANGED comid_rooms
    BY <1>0, <1>2, <1>5, DepartedGood, ZenonT(30)
  <1>6. CASE /\ left.members # {} /\ rooms' = [rooms EXCEPT ![r] = left]
             /\ ForgetRoom(r, {u}) /\ UNCHANGED comid_rooms
    <2>1. Good(r, left, cur_room_id) /\ left.members = rooms[r].members \ {u}
      BY <1>0, <1>6, DepartedGood
    <2> QED
      BY <1>2, <1>6, <2>1, Zenon
  <1> QED
    BY <1>3, <1>4, <1>5, <1>6 DEF leave_room_gui

-----------------------------------------------------------------------------
(* The owner's settings.                                                   *)
LEMMA SettingsKeepIInv ==
    ASSUME IInv, NEW r \in DOMAIN rooms, NEW room, Good(r, room, cur_room_id),
           room.members = rooms[r].members, rooms' = [rooms EXCEPT ![r] = room],
           UNCHANGED <<cur_room_id, comid_rooms, user_rooms, cleaning>>
    PROVE  IInv'
  <1>1. /\ user_rooms \in [UserId -> SUBSET RoomId]
        /\ CleaningOK
    BY IInvByRoom DEF ByRoom
  <1>2. \A v \in UserId : r \in user_rooms[v] <=> v \in room.members
    BY DEF IInv, UserRoomsExact
  <1>3. \A v \in UserId : user_rooms'[v] =
           IF v \in room.members THEN user_rooms[v] \cup {r} ELSE user_rooms[v] \ {r}
    BY <1>2, Zenon
  <1> QED
    BY <1>1, <1>3, CleaningKept, UpdateKeepsIInv, Zenon

(* IInv holds initially.                                                   *)
LEMMA InitIInv == Init => IInv
  BY DEF Init, IInv, TypeOK, UserRoomsExact, ComidRoomsExact, AtMostOneOwner, CapacityKept, RoomId

(* Every command of a client keeps IInv.                                   *)
LEMMA CommandKeepsIInv ==
    ASSUME IInv, NEW u \in UserId, Command(u)
    PROVE  IInv'
  <1>0. /\ \A r \in DOMAIN rooms : Good(r, rooms[r], cur_room_id)
        /\ \A c \in ComId : comid_rooms[c] \subseteq DOMAIN rooms
        /\ CleaningOK
    BY IInvByRoom DEF ByRoom
  <1>1. ASSUME NEW c \in ComId, NEW req \in CreateReq, create_room_gui(u, c, req) PROVE IInv'
    BY <1>1, CreateKeepsIInv
  <1>2. ASSUME NEW c \in ComId, NEW req \in QuickReq, quickmatch_gui(u, c, req) PROVE IInv'
    <2>1. ASSUME NEW r \in QuickRooms(c, req), add_member_to_room(r, u, TRUE) PROVE IInv'
      <3>1. r \in DOMAIN rooms /\ rooms[r].quickmatch_room
        BY <1>0 DEF QuickRooms, is_quickmatch
      <3>2. HasSlot(rooms[r], u)
        BY <3>1 DEF HasSlot
      <3> QED
        BY <2>1, <3>1, <3>2, JoinKeepsIInv, Zenon
    <2> QED
      BY <1>2, <2>1, QuickCreateKeepsIInv, Zenon DEF quickmatch_gui
  <1>3. ASSUME NEW c \in ComId, NEW req \in SearchReq, search_join_gui(u, c, req) PROVE IInv'
    <2>1. PICK r \in SearchRooms(c, req) : add_member_to_room(r, u, FALSE)
      BY <1>3, Zenon DEF search_join_gui
    <2>2. r \in DOMAIN rooms /\ Cardinality(rooms[r].members) # rooms[r].total_slots
      BY <1>0 DEF SearchRooms, is_match
    <2>3. HasSlot(rooms[r], u)
      BY <2>2 DEF HasSlot
    <2> QED
      BY <2>1, <2>2, <2>3, JoinKeepsIInv, Zenon
  <1>4. ASSUME NEW r \in DOMAIN rooms, join_room_gui(u, r) PROVE IInv'
    BY <1>4, JoinKeepsIInv, Zenon DEF join_room_gui, HasSlot
  <1>5. ASSUME NEW r \in DOMAIN rooms, leave_room_gui(u, r), UNCHANGED cleaning PROVE IInv'
    BY <1>0, <1>5, CleaningKept, LeaveKeepsIInv, Zenon
  <1>6. ASSUME NEW r \in DOMAIN rooms, NEW stealth \in BOOLEAN, set_search_flag(u, r, stealth) PROVE IInv'
    <2> DEFINE new == [rooms[r] EXCEPT !.stealth = stealth]
    <2>1. rooms' = [rooms EXCEPT ![r] = new]
      BY <1>6 DEF set_search_flag
    <2>2. Good(r, new, cur_room_id) /\ new.members = rooms[r].members
      BY <1>0 DEF Good, GuiRoom
    <2> QED
      BY <1>6, <2>1, <2>2, SettingsKeepIInv, Zenon DEF set_search_flag
  <1>7. ASSUME NEW r \in DOMAIN rooms, NEW attr \in Attr, set_room_info_gui(u, r, attr) PROVE IInv'
    <2> DEFINE new == [rooms[r] EXCEPT !.num_attr = attr]
    <2>1. rooms' = [rooms EXCEPT ![r] = new]
      BY <1>7 DEF set_room_info_gui
    <2>2. Good(r, new, cur_room_id) /\ new.members = rooms[r].members
      BY <1>0 DEF Good, GuiRoom
    <2> QED
      BY <1>7, <2>1, <2>2, SettingsKeepIInv, Zenon DEF set_room_info_gui
  <1>8. ASSUME Disconnect(u) PROVE IInv'
    BY <1>8 DEF Disconnect, Drop, IInv, TypeOK, UserRoomsExact, ComidRoomsExact, AtMostOneOwner, CapacityKept
  <1> QED
    BY <1>1, <1>2, <1>3, <1>4, <1>5, <1>6, <1>7, <1>8 DEF Command

(* IInv is inductive.                                                      *)
LEMMA NextKeepsIInv == IInv /\ [Next]_vars => IInv'
  <1> SUFFICES ASSUME IInv, [Next]_vars PROVE IInv'
    OBVIOUS
  <1>1. ASSUME NEW u \in UserId \ closing, Command(u) PROVE IInv'
    BY <1>1, CommandKeepsIInv
  <1>2. ASSUME NEW u \in closing, clean_user_state(u) PROVE IInv'
    <2>1. u \in UserId /\ CleaningOK
      BY IInvByRoom DEF ByRoom, CleaningOK
    <2>2. ASSUME NEW r \in user_rooms[u], leave_room_gui(u, r), UNCHANGED closing,
                 waiting' \subseteq waiting \cup {u}
          PROVE  IInv'
      <3>1. r \in DOMAIN rooms
        BY <2>1 DEF IInv, UserRoomsExact
      <3>2. CleaningOK'
        BY <1>2, <2>1, <2>2 DEF CleaningOK
      <3> QED
        BY <2>1, <2>2, <3>1, <3>2, LeaveKeepsIInv
    <2>3. CASE /\ u \notin waiting /\ closing' = closing \ {u}
               /\ UNCHANGED <<cur_room_id, rooms, comid_rooms, user_rooms, waiting>>
      BY <2>1, <2>3 DEF IInv, TypeOK, UserRoomsExact, ComidRoomsExact, AtMostOneOwner, CapacityKept
    <2> QED
      BY <1>2, <2>2, <2>3 DEF clean_user_state
  <1>3. ASSUME NEW u \in waiting, Notified(u) PROVE IInv'
    BY <1>3 DEF Notified, IInv, TypeOK, UserRoomsExact, ComidRoomsExact, AtMostOneOwner, CapacityKept
  <1>4. CASE UNCHANGED vars
    BY <1>4 DEF vars, cleaning, IInv, TypeOK, UserRoomsExact, ComidRoomsExact, AtMostOneOwner, CapacityKept
  <1> QED
    BY <1>1, <1>2, <1>3, <1>4 DEF Next

-----------------------------------------------------------------------------
(* The inductive invariant holds in every reachable state.                 *)
THEOREM GuiInvariance == Spec => []IInv
  BY InitIInv, NextKeepsIInv, PTL DEF Spec

(* The lists the cleanup works from are exact, also after a failed         *)
(* assertion in add_member_to_room.                                        *)
THEOREM GuiUserRoomsAgree == Spec => []UserRoomsExact
  <1>1. IInv => UserRoomsExact
    BY DEF IInv
  <1> QED
    BY <1>1, GuiInvariance, PTL

(* The index of a com id lists exactly its rooms, and none is empty.       *)
THEOREM GuiIndexAgrees == Spec => []ComidRoomsExact
  <1>1. IInv => ComidRoomsExact
    BY DEF IInv
  <1> QED
    BY <1>1, GuiInvariance, PTL

(* No room ever has two owners.                                            *)
THEOREM GuiOwnerUnique == Spec => []AtMostOneOwner
  <1>1. IInv => AtMostOneOwner
    BY DEF IInv
  <1> QED
    BY <1>1, GuiInvariance, PTL

(* Created rooms never exceed their slots.                                 *)
THEOREM GuiCapacity == Spec => []CapacityKept
  <1>1. IInv => CapacityKept
    BY DEF IInv
  <1> QED
    BY <1>1, GuiInvariance, PTL

-----------------------------------------------------------------------------
(* Owners are lost only where the assertion in add_member_to_room fails.   *)

(* What OwnerLostOnlyByRejoin says of a step.                              *)
OwnersFollow ==
    \A r \in DOMAIN rooms \cap DOMAIN rooms' :
      rooms[r].owners # {} /\ rooms'[r].owners = {}
        => \E u \in rooms[r].owners : u \in rooms'[r].members /\ u \in closing' \ closing

(* Steps that leave the owners of every surviving room as they are.        *)
LEMMA SameOwners ==
    ASSUME \A r \in DOMAIN rooms \cap DOMAIN rooms' : rooms'[r].owners = rooms[r].owners
    PROVE  OwnersFollow
  BY DEF OwnersFollow

(* A new room takes nobody's room away.                                    *)
LEMMA InsertOwners ==
    ASSUME IInv, NEW c, NEW u, NEW room, insert_room(c, u, room)
    PROVE  OwnersFollow
  <1>1. \A r \in DOMAIN rooms : r[2] < cur_room_id /\ r[2] \in Nat /\ cur_room_id \in Nat
    BY IInvByRoom DEF ByRoom, Good, RoomId
  <1>2. <<c, cur_room_id>> \notin DOMAIN rooms
    BY <1>1
  <1>3. \A r \in DOMAIN rooms : rooms'[r] = rooms[r]
    BY <1>2 DEF insert_room, generate_room_id
  <1> QED
    BY <1>3, SameOwners

(* A join takes the ownership only from an owner who joins again, and then *)
(* the assertion fails and the owner's connection ends.                    *)
LEMMA JoinOwners ==
    ASSUME IInv, NEW u \in UserId \ closing, NEW r \in DOMAIN rooms, NEW quick \in BOOLEAN,
           add_member_to_room(r, u, quick)
    PROVE  OwnersFollow
  <1>0. rooms[r] \in GuiRoom /\ rooms[r].owners \subseteq rooms[r].members
    BY IInvByRoom DEF ByRoom, Good
  <1>1. r \in user_rooms[u] <=> u \in rooms[r].members
    BY DEF IInv, UserRoomsExact
  <1> DEFINE joined == add_member(rooms[r], u, FALSE)
  <1>2. /\ joined.owners = rooms[r].owners \ {u}
        /\ joined.members = rooms[r].members \cup {u}
        /\ Complete(joined).owners = rooms[r].owners \ {u}
    BY <1>0 DEF add_member, Complete, GuiRoom
  <1>3. CASE r \notin user_rooms[u]
    <2>1. rooms' = [rooms EXCEPT ![r] = IF quick THEN Complete(joined) ELSE joined]
      BY <1>3, Zenon DEF add_member_to_room
    <2> HIDE DEF joined
    <2>2. rooms'[r].owners = rooms[r].owners
      BY <1>0, <1>1, <1>2, <1>3, <2>1, SMTT(30)
    <2>3. \A q \in DOMAIN rooms : q # r => rooms'[q] = rooms[q]
      BY <2>1
    <2> QED
      BY <2>2, <2>3, SameOwners
  <1>4. CASE r \in user_rooms[u]
    <2>1. rooms' = [rooms EXCEPT ![r] = joined] /\ closing' = closing \cup {u}
      BY <1>4, Zenon DEF add_member_to_room, Drop
    <2> HIDE DEF joined
    <2>2. /\ rooms'[r].owners = rooms[r].owners \ {u}
          /\ rooms'[r].members = rooms[r].members \cup {u}
          /\ \A q \in DOMAIN rooms : q # r => rooms'[q] = rooms[q]
      BY <1>2, <2>1
    <2> QED
      BY <2>1, <2>2 DEF OwnersFollow
  <1> QED
    BY <1>3, <1>4

(* When the owner leaves, the room goes or somebody else owns it.          *)
LEMMA LeaveOwners ==
    ASSUME IInv, NEW u \in UserId, NEW r \in DOMAIN rooms, leave_room_gui(u, r)
    PROVE  OwnersFollow
  <1>0. rooms[r] \in GuiRoom
    BY IInvByRoom DEF ByRoom, Good
  <1> DEFINE left == Departed(rooms[r], u)
  <1>1. left \in GuiRoom /\ left.owners = rooms[r].owners \ {u}
    BY <1>0, Zenon DEF Departed, GuiRoom
  <1>2. CASE RemoveRoom(r)
    <2>1. \A q \in DOMAIN rooms' : rooms'[q] = rooms[q]
      BY <1>2 DEF RemoveRoom
    <2> QED
      BY <2>1, SameOwners
  <1>3. CASE \E granted \in Granted(left) : rooms' = [rooms EXCEPT ![r] = granted]
    <2>1. PICK m \in left.members : rooms' = [rooms EXCEPT ![r] = [left EXCEPT !.owners = @ \cup {m}]]
      BY <1>3, Zenon DEF Granted
    <2> HIDE DEF left
    <2>2. m \in [left EXCEPT !.owners = @ \cup {m}].owners
      BY <1>1 DEF GuiRoom
    <2>3. rooms'[r].owners # {} /\ \A q \in DOMAIN rooms : q # r => rooms'[q] = rooms[q]
      BY <2>1, <2>2, Zenon
    <2> QED
      BY <2>3 DEF OwnersFollow
  <1>4. CASE u \notin rooms[r].owners /\ rooms' = [rooms EXCEPT ![r] = left]
    <2> HIDE DEF left
    <2>1. \A q \in DOMAIN rooms : rooms'[q].owners = rooms[q].owners
      BY <1>1, <1>4
    <2> QED
      BY <2>1, SameOwners
  <1> QED
    BY <1>2, <1>3, <1>4 DEF leave_room_gui

(* A room with an owner keeps one until it is removed, except where the    *)
(* owner's own rejoining fails the assertion.                              *)
THEOREM GuiOwnerKept == Spec => OwnerLostOnlyByRejoin
  <1>1. ASSUME IInv, Next PROVE OwnersFollow
    <2>0. /\ \A c \in ComId : comid_rooms[c] \subseteq DOMAIN rooms
          /\ \A u \in UserId : user_rooms[u] \subseteq DOMAIN rooms
          /\ closing \subseteq UserId
          /\ \A r \in DOMAIN rooms : rooms[r] \in GuiRoom
      BY <1>1, IInvByRoom DEF ByRoom, UserRoomsExact, Good, CleaningOK
    <2>1. ASSUME NEW u \in UserId \ closing, Command(u) PROVE OwnersFollow
      <3>1. ASSUME NEW c \in ComId, NEW req \in CreateReq, create_room_gui(u, c, req) PROVE OwnersFollow
        BY <1>1, <3>1, InsertOwners, Zenon DEF create_room_gui
      <3>2. ASSUME NEW c \in ComId, NEW req \in QuickReq, quickmatch_gui(u, c, req) PROVE OwnersFollow
        <4>1. QuickRooms(c, req) \subseteq DOMAIN rooms
          BY <2>0 DEF QuickRooms
        <4> QED
          BY <1>1, <3>2, <4>1, InsertOwners, JoinOwners, Zenon DEF quickmatch_gui
      <3>3. ASSUME NEW c \in ComId, NEW req \in SearchReq, search_join_gui(u, c, req) PROVE OwnersFollow
        <4>1. SearchRooms(c, req) \subseteq DOMAIN rooms
          BY <2>0, Zenon DEF SearchRooms
        <4> QED
          BY <1>1, <3>3, <4>1, JoinOwners, Zenon DEF search_join_gui
      <3>4. ASSUME NEW r \in DOMAIN rooms, join_room_gui(u, r) PROVE OwnersFollow
        BY <1>1, <3>4, JoinOwners, Zenon DEF join_room_gui
      <3>5. ASSUME NEW r \in DOMAIN rooms, leave_room_gui(u, r) PROVE OwnersFollow
        BY <1>1, <3>5, LeaveOwners
      <3>6. ASSUME NEW r \in DOMAIN rooms, NEW stealth \in BOOLEAN, set_search_flag(u, r, stealth)
            PROVE  OwnersFollow
        <4>1. \A q \in DOMAIN rooms : rooms'[q].owners = rooms[q].owners
          BY <2>0, <3>6 DEF set_search_flag, GuiRoom
        <4> QED
          BY <4>1, SameOwners
      <3>7. ASSUME NEW r \in DOMAIN rooms, NEW attr \in Attr, set_room_info_gui(u, r, attr)
            PROVE  OwnersFollow
        <4>1. \A q \in DOMAIN rooms : rooms'[q].owners = rooms[q].owners
          BY <2>0, <3>7 DEF set_room_info_gui, GuiRoom
        <4> QED
          BY <4>1, SameOwners
      <3>8. CASE Disconnect(u)
        BY <3>8, SameOwners DEF Disconnect
      <3> QED
        BY <2>1, <3>1, <3>2, <3>3, <3>4, <3>5, <3>6, <3>7, <3>8 DEF Command
    <2>2. ASSUME NEW u \in closing, clean_user_state(u) PROVE OwnersFollow
      <3>1. ASSUME NEW r \in user_rooms[u], leave_room_gui(u, r) PROVE OwnersFollow
        BY <1>1, <2>0, <3>1, LeaveOwners
      <3>2. CASE UNCHANGED rooms
        BY <3>2, SameOwners
      <3> QED
        BY <2>2, <3>1, <3>2 DEF clean_user_state
    <2>3. ASSUME NEW u \in waiting, Notified(u) PROVE OwnersFollow
      BY <2>3, SameOwners DEF Notified
    <2> QED
      BY <1>1, <2>1, <2>2, <2>3 DEF Next
  <1>2. IInv /\ [Next]_vars => [OwnersFollow]_vars
    BY <1>1
  <1> QED
    BY <1>2, GuiInvariance, PTL DEF Spec, OwnerLostOnlyByRejoin, OwnersFollow
=============================================================================
