--------------------------- MODULE GuiRoomManager ---------------------------
(***************************************************************************)
(* struct GuiRoomManager of src/server/gui_room_manager.rs, the rooms of   *)
(* the old GUI matching api, with the commands of                          *)
(* src/server/client/cmd_room_gui.rs and the part of                       *)
(* Client::clean_user_state that leaves a lost client's rooms.             *)
(*                                                                         *)
(* Every command holds the manager's write lock throughout and is one      *)
(* action.  A room's members map is kept as the set of its keys and the    *)
(* set of those whose entry says owner; a room id is the com id and the    *)
(* number that generate_room_id prints into it; the sixteen numeric        *)
(* attributes are one, and binary attributes are left out.                 *)
(***************************************************************************)
EXTENDS Integers, FiniteSets

CONSTANTS
    UserId, ComId,
    Attr,          \* values of the numeric attribute, 0 included
    CreateReq,     \* CreateRoomGUI requests
    QuickReq,      \* QuickMatchGUI requests
    SearchReq,     \* SearchJoinRoomGUI requests
    MaxRoomId      \* bound: rooms ever created

GuiRoom == [communication_id : ComId, total_slots : 0..64, privilege_grant : BOOLEAN,
            stealth : BOOLEAN, quickmatch_room : BOOLEAN, num_attr : Attr,
            members : SUBSET UserId, owners : SUBSET UserId]

ASSUME GuiAssumption ==
    /\ 0 \in Attr
    /\ MaxRoomId \in Nat
    /\ CreateReq \subseteq [total_slots : Nat, privilege_grant : BOOLEAN,
                            stealth : BOOLEAN, num_attr : Attr]
    /\ QuickReq \subseteq [available_num : Nat, eq : SUBSET Attr, ne : SUBSET Attr]
    /\ SearchReq \subseteq [attrs : SUBSET Attr, slots : SUBSET Nat]

VARIABLES
    cur_room_id,   \* number of the next room
    rooms,         \* room id -> GuiRoom
    comid_rooms,   \* com id -> room ids
    user_rooms,    \* user -> room ids
    closing,       \* users whose connection is gone and whose rooms are being left
    waiting        \* those of them with rooms to leave whose cleanup waits for
                   \* a notification to be taken

cleaning == <<closing, waiting>>
vars == <<cur_room_id, rooms, comid_rooms, user_rooms, cleaning>>

RoomId == ComId \X (Nat \ {0})

Init ==
    /\ cur_room_id = 1
    /\ rooms = [r \in {} |-> 0]
    /\ comid_rooms = [c \in ComId |-> {}]
    /\ user_rooms = [u \in UserId |-> {}]
    /\ closing = {} /\ waiting = {}

-----------------------------------------------------------------------------
ClampSlots(n) == IF n < 64 THEN n ELSE 64

from_protobuf(c, req) ==
    [communication_id |-> c, total_slots |-> ClampSlots(req.total_slots),
     privilege_grant |-> req.privilege_grant, stealth |-> req.stealth,
     quickmatch_room |-> FALSE, num_attr |-> req.num_attr, members |-> {}, owners |-> {}]

(* Equality conditions become the attributes of the new room, the last one *)
(* of several for one attribute; others are ignored.                       *)
from_quickmatch_protobuf(c, req, attr) ==
    [communication_id |-> c, total_slots |-> ClampSlots(req.available_num),
     privilege_grant |-> TRUE, stealth |-> FALSE, quickmatch_room |-> TRUE,
     num_attr |-> attr, members |-> {}, owners |-> {}]

QuickAttrs(req) == IF req.eq = {} THEN {0} ELSE req.eq

is_match(room, req, check_full) ==
    /\ ~room.quickmatch_room /\ ~room.stealth
    /\ check_full => Cardinality(room.members) # room.total_slots
    /\ room.total_slots \in req.slots
    /\ room.num_attr \in req.attrs

is_quickmatch(room, req) ==
    /\ room.quickmatch_room /\ ~room.stealth
    /\ room.total_slots = req.available_num
    /\ \A v \in req.eq : room.num_attr = v
    /\ room.num_attr \notin req.ne

(* Wrong: everybody is added as an owner.                                  *)
add_member_Owner(room, u, owner) ==
    [room EXCEPT !.members = @ \cup {u}, !.owners = @ \cup {u}]

(* The member's entry is replaced if there is one.                         *)
add_member(room, u, owner) ==
    [room EXCEPT !.members = @ \cup {u},
                 !.owners = IF owner THEN @ \cup {u} ELSE @ \ {u}]

(* A complete quickmatch room is hidden from later searches.               *)
Complete(room) ==
    IF Cardinality(room.members) = room.total_slots
      THEN [room EXCEPT !.stealth = TRUE] ELSE room

generate_room_id(c) == <<c, cur_room_id>>

insert_room(c, u, room) ==
    LET r == generate_room_id(c)
    IN  /\ cur_room_id <= MaxRoomId
        /\ cur_room_id' = cur_room_id + 1
        /\ rooms' = [q \in DOMAIN rooms \cup {r} |-> IF q = r THEN room ELSE rooms[q]]
        /\ comid_rooms' = [comid_rooms EXCEPT ![c] = @ \cup {r}]
        /\ user_rooms' = [user_rooms EXCEPT ![u] = @ \cup {r}]
        /\ UNCHANGED cleaning

(* A connection ends: Drop spawns the cleanup, which first leaves the      *)
(* user's other rooms (RoomManager) and notifies their members.            *)
Drop(u) ==
    /\ closing' = closing \cup {u}
    /\ waiting' = IF user_rooms[u] = {} THEN waiting ELSE waiting \cup {u}

(* The entry in the room is written before the assertion that user_rooms   *)
(* did not have the room yet.  When it fails the task unwinds, and the     *)
(* client's Drop starts leaving its rooms.                                 *)
add_member_to_room(r, u, quick) ==
    LET joined == add_member(rooms[r], u, FALSE) IN
    /\ UNCHANGED <<cur_room_id, comid_rooms>>
    /\ \/ /\ r \notin user_rooms[u]
          /\ rooms' = [rooms EXCEPT ![r] = IF quick THEN Complete(joined) ELSE joined]
          /\ user_rooms' = [user_rooms EXCEPT ![u] = @ \cup {r}]
          /\ UNCHANGED cleaning
       \/ /\ r \in user_rooms[u]
          /\ rooms' = [rooms EXCEPT ![r] = joined]
          /\ Drop(u)
          /\ UNCHANGED user_rooms

-----------------------------------------------------------------------------
(* The commands.                                                           *)

create_room_gui(u, c, req) ==
    insert_room(c, u, add_member(from_protobuf(c, req), u, TRUE))

QuickRooms(c, req) == {r \in comid_rooms[c] : is_quickmatch(rooms[r], req)}

(* Any matching room may come first in the hash set.                       *)
quickmatch_gui(u, c, req) ==
    \/ \E r \in QuickRooms(c, req) : add_member_to_room(r, u, TRUE)
    \/ /\ QuickRooms(c, req) = {}
       /\ \E attr \in QuickAttrs(req) :
            insert_room(c, u, Complete(add_member(from_quickmatch_protobuf(c, req, attr), u, TRUE)))

SearchRooms(c, req) == {r \in comid_rooms[c] : is_match(rooms[r], req, TRUE)}

(* Wrong: rooms that are full are found too.                               *)
search_join_gui_Full(u, c, req) ==
    \E r \in {r \in comid_rooms[c] : is_match(rooms[r], req, FALSE)} :
      add_member_to_room(r, u, FALSE)

search_join_gui(u, c, req) ==
    \E r \in SearchRooms(c, req) : add_member_to_room(r, u, FALSE)

join_room_gui(u, r) ==
    /\ Cardinality(rooms[r].members) # rooms[r].total_slots
    /\ u \notin rooms[r].members
    /\ add_member_to_room(r, u, FALSE)

set_search_flag(u, r, stealth) ==
    /\ u \in rooms[r].owners
    /\ ~rooms[r].quickmatch_room
    /\ rooms' = [rooms EXCEPT ![r].stealth = stealth]
    /\ UNCHANGED <<cur_room_id, comid_rooms, user_rooms, cleaning>>

set_room_info_gui(u, r, attr) ==
    /\ u \in rooms[r].owners
    /\ rooms' = [rooms EXCEPT ![r].num_attr = attr]
    /\ UNCHANGED <<cur_room_id, comid_rooms, user_rooms, cleaning>>

-----------------------------------------------------------------------------
(* Leaving.                                                                *)

(* Wrong: the room stays in the index of its com id.                       *)
RemoveRoom_Listed(r) ==
    /\ rooms' = [q \in DOMAIN rooms \ {r} |-> rooms[q]]
    /\ UNCHANGED comid_rooms

RemoveRoom(r) ==
    /\ rooms' = [q \in DOMAIN rooms \ {r} |-> rooms[q]]
    /\ comid_rooms' = [comid_rooms EXCEPT ![rooms[r].communication_id] = @ \ {r}]

(* Wrong: only the owner's own list forgets a room the owner closes.       *)
ForgetRoom_OwnerOnly(r, users) ==
    user_rooms' = [v \in UserId |-> IF v \in users \cap rooms[r].owners
                                      THEN user_rooms[v] \ {r} ELSE user_rooms[v]]

ForgetRoom(r, users) ==
    user_rooms' = [v \in UserId |-> IF v \in users THEN user_rooms[v] \ {r} ELSE user_rooms[v]]

Departed(room, u) == [room EXCEPT !.members = @ \ {u}, !.owners = @ \ {u}]

(* Wrong: nobody inherits the room.                                        *)
Granted_Nobody(left) == {left}

Granted(left) == {[left EXCEPT !.owners = @ \cup {m}] : m \in left.members}

(* The last one out removes the room, and so does an owner who grants no   *)
(* privilege; any remaining member may be granted it otherwise.            *)
leave_room_gui(u, r) ==
    LET left == Departed(rooms[r], u)
    IN  /\ u \in rooms[r].members
        /\ UNCHANGED cur_room_id
        /\ \/ /\ left.members = {}
              /\ RemoveRoom(r)
              /\ ForgetRoom(r, {u})
           \/ /\ left.members # {} /\ u \in rooms[r].owners
              /\ ~left.privilege_grant
              /\ RemoveRoom(r)
              /\ ForgetRoom(r, rooms[r].members)
           \/ /\ left.members # {} /\ u \in rooms[r].owners
              /\ left.privilege_grant
              /\ \E granted \in Granted(left) : rooms' = [rooms EXCEPT ![r] = granted]
              /\ ForgetRoom(r, {u})
              /\ UNCHANGED comid_rooms
           \/ /\ left.members # {} /\ u \notin rooms[r].owners
              /\ rooms' = [rooms EXCEPT ![r] = left]
              /\ ForgetRoom(r, {u})
              /\ UNCHANGED comid_rooms

Disconnect(u) ==
    /\ Drop(u)
    /\ UNCHANGED <<cur_room_id, rooms, comid_rooms, user_rooms>>

(* Wrong: a panicking client's rooms are not left.                         *)
clean_user_state_None(u) ==
    /\ u \notin waiting
    /\ closing' = closing \ {u}
    /\ UNCHANGED <<cur_room_id, rooms, comid_rooms, user_rooms, waiting>>

(* One iteration of the cleanup, which notifies whom it left in the room   *)
(* before it goes on to the next, or its end, after which the user may log *)
(* in again.  A room on the list whose owner closed it is skipped.         *)
clean_user_state(u) ==
    /\ u \notin waiting
    /\ \/ /\ \E r \in user_rooms[u] :
               /\ leave_room_gui(u, r)
               /\ waiting' = IF rooms[r].members = {u} \/ user_rooms[u] = {r}
                               THEN waiting ELSE waiting \cup {u}
          /\ UNCHANGED closing
       \/ /\ user_rooms[u] = {}
          /\ closing' = closing \ {u}
          /\ UNCHANGED <<cur_room_id, rooms, comid_rooms, user_rooms, waiting>>

(* The bounded channels of the clients to be notified took the messages.   *)
(* A client that does not read what it is sent keeps its channel full, so  *)
(* that nothing makes this step happen.                                    *)
Notified(u) ==
    /\ waiting' = waiting \ {u}
    /\ UNCHANGED <<cur_room_id, rooms, comid_rooms, user_rooms, closing>>

-----------------------------------------------------------------------------
Command(u) ==
    \/ \E c \in ComId :
         \/ \E req \in CreateReq : create_room_gui(u, c, req)
         \/ \E req \in QuickReq : quickmatch_gui(u, c, req)
         \/ \E req \in SearchReq : search_join_gui(u, c, req)
    \/ \E r \in DOMAIN rooms :
         \/ join_room_gui(u, r)
         \/ leave_room_gui(u, r) /\ UNCHANGED cleaning
         \/ \E stealth \in BOOLEAN : set_search_flag(u, r, stealth)
         \/ \E attr \in Attr : set_room_info_gui(u, r, attr)
    \/ Disconnect(u)

Next ==
    \/ \E u \in UserId \ closing : Command(u)
    \/ \E u \in closing : clean_user_state(u)
    \/ \E u \in waiting : Notified(u)

(* The cleanup is a spawned task that the runtime keeps scheduling; where  *)
(* it is not waiting for clients it needs nothing but the manager's lock.  *)
Cleanup(u) == u \in closing /\ clean_user_state(u)

Spec == Init /\ [][Next]_vars

FairSpec == Spec /\ \A u \in UserId : WF_vars(Cleanup(u))

-----------------------------------------------------------------------------
(* Type invariant.                                                         *)
TypeOK ==
    /\ cur_room_id \in Nat \ {0}
    /\ DOMAIN rooms \subseteq RoomId
    /\ \A r \in DOMAIN rooms : rooms[r] \in GuiRoom
    /\ comid_rooms \in [ComId -> SUBSET RoomId]
    /\ user_rooms \in [UserId -> SUBSET RoomId]
    /\ waiting \subseteq closing /\ closing \subseteq UserId

(* user_rooms and the members maps agree, also after a failed assertion:   *)
(* the cleanup of a lost client leaves the rooms on its list and no other. *)
UserRoomsExact ==
    \A u \in UserId : user_rooms[u] = {r \in DOMAIN rooms : u \in rooms[r].members}

(* A com id's index lists exactly its live rooms: quickmatch_gui and       *)
(* search_join_gui unwrap what it lists, leave_room_gui asserts that it    *)
(* removes from it.  None of them is empty: nobody could leave it, and it  *)
(* would stay for good.                                                    *)
ComidRoomsExact ==
    /\ \A c \in ComId : comid_rooms[c] = {r \in DOMAIN rooms : rooms[r].communication_id = c}
    /\ \A r \in DOMAIN rooms : rooms[r].members # {}

(* At most one member of a room passes get_room_and_check_ownership, and   *)
(* it is a present one.                                                    *)
AtMostOneOwner ==
    \A r \in DOMAIN rooms : /\ rooms[r].owners \subseteq rooms[r].members
                            /\ \A u, v \in rooms[r].owners : u = v

(* A room that was created rather than quickmatched, with at least one     *)
(* slot, never has more members than slots: every way in compares for      *)
(* equality, which is enough only if no step jumps over it.                *)
CapacityKept ==
    \A r \in DOMAIN rooms :
      ~rooms[r].quickmatch_room /\ rooms[r].total_slots > 0
        => Cardinality(rooms[r].members) <= rooms[r].total_slots

(* The inductive invariant behind the ones above.                          *)
IInv ==
    /\ TypeOK
    /\ UserRoomsExact
    /\ ComidRoomsExact
    /\ AtMostOneOwner
    /\ CapacityKept
    /\ \A r \in DOMAIN rooms : /\ r[2] < cur_room_id
                                /\ rooms[r].communication_id = r[1]
                                /\ IsFiniteSet(rooms[r].members)

(* A room with an owner stays with one until it is removed, except when    *)
(* the assertion in add_member_to_room fails for the owner itself.         *)
OwnerLostOnlyByRejoin ==
    [][\A r \in DOMAIN rooms \cap DOMAIN rooms' :
         rooms[r].owners # {} /\ rooms'[r].owners = {}
           => \E u \in rooms[r].owners : u \in rooms'[r].members /\ u \in closing' \ closing]_vars

(* Whoever loses the connection, by a panic included, is out of all rooms  *)
(* eventually, whatever others do to its rooms meanwhile, provided that    *)
(* none of the notifications on the way waits for ever: the members left   *)
(* behind read what they are sent.                                         *)
CleanupLeaves(u) == []<>(u \notin waiting) => (u \in closing ~> user_rooms[u] = {})

-----------------------------------------------------------------------------
(* What comments and assertions of the code say and the code does not do.  *)

(* The assertion in add_member_to_room: a user is never added to a room it *)
(* is a member of.                                                         *)
RejoinNever ==
    \A u \in UserId, c \in ComId :
      /\ \A req \in QuickReq : QuickRooms(c, req) \cap user_rooms[u] = {}
      /\ \A req \in SearchReq : SearchRooms(c, req) \cap user_rooms[u] = {}
=============================================================================
