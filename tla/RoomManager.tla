---------------------------- MODULE RoomManager -----------------------------
(***************************************************************************)
(* struct RoomManager of src/server/room_manager.rs with the commands of   *)
(* src/server/client/cmd_room.rs that change it.  Every command holds the  *)
(* room manager's write lock from its first check to its last write, so    *)
(* each one is one atomic action.                                          *)
(*                                                                         *)
(* A command that is refused without having written anything changes no    *)
(* variable and appears here only as the guard of its action.  A command   *)
(* that fails or panics after a write is an action of its own: parking_lot *)
(* locks are not poisoned, so what was written stays.                      *)
(***************************************************************************)
EXTENDS Room

CONSTANTS
    ComId,        \* communication ids (one per game)
    CreateReq,    \* the CreateRoom requests clients may send
    JoinReq,      \* the JoinRoom requests, room id apart
    SetReq,       \* the SetRoomDataInternal requests, room id apart
    MaxRooms,     \* bound: rooms ever created per com id
    Explored(_),  \* bound: the populations of rooms looked at
    MaxCounted    \* bound: members a group counts when a join panics

(* valid: the request's attributes decode (RoomUser::from_JoinRoomRequest).*)
JoinReqType == [label : Label \cup {None}, password : Password \cup {None},
                team_id : Team, valid : BOOLEAN]

ASSUME BoundAssumption == MaxRooms \in Nat
ASSUME RequestAssumption ==
    /\ CreateReq \subseteq CreateReqType
    /\ JoinReq \subseteq JoinReqType
    /\ SetReq \subseteq SetReqType

VARIABLES
    rooms,        \* (com_id, room_id) -> Room, for the rooms that exist
    room_cnt,     \* com_id -> last room id given out
    world_rooms,  \* com_id -> world_id -> room ids
    lobby_rooms,  \* com_id -> lobby_id -> room ids
    user_rooms    \* user_id -> (com_id, room_id)s

vars == <<rooms, room_cnt, world_rooms, lobby_rooms, user_rooms>>

Key == ComId \X Nat

Init ==
    /\ rooms = [k \in {} |-> None]
    /\ room_cnt = [c \in ComId |-> 0]
    /\ world_rooms = [c \in ComId |-> [w \in World |-> {}]]
    /\ lobby_rooms = [c \in ComId |-> [l \in Lobby |-> {}]]
    /\ user_rooms = [u \in UserId |-> {}]

-----------------------------------------------------------------------------
(* CreateRoom.                                                             *)

PutRoom(k, room) ==
    rooms' = [j \in DOMAIN rooms \cup {k} |-> IF j = k THEN room ELSE rooms[j]]

unfailing_create_room(c, id, room, u) ==
    /\ PutRoom(<<c, id>>, room)
    /\ user_rooms' = [user_rooms EXCEPT ![u] = @ \cup {<<c, id>>}]
    /\ IF room.lobby_id = 0
         THEN /\ world_rooms' = [world_rooms EXCEPT ![c][room.world_id] = @ \cup {id}]
              /\ UNCHANGED lobby_rooms
         ELSE /\ lobby_rooms' = [lobby_rooms EXCEPT ![c][room.lobby_id] = @ \cup {id}]
              /\ UNCHANGED world_rooms

create_room(u, c, req) ==
    /\ room_cnt[c] < MaxRooms
    /\ CreateAccepted(req)
    /\ room_cnt' = [room_cnt EXCEPT ![c] = @ + 1]
    /\ unfailing_create_room(c, room_cnt[c] + 1, CreatedRoom(req, u), u)

-----------------------------------------------------------------------------
(* JoinRoom.                                                               *)

(* Wrong: a member may join again.                                         *)
MayJoin_Twice(u, k) == k \in DOMAIN rooms /\ "FULL" \notin rooms[k].flag_attr

MayJoin(u, k) ==
    /\ k \in DOMAIN rooms
    /\ MembersOf(rooms[k], u) = {}
    /\ "FULL" \notin rooms[k].flag_attr

SetRoom(k, room) == rooms' = [rooms EXCEPT ![k] = room]

(* The notifications and signaling infos are built after the last write:   *)
(* if that panics (a star room whose hub has left), the join has happened. *)
join_room(u, k, req) ==
    LET d == get_a_slot(rooms[k], req.label, req.password)
    IN  /\ MayJoin(u, k)
        /\ d.res = "Ok"
        /\ req.valid
        /\ SetRoom(k, AddMember(rooms[k], d, u, req.team_id))
        /\ user_rooms' = [user_rooms EXCEPT ![u] = @ \cup {k}]
        /\ UNCHANGED <<room_cnt, world_rooms, lobby_rooms>>

(* The slot is claimed before the member's attributes are decoded: a join  *)
(* refused for its attributes keeps the slot, and a group its count.       *)
join_room_malformed(u, k, req) ==
    LET d == get_a_slot(rooms[k], req.label, req.password)
    IN  /\ MayJoin(u, k)
        /\ d.res = "Ok"
        /\ ~req.valid
        /\ SetRoom(k, ClaimSlot(rooms[k], d))
        /\ UNCHANGED <<room_cnt, world_rooms, lobby_rooms, user_rooms>>

(* req_specific_slots runs into unreachable!() with the joiner counted.    *)
join_room_panics(u, k, req) ==
    LET d == get_a_slot(rooms[k], req.label, req.password)
    IN  /\ MayJoin(u, k)
        /\ d.res = "panic"
        /\ rooms[k].group_config[d.group_id].num_members < MaxCounted
        /\ SetRoom(k, ClaimSlot(rooms[k], d))
        /\ UNCHANGED <<room_cnt, world_rooms, lobby_rooms, user_rooms>>

-----------------------------------------------------------------------------
(* LeaveRoom, also run for every room of a client that disconnects.        *)

(* Wrong: the room is looked for in its world's index only.                *)
DestroyRoom_WorldOnly(k) ==
    /\ rooms' = [j \in DOMAIN rooms \ {k} |-> rooms[j]]
    /\ world_rooms' = [world_rooms EXCEPT ![k[1]][rooms[k].world_id] = @ \ {k[2]}]
    /\ UNCHANGED lobby_rooms

DestroyRoom(k) ==
    /\ rooms' = [j \in DOMAIN rooms \ {k} |-> rooms[j]]
    /\ IF rooms[k].lobby_id = 0
         THEN /\ world_rooms' = [world_rooms EXCEPT ![k[1]][rooms[k].world_id] = @ \ {k[2]}]
              /\ UNCHANGED lobby_rooms
         ELSE /\ lobby_rooms' = [lobby_rooms EXCEPT ![k[1]][rooms[k].lobby_id] = @ \ {k[2]}]
              /\ UNCHANGED world_rooms

leave_room(u, k) ==
    /\ k \in DOMAIN rooms
    /\ k \in user_rooms[u]
    /\ \E x \in MembersOf(rooms[k], u) :
         LET room == RemoveMember(rooms[k], x)
         IN  \/ /\ x.member_id # rooms[k].owner
                /\ SetRoom(k, room)
                /\ UNCHANGED <<world_rooms, lobby_rooms>>
             \/ /\ x.member_id = rooms[k].owner
                /\ \E m \in Heirs(room) : SetRoom(k, Crown(room, m))
                /\ UNCHANGED <<world_rooms, lobby_rooms>>
             \/ /\ x.member_id = rooms[k].owner
                /\ Heirs(room) = {}
                /\ DestroyRoom(k)
    /\ user_rooms' = [user_rooms EXCEPT ![u] = @ \ {k}]
    /\ UNCHANGED room_cnt

-----------------------------------------------------------------------------
(* SetRoomDataInternal and SetRoomMemberDataInternal.                      *)

set_roomdata_internal(u, k, req) ==
    /\ k \in DOMAIN rooms
    /\ IsOwner(rooms[k], u)
    /\ SetRoom(k, OwnerUpdate(rooms[k], req))
    /\ UNCHANGED <<room_cnt, world_rooms, lobby_rooms, user_rooms>>

(* Members set their own team, the owner anybody's; team 0 means no change.*)
set_roommemberdata_internal(u, k, target, team) ==
    /\ k \in DOMAIN rooms
    /\ target \in rooms[k].users
    /\ target.user_id = u \/ IsOwner(rooms[k], u)
    /\ team # 0
    /\ SetRoom(k, [rooms[k] EXCEPT !.users =
                     InsertUser(@, [target EXCEPT !.team_id = team])])
    /\ UNCHANGED <<room_cnt, world_rooms, lobby_rooms, user_rooms>>

-----------------------------------------------------------------------------
Next ==
    /\ \E u \in UserId :
         \/ \E c \in ComId, req \in CreateReq : create_room(u, c, req)
         \/ \E k \in DOMAIN rooms :
              \/ \E req \in JoinReq : \/ join_room(u, k, req)
                                      \/ join_room_malformed(u, k, req)
                                      \/ join_room_panics(u, k, req)
              \/ leave_room(u, k)
              \/ \E req \in SetReq : set_roomdata_internal(u, k, req)
              \/ \E target \in rooms[k].users, team \in Team :
                   set_roommemberdata_internal(u, k, target, team)
    /\ Explored(rooms')

Spec == Init /\ [][Next]_vars
-----------------------------------------------------------------------------
(* Type invariant.                                                         *)
TypeOK ==
    /\ DOMAIN rooms \subseteq Key
    /\ \A k \in DOMAIN rooms : rooms[k] \in RoomType
    /\ room_cnt \in [ComId -> Nat]
    /\ world_rooms \in [ComId -> [World -> SUBSET Nat]]
    /\ lobby_rooms \in [ComId -> [Lobby -> SUBSET Nat]]
    /\ user_rooms \in [UserId -> SUBSET Key]

(* Every room has exactly one member flagged OWNER, and it is the member   *)
(* room.owner names: to_RoomDataExternal unwraps users.get(&owner), and    *)
(* the flag and the field are written in different places by create_room   *)
(* and leave_room.                                                         *)
OneOwner ==
    \A k \in DOMAIN rooms : HasOneOwner(rooms[k])

(* A member's id names an occupied slot of the room that no other member   *)
(* holds: occupy_slot asserts the slot free, leave_room unwraps free_slot, *)
(* and a second holder would be replaced in the users map.                 *)
MembersHoldSlots ==
    \A k \in DOMAIN rooms : SlotsHeld(rooms[k])

(* user_rooms lists for each user exactly the rooms that have them as a    *)
(* member, once: leave_room asserts that a listed user is found, and       *)
(* clean_user_state leaves only the rooms that are listed.                 *)
UserRoomsExact ==
    /\ \A u \in UserId : user_rooms[u] = {k \in DOMAIN rooms : u \in UserIds(rooms[k])}
    /\ \A k \in DOMAIN rooms : UsersDistinct(rooms[k])

InWorld(c, w, id) ==
    <<c, id>> \in DOMAIN rooms /\ rooms[<<c, id>>].lobby_id = 0
                              /\ rooms[<<c, id>>].world_id = w
InLobby(c, l, id) ==
    <<c, id>> \in DOMAIN rooms /\ rooms[<<c, id>>].lobby_id = l

(* The search indexes hold exactly the live rooms: a room with lobby_id 0  *)
(* under its world, any other one under its lobby (search_room unwraps     *)
(* what it finds there; leave_room removes a room from the same index that *)
(* create_room put it in).                                                 *)
IndexesExact ==
    \A c \in ComId :
      /\ \A w \in World :
           world_rooms[c][w] = {id \in 1..room_cnt[c] : InWorld(c, w, id)}
      /\ \A l \in Lobby :
           lobby_rooms[c][l] = {id \in 1..room_cnt[c] : InLobby(c, l, id)}

(* The FULL flag is up exactly while every slot has a member, whatever     *)
(* flags the owner asks for (CHANGELOG 1.8.3); a one-slot room never gets  *)
(* it, since only join_room sets it.                                       *)
FullFlagExact ==
    \A k \in DOMAIN rooms : FullFlagRight(rooms[k])

(* A member's group_id is 0 or a group of the room, as leave_room indexes  *)
(* group_config with it.  A group counts at least its members, so that     *)
(* taking one off the unsigned num_members does not wrap, unless the room  *)
(* has so many groups, empty ones included, that their numbers do not fit  *)
(* the u8 get_a_slot returns: then a departure is counted off a wrong one. *)
GroupCountsMembers ==
    \A k \in DOMAIN rooms : GroupsCounted(rooms[k])

(* A group counts at least its occupied slots, through refused joins and   *)
(* panics too, unless the room was created with an empty first group or    *)
(* with more groups than a u8 can number: a labelled group that is not     *)
(* full has a free slot, so that path of get_a_slot never reaches          *)
(* unreachable!().                                                         *)
GroupCountsSlots ==
    \A k \in DOMAIN rooms : SlotsCounted(rooms[k])

(* The inductive invariant behind the properties above: every room is well *)
(* formed, the indexes and user_rooms describe exactly the rooms, and no   *)
(* room has an id that create_room has yet to give out.                    *)
IInv ==
    /\ TypeOK
    /\ \A k \in DOMAIN rooms : WellFormed(rooms[k])
    /\ UserRoomsExact
    /\ IndexesExact
    /\ \A k \in DOMAIN rooms : k[2] \in 1..room_cnt[k[1]]

(* What GroupCountsSlots needs besides: members sit in their own groups.   *)
GroupsSeated == \A k \in DOMAIN rooms : Seated(rooms[k])

(* What follows for get_a_slot: a join of a labelled group is granted or   *)
(* refused and never panics.                                               *)
NamedJoinsNeverPanic ==
    \A k \in DOMAIN rooms : SeatsTracked(rooms[k]) =>
      \A g \in DOMAIN rooms[k].group_config : \A password \in Password \cup {None} :
        JoinNamedGroup(rooms[k], g, password).res # "panic"

(* The owner changes only when the owner leaves, in favour of the first    *)
(* member of the succession list still present, if there is one.           *)
SuccessionRespected ==
    [][\A k \in DOMAIN rooms \cap DOMAIN rooms' :
         rooms'[k].owner # rooms[k].owner =>
           LET stay == MemberIds(rooms[k]) \ {rooms[k].owner}
               ranks == rooms[k].owner_succession
           IN  /\ MemberIds(rooms'[k]) = stay
               /\ rooms'[k].owner \in stay
               /\ \A i \in DOMAIN ranks :
                    ranks[i] \in stay /\ (\A j \in 1..(i - 1) : ranks[j] \notin stay)
                      => rooms'[k].owner = ranks[i]]_vars

-----------------------------------------------------------------------------
(* Refinement: to a client the room manager is a set of rooms with members *)
(* and an owner; slots, groups, passwords and indexes are its own affair.  *)

OwnerUser(room) == CHOOSE u \in UserIds(room) : IsOwner(room, u)
View(room) == [members |-> UserIds(room), owner |-> OwnerUser(room),
               capacity |-> room.max_slot]

RoomKey == ComId \X (1..MaxRooms)
RoomViews == [k \in DOMAIN rooms |-> View(rooms[k])]
IdsIssued == {k \in RoomKey : k[2] <= room_cnt[k[1]]}

Service == INSTANCE RoomService WITH room <- RoomViews, issued <- IdsIssued

(* Every step of the room manager is a step of the room service or changes *)
(* nothing a client sees: joins respect the capacity, a leaving owner is   *)
(* replaced by a remaining member, a room lives until its last member has  *)
(* left, and an id is never issued twice.                                  *)
RefinesRoomService == Service!Spec

=============================================================================
