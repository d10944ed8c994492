-------------------------- MODULE RoomManagerProofs --------------------------
(***************************************************************************)
(* IInv is an inductive invariant of the room manager, for any number of   *)
(* users, rooms, slots and groups.  RoomProofs has the part of the         *)
(* argument that is about one room; here it is carried to the manager's    *)
(* maps.  The room manager then implements RoomService.                    *)
(***************************************************************************)
EXTENDS RoomManager, RoomProofs

-----------------------------------------------------------------------------
(* The maps of the manager.                                                *)

(* A command that replaces one room by a well-formed one in the same world *)
(* and lobby, with user_rooms following its members, keeps IInv.           *)
LEMMA UpdateRoom ==
    ASSUME IInv, NEW k \in DOMAIN rooms, NEW r, WellFormed(r), SetRoom(k, r),
           r.lobby_id = rooms[k].lobby_id, r.world_id = rooms[k].world_id,
           UNCHANGED <<room_cnt, world_rooms, lobby_rooms>>,
           user_rooms' \in [UserId -> SUBSET Key],
           \A v \in UserId : \A j \in Key :
             j \in user_rooms'[v] <=> IF j = k THEN v \in UserIds(r) ELSE j \in user_rooms[v]
    PROVE  IInv'
<1>1. /\ DOMAIN rooms' = DOMAIN rooms
      /\ \A j \in DOMAIN rooms : rooms'[j] = IF j = k THEN r ELSE rooms[j]
  BY DEF SetRoom
<1>2. \A j \in DOMAIN rooms' : WellFormed(rooms'[j])
  BY <1>1 DEF IInv
<1>3. TypeOK'
  BY <1>1, <1>2 DEF IInv, TypeOK, WellFormed
<1>4. UserRoomsExact'
  <2>1. ASSUME NEW v \in UserId
        PROVE  user_rooms'[v] = {j \in DOMAIN rooms' : v \in UserIds(rooms'[j])}
    <3>1. user_rooms'[v] \subseteq Key /\ user_rooms[v] \subseteq Key
          /\ DOMAIN rooms \subseteq Key
      BY DEF IInv, TypeOK
    <3>2. user_rooms[v] = {j \in DOMAIN rooms : v \in UserIds(rooms[j])}
      BY DEF IInv, UserRoomsExact
    <3> QED  BY <1>1, <3>1, <3>2
  <2>2. \A j \in DOMAIN rooms' : UsersDistinct(rooms'[j])
    BY <1>2 DEF WellFormed
  <2> QED  BY <2>1, <2>2 DEF UserRoomsExact
<1>5. IndexesExact'
  <2>1. \A c \in ComId : \A w, id : InWorld(c, w, id)' <=> InWorld(c, w, id)
    BY <1>1 DEF InWorld
  <2>2. \A c \in ComId : \A l, id : InLobby(c, l, id)' <=> InLobby(c, l, id)
    BY <1>1 DEF InLobby
  <2> QED  BY <2>1, <2>2 DEF IInv, IndexesExact
<1>6. \A j \in DOMAIN rooms' : j[2] \in 1..room_cnt'[j[1]]
  BY <1>1 DEF IInv
<1> QED  BY <1>2, <1>3, <1>4, <1>5, <1>6 DEF IInv

(* IInv holds initially.                                                   *)
LEMMA InitIInv ==
    Init => IInv
<1> SUFFICES ASSUME Init PROVE IInv
  OBVIOUS
<1>1. DOMAIN rooms = {}
  BY DEF Init
<1>2. TypeOK
  BY <1>1 DEF Init, TypeOK
<1>3. UserRoomsExact
  BY <1>1 DEF Init, UserRoomsExact
<1>4. IndexesExact
  BY <1>1 DEF Init, IndexesExact, InWorld, InLobby
<1> QED  BY <1>1, <1>2, <1>3, <1>4 DEF IInv

(* Index g is index f with entry [c][w] set to S.                          *)
Reindexed(C, W, f, c, w, S, g) ==
    /\ g \in [C -> [W -> SUBSET Nat]]
    /\ \A b \in C, v \in W : g[b][v] = IF b = c /\ v = w THEN S ELSE f[b][v]

(* Replacing one entry of an index.                                        *)
LEMMA SetIndex ==
    ASSUME NEW C, NEW W, NEW f \in [C -> [W -> SUBSET Nat]],
           NEW c \in C, NEW w \in W, NEW S \in SUBSET Nat
    PROVE  Reindexed(C, W, f, c, w, S, [f EXCEPT ![c][w] = S])
<1> DEFINE h == [f[c] EXCEPT ![w] = S]
           g == [f EXCEPT ![c] = h]
<1>1. f[c] \in [W -> SUBSET Nat]
  OBVIOUS
<1>2. h \in [W -> SUBSET Nat] /\ \A v \in W : h[v] = IF v = w THEN S ELSE f[c][v]
  BY <1>1
<1> HIDE DEF h
<1>3. /\ g \in [C -> [W -> SUBSET Nat]]
      /\ \A b \in C : g[b] = IF b = c THEN h ELSE f[b]
  BY <1>2
<1>4. [f EXCEPT ![c][w] = S] = g
  BY DEF h
<1> HIDE DEF g
<1>5. \A b \in C, v \in W : g[b][v] = IF b = c /\ v = w THEN S ELSE f[b][v]
  BY <1>2, <1>3
<1> QED  BY <1>3, <1>4, <1>5 DEF Reindexed

(* CreateRoom keeps IInv: the new id is above every id in use.             *)
LEMMA CreateKeepsIInv ==
    ASSUME IInv, NEW u \in UserId, NEW c \in ComId, NEW req \in CreateReq,
           create_room(u, c, req)
    PROVE  IInv'
<1>0. PICK n \in Nat : n = room_cnt[c] + 1
  BY DEF IInv, TypeOK
<1> DEFINE k == <<c, n>>
           r == CreatedRoom(req, u)
<1>1. req \in CreateReqType /\ CreateAccepted(req)
  BY RequestAssumption DEF create_room
<1>2. /\ WellFormed(r) /\ UserIds(r) = {u}
      /\ r.lobby_id = req.lobby_id /\ r.world_id = req.world_id
  BY <1>1, CreatedRoomWellFormed
<1>3. /\ room_cnt \in [ComId -> Nat] /\ room_cnt[c] \in Nat /\ n \in Nat
      /\ room_cnt' = [room_cnt EXCEPT ![c] = n]
      /\ DOMAIN rooms \subseteq Key /\ k \in Key
  BY <1>0 DEF IInv, TypeOK, create_room, Key
<1>4. k \notin DOMAIN rooms
  BY <1>0, <1>3 DEF IInv
<1> HIDE DEF r
<1>5. /\ DOMAIN rooms' = DOMAIN rooms \cup {k}
      /\ rooms'[k] = r
      /\ \A j \in DOMAIN rooms : rooms'[j] = rooms[j]
  BY <1>0, <1>4 DEF create_room, unfailing_create_room, PutRoom, r
<1>6. /\ user_rooms \in [UserId -> SUBSET Key]
      /\ user_rooms' = [user_rooms EXCEPT ![u] = @ \cup {k}]
  BY <1>0 DEF IInv, TypeOK, create_room, unfailing_create_room
<1>7. r \in RoomType /\ r.world_id \in World /\ r.lobby_id \in Lobby \cup {0}
  BY <1>2, RoomFields, SMTT(30) DEF WellFormed
<1>8. /\ world_rooms \in [ComId -> [World -> SUBSET Nat]]
      /\ lobby_rooms \in [ComId -> [Lobby -> SUBSET Nat]]
      /\ r.lobby_id = 0 =>
           /\ world_rooms' = [world_rooms EXCEPT ![c][r.world_id] = @ \cup {n}]
           /\ lobby_rooms' = lobby_rooms
      /\ r.lobby_id # 0 =>
           /\ lobby_rooms' = [lobby_rooms EXCEPT ![c][r.lobby_id] = @ \cup {n}]
           /\ world_rooms' = world_rooms
  BY <1>0 DEF IInv, TypeOK, create_room, unfailing_create_room, r
<1>9. \A j \in DOMAIN rooms' : WellFormed(rooms'[j])
  BY <1>2, <1>5 DEF IInv
<1>10. /\ world_rooms' \in [ComId -> [World -> SUBSET Nat]]
       /\ \A b \in ComId, w \in World : world_rooms'[b][w] =
            IF b = c /\ r.lobby_id = 0 /\ w = r.world_id
              THEN world_rooms[b][w] \cup {n} ELSE world_rooms[b][w]
  <2>1. CASE r.lobby_id = 0
    <3>1. world_rooms[c][r.world_id] \cup {n} \in SUBSET Nat
      BY <1>7, <1>8
    <3>2. Reindexed(ComId, World, world_rooms, c, r.world_id,
                    world_rooms[c][r.world_id] \cup {n}, world_rooms')
      <4> DEFINE w == r.world_id
                 S == world_rooms[c][w] \cup {n}
      <4>1. w \in World /\ S \in SUBSET Nat /\ world_rooms' = [world_rooms EXCEPT ![c][w] = S]
        BY <1>7, <1>8, <2>1, <3>1
      <4> HIDE DEF w, S
      <4>2. Reindexed(ComId, World, world_rooms, c, w, S, world_rooms')
        BY <1>8, <4>1, SetIndex, Zenon
      <4> QED  BY <4>2 DEF w, S
    <3> QED  BY <2>1, <3>2, ZenonT(30) DEF Reindexed
  <2>2. CASE r.lobby_id # 0
    BY <1>8, <2>2
  <2> QED  BY <2>1, <2>2, Zenon
<1>11. /\ lobby_rooms' \in [ComId -> [Lobby -> SUBSET Nat]]
       /\ \A b \in ComId, l \in Lobby : lobby_rooms'[b][l] =
            IF b = c /\ l = r.lobby_id
              THEN lobby_rooms[b][l] \cup {n} ELSE lobby_rooms[b][l]
  <2>1. CASE r.lobby_id # 0
    <3>1. r.lobby_id \in Lobby
      BY <1>7, <2>1
    <3>2. lobby_rooms[c][r.lobby_id] \cup {n} \in SUBSET Nat
      BY <1>8, <3>1
    <3>3. Reindexed(ComId, Lobby, lobby_rooms, c, r.lobby_id,
                    lobby_rooms[c][r.lobby_id] \cup {n}, lobby_rooms')
      <4> DEFINE l == r.lobby_id
                 S == lobby_rooms[c][l] \cup {n}
      <4>1. l \in Lobby /\ S \in SUBSET Nat /\ lobby_rooms' = [lobby_rooms EXCEPT ![c][l] = S]
        BY <1>8, <2>1, <3>1, <3>2
      <4> HIDE DEF l, S
      <4>2. Reindexed(ComId, Lobby, lobby_rooms, c, l, S, lobby_rooms')
        BY <1>8, <4>1, SetIndex, ZenonT(30)
      <4> QED  BY <4>2 DEF l, S
    <3> QED  BY <3>3, Zenon DEF Reindexed
  <2>2. CASE r.lobby_id = 0
    BY <1>8, <2>2, LobbyAssumption
  <2> QED  BY <2>1, <2>2, Zenon
<1>12. TypeOK'
  BY <1>3, <1>5, <1>6, <1>9, <1>10, <1>11, ZenonT(30) DEF TypeOK, WellFormed
<1>13. UserRoomsExact'
  <2>1. \A v \in UserId : user_rooms[v] = {j \in DOMAIN rooms : v \in UserIds(rooms[j])}
    BY DEF IInv, UserRoomsExact
  <2>2. ASSUME NEW v \in UserId
        PROVE  user_rooms'[v] = {j \in DOMAIN rooms' : v \in UserIds(rooms'[j])}
    BY <1>2, <1>4, <1>5, <1>6, <2>1, ZenonT(30)
  <2>3. \A j \in DOMAIN rooms' : UsersDistinct(rooms'[j])
    BY <1>9 DEF WellFormed
  <2> QED  BY <2>2, <2>3 DEF UserRoomsExact
<1>14. IndexesExact'
  <2>1. \A b \in ComId : \A id \in 1..room_cnt'[b] :
          id \in 1..room_cnt[b] \/ (b = c /\ id = n)
    BY <1>0, <1>3
  <2>2. \A b \in ComId : \A id \in 1..room_cnt[b] : <<b, id>> # k /\ id \in 1..room_cnt'[b]
    BY <1>0, <1>3
  <2>3. n \in 1..room_cnt'[c]
    BY <1>0, <1>3
  <2>4. ASSUME NEW b \in ComId, NEW w \in World
        PROVE  world_rooms'[b][w] = {id \in 1..room_cnt'[b] : InWorld(b, w, id)'}
    <3>1. world_rooms[b][w] = {id \in 1..room_cnt[b] : InWorld(b, w, id)}
      BY DEF IInv, IndexesExact
    <3>2. \A id \in 1..room_cnt[b] : InWorld(b, w, id)' <=> InWorld(b, w, id)
      BY <1>5, <2>2 DEF InWorld
    <3>3. InWorld(c, w, n)' <=> r.lobby_id = 0 /\ r.world_id = w
      BY <1>5 DEF InWorld
    <3>4. CASE b = c
      <4>1. {id \in 1..room_cnt'[c] : InWorld(c, w, id)'}
              = {id \in 1..room_cnt[c] : InWorld(c, w, id)}
                  \cup {id \in {n} : InWorld(c, w, id)'}
        BY <2>1, <2>2, <2>3, <3>2, <3>4, ZenonT(30)
      <4>2. CASE r.lobby_id = 0 /\ r.world_id = w
        <5>1. {id \in {n} : InWorld(c, w, id)'} = {n}
          BY <3>3, <4>2
        <5>2. world_rooms'[c][w] = world_rooms[c][w] \cup {n}
          BY <1>10, <4>2, Zenon
        <5> QED  BY <3>1, <3>4, <4>1, <5>1, <5>2, ZenonT(30)
      <4>3. CASE ~(r.lobby_id = 0 /\ r.world_id = w)
        <5>1. {id \in {n} : InWorld(c, w, id)'} = {}
          BY <3>3, <4>3
        <5>2. world_rooms'[c][w] = world_rooms[c][w]
          BY <1>10, <4>3, Zenon
        <5> QED  BY <3>1, <3>4, <4>1, <5>1, <5>2, ZenonT(30)
      <4> QED  BY <4>2, <4>3
    <3>5. CASE b # c
      BY <1>10, <2>1, <2>2, <3>1, <3>2, <3>5, ZenonT(30)
    <3> QED  BY <3>4, <3>5
  <2>5. ASSUME NEW b \in ComId, NEW l \in Lobby
        PROVE  lobby_rooms'[b][l] = {id \in 1..room_cnt'[b] : InLobby(b, l, id)'}
    <3>1. lobby_rooms[b][l] = {id \in 1..room_cnt[b] : InLobby(b, l, id)}
      BY DEF IInv, IndexesExact
    <3>2. \A id \in 1..room_cnt[b] : InLobby(b, l, id)' <=> InLobby(b, l, id)
      BY <1>5, <2>2 DEF InLobby
    <3>3. InLobby(c, l, n)' <=> r.lobby_id = l
      BY <1>5 DEF InLobby
    <3>4. CASE b = c
      <4>1. {id \in 1..room_cnt'[c] : InLobby(c, l, id)'}
              = {id \in 1..room_cnt[c] : InLobby(c, l, id)}
                  \cup {id \in {n} : InLobby(c, l, id)'}
        BY <2>1, <2>2, <2>3, <3>2, <3>4
      <4>2. CASE r.lobby_id = l
        <5>1. {id \in {n} : InLobby(c, l, id)'} = {n}
          BY <3>3, <4>2
        <5>2. lobby_rooms'[c][l] = lobby_rooms[c][l] \cup {n}
          BY <1>11, <4>2, ZenonT(30)
        <5> QED  BY <3>1, <3>4, <4>1, <5>1, <5>2
      <4>3. CASE ~(r.lobby_id = l)
        <5>1. {id \in {n} : InLobby(c, l, id)'} = {}
          BY <3>3, <4>3
        <5>2. lobby_rooms'[c][l] = lobby_rooms[c][l]
          BY <1>11, <4>3, Zenon
        <5> QED  BY <3>1, <3>4, <4>1, <5>1, <5>2
      <4> QED  BY <4>2, <4>3, ZenonT(30)
    <3>5. CASE b # c
      BY <1>11, <2>1, <2>2, <3>1, <3>2, <3>5, ZenonT(30)
    <3> QED  BY <3>4, <3>5
  <2> QED  BY <2>4, <2>5 DEF IndexesExact
<1>15. \A j \in DOMAIN rooms' : j[2] \in 1..room_cnt'[j[1]]
  <2>1. ASSUME NEW j \in DOMAIN rooms  PROVE j[2] \in 1..room_cnt'[j[1]]
    <3>1. j[1] \in ComId /\ j[2] \in 1..room_cnt[j[1]]
      BY <1>3 DEF IInv, Key
    <3> QED  BY <1>0, <1>3, <3>1
  <2>2. k[2] \in 1..room_cnt'[k[1]]
    BY <1>0, <1>3
  <2> QED  BY <1>5, <2>1, <2>2
<1> QED  BY <1>9, <1>12, <1>13, <1>14, <1>15, ZenonT(30) DEF IInv

(* JoinRoom keeps IInv, also when it fails after get_a_slot.               *)
LEMMA JoinKeepsIInv ==
    ASSUME IInv, NEW u \in UserId, NEW k \in DOMAIN rooms, NEW req \in JoinReq,
           \/ join_room(u, k, req)
           \/ join_room_malformed(u, k, req)
           \/ join_room_panics(u, k, req)
    PROVE  IInv'
<1> DEFINE room == rooms[k]
           d == get_a_slot(room, req.label, req.password)
<1>1. WellFormed(room) /\ room \in RoomType
  BY DEF IInv, WellFormed
<1>2. req.label \in Label \cup {None} /\ req.password \in Password \cup {None}
      /\ req.team_id \in Team
  BY RequestAssumption DEF JoinReqType
<1>3. Decision(room, d)
  BY <1>1, <1>2, get_a_slotDecides
<1>4. /\ user_rooms \in [UserId -> SUBSET Key] /\ k \in Key
      /\ \A v \in UserId : k \in user_rooms[v] <=> v \in UserIds(room)
  BY DEF IInv, TypeOK, UserRoomsExact
<1>5. CASE join_room(u, k, req)
  <2> DEFINE r == AddMember(room, d, u, req.team_id)
  <2>1. /\ MembersOf(room, u) = {} /\ "FULL" \notin room.flag_attr /\ d.res = "Ok"
        /\ SetRoom(k, r) /\ user_rooms' = [user_rooms EXCEPT ![u] = @ \cup {k}]
        /\ UNCHANGED <<room_cnt, world_rooms, lobby_rooms>>
    BY <1>5 DEF join_room, MayJoin
  <2> HIDE DEF d
  <2>2. /\ WellFormed(r) /\ UserIds(r) = UserIds(room) \cup {u}
        /\ r.lobby_id = room.lobby_id /\ r.world_id = room.world_id
    BY <1>1, <1>2, <1>3, <2>1, AddMemberWellFormed, SMTT(30)
  <2> HIDE DEF r
  <2>3. /\ user_rooms' \in [UserId -> SUBSET Key]
        /\ \A v \in UserId : \A j \in Key :
             j \in user_rooms'[v] <=> IF j = k THEN v \in UserIds(r) ELSE j \in user_rooms[v]
    BY <1>4, <2>1, <2>2
  <2> QED  BY <2>1, <2>2, <2>3, UpdateRoom, ZenonT(30)
<1>6. CASE join_room_malformed(u, k, req) \/ join_room_panics(u, k, req)
  <2> DEFINE r == ClaimSlot(room, d)
  <2>1. SetRoom(k, r) /\ UNCHANGED <<room_cnt, world_rooms, lobby_rooms, user_rooms>>
    BY <1>6 DEF join_room_malformed, join_room_panics
  <2> HIDE DEF d
  <2>2. /\ WellFormed(r) /\ UserIds(r) = UserIds(room)
        /\ r.lobby_id = room.lobby_id /\ r.world_id = room.world_id
    BY <1>1, <1>3, ClaimSlotWellFormed DEF UserIds
  <2> HIDE DEF r
  <2>3. /\ user_rooms' \in [UserId -> SUBSET Key]
        /\ \A v \in UserId : \A j \in Key :
             j \in user_rooms'[v] <=> IF j = k THEN v \in UserIds(r) ELSE j \in user_rooms[v]
    BY <1>4, <2>1, <2>2, ZenonT(30)
  <2> QED  BY <2>1, <2>2, <2>3, UpdateRoom, ZenonT(30)
<1> QED  BY <1>5, <1>6

(* The last member's departure removes the room from the index that        *)
(* create_room put it in.                                                  *)
LEMMA DestroyKeepsIInv ==
    ASSUME IInv, NEW k \in DOMAIN rooms, NEW u \in UserId, UserIds(rooms[k]) = {u},
           DestroyRoom(k), user_rooms' = [user_rooms EXCEPT ![u] = @ \ {k}],
           UNCHANGED room_cnt
    PROVE  IInv'
<1>0. PICK c \in ComId, n \in Nat : k = <<c, n>>
  BY DEF IInv, TypeOK, Key
<1> DEFINE room == rooms[k]
<1>1. /\ DOMAIN rooms' = DOMAIN rooms \ {k}
      /\ \A j \in DOMAIN rooms' : rooms'[j] = rooms[j]
      /\ DOMAIN rooms \subseteq Key
      /\ user_rooms \in [UserId -> SUBSET Key]
      /\ room_cnt \in [ComId -> Nat] /\ room_cnt' = room_cnt
  BY DEF DestroyRoom, IInv, TypeOK
<1>2. WellFormed(room)
  BY DEF IInv
<1>3. room.world_id \in World /\ room.lobby_id \in Lobby \cup {0}
  BY <1>2, RoomFields DEF WellFormed
<1>4. /\ world_rooms \in [ComId -> [World -> SUBSET Nat]]
      /\ lobby_rooms \in [ComId -> [Lobby -> SUBSET Nat]]
      /\ room.lobby_id = 0 =>
           /\ world_rooms' = [world_rooms EXCEPT ![c][room.world_id] = @ \ {n}]
           /\ lobby_rooms' = lobby_rooms
      /\ room.lobby_id # 0 =>
           /\ lobby_rooms' = [lobby_rooms EXCEPT ![c][room.lobby_id] = @ \ {n}]
           /\ world_rooms' = world_rooms
  BY <1>0, Zenon DEF DestroyRoom, IInv, TypeOK
<1> HIDE DEF room
<1>5. /\ world_rooms' \in [ComId -> [World -> SUBSET Nat]]
      /\ \A b \in ComId, w \in World : world_rooms'[b][w] =
           IF b = c /\ room.lobby_id = 0 /\ w = room.world_id
             THEN world_rooms[b][w] \ {n} ELSE world_rooms[b][w]
  <2>1. CASE room.lobby_id = 0
    <3> DEFINE w == room.world_id
               S == world_rooms[c][w] \ {n}
    <3>1. w \in World /\ S \in SUBSET Nat /\ world_rooms' = [world_rooms EXCEPT ![c][w] = S]
      BY <1>3, <1>4, <2>1
    <3> HIDE DEF w, S
    <3>2. Reindexed(ComId, World, world_rooms, c, w, S, world_rooms')
      BY <1>4, <3>1, SetIndex, ZenonT(30)
    <3> QED  BY <2>1, <3>2, ZenonT(30) DEF Reindexed, w, S
  <2>2. CASE room.lobby_id # 0
    BY <1>4, <2>2
  <2> QED  BY <2>1, <2>2, Zenon
<1>6. /\ lobby_rooms' \in [ComId -> [Lobby -> SUBSET Nat]]
      /\ \A b \in ComId, l \in Lobby : lobby_rooms'[b][l] =
           IF b = c /\ l = room.lobby_id
             THEN lobby_rooms[b][l] \ {n} ELSE lobby_rooms[b][l]
  <2>1. CASE room.lobby_id # 0
    <3> DEFINE l == room.lobby_id
               S == lobby_rooms[c][l] \ {n}
    <3>1. l \in Lobby /\ S \in SUBSET Nat /\ lobby_rooms' = [lobby_rooms EXCEPT ![c][l] = S]
      BY <1>3, <1>4, <2>1
    <3> HIDE DEF l, S
    <3>2. Reindexed(ComId, Lobby, lobby_rooms, c, l, S, lobby_rooms')
      BY <1>4, <3>1, SetIndex, ZenonT(30)
    <3> QED  BY <3>2, ZenonT(30) DEF Reindexed, l, S
  <2>2. CASE room.lobby_id = 0
    BY <1>4, <2>2, LobbyAssumption
  <2> QED  BY <2>1, <2>2, Zenon
<1>7. \A j \in DOMAIN rooms' : WellFormed(rooms'[j]) /\ j[2] \in 1..room_cnt'[j[1]]
  BY <1>1 DEF IInv
<1>8. TypeOK'
  BY <1>1, <1>5, <1>6, <1>7, ZenonT(30) DEF TypeOK, WellFormed
<1>9. UserRoomsExact'
  <2>1. \A v \in UserId : user_rooms[v] = {j \in DOMAIN rooms : v \in UserIds(rooms[j])}
    BY DEF IInv, UserRoomsExact
  <2>2. ASSUME NEW v \in UserId
        PROVE  user_rooms'[v] = {j \in DOMAIN rooms' : v \in UserIds(rooms'[j])}
    <3>1. CASE v = u
      BY <1>1, <2>1, <3>1, ZenonT(30)
    <3>2. CASE v # u
      <4>1. k \notin user_rooms[v]
        BY <2>1, <3>2
      <4> QED  BY <1>1, <2>1, <3>2, <4>1, ZenonT(30)
    <3> QED  BY <3>1, <3>2
  <2>3. \A j \in DOMAIN rooms' : UsersDistinct(rooms'[j])
    BY <1>7 DEF WellFormed
  <2> QED  BY <2>2, <2>3 DEF UserRoomsExact
<1>10. IndexesExact'
  <2>1. ASSUME NEW b \in ComId, NEW w \in World
        PROVE  world_rooms'[b][w] = {id \in 1..room_cnt'[b] : InWorld(b, w, id)'}
    <3>1. world_rooms[b][w] = {id \in 1..room_cnt[b] : InWorld(b, w, id)}
      BY DEF IInv, IndexesExact
    <3>2. \A id : <<b, id>> # k => (InWorld(b, w, id)' <=> InWorld(b, w, id))
      BY <1>1 DEF InWorld
    <3>3. ~InWorld(c, w, n)' /\ (InWorld(c, w, n) <=> room.lobby_id = 0 /\ room.world_id = w)
      BY <1>0, <1>1, ZenonT(30) DEF InWorld, room
    <3>4. CASE b = c
      <4>1. {id \in 1..room_cnt'[c] : InWorld(c, w, id)'}
              = {id \in 1..room_cnt[c] : InWorld(c, w, id)} \ {n}
        BY <1>0, <1>1, <3>2, <3>3, <3>4, ZenonT(30)
      <4>2. world_rooms'[c][w] = world_rooms[c][w] \ {n}
        BY <1>5, <3>1, <3>3, <3>4, ZenonT(30)
      <4> QED  BY <3>1, <3>4, <4>1, <4>2, ZenonT(30)
    <3>5. CASE b # c
      <4>1. \A id : InWorld(b, w, id)' <=> InWorld(b, w, id)
        BY <1>0, <3>2, <3>5, ZenonT(30)
      <4> QED  BY <1>1, <1>5, <3>1, <3>5, <4>1, ZenonT(30)
    <3> QED  BY <3>4, <3>5, ZenonT(30)
  <2>2. ASSUME NEW b \in ComId, NEW l \in Lobby
        PROVE  lobby_rooms'[b][l] = {id \in 1..room_cnt'[b] : InLobby(b, l, id)'}
    <3>1. lobby_rooms[b][l] = {id \in 1..room_cnt[b] : InLobby(b, l, id)}
      BY DEF IInv, IndexesExact
    <3>2. \A id : <<b, id>> # k => (InLobby(b, l, id)' <=> InLobby(b, l, id))
      BY <1>1 DEF InLobby
    <3>3. ~InLobby(c, l, n)' /\ (InLobby(c, l, n) <=> room.lobby_id = l)
      BY <1>0, <1>1, ZenonT(30) DEF InLobby, room
    <3>4. CASE b = c
      <4>1. {id \in 1..room_cnt'[c] : InLobby(c, l, id)'}
              = {id \in 1..room_cnt[c] : InLobby(c, l, id)} \ {n}
        BY <1>0, <1>1, <3>2, <3>3, <3>4, ZenonT(30)
      <4>2. lobby_rooms'[c][l] = lobby_rooms[c][l] \ {n}
        BY <1>6, <3>1, <3>3, <3>4, Zenon
      <4> QED  BY <3>1, <3>4, <4>1, <4>2
    <3>5. CASE b # c
      <4>1. \A id : InLobby(b, l, id)' <=> InLobby(b, l, id)
        BY <1>0, <3>2, <3>5
      <4> QED  BY <1>1, <1>6, <3>1, <3>5, <4>1, ZenonT(30)
    <3> QED  BY <3>4, <3>5
  <2> QED  BY <2>1, <2>2 DEF IndexesExact
<1> QED  BY <1>7, <1>8, <1>9, <1>10, ZenonT(30) DEF IInv

(* LeaveRoom keeps IInv.                                                   *)
LEMMA LeaveKeepsIInv ==
    ASSUME IInv, NEW u \in UserId, NEW k \in DOMAIN rooms, leave_room(u, k)
    PROVE  IInv'
<1>1. WellFormed(rooms[k])
  BY DEF IInv
<1>2. PICK x \in MembersOf(rooms[k], u) :
        \/ /\ x.member_id # rooms[k].owner
           /\ SetRoom(k, RemoveMember(rooms[k], x))
           /\ UNCHANGED <<world_rooms, lobby_rooms>>
        \/ /\ x.member_id = rooms[k].owner
           /\ \E m \in Heirs(RemoveMember(rooms[k], x)) :
                SetRoom(k, Crown(RemoveMember(rooms[k], x), m))
           /\ UNCHANGED <<world_rooms, lobby_rooms>>
        \/ /\ x.member_id = rooms[k].owner
           /\ Heirs(RemoveMember(rooms[k], x)) = {}
           /\ DestroyRoom(k)
  BY DEF leave_room
<1>3. x \in rooms[k].users /\ x.user_id = u
  BY ZenonT(30) DEF MembersOf
<1>4. /\ user_rooms' = [user_rooms EXCEPT ![u] = @ \ {k}] /\ UNCHANGED room_cnt
      /\ user_rooms \in [UserId -> SUBSET Key] /\ k \in Key
      /\ \A v \in UserId : k \in user_rooms[v] <=> v \in UserIds(rooms[k])
  BY DEF leave_room, IInv, TypeOK, UserRoomsExact
<1>5. ASSUME NEW r, UserIds(r) = UserIds(rooms[k]) \ {u}
      PROVE  /\ user_rooms' \in [UserId -> SUBSET Key]
             /\ \A v \in UserId : \A j \in Key :
                  j \in user_rooms'[v] <=> IF j = k THEN v \in UserIds(r) ELSE j \in user_rooms[v]
  BY <1>4, <1>5, ZenonT(30)
<1>6. CASE /\ x.member_id # rooms[k].owner
           /\ SetRoom(k, RemoveMember(rooms[k], x))
           /\ UNCHANGED <<world_rooms, lobby_rooms>>
  <2> DEFINE r == RemoveMember(rooms[k], x)
  <2>1. /\ WellFormed(r) /\ UserIds(r) = UserIds(rooms[k]) \ {u}
        /\ r.lobby_id = rooms[k].lobby_id /\ r.world_id = rooms[k].world_id
    BY <1>1, <1>3, <1>6, RemoveMemberWellFormed, ZenonT(30)
  <2>2. SetRoom(k, r)
    BY <1>6, ZenonT(30)
  <2> HIDE DEF r
  <2> QED  BY <1>4, <1>5, <1>6, <2>1, <2>2, UpdateRoom, ZenonT(30)
<1>7. CASE /\ x.member_id = rooms[k].owner
           /\ \E m \in Heirs(RemoveMember(rooms[k], x)) :
                SetRoom(k, Crown(RemoveMember(rooms[k], x), m))
           /\ UNCHANGED <<world_rooms, lobby_rooms>>
  <2>1. PICK m \in Heirs(RemoveMember(rooms[k], x)) :
               SetRoom(k, Crown(RemoveMember(rooms[k], x), m))
    BY <1>7, ZenonT(30)
  <2> DEFINE r == Crown(RemoveMember(rooms[k], x), m)
  <2>2. /\ WellFormed(r) /\ UserIds(r) = UserIds(rooms[k]) \ {u}
        /\ r.lobby_id = rooms[k].lobby_id /\ r.world_id = rooms[k].world_id
    BY <1>1, <1>3, <1>7, OwnerLeavesWellFormed, SMTT(30)
  <2>3. SetRoom(k, r)
    BY <2>1
  <2> HIDE DEF r
  <2> QED  BY <1>4, <1>5, <1>7, <2>2, <2>3, UpdateRoom, ZenonT(30)
<1>8. CASE /\ Heirs(RemoveMember(rooms[k], x)) = {}
           /\ DestroyRoom(k)
  <2>1. rooms[k].users = {x}
    BY <1>1, <1>3, <1>8, NoHeirs, ZenonT(30)
  <2>2. UserIds(rooms[k]) = {u}
    BY <1>3, <2>1, ZenonT(30) DEF UserIds
  <2> QED  BY <1>4, <1>8, <2>2, DestroyKeepsIInv, Zenon
<1> QED  BY <1>2, <1>6, <1>7, <1>8, ZenonT(30)

(* The two Set commands keep IInv.                                         *)
LEMMA SetKeepsIInv ==
    ASSUME IInv, NEW u \in UserId, NEW k \in DOMAIN rooms,
           \/ \E req \in SetReq : set_roomdata_internal(u, k, req)
           \/ \E target \in rooms[k].users, team \in Team :
                set_roommemberdata_internal(u, k, target, team)
    PROVE  IInv'
<1>1. WellFormed(rooms[k]) /\ rooms[k] \in RoomType
  BY DEF IInv, WellFormed
<1>2. /\ user_rooms \in [UserId -> SUBSET Key] /\ k \in Key
      /\ \A v \in UserId : k \in user_rooms[v] <=> v \in UserIds(rooms[k])
  BY DEF IInv, TypeOK, UserRoomsExact
<1>3. SUFFICES \E r : /\ WellFormed(r) /\ UserIds(r) = UserIds(rooms[k])
                      /\ r.lobby_id = rooms[k].lobby_id
                      /\ r.world_id = rooms[k].world_id
                      /\ SetRoom(k, r)
                      /\ UNCHANGED <<room_cnt, world_rooms, lobby_rooms, user_rooms>>
  <2>1. PICK r : /\ WellFormed(r) /\ UserIds(r) = UserIds(rooms[k])
                 /\ r.lobby_id = rooms[k].lobby_id
                 /\ r.world_id = rooms[k].world_id
                 /\ SetRoom(k, r)
                 /\ UNCHANGED <<room_cnt, world_rooms, lobby_rooms, user_rooms>>
    BY <1>3, ZenonT(30)
  <2>2. /\ user_rooms' \in [UserId -> SUBSET Key]
        /\ \A v \in UserId : \A j \in Key :
             j \in user_rooms'[v] <=> IF j = k THEN v \in UserIds(r) ELSE j \in user_rooms[v]
    BY <1>2, <2>1, ZenonT(30)
  <2> QED  BY <2>1, <2>2, UpdateRoom, ZenonT(30)
<1>4. CASE \E req \in SetReq : set_roomdata_internal(u, k, req)
  <2>1. PICK req \in SetReq : set_roomdata_internal(u, k, req)
    BY <1>4
  <2> DEFINE r == OwnerUpdate(rooms[k], req)
  <2>2. Inert(rooms[k], r)
    BY <1>1, OwnerUpdateInert, RequestAssumption, ZenonT(30)
  <2>3. SetRoom(k, r) /\ UNCHANGED <<room_cnt, world_rooms, lobby_rooms, user_rooms>>
    BY <2>1 DEF set_roomdata_internal
  <2> HIDE DEF r
  <2>4. WellFormed(r)
    BY <1>1, <2>2, InertWellFormed, ZenonT(30)
  <2>5. UserIds(r) = UserIds(rooms[k]) /\ r.lobby_id = rooms[k].lobby_id
        /\ r.world_id = rooms[k].world_id
    BY <2>2, ZenonT(30) DEF Inert, UserIds
  <2> QED  BY <2>3, <2>4, <2>5
<1>5. CASE \E target \in rooms[k].users, team \in Team :
             set_roommemberdata_internal(u, k, target, team)
  <2>1. PICK y \in rooms[k].users, team \in Team : set_roommemberdata_internal(u, k, y, team)
    BY <1>5
  <2> DEFINE r == [rooms[k] EXCEPT !.users =
                     InsertUser(rooms[k].users, [y EXCEPT !.team_id = team])]
  <2>2. /\ WellFormed(r) /\ UserIds(r) = UserIds(rooms[k])
        /\ r.lobby_id = rooms[k].lobby_id /\ r.world_id = rooms[k].world_id
    BY <1>1, ChangeTeamWellFormed
  <2>3. SetRoom(k, r) /\ UNCHANGED <<room_cnt, world_rooms, lobby_rooms, user_rooms>>
    BY <2>1 DEF set_roommemberdata_internal
  <2> HIDE DEF r
  <2> QED  BY <2>2, <2>3
<1> QED  BY <1>4, <1>5, ZenonT(30)

(* IInv is inductive.                                                      *)
LEMMA NextKeepsIInv ==
    IInv /\ [Next]_vars => IInv'
<1> SUFFICES ASSUME IInv, [Next]_vars PROVE IInv'
  OBVIOUS
<1>1. CASE UNCHANGED vars
  BY <1>1, SMTT(30) DEF vars, IInv, TypeOK, UserRoomsExact, IndexesExact, InWorld, InLobby
<1>2. CASE Next
  <2>1. PICK u \in UserId :
          \/ \E c \in ComId, req \in CreateReq : create_room(u, c, req)
          \/ \E k \in DOMAIN rooms :
               \/ \E req \in JoinReq : \/ join_room(u, k, req)
                                       \/ join_room_malformed(u, k, req)
                                       \/ join_room_panics(u, k, req)
               \/ leave_room(u, k)
               \/ \E req \in SetReq : set_roomdata_internal(u, k, req)
               \/ \E target \in rooms[k].users, team \in Team :
                    set_roommemberdata_internal(u, k, target, team)
    BY <1>2 DEF Next
  <2> QED  BY <2>1, CreateKeepsIInv, JoinKeepsIInv, LeaveKeepsIInv, SetKeepsIInv, ZenonT(30)
<1> QED  BY <1>1, <1>2

(* Every reachable state of the room manager satisfies IInv: whatever      *)
(* commands clients send, in whatever order, and wherever joins fail.      *)
THEOREM Invariance == Spec => []IInv
BY InitIInv, NextKeepsIInv, PTL DEF Spec

(* The type invariant.                                                     *)
THEOREM TypeCorrect == Spec => []TypeOK
<1>1. IInv => TypeOK
  BY ZenonT(30) DEF IInv
<1> QED  BY <1>1, Invariance, PTL

(* Every room has exactly one owner.                                       *)
THEOREM OwnerUnique == Spec => []OneOwner
<1>1. IInv => OneOwner
  BY DEF IInv, OneOwner, WellFormed
<1> QED  BY <1>1, Invariance, PTL

(* Every member holds an occupied slot alone.                              *)
THEOREM SlotsExclusive == Spec => []MembersHoldSlots
<1>1. IInv => MembersHoldSlots
  BY DEF IInv, MembersHoldSlots, WellFormed
<1> QED  BY <1>1, Invariance, PTL

(* The FULL flag follows the members.                                      *)
THEOREM FullFlagFollows == Spec => []FullFlagExact
<1>1. IInv => FullFlagExact
  BY DEF IInv, FullFlagExact, WellFormed
<1> QED  BY <1>1, Invariance, PTL

(* user_rooms and the rooms agree.                                         *)
THEOREM UserRoomsAgree == Spec => []UserRoomsExact
<1>1. IInv => UserRoomsExact
  BY DEF IInv
<1> QED  BY <1>1, Invariance, PTL

(* The search indexes and the rooms agree.                                 *)
THEOREM IndexesAgree == Spec => []IndexesExact
<1>1. IInv => IndexesExact
  BY ZenonT(30) DEF IInv
<1> QED  BY <1>1, Invariance, PTL

(* A member's group exists, and num_members does not wrap when someone     *)
(* leaves, in every room whose groups a u8 can number.                     *)
THEOREM GroupCountsSuffice == Spec => []GroupCountsMembers
<1>1. IInv => GroupCountsMembers
  BY DEF IInv, GroupCountsMembers, WellFormed
<1> QED  BY <1>1, Invariance, PTL

-----------------------------------------------------------------------------
(* Groups and slots.                                                       *)

(* Replacing one room by a seated one leaves every room seated.            *)
LEMMA SetRoomSeated ==
    ASSUME GroupsSeated, NEW k \in DOMAIN rooms, NEW r, Seated(r), SetRoom(k, r)
    PROVE  GroupsSeated'
<1>1. /\ DOMAIN rooms' = DOMAIN rooms
      /\ \A j \in DOMAIN rooms : rooms'[j] = IF j = k THEN r ELSE rooms[j]
  BY DEF SetRoom
<1> QED  BY <1>1, Zenon DEF GroupsSeated

(* Every command keeps every room seated.                                  *)
LEMMA NextKeepsSeated ==
    ASSUME IInv, GroupsSeated, [Next]_vars
    PROVE  GroupsSeated'
<1>1. CASE UNCHANGED vars
  BY <1>1 DEF vars, GroupsSeated
<1>2. ASSUME NEW u \in UserId, NEW c \in ComId, NEW req \in CreateReq, create_room(u, c, req)
      PROVE  GroupsSeated'
  <2> DEFINE r == CreatedRoom(req, u)
             k == <<c, room_cnt[c] + 1>>
  <2>1. req \in CreateReqType /\ CreateAccepted(req)
    BY <1>2, RequestAssumption DEF create_room
  <2>2. Seated(r)
    BY <2>1, CreatedRoomSeated, ZenonT(30)
  <2>3. rooms' = [j \in DOMAIN rooms \cup {k} |-> IF j = k THEN r ELSE rooms[j]]
    BY <1>2 DEF create_room, unfailing_create_room, PutRoom
  <2> HIDE DEF r, k
  <2> QED  BY <2>2, <2>3 DEF GroupsSeated
<1>3. ASSUME NEW u \in UserId, NEW k \in DOMAIN rooms, NEW req \in JoinReq,
             \/ join_room(u, k, req)
             \/ join_room_malformed(u, k, req)
             \/ join_room_panics(u, k, req)
      PROVE  GroupsSeated'
  <2> DEFINE d == get_a_slot(rooms[k], req.label, req.password)
  <2>1. WellFormed(rooms[k]) /\ Seated(rooms[k])
    BY DEF IInv, GroupsSeated
  <2>2. req.team_id \in Team
    BY RequestAssumption DEF JoinReqType
  <2>3. /\ Seated(ClaimSlot(rooms[k], d))
        /\ d.res = "Ok" => Seated(AddMember(rooms[k], d, u, req.team_id))
    BY <2>1, <2>2, JoinSeated, Zenon
  <2>4. \/ SetRoom(k, ClaimSlot(rooms[k], d))
        \/ d.res = "Ok" /\ SetRoom(k, AddMember(rooms[k], d, u, req.team_id))
    BY <1>3, Zenon DEF join_room, join_room_malformed, join_room_panics
  <2> HIDE DEF d
  <2> QED  BY <2>3, <2>4, SetRoomSeated, Zenon
<1>4. ASSUME NEW u \in UserId, NEW k \in DOMAIN rooms, leave_room(u, k)
      PROVE  GroupsSeated'
  <2>1. WellFormed(rooms[k]) /\ Seated(rooms[k]) /\ Sound(rooms[k])
    BY DEF IInv, GroupsSeated, WellFormed, Sound
  <2>2. PICK x \in rooms[k].users :
          \/ SetRoom(k, RemoveMember(rooms[k], x))
          \/ /\ x.member_id = rooms[k].owner
             /\ \E m \in Heirs(RemoveMember(rooms[k], x)) :
                  SetRoom(k, Crown(RemoveMember(rooms[k], x), m))
          \/ DestroyRoom(k)
    BY <1>4, Zenon DEF leave_room, MembersOf
  <2> DEFINE s == RemoveMember(rooms[k], x)
  <2>3. Seated(s)
    BY <2>1, RemoveMemberSeated
  <2>4. CASE SetRoom(k, s)
    BY <2>3, <2>4, SetRoomSeated, Zenon
  <2>5. CASE x.member_id = rooms[k].owner /\ \E m \in Heirs(s) : SetRoom(k, Crown(s, m))
    <3>1. PICK m \in Heirs(s) : SetRoom(k, Crown(s, m))
      BY <2>5
    <3>2. Crown(s, m) \in RoomType
      BY <2>1, <2>5, OwnerLeavesWellFormed, Zenon DEF WellFormed
    <3>3. s \in RoomType
      BY <2>1, RemoveMemberLeaves, Zenon DEF Left
    <3> HIDE DEF s
    <3>4. Seated(Crown(s, m))
      BY <2>3, <3>2, <3>3, CrownSeated, Zenon
    <3> QED  BY <3>1, <3>4, SetRoomSeated, Zenon
  <2>6. CASE DestroyRoom(k)
    <3>1. rooms' = [j \in DOMAIN rooms \ {k} |-> rooms[j]]
      BY <2>6, Zenon DEF DestroyRoom
    <3> QED  BY <3>1 DEF GroupsSeated
  <2> QED  BY <2>2, <2>4, <2>5, <2>6, ZenonT(30)
<1>5. ASSUME NEW u \in UserId, NEW k \in DOMAIN rooms, NEW req \in SetReq,
             set_roomdata_internal(u, k, req)
      PROVE  GroupsSeated'
  <2>1. rooms[k] \in RoomType /\ Seated(rooms[k]) /\ req \in SetReqType
    BY RequestAssumption DEF IInv, GroupsSeated, WellFormed
  <2>2. Seated(OwnerUpdate(rooms[k], req))
    BY <2>1, OwnerUpdateInert, InertSeated, Zenon
  <2>3. SetRoom(k, OwnerUpdate(rooms[k], req))
    BY <1>5 DEF set_roomdata_internal
  <2> QED  BY <2>2, <2>3, SetRoomSeated, Zenon
<1>6. ASSUME NEW u \in UserId, NEW k \in DOMAIN rooms, NEW y \in rooms[k].users,
             NEW team \in Team, set_roommemberdata_internal(u, k, y, team)
      PROVE  GroupsSeated'
  <2> DEFINE r == [rooms[k] EXCEPT !.users =
                     InsertUser(rooms[k].users, [y EXCEPT !.team_id = team])]
  <2>1. WellFormed(rooms[k]) /\ Seated(rooms[k])
    BY DEF IInv, GroupsSeated
  <2>2. Seated(r)
    BY <2>1, ChangeTeamSeated
  <2>3. SetRoom(k, r)
    BY <1>6 DEF set_roommemberdata_internal
  <2> HIDE DEF r
  <2> QED  BY <2>2, <2>3, SetRoomSeated, ZenonT(30)
<1> QED  BY <1>1, <1>2, <1>3, <1>4, <1>5, <1>6, ZenonT(30) DEF Next

(* In every reachable state the groups of a room lie within it, its        *)
(* members sit in their own groups and its groups count their occupied     *)
(* slots, unless the room was created with an empty first group or with    *)
(* more groups than a u8 can number.                                       *)
THEOREM SeatsKeptAlways == Spec => []GroupsSeated
<1>1. Init => GroupsSeated
  BY DEF Init, GroupsSeated
<1>2. IInv /\ GroupsSeated /\ [Next]_vars => GroupsSeated'
  BY NextKeepsSeated, ZenonT(30)
<1> QED  BY <1>1, <1>2, Invariance, PTL DEF Spec

(* In such a room a group counts at least its occupied slots.              *)
THEOREM GroupCountsCoverSlots == Spec => []GroupCountsSlots
<1>1. GroupsSeated => GroupCountsSlots
  BY DEF GroupsSeated, GroupCountsSlots, Seated
<1> QED  BY <1>1, SeatsKeptAlways, PTL

(* Hence joining a labelled group of such a room never runs into           *)
(* unreachable!().                                                         *)
THEOREM NamedJoinsSeated == Spec => []NamedJoinsNeverPanic
<1>1. IInv /\ GroupsSeated => NamedJoinsNeverPanic
  BY NamedGroupHasSlot DEF IInv, WellFormed, GroupsSeated, NamedJoinsNeverPanic
<1> QED  BY <1>1, Invariance, SeatsKeptAlways, PTL

-----------------------------------------------------------------------------
(* A step changes the owner of a room, if at all, in that order.           *)
LEMMA StepSucceeds ==
    ASSUME IInv, Next
    PROVE  \A k \in DOMAIN rooms \cap DOMAIN rooms' : Succeeds(rooms[k], rooms'[k])
<1> DEFINE Kept == \A k \in DOMAIN rooms \cap DOMAIN rooms' : Succeeds(rooms[k], rooms'[k])
<1>1. PICK u \in UserId :
        \/ \E c \in ComId, req \in CreateReq : create_room(u, c, req)
        \/ \E k \in DOMAIN rooms :
             \/ \E req \in JoinReq : \/ join_room(u, k, req)
                                     \/ join_room_malformed(u, k, req)
                                     \/ join_room_panics(u, k, req)
             \/ leave_room(u, k)
             \/ \E req \in SetReq : set_roomdata_internal(u, k, req)
             \/ \E target \in rooms[k].users, team \in Team :
                  set_roommemberdata_internal(u, k, target, team)
  BY DEF Next
<1>2. ASSUME NEW k \in DOMAIN rooms, NEW r, SetRoom(k, r), Succeeds(rooms[k], r)
      PROVE  Kept
  BY <1>2, ZenonT(30) DEF SetRoom, Succeeds
<1>3. ASSUME NEW k \in DOMAIN rooms, NEW r, SetRoom(k, r), r.owner = rooms[k].owner
      PROVE  Kept
  BY <1>2, <1>3 DEF Succeeds
<1>4. ASSUME NEW c \in ComId, NEW req \in CreateReq, create_room(u, c, req)
      PROVE  Kept
  <2>1. \A k \in DOMAIN rooms : k[2] \in 1..room_cnt[k[1]]
    BY DEF IInv
  <2>2. room_cnt[c] \in Nat
    BY DEF IInv, TypeOK
  <2>3. <<c, room_cnt[c] + 1>> \notin DOMAIN rooms
    BY <2>1, <2>2, SMTT(30)
  <2>4. \A k \in DOMAIN rooms : rooms'[k] = rooms[k]
    BY <1>4, <2>3, ZenonT(30) DEF create_room, unfailing_create_room, PutRoom
  <2> QED  BY <2>4 DEF Succeeds
<1>5. ASSUME NEW k \in DOMAIN rooms, NEW req \in JoinReq,
             \/ join_room(u, k, req)
             \/ join_room_malformed(u, k, req)
             \/ join_room_panics(u, k, req)
      PROVE  Kept
  <2> DEFINE room == rooms[k]
             d == get_a_slot(room, req.label, req.password)
  <2>1. WellFormed(room) /\ room \in RoomType
    BY DEF IInv, WellFormed
  <2>2. req.label \in Label \cup {None} /\ req.password \in Password \cup {None}
        /\ req.team_id \in Team
    BY RequestAssumption DEF JoinReqType
  <2>3. Decision(room, d)
    BY <2>1, <2>2, get_a_slotDecides, ZenonT(30)
  <2>4. CASE join_room(u, k, req)
    <3>1. /\ MembersOf(room, u) = {} /\ "FULL" \notin room.flag_attr /\ d.res = "Ok"
          /\ SetRoom(k, AddMember(room, d, u, req.team_id))
      BY <2>4 DEF join_room, MayJoin
    <3> HIDE DEF d
    <3>2. AddMember(room, d, u, req.team_id).owner = room.owner
      <4> HIDE DEF room
      <4>1. d.res = "Ok" /\ req.team_id \in Team
        BY <2>2, <3>1
      <4>2. \E x : Joined(room, d, x, AddMember(room, d, u, req.team_id))
        BY <2>1, <2>3, <4>1, AddMemberJoins, Zenon
      <4> QED  BY <4>2, Zenon DEF Joined
    <3> QED  BY <1>3, <3>1, <3>2, ZenonT(30)
  <2>5. CASE join_room_malformed(u, k, req) \/ join_room_panics(u, k, req)
    <3>1. SetRoom(k, ClaimSlot(room, d))
      BY <2>5 DEF join_room_malformed, join_room_panics
    <3> HIDE DEF d
    <3>2. ClaimSlot(room, d).owner = room.owner
      BY <2>1, <2>3, ClaimSlotWellFormed, ZenonT(30)
    <3> QED  BY <1>3, <3>1, <3>2, ZenonT(30)
  <2> QED  BY <1>5, <2>4, <2>5, ZenonT(30)
<1>6. ASSUME NEW k \in DOMAIN rooms, leave_room(u, k)
      PROVE  Kept
  <2>1. WellFormed(rooms[k])
    BY ZenonT(30) DEF IInv
  <2>2. PICK x \in MembersOf(rooms[k], u) :
          \/ /\ x.member_id # rooms[k].owner
             /\ SetRoom(k, RemoveMember(rooms[k], x))
          \/ /\ x.member_id = rooms[k].owner
             /\ \E m \in Heirs(RemoveMember(rooms[k], x)) :
                  SetRoom(k, Crown(RemoveMember(rooms[k], x), m))
          \/ DestroyRoom(k)
    BY <1>6 DEF leave_room
  <2>3. x \in rooms[k].users
    BY DEF MembersOf
  <2>4. CASE x.member_id # rooms[k].owner /\ SetRoom(k, RemoveMember(rooms[k], x))
    <3>1. RemoveMember(rooms[k], x).owner = rooms[k].owner
      BY <2>1, <2>3, <2>4, RemoveMemberWellFormed, ZenonT(30)
    <3> QED  BY <1>3, <2>4, <3>1, ZenonT(30)
  <2>5. CASE /\ x.member_id = rooms[k].owner
             /\ \E m \in Heirs(RemoveMember(rooms[k], x)) :
                  SetRoom(k, Crown(RemoveMember(rooms[k], x), m))
    BY <1>2, <2>1, <2>3, <2>5, OwnerLeavesInOrder, ZenonT(30)
  <2>6. CASE DestroyRoom(k)
    BY <2>6, ZenonT(30) DEF DestroyRoom, Succeeds
  <2> QED  BY <2>2, <2>4, <2>5, <2>6, ZenonT(30)
<1>7. ASSUME NEW k \in DOMAIN rooms, NEW req \in SetReq, set_roomdata_internal(u, k, req)
      PROVE  Kept
  <2>1. rooms[k] \in RoomType
    BY DEF IInv, TypeOK
  <2>2. OwnerUpdate(rooms[k], req).owner = rooms[k].owner
    BY <2>1, OwnerUpdateInert, RequestAssumption, ZenonT(30) DEF Inert
  <2> QED  BY <1>3, <1>7, <2>2, ZenonT(30) DEF set_roomdata_internal
<1>8. ASSUME NEW k \in DOMAIN rooms, NEW y \in rooms[k].users, NEW team \in Team,
             set_roommemberdata_internal(u, k, y, team)
      PROVE  Kept
  <2> DEFINE r == [rooms[k] EXCEPT !.users =
                     InsertUser(rooms[k].users, [y EXCEPT !.team_id = team])]
  <2>1. r.owner = rooms[k].owner
    BY ChangeTeamWellFormed DEF IInv
  <2>2. SetRoom(k, r)
    BY <1>8, ZenonT(30) DEF set_roommemberdata_internal
  <2> HIDE DEF r
  <2> QED  BY <1>3, <2>1, <2>2
<1> HIDE DEF Kept
<1>9. Kept
  BY <1>1, <1>4, <1>5, <1>6, <1>7, <1>8, ZenonT(30)
<1> QED  BY <1>9, ZenonT(30) DEF Kept

(* The owner changes only when the owner leaves, to the first member of    *)
(* the succession list that is still there, for any list and any members.  *)
THEOREM SuccessionFollowed == Spec => SuccessionRespected
<1> DEFINE A == \A k \in DOMAIN rooms \cap DOMAIN rooms' : Succeeds(rooms[k], rooms'[k])
<1>1. IInv /\ [Next]_vars => [A]_vars
  BY StepSucceeds
<1> HIDE DEF A
<1>2. Spec => [][A]_vars
  BY <1>1, Invariance, PTL DEF Spec
<1> QED  BY <1>2 DEF A, Succeeds, SuccessionRespected

-----------------------------------------------------------------------------
(* The room manager implements the room service.                           *)

(* The user that a room's view names as owner.                             *)
LEMMA OwnerUserIs ==
    ASSUME NEW room, WellFormed(room)
    PROVE  /\ OwnerUser(room) \in UserIds(room)
           /\ \A v : IsOwner(room, v) <=> v = OwnerUser(room)
<1>1. PICK x \in room.users : x.member_id = room.owner
  BY DEF WellFormed, HasOneOwner
<1>2. \A v : IsOwner(room, v) <=> v = x.user_id
  <2>1. Sound(room)
    BY DEF WellFormed, Sound
  <2> QED  BY <1>1, <2>1, MemberIdsDistinct, ZenonT(30) DEF IsOwner
<1>3. x.user_id \in UserIds(room)
  BY DEF UserIds
<1>4. \E v \in UserIds(room) : IsOwner(room, v)
  BY <1>2, <1>3
<1>5. OwnerUser(room) \in UserIds(room) /\ IsOwner(room, OwnerUser(room))
  BY <1>4 DEF OwnerUser
<1> QED  BY <1>2, <1>5, ZenonT(30)

-----------------------------------------------------------------------------
(* Replacing a room replaces its view.                                     *)
LEMMA ViewOfSet ==
    ASSUME NEW k \in DOMAIN rooms, NEW r, SetRoom(k, r)
    PROVE  RoomViews' = [RoomViews EXCEPT ![k] = View(r)]
BY Zenon DEF SetRoom, RoomViews

(* A change that keeps the view of a room is a stutter of the service.     *)
LEMMA SameView ==
    ASSUME NEW k \in DOMAIN rooms, NEW r, SetRoom(k, r), View(r) = View(rooms[k]),
           UNCHANGED room_cnt
    PROVE  UNCHANGED <<RoomViews, IdsIssued>>
<1>1. RoomViews' = RoomViews
  BY DEF SetRoom, RoomViews
<1>2. IdsIssued' = IdsIssued
  BY DEF IdsIssued
<1> QED  BY <1>1, <1>2

(* Views agree when members, owner and capacity do.                        *)
LEMMA ViewEqual ==
    ASSUME NEW r, NEW s, WellFormed(r), WellFormed(s), UserIds(r) = UserIds(s),
           \A v : IsOwner(r, v) <=> IsOwner(s, v), r.max_slot = s.max_slot
    PROVE  View(r) = View(s)
<1>1. OwnerUser(r) = OwnerUser(s)
  BY OwnerUserIs
<1> QED  BY <1>1 DEF View

(* CreateRoom is Create.                                                   *)
LEMMA CreateRefines ==
    ASSUME IInv, NEW u \in UserId, NEW c \in ComId, NEW req \in CreateReq,
           create_room(u, c, req)
    PROVE  [Service!Next]_<<RoomViews, IdsIssued>>
<1>0. PICK n \in Nat : n = room_cnt[c] + 1
  BY DEF IInv, TypeOK
<1> DEFINE k == <<c, n>>
           r == CreatedRoom(req, u)
<1>1. req \in CreateReqType /\ CreateAccepted(req)
  BY RequestAssumption DEF create_room
<1>2. WellFormed(r) /\ UserIds(r) = {u} /\ r.max_slot \in 1..64
  <2>1. WellFormed(r) /\ UserIds(r) = {u}
    BY <1>1, CreatedRoomWellFormed
  <2> HIDE DEF r
  <2> QED  BY <2>1, RoomFields, ZenonT(30) DEF WellFormed
<1> HIDE DEF r
<1>3. View(r) = [members |-> {u}, owner |-> u, capacity |-> r.max_slot]
  BY <1>2, OwnerUserIs, ZenonT(30) DEF View
<1>4. /\ room_cnt \in [ComId -> Nat] /\ room_cnt[c] < MaxRooms
      /\ room_cnt' = [room_cnt EXCEPT ![c] = n]
      /\ \A j \in DOMAIN rooms : j[2] \in 1..room_cnt[j[1]]
  BY <1>0 DEF IInv, TypeOK, create_room
<1>5. k \in RoomKey
  BY <1>0, <1>4, BoundAssumption, SMTT(30) DEF RoomKey
<1>6. k \notin IdsIssued /\ k \notin DOMAIN rooms
  BY <1>0, <1>4 DEF IdsIssued
<1>7. IdsIssued' = IdsIssued \cup {k}
  <2>1. \A j \in RoomKey : j[2] <= room_cnt'[j[1]] <=> j[2] <= room_cnt[j[1]] \/ j = k
    BY <1>0, <1>4, SMTT(30) DEF RoomKey
  <2> QED  BY <1>5, <2>1 DEF IdsIssued
<1>8. rooms' = [j \in DOMAIN rooms \cup {k} |-> IF j = k THEN r ELSE rooms[j]]
  BY <1>0 DEF create_room, unfailing_create_room, PutRoom, r
<1>9. RoomViews' = [j \in DOMAIN RoomViews \cup {k} |->
                      IF j = k THEN [members |-> {u}, owner |-> u, capacity |-> r.max_slot]
                               ELSE RoomViews[j]]
  BY <1>3, <1>6, <1>8, ZenonT(30) DEF RoomViews
<1>10. Service!Create(u, k, r.max_slot)
  BY <1>6, <1>7, <1>9, ZenonT(30) DEF Service!Create
<1> QED  BY <1>2, <1>5, <1>10, ZenonT(30) DEF Service!Next

(* JoinRoom is Join, or a stutter when it fails.                           *)
LEMMA JoinRefines ==
    ASSUME IInv, NEW u \in UserId, NEW k \in DOMAIN rooms, NEW req \in JoinReq,
           \/ join_room(u, k, req)
           \/ join_room_malformed(u, k, req)
           \/ join_room_panics(u, k, req)
    PROVE  [Service!Next]_<<RoomViews, IdsIssued>>
<1> DEFINE room == rooms[k]
           d == get_a_slot(room, req.label, req.password)
<1>1. WellFormed(room) /\ room \in RoomType
  BY DEF IInv, WellFormed
<1>2. req.team_id \in Team
  BY RequestAssumption DEF JoinReqType
<1>3. Decision(room, d)
  BY <1>1, get_a_slotDecides
<1>4. k \in DOMAIN RoomViews /\ RoomViews[k] = View(room)
  BY ZenonT(30) DEF RoomViews
<1>5. CASE join_room(u, k, req)
  <2> DEFINE r == AddMember(room, d, u, req.team_id)
  <2>1. /\ MembersOf(room, u) = {} /\ "FULL" \notin room.flag_attr /\ d.res = "Ok"
        /\ SetRoom(k, r) /\ UNCHANGED room_cnt
    BY <1>5, ZenonT(30) DEF join_room, MayJoin
  <2> HIDE DEF d
  <2>2. /\ WellFormed(r)
        /\ UserIds(r) = UserIds(room) \cup {u}
        /\ r.lobby_id = room.lobby_id /\ r.world_id = room.world_id
        /\ r.owner = room.owner /\ r.max_slot = room.max_slot
    <3> HIDE DEF room
    <3>1. /\ WellFormed(room) /\ Decision(room, d) /\ d.res = "Ok" /\ req.team_id \in Team
          /\ MembersOf(room, u) = {} /\ "FULL" \notin room.flag_attr
      BY <1>1, <1>2, <1>3, <2>1, Zenon
    <3> QED  BY ONLY <3>1, u \in UserId, AddMemberWellFormed, SMT, ZenonT(30)
  <2>3. Cardinality(UserIds(room)) < room.max_slot
    BY <1>1, <1>2, <1>3, <2>1, JoinersFit, Zenon
  <2>4. room.users \subseteq r.users
    <3>1. Joined(room, d, NewMember(room, d, u, req.team_id), r)
      BY <1>1, <1>2, <1>3, <2>1, AddMemberJoins, ZenonT(30)
    <3> QED  BY <3>1, ZenonT(30) DEF Joined
  <2> HIDE DEF r
  <2>5. u \notin UserIds(room)
    BY <2>1 DEF UserIds, MembersOf
  <2>6. OwnerUser(r) = OwnerUser(room)
    <3>1. IsOwner(room, OwnerUser(room))
      BY <1>1, OwnerUserIs, ZenonT(30)
    <3>2. IsOwner(r, OwnerUser(room))
      BY <2>2, <2>4, <3>1, ZenonT(30) DEF IsOwner
    <3> QED  BY <2>2, <3>2, OwnerUserIs, ZenonT(30)
  <2>7. RoomViews' = [RoomViews EXCEPT ![k] = View(r)]
    BY <2>1, ViewOfSet, ZenonT(30)
  <2>8. View(r) = [View(room) EXCEPT !.members = UserIds(room) \cup {u}]
    BY <2>2, <2>6, SMTT(30) DEF View
  <2>9. /\ View(room).members = UserIds(room)
        /\ View(room).capacity = room.max_slot
    BY DEF View
  <2>10. RoomViews' = [RoomViews EXCEPT ![k].members = @ \cup {u}]
    BY <1>4, <2>7, <2>8, <2>9, ZenonT(30)
  <2>11. IdsIssued' = IdsIssued
    BY <2>1 DEF IdsIssued
  <2>12. Service!Join(u, k)
    <3>1. Service!Cardinality(UserIds(room)) = Cardinality(UserIds(room))
      BY DEF Service!Cardinality, Cardinality
    <3> QED  BY <1>4, <2>3, <2>5, <2>9, <2>10, <2>11, <3>1, Zenon DEF Service!Join
  <2> QED  BY <1>4, <2>12 DEF Service!Next
<1>6. CASE join_room_malformed(u, k, req) \/ join_room_panics(u, k, req)
  <2> DEFINE r == ClaimSlot(room, d)
  <2>1. SetRoom(k, r) /\ UNCHANGED room_cnt
    BY <1>6, ZenonT(30) DEF join_room_malformed, join_room_panics
  <2> HIDE DEF d
  <2>2. WellFormed(r) /\ r.users = room.users /\ r.owner = room.owner /\ r.max_slot = room.max_slot
    BY <1>1, <1>3, ClaimSlotWellFormed, ZenonT(30)
  <2> HIDE DEF r
  <2>3. View(r) = View(room)
    BY <1>1, <2>2, ViewEqual, ZenonT(30) DEF UserIds, IsOwner
  <2> QED  BY <2>1, <2>3, SameView, ZenonT(30)
<1> QED  BY <1>5, <1>6, SMTT(30)

(* LeaveRoom is Leave or LeaveLast.                                        *)
LEMMA LeaveRefines ==
    ASSUME IInv, NEW u \in UserId, NEW k \in DOMAIN rooms, leave_room(u, k)
    PROVE  [Service!Next]_<<RoomViews, IdsIssued>>
<1> DEFINE room == rooms[k]
<1>1. WellFormed(room) /\ Sound(room)
  BY ZenonT(30) DEF IInv, WellFormed, Sound
<1>2. PICK x \in MembersOf(room, u) :
        \/ /\ x.member_id # room.owner
           /\ SetRoom(k, RemoveMember(room, x))
        \/ /\ x.member_id = room.owner
           /\ \E m \in Heirs(RemoveMember(room, x)) :
                SetRoom(k, Crown(RemoveMember(room, x), m))
        \/ /\ Heirs(RemoveMember(room, x)) = {}
           /\ DestroyRoom(k)
  BY DEF leave_room
<1>3. x \in room.users /\ x.user_id = u
  BY DEF MembersOf
<1>4. k \in DOMAIN RoomViews /\ RoomViews[k] = View(room)
      /\ View(room).members = UserIds(room) /\ View(room).owner = OwnerUser(room)
      /\ u \in UserIds(room)
  BY <1>3, ZenonT(30) DEF RoomViews, View, UserIds
<1>5. IdsIssued' = IdsIssued
  BY ZenonT(30) DEF leave_room, IdsIssued
<1>6. ASSUME NEW r, WellFormed(r), SetRoom(k, r), UserIds(r) = UserIds(room) \ {u},
             r.max_slot = room.max_slot, u # OwnerUser(room) => OwnerUser(r) = OwnerUser(room)
      PROVE  [Service!Next]_<<RoomViews, IdsIssued>>
  <2>1. RoomViews' = [RoomViews EXCEPT ![k] = View(r)]
    BY <1>6, ViewOfSet
  <2> DEFINE o == OwnerUser(r)
  <2>2. o \in UserIds(room) \ {u}
    BY <1>6, OwnerUserIs, ZenonT(30)
  <2>3. View(r) = [members |-> UserIds(room) \ {u}, owner |-> o, capacity |-> room.max_slot]
    BY <1>6 DEF View
  <2> HIDE DEF o
  <2>4. RoomViews' = [RoomViews EXCEPT ![k] =
                        [members |-> RoomViews[k].members \ {u}, owner |-> o,
                         capacity |-> RoomViews[k].capacity]]
    <3>1. View(room).capacity = room.max_slot
      BY DEF View
    <3>2. View(r) = [members |-> RoomViews[k].members \ {u}, owner |-> o,
                     capacity |-> RoomViews[k].capacity]
      BY <1>4, <2>3, <3>1, ZenonT(30)
    <3> QED  BY <2>1, <3>2, Zenon
  <2>5. u # View(room).owner => o = View(room).owner
    BY <1>4, <1>6, ZenonT(30) DEF o
  <2>6. Service!Leave(u, k)
    BY <1>4, <1>5, <2>2, <2>4, <2>5, ZenonT(30) DEF Service!Leave
  <2> QED  BY <1>4, <2>6, ZenonT(30) DEF Service!Next
<1>7. CASE x.member_id # room.owner /\ SetRoom(k, RemoveMember(room, x))
  <2> DEFINE r == RemoveMember(room, x)
  <2>1. /\ WellFormed(r)
        /\ UserIds(r) = UserIds(room) \ {u}
        /\ r.owner = room.owner /\ r.max_slot = room.max_slot
    <3>1. /\ WellFormed(r)
          /\ UserIds(r) = UserIds(room) \ {x.user_id}
          /\ r.owner = room.owner /\ r.max_slot = room.max_slot
          /\ r.lobby_id = room.lobby_id /\ r.world_id = room.world_id
      <4> HIDE DEF room
      <4> QED  BY <1>1, <1>3, <1>7, RemoveMemberWellFormed, Zenon
    <3> QED  BY <1>3, <3>1, Zenon
  <2>2. r.users = room.users \ {x}
    BY <1>1, <1>3, RemoveMemberLeaves, SMTT(30) DEF Left
  <2>3. SetRoom(k, r)
    BY <1>7
  <2> HIDE DEF r
  <2>4. OwnerUser(r) = OwnerUser(room)
    <3>1. IsOwner(room, OwnerUser(room))
      BY <1>1, OwnerUserIs, ZenonT(30)
    <3>2. IsOwner(r, OwnerUser(room))
      BY <1>7, <2>1, <2>2, <3>1, ZenonT(30) DEF IsOwner
    <3> QED  BY <2>1, <3>2, OwnerUserIs, ZenonT(30)
  <2> QED  BY <1>6, <2>1, <2>3, <2>4, ZenonT(30)
<1>8. CASE /\ x.member_id = room.owner
           /\ \E m \in Heirs(RemoveMember(room, x)) :
                SetRoom(k, Crown(RemoveMember(room, x), m))
  <2>1. PICK m \in Heirs(RemoveMember(room, x)) :
               SetRoom(k, Crown(RemoveMember(room, x), m))
    BY <1>8
  <2> DEFINE r == Crown(RemoveMember(room, x), m)
  <2>2. /\ WellFormed(r)
        /\ UserIds(r) = UserIds(room) \ {u}
        /\ r.max_slot = room.max_slot
    <3>1. /\ WellFormed(r)
          /\ UserIds(r) = UserIds(room) \ {x.user_id}
          /\ r.max_slot = room.max_slot
          /\ r.lobby_id = room.lobby_id /\ r.world_id = room.world_id
      <4> HIDE DEF room
      <4> QED  BY <1>1, <1>3, <1>8, <2>1, OwnerLeavesWellFormed, Zenon
    <3> QED  BY <1>3, <3>1, Zenon
  <2>3. SetRoom(k, r)
    BY <2>1
  <2> HIDE DEF r
  <2>4. u = OwnerUser(room)
    <3>1. IsOwner(room, u)
      BY <1>3, <1>8, ZenonT(30) DEF IsOwner
    <3> QED  BY <1>1, <3>1, OwnerUserIs, ZenonT(30)
  <2> QED  BY <1>6, <2>2, <2>3, <2>4, ZenonT(30)
<1>9. CASE Heirs(RemoveMember(room, x)) = {} /\ DestroyRoom(k)
  <2>1. room.users = {x}
    BY <1>1, <1>3, <1>9, NoHeirs, ZenonT(30)
  <2>2. UserIds(room) = {u}
    BY <1>3, <2>1, ZenonT(30) DEF UserIds
  <2>3. RoomViews' = [j \in DOMAIN RoomViews \ {k} |-> RoomViews[j]]
    BY <1>9, ZenonT(30) DEF DestroyRoom, RoomViews
  <2>4. Service!LeaveLast(u, k)
    BY <1>4, <1>5, <2>2, <2>3, ZenonT(30) DEF Service!LeaveLast
  <2> QED  BY <1>4, <2>4, ZenonT(30) DEF Service!Next
<1> QED  BY <1>2, <1>7, <1>8, <1>9, ZenonT(30)

(* The Set commands change nothing that the service shows.                 *)
LEMMA SetRefines ==
    ASSUME IInv, NEW u \in UserId, NEW k \in DOMAIN rooms,
           \/ \E req \in SetReq : set_roomdata_internal(u, k, req)
           \/ \E target \in rooms[k].users, team \in Team :
                set_roommemberdata_internal(u, k, target, team)
    PROVE  UNCHANGED <<RoomViews, IdsIssued>>
<1>1. WellFormed(rooms[k]) /\ rooms[k] \in RoomType
  BY DEF IInv, WellFormed
<1>2. CASE \E req \in SetReq : set_roomdata_internal(u, k, req)
  <2>1. PICK req \in SetReq : set_roomdata_internal(u, k, req)
    BY <1>2
  <2> DEFINE r == OwnerUpdate(rooms[k], req)
  <2>2. Inert(rooms[k], r)
    BY <1>1, OwnerUpdateInert, RequestAssumption
  <2>3. SetRoom(k, r) /\ UNCHANGED room_cnt
    BY <2>1, ZenonT(30) DEF set_roomdata_internal
  <2> HIDE DEF r
  <2>4. WellFormed(r)
    BY <1>1, <2>2, InertWellFormed
  <2>5. /\ UserIds(r) = UserIds(rooms[k]) /\ r.max_slot = rooms[k].max_slot
        /\ \A v : IsOwner(r, v) <=> IsOwner(rooms[k], v)
    BY <2>2, ZenonT(30) DEF Inert, UserIds, IsOwner
  <2>6. View(r) = View(rooms[k])
    BY <1>1, <2>4, <2>5, ViewEqual, ZenonT(30)
  <2> QED  BY <2>3, <2>6, SameView, ZenonT(30)
<1>3. CASE \E target \in rooms[k].users, team \in Team :
             set_roommemberdata_internal(u, k, target, team)
  <2>1. PICK y \in rooms[k].users, team \in Team : set_roommemberdata_internal(u, k, y, team)
    BY <1>3
  <2> DEFINE r == [rooms[k] EXCEPT !.users =
                     InsertUser(rooms[k].users, [y EXCEPT !.team_id = team])]
  <2>2. /\ WellFormed(r) /\ UserIds(r) = UserIds(rooms[k])
        /\ r.max_slot = rooms[k].max_slot
        /\ \A v : IsOwner(r, v) <=> IsOwner(rooms[k], v)
    BY <1>1, ChangeTeamWellFormed, ZenonT(30)
  <2>3. SetRoom(k, r) /\ UNCHANGED room_cnt
    BY <2>1 DEF set_roommemberdata_internal
  <2> HIDE DEF r
  <2>4. View(r) = View(rooms[k])
    BY <1>1, <2>2, ViewEqual, ZenonT(30)
  <2> QED  BY <2>3, <2>4, SameView, ZenonT(30)
<1> QED  BY <1>2, <1>3

(* The room manager implements the room service: rooms never hold more     *)
(* users than their capacity, a room has an owner among its members until  *)
(* the last one leaves, and room ids are never issued twice.               *)
THEOREM Refinement == Spec => RefinesRoomService
<1>1. Init => Service!Init
  <2> SUFFICES ASSUME Init PROVE Service!Init
    OBVIOUS
  <2>1. DOMAIN rooms = {} /\ room_cnt = [c \in ComId |-> 0]
    BY DEF Init
  <2>2. RoomViews = [k \in {} |-> 0]
    BY <2>1 DEF RoomViews
  <2>3. IdsIssued = {}
    BY <2>1, BoundAssumption DEF IdsIssued, RoomKey
  <2> QED  BY <2>2, <2>3 DEF Service!Init
<1>2. IInv /\ [Next]_vars => [Service!Next]_<<RoomViews, IdsIssued>>
  <2> SUFFICES ASSUME IInv, [Next]_vars
               PROVE  [Service!Next]_<<RoomViews, IdsIssued>>
    OBVIOUS
  <2>1. CASE UNCHANGED vars
    BY <2>1 DEF vars, RoomViews, IdsIssued
  <2>2. CASE Next
    <3>1. PICK u \in UserId :
            \/ \E c \in ComId, req \in CreateReq : create_room(u, c, req)
            \/ \E k \in DOMAIN rooms :
                 \/ \E req \in JoinReq : \/ join_room(u, k, req)
                                         \/ join_room_malformed(u, k, req)
                                         \/ join_room_panics(u, k, req)
                 \/ leave_room(u, k)
                 \/ \E req \in SetReq : set_roomdata_internal(u, k, req)
                 \/ \E target \in rooms[k].users, team \in Team :
                      set_roommemberdata_internal(u, k, target, team)
      BY <2>2 DEF Next
    <3> QED  BY <3>1, CreateRefines, JoinRefines, LeaveRefines, SetRefines, ZenonT(30)
  <2> QED  BY <2>1, <2>2
<1> QED  BY <1>1, <1>2, Invariance, PTL DEF Spec, RefinesRoomService, Service!Spec
=============================================================================
