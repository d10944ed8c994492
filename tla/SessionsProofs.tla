--------------------------- MODULE SessionsProofs ---------------------------
(***************************************************************************)
(* The safety properties of Sessions for any number of users, connections, *)
(* games and rooms, and any friendships between the users.                 *)
(***************************************************************************)
EXTENDS Sessions, FiniteSetTheorems, TLAPS

-----------------------------------------------------------------------------
(* The types of what the proofs look at.                                   *)
Types ==
    /\ state \in [Conn -> State]
    /\ who \in [Conn -> UserId \cup {None}]
    /\ game \in [Conn -> ComId \cup {None}]
    /\ todo \in [Conn -> SUBSET (UserId \cup RoomKey)]
    /\ client_infos \in [UserId -> Conn \cup {None}]
    /\ cleanup_duty \subseteq UserId
    /\ DOMAIN room \subseteq RoomKey
    /\ \A k \in DOMAIN room :
         room[k] \in [members: SUBSET UserId, owner: UserId, capacity: {2}]

Listed == {"greet", "online", "packet", "reset", "cleanup", "infos"}
Ending == {"cleanup", "infos", "offline"}

(* client_infos and the tasks agree on who is logged in where, and the     *)
(* user of a session that ends is on duty until its friends have been told.*)
SessionInv ==
    /\ \A c \in Conn :
         /\ state[c] = "checked" => who[c] \in UserId
         /\ state[c] \in Listed => who[c] \in UserId /\ client_infos[who[c]] = c
         /\ state[c] = "offline" => who[c] \in UserId /\ client_infos[who[c]] = None
         /\ state[c] \in Ending => who[c] \in cleanup_duty
    /\ \A u \in UserId : client_infos[u] # None =>
         state[client_infos[u]] \in Listed /\ who[client_infos[u]] = u
    /\ \A c, d \in Conn :
         state[c] = "offline" /\ state[d] = "offline" /\ who[c] = who[d] => c = d

(* A cleanup still knows every room that its user is in.                   *)
RoomInv ==
    /\ \A c \in Conn : state[c] = "cleanup" => RoomsOf(who[c]) \subseteq todo[c]
    /\ \A k \in DOMAIN room : \A u \in room[k].members :
         client_infos[u] # None /\ state[client_infos[u]] # "infos"

(* A task that waits to send a notification is telling friends about its   *)
(* user: Send reads the user and the state of the sender long after        *)
(* LookUp, and they must still be those of the session that looked up.     *)
SenderInv ==
    /\ sending \in [Conn -> Conn \cup {None, Gone}]
    /\ told \in [Conn -> SUBSET UserId]
    /\ overtaken \in [Conn -> SUBSET UserId]
    /\ \A c \in Conn : sending[c] # None => state[c] \in Telling

IInv == Types /\ SessionInv /\ RoomInv /\ TrackerExact /\ SenderInv /\ FriendsTold

-----------------------------------------------------------------------------
(* What the commands of a user do to the rooms.                            *)
In(u, k) == k \in DOMAIN room /\ u \in room[k].members

Rm == [members: SUBSET UserId, owner: UserId, capacity: {2}]

(* Whoever creates or joins a room changes its own membership only.        *)
LEMMA RoomEnter ==
    ASSUME Types, NEW u \in UserId,
           \/ \E k \in RoomKey : Rooms!Create(u, k, 2)
           \/ \E k \in DOMAIN room : Rooms!Join(u, k)
    PROVE  /\ DOMAIN room' \subseteq RoomKey
           /\ \A k \in DOMAIN room' : room'[k] \in Rm
           /\ \A v \in UserId, k \in RoomKey : v # u => (In(v, k)' => In(v, k))
<1>1. ASSUME NEW k \in RoomKey, Rooms!Create(u, k, 2)
      PROVE  /\ DOMAIN room' \subseteq RoomKey
             /\ \A j \in DOMAIN room' : room'[j] \in Rm
             /\ \A v \in UserId, j \in RoomKey : v # u => (In(v, j)' => In(v, j))
  <2> DEFINE new == [members |-> {u}, owner |-> u, capacity |-> 2]
  <2>1. room' = [j \in DOMAIN room \cup {k} |-> IF j = k THEN new ELSE room[j]]
    BY <1>1 DEF Rooms!Create
  <2>2. new \in Rm /\ new.members = {u} BY DEF Rm
  <2> HIDE DEF new
  <2> QED BY <2>1, <2>2 DEF Types, Rm, In
<1>2. ASSUME NEW k \in DOMAIN room, Rooms!Join(u, k)
      PROVE  /\ DOMAIN room' \subseteq RoomKey
             /\ \A j \in DOMAIN room' : room'[j] \in Rm
             /\ \A v \in UserId, j \in RoomKey : v # u => (In(v, j)' => In(v, j))
  <2>1. PICK r \in Rm : room[k] = r BY DEF Types, Rm
  <2> DEFINE new == [r EXCEPT !.members = @ \cup {u}]
  <2>2. room' = [room EXCEPT ![k] = new] BY <1>2, <2>1 DEF Rooms!Join
  <2>3. new \in Rm /\ new.members = r.members \cup {u} BY <2>1 DEF Rm
  <2> HIDE DEF new
  <2> QED BY <2>1, <2>2, <2>3 DEF Types, Rm, In
<1> QED BY <1>1, <1>2

(* Whoever leaves a room is no longer in it, and nobody else comes in.     *)
LEMMA RoomLeave ==
    ASSUME Types, NEW u \in UserId, NEW k \in DOMAIN room,
           Rooms!Leave(u, k) \/ Rooms!LeaveLast(u, k)
    PROVE  /\ DOMAIN room' \subseteq RoomKey
           /\ \A j \in DOMAIN room' : room'[j] \in Rm
           /\ ~In(u, k)'
           /\ \A v \in UserId, j \in RoomKey : In(v, j)' => In(v, j)
<1>1. CASE Rooms!Leave(u, k)
  <2>1. PICK r \in Rm : room[k] = r BY DEF Types, Rm
  <2>2. PICK o \in UserId :
          room' = [room EXCEPT ![k] = [members |-> r.members \ {u}, owner |-> o,
                                       capacity |-> r.capacity]]
    BY <1>1, <2>1, Zenon DEF Rooms!Leave, Rm
  <2> DEFINE new == [members |-> r.members \ {u}, owner |-> o, capacity |-> r.capacity]
  <2>3. new \in Rm /\ new.members = r.members \ {u} BY <2>1 DEF Rm
  <2>4. room' = [room EXCEPT ![k] = new] BY <2>2
  <2> HIDE DEF new
  <2> QED BY <2>1, <2>3, <2>4 DEF Types, Rm, In
<1>2. CASE Rooms!LeaveLast(u, k)
  <2>1. room' = [j \in DOMAIN room \ {k} |-> room[j]] BY <1>2 DEF Rooms!LeaveLast
  <2> QED BY <2>1 DEF Types, Rm, In
<1> QED BY <1>1, <1>2

(* Every step of a task or the ban of a user keeps the types.              *)
LEMMA TypeStep == ASSUME Types, SessionInv, [Next]_vars PROVE Types'
<1> USE DEF Types
<1>1. ASSUME NEW c \in Conn, Accept(c) \/ Hangup(c) PROVE Types'
  BY <1>1 DEF Accept, Hangup, State, tracker, shared, rooms
<1>2. ASSUME NEW c \in Conn, NEW u \in UserId, check_user(c, u) PROVE Types'
  BY <1>2 DEF check_user, State, tracker, shared, rooms
<1>3. ASSUME NEW c \in Conn, login(c) PROVE Types'
  <2>1. who[c] \in UserId BY <1>3 DEF login, SessionInv
  <2>2. Friends[who[c]] \in SUBSET UserId BY <2>1, SessionsAssumption
  <2> QED BY <1>3, <2>1, <2>2 DEF login, State, rooms
<1>4. ASSUME NEW c \in Conn, login_refused(c) PROVE Types'
  BY <1>4 DEF login_refused, State, tracker, shared, rooms
<1>5. ASSUME NEW c \in Conn, NEW g \in ComId, get_com_id_with_redir(c, g) PROVE Types'
  BY <1>5 DEF get_com_id_with_redir, task, shared, rooms
<1>6. ASSUME NEW c \in Conn, RoomCommand(c) PROVE Types'
  <2>1. who[c] \in UserId BY <1>6 DEF RoomCommand, SessionInv, Listed
  <2>2. DOMAIN room' \subseteq RoomKey /\ \A k \in DOMAIN room' : room'[k] \in Rm
    BY <1>6, <2>1, RoomEnter, RoomLeave DEF RoomCommand
  <2> QED BY <1>6, <2>2 DEF RoomCommand, task, shared, tracker, Rm
<1>7. ASSUME NEW c \in Conn, reset_state(c) PROVE Types'
  BY <1>7 DEF reset_state, RoomsOf, State, shared, tracker, rooms
<1>8. ASSUME NEW c \in Conn, state[c] \in {"online", "packet"}, drop(c) PROVE Types'
  <2>1. who[c] \in UserId BY <1>8 DEF SessionInv, Listed
  <2> QED BY <1>8, <2>1 DEF drop, RoomsOf, State, tracker, rooms
<1>9. ASSUME NEW c \in Conn, NEW f \in UserId, LookUp(c, f) PROVE Types'
  BY <1>9 DEF LookUp, shared, tracker, rooms
<1>10. ASSUME NEW c \in Conn, Send(c) \/ SendGone(c) \/ Write(c) PROVE Types'
  BY <1>10 DEF Send, SendGone, Write, task, shared, tracker, rooms
<1>11. ASSUME NEW c \in Conn, Greeted(c) PROVE Types'
  BY <1>11 DEF Greeted, State, shared, tracker, rooms
<1>12. ASSUME NEW c \in Conn, NEW k \in RoomKey, LeaveRoom(c, k) PROVE Types'
  <2>1. who[c] \in UserId BY <1>12 DEF LeaveRoom, SessionInv, Listed
  <2>2. DOMAIN room' \subseteq RoomKey /\ \A j \in DOMAIN room' : room'[j] \in Rm
    BY <1>12, <2>1, RoomLeave DEF LeaveRoom, RoomsOf, rooms, Rm
  <2> QED BY <1>12, <2>2 DEF LeaveRoom, shared, tracker, Rm
<1>13. ASSUME NEW c \in Conn, ResetDone(c) \/ CleanDone(c) PROVE Types'
  BY <1>13 DEF ResetDone, CleanDone, State, shared, rooms
<1>14. ASSUME NEW c \in Conn, RemoveInfos(c) PROVE Types'
  <2>1. who[c] \in UserId BY <1>14 DEF RemoveInfos, SessionInv, Listed
  <2>2. Friends[who[c]] \in SUBSET UserId BY <2>1, SessionsAssumption
  <2> QED BY <1>14, <2>1, <2>2 DEF RemoveInfos, State, tracker, rooms
<1>15. ASSUME NEW c \in Conn, CleanupDone(c) PROVE Types'
  BY <1>15 DEF CleanupDone, State, tracker, rooms
<1>16. ASSUME NEW u \in UserId, ban_user(u) \/ kick(u) PROVE Types'
  BY <1>16 DEF ban_user, kick, task, shared, tracker, rooms
<1>17. ASSUME NEW c \in Conn, Header(c) \/ interpret_command(c) PROVE Types'
  BY <1>17 DEF Header, interpret_command, State, tracker, shared, rooms
<1>18. CASE UNCHANGED vars BY <1>18 DEF vars, task, shared, tracker, rooms
<1> QED
  BY <1>1, <1>2, <1>3, <1>4, <1>5, <1>6, <1>7, <1>8, <1>9, <1>10, <1>11, <1>12, <1>13,
     <1>14, <1>15, <1>16, <1>17, <1>18, ZenonT(30)
  DEF Next, Runs, Disconnect, Kicked

-----------------------------------------------------------------------------
(* One session per user, from SessionInv.                                  *)
LEMMA OneSessionOf == ASSUME Types, SessionInv PROVE OneSession
<1> SUFFICES ASSUME NEW c \in Conn, NEW d \in Conn, state[c] \in Authentified,
                    state[d] \in Authentified, who[c] = who[d]
             PROVE  c = d
  BY DEF OneSession
<1>1. CASE state[c] \in Listed /\ state[d] \in Listed BY <1>1 DEF SessionInv
<1>2. CASE state[c] = "offline" /\ state[d] = "offline" BY <1>2 DEF SessionInv
<1>3. CASE state[c] = "offline" /\ state[d] \in Listed
  BY <1>3, SessionsAssumption DEF SessionInv
<1>4. CASE state[d] = "offline" /\ state[c] \in Listed
  BY <1>4, SessionsAssumption, SMTT(30) DEF SessionInv
<1> QED BY <1>1, <1>2, <1>3, <1>4 DEF Authentified, Listed

(* Every step keeps what is known of sessions.                             *)
LEMMA SessionStep == ASSUME Types, SessionInv, [Next]_vars PROVE SessionInv'
<1>0. /\ state \in [Conn -> State] /\ who \in [Conn -> UserId \cup {None}]
      /\ todo \in [Conn -> SUBSET (UserId \cup RoomKey)]
      /\ client_infos \in [UserId -> Conn \cup {None}]
  BY DEF Types
<1> USE <1>0
<1>1. ASSUME UNCHANGED <<who, shared>>,
             \A d \in Conn : \/ state'[d] = state[d]
                             \/ state[d] \in {"closed", "new"} /\ state'[d] \in {"closed", "new"}
                             \/ state[d] \in Listed /\ state'[d] \in Listed \ Ending
                             \/ state[d] = "cleanup" /\ state'[d] = "infos"
      PROVE  SessionInv'
  BY <1>1 DEF SessionInv, Listed, Ending, shared
<1>2. ASSUME NEW c \in Conn, Accept(c) \/ Hangup(c) PROVE SessionInv'
  BY <1>1, <1>2 DEF Accept, Hangup, shared
<1>3. ASSUME NEW c \in Conn, NEW u \in UserId, check_user(c, u) PROVE SessionInv'
  <2>1. client_infos' = client_infos /\ cleanup_duty' = cleanup_duty BY <1>3 DEF check_user, shared
  <2>2. state[c] = "new" /\ state'[c] = "checked" /\ who'[c] = u BY <1>3 DEF check_user
  <2>3. \A d \in Conn \ {c} : state'[d] = state[d] /\ who'[d] = who[d] BY <1>3 DEF check_user
  <2> QED BY <2>1, <2>2, <2>3 DEF SessionInv, Listed, Ending
<1>4. ASSUME NEW c \in Conn, login_refused(c) PROVE SessionInv'
  <2>1. client_infos' = client_infos /\ cleanup_duty' = cleanup_duty
    BY <1>4 DEF login_refused, shared
  <2>2. state[c] = "checked" /\ state'[c] = "closed" BY <1>4 DEF login_refused
  <2>3. \A d \in Conn \ {c} : state'[d] = state[d] /\ who'[d] = who[d] BY <1>4 DEF login_refused
  <2> QED BY <2>1, <2>2, <2>3 DEF SessionInv, Listed, Ending
<1>5. ASSUME NEW c \in Conn, login(c) PROVE SessionInv'
  <2>1. PICK u \in UserId : who[c] = u BY <1>5 DEF login, SessionInv
  <2>2. /\ state[c] = "checked" /\ state'[c] = "greet" /\ who' = who
        /\ cleanup_duty' = cleanup_duty /\ u \notin cleanup_duty
        /\ client_infos[u] = None /\ client_infos' = [client_infos EXCEPT ![u] = c]
        /\ \A d \in Conn \ {c} : state'[d] = state[d]
    BY <1>5, <2>1 DEF login, MayLogin
  <2>3. \A d \in Conn \ {c} : state[d] \in Listed \/ state[d] = "offline" => who[d] # u
    BY <2>2, SessionsAssumption DEF SessionInv, Ending, Listed
  <2>4. \A v \in UserId : client_infos[v] # c
    BY <2>2, SessionsAssumption DEF SessionInv, Listed
  <2> QED BY <2>1, <2>2, <2>3, <2>4, SessionsAssumption DEF SessionInv, Listed, Ending
<1>6. ASSUME NEW c \in Conn, state[c] \in {"online", "packet"}, drop(c) PROVE SessionInv'
  <2>1. /\ state'[c] = "cleanup" /\ who' = who /\ client_infos' = client_infos
        /\ cleanup_duty' = cleanup_duty \cup {who[c]}
        /\ \A d \in Conn \ {c} : state'[d] = state[d]
    BY <1>6 DEF drop
  <2> QED BY <1>6, <2>1 DEF SessionInv, Listed, Ending
<1>7. ASSUME NEW c \in Conn, RemoveInfos(c) PROVE SessionInv'
  <2>1. PICK u \in UserId : who[c] = u BY <1>7 DEF RemoveInfos, SessionInv, Listed
  <2>2. /\ state[c] = "infos" /\ state'[c] = "offline" /\ who' = who
        /\ cleanup_duty' = cleanup_duty
        /\ client_infos' = [client_infos EXCEPT ![u] = None]
        /\ \A d \in Conn \ {c} : state'[d] = state[d]
    BY <1>7, <2>1 DEF RemoveInfos
  <2>3. \A d \in Conn \ {c} : state[d] \in Authentified => who[d] # u
    BY <2>1, <2>2, OneSessionOf DEF OneSession, Authentified
  <2> QED BY <2>1, <2>2, <2>3, SessionsAssumption DEF SessionInv, Listed, Ending, Authentified
<1>8. ASSUME NEW c \in Conn, CleanupDone(c) PROVE SessionInv'
  <2>1. /\ state[c] = "offline" /\ state'[c] = "closed" /\ client_infos' = client_infos
        /\ cleanup_duty' = cleanup_duty \ {who[c]}
        /\ \A d \in Conn \ {c} : state'[d] = state[d] /\ who'[d] = who[d]
    BY <1>8 DEF CleanupDone
  <2>2. \A d \in Conn \ {c} : state[d] \in Authentified => who[d] # who[c]
    BY <2>1, OneSessionOf DEF OneSession, Authentified
  <2> QED BY <2>1, <2>2 DEF SessionInv, Listed, Ending, Authentified
<1>9. CASE UNCHANGED <<state, who, shared>> BY <1>1, <1>9
<1>10. ASSUME NEW c \in Conn, \/ Header(c) \/ interpret_command(c) \/ reset_state(c)
                              \/ Greeted(c) \/ ResetDone(c) \/ CleanDone(c)
       PROVE  SessionInv'
  <2>1. UNCHANGED <<who, shared>>
    BY <1>10, Zenon DEF Header, interpret_command, reset_state, Greeted, ResetDone, CleanDone
  <2>2. \A d \in Conn : \/ state'[d] = state[d]
                        \/ state[d] \in Listed /\ state'[d] \in Listed \ Ending
                        \/ state[d] = "cleanup" /\ state'[d] = "infos"
    BY <1>10 DEF Header, interpret_command, reset_state, Greeted, ResetDone, CleanDone, Listed,
                Ending
  <2> QED BY <1>1, <2>1, <2>2
<1>11. ASSUME NEW c \in Conn,
              \/ \E g \in ComId : get_com_id_with_redir(c, g)
              \/ RoomCommand(c) \/ Send(c) \/ SendGone(c) \/ Write(c)
              \/ \E f \in UserId : LookUp(c, f)
              \/ \E k \in RoomKey : LeaveRoom(c, k)
       PROVE  SessionInv'
  BY <1>9, <1>11, Zenon
  DEF get_com_id_with_redir, RoomCommand, Send, SendGone, Write, LookUp, LeaveRoom, task
<1>12. ASSUME NEW u \in UserId, ban_user(u) \/ kick(u) PROVE SessionInv'
  BY <1>9, <1>12, Zenon DEF ban_user, kick, task
<1>13. CASE UNCHANGED vars BY <1>9, <1>13, Zenon DEF vars, task
<1> QED
  BY <1>2, <1>3, <1>4, <1>5, <1>6, <1>7, <1>8, <1>10, <1>11, <1>12, <1>13
  DEF Next, Runs, Disconnect, Kicked

-----------------------------------------------------------------------------
(* Notifications.                                                          *)

(* Task c is still to tell the client of f at connection t about user u.   *)
Tells(c, u, f, t) ==
    state[c] \in Telling /\ who[c] = u /\ (f \in todo[c] \/ sending[c] = t)

(* FriendsTold for the client of f at connection t.                        *)
Knows(u, f, t) ==
    \/ u \in overtaken[t]
    \/ \E c \in Conn : Tells(c, u, f, t)
    \/ u \in told[t] <=> client_infos[u] # None

Mutual(u, f) == f \in Friends[u] /\ u \in Friends[f]

(* FriendsTold says so of every connected pair of friends.                 *)
AllKnow ==
    \A u, f \in UserId :
      Mutual(u, f) /\ client_infos[f] # None => Knows(u, f, client_infos[f])

(* It says the same.                                                       *)
LEMMA FriendsToldForms == FriendsTold <=> AllKnow
BY Zenon DEF FriendsTold, AllKnow, Informed, News, Knows, Tells, Mutual

(* Every step keeps senders telling.                                       *)
LEMMA SenderStep == ASSUME Types, SessionInv, SenderInv, [Next]_vars PROVE SenderInv'
<1>0. /\ state \in [Conn -> State] /\ who \in [Conn -> UserId \cup {None}]
      /\ todo \in [Conn -> SUBSET (UserId \cup RoomKey)]
      /\ client_infos \in [UserId -> Conn \cup {None}]
  BY DEF Types
<1> USE <1>0
<1>1. ASSUME UNCHANGED <<sending, told, overtaken>>,
             \A d \in Conn : state[d] \in Telling /\ sending[d] # None => state'[d] \in Telling
      PROVE  SenderInv'
  BY <1>1 DEF SenderInv
<1>2. ASSUME NEW c \in Conn, Accept(c) PROVE SenderInv'
  <2>1. /\ sending' \in [Conn -> Conn \cup {None, Gone}]
        /\ told' \in [Conn -> SUBSET UserId] /\ overtaken' \in [Conn -> SUBSET UserId]
    BY <1>2 DEF Accept, SenderInv
  <2>2. state[c] = "closed" /\ \A d \in Conn \ {c} : state'[d] = state[d] BY <1>2 DEF Accept
  <2>3. sending[c] = None BY <2>2 DEF SenderInv, Telling
  <2>4. \A d \in Conn : sending[d] = None => sending'[d] = None
    BY <1>2, SessionsAssumption DEF Accept
  <2> QED BY <2>1, <2>2, <2>3, <2>4 DEF SenderInv
<1>3. ASSUME NEW c \in Conn, login(c) PROVE SenderInv'
  <2>1. who[c] \in UserId BY <1>3 DEF login, SessionInv
  <2>2. Friends[who[c]] \in SUBSET UserId BY <2>1, SessionsAssumption
  <2>3. /\ sending' = sending /\ overtaken' = overtaken
        /\ told' = [told EXCEPT ![c] = {f \in Friends[who[c]] : client_infos[f] # None}]
        /\ state'[c] = "greet" /\ \A d \in Conn \ {c} : state'[d] = state[d]
    BY <1>3 DEF login
  <2> QED BY <2>2, <2>3 DEF SenderInv, Telling
<1>4. ASSUME NEW c \in Conn, NEW f \in UserId, LookUp(c, f) PROVE SenderInv'
  BY <1>4 DEF LookUp, SenderInv, channels
<1>5. ASSUME NEW c \in Conn, Send(c) PROVE SenderInv'
  <2>1. state[c] \in Telling /\ sending[c] \in Conn
    BY <1>5, SessionsAssumption DEF Send, SenderInv
  <2>2. who[c] \in UserId BY <2>1 DEF SessionInv, Telling, Listed
  <2>3. told' \in [Conn -> SUBSET UserId] /\ overtaken' \in [Conn -> SUBSET UserId]
    BY <1>5, <2>1, <2>2 DEF Send, SenderInv
  <2>4. sending' = [sending EXCEPT ![c] = None] /\ state' = state BY <1>5 DEF Send
  <2> QED BY <2>3, <2>4 DEF SenderInv
<1>6. ASSUME NEW c \in Conn, SendGone(c) PROVE SenderInv'
  BY <1>6 DEF SendGone, SenderInv, channels
<1>7. ASSUME NEW c \in Conn,
             \/ Hangup(c) \/ login_refused(c) \/ \E u \in UserId : check_user(c, u)
             \/ Header(c) \/ interpret_command(c) \/ reset_state(c) \/ (state[c] \in {"online", "packet"} /\ drop(c))
             \/ Greeted(c) \/ ResetDone(c) \/ CleanDone(c) \/ RemoveInfos(c) \/ CleanupDone(c)
      PROVE  SenderInv'
  <2>1. UNCHANGED <<sending, told, overtaken>>
    BY <1>7, Zenon DEF Hangup, login_refused, check_user, Header, interpret_command, reset_state, drop, Greeted,
                       ResetDone, CleanDone, RemoveInfos, CleanupDone, channels
  <2>2. \A d \in Conn : state[d] \in Telling /\ sending[d] # None => state'[d] \in Telling
    BY <1>7, Zenon DEF Hangup, login_refused, check_user, Header, interpret_command, reset_state, drop, Greeted,
                ResetDone, CleanDone, RemoveInfos, CleanupDone, Telling
  <2> QED BY <1>1, <2>1, <2>2
<1>8. CASE UNCHANGED <<state, sending, told, overtaken>> BY <1>1, <1>8
<1>9. ASSUME NEW c \in Conn,
             \/ \E g \in ComId : get_com_id_with_redir(c, g)
             \/ RoomCommand(c) \/ Write(c)
             \/ \E k \in RoomKey : LeaveRoom(c, k)
      PROVE  SenderInv'
  BY <1>8, <1>9, Zenon DEF get_com_id_with_redir, RoomCommand, Write, LeaveRoom, task, channels
<1>10. CASE (\E u \in UserId : ban_user(u) \/ kick(u)) \/ UNCHANGED vars
  BY <1>8, <1>10, Zenon DEF ban_user, kick, vars, task, channels
<1> QED
  BY <1>2, <1>3, <1>4, <1>5, <1>6, <1>7, <1>9, <1>10, ZenonT(30) DEF Next, Runs, Disconnect, Kicked

(* A step that logs nobody in or out, says nothing to a client that is     *)
(* logged in and leaves what its tasks have still to tell.                 *)
LEMMA QuietKnows ==
    ASSUME Types, SessionInv, AllKnow, client_infos' = client_infos,
           \A t \in Conn : state[t] \in Listed =>
             told'[t] = told[t] /\ overtaken'[t] = overtaken[t],
           \A c \in Conn, u, f \in UserId :
             client_infos[f] # None /\ Tells(c, u, f, client_infos[f])
               => Tells(c, u, f, client_infos[f])'
    PROVE  AllKnow'
<1> SUFFICES ASSUME NEW u \in UserId, NEW f \in UserId, Mutual(u, f), client_infos[f] # None
             PROVE  Knows(u, f, client_infos[f])'
  BY DEF AllKnow, Mutual
<1>1. PICK t \in Conn : client_infos[f] = t BY DEF Types
<1>2. state[t] \in Listed BY <1>1, SessionsAssumption, SMTT(30) DEF SessionInv
<1>3. Knows(u, f, t) BY <1>1, SessionsAssumption DEF AllKnow
<1>4. told'[t] = told[t] /\ overtaken'[t] = overtaken[t] BY <1>2
<1>5. ASSUME NEW c \in Conn, Tells(c, u, f, t) PROVE Tells(c, u, f, client_infos[f])'
  BY <1>1, <1>5, SessionsAssumption
<1> QED BY <1>1, <1>3, <1>4, <1>5, Zenon DEF Knows

(* Every step keeps the clients informed.                                  *)
LEMMA KnowStep ==
    ASSUME Types, SessionInv, SenderInv, AllKnow, [Next]_vars
    PROVE  AllKnow'
<1>0. /\ state \in [Conn -> State] /\ who \in [Conn -> UserId \cup {None}]
      /\ todo \in [Conn -> SUBSET (UserId \cup RoomKey)]
      /\ client_infos \in [UserId -> Conn \cup {None}]
  BY DEF Types
<1> USE <1>0
<1>1. CASE UNCHANGED <<state, who, todo, sending, client_infos, told, overtaken>>
  BY <1>1, QuietKnows, Zenon DEF Tells
<1>2. ASSUME NEW c \in Conn, Accept(c) PROVE AllKnow'
  <2>1. /\ state[c] = "closed" /\ state'[c] = "new" /\ UNCHANGED <<client_infos, who, todo>>
        /\ sending' = [d \in Conn |-> IF sending[d] = c THEN Gone ELSE sending[d]]
        /\ \A d \in Conn \ {c} : /\ state'[d] = state[d] /\ told'[d] = told[d]
                                 /\ overtaken'[d] = overtaken[d]
    BY <1>2 DEF Accept, shared
  <2>2. \A t \in Conn : state[t] \in Listed =>
          t # c /\ told'[t] = told[t] /\ overtaken'[t] = overtaken[t]
    BY <2>1 DEF Listed
  <2>3. ASSUME NEW d \in Conn, NEW u \in UserId, NEW f \in UserId, client_infos[f] # None,
               Tells(d, u, f, client_infos[f])
        PROVE  Tells(d, u, f, client_infos[f])'
    <3>1. PICK t \in Conn : client_infos[f] = t /\ t # c
      BY <2>2, <2>3 DEF SessionInv
    <3>2. state'[d] = state[d] BY <2>1, <2>3 DEF Tells, Telling
    <3> QED BY <2>1, <2>3, <3>1, <3>2 DEF Tells
  <2> QED BY <2>1, <2>2, <2>3, QuietKnows, ZenonT(30)
<1>3. ASSUME NEW c \in Conn, NEW g \in UserId, LookUp(c, g) PROVE AllKnow'
  <2>1. /\ UNCHANGED <<client_infos, who, state, told, overtaken>>
        /\ state[c] \in Telling /\ sending[c] = None
        /\ todo'[c] = todo[c] \ {g} /\ sending'[c] = client_infos[g]
        /\ \A d \in Conn \ {c} : todo'[d] = todo[d] /\ sending'[d] = sending[d]
    BY <1>3 DEF LookUp, shared, channels, SenderInv
  <2>2. ASSUME NEW d \in Conn, NEW u \in UserId, NEW f \in UserId, client_infos[f] # None,
               Tells(d, u, f, client_infos[f])
        PROVE  Tells(d, u, f, client_infos[f])'
    BY <2>1, <2>2 DEF Tells
  <2> QED BY <2>1, <2>2, QuietKnows
<1>4. ASSUME NEW c \in Conn,
             \/ Hangup(c) \/ login_refused(c) \/ \E u \in UserId : check_user(c, u)
             \/ Header(c) \/ interpret_command(c) \/ reset_state(c) \/ (state[c] \in {"online", "packet"} /\ drop(c))
             \/ Greeted(c) \/ ResetDone(c) \/ CleanDone(c) \/ CleanupDone(c)
             \/ SendGone(c) \/ \E k \in RoomKey : LeaveRoom(c, k)
      PROVE  AllKnow'
  <2>1. UNCHANGED <<client_infos, told, overtaken>>
    BY <1>4, Zenon DEF Hangup, login_refused, check_user, Header, interpret_command, reset_state, drop, Greeted,
                       ResetDone, CleanDone, CleanupDone, SendGone, LeaveRoom, shared, channels
  <2>2. \A d \in Conn : \/ state[d] \notin Telling
                        \/ todo[d] = {} /\ sending[d] = None
                        \/ /\ state'[d] = state[d] /\ who'[d] = who[d] /\ todo'[d] = todo[d]
                           /\ sending'[d] = sending[d] \/ sending[d] = Gone
    BY <1>4, ZenonT(30) DEF Hangup, login_refused, check_user, Header, interpret_command, reset_state, drop, Greeted,
                ResetDone, CleanDone, CleanupDone, SendGone, LeaveRoom, Telling, SenderInv
  <2>3. ASSUME NEW d \in Conn, NEW u \in UserId, NEW f \in UserId, client_infos[f] # None,
               Tells(d, u, f, client_infos[f])
        PROVE  Tells(d, u, f, client_infos[f])'
    BY <2>1, <2>2, <2>3, SessionsAssumption DEF Tells
  <2> QED BY <2>1, <2>3, QuietKnows
<1>5. ASSUME NEW c \in Conn, login(c) PROVE AllKnow'
  <2>1. PICK w \in UserId : who[c] = w BY <1>5 DEF login, SessionInv
  <2>2. /\ state[c] = "checked" /\ state'[c] = "greet" /\ UNCHANGED <<who, sending, overtaken>>
        /\ todo'[c] = Friends[w] /\ told'[c] = {f \in Friends[w] : client_infos[f] # None}
        /\ client_infos[w] = None /\ client_infos' = [client_infos EXCEPT ![w] = c]
        /\ \A d \in Conn \ {c} : /\ state'[d] = state[d] /\ todo'[d] = todo[d]
                                 /\ told'[d] = told[d]
    BY <1>5, <2>1 DEF login, MayLogin, SenderInv
  <2> SUFFICES ASSUME NEW u \in UserId, NEW f \in UserId, Mutual(u, f), client_infos'[f] # None
               PROVE  Knows(u, f, client_infos[f])'
    BY DEF AllKnow, Mutual
  <2>3. CASE u = w
    <3>1. Tells(c, u, f, client_infos[f])' BY <2>1, <2>2, <2>3 DEF Tells, Telling, Mutual
    <3> QED BY <3>1 DEF Knows
  <2>4. CASE u # w /\ f = w
    <3>1. client_infos'[f] = c /\ client_infos'[u] = client_infos[u] BY <2>2, <2>4, ZenonT(30)
    <3>2. u \in told'[c] <=> client_infos[u] # None BY <2>2, <2>4 DEF Mutual
    <3> QED BY <3>1, <3>2 DEF Knows
  <2>5. CASE u # w /\ f # w
    <3>1. PICK t \in Conn : client_infos[f] = t /\ client_infos'[f] = t BY <2>2, <2>5
    <3>2. client_infos'[u] = client_infos[u] BY <2>2, <2>5, SMTT(30)
    <3>3. t # c BY <2>2, <3>1, SessionsAssumption DEF SessionInv, Listed
    <3>4. Knows(u, f, t) BY <3>1, SessionsAssumption DEF AllKnow
    <3>5. ASSUME NEW d \in Conn, Tells(d, u, f, t) PROVE Tells(d, u, f, client_infos[f])'
      <4>1. d # c BY <2>2, <3>5, ZenonT(30) DEF Tells, Telling
      <4> QED BY <2>2, <3>1, <3>5, <4>1 DEF Tells
    <3>6. told'[t] = told[t] /\ overtaken'[t] = overtaken[t] BY <2>2, <3>3
    <3> QED BY <3>1, <3>2, <3>4, <3>5, <3>6, Zenon DEF Knows
  <2> QED BY <2>3, <2>4, <2>5
<1>6. ASSUME NEW c \in Conn, RemoveInfos(c) PROVE AllKnow'
  <2>1. PICK w \in UserId : who[c] = w BY <1>6, ZenonT(30) DEF RemoveInfos, SessionInv, Listed
  <2>2. /\ state[c] = "infos" /\ state'[c] = "offline"
        /\ UNCHANGED <<who, sending, told, overtaken>>
        /\ todo'[c] = Friends[w] /\ client_infos' = [client_infos EXCEPT ![w] = None]
        /\ \A d \in Conn \ {c} : state'[d] = state[d] /\ todo'[d] = todo[d]
    BY <1>6, <2>1 DEF RemoveInfos, channels
  <2> SUFFICES ASSUME NEW u \in UserId, NEW f \in UserId, Mutual(u, f), client_infos'[f] # None
               PROVE  Knows(u, f, client_infos[f])'
    BY DEF AllKnow, Mutual
  <2>3. CASE u = w
    <3>1. Tells(c, u, f, client_infos[f])' BY <2>1, <2>2, <2>3 DEF Tells, Telling, Mutual
    <3> QED BY <3>1 DEF Knows
  <2>4. CASE u # w
    <3>1. PICK t \in Conn : client_infos[f] = t /\ client_infos'[f] = t BY <2>2
    <3>2. client_infos'[u] = client_infos[u] BY <2>2, <2>4
    <3>3. Knows(u, f, t) BY <3>1, SessionsAssumption DEF AllKnow
    <3>4. ASSUME NEW d \in Conn, Tells(d, u, f, t) PROVE Tells(d, u, f, client_infos[f])'
      <4>1. d # c BY <2>2, <3>4, ZenonT(30) DEF Tells, Telling
      <4> QED BY <2>2, <3>1, <3>4, <4>1 DEF Tells
    <3> QED BY <2>2, <3>1, <3>2, <3>3, <3>4, Zenon DEF Knows
  <2> QED BY <2>3, <2>4
<1>7. ASSUME NEW c \in Conn, Send(c) PROVE AllKnow'
  <2>1. PICK t \in Conn : sending[c] = t BY <1>7 DEF Send
  <2>2. state[c] \in Telling BY <2>1, SessionsAssumption DEF SenderInv
  <2>3. PICK w \in UserId : who[c] = w BY <2>2 DEF SessionInv, Telling, Listed
  <2>4. /\ UNCHANGED <<client_infos, state, who, todo>> /\ sending'[c] = None
        /\ \A d \in Conn \ {c} : sending'[d] = sending[d]
        /\ \A d \in Conn \ {t} : told'[d] = told[d] /\ overtaken'[d] = overtaken[d]
        /\ \A v \in UserId \ {w} : /\ v \in told'[t] <=> v \in told[t]
                                   /\ v \in overtaken'[t] <=> v \in overtaken[t]
    BY <1>7, <2>1, <2>3 DEF Send, shared, SenderInv
  <2>5. w \in overtaken'[t] \/ (w \in told'[t] <=> state[c] = "greet")
    BY <1>7, <2>1, <2>3 DEF Send, SenderInv
  <2>6. state[c] = "greet" <=> client_infos[w] # None
    BY <2>2, <2>3, SessionsAssumption DEF SessionInv, Telling, Listed
  <2> SUFFICES ASSUME NEW u \in UserId, NEW f \in UserId, Mutual(u, f), client_infos'[f] # None
               PROVE  Knows(u, f, client_infos[f])'
    BY SMTT(30) DEF AllKnow, Mutual
  <2>7. PICK s \in Conn : client_infos[f] = s /\ client_infos'[f] = s BY <2>4, ZenonT(30)
  <2>8. CASE u = w /\ s = t BY <2>4, <2>5, <2>6, <2>7, <2>8, Zenon DEF Knows
  <2>9. CASE u # w \/ s # t
    <3>1. Knows(u, f, s) BY <2>7, SessionsAssumption, SMTT(30) DEF AllKnow
    <3>2. ASSUME NEW d \in Conn, Tells(d, u, f, s) PROVE Tells(d, u, f, client_infos[f])'
      BY <2>1, <2>3, <2>4, <2>7, <2>9, <3>2 DEF Tells
    <3>3. (u \in told'[s] <=> u \in told[s]) /\ (u \in overtaken'[s] <=> u \in overtaken[s])
      BY <2>4, <2>9, Zenon
    <3> QED BY <2>4, <2>7, <3>1, <3>2, <3>3, Zenon DEF Knows
  <2> QED BY <2>8, <2>9
<1>8. ASSUME NEW c \in Conn,
             \/ \E g \in ComId : get_com_id_with_redir(c, g)
             \/ RoomCommand(c) \/ Write(c)
      PROVE  AllKnow'
  BY <1>1, <1>8, Zenon DEF get_com_id_with_redir, RoomCommand, Write, task, shared, channels
<1>9. CASE (\E u \in UserId : ban_user(u) \/ kick(u)) \/ UNCHANGED vars
  BY <1>1, <1>9, Zenon DEF ban_user, kick, vars, task, shared, channels
<1> QED
  BY <1>2, <1>3, <1>4, <1>5, <1>6, <1>7, <1>8, <1>9, ZenonT(30) DEF Next, Runs, Disconnect, Kicked

-----------------------------------------------------------------------------
(* RoomInv, one membership at a time.                                      *)
RoomInv1 ==
    /\ \A c \in Conn, k \in RoomKey : state[c] = "cleanup" /\ In(who[c], k) => k \in todo[c]
    /\ \A u \in UserId, k \in RoomKey : In(u, k) =>
         client_infos[u] # None /\ state[client_infos[u]] # "infos"

(* It says the same.                                                       *)
LEMMA RoomInvForms == Types => (RoomInv <=> RoomInv1)
BY SMTT(30) DEF Types, RoomInv, RoomInv1, In, RoomsOf

(* Every step keeps what is known of the rooms of a user.                  *)
LEMMA RoomStep == ASSUME Types, SessionInv, RoomInv1, [Next]_vars PROVE RoomInv1'
<1>0. /\ state \in [Conn -> State] /\ who \in [Conn -> UserId \cup {None}]
      /\ todo \in [Conn -> SUBSET (UserId \cup RoomKey)]
      /\ client_infos \in [UserId -> Conn \cup {None}]
  BY DEF Types
<1> USE <1>0
<1>1. ASSUME client_infos' = client_infos,
             \A v \in UserId, k \in RoomKey : In(v, k)' => In(v, k),
             \A d \in Conn : /\ state'[d] = "infos" => state[d] = "infos"
                             /\ state'[d] = "cleanup" =>
                                  state[d] = "cleanup" /\ who'[d] = who[d] /\ todo'[d] = todo[d]
      PROVE  RoomInv1'
  <2>1. \A d \in Conn : state[d] = "cleanup" => who[d] \in UserId BY DEF SessionInv, Listed
  <2>2. ASSUME NEW d \in Conn, NEW k \in RoomKey, state'[d] = "cleanup", In(who[d], k)'
        PROVE  k \in todo'[d]
    <3>1. PICK u \in UserId : who[d] = u /\ who'[d] = u BY <1>1, <2>1, <2>2
    <3>2. In(u, k)' BY <2>2, <3>1 DEF In
    <3> QED BY <1>1, <2>2, <3>1, <3>2 DEF RoomInv1
  <2> QED BY <1>1, <2>2 DEF RoomInv1
<1>2. ASSUME room' = room PROVE \A v, k : In(v, k)' <=> In(v, k) BY <1>2 DEF In
<1>3. ASSUME NEW c \in Conn,
             \/ Accept(c) \/ Hangup(c) \/ login_refused(c)
             \/ Header(c) \/ interpret_command(c) \/ reset_state(c) \/ Greeted(c) \/ ResetDone(c) \/ CleanupDone(c)
             \/ \E u \in UserId : check_user(c, u)
             \/ \E f \in UserId : LookUp(c, f)
      PROVE  RoomInv1'
  <2>1. client_infos' = client_infos /\ room' = room
    BY <1>3, ZenonT(30) DEF Accept, Hangup, login_refused, Header, interpret_command,
                       reset_state, Greeted, ResetDone,
                       CleanupDone, check_user, LookUp, shared, rooms
  <2>2. \A d \in Conn : /\ state'[d] = "infos" => state[d] = "infos"
                        /\ state'[d] = "cleanup" =>
                             state[d] = "cleanup" /\ who'[d] = who[d] /\ todo'[d] = todo[d]
    BY <1>3, ZenonT(30) DEF Accept, Hangup, login_refused, Header, interpret_command,
                       reset_state, Greeted, ResetDone,
                CleanupDone, check_user, LookUp, Telling
  <2> QED BY <1>1, <1>2, <2>1, <2>2
<1>4. ASSUME UNCHANGED <<state, who, todo, client_infos, room>> PROVE RoomInv1'
  BY <1>1, <1>2, <1>4
<1>5. ASSUME NEW c \in Conn, login(c) PROVE RoomInv1'
  <2>1. PICK u \in UserId : who[c] = u BY <1>5 DEF login, SessionInv
  <2>2. /\ state'[c] = "greet" /\ who' = who /\ room' = room
        /\ client_infos[u] = None /\ client_infos' = [client_infos EXCEPT ![u] = c]
        /\ \A d \in Conn \ {c} : state'[d] = state[d] /\ todo'[d] = todo[d]
    BY <1>5, <2>1 DEF login, MayLogin, rooms
  <2>3. \A v, k : In(v, k)' <=> In(v, k) BY <2>2 DEF In
  <2>4. ASSUME NEW d \in Conn, NEW k \in RoomKey, state'[d] = "cleanup", In(who[d], k)'
        PROVE  k \in todo'[d]
    <3>1. In(who[d], k) BY <2>2, <2>4 DEF In
    <3> QED BY <2>2, <2>4, <3>1 DEF RoomInv1
  <2>5. ASSUME NEW v \in UserId, NEW k \in RoomKey, In(v, k)'
        PROVE  client_infos'[v] # None /\ state'[client_infos'[v]] # "infos"
    <3>1. v # u /\ client_infos[v] \in Conn /\ state[client_infos[v]] # "infos"
      BY <2>2, <2>3, <2>5, SMTT(30) DEF RoomInv1
    <3> QED BY <2>2, <3>1, SessionsAssumption
  <2> QED BY <2>4, <2>5 DEF RoomInv1
<1>6. ASSUME NEW c \in Conn, RoomCommand(c) PROVE RoomInv1'
  <2>1. PICK u \in UserId : who[c] = u /\ client_infos[u] = c
    BY <1>6, SMTT(30) DEF RoomCommand, SessionInv, Listed
  <2>2. state[c] = "packet" /\ UNCHANGED <<state, who, todo, client_infos>>
    BY <1>6, SMTT(30) DEF RoomCommand, task, shared
  <2>3. \A v \in UserId, k \in RoomKey : v # u => (In(v, k)' => In(v, k))
    <3>1. CASE \/ \E k \in RoomKey : Rooms!Create(u, k, 2)
               \/ \E k \in DOMAIN room : Rooms!Join(u, k)
      BY ONLY Types, u \in UserId, <3>1, RoomEnter, SMT
    <3>2. CASE \E k \in DOMAIN room : Rooms!Leave(u, k) \/ Rooms!LeaveLast(u, k)
      BY ONLY Types, u \in UserId, <3>2, RoomLeave, SMT
    <3> QED BY <1>6, <2>1, <3>1, <3>2, Zenon DEF RoomCommand
  <2>4. ASSUME NEW d \in Conn, NEW k \in RoomKey, state'[d] = "cleanup", In(who[d], k)'
        PROVE  k \in todo'[d]
    <3>1. PICK v \in UserId : who[d] = v /\ v # u
      BY <2>1, <2>2, <2>4 DEF SessionInv, Listed
    <3>2. In(v, k)' BY <2>2, <2>4, <3>1 DEF In
    <3> QED BY <2>2, <2>3, <2>4, <3>1, <3>2 DEF RoomInv1
  <2>5. ASSUME NEW v \in UserId, NEW k \in RoomKey, In(v, k)'
        PROVE  client_infos'[v] # None /\ state'[client_infos'[v]] # "infos"
    <3>1. CASE v = u BY <2>1, <2>2, <3>1, SessionsAssumption
    <3>2. CASE v # u BY <2>2, <2>3, <2>5, <3>2 DEF RoomInv1
    <3> QED BY <3>1, <3>2
  <2> QED BY <2>4, <2>5 DEF RoomInv1
<1>7. ASSUME NEW c \in Conn, state[c] \in {"online", "packet"}, drop(c) PROVE RoomInv1'
  <2>1. /\ state'[c] = "cleanup" /\ todo'[c] = RoomsOf(who[c])
        /\ UNCHANGED <<who, client_infos, room>>
        /\ \A d \in Conn \ {c} : state'[d] = state[d] /\ todo'[d] = todo[d]
    BY <1>7 DEF drop, rooms
  <2>2. \A v, k : In(v, k)' <=> In(v, k) BY <2>1 DEF In
  <2>3. ASSUME NEW d \in Conn, NEW k \in RoomKey, state'[d] = "cleanup", In(who[d], k)'
        PROVE  k \in todo'[d]
    <3>1. In(who[d], k) BY <2>1, <2>3 DEF In
    <3>2. CASE d = c BY <2>1, <3>1, <3>2 DEF In, RoomsOf
    <3>3. CASE d # c BY <2>1, <2>3, <3>1, <3>3, SMTT(30) DEF RoomInv1
    <3> QED BY <3>2, <3>3
  <2>4. ASSUME NEW v \in UserId, NEW k \in RoomKey, In(v, k)'
        PROVE  client_infos'[v] # None /\ state'[client_infos'[v]] # "infos"
    BY <2>1, <2>2, <2>4, SMTT(30) DEF RoomInv1
  <2> QED BY <2>3, <2>4 DEF RoomInv1
<1>8. ASSUME NEW c \in Conn, NEW k \in RoomKey, LeaveRoom(c, k) PROVE RoomInv1'
  <2>1. PICK u \in UserId : who[c] = u BY <1>8 DEF LeaveRoom, SessionInv, Listed
  <2>2. /\ UNCHANGED <<state, who, client_infos>> /\ todo'[c] = todo[c] \ {k}
        /\ \A d \in Conn \ {c} : todo'[d] = todo[d]
    BY <1>8, SMTT(30) DEF LeaveRoom, shared
  <2>3. ~In(u, k)' /\ \A v \in UserId, j \in RoomKey : In(v, j)' => In(v, j)
    <3>1. CASE k \in RoomsOf(u) /\ (Rooms!Leave(u, k) \/ Rooms!LeaveLast(u, k))
      <4>1. k \in DOMAIN room BY <3>1 DEF RoomsOf
      <4> QED BY ONLY Types, u \in UserId, <3>1, <4>1, RoomLeave, SMT
    <3>2. CASE k \notin RoomsOf(u) /\ room' = room BY <3>2 DEF RoomsOf, In
    <3> QED BY <1>8, <2>1, <3>1, <3>2, Zenon DEF LeaveRoom, rooms
  <2>4. ASSUME NEW d \in Conn, NEW j \in RoomKey, state'[d] = "cleanup", In(who[d], j)'
        PROVE  j \in todo'[d]
    <3>1. PICK v \in UserId : who[d] = v BY <2>2, <2>4 DEF SessionInv, Listed
    <3>2. In(v, j)' BY <2>2, <2>4, <3>1 DEF In
    <3>3. j \in todo[d] BY <2>2, <2>3, <2>4, <3>1, <3>2, ZenonT(30) DEF RoomInv1
    <3>4. CASE d = c BY <2>1, <2>2, <2>3, <3>1, <3>2, <3>3, <3>4, SMTT(30)
    <3>5. CASE d # c BY <2>2, <3>3, <3>5, ZenonT(30)
    <3> QED BY <3>4, <3>5
  <2>5. ASSUME NEW v \in UserId, NEW j \in RoomKey, In(v, j)'
        PROVE  client_infos'[v] # None /\ state'[client_infos'[v]] # "infos"
    BY <2>2, <2>3, <2>5 DEF RoomInv1
  <2> QED BY <2>4, <2>5, SMTT(30) DEF RoomInv1
<1>9. ASSUME NEW c \in Conn, CleanDone(c) PROVE RoomInv1'
  <2>1. /\ state[c] = "cleanup" /\ todo[c] = {} /\ state'[c] = "infos"
        /\ UNCHANGED <<who, todo, client_infos, room>>
        /\ \A d \in Conn \ {c} : state'[d] = state[d]
    BY <1>9 DEF CleanDone, shared, rooms
  <2>2. \A v, k : In(v, k)' <=> In(v, k) BY <2>1 DEF In
  <2>3. ASSUME NEW d \in Conn, NEW k \in RoomKey, state'[d] = "cleanup", In(who[d], k)'
        PROVE  k \in todo'[d]
    <3>1. In(who[d], k) BY <2>1, <2>3 DEF In
    <3> QED BY <2>1, <2>3, <3>1 DEF RoomInv1
  <2>4. ASSUME NEW v \in UserId, NEW k \in RoomKey, In(v, k)'
        PROVE  client_infos'[v] # None /\ state'[client_infos'[v]] # "infos"
    <3>1. In(v, k) /\ client_infos[v] \in Conn BY <2>2, <2>4, ZenonT(30) DEF RoomInv1
    <3>2. client_infos[v] # c BY <2>1, <3>1, SessionsAssumption DEF RoomInv1, SessionInv
    <3> QED BY <2>1, <3>1, <3>2, SessionsAssumption DEF RoomInv1
  <2> QED BY <2>3, <2>4 DEF RoomInv1
<1>10. ASSUME NEW c \in Conn, RemoveInfos(c) PROVE RoomInv1'
  <2>1. PICK u \in UserId : who[c] = u /\ client_infos[u] = c
    BY <1>10, ZenonT(30) DEF RemoveInfos, SessionInv, Listed
  <2>2. /\ state[c] = "infos" /\ state'[c] = "offline" /\ who' = who /\ room' = room
        /\ client_infos' = [client_infos EXCEPT ![u] = None]
        /\ \A d \in Conn \ {c} : state'[d] = state[d] /\ todo'[d] = todo[d]
    BY <1>10, <2>1 DEF RemoveInfos, rooms
  <2>3. \A v, k : In(v, k)' <=> In(v, k) BY <2>2, ZenonT(30) DEF In
  <2>4. ASSUME NEW d \in Conn, NEW k \in RoomKey, state'[d] = "cleanup", In(who[d], k)'
        PROVE  k \in todo'[d]
    <3>1. In(who[d], k) BY <2>2, <2>4 DEF In
    <3> QED BY <2>2, <2>4, <3>1, Zenon DEF RoomInv1
  <2>5. ASSUME NEW v \in UserId, NEW k \in RoomKey, In(v, k)'
        PROVE  client_infos'[v] # None /\ state'[client_infos'[v]] # "infos"
    <3>1. v # u /\ client_infos[v] \in Conn /\ state[client_infos[v]] # "infos"
      BY <2>1, <2>2, <2>3, <2>5 DEF RoomInv1
    <3> QED BY <2>2, <3>1, SessionsAssumption
  <2> QED BY <2>4, <2>5 DEF RoomInv1
<1>11. ASSUME NEW c \in Conn,
              \/ \E g \in ComId : get_com_id_with_redir(c, g)
              \/ Send(c) \/ SendGone(c) \/ Write(c)
       PROVE  RoomInv1'
  BY <1>4, <1>11, Zenon DEF get_com_id_with_redir, Send, SendGone, Write, task, shared, rooms
<1>12. ASSUME NEW u \in UserId, ban_user(u) \/ kick(u) PROVE RoomInv1'
  BY <1>4, <1>12, Zenon DEF ban_user, kick, task, shared, rooms
<1>13. CASE UNCHANGED vars BY <1>4, <1>13, Zenon DEF vars, task, shared, rooms
<1> QED
  BY <1>3, <1>5, <1>6, <1>7, <1>8, <1>9, <1>10, <1>11, <1>12, <1>13, SMTT(30)
  DEF Next, Runs, Disconnect, Kicked

-----------------------------------------------------------------------------
(* The game tracker.                                                       *)
Counted == {"greet", "online", "packet", "reset", "cleanup"}
CountedConns == {c \in Conn : state[c] \in Counted}
Players(g) == {c \in Conn : game[c] = g}

(* The tracker with a session more, or less, and a client in another game. *)
LEMMA Cards ==
    ASSUME NEW S \in SUBSET Conn, NEW c \in Conn
    PROVE  /\ IsFiniteSet(S) /\ Cardinality(S) \in Nat
           /\ c \notin S => Cardinality(S \cup {c}) = Cardinality(S) + 1
           /\ c \in S => Cardinality(S \ {c}) = Cardinality(S) - 1
BY SessionsAssumption, FS_Subset, FS_CardinalityType, FS_AddElement, FS_RemoveElement, ZenonT(30)

(* A client goes from one game, or none, to another, or none.              *)
LEMMA RecountExact ==
    ASSUME Types, NEW c \in Conn, NEW g \in ComId \cup {None}, game[c] # g \/ g = None,
           \A h \in ComId : psn_games[h] = Cardinality(Players(h)),
           psn_games' = Recount(c, g), game' = [game EXCEPT ![c] = g]
    PROVE  \A h \in ComId : psn_games'[h] = Cardinality(Players(h)')
<1> SUFFICES ASSUME NEW h \in ComId PROVE psn_games'[h] = Cardinality(Players(h)') OBVIOUS
<1>1. psn_games'[h] = psn_games[h] - (IF h = game[c] THEN 1 ELSE 0) + (IF h = g THEN 1 ELSE 0)
  BY DEF Recount
<1>2. Players(h) \in SUBSET Conn /\ (c \in Players(h) <=> game[c] = h) BY DEF Players
<1>3. CASE h = game[c] /\ h # g
  <2>1. Players(h)' = Players(h) \ {c} BY <1>3, SMTT(30) DEF Players, Types
  <2> QED BY <1>1, <1>2, <1>3, <2>1, Cards
<1>4. CASE h # game[c] /\ h = g
  <2>1. Players(h)' = Players(h) \cup {c} BY <1>4 DEF Players, Types
  <2> QED BY <1>1, <1>2, <1>4, <2>1, Cards, SMTT(30)
<1>5. CASE h # game[c] /\ h # g
  <2>1. Players(h)' = Players(h) BY <1>5 DEF Players, Types
  <2>2. psn_games[h] \in Nat BY <1>2, Cards, Zenon
  <2> QED BY <1>1, <1>5, <2>1, <2>2, SMTT(30)
<1>6. ~(h = game[c] /\ h = g) BY SessionsAssumption
<1> QED BY <1>3, <1>4, <1>5, <1>6, SMTT(30)

(* Every step keeps the tracker exact.                                     *)
LEMMA TrackerStep == ASSUME Types, TrackerExact, [Next]_vars PROVE TrackerExact'
<1>0. state \in [Conn -> State] /\ game \in [Conn -> ComId \cup {None}] BY DEF Types
<1> USE <1>0
<1>1. /\ num_users = Cardinality(CountedConns)
      /\ \A g \in ComId : psn_games[g] = Cardinality(Players(g))
  BY ZenonT(30) DEF TrackerExact, CountedConns, Counted, Players
<1>2. SUFFICES /\ num_users' = Cardinality(CountedConns')
               /\ \A g \in ComId : psn_games'[g] = Cardinality(Players(g)')
  BY ZenonT(30) DEF TrackerExact, CountedConns, Counted, Players
<1>3. ASSUME game' = game PROVE \A g \in ComId : Players(g)' = Players(g)
  BY <1>3 DEF Players
<1>4. ASSUME \A d \in Conn : state[d] \in Counted <=> state'[d] \in Counted
      PROVE  CountedConns' = CountedConns
  BY <1>4 DEF CountedConns
<1>5. CountedConns \in SUBSET Conn BY SMTT(30) DEF CountedConns
<1>6. ASSUME NEW c \in Conn, login(c) PROVE <1>2!1
  <2>1. CountedConns' = CountedConns \cup {c} /\ c \notin CountedConns
    BY <1>6 DEF login, CountedConns, Counted
  <2>2. num_users' = num_users + 1 /\ UNCHANGED <<game, psn_games>> BY <1>6 DEF login
  <2> QED BY <1>1, <1>3, <1>5, <2>1, <2>2, Cards, SMTT(30)
<1>7. ASSUME NEW c \in Conn, CleanDone(c) PROVE <1>2!1
  <2>1. CountedConns' = CountedConns \ {c} /\ c \in CountedConns
    BY <1>7 DEF CleanDone, CountedConns, Counted
  <2>2. num_users' = num_users - 1 BY <1>7 DEF CleanDone
  <2>3. num_users' = Cardinality(CountedConns') BY <1>1, <1>5, <2>1, <2>2, Cards, SMTT(30)
  <2>4. \A g \in ComId : psn_games'[g] = Cardinality(Players(g)')
    BY <1>1, <1>7, RecountExact, ZenonT(30) DEF CleanDone
  <2> QED BY <2>3, <2>4
<1>8. ASSUME NEW c \in Conn, ResetDone(c) PROVE <1>2!1
  <2>1. CountedConns' = CountedConns /\ num_users' = num_users
    BY <1>8 DEF ResetDone, CountedConns, Counted
  <2>2. \A g \in ComId : psn_games'[g] = Cardinality(Players(g)')
    BY <1>1, <1>8, RecountExact, ZenonT(30) DEF ResetDone
  <2> QED BY <1>1, <2>1, <2>2
<1>9. ASSUME NEW c \in Conn, NEW g \in ComId, get_com_id_with_redir(c, g) PROVE <1>2!1
  <2>1. CountedConns' = CountedConns /\ num_users' = num_users
    BY <1>9 DEF get_com_id_with_redir, task, CountedConns
  <2>2. \A h \in ComId : psn_games'[h] = Cardinality(Players(h)')
    BY <1>1, <1>9, RecountExact, ZenonT(30) DEF get_com_id_with_redir
  <2> QED BY <1>1, <2>1, <2>2
<1>10. ASSUME UNCHANGED tracker, CountedConns' = CountedConns PROVE <1>2!1
  BY <1>1, <1>3, <1>10 DEF tracker
<1>11. ASSUME NEW c \in Conn,
              \/ Accept(c) \/ Hangup(c) \/ login_refused(c) \/ \E u \in UserId : check_user(c, u)
              \/ Header(c) \/ interpret_command(c) \/ reset_state(c) \/ (state[c] \in {"online", "packet"} /\ drop(c))
              \/ Greeted(c) \/ RemoveInfos(c) \/ CleanupDone(c)
       PROVE  <1>2!1
  <2>1. \A d \in Conn : state[d] \in Counted <=> state'[d] \in Counted
    BY <1>11 DEF Accept, Hangup, login_refused, check_user, Header, interpret_command,
                 reset_state, drop, Greeted,
                 RemoveInfos, CleanupDone, Counted
  <2>2. UNCHANGED tracker
    BY <1>11, Zenon DEF Accept, Hangup, login_refused, check_user, Header, interpret_command,
                 reset_state, drop, Greeted,
                 RemoveInfos, CleanupDone
  <2> QED BY <1>4, <1>10, <2>1, <2>2, ZenonT(30)
<1>12. ASSUME NEW c \in Conn,
              \/ RoomCommand(c) \/ Send(c) \/ SendGone(c) \/ Write(c)
              \/ \E f \in UserId : LookUp(c, f)
              \/ \E k \in RoomKey : LeaveRoom(c, k)
       PROVE  <1>2!1
  <2>1. UNCHANGED <<state, tracker>>
    BY <1>12, Zenon DEF RoomCommand, Send, SendGone, Write, LookUp, LeaveRoom, task
  <2> QED BY <1>10, <2>1 DEF CountedConns
<1>13. ASSUME (\E u \in UserId : ban_user(u) \/ kick(u)) \/ UNCHANGED vars PROVE <1>2!1
  <2>1. UNCHANGED <<state, tracker>> BY <1>13, Zenon DEF ban_user, kick, vars, task
  <2> QED BY <1>10, <2>1 DEF CountedConns
<1> QED
  BY <1>6, <1>7, <1>8, <1>9, <1>11, <1>12, <1>13, ZenonT(30) DEF Next, Runs, Disconnect, Kicked

-----------------------------------------------------------------------------
(* The inductive invariant: sessions, the rooms of their users, the game   *)
(* tracker and what friends were told, through every interleaving of       *)
(* tasks, cleanups and bans.                                               *)
THEOREM SessionsInvariance == Spec => []IInv
<1>1. Init => IInv
  <2> SUFFICES ASSUME Init PROVE IInv OBVIOUS
  <2>1. Types BY DEF Init, Types, State, Rooms!Init
  <2>2. SessionInv BY DEF Init, SessionInv, Listed, Ending
  <2>3. RoomInv BY DEF Init, RoomInv, Rooms!Init
  <2>4. TrackerExact
    <3>1. {c \in Conn : state[c] \in {"greet", "online", "packet", "reset", "cleanup"}} = {} BY DEF Init
    <3>2. \A g \in ComId : {c \in Conn : game[c] = g} = {} BY SessionsAssumption DEF Init
    <3> QED BY <3>1, <3>2, FS_EmptySet, ZenonT(30) DEF Init, TrackerExact
  <2>5. SenderInv BY DEF Init, SenderInv
  <2>6. FriendsTold BY DEF Init, FriendsTold, Informed
  <2> QED BY <2>1, <2>2, <2>3, <2>4, <2>5, <2>6 DEF IInv
<1>2. ASSUME IInv, [Next]_vars PROVE IInv'
  <2>1. Types' /\ SessionInv' /\ TrackerExact' BY <1>2, TypeStep, SessionStep, TrackerStep DEF IInv
  <2>2. RoomInv1' BY <1>2, RoomStep, RoomInvForms DEF IInv
  <2>3. RoomInv' BY <2>1, <2>2 DEF Types, RoomInv, RoomInv1, In, RoomsOf
  <2>4. SenderInv' BY <1>2, SenderStep DEF IInv
  <2>5. AllKnow' BY <1>2, KnowStep, FriendsToldForms, Zenon DEF IInv
  <2>6. FriendsTold'
    BY <2>5, Zenon DEF FriendsTold, AllKnow, Informed, News, Knows, Tells, Mutual
  <2> QED BY <2>1, <2>3, <2>4, <2>6, Zenon DEF IInv
<1> QED BY <1>1, <1>2, PTL DEF Spec

(* No two sessions of a user, nor a session and the cleanup of an earlier  *)
(* one, are there at once (login, Client::drop, cleanup_duty).             *)
THEOREM SessionsUnique == Spec => []OneSession
<1>1. IInv => OneSession BY OneSessionOf DEF IInv
<1> QED BY <1>1, SessionsInvariance, PTL

(* A user without a session is in no room (clean_user_state).              *)
THEOREM MembersOnline == Spec => []RoomMembersOnline
<1>1. IInv => RoomMembersOnline BY DEF IInv, RoomInv, RoomMembersOnline
<1> QED BY <1>1, SessionsInvariance, PTL

(* The game tracker counts right, at any moment (game_tracker.rs).         *)
THEOREM TrackerCounts == Spec => []TrackerExact
<1>1. IInv => TrackerExact BY DEF IInv
<1> QED BY <1>1, SessionsInvariance, PTL

(* What a client was told about a friend is right when no notification is  *)
(* under way and none overtook its login reply, whatever the order of      *)
(* lookups, sends, logins and cleanups (send_notification, login).         *)
THEOREM FriendsInformed == Spec => []FriendsTold
<1>1. IInv => FriendsTold BY DEF IInv
<1> QED BY <1>1, SessionsInvariance, PTL
=============================================================================
