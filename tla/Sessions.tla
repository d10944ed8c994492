------------------------------ MODULE Sessions ------------------------------
(***************************************************************************)
(* A client's life on the server: login, the commands that leave traces in *)
(* shared state, Drop and the cleanup task it spawns                       *)
(* (src/server/client.rs, src/server/client/cmd_account.rs), with bans     *)
(* beside them, composed with the rooms of RoomService (which RoomManager  *)
(* implements).                                                            *)
(*                                                                         *)
(* One action is what happens under one lock, or between two awaits, of    *)
(* one task.  The friendships are fixed here; a connection's channel is    *)
(* the number of packets waiting in it.  Accounts come and go in module    *)
(* Accounts; here a login may fail for any reason.                         *)
(***************************************************************************)
EXTENDS Integers, FiniteSets

CONSTANTS
    UserId,
    Conn,        \* TCP connections; a closed one may be accepted again
    Friends,     \* user -> its friends
    ComId,       \* games a client may be playing
    RoomKey,     \* rooms that may be created
    Bannable,    \* users somebody may ban
    Capacity,    \* of a channel: 32 in the code
    None,
    Gone         \* the channel of a connection that has been replaced

ASSUME SessionsAssumption ==
    /\ Friends \in [UserId -> SUBSET UserId]
    /\ IsFiniteSet(Conn) /\ Bannable \subseteq UserId
    /\ Capacity \in Nat \ {0}
    /\ None \notin UserId \cup Conn \cup ComId
    /\ Gone \notin Conn \cup {None}

VARIABLES
    banned,        \* the banned column
    banning,       \* bans written to the database whose kick is still to come
    state,         \* conn -> where its task is
    who,           \* conn -> user it checked, or is logged in as
    game,          \* conn -> current_game.0
    todo,          \* conn -> rooms still to leave, or friends still to tell
    sending,       \* conn -> the channel it waits to send to
    queue,         \* conn -> packets in its channel
    told,          \* conn -> users the login reply, and the notifications sent
                   \*   after it, say are online
    overtaken,     \* conn -> users a notification about whom was sent before the
                   \*   reply and nothing since
    kicked,        \* conns holding a kick permit
    client_infos,  \* user -> conn, or None
    cleanup_duty,
    num_users, psn_games,  \* game_tracker
    room, issued           \* RoomService

db == <<banned, banning>>
task == <<state, who, todo, sending>>
shared == <<client_infos, cleanup_duty>>
tracker == <<game, num_users, psn_games>>
channels == <<queue, told, overtaken>>
rooms == <<room, issued>>
vars == <<db, task, shared, tracker, channels, rooms, kicked>>

Rooms == INSTANCE RoomService

(* greet: telling friends; online: waiting in select!; packet: a header    *)
(* was read, and the rest of the packet is awaited or its command carried  *)
(* out; reset: ResetState; cleanup, infos, offline: the task that Drop     *)
(* spawned.                                                                *)
State == {"closed", "new", "checked", "greet", "online", "packet", "reset",
          "cleanup", "infos", "offline"}
Authentified == {"greet", "online", "packet", "reset", "cleanup", "infos", "offline"}

RoomsOf(u) == {k \in DOMAIN room : u \in room[k].members}

Init ==
    /\ banned = {} /\ banning = {}
    /\ state = [c \in Conn |-> "closed"]
    /\ who = [c \in Conn |-> None]
    /\ game = [c \in Conn |-> None]
    /\ todo = [c \in Conn |-> {}]
    /\ sending = [c \in Conn |-> None]
    /\ queue = [c \in Conn |-> 0]
    /\ told = [c \in Conn |-> {}]
    /\ overtaken = [c \in Conn |-> {}]
    /\ kicked = {}
    /\ client_infos = [u \in UserId |-> None]
    /\ cleanup_duty = {}
    /\ num_users = 0 /\ psn_games = [g \in ComId |-> 0]
    /\ Rooms!Init

-----------------------------------------------------------------------------
(* Connecting and logging in.                                              *)

(* A connection has a channel of its own: who still sends to the one of an *)
(* earlier connection keeps that one.                                      *)
Accept(c) ==
    /\ state[c] = "closed"
    /\ state' = [state EXCEPT ![c] = "new"]
    /\ sending' = [d \in Conn |-> IF sending[d] = c THEN Gone ELSE sending[d]]
    /\ queue' = [queue EXCEPT ![c] = 0]
    /\ told' = [told EXCEPT ![c] = {}]
    /\ overtaken' = [overtaken EXCEPT ![c] = {}]
    /\ kicked' = kicked \ {c}
    /\ UNCHANGED <<db, who, todo, shared, tracker, rooms>>

(* An unauthentified client leaves, times out or fails a command.          *)
Hangup(c) ==
    /\ state[c] = "new"
    /\ state' = [state EXCEPT ![c] = "closed"]
    /\ UNCHANGED <<db, who, todo, sending, shared, tracker, channels, rooms, kicked>>

(* login, up to the lock: credentials and the ban flag are read.           *)
check_user(c, u) ==
    /\ state[c] = "new"
    /\ u \notin banned
    /\ state' = [state EXCEPT ![c] = "checked"]
    /\ who' = [who EXCEPT ![c] = u]
    /\ UNCHANGED <<db, todo, sending, shared, tracker, channels, rooms, kicked>>

(* Wrong: the cleanup of an earlier session is not waited for.             *)
MayLogin_NoDuty(u) == client_infos[u] = None

MayLogin(u) ==
    /\ client_infos[u] = None
    /\ u \notin cleanup_duty

(* login under client_infos.write(): the status of the friends goes into   *)
(* the reply, which is sent only after the friends have been notified.     *)
login(c) ==
    LET u == who[c]
    IN  /\ state[c] = "checked"
        /\ MayLogin(u)
        /\ state' = [state EXCEPT ![c] = "greet"]
        /\ todo' = [todo EXCEPT ![c] = Friends[u]]
        /\ told' = [told EXCEPT ![c] = {f \in Friends[u] : client_infos[f] # None}]
        /\ client_infos' = [client_infos EXCEPT ![u] = c]
        /\ num_users' = num_users + 1
        /\ UNCHANGED <<db, who, sending, cleanup_duty, game,
                       psn_games, queue, overtaken, rooms, kicked>>

(* login returns an error: ~MayLogin, no account, or the database fails.   *)
login_refused(c) ==
    /\ state[c] = "checked"
    /\ state' = [state EXCEPT ![c] = "closed"]
    /\ who' = [who EXCEPT ![c] = None]
    /\ UNCHANGED <<db, todo, sending, shared, tracker, channels, rooms, kicked>>

-----------------------------------------------------------------------------
(* send_notification: for each user, its channel is looked up under the    *)
(* read lock; then the send waits for room in that channel.                *)

Telling == {"greet", "offline"}

LookUp(c, f) ==
    /\ state[c] \in Telling
    /\ sending[c] = None
    /\ f \in todo[c]
    /\ todo' = [todo EXCEPT ![c] = @ \ {f}]
    /\ sending' = [sending EXCEPT ![c] = client_infos[f]]
    /\ UNCHANGED <<db, state, who, shared, tracker, channels, rooms, kicked>>

HasRoom(t) == queue[t] < Capacity

Send(c) ==
    LET t == sending[c]
    IN  /\ t \in Conn
        /\ HasRoom(t)
        /\ queue' = [queue EXCEPT ![t] = @ + 1]
        /\ IF state[t] = "greet"
             THEN /\ overtaken' = [overtaken EXCEPT ![t] = @ \cup {who[c]}]
                  /\ UNCHANGED told
             ELSE /\ overtaken' = [overtaken EXCEPT ![t] = @ \ {who[c]}]
                  /\ told' = [told EXCEPT ![t] = IF state[c] = "greet" THEN @ \cup {who[c]}
                                                                       ELSE @ \ {who[c]}]
        /\ sending' = [sending EXCEPT ![c] = None]
        /\ UNCHANGED <<db, state, who, todo, shared, tracker, rooms, kicked>>

(* The writer of a connection that is gone takes packets as long as        *)
(* somebody holds its channel, whether or not they reach anybody.          *)
SendGone(c) ==
    /\ sending[c] = Gone
    /\ sending' = [sending EXCEPT ![c] = None]
    /\ UNCHANGED <<db, state, who, todo, shared, tracker, channels, rooms, kicked>>

(* The writer task of a connection puts a packet on the wire.              *)
Write(c) ==
    /\ queue[c] > 0
    /\ queue' = [queue EXCEPT ![c] = @ - 1]
    /\ UNCHANGED <<db, task, shared, tracker, told, overtaken, rooms, kicked>>

(* interpret_command sends the reply of the login.                         *)
Greeted(c) ==
    /\ state[c] = "greet"
    /\ todo[c] = {} /\ sending[c] = None
    /\ HasRoom(c)
    /\ queue' = [queue EXCEPT ![c] = @ + 1]
    /\ state' = [state EXCEPT ![c] = "online"]
    /\ UNCHANGED <<db, who, todo, sending, shared, tracker, told, overtaken, rooms, kicked>>

-----------------------------------------------------------------------------
(* Commands of a logged-in client.                                         *)

(* select! has read a header.                                              *)
Header(c) ==
    /\ state[c] = "online"
    /\ state' = [state EXCEPT ![c] = "packet"]
    /\ UNCHANGED <<db, who, todo, sending, shared, tracker, channels, rooms, kicked>>

(* The packet was complete, the command is done, and the task is back in   *)
(* select!.  The read of the rest has neither a timeout nor a kick arm.    *)
interpret_command(c) ==
    /\ state[c] = "packet"
    /\ state' = [state EXCEPT ![c] = "online"]
    /\ UNCHANGED <<db, who, todo, sending, shared, tracker, channels, rooms, kicked>>

(* psn_games when connection c goes from the game it plays to game g.      *)
Recount(c, g) ==
    [h \in ComId |-> psn_games[h] - (IF h = game[c] THEN 1 ELSE 0)
                                  + (IF h = g THEN 1 ELSE 0)]

get_com_id_with_redir(c, g) ==
    /\ state[c] = "packet"
    /\ game[c] # g
    /\ psn_games' = Recount(c, g)
    /\ game' = [game EXCEPT ![c] = g]
    /\ UNCHANGED <<db, task, shared, num_users, channels, rooms, kicked>>

RoomCommand(c) ==
    /\ state[c] = "packet"
    /\ \/ \E k \in RoomKey : Rooms!Create(who[c], k, 2)
       \/ \E k \in DOMAIN room : \/ Rooms!Join(who[c], k)
                                 \/ Rooms!Leave(who[c], k)
                                 \/ Rooms!LeaveLast(who[c], k)
    /\ UNCHANGED <<db, task, shared, tracker, channels, kicked>>

(* clean_user_state reads the user's rooms, for ResetState here.           *)
reset_state(c) ==
    /\ state[c] = "packet"
    /\ state' = [state EXCEPT ![c] = "reset"]
    /\ todo' = [todo EXCEPT ![c] = RoomsOf(who[c])]
    /\ UNCHANGED <<db, who, sending, shared, tracker, channels, rooms, kicked>>

-----------------------------------------------------------------------------
(* The end of a session.                                                   *)

(* Wrong: the cleanup works from an empty list.                            *)
drop_NoRooms(c) ==
    /\ state' = [state EXCEPT ![c] = "cleanup"]
    /\ UNCHANGED todo
    /\ cleanup_duty' = cleanup_duty \cup {who[c]}
    /\ UNCHANGED <<db, who, sending, client_infos, tracker, channels, rooms, kicked>>

(* Client::drop, and the spawned task up to its list of rooms.             *)
drop(c) ==
    /\ state' = [state EXCEPT ![c] = "cleanup"]
    /\ todo' = [todo EXCEPT ![c] = RoomsOf(who[c])]
    /\ cleanup_duty' = cleanup_duty \cup {who[c]}
    /\ UNCHANGED <<db, who, sending, client_infos, tracker, channels, rooms, kicked>>

(* The connection is lost, a command fails or panics.                      *)
Disconnect(c) == state[c] \in {"online", "packet"} /\ drop(c)

(* The kick_notify arm of select!.                                         *)
Kicked(c) == state[c] = "online" /\ c \in kicked /\ drop(c)

(* One leave_room of clean_user_state; the room may be gone.               *)
LeaveRoom(c, k) ==
    /\ state[c] \in {"reset", "cleanup"}
    /\ k \in todo[c]
    /\ todo' = [todo EXCEPT ![c] = @ \ {k}]
    /\ \/ k \in RoomsOf(who[c]) /\ Rooms!Leave(who[c], k)
       \/ k \in RoomsOf(who[c]) /\ Rooms!LeaveLast(who[c], k)
       \/ k \notin RoomsOf(who[c]) /\ UNCHANGED rooms
    /\ UNCHANGED <<db, state, who, sending, shared, tracker, channels, kicked>>

(* Wrong: the client keeps the game that has been discounted.              *)
ResetDone_GameKept(c) ==
    /\ state[c] = "reset" /\ todo[c] = {}
    /\ state' = [state EXCEPT ![c] = "online"]
    /\ psn_games' = Recount(c, None)
    /\ UNCHANGED <<db, who, todo, sending, shared, game, num_users, channels, rooms, kicked>>

(* The end of clean_user_state, for ResetState ...                         *)
ResetDone(c) ==
    /\ state[c] = "reset" /\ todo[c] = {}
    /\ state' = [state EXCEPT ![c] = "online"]
    /\ psn_games' = Recount(c, None)
    /\ game' = [game EXCEPT ![c] = None]
    /\ UNCHANGED <<db, who, todo, sending, shared, num_users, channels, rooms, kicked>>

(* ... and for the cleanup, which also counts one user less.               *)
CleanDone(c) ==
    /\ state[c] = "cleanup" /\ todo[c] = {}
    /\ state' = [state EXCEPT ![c] = "infos"]
    /\ psn_games' = Recount(c, None)
    /\ game' = [game EXCEPT ![c] = None]
    /\ num_users' = num_users - 1
    /\ UNCHANGED <<db, who, todo, sending, shared, channels, rooms, kicked>>

(* Wrong: the friends are not told.                                        *)
RemoveInfos_Silent(c) ==
    /\ state[c] = "infos"
    /\ state' = [state EXCEPT ![c] = "offline"]
    /\ client_infos' = [client_infos EXCEPT ![who[c]] = None]
    /\ UNCHANGED <<db, who, todo, sending, cleanup_duty, tracker, channels, rooms, kicked>>

RemoveInfos(c) ==
    /\ state[c] = "infos"
    /\ state' = [state EXCEPT ![c] = "offline"]
    /\ todo' = [todo EXCEPT ![c] = Friends[who[c]]]
    /\ client_infos' = [client_infos EXCEPT ![who[c]] = None]
    /\ UNCHANGED <<db, who, sending, cleanup_duty, tracker, channels, rooms, kicked>>

(* Wrong: the user stays on duty.                                          *)
CleanupDone_Kept(c) ==
    /\ state[c] = "offline"
    /\ todo[c] = {} /\ sending[c] = None
    /\ state' = [state EXCEPT ![c] = "closed"]
    /\ who' = [who EXCEPT ![c] = None]
    /\ UNCHANGED <<db, todo, sending, shared, tracker, channels, rooms, kicked>>

CleanupDone(c) ==
    /\ state[c] = "offline"
    /\ todo[c] = {} /\ sending[c] = None
    /\ state' = [state EXCEPT ![c] = "closed"]
    /\ who' = [who EXCEPT ![c] = None]
    /\ cleanup_duty' = cleanup_duty \ {who[c]}
    /\ UNCHANGED <<db, todo, sending, client_infos, tracker, channels, rooms, kicked>>

-----------------------------------------------------------------------------
(* BanUser and the API's ban write the flag, and then look for the session.*)
ban_user(u) ==
    /\ u \in Bannable \ banned
    /\ banned' = banned \cup {u}
    /\ banning' = banning \cup {u}
    /\ UNCHANGED <<task, shared, tracker, channels, rooms, kicked>>

kick(u) ==
    /\ u \in banning
    /\ banning' = banning \ {u}
    /\ kicked' = IF client_infos[u] = None THEN kicked ELSE kicked \cup {client_infos[u]}
    /\ UNCHANGED <<banned, task, shared, tracker, channels, rooms>>

-----------------------------------------------------------------------------
(* What a task does by itself once started.                                *)
Runs(c) ==
    \/ \E f \in UserId : LookUp(c, f)
    \/ Send(c)
    \/ Greeted(c)
    \/ \E k \in RoomKey : LeaveRoom(c, k)
    \/ ResetDone(c)
    \/ CleanDone(c)
    \/ RemoveInfos(c)
    \/ CleanupDone(c)

Next ==
    \/ \E c \in Conn :
         \/ Accept(c) \/ Hangup(c) \/ login(c) \/ login_refused(c)
         \/ \E u \in UserId : check_user(c, u)
         \/ Header(c) \/ interpret_command(c)
         \/ \E g \in ComId : get_com_id_with_redir(c, g)
         \/ RoomCommand(c) \/ reset_state(c) \/ Disconnect(c) \/ Kicked(c)
         \/ Runs(c) \/ Write(c) \/ SendGone(c)
    \/ \E u \in UserId : ban_user(u) \/ kick(u)

Spec == Init /\ [][Next]_vars

(* The runtime keeps scheduling a task that can proceed, and a channel     *)
(* serves the senders waiting for it in their order.  A kick permit waits  *)
(* for the task to come back to select!, which polls its arms in random    *)
(* order: a busy client does not starve that arm.                          *)
FairSpec == Spec /\ \A c \in Conn : SF_vars(Runs(c)) /\ SF_vars(Kicked(c))

(* What the code does not enforce: clients read what they are sent, so     *)
(* that write_all returns and channels have room again, and finish the     *)
(* packets they begin.                                                     *)
ClientsKeepUp ==
    \A c \in Conn : []<>HasRoom(c) /\ []<>(sending[c] # Gone) /\ []<>(state[c] # "packet")

-----------------------------------------------------------------------------
(* Type invariant.                                                         *)
TypeOK ==
    /\ banned \subseteq UserId /\ banning \subseteq UserId
    /\ state \in [Conn -> State]
    /\ who \in [Conn -> UserId \cup {None}]
    /\ game \in [Conn -> ComId \cup {None}]
    /\ todo \in [Conn -> SUBSET (UserId \cup RoomKey)]
    /\ sending \in [Conn -> Conn \cup {None, Gone}]
    /\ queue \in [Conn -> 0..Capacity]
    /\ told \in [Conn -> SUBSET UserId] /\ overtaken \in [Conn -> SUBSET UserId]
    /\ kicked \subseteq Conn
    /\ client_infos \in [UserId -> Conn \cup {None}]
    /\ cleanup_duty \subseteq UserId
    /\ num_users \in Nat /\ psn_games \in [ComId -> Nat]

(* A user has one session at a time, the cleanup of the last one included: *)
(* a new session never overlaps the task that still reports the old one    *)
(* offline (cleanup_duty, "Extra check as we can't hold                    *)
(* client_infos.write() lock across async functions in Client::drop").     *)
OneSession ==
    \A c, d \in Conn :
      state[c] \in Authentified /\ state[d] \in Authentified /\ who[c] = who[d] => c = d

(* A member of a room is a user with a session: by the time a session is   *)
(* removed from client_infos, clean_user_state has left every room.        *)
RoomMembersOnline ==
    \A k \in DOMAIN room, u \in UserId : u \in room[k].members => client_infos[u] # None

(* The game tracker counts each session once, from login to its cleanup,   *)
(* and each client under the game it plays.                                *)
TrackerExact ==
    /\ num_users = Cardinality({c \in Conn : state[c] \in {"greet", "online", "packet", "reset", "cleanup"}})
    /\ \A g \in ComId : psn_games[g] = Cardinality({c \in Conn : game[c] = g})

(* Somebody is still to tell the client at connection t about user u.      *)
News(u, f, t) ==
    \E c \in Conn : /\ state[c] \in Telling /\ who[c] = u
                    /\ f \in todo[c] \/ sending[c] = t

(* The client of f knows whether its friend u is online.                   *)
Informed(u, f) ==
    LET t == client_infos[f]
    IN  f \in Friends[u] /\ u \in Friends[f] /\ t # None /\ ~News(u, f, t)
          => (u \in told[t] <=> client_infos[u] # None)

(* What a client was told of its friends, by the login reply and then by   *)
(* FriendStatus notifications, is right once no notification is under way, *)
(* but for a friend whose notification got ahead of the login reply.       *)
FriendsTold ==
    \A u, f \in UserId :
      \/ client_infos[f] # None /\ u \in overtaken[client_infos[f]]
      \/ Informed(u, f)

(* Among clients that keep up, a session that ends, or is kicked while its *)
(* task is busy, is cleaned out of the system, so that its user can log in *)
(* again: tasks that wait for one another's channels all get through, the  *)
(* cleanup ends the user's cleanup_duty, and a kick permit is kept until   *)
(* the task is back in select!.                                            *)
EndingSessionsClose ==
    ClientsKeepUp =>
      \A u \in UserId : u \in cleanup_duty \/ client_infos[u] \in kicked ~> MayLogin(u)

-----------------------------------------------------------------------------
(* What the documentation says and the code does not do.                   *)

(* "Ban a user and disconnect them if online": a ban that has been carried *)
(* out leaves no session of that user that is not on its way out.          *)
BannedAreOut ==
    \A u \in banned \ banning :
      LET c == client_infos[u]
      IN  c # None => c \in kicked \/ state[c] \in {"cleanup", "infos"}
=============================================================================
