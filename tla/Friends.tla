------------------------------ MODULE Friends -------------------------------
(***************************************************************************)
(* Friendships: the rows of the friendship table, and the list of friends  *)
(* that the server keeps for each user who is online                       *)
(* (src/server/client/cmd_friend.rs, the relationships of                  *)
(* src/server/database.rs).                                                *)
(*                                                                         *)
(* A command reads the row of a pair with one statement, writes it with    *)
(* another and then updates the two lists, each under a lock of its own;   *)
(* client_infos is read-locked over both updates.  Logins, cleanups and    *)
(* deletions hold that lock for writing and are one step.                  *)
(***************************************************************************)
EXTENDS Integers

CONSTANTS
    UserId,      \* account ids
    Acquainted,  \* bound: the pairs (user, friend) that user sends commands about
    Deletable    \* users whose account may be deleted

ASSUME FriendsAssumption ==
    /\ UserId \subseteq Nat /\ Deletable \subseteq UserId
    /\ Acquainted \subseteq UserId \X UserId

VARIABLES
    accounts,
    friendship,  \* (user_id_1, user_id_2) -> flags of the two, for the rows there are
    online,      \* the keys of client_infos
    friends,     \* user -> friend_info.friends
    pc,          \* user -> command in progress
    asked,       \* (user, friend) pairs for which user once sent AddFriend
    raced        \* (user, friend) pairs such that commands of the two about each
                 \*   other overlapped since user logged in

vars == <<accounts, friendship, online, friends, pc, asked, raced>>

Pair == UserId \X UserId

Idle == [at |-> "idle"]
Closing == [at |-> "closing"]    \* the command failed, the session ends
Command == [at: {"write", "own", "other"}, op: {"add", "remove"}, friend: UserId,
            status_user: BOOLEAN, status_friend: BOOLEAN]

Init ==
    /\ accounts = UserId
    /\ friendship = [p \in {} |-> <<FALSE, FALSE>>]
    /\ online = {}
    /\ friends = [u \in UserId |-> {}]
    /\ pc = [u \in UserId |-> Idle]
    /\ asked = {} /\ raced = {}

-----------------------------------------------------------------------------
(* The row of a pair is stored once, under the smaller id; its flags say   *)
(* which of the two has asked for, or accepted, the friendship.  (Blocks   *)
(* are read but never written: add_block does nothing.)                    *)

(* Wrong: the flags are stored in the order of the request.                *)
swapped_Never(u, f) == FALSE

swapped(u, f) == u > f

get_ordered_userids(u, f) == IF u < f THEN <<u, f>> ELSE <<f, u>>

(* The flags of u and f, both FALSE where there is no row.                 *)
get_rel_status(u, f) ==
    LET p == get_ordered_userids(u, f)
        row == IF p \in DOMAIN friendship THEN friendship[p] ELSE <<FALSE, FALSE>>
    IN  IF u > f THEN <<row[2], row[1]>> ELSE row

set_rel_status(u, f, status_user, status_friend) ==
    LET p == get_ordered_userids(u, f)
        row == IF swapped(u, f) THEN <<status_friend, status_user>>
                                ELSE <<status_user, status_friend>>
    IN  friendship' = [q \in DOMAIN friendship \cup {p} |->
                         IF q = p THEN row ELSE friendship[q]]

Asks(u, f) == get_rel_status(u, f)[1]
Mutual(u, f) == get_rel_status(u, f) = <<TRUE, TRUE>>

(* get_relationships, as far as friends go: the row has the two flags and  *)
(* the other user a name.                                                  *)
get_relationships(u) == {f \in accounts \ {u} : Mutual(u, f)}

-----------------------------------------------------------------------------
(* u is carrying out a command about f.                                    *)
Busy(u, f) == pc[u].at \in {"write", "own", "other"} /\ pc[u].friend = f

(* Nobody holds client_infos.read() over two updates.                      *)
Unlocked == \A u \in UserId : pc[u].at # "other"

login(u) ==
    /\ u \in accounts \ online
    /\ Unlocked
    /\ online' = online \cup {u}
    /\ friends' = [friends EXCEPT ![u] = get_relationships(u)]
    /\ raced' = {p \in raced : p[1] # u \/ Busy(p[2], u)}
    /\ UNCHANGED <<accounts, friendship, pc, asked>>

(* The cleanup of a session removes the user from client_infos.            *)
drop(u) ==
    /\ u \in online
    /\ pc[u] \in {Idle, Closing}
    /\ Unlocked
    /\ online' = online \ {u}
    /\ friends' = [friends EXCEPT ![u] = {}]
    /\ pc' = [pc EXCEPT ![u] = Idle]
    /\ UNCHANGED <<accounts, friendship, asked, raced>>

-----------------------------------------------------------------------------
(* The commands.  Names and flags are read first ...                       *)
Begin(u, f, op) ==
    LET status == get_rel_status(u, f)
    IN  /\ u \in online /\ pc[u] = Idle
        /\ f \in accounts \ {u} /\ <<u, f>> \in Acquainted
        /\ pc' = [pc EXCEPT ![u] = [at |-> "write", op |-> op, friend |-> f,
                                    status_user |-> status[1], status_friend |-> status[2]]]
        /\ raced' = IF Busy(f, u) THEN raced \cup {<<u, f>>, <<f, u>>} ELSE raced
        /\ UNCHANGED <<accounts, friendship, online, friends, asked>>

add_friend(u, f) == ~Asks(u, f) /\ Begin(u, f, "add")

remove_friend(u, f) == (Asks(u, f) \/ Asks(f, u)) /\ Begin(u, f, "remove")

(* ... then the row is replaced, by what was read.  An addition that the   *)
(* friend had not asked for only sends a FriendQuery.                      *)
Write(u) ==
    LET r == pc[u]
    IN  /\ r.at = "write" /\ r.friend \in accounts
        /\ \/ /\ r.op = "add"
              /\ set_rel_status(u, r.friend, TRUE, r.status_friend)
              /\ asked' = asked \cup {<<u, r.friend>>}
              /\ pc' = [pc EXCEPT ![u] = IF r.status_friend THEN [r EXCEPT !.at = "own"] ELSE Idle]
           \/ /\ r.op = "remove"
              /\ set_rel_status(u, r.friend, FALSE, FALSE)
              /\ pc' = [pc EXCEPT ![u].at = "own"]
              /\ UNCHANGED asked
        /\ UNCHANGED <<accounts, online, friends, raced>>

(* The database fails, or refuses a row for an account that is gone.       *)
WriteFails(u) ==
    /\ pc[u].at = "write"
    /\ pc' = [pc EXCEPT ![u] = Closing]
    /\ UNCHANGED <<accounts, friendship, online, friends, asked, raced>>

Updated(list, op, f) == IF op = "add" THEN list \cup {f} ELSE list \ {f}

(* Under client_infos.read(): first the user's own list ...                *)
UpdateOwn(u) ==
    /\ pc[u].at = "own"
    /\ friends' = [friends EXCEPT ![u] = Updated(@, pc[u].op, pc[u].friend)]
    /\ pc' = [pc EXCEPT ![u].at = "other"]
    /\ UNCHANGED <<accounts, friendship, online, asked, raced>>

(* Wrong: the friend's list is left for its next login.                    *)
UpdateOther_Skipped(u) ==
    /\ pc[u].at = "other"
    /\ pc' = [pc EXCEPT ![u] = Idle]
    /\ UNCHANGED <<accounts, friendship, online, friends, asked, raced>>

(* ... and then the friend's, if the friend is online.                     *)
UpdateOther(u) ==
    LET f == pc[u].friend
    IN  /\ pc[u].at = "other"
        /\ friends' = IF f \in online
                        THEN [friends EXCEPT ![f] = Updated(@, pc[u].op, u)]
                        ELSE friends
        /\ pc' = [pc EXCEPT ![u] = Idle]
        /\ UNCHANGED <<accounts, friendship, online, asked, raced>>

(* Whom u may invite to its game (send_message): names that have an        *)
(* account, all of them in the list.                                       *)
Invitable(u) == (friends[u] \cap accounts) \ {u}

-----------------------------------------------------------------------------
(* The rows of an account go with it (ON DELETE CASCADE); the lists of     *)
(* those online keep it.                                                   *)
delete_account(u) ==
    /\ u \in (accounts \cap Deletable) \ online
    /\ Unlocked
    /\ accounts' = accounts \ {u}
    /\ friendship' = [p \in {q \in DOMAIN friendship : q[1] # u /\ q[2] # u} |-> friendship[p]]
    /\ UNCHANGED <<online, friends, pc, asked, raced>>

(* The server stops and starts: only the database is left.                 *)
Restart ==
    /\ online' = {}
    /\ friends' = [u \in UserId |-> {}]
    /\ pc' = [u \in UserId |-> Idle]
    /\ raced' = {}
    /\ UNCHANGED <<accounts, friendship, asked>>

Next ==
    \/ \E u \in UserId : \/ login(u) \/ drop(u) \/ delete_account(u)
                         \/ \E f \in UserId : add_friend(u, f) \/ remove_friend(u, f)
                         \/ Write(u) \/ WriteFails(u)
                         \/ UpdateOwn(u) \/ UpdateOther(u)
    \/ Restart

Spec == Init /\ [][Next]_vars

-----------------------------------------------------------------------------
(* Type invariant.                                                         *)
TypeOK ==
    /\ accounts \subseteq UserId /\ online \subseteq accounts
    /\ DOMAIN friendship \subseteq {p \in accounts \X accounts : p[1] < p[2]}
    /\ \A p \in DOMAIN friendship : friendship[p] \in BOOLEAN \X BOOLEAN
    /\ friends \in [UserId -> SUBSET UserId]
    /\ pc \in [UserId -> {Idle, Closing} \cup Command]
    /\ \A u \in UserId : (pc[u] # Idle => u \in online) /\ ~Busy(u, u)
    /\ asked \subseteq Pair /\ raced \subseteq Pair

(* The list the server goes by for a user who is online (who may be        *)
(* invited, who hears of presence and status) is the mutual friendships of *)
(* the database, whatever logins, cleanups, deletions and failures came in *)
(* between, for every friend with whom no command is in progress; but the  *)
(* commands of two users about each other, if they overlap, can leave it   *)
(* wrong until the next login.                                             *)
ListsCurrent ==
    \A u \in online : \A f \in UserId \ {u} :
      ~Busy(u, f) /\ ~Busy(f, u) /\ <<u, f>> \notin raced =>
        (f \in Invitable(u) <=> Mutual(u, f))

(* A flag of the database stands for an AddFriend its user has sent, even  *)
(* if commands overlapped and one wrote back what it had read before the   *)
(* other: nobody becomes a friend who never asked or accepted.             *)
ConsentGiven == \A u, f \in UserId : u # f /\ Asks(u, f) => <<u, f>> \in asked
=============================================================================
