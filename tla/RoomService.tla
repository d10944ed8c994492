---------------------------- MODULE RoomService -----------------------------
(***************************************************************************)
(* What the Matching2 room manager promises its clients: rooms with a      *)
(* capacity, a set of members and an owner among them.                     *)
(***************************************************************************)
EXTENDS Integers, FiniteSets

CONSTANTS UserId, RoomKey

VARIABLES
    room,    \* room key -> [members, owner, capacity], for the live rooms
    issued   \* every room key ever handed out

Init == room = [k \in {} |-> 0] /\ issued = {}

Create(u, k, n) ==
    /\ k \notin issued
    /\ issued' = issued \cup {k}
    /\ room' = [j \in DOMAIN room \cup {k} |->
                  IF j = k THEN [members |-> {u}, owner |-> u, capacity |-> n]
                           ELSE room[j]]

Join(u, k) ==
    /\ u \notin room[k].members
    /\ Cardinality(room[k].members) < room[k].capacity
    /\ room' = [room EXCEPT ![k].members = @ \cup {u}]
    /\ UNCHANGED issued

(* A member leaves; an owner hands the room to a remaining member.         *)
Leave(u, k) ==
    LET r == room[k]
    IN  /\ u \in r.members
        /\ \E o \in r.members \ {u} :
             /\ u # r.owner => o = r.owner
             /\ room' = [room EXCEPT ![k] = [members |-> r.members \ {u}, owner |-> o,
                                         capacity |-> r.capacity]]
        /\ UNCHANGED issued

LeaveLast(u, k) ==
    /\ room[k].members = {u}
    /\ room' = [j \in DOMAIN room \ {k} |-> room[j]]
    /\ UNCHANGED issued

(* A step changes what clients see, as each of the four does.              *)
Next ==
    /\ <<room', issued'>> # <<room, issued>>
    /\ \E u \in UserId :
         \/ \E k \in DOMAIN room : Join(u, k) \/ Leave(u, k) \/ LeaveLast(u, k)
         \/ \E k \in RoomKey, n \in 1..64 : Create(u, k, n)

Spec == Init /\ [][Next]_<<room, issued>>
=============================================================================
