----------------------------- MODULE MCFriends ------------------------------
(* Three users, of whom the second has to do with both others: its id is   *)
(* the larger one of one pair and the smaller one of the other.            *)
EXTENDS Friends

Neighbours == {p \in UserId \X UserId : p[1] - p[2] \in {-1, 1}}
=============================================================================
