----------------------------- MODULE MCSessions -----------------------------
(* Small instances of Sessions: two users who are friends.                 *)
EXTENDS Sessions, TLC

CONSTANTS ann, bob

MCFriends == (ann :> {bob}) @@ (bob :> {ann})
=============================================================================
