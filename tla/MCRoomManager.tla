--------------------------- MODULE MCRoomManager ----------------------------
(* Small instances of RoomManager: the requests clients send.              *)
EXTENDS RoomManager, TLC

CONSTANTS u1, u2, u3, label1, label2, pass1, pass2, world1, lobby1, game1

Template == [world_id |-> world1, lobby_id |-> 0, max_slot |-> 2, flag_attr |-> {},
             room_password |-> None, group_config |-> << >>,
             password_slot_mask |-> {},
             label |-> None, team_id |-> 0]

(* Plain rooms: a two-slot room in the world, and in a lobby a three-slot  *)
(* room with a password and private slots and a one-slot room asking FULL. *)
PlainCreateReq ==
    {[Template EXCEPT !.max_slot = 1, !.flag_attr = {"FULL"}, !.lobby_id = lobby1],
     [Template EXCEPT !.max_slot = 2],
     [Template EXCEPT !.max_slot = 3, !.lobby_id = lobby1, !.room_password = pass1,
                      !.password_slot_mask = {0}]}

(* Flags, FULL among them, and lists of successors, one of them lost to a  *)
(* malformed request.                                                      *)
PlainSetReq ==
    {[flag_filter |-> {"FULL", "HIDDEN"}, flag_attr |-> r[1], password_config |-> << >>,
      password_slot_mask |-> None, ranks |-> r[2], stop |-> r[3]] :
        r \in {<<{"FULL"}, <<2 * MemberIdMod + 1, 3 * MemberIdMod>>, "none">>,
               <<{"FULL"}, << >>, "none">>,
               <<{"HIDDEN"}, <<3 * MemberIdMod>>, "ranks">>}}

(* Group rooms: a labelled group and an unlabelled one with a password.    *)
GroupCreateReq ==
    {[Template EXCEPT !.max_slot = 3, !.room_password = pass1, !.label = label1,
        !.group_config = <<[label |-> g, with_password |-> FALSE, slot_num |-> 2],
                           [label |-> None, with_password |-> TRUE, slot_num |-> 1]>>] :
        g \in {None, label1}}

(* Rooms with more groups than group ids can tell apart, the last one of   *)
(* which has the id 0 or the id of the first.                              *)
ManyGroupsCreateReq ==
    {[Template EXCEPT !.max_slot = 3, !.label = label1,
        !.group_config =
          [g \in 1..n |-> [label |-> IF g = n THEN label2 ELSE None, with_password |-> FALSE,
                           slot_num |-> IF g = 1 THEN 1 ELSE IF g = n THEN 2 ELSE 0]]] :
        n \in {GroupIdMod, GroupIdMod + 1}}

AnyJoinReq == [label : {None, label1, label2}, password : {None, pass1, pass2}, team_id : {0}, valid : BOOLEAN]

GroupSetReq ==
    {[flag_filter |-> {}, flag_attr |-> {}, ranks |-> << >>, password_slot_mask |-> None,
      password_config |-> <<[group_id |-> g, with_password |-> pw]>>, stop |-> "none"] :
        g \in 2..3, pw \in BOOLEAN}

(* Both kinds of rooms.                                                    *)
AnyCreateReq == PlainCreateReq \cup GroupCreateReq \cup ManyGroupsCreateReq
AnySetReq == PlainSetReq \cup GroupSetReq

(* The first room is of any kind while it is alone; beside or after it,    *)
(* rooms only fill and empty.  Ids are compared with each other only, so a *)
(* second room alone would repeat the states of the first.                 *)
Plain(room) == /\ room.max_slot <= 2
               /\ room.flag_attr \subseteq {"FULL"}
               /\ room.owner_succession = << >>
               /\ \A x \in room.users : x.team_id = 0
               /\ room.slots = {MemberSlot(x.member_id) : x \in room.users}
OneOrPlain(rs) == \A k \in DOMAIN rs : Plain(rs[k]) \/ (DOMAIN rs = {k} /\ k[2] = 1)

Symmetry == Permutations(UserId)
=============================================================================
