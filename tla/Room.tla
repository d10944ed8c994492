-------------------------------- MODULE Room --------------------------------
(***************************************************************************)
(* struct Room of src/server/room_manager.rs and its methods, as a record  *)
(* and pure operators on it.  The state machine that owns the rooms is     *)
(* RoomManager.                                                            *)
(*                                                                         *)
(*  - slots is the set of occupied slots (a Vec<bool> in the code);        *)
(*  - users is the set of RoomUser records, a BTreeMap keyed by the        *)
(*    member_id each of them carries;                                      *)
(*  - num_members is a number that may be negative: the u32 of the code is *)
(*    this number modulo 2^32, so that a negative one is a huge count;     *)
(*  - flag_attr and password_slot_mask are the sets of their 1 bits;       *)
(*  - binary and search attributes are payloads and are left out.          *)
(***************************************************************************)
EXTENDS Integers, Sequences, FiniteSets, FiniteSetsExt

CONSTANTS
    UserId,       \* accounts
    Label,        \* group labels
    Password,     \* room passwords
    World, Lobby, \* world ids, and lobby ids other than 0
    Team,         \* team ids, 0 included
    None,         \* Option::None
    MemberIdMod,  \* 16 in the code: a member id is slot << 4 plus a 4-bit counter
    GroupIdMod    \* 256 in the code: a member's group id is a u8

ASSUME MemberIdModAssumption == MemberIdMod \in Nat \ {0}
ASSUME GroupIdModAssumption == GroupIdMod \in Nat \ {0, 1}
ASSUME TeamAssumption == 0 \in Team
ASSUME LobbyAssumption == 0 \notin Lobby

Flag == {"FULL", "HIDDEN"}
PROTECTED_ROOM_FLAGS == {"FULL"}

RoomUser == [member_id : Nat, user_id : UserId, group_id : 0..(GroupIdMod - 1),
             is_owner : BOOLEAN, team_id : Team]

RoomGroupConfig == [label : Label \cup {None}, fixed_label : BOOLEAN,
                    with_password : BOOLEAN, slot_num : Nat, num_members : Int]

RoomType == [world_id : World, lobby_id : Lobby \cup {0}, max_slot : 1..64,
             flag_attr : SUBSET Flag, room_password : Password \cup {None},
             group_config : Seq(RoomGroupConfig),
             password_slot_mask : SUBSET (0..63),
             slots : SUBSET (1..64), member_id_counter : 0..(MemberIdMod - 1),
             users : SUBSET RoomUser, owner : Nat, owner_succession : Seq(Nat)]

MemberIds(room) == {x.member_id : x \in room.users}
UserIds(room) == {x.user_id : x \in room.users}
MembersOf(room, u) == {x \in room.users : x.user_id = u}
IsOwner(room, u) == \E x \in room.users : x.user_id = u /\ x.member_id = room.owner

-----------------------------------------------------------------------------
(* Slots and member ids.                                                   *)

BitsOf(n) == {b \in 0..6 : (n \div 2^b) % 2 = 1}

(* The mask is tested against the number 64 - slot, not against one bit.   *)
is_slot_private(room, slot) ==
    BitsOf(64 - slot) \cap room.password_slot_mask # {}

MemberSlot(m) == m \div MemberIdMod

NewMemberId(room, slot) == slot * MemberIdMod + room.member_id_counter

occupy_slot(room, slot) ==
    [room EXCEPT !.slots = @ \cup {slot},
                 !.member_id_counter = (@ + 1) % MemberIdMod]

(* Wrong: the slot stays occupied.                                         *)
free_slot_Kept(room, m) == room

free_slot(room, m) == [room EXCEPT !.slots = @ \ {MemberSlot(m)}]

(* Wrong: occupied slots are handed out again.                             *)
req_slot_Occupied(room, private) ==
    {i \in 1..room.max_slot : is_slot_private(room, i) = private}

req_slot(room, private) ==
    {i \in (1..room.max_slot) \ room.slots : is_slot_private(room, i) = private}

(* cur_slot_id of get_a_slot: the first slot of each group, which follows  *)
(* the slots of the groups before it.                                      *)
cur_slot_id(config) ==
    LET first[g \in DOMAIN config] ==
          IF g = 1 THEN 1 ELSE first[g - 1] + config[g - 1].slot_num
    IN  first

GroupSlots(room, g) ==
    LET first == cur_slot_id(room.group_config)[g]
    IN  first..(first + room.group_config[g].slot_num - 1)

-----------------------------------------------------------------------------
(* get_a_slot decides which group (0: none) and slot a joiner gets.  "Ok"  *)
(* grants the slot; "panic" is the end of the loop of req_specific_slots,  *)
(* unreachable!() or an index past the max_slot entries of slots, reached  *)
(* after the group has already counted the joiner.                         *)

Deny(error) == [res |-> error, group_id |-> 0, slot |-> 0]
Grant(g, free) == IF free = {} THEN [res |-> "panic", group_id |-> g, slot |-> 0]
                               ELSE [res |-> "Ok", group_id |-> g, slot |-> Min(free)]

req_specific_slots(room, g) ==
    Grant(g, (GroupSlots(room, g) \cap 1..room.max_slot) \ room.slots)

GroupFull(group) == group.num_members < 0 \/ group.num_members >= group.slot_num

JoinNamedGroup(room, g, password) ==
    LET group == room.group_config[g]
    IN  IF group.with_password /\ password # room.room_password
          THEN Deny("RoomPasswordMismatch")
        ELSE IF GroupFull(group) THEN Deny("RoomGroupFull")
        ELSE req_specific_slots(room, g)

JoinBlankGroup(room, g, password) ==
    IF room.group_config[g].with_password /\ password # room.room_password
      THEN Deny("RoomPasswordMismatch")
      ELSE req_specific_slots(room, g)

JoinAnySlot(room, password) ==
    LET private == IF password = None THEN {} ELSE req_slot(room, TRUE)
        open == IF private # {} THEN private ELSE req_slot(room, FALSE)
    IN  IF password # None /\ password # room.room_password
          THEN Deny("RoomPasswordMismatch")
        ELSE IF open = {} THEN Deny("RoomFull")
        ELSE Grant(0, open)

get_a_slot(room, label, password) ==
    LET config == room.group_config
        named == {g \in DOMAIN config : config[g].label = label}
        blank == {g \in DOMAIN config : /\ config[g].label = None
                                        /\ config[g].with_password => password # None}
    IN  IF config = << >> THEN JoinAnySlot(room, password)
        ELSE IF label = None THEN Deny("RoomGroupNoJoinLabel")
        ELSE IF named # {} THEN JoinNamedGroup(room, Min(named), password)
        ELSE IF blank # {} THEN JoinBlankGroup(room, Min(blank), password)
        ELSE Deny("RoomGroupJoinLabelNotFound")

(* Wrong: the group does not count the joiner.                             *)
ClaimSlot_NotCounted(room, d) ==
    IF d.res = "Ok" THEN occupy_slot(room, d.slot) ELSE room

(* What get_a_slot has written when it returns or panics.                  *)
ClaimSlot(room, d) ==
    LET counted == IF d.group_id = 0 THEN room
                   ELSE [room EXCEPT !.group_config[d.group_id].num_members = @ + 1]
    IN  IF d.res = "Ok" THEN occupy_slot(counted, d.slot) ELSE counted

-----------------------------------------------------------------------------
(* Members coming and going.                                               *)

InsertUser(users, x) == {y \in users : y.member_id # x.member_id} \cup {x}

(* The FULL flag after a join and after a departure.                       *)
SetFull(room) ==
    IF Cardinality(room.users) = room.max_slot
      THEN [room EXCEPT !.flag_attr = @ \cup {"FULL"}] ELSE room
ClearFull(room) ==
    IF Cardinality(room.users) # room.max_slot
      THEN [room EXCEPT !.flag_attr = @ \ {"FULL"}] ELSE room

(* get_a_slot returns the number of the group as a u8.                     *)
NewMember(room, d, u, team) ==
    [member_id |-> NewMemberId(room, d.slot), user_id |-> u,
     group_id |-> d.group_id % GroupIdMod, is_owner |-> FALSE, team_id |-> team]

AddMember(room, d, u, team) ==
    SetFull([ClaimSlot(room, d) EXCEPT
               !.users = InsertUser(@, NewMember(room, d, u, team))])

(* A group that nobody is left in forgets a label it was not created with. *)
LeaveGroup(room, g) ==
    LET group == room.group_config[g]
        forget == group.num_members = 1 /\ ~group.fixed_label
    IN  IF g = 0 THEN room
        ELSE [room EXCEPT !.group_config[g] =
                [group EXCEPT !.num_members = group.num_members - 1,
                              !.label = IF forget THEN None ELSE group.label]]

RemoveMember(room, x) ==
    LET left == [LeaveGroup(room, x.group_id) EXCEPT !.users = @ \ {x}]
    IN  ClearFull(free_slot(left, x.member_id))

(* The ranked successors still present, by position in the list.           *)
RankedHeirs(room) ==
    {i \in DOMAIN room.owner_succession : room.owner_succession[i] \in MemberIds(room)}

(* Wrong: the succession list is ignored.                                  *)
Heirs_Unranked(room) == MemberIds(room)

(* Wrong: only listed members can succeed.                                 *)
Heirs_ListedOnly(room) == {room.owner_succession[i] : i \in RankedHeirs(room)}

(* Who may become owner: the first ranked member, or else any member.      *)
Heirs(room) ==
    IF RankedHeirs(room) = {} THEN MemberIds(room)
    ELSE {room.owner_succession[Min(RankedHeirs(room))]}

(* Wrong: the new owner does not get the OWNER flag.                       *)
Crown_NoFlag(room, m) == [room EXCEPT !.owner = m]

(* Entries of the succession list are popped up to the one that is used.   *)
Crown(room, m) ==
    LET ranked == RankedHeirs(room)
    IN  [room EXCEPT
           !.owner = m,
           !.owner_succession = IF ranked = {} THEN << >>
                                ELSE SubSeq(@, Min(ranked) + 1, Len(@)),
           !.users = {IF x.member_id = m THEN [x EXCEPT !.is_owner = TRUE] ELSE x : x \in @}]

-----------------------------------------------------------------------------
(* A new room.  The creator holds slot 1 and is the owner.                 *)

CreateReqType ==
    [world_id : World, lobby_id : Lobby \cup {0}, max_slot : Nat,
     flag_attr : SUBSET Flag, room_password : Password \cup {None},
     group_config : Seq([label : Label \cup {None}, with_password : BOOLEAN, slot_num : Nat]),
     password_slot_mask : SUBSET (0..63),
     label : Label \cup {None}, team_id : Team]

(* The slots of the groups add up to max_slot: the last group ends there.  *)
GroupsFillRoom(req) ==
    LET last == Len(req.group_config)
    IN  cur_slot_id(req.group_config)[last] + req.group_config[last].slot_num
          = req.max_slot + 1

CreateAccepted(req) ==
    /\ req.max_slot \in 1..64
    /\ IF req.group_config = << >>
         THEN req.password_slot_mask # {} => req.room_password # None
         ELSE /\ GroupsFillRoom(req)
              /\ (\E g \in DOMAIN req.group_config : req.group_config[g].with_password)
                   => req.room_password # None
              /\ req.label # None
              /\ req.group_config[1].label \in {None, req.label}

(* The first group takes the creator's label and counts the creator.       *)
CreatedGroups(req) ==
    [g \in DOMAIN req.group_config |->
       [label |-> IF g = 1 THEN req.label ELSE req.group_config[g].label,
        fixed_label |-> req.group_config[g].label # None,
        with_password |-> req.group_config[g].with_password,
        slot_num |-> req.group_config[g].slot_num,
        num_members |-> IF g = 1 THEN 1 ELSE 0]]

EmptyRoom(req) ==
    [world_id |-> req.world_id, lobby_id |-> req.lobby_id, max_slot |-> req.max_slot,
     flag_attr |-> req.flag_attr \ PROTECTED_ROOM_FLAGS,
     room_password |-> req.room_password, group_config |-> CreatedGroups(req),
     password_slot_mask |-> req.password_slot_mask,
     slots |-> {}, member_id_counter |-> 0, users |-> {}, owner |-> 0,
     owner_succession |-> << >>]

CreatedRoom(req, u) ==
    LET room == EmptyRoom(req)
        m == NewMemberId(room, 1)
        x == [member_id |-> m, user_id |-> u, is_owner |-> TRUE, team_id |-> req.team_id,
              group_id |-> IF req.group_config = << >> THEN 0 ELSE 1]
    IN  [occupy_slot(room, 1) EXCEPT !.owner = m, !.users = {x}]

-----------------------------------------------------------------------------
(* An owner's changes to a room.                                           *)

(* stop: where decoding fails, with everything before it already written:  *)
(* after these password_config entries, in the ranks, in the attributes,   *)
(* or "none".                                                              *)
SetReqType ==
    [flag_filter : SUBSET Flag, flag_attr : SUBSET Flag,
     password_config : Seq([group_id : Nat \ {0}, with_password : BOOLEAN]),
     password_slot_mask : (SUBSET (0..63)) \cup {None}, ranks : Seq(Nat),
     stop : {"none", "groups", "ranks", "attrs"}]

(* Wrong: the owner may set and clear FULL.                                *)
SetFlags_Unprotected(room, req) ==
    [room EXCEPT !.flag_attr = (req.flag_attr \cap req.flag_filter) \cup (@ \ req.flag_filter)]

SetFlags(room, req) ==
    LET filter == req.flag_filter \ PROTECTED_ROOM_FLAGS
        attr == req.flag_attr \ PROTECTED_ROOM_FLAGS
    IN  [room EXCEPT !.flag_attr = (attr \cap filter) \cup (@ \ filter)]

(* The last entry of password_config for a group that exists decides.      *)
SetGroupPassword(group, g, config) ==
    LET entries == {i \in DOMAIN config : config[i].group_id = g}
    IN  IF entries = {} THEN group
        ELSE [group EXCEPT !.with_password = config[Max(entries)].with_password]

SetGroupPasswords(room, config) ==
    [room EXCEPT !.group_config =
       [g \in DOMAIN room.group_config |-> SetGroupPassword(room.group_config[g], g, config)]]

SetMask(room, mask) ==
    IF mask = None THEN room ELSE [room EXCEPT !.password_slot_mask = mask]

SetRanks(room, ranks) ==
    IF ranks = << >> THEN room ELSE [room EXCEPT !.owner_succession = ranks]

(* An owner's request up to the part that fails to decode.                 *)
OwnerUpdate(room, req) ==
    LET groups == SetGroupPasswords(SetFlags(room, req), req.password_config)
        masks == SetMask(groups, req.password_slot_mask)
    IN  CASE req.stop = "groups" -> groups
          [] req.stop = "ranks" -> masks
          [] OTHER -> SetRanks(masks, req.ranks)

-----------------------------------------------------------------------------
(* What a room must look like between two commands.                        *)

HasOneOwner(room) ==
    \E x \in room.users : /\ x.member_id = room.owner
                          /\ {y \in room.users : y.is_owner} = {x}

SlotsHeld(room) ==
    /\ room.slots \subseteq 1..room.max_slot
    /\ \A x \in room.users : MemberSlot(x.member_id) \in room.slots
    /\ \A x, y \in room.users :
         MemberSlot(x.member_id) = MemberSlot(y.member_id) => x = y

UsersDistinct(room) ==
    \A x, y \in room.users : x.user_id = y.user_id => x = y

FullFlagRight(room) ==
    "FULL" \in room.flag_attr
      <=> room.max_slot > 1 /\ Cardinality(room.users) = room.max_slot

GroupMembers(room, g) == {x \in room.users : x.group_id = g}

(* Every group has a number that a member's group_id can hold.             *)
GroupIdsFit(room) == DOMAIN room.group_config \subseteq 0..(GroupIdMod - 1)

GroupsCounted(room) ==
    /\ \A x \in room.users : x.group_id \in {0} \cup DOMAIN room.group_config
    /\ GroupIdsFit(room) =>
         \A g \in DOMAIN room.group_config :
           room.group_config[g].num_members >= Cardinality(GroupMembers(room, g))

(* Groups lie within the room.  If the first one is not empty, so that the *)
(* creator sits in it, and group ids fit, members sit in their groups, and *)
(* a group counts at least its occupied slots.                             *)
GroupsFit(room) ==
    \A g \in DOMAIN room.group_config : GroupSlots(room, g) \subseteq 1..room.max_slot

SeatsTracked(room) ==
    /\ room.group_config # << >> /\ room.group_config[1].slot_num > 0
    /\ GroupIdsFit(room)

MembersSeated(room) ==
    SeatsTracked(room) =>
      \A x \in room.users : /\ x.group_id \in DOMAIN room.group_config
                            /\ MemberSlot(x.member_id) \in GroupSlots(room, x.group_id)

SlotsCounted(room) ==
    SeatsTracked(room) =>
      \A g \in DOMAIN room.group_config :
        room.group_config[g].num_members >= Cardinality(GroupSlots(room, g) \cap room.slots)

Seated(room) == GroupsFit(room) /\ MembersSeated(room) /\ SlotsCounted(room)

WellFormed(room) ==
    /\ room \in RoomType
    /\ IsFiniteSet(room.users)
    /\ HasOneOwner(room)
    /\ SlotsHeld(room)
    /\ UsersDistinct(room)
    /\ FullFlagRight(room)
    /\ GroupsCounted(room)
=============================================================================
