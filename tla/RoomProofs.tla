----------------------------- MODULE RoomProofs -----------------------------
(***************************************************************************)
(* Every operation of a room keeps it WellFormed.  The operations write    *)
(* several fields one after the other, so most proofs first say what the   *)
(* fields are afterwards (Joined, Left, Inert) and then work from that.    *)
(***************************************************************************)
EXTENDS Room, TLAPS, FiniteSetTheorems, NaturalsInduction, SequenceTheorems

(* The least element of a non-empty set of numbers, which is how the loops *)
(* over slots, groups and ranks choose.                                    *)
LEMMA MinProperty ==
    ASSUME NEW S \in SUBSET Nat, S # {}
    PROVE  Min(S) \in S /\ \A y \in S : Min(S) <= y
<1> DEFINE R == {ss \in Nat \X Nat : ss[1] < ss[2]}
<1>1. IsWellFoundedOn(R, Nat)
  BY NatLessThanWellFounded, Zenon DEF OpToRel
<1>2. PICK x \in S : \A y \in S : ~(<<y, x>> \in R)
  BY <1>1, WFMin, Zenon
<1>3. ASSUME NEW y \in S  PROVE x <= y
  <2>1. x \in Nat /\ y \in Nat
    OBVIOUS
  <2>2. y < x => <<y, x>> \in R
    BY <2>1
  <2> QED  BY <1>2, <2>1, <2>2
<1> QED  BY <1>3, Zenon DEF Min

(* A member id gives back the slot it was made from: the counter in its    *)
(* low bits stays below MemberIdMod.                                       *)
LEMMA SlotOfMemberId ==
    ASSUME NEW s \in Nat, NEW n \in 0..(MemberIdMod - 1)
    PROVE  MemberSlot(s * MemberIdMod + n) = s
BY MemberIdModAssumption, SMTT(30) DEF MemberSlot

(* A u8 holds every number below its modulus, and no greater one than the  *)
(* number it is made from.                                                 *)
LEMMA GroupIdStored ==
    ASSUME NEW g \in Nat
    PROVE  /\ g % GroupIdMod \in 0..(GroupIdMod - 1)
           /\ g % GroupIdMod <= g
           /\ g \in 0..(GroupIdMod - 1) => g % GroupIdMod = g
BY GroupIdModAssumption, SMTT(30)

(* What a decision of get_a_slot grants.                                   *)
Decision(room, d) ==
    /\ d.group_id \in {0} \cup DOMAIN room.group_config
    /\ d.res = "Ok" => d.slot \in (1..room.max_slot) \ room.slots
    /\ d.res = "panic" => d.group_id # 0

(* Granting the first of some free slots is a decision in that sense.      *)
LEMMA GrantDecides ==
    ASSUME NEW room \in RoomType, NEW g \in {0} \cup DOMAIN room.group_config,
           NEW free \in SUBSET ((1..room.max_slot) \ room.slots),
           g # 0 \/ free # {}
    PROVE  Decision(room, Grant(g, free))
<1>1. free \in SUBSET Nat
  BY DEF RoomType
<1>2. free # {} => Min(free) \in free
  BY <1>1, MinProperty
<1> QED  BY <1>2, Zenon DEF Decision, Grant

(* So is refusing.                                                         *)
LEMMA DenyDecides ==
    ASSUME NEW room \in RoomType, NEW e, e # "Ok", e # "panic"
    PROVE  Decision(room, Deny(e))
BY DEF Decision, Deny

(* get_a_slot never grants a slot that is occupied or outside the room, on *)
(* whichever of its paths it ends, and panics only for a group.            *)
LEMMA get_a_slotDecides ==
    ASSUME NEW room \in RoomType, NEW label, NEW password
    PROVE  Decision(room, get_a_slot(room, label, password))
<1> DEFINE config == room.group_config
           named == {g \in DOMAIN config : config[g].label = label}
           blank == {g \in DOMAIN config : /\ config[g].label = None
                                           /\ config[g].with_password => password # None}
<1>0. DOMAIN config \subseteq Nat
  BY DEF RoomType
<1>1. ASSUME NEW g \in DOMAIN config
      PROVE  Decision(room, req_specific_slots(room, g))
  <2>1. g # 0
    BY <1>1 DEF RoomType
  <2> QED  BY <2>1, GrantDecides, Zenon DEF req_specific_slots
<1>2. Decision(room, JoinAnySlot(room, password))
  <2> DEFINE private == IF password = None THEN {} ELSE req_slot(room, TRUE)
             open == IF private # {} THEN private ELSE req_slot(room, FALSE)
  <2>1. open \in SUBSET ((1..room.max_slot) \ room.slots)
    BY DEF req_slot
  <2> QED  BY <2>1, GrantDecides, DenyDecides, Zenon DEF JoinAnySlot
<1>3. ASSUME NEW g \in DOMAIN config
      PROVE  Decision(room, JoinNamedGroup(room, g, password))
  BY <1>1, DenyDecides DEF JoinNamedGroup
<1>4. ASSUME NEW g \in DOMAIN config
      PROVE  Decision(room, JoinBlankGroup(room, g, password))
  BY <1>1, DenyDecides DEF JoinBlankGroup
<1>5. named # {} => Min(named) \in DOMAIN config
  BY <1>0, MinProperty
<1>6. blank # {} => Min(blank) \in DOMAIN config
  BY <1>0, MinProperty
<1> QED  BY <1>2, <1>3, <1>4, <1>5, <1>6, DenyDecides DEF get_a_slot

-----------------------------------------------------------------------------
(* Replacing one entry of a room's groups.                                 *)
LEMMA ReplaceGroup ==
    ASSUME NEW config \in Seq(RoomGroupConfig), NEW g \in DOMAIN config,
           NEW e \in RoomGroupConfig
    PROVE  LET new == [config EXCEPT ![g] = e]
           IN  /\ new \in Seq(RoomGroupConfig)
               /\ DOMAIN new = DOMAIN config
               /\ new[g] = e
               /\ \A h \in DOMAIN config : h # g => new[h] = config[h]
OBVIOUS

(* A group that counts one member more.                                    *)
LEMMA CountUp ==
    ASSUME NEW e \in RoomGroupConfig
    PROVE  /\ [e EXCEPT !.num_members = @ + 1] \in RoomGroupConfig
           /\ [e EXCEPT !.num_members = @ + 1].num_members = e.num_members + 1
           /\ e.num_members \in Int
BY DEF RoomGroupConfig

(* The types of the fields of a room.                                      *)
LEMMA RoomFields ==
    ASSUME NEW room \in RoomType
    PROVE  /\ room.max_slot \in 1..64 /\ room.slots \subseteq 1..64
           /\ room.users \subseteq RoomUser /\ room.owner \in Nat
           /\ room.group_config \in Seq(RoomGroupConfig)
           /\ room.owner_succession \in Seq(Nat)
           /\ room.flag_attr \subseteq Flag
           /\ room.member_id_counter \in 0..(MemberIdMod - 1)
           /\ room.world_id \in World /\ room.lobby_id \in Lobby \cup {0}
BY DEF RoomType

(* The group a joiner is noted in is none or one of the room's, and is the *)
(* one that was granted when group ids fit.                                *)
LEMMA GroupIdInRoom ==
    ASSUME NEW room \in RoomType, NEW g \in {0} \cup DOMAIN room.group_config
    PROVE  /\ g % GroupIdMod \in {0} \cup DOMAIN room.group_config
           /\ GroupIdsFit(room) => g % GroupIdMod = g
<1> DEFINE n == Len(room.group_config)
<1>1. n \in Nat /\ DOMAIN room.group_config = 1..n
  BY RoomFields
<1>2. g \in Nat /\ g <= n
  BY <1>1
<1>3. /\ g % GroupIdMod \in 0..(GroupIdMod - 1) /\ g % GroupIdMod <= g
      /\ g \in 0..(GroupIdMod - 1) => g % GroupIdMod = g
  BY <1>2, GroupIdStored, Zenon
<1> HIDE DEF n
<1>4. g % GroupIdMod \in 0..n
  BY <1>1, <1>2, <1>3, GroupIdModAssumption
<1>5. GroupIdsFit(room) => g \in 0..(GroupIdMod - 1)
  BY GroupIdModAssumption DEF GroupIdsFit
<1>6. g % GroupIdMod \in {0} \cup DOMAIN room.group_config
  BY <1>1, <1>4
<1> QED  BY <1>3, <1>5, <1>6, Zenon

(* What occupy_slot writes.                                                *)
LEMMA OccupyFields ==
    ASSUME NEW room \in RoomType, NEW slot \in 1..64
    PROVE  LET r == occupy_slot(room, slot)
           IN  /\ r \in RoomType
               /\ r.slots = room.slots \cup {slot}
               /\ r.users = room.users /\ r.owner = room.owner
               /\ r.max_slot = room.max_slot /\ r.flag_attr = room.flag_attr
               /\ r.lobby_id = room.lobby_id /\ r.world_id = room.world_id
               /\ r.group_config = room.group_config
<1> DEFINE n == (room.member_id_counter + 1) % MemberIdMod
           S == room.slots \cup {slot}
<1>1. n \in 0..(MemberIdMod - 1)
  BY RoomFields, MemberIdModAssumption
<1>2. S \in SUBSET (1..64)
  BY RoomFields, Zenon
<1>3. occupy_slot(room, slot) = [room EXCEPT !.slots = S, !.member_id_counter = n]
  BY DEF occupy_slot
<1>4. S = room.slots \cup {slot}
  OBVIOUS
<1> HIDE DEF n, S
<1> DEFINE r == [room EXCEPT !.slots = S, !.member_id_counter = n]
<1>5. r \in RoomType
  BY <1>1, <1>2, Zenon DEF RoomType
<1>6. /\ r.slots = S /\ r.users = room.users /\ r.owner = room.owner
      /\ r.max_slot = room.max_slot /\ r.flag_attr = room.flag_attr
      /\ r.lobby_id = room.lobby_id /\ r.world_id = room.world_id
      /\ r.group_config = room.group_config
  BY DEF RoomType
<1> HIDE DEF r
<1>7. occupy_slot(room, slot) = r
  BY <1>3, Zenon DEF r
<1> QED  BY <1>4, <1>5, <1>6, <1>7, Zenon

(* The fields that claiming a slot writes, and those it leaves alone.      *)
LEMMA ClaimSlotFields ==
    ASSUME NEW room \in RoomType, NEW d, Decision(room, d)
    PROVE  LET r == ClaimSlot(room, d)
           IN  /\ r \in RoomType
               /\ d.res = "Ok" => r.slots = room.slots \cup {d.slot}
               /\ d.res # "Ok" => r.slots = room.slots
               /\ r.users = room.users /\ r.owner = room.owner
               /\ r.max_slot = room.max_slot /\ r.flag_attr = room.flag_attr
               /\ r.lobby_id = room.lobby_id /\ r.world_id = room.world_id
               /\ DOMAIN r.group_config = DOMAIN room.group_config
               /\ \A g \in DOMAIN room.group_config :
                    r.group_config[g].num_members =
                      IF g = d.group_id THEN room.group_config[g].num_members + 1
                                        ELSE room.group_config[g].num_members
<1> DEFINE config == room.group_config
           entry == [config[d.group_id] EXCEPT !.num_members = @ + 1]
           counted == IF d.group_id = 0 THEN room
                      ELSE [room EXCEPT !.group_config[d.group_id].num_members = @ + 1]
<1>1. /\ counted \in RoomType
      /\ counted.slots = room.slots /\ counted.users = room.users
      /\ counted.owner = room.owner /\ counted.max_slot = room.max_slot
      /\ counted.flag_attr = room.flag_attr
      /\ counted.lobby_id = room.lobby_id /\ counted.world_id = room.world_id
      /\ DOMAIN counted.group_config = DOMAIN config
      /\ \A g \in DOMAIN config :
           counted.group_config[g].num_members =
             IF g = d.group_id THEN config[g].num_members + 1 ELSE config[g].num_members
  <2>0. config \in Seq(RoomGroupConfig)
    BY RoomFields
  <2>1. CASE d.group_id = 0
    <3>1. d.group_id \notin DOMAIN config
      BY <2>0, <2>1
    <3> QED  BY <2>1, <3>1
  <2>2. CASE d.group_id # 0
    <3>1. d.group_id \in DOMAIN config
      BY <2>2 DEF Decision
    <3>2. config[d.group_id] \in RoomGroupConfig
      BY <2>0, <3>1
    <3>3. entry \in RoomGroupConfig /\ entry.num_members = config[d.group_id].num_members + 1
      BY <3>2, CountUp
    <3> DEFINE new == [config EXCEPT ![d.group_id] = entry]
    <3>4. /\ new \in Seq(RoomGroupConfig) /\ DOMAIN new = DOMAIN config
          /\ new[d.group_id] = entry
          /\ \A h \in DOMAIN config : h # d.group_id => new[h] = config[h]
      <4> HIDE DEF entry, config
      <4> QED  BY <2>0, <3>1, <3>3, ReplaceGroup
    <3>5. counted = [room EXCEPT !.group_config = new]
      BY <2>2
    <3> HIDE DEF new, entry, counted
    <3> QED  BY <3>3, <3>4, <3>5, ZenonT(30) DEF RoomType
  <2> QED  BY <2>1, <2>2
<1> HIDE DEF counted
<1>2. ClaimSlot(room, d) = IF d.res = "Ok" THEN occupy_slot(counted, d.slot) ELSE counted
  BY DEF ClaimSlot, counted
<1>3. CASE d.res = "Ok"
  <2>1. d.slot \in 1..room.max_slot
    BY <1>3, Zenon DEF Decision
  <2>2. d.slot \in 1..64
    <3>1. room.max_slot \in 1..64
      BY RoomFields
    <3> QED  BY <2>1, <3>1
  <2>3. ClaimSlot(room, d) = occupy_slot(counted, d.slot)
    BY <1>2, <1>3
  <2> DEFINE r == ClaimSlot(room, d)
  <2>4. /\ r \in RoomType
        /\ r.slots = counted.slots \cup {d.slot}
        /\ r.users = counted.users /\ r.owner = counted.owner
        /\ r.max_slot = counted.max_slot /\ r.flag_attr = counted.flag_attr
        /\ r.lobby_id = counted.lobby_id /\ r.world_id = counted.world_id
        /\ r.group_config = counted.group_config
    <3>1. counted \in RoomType
      BY <1>1
    <3>2. r = occupy_slot(counted, d.slot)
      BY <2>3
    <3> HIDE DEF r, config, entry
    <3> QED  BY <2>2, <3>1, <3>2, OccupyFields, Zenon
  <2> HIDE DEF r
  <2> SUFFICES /\ r \in RoomType
               /\ r.slots = room.slots \cup {d.slot}
               /\ r.users = room.users /\ r.owner = room.owner
               /\ r.max_slot = room.max_slot /\ r.flag_attr = room.flag_attr
               /\ r.lobby_id = room.lobby_id /\ r.world_id = room.world_id
               /\ DOMAIN r.group_config = DOMAIN config
               /\ \A g \in DOMAIN config : r.group_config[g].num_members =
                    IF g = d.group_id THEN config[g].num_members + 1 ELSE config[g].num_members
    BY <1>3, Zenon DEF r
  <2> HIDE DEF config
  <2> QED  BY <1>1, <2>4, Zenon
<1>4. CASE d.res # "Ok"
  BY <1>1, <1>2, <1>4
<1> QED  BY <1>3, <1>4

-----------------------------------------------------------------------------
(* Raising the FULL flag touches no other field.                           *)
LEMMA SetFullFields ==
    ASSUME NEW room \in RoomType
    PROVE  LET r == SetFull(room)
           IN  /\ r \in RoomType
               /\ r.slots = room.slots /\ r.users = room.users /\ r.owner = room.owner
               /\ r.max_slot = room.max_slot
               /\ r.lobby_id = room.lobby_id /\ r.world_id = room.world_id
               /\ r.group_config = room.group_config
               /\ "FULL" \in r.flag_attr <=> \/ Cardinality(room.users) = room.max_slot
                                             \/ "FULL" \in room.flag_attr
BY ZenonT(30) DEF SetFull, RoomType, Flag

(* Lowering it neither.                                                    *)
LEMMA ClearFullFields ==
    ASSUME NEW room \in RoomType
    PROVE  LET r == ClearFull(room)
           IN  /\ r \in RoomType
               /\ r.slots = room.slots /\ r.users = room.users /\ r.owner = room.owner
               /\ r.max_slot = room.max_slot
               /\ r.lobby_id = room.lobby_id /\ r.world_id = room.world_id
               /\ r.group_config = room.group_config
               /\ r.owner_succession = room.owner_succession
               /\ "FULL" \in r.flag_attr <=> /\ Cardinality(room.users) = room.max_slot
                                             /\ "FULL" \in room.flag_attr
BY ZenonT(30) DEF ClearFull, RoomType, Flag

(* Replacing the users of a room.                                          *)
LEMMA UsersFields ==
    ASSUME NEW room \in RoomType, NEW S \in SUBSET RoomUser
    PROVE  LET r == [room EXCEPT !.users = S]
           IN  /\ r \in RoomType
               /\ r.slots = room.slots /\ r.users = S /\ r.owner = room.owner
               /\ r.max_slot = room.max_slot /\ r.flag_attr = room.flag_attr
               /\ r.lobby_id = room.lobby_id /\ r.world_id = room.world_id
               /\ r.group_config = room.group_config
               /\ r.owner_succession = room.owner_succession
BY ZenonT(30) DEF RoomType

(* A room has a slot.                                                      *)
LEMMA MaxSlotNat ==
    ASSUME NEW room, WellFormed(room)
    PROVE  room.max_slot \in Nat \ {0}
<1>1. room \in RoomType
  BY DEF WellFormed
<1>2. room.max_slot \in 1..64
  BY <1>1, RoomFields
<1> QED  BY <1>2

(* Every well-formed room has a member.                                    *)
LEMMA SomeMember ==
    ASSUME NEW room, WellFormed(room)
    PROVE  Cardinality(room.users) \in Nat \ {0}
<1>1. room.users # {}
  BY DEF WellFormed, HasOneOwner
<1> QED  BY <1>1, FS_EmptySet, FS_CardinalityType DEF WellFormed

(* What a granted join makes of a room: the new member's slot was free, so *)
(* that it replaces nobody.                                                *)
Joined(room, d, x, r) ==
    /\ r \in RoomType
    /\ x \in RoomUser
    /\ MemberSlot(x.member_id) = d.slot
    /\ x \notin room.users
    /\ r.users = room.users \cup {x}
    /\ IsFiniteSet(r.users)
    /\ Cardinality(r.users) = Cardinality(room.users) + 1
    /\ r.slots = room.slots \cup {d.slot}
    /\ r.owner = room.owner /\ r.max_slot = room.max_slot
    /\ r.lobby_id = room.lobby_id /\ r.world_id = room.world_id
    /\ "FULL" \in r.flag_attr <=> \/ Cardinality(r.users) = room.max_slot
                                  \/ "FULL" \in room.flag_attr
    /\ DOMAIN r.group_config = DOMAIN room.group_config
    /\ \A g \in DOMAIN room.group_config :
         r.group_config[g].num_members =
           IF g = d.group_id THEN room.group_config[g].num_members + 1
                             ELSE room.group_config[g].num_members

(* AddMember does that.                                                    *)
LEMMA AddMemberJoins ==
    ASSUME NEW room, WellFormed(room), NEW d, Decision(room, d), d.res = "Ok",
           NEW u \in UserId, NEW team \in Team
    PROVE  Joined(room, d, NewMember(room, d, u, team), AddMember(room, d, u, team))
<1> DEFINE x == NewMember(room, d, u, team)
           c == ClaimSlot(room, d)
           joined == [c EXCEPT !.users = room.users \cup {x}]
           r == AddMember(room, d, u, team)
<1>1. room \in RoomType /\ IsFiniteSet(room.users)
  BY DEF WellFormed
<1>2. /\ d.slot \in 1..room.max_slot
      /\ d.slot \notin room.slots
      /\ d.group_id \in {0} \cup DOMAIN room.group_config
  BY Zenon DEF Decision
<1>3. /\ c \in RoomType /\ c.users = room.users
      /\ c.slots = room.slots \cup {d.slot}
      /\ c.owner = room.owner /\ c.max_slot = room.max_slot /\ c.flag_attr = room.flag_attr
      /\ c.lobby_id = room.lobby_id /\ c.world_id = room.world_id
      /\ DOMAIN c.group_config = DOMAIN room.group_config
      /\ \A g \in DOMAIN room.group_config :
           c.group_config[g].num_members =
             IF g = d.group_id THEN room.group_config[g].num_members + 1
                               ELSE room.group_config[g].num_members
  <2> HIDE DEF c, x
  <2>1. c.slots = room.slots \cup {d.slot}
    BY <1>1, ClaimSlotFields, Zenon DEF c
  <2>2. /\ c \in RoomType /\ c.users = room.users
        /\ c.owner = room.owner /\ c.max_slot = room.max_slot /\ c.flag_attr = room.flag_attr
        /\ c.lobby_id = room.lobby_id /\ c.world_id = room.world_id
        /\ DOMAIN c.group_config = DOMAIN room.group_config
    BY <1>1, ClaimSlotFields, Zenon DEF c
  <2>3. \A g \in DOMAIN room.group_config :
           c.group_config[g].num_members =
             IF g = d.group_id THEN room.group_config[g].num_members + 1
                               ELSE room.group_config[g].num_members
    BY <1>1, ClaimSlotFields DEF c
  <2> QED  BY <2>1, <2>2, <2>3
<1>4. NewMemberId(room, d.slot) \in Nat /\ MemberSlot(NewMemberId(room, d.slot)) = d.slot
  <2>1. d.slot \in Nat
    BY <1>1, <1>2, RoomFields
  <2>2. room.member_id_counter \in 0..(MemberIdMod - 1)
    BY <1>1, RoomFields
  <2>3. NewMemberId(room, d.slot) = d.slot * MemberIdMod + room.member_id_counter
    BY DEF NewMemberId
  <2>4. MemberSlot(d.slot * MemberIdMod + room.member_id_counter) = d.slot
    BY <2>1, <2>2, SlotOfMemberId, Zenon
  <2>5. d.slot * MemberIdMod + room.member_id_counter \in Nat
    BY <2>1, <2>2, MemberIdModAssumption
  <2> QED  BY <2>3, <2>4, <2>5, Zenon
<1>4a. /\ x.member_id = NewMemberId(room, d.slot) /\ x.user_id = u
       /\ x.group_id = d.group_id % GroupIdMod /\ x.is_owner = FALSE
  BY DEF NewMember
<1>5. x \in RoomUser
  <2>1. d.group_id \in Nat
    BY <1>1, <1>2, RoomFields
  <2>2. d.group_id % GroupIdMod \in 0..(GroupIdMod - 1)
    BY <2>1, GroupIdStored, Zenon
  <2> QED  BY <1>4, <2>2, Zenon DEF RoomUser, NewMember
<1>6. \A y \in room.users : y.member_id # x.member_id
  BY <1>2, <1>4, <1>4a DEF WellFormed, SlotsHeld
<1>7. x \notin room.users
  BY <1>6
<1>8. InsertUser(room.users, x) = room.users \cup {x}
  BY <1>6 DEF InsertUser
<1>9. r = SetFull(joined)
  BY <1>3, <1>8 DEF AddMember
<1>10. IsFiniteSet(room.users \cup {x})
       /\ Cardinality(room.users \cup {x}) = Cardinality(room.users) + 1
  <2> HIDE DEF x
  <2> QED  BY <1>1, <1>7, FS_AddElement, ZenonT(30)
<1>11. room.users \cup {x} \in SUBSET RoomUser
  BY <1>1, <1>5, RoomFields
<1>12. /\ joined \in RoomType /\ joined.users = room.users \cup {x}
       /\ joined.slots = c.slots /\ joined.owner = c.owner
       /\ joined.max_slot = c.max_slot /\ joined.flag_attr = c.flag_attr
       /\ joined.lobby_id = c.lobby_id /\ joined.world_id = c.world_id
       /\ joined.group_config = c.group_config
  <2> HIDE DEF x, c
  <2> QED  BY <1>3, <1>11, UsersFields, SMTT(30)
<1>13. /\ r \in RoomType
       /\ r.slots = joined.slots /\ r.users = joined.users /\ r.owner = joined.owner
       /\ r.max_slot = joined.max_slot
       /\ r.lobby_id = joined.lobby_id /\ r.world_id = joined.world_id
       /\ r.group_config = joined.group_config
       /\ "FULL" \in r.flag_attr <=> \/ Cardinality(joined.users) = joined.max_slot
                                     \/ "FULL" \in joined.flag_attr
  <2> HIDE DEF joined, r
  <2> QED  BY <1>9, <1>12, SetFullFields, Zenon
<1>14. MemberSlot(x.member_id) = d.slot
  BY <1>4, <1>4a
<1> HIDE DEF x, c, joined, r
<1>15. /\ r.users = room.users \cup {x} /\ r.slots = room.slots \cup {d.slot}
       /\ r.owner = room.owner /\ r.max_slot = room.max_slot
       /\ r.lobby_id = room.lobby_id /\ r.world_id = room.world_id
       /\ r.group_config = c.group_config
       /\ "FULL" \in r.flag_attr <=> \/ Cardinality(r.users) = room.max_slot
                                     \/ "FULL" \in room.flag_attr
  BY <1>3, <1>12, <1>13, Zenon
<1>16. Cardinality(r.users) = Cardinality(room.users) + 1 /\ IsFiniteSet(r.users)
  BY <1>10, <1>15
<1>17. Joined(room, d, x, r)
  BY <1>3, <1>5, <1>7, <1>13, <1>14, <1>15, <1>16, Zenon DEF Joined
<1> QED  BY <1>17 DEF r, x

(* A granted join keeps the room well formed and adds exactly the joiner.  *)
LEMMA AddMemberWellFormed ==
    ASSUME NEW room, WellFormed(room), NEW d, Decision(room, d), d.res = "Ok",
           NEW u \in UserId, NEW team \in Team,
           MembersOf(room, u) = {}, "FULL" \notin room.flag_attr
    PROVE  LET r == AddMember(room, d, u, team)
           IN  /\ WellFormed(r)
               /\ UserIds(r) = UserIds(room) \cup {u}
               /\ r.lobby_id = room.lobby_id /\ r.world_id = room.world_id
               /\ r.owner = room.owner /\ r.max_slot = room.max_slot
<1> DEFINE x == NewMember(room, d, u, team)
           r == AddMember(room, d, u, team)
<1>1. Joined(room, d, x, r)
  BY AddMemberJoins
<1>2. x.user_id = u /\ x.group_id = d.group_id % GroupIdMod /\ x.is_owner = FALSE
  BY DEF NewMember
<1> HIDE DEF x, r
<1> USE DEF Joined
<1>3. /\ d.slot \in 1..room.max_slot
      /\ d.slot \notin room.slots
      /\ d.group_id \in {0} \cup DOMAIN room.group_config
  BY Zenon DEF Decision
<1>4. HasOneOwner(r)
  <2>1. PICK y \in room.users : y.member_id = room.owner
                                /\ {z \in room.users : z.is_owner} = {y}
    BY DEF WellFormed, HasOneOwner
  <2>2. {z \in r.users : z.is_owner} = {y}
    BY <1>1, <1>2, <2>1
  <2> QED  BY <1>1, <2>1, <2>2 DEF HasOneOwner
<1>5. SlotsHeld(r)
  <2>1. r.slots \subseteq 1..r.max_slot
    BY <1>1, <1>3 DEF WellFormed, SlotsHeld
  <2>2. \A y \in r.users : MemberSlot(y.member_id) \in r.slots
    BY <1>1 DEF WellFormed, SlotsHeld
  <2>3. \A y, z \in r.users : MemberSlot(y.member_id) = MemberSlot(z.member_id) => y = z
    BY <1>1, <1>3 DEF WellFormed, SlotsHeld
  <2> QED  BY <2>1, <2>2, <2>3 DEF SlotsHeld
<1>6. UsersDistinct(r)
  BY <1>1, <1>2 DEF WellFormed, UsersDistinct, MembersOf
<1>7. FullFlagRight(r)
  <2>1. Cardinality(room.users) \in Nat \ {0}
    BY SomeMember
  <2>2. room.max_slot \in Nat
    BY MaxSlotNat
  <2> QED  BY <1>1, <2>1, <2>2 DEF FullFlagRight
<1>8. GroupsCounted(r)
  <2>1. \A y \in r.users : y.group_id \in {0} \cup DOMAIN r.group_config
    <3>1. x.group_id \in {0} \cup DOMAIN room.group_config
      BY <1>2, <1>3, GroupIdInRoom, Zenon DEF WellFormed
    <3> QED  BY <1>1, <3>1 DEF WellFormed, GroupsCounted
  <2>2. ASSUME GroupIdsFit(r), NEW g \in DOMAIN r.group_config
        PROVE  r.group_config[g].num_members >= Cardinality(GroupMembers(r, g))
    <3>0. GroupIdsFit(room) /\ x.group_id = d.group_id
      <4>1. GroupIdsFit(room)
        BY <1>1, <2>2 DEF GroupIdsFit
      <4> QED  BY <1>2, <1>3, <4>1, GroupIdInRoom, Zenon DEF WellFormed
    <3>1. /\ IsFiniteSet(GroupMembers(room, g))
          /\ Cardinality(GroupMembers(room, g)) \in Nat
      BY FS_Subset, FS_CardinalityType DEF WellFormed, GroupMembers
    <3>2. /\ room.group_config[g].num_members >= Cardinality(GroupMembers(room, g))
          /\ room.group_config[g].num_members \in Int
      <4>1. room.group_config \in Seq(RoomGroupConfig)
        BY RoomFields DEF WellFormed
      <4>2. room.group_config[g] \in RoomGroupConfig
        BY <1>1, <4>1
      <4> QED  BY <1>1, <3>0, <4>2 DEF WellFormed, GroupsCounted, RoomGroupConfig
    <3>3. CASE g = d.group_id
      <4>1. GroupMembers(r, g) = GroupMembers(room, g) \cup {x}
        BY <1>1, <3>0, <3>3 DEF GroupMembers
      <4>2. Cardinality(GroupMembers(r, g)) = Cardinality(GroupMembers(room, g)) + 1
        BY <1>1, <3>1, <4>1, FS_AddElement, ZenonT(30) DEF GroupMembers
      <4> QED  BY <1>1, <3>1, <3>2, <3>3, <4>2
    <3>4. CASE g # d.group_id
      <4>1. GroupMembers(r, g) = GroupMembers(room, g)
        BY <1>1, <3>0, <3>4 DEF GroupMembers
      <4> QED  BY <1>1, <3>2, <3>4, <4>1
    <3> QED  BY <3>3, <3>4
  <2> QED  BY <2>1, <2>2 DEF GroupsCounted
<1>9. UserIds(r) = UserIds(room) \cup {u}
  BY <1>1, <1>2 DEF UserIds
<1>10. WellFormed(r)
  BY <1>1, <1>4, <1>5, <1>6, <1>7, <1>8 DEF WellFormed
<1> QED  BY <1>1, <1>9, <1>10 DEF r

(* So does a join that fails after get_a_slot: it leaves a slot without a  *)
(* member or a group that counts one member too many.                      *)
LEMMA ClaimSlotWellFormed ==
    ASSUME NEW room, WellFormed(room), NEW d, Decision(room, d)
    PROVE  LET r == ClaimSlot(room, d)
           IN  /\ WellFormed(r)
               /\ r.users = room.users /\ r.owner = room.owner
               /\ r.max_slot = room.max_slot
               /\ r.lobby_id = room.lobby_id /\ r.world_id = room.world_id
<1> DEFINE r == ClaimSlot(room, d)
<1>1. room \in RoomType
  BY DEF WellFormed
<1>2. /\ r \in RoomType
      /\ d.res = "Ok" => r.slots = room.slots \cup {d.slot}
      /\ d.res # "Ok" => r.slots = room.slots
      /\ r.users = room.users /\ r.owner = room.owner
      /\ r.max_slot = room.max_slot /\ r.flag_attr = room.flag_attr
      /\ r.lobby_id = room.lobby_id /\ r.world_id = room.world_id
      /\ DOMAIN r.group_config = DOMAIN room.group_config
  BY <1>1, ClaimSlotFields, Zenon
<1>3. \A g \in DOMAIN room.group_config :
        r.group_config[g].num_members =
          IF g = d.group_id THEN room.group_config[g].num_members + 1
                            ELSE room.group_config[g].num_members
  BY <1>1, ClaimSlotFields
<1> HIDE DEF r
<1>4. d.res = "Ok" => d.slot \in 1..room.max_slot
  BY Zenon DEF Decision
<1>5. SlotsHeld(r)
  BY <1>2, <1>4 DEF WellFormed, SlotsHeld
<1>6. GroupsCounted(r)
  <2>1. ASSUME GroupIdsFit(r), NEW g \in DOMAIN r.group_config
        PROVE  r.group_config[g].num_members >= Cardinality(GroupMembers(r, g))
    <3>1. GroupMembers(r, g) = GroupMembers(room, g)
      BY <1>2 DEF GroupMembers
    <3>2. Cardinality(GroupMembers(room, g)) \in Nat
      BY FS_Subset, FS_CardinalityType DEF WellFormed, GroupMembers
    <3>3. room.group_config[g] \in RoomGroupConfig
      BY <1>1, <1>2, RoomFields
    <3>4. /\ room.group_config[g].num_members \in Int
          /\ room.group_config[g].num_members >= Cardinality(GroupMembers(room, g))
      BY <1>2, <2>1, <3>3 DEF WellFormed, GroupsCounted, GroupIdsFit, RoomGroupConfig
    <3> QED  BY <1>2, <1>3, <3>1, <3>2, <3>4
  <2> QED  BY <1>2, <2>1 DEF WellFormed, GroupsCounted
<1>7. HasOneOwner(r) /\ UsersDistinct(r) /\ FullFlagRight(r) /\ IsFiniteSet(r.users)
  BY <1>2 DEF WellFormed, HasOneOwner, UsersDistinct, FullFlagRight
<1>8. WellFormed(r)
  BY <1>2, <1>5, <1>6, <1>7 DEF WellFormed
<1> QED  BY <1>2, <1>8 DEF r

-----------------------------------------------------------------------------
(* What holds of a room also while it has lost its owner and has not yet   *)
(* got the next one.                                                       *)
Sound(room) ==
    /\ room \in RoomType
    /\ IsFiniteSet(room.users)
    /\ SlotsHeld(room)
    /\ UsersDistinct(room)
    /\ FullFlagRight(room)
    /\ GroupsCounted(room)

(* A room never has more members than slots: each member holds a slot of   *)
(* its own.                                                                *)
LEMMA MembersFit ==
    ASSUME NEW room, Sound(room)
    PROVE  Cardinality(room.users) <= room.max_slot
<1> DEFINE f == [x \in room.users |-> MemberSlot(x.member_id)]
           T == 1..room.max_slot
<1>1. room.max_slot \in Nat \ {0}
  <2>1. room \in RoomType
    BY DEF Sound
  <2>2. room.max_slot \in 1..64
    BY <2>1, RoomFields
  <2> QED  BY <2>2
<1>2. f \in Injection(room.users, T)
  <2>1. f \in [room.users -> T]
    BY DEF Sound, SlotsHeld
  <2>2. IsInjective(f)
    BY DEF Sound, SlotsHeld, IsInjective
  <2> HIDE DEF f, T
  <2> QED  BY <2>1, <2>2 DEF Injection
<1>3. IsFiniteSet(T) /\ Cardinality(T) = room.max_slot
  BY <1>1, FS_Interval
<1> HIDE DEF f, T
<1>4. Cardinality(room.users) <= Cardinality(T)
  BY <1>2, <1>3, FS_Injection
<1> QED  BY <1>3, <1>4

(* What RemoveMember makes of a room that x is a member of.                *)
Left(room, x, r) ==
    /\ r \in RoomType
    /\ r.users = room.users \ {x}
    /\ r.slots = room.slots \ {MemberSlot(x.member_id)}
    /\ r.owner = room.owner /\ r.max_slot = room.max_slot
    /\ r.lobby_id = room.lobby_id /\ r.world_id = room.world_id
    /\ r.owner_succession = room.owner_succession
    /\ "FULL" \in r.flag_attr <=> /\ Cardinality(r.users) = room.max_slot
                                  /\ "FULL" \in room.flag_attr
    /\ DOMAIN r.group_config = DOMAIN room.group_config
    /\ \A g \in DOMAIN room.group_config :
         r.group_config[g].num_members =
           IF g = x.group_id THEN room.group_config[g].num_members - 1
                             ELSE room.group_config[g].num_members

(* A group that counts one member less.                                    *)
LEMMA CountDown ==
    ASSUME NEW e \in RoomGroupConfig, NEW l \in Label \cup {None}
    PROVE  LET n == [e EXCEPT !.num_members = e.num_members - 1, !.label = l]
           IN  /\ n \in RoomGroupConfig
               /\ n.num_members = e.num_members - 1
<1>1. e.num_members \in Int
  BY DEF RoomGroupConfig
<1>2. e.num_members - 1 \in Int
  BY <1>1
<1> QED  BY <1>2, Zenon DEF RoomGroupConfig

(* The groups of a room after x has left.                                  *)
LEMMA LeaveGroupFields ==
    ASSUME NEW room, Sound(room), NEW x \in room.users
    PROVE  LET r == LeaveGroup(room, x.group_id)
           IN  /\ r \in RoomType
               /\ r.slots = room.slots /\ r.users = room.users /\ r.owner = room.owner
               /\ r.max_slot = room.max_slot /\ r.flag_attr = room.flag_attr
               /\ r.lobby_id = room.lobby_id /\ r.world_id = room.world_id
               /\ r.owner_succession = room.owner_succession
               /\ DOMAIN r.group_config = DOMAIN room.group_config
               /\ \A h \in DOMAIN room.group_config :
                    r.group_config[h].num_members =
                      IF h = x.group_id THEN room.group_config[h].num_members - 1
                                        ELSE room.group_config[h].num_members
<1> DEFINE g == x.group_id
           config == room.group_config
           r == LeaveGroup(room, g)
<1>1. room \in RoomType
  BY DEF Sound
<1>2. config \in Seq(RoomGroupConfig)
  BY <1>1, RoomFields
<1>3. g \in {0} \cup DOMAIN config
  BY DEF Sound, GroupsCounted
<1>4. CASE g = 0
  <2>1. g \notin DOMAIN config
    BY <1>2, <1>4
  <2>2. r = room
    BY <1>4 DEF LeaveGroup
  <2> QED  BY <1>1, <2>1, <2>2
<1>5. CASE g # 0
  <2> DEFINE l == IF config[g].num_members = 1 /\ ~config[g].fixed_label
                    THEN None ELSE config[g].label
             e == [config[g] EXCEPT !.num_members = config[g].num_members - 1, !.label = l]
             new == [config EXCEPT ![g] = e]
  <2>1. g \in DOMAIN config /\ config[g] \in RoomGroupConfig
    BY <1>2, <1>3, <1>5
  <2>2. config[g].num_members \in Int /\ config[g].label \in Label \cup {None}
    BY <2>1 DEF RoomGroupConfig
  <2>4. l \in Label \cup {None}
    BY <2>2
  <2>5. e \in RoomGroupConfig /\ e.num_members = config[g].num_members - 1
    <3> HIDE DEF l, config, g
    <3> QED  BY <2>1, <2>4, CountDown, Zenon
  <2>6. /\ new \in Seq(RoomGroupConfig) /\ DOMAIN new = DOMAIN config
        /\ new[g] = e
        /\ \A h \in DOMAIN config : h # g => new[h] = config[h]
    <3> HIDE DEF e, config, g
    <3> QED  BY <1>2, <2>1, <2>5, ReplaceGroup
  <2>7. r = [room EXCEPT !.group_config = new]
    BY <1>5 DEF LeaveGroup
  <2> HIDE DEF new, e, r
  <2>8. /\ r \in RoomType
        /\ r.slots = room.slots /\ r.users = room.users /\ r.owner = room.owner
        /\ r.max_slot = room.max_slot /\ r.flag_attr = room.flag_attr
        /\ r.lobby_id = room.lobby_id /\ r.world_id = room.world_id
        /\ r.owner_succession = room.owner_succession
        /\ r.group_config = new
    BY <1>1, <2>6, <2>7, ZenonT(30) DEF RoomType
  <2>9. \A h \in DOMAIN config : r.group_config[h].num_members =
          IF h = g THEN config[h].num_members - 1 ELSE config[h].num_members
    BY <2>5, <2>6, <2>8
  <2> QED  BY <2>6, <2>8, <2>9 DEF r
<1> QED  BY <1>4, <1>5

(* What free_slot writes.                                                  *)
LEMMA FreeSlotFields ==
    ASSUME NEW room \in RoomType, NEW m
    PROVE  LET r == free_slot(room, m)
           IN  /\ r \in RoomType
               /\ r.slots = room.slots \ {MemberSlot(m)}
               /\ r.users = room.users /\ r.owner = room.owner
               /\ r.max_slot = room.max_slot /\ r.flag_attr = room.flag_attr
               /\ r.lobby_id = room.lobby_id /\ r.world_id = room.world_id
               /\ r.group_config = room.group_config
               /\ r.owner_succession = room.owner_succession
BY ZenonT(30) DEF free_slot, RoomType

(* RemoveMember does what Left says.                                       *)
LEMMA RemoveMemberLeaves ==
    ASSUME NEW room, Sound(room), NEW x \in room.users
    PROVE  Left(room, x, RemoveMember(room, x))
<1> DEFINE a == LeaveGroup(room, x.group_id)
           b == [a EXCEPT !.users = room.users \ {x}]
           c == free_slot(b, x.member_id)
           r == RemoveMember(room, x)
<1>1. /\ a \in RoomType
      /\ a.slots = room.slots /\ a.users = room.users /\ a.owner = room.owner
      /\ a.max_slot = room.max_slot /\ a.flag_attr = room.flag_attr
      /\ a.lobby_id = room.lobby_id /\ a.world_id = room.world_id
      /\ a.owner_succession = room.owner_succession
      /\ DOMAIN a.group_config = DOMAIN room.group_config
  BY LeaveGroupFields, Zenon
<1>2. \A h \in DOMAIN room.group_config :
        a.group_config[h].num_members =
          IF h = x.group_id THEN room.group_config[h].num_members - 1
                            ELSE room.group_config[h].num_members
  BY LeaveGroupFields
<1>3. r = ClearFull(c)
  BY <1>1 DEF RemoveMember
<1>4. room.users \ {x} \in SUBSET RoomUser
  <2>1. room \in RoomType
    BY DEF Sound
  <2> QED  BY <2>1, RoomFields
<1>5. /\ b \in RoomType
      /\ b.slots = a.slots /\ b.users = room.users \ {x} /\ b.owner = a.owner
      /\ b.max_slot = a.max_slot /\ b.flag_attr = a.flag_attr
      /\ b.lobby_id = a.lobby_id /\ b.world_id = a.world_id
      /\ b.group_config = a.group_config
      /\ b.owner_succession = a.owner_succession
  <2> HIDE DEF a
  <2> QED  BY <1>1, <1>4, UsersFields
<1>6. /\ c \in RoomType
      /\ c.slots = b.slots \ {MemberSlot(x.member_id)}
      /\ c.users = b.users /\ c.owner = b.owner
      /\ c.max_slot = b.max_slot /\ c.flag_attr = b.flag_attr
      /\ c.lobby_id = b.lobby_id /\ c.world_id = b.world_id
      /\ c.group_config = b.group_config
      /\ c.owner_succession = b.owner_succession
  <2> HIDE DEF b
  <2> QED  BY <1>5, FreeSlotFields
<1>7. /\ r \in RoomType
      /\ r.slots = c.slots /\ r.users = c.users /\ r.owner = c.owner
      /\ r.max_slot = c.max_slot
      /\ r.lobby_id = c.lobby_id /\ r.world_id = c.world_id
      /\ r.group_config = c.group_config
      /\ r.owner_succession = c.owner_succession
      /\ "FULL" \in r.flag_attr <=> /\ Cardinality(c.users) = c.max_slot
                                    /\ "FULL" \in c.flag_attr
  <2> HIDE DEF c, r
  <2> QED  BY <1>3, <1>6, ClearFullFields, Zenon
<1> HIDE DEF a, b, c, r
<1>8. /\ r.users = room.users \ {x}
      /\ r.slots = room.slots \ {MemberSlot(x.member_id)}
      /\ r.owner = room.owner /\ r.max_slot = room.max_slot
      /\ r.lobby_id = room.lobby_id /\ r.world_id = room.world_id
      /\ r.owner_succession = room.owner_succession
      /\ r.group_config = a.group_config
  BY <1>1, <1>5, <1>6, <1>7, Zenon
<1>9. "FULL" \in r.flag_attr <=> /\ Cardinality(r.users) = room.max_slot
                                 /\ "FULL" \in room.flag_attr
  BY <1>1, <1>5, <1>6, <1>7, Zenon
<1>10. Left(room, x, r)
  BY <1>1, <1>2, <1>7, <1>8, <1>9, Zenon DEF Left
<1> QED  BY <1>10 DEF r

(* What is left after a departure is sound: the slot that is freed was     *)
(* nobody else's, and a full room is full no more.                         *)
LEMMA LeftSound ==
    ASSUME NEW room, Sound(room), NEW x \in room.users, NEW r, Left(room, x, r)
    PROVE  /\ Sound(r)
           /\ Cardinality(r.users) = Cardinality(room.users) - 1
           /\ UserIds(r) = UserIds(room) \ {x.user_id}
<1> USE DEF Left
<1>1. /\ IsFiniteSet(r.users)
      /\ Cardinality(room.users) \in Nat /\ Cardinality(r.users) \in Nat
      /\ Cardinality(r.users) = Cardinality(room.users) - 1
  BY FS_RemoveElement, FS_CardinalityType DEF Sound
<1>2. SlotsHeld(r)
  <2>1. r.slots \subseteq 1..r.max_slot
    BY DEF Sound, SlotsHeld
  <2>2. \A y \in r.users : MemberSlot(y.member_id) \in r.slots
    BY DEF Sound, SlotsHeld
  <2>3. \A y, z \in r.users : MemberSlot(y.member_id) = MemberSlot(z.member_id) => y = z
    BY DEF Sound, SlotsHeld
  <2> QED  BY <2>1, <2>2, <2>3 DEF SlotsHeld
<1>3. UsersDistinct(r)
  BY DEF Sound, UsersDistinct
<1>4. FullFlagRight(r)
  <2>1. Cardinality(room.users) <= room.max_slot
    BY MembersFit
  <2>2. room.max_slot \in Nat
    <3>1. room \in RoomType
      BY DEF Sound
    <3>2. room.max_slot \in 1..64
      BY <3>1, RoomFields
    <3> QED  BY <3>2
  <2>3. Cardinality(r.users) # room.max_slot
    BY <1>1, <2>1, <2>2
  <2> QED  BY <2>3 DEF FullFlagRight
<1>5. GroupsCounted(r)
  <2>1. ASSUME GroupIdsFit(r), NEW g \in DOMAIN r.group_config
        PROVE  r.group_config[g].num_members >= Cardinality(GroupMembers(r, g))
    <3>1. /\ IsFiniteSet(GroupMembers(room, g))
          /\ Cardinality(GroupMembers(room, g)) \in Nat
      BY FS_Subset, FS_CardinalityType DEF Sound, GroupMembers
    <3>2. /\ room.group_config[g].num_members \in Int
          /\ room.group_config[g].num_members >= Cardinality(GroupMembers(room, g))
      <4>1. room \in RoomType
        BY DEF Sound
      <4>2. room.group_config \in Seq(RoomGroupConfig)
        BY <4>1, RoomFields
      <4>3. room.group_config[g] \in RoomGroupConfig
        BY <4>2
      <4> QED  BY <2>1, <4>3 DEF Sound, GroupsCounted, GroupIdsFit, RoomGroupConfig
    <3>3. CASE g = x.group_id
      <4>1. GroupMembers(r, g) = GroupMembers(room, g) \ {x} /\ x \in GroupMembers(room, g)
        BY <3>3 DEF GroupMembers
      <4>2. Cardinality(GroupMembers(r, g)) = Cardinality(GroupMembers(room, g)) - 1
        BY <3>1, <4>1, FS_RemoveElement, Zenon
      <4> QED  BY <3>1, <3>2, <3>3, <4>2
    <3>4. CASE g # x.group_id
      <4>1. GroupMembers(r, g) = GroupMembers(room, g)
        BY <3>4 DEF GroupMembers
      <4> QED  BY <3>2, <3>4, <4>1
    <3> QED  BY <3>3, <3>4
  <2> QED  BY <2>1 DEF Sound, GroupsCounted
<1>6. UserIds(r) = UserIds(room) \ {x.user_id}
  BY DEF Sound, UsersDistinct, UserIds
<1> QED  BY <1>1, <1>2, <1>3, <1>4, <1>5, <1>6 DEF Sound

(* When a member who is not the owner leaves, the owner stays.             *)
LEMMA RemoveMemberWellFormed ==
    ASSUME NEW room, WellFormed(room), NEW x \in room.users, x.member_id # room.owner
    PROVE  LET r == RemoveMember(room, x)
           IN  /\ WellFormed(r)
               /\ UserIds(r) = UserIds(room) \ {x.user_id}
               /\ r.owner = room.owner /\ r.max_slot = room.max_slot
               /\ r.lobby_id = room.lobby_id /\ r.world_id = room.world_id
<1> DEFINE r == RemoveMember(room, x)
<1>1. Sound(room)
  BY DEF WellFormed, Sound
<1>2. Left(room, x, r)
  BY <1>1, RemoveMemberLeaves
<1> HIDE DEF r
<1>3. Sound(r) /\ UserIds(r) = UserIds(room) \ {x.user_id}
  BY <1>1, <1>2, LeftSound
<1>4. PICK y \in room.users : y.member_id = room.owner
                              /\ {z \in room.users : z.is_owner} = {y}
  BY DEF WellFormed, HasOneOwner
<1>5. y \in r.users /\ {z \in r.users : z.is_owner} = {y} /\ y.member_id = r.owner
  BY <1>2, <1>4 DEF Left
<1>6. HasOneOwner(r)
  BY <1>5 DEF HasOneOwner
<1>7. WellFormed(r)
  BY <1>3, <1>6 DEF WellFormed, Sound
<1> QED  BY <1>2, <1>3, <1>7 DEF Left, r

-----------------------------------------------------------------------------
(* Exchanging one element of a finite set for a new one.                   *)
LEMMA ExchangeCardinality ==
    ASSUME NEW S, IsFiniteSet(S), NEW y \in S, NEW z, z \notin S \ {y}
    PROVE  /\ IsFiniteSet((S \ {y}) \cup {z})
           /\ Cardinality((S \ {y}) \cup {z}) = Cardinality(S)
<1>1. IsFiniteSet(S \ {y}) /\ Cardinality(S \ {y}) = Cardinality(S) - 1
  BY FS_RemoveElement
<1>2. /\ IsFiniteSet((S \ {y}) \cup {z})
      /\ Cardinality((S \ {y}) \cup {z}) = Cardinality(S \ {y}) + 1
  BY <1>1, FS_AddElement
<1> QED  BY <1>1, <1>2, FS_CardinalityType

(* A room stays sound when a member's record is replaced by one with the   *)
(* same ids.                                                               *)
LEMMA ReplaceUser ==
    ASSUME NEW room, Sound(room), NEW y \in room.users, NEW z \in RoomUser,
           z.member_id = y.member_id, z.user_id = y.user_id, z.group_id = y.group_id,
           NEW r \in RoomType, r.users = (room.users \ {y}) \cup {z},
           r.slots = room.slots, r.max_slot = room.max_slot,
           r.flag_attr = room.flag_attr, r.group_config = room.group_config
    PROVE  Sound(r) /\ UserIds(r) = UserIds(room) /\ MemberIds(r) = MemberIds(room)
<1>1. z \notin room.users \ {y}
  BY DEF Sound, UsersDistinct
<1>2. IsFiniteSet(r.users) /\ Cardinality(r.users) = Cardinality(room.users)
  BY <1>1, ExchangeCardinality DEF Sound
<1>3. SlotsHeld(r)
  BY DEF Sound, SlotsHeld
<1>4. UsersDistinct(r)
  BY DEF Sound, UsersDistinct
<1>5. FullFlagRight(r)
  BY <1>2 DEF Sound, FullFlagRight
<1>6. GroupsCounted(r)
  <2>1. ASSUME NEW g \in DOMAIN r.group_config
        PROVE  Cardinality(GroupMembers(r, g)) = Cardinality(GroupMembers(room, g))
    <3>1. CASE g = y.group_id
      <4>1. GroupMembers(r, g) = (GroupMembers(room, g) \ {y}) \cup {z}
        BY <3>1 DEF GroupMembers
      <4>2. y \in GroupMembers(room, g) /\ z \notin GroupMembers(room, g) \ {y}
        BY <1>1, <3>1 DEF GroupMembers
      <4>3. IsFiniteSet(GroupMembers(room, g))
        BY FS_Subset DEF Sound, GroupMembers
      <4> QED  BY <4>1, <4>2, <4>3, ExchangeCardinality
    <3>2. CASE g # y.group_id
      <4>1. GroupMembers(r, g) = GroupMembers(room, g)
        BY <3>2 DEF GroupMembers
      <4> QED  BY <4>1
    <3> QED  BY <3>1, <3>2
  <2>2. \A v \in r.users : v.group_id \in {0} \cup DOMAIN r.group_config
    BY DEF Sound, GroupsCounted
  <2> QED  BY <2>1, <2>2 DEF Sound, GroupsCounted, GroupIdsFit
<1>7. UserIds(r) = UserIds(room) /\ MemberIds(r) = MemberIds(room)
  BY DEF UserIds, MemberIds
<1> QED  BY <1>2, <1>3, <1>4, <1>5, <1>6, <1>7 DEF Sound

(* Two members of a sound room do not share a member id.                   *)
LEMMA MemberIdsDistinct ==
    ASSUME NEW room, Sound(room), NEW y \in room.users, NEW z \in room.users,
           y.member_id = z.member_id
    PROVE  y = z
BY DEF Sound, SlotsHeld

(* An heir is a member.                                                    *)
LEMMA HeirsAreMembers ==
    ASSUME NEW room \in RoomType, NEW m \in Heirs(room)
    PROVE  m \in MemberIds(room)
<1>1. RankedHeirs(room) \in SUBSET Nat
  BY RoomFields DEF RankedHeirs
<1>2. CASE RankedHeirs(room) = {}
  BY <1>2 DEF Heirs
<1>3. CASE RankedHeirs(room) # {}
  <2>1. Min(RankedHeirs(room)) \in RankedHeirs(room)
    BY <1>1, <1>3, MinProperty
  <2>2. room.owner_succession[Min(RankedHeirs(room))] \in MemberIds(room)
    BY <2>1 DEF RankedHeirs
  <2> QED  BY <1>3, <2>2 DEF Heirs
<1> QED  BY <1>2, <1>3

(* The new owner's crowning completes an orphaned room.                    *)
LEMMA CrownWellFormed ==
    ASSUME NEW room, Sound(room), {y \in room.users : y.is_owner} = {},
           NEW m \in Heirs(room)
    PROVE  LET r == Crown(room, m)
           IN  /\ WellFormed(r)
               /\ UserIds(r) = UserIds(room) /\ MemberIds(r) = MemberIds(room)
               /\ r.owner = m /\ r.max_slot = room.max_slot
               /\ r.lobby_id = room.lobby_id /\ r.world_id = room.world_id
<1> DEFINE r == Crown(room, m)
           ranked == RankedHeirs(room)
           old == room.owner_succession
           rest == IF ranked = {} THEN << >> ELSE SubSeq(old, Min(ranked) + 1, Len(old))
<1>1. room \in RoomType /\ room.users \subseteq RoomUser /\ old \in Seq(Nat)
  BY RoomFields DEF Sound
<1>2. PICK y \in room.users : y.member_id = m
  BY <1>1, HeirsAreMembers DEF MemberIds
<1> DEFINE z == [y EXCEPT !.is_owner = TRUE]
           S == (room.users \ {y}) \cup {z}
<1>3. y \in RoomUser
  BY <1>1
<1>4. /\ z \in RoomUser /\ z.is_owner = TRUE
      /\ z.member_id = y.member_id /\ z.user_id = y.user_id /\ z.group_id = y.group_id
  BY <1>3, Zenon DEF RoomUser
<1>5. m \in Nat
  BY <1>2, <1>3 DEF RoomUser
<1>6. \A x \in room.users : x.member_id = m <=> x = y
  BY <1>2, MemberIdsDistinct
<1>7. {IF x.member_id = m THEN [x EXCEPT !.is_owner = TRUE] ELSE x : x \in room.users} = S
  BY <1>6
<1>8. rest \in Seq(Nat)
  <2>1. CASE ranked = {}
    BY <2>1
  <2>2. CASE ranked # {}
    <3>1. ranked \in SUBSET Nat
      BY <1>1 DEF RankedHeirs
    <3>2. Min(ranked) \in Nat
      <4> HIDE DEF ranked
      <4> QED  BY <2>2, <3>1, MinProperty, Zenon
    <3>3. Len(old) \in Nat /\ \A i \in 1..Len(old) : old[i] \in Nat
      BY <1>1
    <3>4. \A i \in (Min(ranked) + 1)..Len(old) : old[i] \in Nat
      <4> HIDE DEF ranked, old
      <4> QED  BY <3>2, <3>3
    <3>5. SubSeq(old, Min(ranked) + 1, Len(old)) \in Seq(Nat)
      <4> HIDE DEF ranked, old
      <4> QED  BY <3>2, <3>3, <3>4, SubSeqProperties
    <3> QED  BY <2>2, <3>5
  <2> QED  BY <2>1, <2>2
<1>9. r = [room EXCEPT !.owner = m, !.owner_succession = rest, !.users = S]
  BY <1>7, Zenon DEF Crown
<1>10. S \in SUBSET RoomUser
  BY <1>1, <1>4, Zenon
<1> HIDE DEF r, rest, S
<1>11. /\ r \in RoomType /\ r.users = S /\ r.owner = m
       /\ r.slots = room.slots /\ r.max_slot = room.max_slot
       /\ r.flag_attr = room.flag_attr /\ r.group_config = room.group_config
       /\ r.lobby_id = room.lobby_id /\ r.world_id = room.world_id
  BY <1>1, <1>5, <1>8, <1>9, <1>10, ZenonT(30) DEF RoomType
<1> HIDE DEF z
<1>12. Sound(r) /\ UserIds(r) = UserIds(room) /\ MemberIds(r) = MemberIds(room)
  BY <1>4, <1>11, ReplaceUser DEF S
<1>13. HasOneOwner(r)
  <2>1. z \in r.users /\ {x \in r.users : x.is_owner} = {z}
    BY <1>4, <1>11 DEF S
  <2> QED  BY <1>2, <1>4, <1>11, <2>1 DEF HasOneOwner
<1>14. WellFormed(r)
  BY <1>12, <1>13 DEF WellFormed, Sound
<1> QED  BY <1>11, <1>12, <1>14 DEF r

(* When the owner leaves, an heir succeeds.                                *)
LEMMA OwnerLeavesWellFormed ==
    ASSUME NEW room, WellFormed(room), NEW x \in room.users, x.member_id = room.owner,
           NEW m \in Heirs(RemoveMember(room, x))
    PROVE  LET r == Crown(RemoveMember(room, x), m)
           IN  /\ WellFormed(r)
               /\ UserIds(r) = UserIds(room) \ {x.user_id}
               /\ r.max_slot = room.max_slot
               /\ r.lobby_id = room.lobby_id /\ r.world_id = room.world_id
<1> DEFINE s == RemoveMember(room, x)
           r == Crown(s, m)
<1>1. Sound(room)
  BY DEF WellFormed, Sound
<1>2. Left(room, x, s)
  BY <1>1, RemoveMemberLeaves
<1>3. m \in Heirs(s)
  OBVIOUS
<1> HIDE DEF s
<1>4. Sound(s) /\ UserIds(s) = UserIds(room) \ {x.user_id}
  BY <1>1, <1>2, LeftSound
<1>5. {y \in s.users : y.is_owner} = {}
  <2>1. PICK y \in room.users : y.member_id = room.owner
                                /\ {z \in room.users : z.is_owner} = {y}
    BY DEF WellFormed, HasOneOwner
  <2>2. y = x
    BY <1>1, <2>1, MemberIdsDistinct
  <2> QED  BY <1>2, <2>1, <2>2 DEF Left
<1>6. /\ WellFormed(r) /\ UserIds(r) = UserIds(s)
      /\ r.max_slot = s.max_slot
      /\ r.lobby_id = s.lobby_id /\ r.world_id = s.world_id
  BY <1>3, <1>4, <1>5, CrownWellFormed, Zenon
<1> HIDE DEF r
<1>7. s.max_slot = room.max_slot /\ s.lobby_id = room.lobby_id /\ s.world_id = room.world_id
  BY <1>2, Zenon DEF Left
<1> QED  BY <1>4, <1>6, <1>7, Zenon DEF r, s

(* When nobody can succeed, nobody else was there.                         *)
LEMMA NoHeirs ==
    ASSUME NEW room, WellFormed(room), NEW x \in room.users,
           Heirs(RemoveMember(room, x)) = {}
    PROVE  room.users = {x}
<1> DEFINE r == RemoveMember(room, x)
<1>1. Sound(room)
  BY DEF WellFormed, Sound
<1>2. Left(room, x, r)
  BY <1>1, RemoveMemberLeaves
<1>3. MemberIds(r) = {}
  BY DEF Heirs
<1> HIDE DEF r
<1>4. r.users = {}
  BY <1>3 DEF MemberIds
<1> QED  BY <1>2, <1>4 DEF Left

(* A member's own or their owner's change of their team.                   *)
LEMMA ChangeTeamWellFormed ==
    ASSUME NEW room, WellFormed(room), NEW y \in room.users, NEW team \in Team
    PROVE  LET z == [y EXCEPT !.team_id = team]
               r == [room EXCEPT !.users = InsertUser(room.users, z)]
           IN  /\ WellFormed(r)
               /\ UserIds(r) = UserIds(room)
               /\ \A v : IsOwner(r, v) <=> IsOwner(room, v)
               /\ r.owner = room.owner /\ r.max_slot = room.max_slot
               /\ r.lobby_id = room.lobby_id /\ r.world_id = room.world_id
<1> DEFINE z == [y EXCEPT !.team_id = team]
           S == (room.users \ {y}) \cup {z}
           r == [room EXCEPT !.users = InsertUser(room.users, z)]
<1>1. Sound(room) /\ room \in RoomType /\ room.users \subseteq RoomUser
  BY RoomFields DEF WellFormed, Sound
<1>2. /\ z \in RoomUser /\ z.is_owner = y.is_owner
      /\ z.member_id = y.member_id /\ z.user_id = y.user_id /\ z.group_id = y.group_id
  <2>1. y \in RoomUser
    BY <1>1
  <2> QED  BY <2>1 DEF RoomUser
<1> HIDE DEF z
<1>3. InsertUser(room.users, z) = S
  BY <1>1, <1>2, MemberIdsDistinct DEF InsertUser
<1>4. S \in SUBSET RoomUser
  BY <1>1, <1>2
<1>5. r = [room EXCEPT !.users = S]
  BY <1>3
<1> HIDE DEF S, r
<1>6. /\ r \in RoomType /\ r.users = S /\ r.owner = room.owner
      /\ r.slots = room.slots /\ r.max_slot = room.max_slot
      /\ r.flag_attr = room.flag_attr /\ r.group_config = room.group_config
      /\ r.lobby_id = room.lobby_id /\ r.world_id = room.world_id
  BY <1>1, <1>4, <1>5, UsersFields
<1>7. Sound(r) /\ UserIds(r) = UserIds(room)
  BY <1>1, <1>2, <1>6, ReplaceUser DEF S
<1>8. HasOneOwner(r)
  <2>1. PICK v \in room.users : v.member_id = room.owner
                                /\ {w \in room.users : w.is_owner} = {v}
    BY DEF WellFormed, HasOneOwner
  <2>2. CASE v = y
    <3>1. {w \in r.users : w.is_owner} = {z} /\ z \in r.users
      BY <1>2, <1>6, <2>1, <2>2 DEF S
    <3> QED  BY <1>2, <1>6, <2>1, <2>2, <3>1 DEF HasOneOwner
  <2>3. CASE v # y
    <3>1. {w \in r.users : w.is_owner} = {v} /\ v \in r.users
      BY <1>2, <1>6, <2>1, <2>3 DEF S
    <3> QED  BY <1>6, <2>1, <3>1 DEF HasOneOwner
  <2> QED  BY <2>2, <2>3
<1>9. WellFormed(r)
  BY <1>7, <1>8 DEF WellFormed, Sound
<1>10. \A v : IsOwner(r, v) <=> IsOwner(room, v)
  BY <1>2, <1>6 DEF S, IsOwner
<1> QED  BY <1>6, <1>7, <1>9, <1>10 DEF r, z

(* A change of a room that its members, slots and counts do not see.       *)
Inert(room, r) ==
    /\ r \in RoomType
    /\ r.users = room.users /\ r.owner = room.owner
    /\ r.slots = room.slots /\ r.max_slot = room.max_slot
    /\ r.lobby_id = room.lobby_id /\ r.world_id = room.world_id
    /\ "FULL" \in r.flag_attr <=> "FULL" \in room.flag_attr
    /\ DOMAIN r.group_config = DOMAIN room.group_config
    /\ \A g \in DOMAIN room.group_config :
         /\ r.group_config[g].num_members = room.group_config[g].num_members
         /\ r.group_config[g].slot_num = room.group_config[g].slot_num

(* Such a change keeps the room well formed.                               *)
LEMMA InertWellFormed ==
    ASSUME NEW room, WellFormed(room), NEW r, Inert(room, r)
    PROVE  WellFormed(r)
<1>1. HasOneOwner(r) /\ UsersDistinct(r) /\ SlotsHeld(r)
  BY DEF Inert, WellFormed, HasOneOwner, UsersDistinct, SlotsHeld
<1>2. FullFlagRight(r)
  BY DEF Inert, WellFormed, FullFlagRight
<1>3. GroupsCounted(r)
  BY DEF Inert, WellFormed, GroupsCounted, GroupIdsFit, GroupMembers
<1> QED  BY <1>1, <1>2, <1>3 DEF WellFormed, Inert

(* The largest element of a non-empty set of numbers up to n.              *)
LEMMA MaxProperty ==
    ASSUME NEW n \in Nat, NEW S \in SUBSET (1..n), S # {}
    PROVE  Max(S) \in S
<1> DEFINE T == {n - i : i \in S}
<1>1. T \in SUBSET Nat /\ T # {}
  <2>1. ASSUME NEW i \in S  PROVE n - i \in Nat
    <3>1. i \in 1..n
      OBVIOUS
    <3> QED  BY <3>1
  <2>2. T \in SUBSET Nat
    BY <2>1
  <2>3. PICK i \in S : TRUE
    BY Zenon
  <2>4. n - i \in T
    BY <2>3
  <2> QED  BY <2>2, <2>4
<1>2. Min(T) \in T /\ \A y \in T : Min(T) <= y
  <2> HIDE DEF T
  <2> QED  BY <1>1, MinProperty
<1>3. PICK i \in S : Min(T) = n - i
  BY <1>2, Zenon
<1>4. ASSUME NEW j \in S  PROVE i >= j
  <2>1. n - j \in T
    OBVIOUS
  <2>2. n - i <= n - j
    BY <1>2, <1>3, <2>1
  <2>3. i \in 1..n /\ j \in 1..n
    OBVIOUS
  <2> QED  BY <2>2, <2>3
<1>5. \E x \in S : \A y \in S : x >= y
  BY <1>4
<1> QED  BY <1>5, Zenon DEF Max

(* Inert changes compose.                                                  *)
LEMMA InertTransitive ==
    ASSUME NEW r, NEW s, NEW t, Inert(r, s), Inert(s, t)
    PROVE  Inert(r, t)
BY DEF Inert

(* A change of a room's owner, if it is one, is in the order of succession.*)
Succeeds(room, r) ==
    r.owner # room.owner =>
      LET stay == MemberIds(room) \ {room.owner}
          ranks == room.owner_succession
      IN  /\ MemberIds(r) = stay
          /\ r.owner \in stay
          /\ \A i \in DOMAIN ranks :
               ranks[i] \in stay /\ (\A j \in 1..(i - 1) : ranks[j] \notin stay)
                 => r.owner = ranks[i]

(* The first ranked member that is present is the only heir.               *)
LEMMA FirstRankedInherits ==
    ASSUME NEW room \in RoomType, NEW m \in Heirs(room), NEW i \in DOMAIN room.owner_succession,
           room.owner_succession[i] \in MemberIds(room),
           \A j \in 1..(i - 1) : room.owner_succession[j] \notin MemberIds(room)
    PROVE  m = room.owner_succession[i]
<1> DEFINE ranked == RankedHeirs(room)
           n == Min(ranked)
<1>1. /\ ranked \in SUBSET Nat /\ i \in ranked /\ i \in Nat
      /\ \A j \in ranked : j >= 1 /\ room.owner_succession[j] \in MemberIds(room)
  BY RoomFields DEF RankedHeirs
<1>2. m = room.owner_succession[n]
  BY <1>1 DEF Heirs
<1> HIDE DEF ranked
<1>3. n \in ranked /\ n <= i
  BY <1>1, MinProperty
<1>4. n \in Nat /\ n >= 1
  BY <1>1, <1>3, ZenonT(30)
<1> HIDE DEF n
<1>5. ~(n < i)
  BY <1>1, <1>3, <1>4
<1> QED  BY <1>1, <1>2, <1>3, <1>4, <1>5

(* The owner's departure follows the order of succession.                  *)
LEMMA OwnerLeavesInOrder ==
    ASSUME NEW room, WellFormed(room), NEW x \in room.users, x.member_id = room.owner,
           NEW m \in Heirs(RemoveMember(room, x))
    PROVE  Succeeds(room, Crown(RemoveMember(room, x), m))
<1> DEFINE s == RemoveMember(room, x)
           r == Crown(s, m)
<1>1. Sound(room)
  BY DEF WellFormed, Sound
<1>2. Left(room, x, s)
  BY <1>1, RemoveMemberLeaves
<1>3. m \in Heirs(s)
  OBVIOUS
<1> HIDE DEF s
<1>4. Sound(s) /\ s \in RoomType
  BY <1>1, <1>2, LeftSound, ZenonT(30) DEF Sound
<1>5. {y \in s.users : y.is_owner} = {}
  <2>1. PICK y \in room.users : y.member_id = room.owner
                                /\ {z \in room.users : z.is_owner} = {y}
    BY DEF WellFormed, HasOneOwner
  <2>2. y = x
    BY <1>1, <2>1, MemberIdsDistinct
  <2> QED  BY <1>2, <2>1, <2>2 DEF Left
<1>6. MemberIds(r) = MemberIds(s) /\ r.owner = m
  BY <1>3, <1>4, <1>5, CrownWellFormed, Zenon
<1> HIDE DEF r
<1>7. s.owner_succession = room.owner_succession /\ s.users = room.users \ {x}
  BY <1>2, Zenon DEF Left
<1>8. MemberIds(s) = MemberIds(room) \ {room.owner}
  BY <1>1, <1>7, MemberIdsDistinct DEF MemberIds
<1>9. m \in MemberIds(s)
  BY <1>3, <1>4, HeirsAreMembers
<1>10. \A i \in DOMAIN s.owner_succession :
         s.owner_succession[i] \in MemberIds(s)
         /\ (\A j \in 1..(i - 1) : s.owner_succession[j] \notin MemberIds(s))
           => m = s.owner_succession[i]
  BY <1>3, <1>4, FirstRankedInherits
<1>11. Succeeds(room, r)
  BY <1>6, <1>7, <1>8, <1>9, <1>10, Zenon DEF Succeeds
<1> QED  BY <1>11 DEF r, s

(* A room has as many users as members.                                    *)
LEMMA UsersFit ==
    ASSUME NEW room, WellFormed(room)
    PROVE  /\ IsFiniteSet(UserIds(room))
           /\ Cardinality(UserIds(room)) <= Cardinality(room.users)
<1> DEFINE f == [x \in room.users |-> x.user_id]
<1>1. f \in Surjection(room.users, UserIds(room))
  BY DEF UserIds, Surjection
<1> HIDE DEF f
<1> QED  BY <1>1, FS_Surjection DEF WellFormed

(* A joiner finds a seat.                                                  *)
LEMMA JoinersFit ==
    ASSUME NEW room, WellFormed(room), NEW d, Decision(room, d), d.res = "Ok",
           NEW u \in UserId, NEW team \in Team,
           MembersOf(room, u) = {}, "FULL" \notin room.flag_attr
    PROVE  Cardinality(UserIds(room)) < room.max_slot
<1> DEFINE r == AddMember(room, d, u, team)
<1>1. WellFormed(r) /\ r.max_slot = room.max_slot
  BY AddMemberWellFormed
<1>2. Joined(room, d, NewMember(room, d, u, team), r)
  BY AddMemberJoins
<1> HIDE DEF r
<1>3. Cardinality(r.users) = Cardinality(room.users) + 1
  BY <1>2 DEF Joined
<1>4. Cardinality(r.users) <= room.max_slot
  BY <1>1, MembersFit DEF WellFormed, Sound
<1>5. /\ Cardinality(UserIds(room)) <= Cardinality(room.users)
      /\ Cardinality(UserIds(room)) \in Nat
  BY UsersFit, FS_CardinalityType
<1>6. Cardinality(room.users) \in Nat /\ room.max_slot \in Nat
  BY SomeMember, MaxSlotNat
<1> QED  BY <1>3, <1>4, <1>5, <1>6

-----------------------------------------------------------------------------
(* Groups.  cur_slot_id gives each group an interval of slots; intervals   *)
(* of different groups are apart, so that a group which counts its members *)
(* counts its occupied slots too.                                          *)

(* The equations that give the first slot of each of n groups.             *)
FirstSlots(f, n, config) ==
    \A g \in 1..n : f[g] = IF g = 1 THEN 1 ELSE f[g - 1] + config[g - 1].slot_num

(* They depend on the sizes of the groups only, and have one solution.     *)
LEMMA FirstSlotsUnique ==
    ASSUME NEW n \in Nat, NEW f, NEW h, NEW c, NEW e,
           FirstSlots(f, n, c), FirstSlots(h, n, e),
           \A g \in 1..n : c[g].slot_num = e[g].slot_num
    PROVE  \A g \in 1..n : f[g] = h[g]
<1> DEFINE Bad == {g \in 1..n : f[g] # h[g]}
<1>1. SUFFICES ASSUME Bad # {}  PROVE FALSE
  OBVIOUS
<1>2. PICK g \in Bad : \A y \in Bad : g <= y
  <2>1. Bad \in SUBSET Nat
    OBVIOUS
  <2> QED  BY <1>1, <2>1, MinProperty, Zenon
<1>3. g \in 1..n /\ f[g] # h[g]
  OBVIOUS
<1>4. g # 1
  BY <1>3 DEF FirstSlots
<1>5. g - 1 \in 1..n /\ g - 1 < g
  BY <1>3, <1>4
<1>6. f[g - 1] = h[g - 1]
  BY <1>2, <1>5
<1> QED  BY <1>3, <1>4, <1>5, <1>6 DEF FirstSlots

(* They have a solution.                                                   *)
LEMMA FirstSlotsExist ==
    ASSUME NEW n \in Nat, NEW config, \A g \in 1..n : config[g].slot_num \in Nat
    PROVE  \E f \in [1..n -> Nat] : FirstSlots(f, n, config)
<1> DEFINE Bad == {m \in 0..n : ~ \E f \in [1..m -> Nat] : FirstSlots(f, m, config)}
<1>1. SUFFICES ASSUME Bad # {}  PROVE FALSE
  OBVIOUS
<1>2. PICK m \in Bad : \A y \in Bad : m <= y
  <2>1. Bad \in SUBSET Nat
    OBVIOUS
  <2> QED  BY <1>1, <2>1, MinProperty, Zenon
<1>3. m \in 0..n /\ ~ \E f \in [1..m -> Nat] : FirstSlots(f, m, config)
  OBVIOUS
<1>4. m # 0
  <2>1. SUFFICES ASSUME m = 0  PROVE FALSE
    OBVIOUS
  <2>2. 1..m = {}
    BY <2>1
  <2>3. [g \in 1..m |-> 0] \in [1..m -> Nat]
    OBVIOUS
  <2>4. FirstSlots([g \in 1..m |-> 0], m, config)
    BY <2>2, Zenon DEF FirstSlots
  <2> QED  BY <1>3, <2>3, <2>4, Zenon
<1>5. m \in Nat /\ m - 1 \in 0..n /\ m - 1 < m
  BY <1>3, <1>4
<1>6. m - 1 \notin Bad
  <2> HIDE DEF Bad
  <2> QED  BY <1>2, <1>5
<1>7. PICK f \in [1..(m - 1) -> Nat] : FirstSlots(f, m - 1, config)
  BY <1>5, <1>6, Zenon
<1> DEFINE last == IF m = 1 THEN 1 ELSE f[m - 1] + config[m - 1].slot_num
           h == [g \in 1..m |-> IF g = m THEN last ELSE f[g]]
<1>8. last \in Nat
  BY <1>3, <1>4, <1>5
<1>9. h \in [1..m -> Nat]
  BY <1>5, <1>8
<1>10. ASSUME NEW g \in 1..m
       PROVE  h[g] = IF g = 1 THEN 1 ELSE h[g - 1] + config[g - 1].slot_num
  <2>1. g = m \/ g \in 1..(m - 1)
    BY <1>5
  <2>2. g # 1 => g - 1 \in 1..m /\ g - 1 # m
    BY <1>5
  <2>3. h[g] = (IF g = m THEN last ELSE f[g]) /\ (g # 1 => h[g - 1] = f[g - 1])
    BY <2>2
  <2> QED  BY <1>7, <2>1, <2>3 DEF FirstSlots
<1> QED  BY <1>3, <1>9, <1>10, Zenon DEF FirstSlots

(* cur_slot_id is that solution.                                           *)
LEMMA cur_slot_idFirst ==
    ASSUME NEW n \in Nat, NEW config, DOMAIN config = 1..n,
           \A g \in 1..n : config[g].slot_num \in Nat
    PROVE  LET f == cur_slot_id(config)
           IN  f \in [1..n -> Nat] /\ FirstSlots(f, n, config)
<1> DEFINE Eq(f) == f = [g \in DOMAIN config |->
                           IF g = 1 THEN 1 ELSE f[g - 1] + config[g - 1].slot_num]
           c == cur_slot_id(config)
<1>1. PICK f \in [1..n -> Nat] : FirstSlots(f, n, config)
  BY FirstSlotsExist, Zenon
<1>2. Eq(f)
  BY <1>1 DEF FirstSlots
<1>3. c = CHOOSE h : Eq(h)
  BY Zenon DEF cur_slot_id
<1>4. Eq(c)
  <2> HIDE DEF Eq, c
  <2> QED  BY <1>2, <1>3, Zenon
<1>5. FirstSlots(c, n, config) /\ DOMAIN c = 1..n /\ c = [g \in 1..n |-> c[g]]
  <2> HIDE DEF c
  <2>1. ASSUME NEW g \in 1..n
        PROVE  c[g] = IF g = 1 THEN 1 ELSE c[g - 1] + config[g - 1].slot_num
    BY <1>4, Zenon
  <2>2. FirstSlots(c, n, config)
    BY <2>1, Zenon DEF FirstSlots
  <2>3. DOMAIN c = 1..n
    BY <1>4, Zenon
  <2> QED  BY <1>4, <2>2, <2>3
<1>6. \A g \in 1..n : c[g] = f[g]
  <2> HIDE DEF c
  <2>1. \A g \in 1..n : config[g].slot_num = config[g].slot_num
    OBVIOUS
  <2>2. FirstSlots(c, n, config) /\ FirstSlots(f, n, config)
    BY <1>1, <1>5
  <2> QED  BY ONLY n \in Nat, <2>1, <2>2, FirstSlotsUnique, ZenonT(30)
<1>7. c \in [1..n -> Nat]
  <2> HIDE DEF c
  <2> QED  BY <1>5, <1>6
<1> QED  BY <1>5, <1>7, Zenon

(* A group begins no earlier than where any group before it ends.          *)
LEMMA FirstSlotsIncrease ==
    ASSUME NEW n \in Nat, NEW f \in [1..n -> Nat], NEW config,
           \A g \in 1..n : config[g].slot_num \in Nat, FirstSlots(f, n, config)
    PROVE  \A g, h \in 1..n : g < h => f[g] + config[g].slot_num <= f[h]
<1>1. SUFFICES ASSUME NEW g \in 1..n
               PROVE  \A h \in 1..n : g < h => f[g] + config[g].slot_num <= f[h]
  OBVIOUS
<1> DEFINE Bad == {h \in 1..n : g < h /\ ~(f[g] + config[g].slot_num <= f[h])}
<1>2. SUFFICES ASSUME Bad # {}  PROVE FALSE
  BY Zenon
<1>3. PICK h \in Bad : \A y \in Bad : h <= y
  <2>1. Bad \in SUBSET Nat
    OBVIOUS
  <2> QED  BY <1>2, <2>1, MinProperty, Zenon
<1>4. /\ h \in 1..n /\ g < h /\ ~(f[g] + config[g].slot_num <= f[h])
      /\ h - 1 \in 1..n
  OBVIOUS
<1>5. f[h] = f[h - 1] + config[h - 1].slot_num
  BY <1>4 DEF FirstSlots
<1>6. f[g] \in Nat /\ f[h - 1] \in Nat /\ config[h - 1].slot_num \in Nat
      /\ config[g].slot_num \in Nat
  BY <1>4
<1>7. CASE g = h - 1
  BY <1>4, <1>5, <1>6, <1>7
<1>8. CASE g # h - 1
  <2>1. g < h - 1 /\ h - 1 < h
    BY <1>4, <1>8
  <2>2. f[g] + config[g].slot_num <= f[h - 1]
    <3>1. h - 1 \notin Bad
      <4> HIDE DEF Bad
      <4> QED  BY <1>3, <1>4
    <3> QED  BY <1>4, <2>1, <3>1
  <2> DEFINE a == f[g] + config[g].slot_num
             b == f[h - 1]
             c == config[h - 1].slot_num
  <2>3. a \in Nat /\ b \in Nat /\ c \in Nat
    BY ONLY <1>6, SMTT(30)
  <2>4. a <= b
    BY <2>2
  <2>5. ~(a <= f[h]) /\ f[h] = b + c
    BY <1>4, <1>5, Zenon
  <2> HIDE DEF a, b, c
  <2> QED  BY ONLY <2>3, <2>4, <2>5
<1> QED  BY <1>7, <1>8

-----------------------------------------------------------------------------
(* The slots of the groups of a room.                                      *)

(* What a room's groups have to be for cur_slot_id to be their first slot. *)
LEMMA GroupSizes ==
    ASSUME NEW room \in RoomType
    PROVE  /\ Len(room.group_config) \in Nat
           /\ DOMAIN room.group_config = 1..Len(room.group_config)
           /\ \A g \in DOMAIN room.group_config :
                /\ room.group_config[g].slot_num \in Nat
                /\ room.group_config[g].num_members \in Int
<1>1. room.group_config \in Seq(RoomGroupConfig)
  BY RoomFields
<1> HIDE DEF RoomGroupConfig
<1>2. \A g \in DOMAIN room.group_config : room.group_config[g] \in RoomGroupConfig
  BY <1>1
<1>3. \A g \in DOMAIN room.group_config :
        /\ room.group_config[g].slot_num \in Nat
        /\ room.group_config[g].num_members \in Int
  BY <1>2 DEF RoomGroupConfig
<1> QED  BY <1>1, <1>3

(* Two groups share no slot, and a group has slot_num of them.             *)
LEMMA GroupsApart ==
    ASSUME NEW room \in RoomType
    PROVE  /\ \A g, h \in DOMAIN room.group_config :
                g # h => GroupSlots(room, g) \cap GroupSlots(room, h) = {}
           /\ \A g \in DOMAIN room.group_config :
                /\ IsFiniteSet(GroupSlots(room, g))
                /\ Cardinality(GroupSlots(room, g)) = room.group_config[g].slot_num
<1> DEFINE config == room.group_config
           n == Len(config)
           f == cur_slot_id(config)
<1>1. /\ n \in Nat /\ DOMAIN config = 1..n
      /\ \A g \in 1..n : config[g].slot_num \in Nat
  BY GroupSizes
<1>2. f \in [1..n -> Nat] /\ FirstSlots(f, n, config)
  BY <1>1, cur_slot_idFirst, Zenon
<1>3. \A g \in 1..n : GroupSlots(room, g) = f[g]..(f[g] + config[g].slot_num - 1)
  BY Zenon DEF GroupSlots
<1> HIDE DEF f, config, n
<1>4. \A g, h \in 1..n : g < h => f[g] + config[g].slot_num <= f[h]
  BY <1>1, <1>2, FirstSlotsIncrease, Zenon
<1>5. ASSUME NEW g \in 1..n, NEW h \in 1..n, g # h
      PROVE  GroupSlots(room, g) \cap GroupSlots(room, h) = {}
  <2>1. /\ f[g] \in Nat /\ f[h] \in Nat
        /\ config[g].slot_num \in Nat /\ config[h].slot_num \in Nat
    BY <1>1, <1>2
  <2>2. f[g] + config[g].slot_num <= f[h] \/ f[h] + config[h].slot_num <= f[g]
    BY <1>4, <1>5
  <2>3. ASSUME NEW a \in Nat, NEW b \in Nat, NEW c \in Nat, NEW d \in Nat,
               a + b <= c \/ c + d <= a
        PROVE  (a..(a + b - 1)) \cap (c..(c + d - 1)) = {}
    BY <2>3
  <2>4. (f[g]..(f[g] + config[g].slot_num - 1)) \cap (f[h]..(f[h] + config[h].slot_num - 1)) = {}
    BY ONLY <2>1, <2>2, <2>3
  <2> QED  BY <1>3, <2>4, Zenon
<1>6. ASSUME NEW g \in 1..n
      PROVE  /\ IsFiniteSet(GroupSlots(room, g))
             /\ Cardinality(GroupSlots(room, g)) = config[g].slot_num
  <2> DEFINE a == f[g]
             b == f[g] + config[g].slot_num - 1
  <2>1. a \in Int /\ b \in Int /\ config[g].slot_num \in Nat
    BY <1>1, <1>2
  <2>2. IsFiniteSet(a..b) /\ Cardinality(a..b) = IF a > b THEN 0 ELSE b - a + 1
    <3> HIDE DEF a, b
    <3> QED  BY <2>1, FS_Interval, Zenon
  <2>3. (IF a > b THEN 0 ELSE b - a + 1) = config[g].slot_num
    BY <1>2, <2>1
  <2> QED  BY <1>3, <2>2, <2>3, Zenon
<1> QED  BY <1>1, <1>5, <1>6 DEF config

(* No group gets larger or smaller.                                        *)
SameSizes(room, r) ==
    /\ r \in RoomType
    /\ r.max_slot = room.max_slot
    /\ DOMAIN r.group_config = DOMAIN room.group_config
    /\ \A g \in DOMAIN room.group_config :
         r.group_config[g].slot_num = room.group_config[g].slot_num

(* Then every group keeps its slots.                                       *)
LEMMA SameSlots ==
    ASSUME NEW room \in RoomType, NEW r, SameSizes(room, r)
    PROVE  /\ \A g \in DOMAIN room.group_config : GroupSlots(r, g) = GroupSlots(room, g)
           /\ GroupsFit(room) => GroupsFit(r)
           /\ SeatsTracked(r) <=> SeatsTracked(room)
<1> DEFINE c == room.group_config
           e == r.group_config
           n == Len(c)
           f == cur_slot_id(c)
           h == cur_slot_id(e)
<1>1. r \in RoomType /\ DOMAIN e = DOMAIN c /\ r.max_slot = room.max_slot
      /\ \A g \in DOMAIN c : e[g].slot_num = c[g].slot_num
  BY DEF SameSizes
<1>2. n \in Nat /\ DOMAIN c = 1..n /\ \A g \in 1..n : c[g].slot_num \in Nat
  BY GroupSizes
<1>3. \A g \in 1..n : c[g].slot_num = e[g].slot_num /\ e[g].slot_num \in Nat
  BY <1>1, <1>2, Zenon
<1>4. \A g : /\ GroupSlots(room, g) = f[g]..(f[g] + c[g].slot_num - 1)
             /\ GroupSlots(r, g) = h[g]..(h[g] + e[g].slot_num - 1)
  BY Zenon DEF GroupSlots
<1>5. FirstSlots(f, n, c)
  BY <1>2, cur_slot_idFirst, Zenon
<1>6. FirstSlots(h, n, e)
  BY <1>1, <1>2, <1>3, cur_slot_idFirst, Zenon
<1>7. SeatsTracked(r) <=> SeatsTracked(room)
  <2>1. c # << >> <=> e # << >>
    BY <1>1, <1>2, GroupSizes
  <2>2. c # << >> => 1 \in DOMAIN c
    BY <1>2, RoomFields
  <2> QED  BY <1>1, <2>1, <2>2, Zenon DEF SeatsTracked, GroupIdsFit
<1> HIDE DEF c, e, f, h, n
<1>8. \A g \in 1..n : f[g] = h[g]
  <2>1. n \in Nat /\ \A g \in 1..n : c[g].slot_num = e[g].slot_num
    BY <1>2, <1>3, Zenon
  <2> QED  BY ONLY <1>5, <1>6, <2>1, FirstSlotsUnique
<1>9. \A g \in 1..n : GroupSlots(r, g) = GroupSlots(room, g)
  BY <1>3, <1>4, <1>8, Zenon
<1>10. GroupsFit(room) => GroupsFit(r)
  <2>1. \A g \in DOMAIN c : GroupSlots(r, g) = GroupSlots(room, g)
    BY <1>2, <1>9, Zenon
  <2>2. r.max_slot = room.max_slot /\ DOMAIN r.group_config = DOMAIN room.group_config
    BY <1>1, Zenon DEF c, e
  <2> QED  BY ONLY <2>1, <2>2, Zenon DEF GroupsFit, c
<1> QED  BY <1>2, <1>7, <1>9, <1>10 DEF c

(* y sits where a member of the room sat, and is of the same group.        *)
SitsAs(y, x) == y.member_id = x.member_id /\ y.group_id = x.group_id

(* A change that moves nobody, frees or takes no slot, and takes nobody    *)
(* off a group's count.                                                    *)
LEMMA SeatsKept ==
    ASSUME NEW room \in RoomType, Seated(room), NEW r, SameSizes(room, r),
           r.slots \subseteq room.slots,
           \A g \in DOMAIN room.group_config :
             r.group_config[g].num_members >= room.group_config[g].num_members,
           \A y \in r.users : \E x \in room.users : SitsAs(y, x)
    PROVE  Seated(r)
<1> DEFINE c == room.group_config
           e == r.group_config
<1>1. /\ \A g \in DOMAIN c : GroupSlots(r, g) = GroupSlots(room, g)
      /\ GroupsFit(r)
      /\ SeatsTracked(r) <=> SeatsTracked(room)
  BY SameSlots DEF Seated
<1>2. DOMAIN e = DOMAIN c /\ r \in RoomType
  BY DEF SameSizes
<1>3. MembersSeated(r)
  BY <1>1, <1>2 DEF Seated, MembersSeated, SitsAs
<1>4. ASSUME SeatsTracked(r), NEW g \in DOMAIN e
      PROVE  e[g].num_members >= Cardinality(GroupSlots(r, g) \cap r.slots)
  <2> DEFINE S == GroupSlots(room, g) \cap room.slots
             T == GroupSlots(r, g) \cap r.slots
  <2>1. IsFiniteSet(S) /\ T \subseteq S
    BY <1>1, <1>2, GroupsApart, FS_Intersection, Zenon
  <2>2. Cardinality(T) <= Cardinality(S) /\ Cardinality(S) \in Nat /\ Cardinality(T) \in Nat
    <3> HIDE DEF S, T
    <3> QED  BY <2>1, FS_Subset, FS_CardinalityType
  <2>3. c[g].num_members >= Cardinality(S)
    BY <1>1, <1>2, <1>4, Zenon DEF Seated, SlotsCounted
  <2>4. c[g].num_members \in Int /\ e[g].num_members \in Int /\ e[g].num_members >= c[g].num_members
    BY <1>2, GroupSizes
  <2> HIDE DEF c, e, S, T
  <2>5. e[g].num_members >= Cardinality(T)
    BY <2>2, <2>3, <2>4
  <2> QED  BY <2>5 DEF e, T
<1> QED  BY <1>1, <1>3, <1>4, Zenon DEF Seated, SlotsCounted

(* A room without groups has nobody to seat.                               *)
LEMMA NoGroupsSeated ==
    ASSUME NEW room, room.group_config = << >>
    PROVE  Seated(room)
BY DEF Seated, GroupsFit, MembersSeated, SlotsCounted, SeatsTracked

(* Taking a free slot of a group that counts it.                           *)
LEMMA SeatTaken ==
    ASSUME NEW room \in RoomType, Seated(room), NEW r, SameSizes(room, r),
           NEW g \in DOMAIN room.group_config, NEW s \in GroupSlots(room, g),
           r.slots = room.slots \cup {s},
           \A h \in DOMAIN room.group_config :
             r.group_config[h].num_members =
               IF h = g THEN room.group_config[h].num_members + 1
                        ELSE room.group_config[h].num_members,
           \A y \in r.users : \/ \E x \in room.users : SitsAs(y, x)
                              \/ /\ GroupIdsFit(room) => y.group_id = g
                                 /\ MemberSlot(y.member_id) = s
    PROVE  Seated(r)
<1> DEFINE c == room.group_config
           e == r.group_config
<1>1. /\ \A h \in DOMAIN c : GroupSlots(r, h) = GroupSlots(room, h)
      /\ GroupsFit(r)
      /\ SeatsTracked(r) <=> SeatsTracked(room)
  BY SameSlots DEF Seated
<1>2. DOMAIN e = DOMAIN c
  BY DEF SameSizes
<1>3. MembersSeated(r)
  <2>1. SeatsTracked(room) => GroupIdsFit(room)
    BY DEF SeatsTracked
  <2> QED  BY <1>1, <1>2, <2>1, ZenonT(30) DEF Seated, MembersSeated, SitsAs
<1>4. ASSUME SeatsTracked(r), NEW h \in DOMAIN e
      PROVE  e[h].num_members >= Cardinality(GroupSlots(r, h) \cap r.slots)
  <2> DEFINE S == GroupSlots(room, h) \cap room.slots
             T == GroupSlots(r, h) \cap r.slots
  <2>1. IsFiniteSet(S)
    BY <1>2, GroupsApart, FS_Intersection, Zenon
  <2>2. c[h].num_members >= Cardinality(S)
    BY <1>1, <1>2, <1>4, ZenonT(30) DEF Seated, SlotsCounted
  <2>3. c[h].num_members \in Int /\ Cardinality(S) \in Nat
    BY <1>2, <2>1, GroupSizes, FS_CardinalityType, ZenonT(30)
  <2>4. CASE h = g
    <3>1. T = S \cup {s}
      BY <1>1, <2>4
    <3>2. Cardinality(T) <= Cardinality(S) + 1 /\ Cardinality(T) \in Nat
      <4> HIDE DEF S, T
      <4>1. Cardinality(T) = IF s \in S THEN Cardinality(S) ELSE Cardinality(S) + 1
        BY <2>1, <3>1, FS_AddElement, ZenonT(30)
      <4> QED  BY <2>3, <4>1
    <3>3. e[h].num_members = c[h].num_members + 1
      BY <2>4
    <3> HIDE DEF c, e, S, T
    <3>4. e[h].num_members >= Cardinality(T)
      BY ONLY <2>2, <2>3, <3>2, <3>3, SMTT(30)
    <3> QED  BY <3>4 DEF e, T
  <2>5. CASE h # g
    <3>1. s \notin GroupSlots(room, h)
      BY <1>2, <2>5, GroupsApart, ZenonT(30)
    <3>2. T = S
      BY <1>1, <1>2, <3>1
    <3>3. e[h].num_members = c[h].num_members
      BY <1>2, <2>5
    <3> HIDE DEF c, e, S, T
    <3>4. e[h].num_members >= Cardinality(T)
      BY <2>2, <3>2, <3>3
    <3> QED  BY <3>4 DEF e, T
  <2> QED  BY <2>4, <2>5
<1> QED  BY <1>1, <1>3, <1>4, Zenon DEF Seated, SlotsCounted

(* A member who leaves frees a slot of their own group, which counts one   *)
(* member less.                                                            *)
LEMMA SeatFreed ==
    ASSUME NEW room \in RoomType, Seated(room), SlotsHeld(room), NEW x \in room.users,
           NEW r, SameSizes(room, r), Left(room, x, r)
    PROVE  Seated(r)
<1> DEFINE c == room.group_config
           e == r.group_config
           s == MemberSlot(x.member_id)
<1>1. /\ \A h \in DOMAIN c : GroupSlots(r, h) = GroupSlots(room, h)
      /\ GroupsFit(r)
      /\ SeatsTracked(r) <=> SeatsTracked(room)
  BY SameSlots DEF Seated
<1>2. /\ DOMAIN e = DOMAIN c /\ r.slots = room.slots \ {s}
      /\ r.users \subseteq room.users
      /\ \A h \in DOMAIN c : e[h].num_members =
            IF h = x.group_id THEN c[h].num_members - 1 ELSE c[h].num_members
  BY ZenonT(30) DEF Left
<1>3. MembersSeated(r)
  BY <1>1, <1>2 DEF Seated, MembersSeated
<1>4. ASSUME SeatsTracked(r), NEW h \in DOMAIN e
      PROVE  e[h].num_members >= Cardinality(GroupSlots(r, h) \cap r.slots)
  <2> DEFINE S == GroupSlots(room, h) \cap room.slots
             T == GroupSlots(r, h) \cap r.slots
  <2>1. IsFiniteSet(S) /\ T = S \ {s}
    <3>1. IsFiniteSet(S)
      BY <1>2, GroupsApart, FS_Intersection, ZenonT(30)
    <3>2. GroupSlots(r, h) = GroupSlots(room, h) /\ r.slots = room.slots \ {s}
      BY <1>1, <1>2, Zenon
    <3> HIDE DEF s
    <3> QED  BY <3>1, <3>2
  <2>2. c[h].num_members >= Cardinality(S)
    BY <1>1, <1>2, <1>4, Zenon DEF Seated, SlotsCounted
  <2>3. c[h].num_members \in Int /\ Cardinality(S) \in Nat
    BY <1>2, <2>1, GroupSizes, FS_CardinalityType
  <2>4. Cardinality(T) = IF s \in S THEN Cardinality(S) - 1 ELSE Cardinality(S)
    <3> HIDE DEF S, T, s
    <3> QED  BY <2>1, FS_RemoveElement, Zenon
  <2>5. h = x.group_id => s \in S
    BY <1>1, <1>4 DEF Seated, MembersSeated, SlotsHeld
  <2>6. e[h].num_members = IF h = x.group_id THEN c[h].num_members - 1 ELSE c[h].num_members
    BY <1>2
  <2> HIDE DEF c, e, s, S, T
  <2>7. e[h].num_members >= Cardinality(T)
    BY <2>2, <2>3, <2>4, <2>5, <2>6
  <2> QED  BY <2>7 DEF e, T
<1> QED  BY <1>1, <1>3, <1>4, Zenon DEF Seated, SlotsCounted

-----------------------------------------------------------------------------
(* Every operation keeps a seated room seated.                             *)

(* Records: writing other fields leaves the groups alone.                  *)
LEMMA GroupsUntouched ==
    ASSUME NEW room \in RoomType, NEW S, NEW F
    PROVE  /\ [room EXCEPT !.users = S].group_config = room.group_config
           /\ [[room EXCEPT !.users = S] EXCEPT !.flag_attr = F].group_config
                = room.group_config
BY ZenonT(30) DEF RoomType

(* A grant from a group is one of the group's slots; a room with groups    *)
(* grants no other.                                                        *)
LEMMA get_a_slotSeats ==
    ASSUME NEW room \in RoomType, NEW label, NEW password
    PROVE  LET d == get_a_slot(room, label, password)
           IN  d.res = "Ok" /\ room.group_config # << >> =>
                 /\ d.group_id \in DOMAIN room.group_config
                 /\ d.slot \in GroupSlots(room, d.group_id)
<1> DEFINE config == room.group_config
           named == {g \in DOMAIN config : config[g].label = label}
           blank == {g \in DOMAIN config : /\ config[g].label = None
                                           /\ config[g].with_password => password # None}
           Sits(d) == d.res = "Ok" => /\ d.group_id \in DOMAIN config
                                      /\ d.slot \in GroupSlots(room, d.group_id)
<1>0. DOMAIN config \subseteq Nat
  BY GroupSizes
<1>1. ASSUME NEW g \in DOMAIN config
      PROVE  Sits(req_specific_slots(room, g))
  <2> DEFINE free == (GroupSlots(room, g) \cap 1..room.max_slot) \ room.slots
  <2>1. room.max_slot \in 1..64
    BY RoomFields
  <2>2. free \in SUBSET Nat
    BY <2>1
  <2>3. free # {} => Min(free) \in free
    <3> HIDE DEF free
    <3> QED  BY <2>2, MinProperty
  <2>4. free # {} => Min(free) \in GroupSlots(room, g)
    BY <2>3
  <2> HIDE DEF config
  <2> QED  BY <1>1, <2>4, Zenon DEF req_specific_slots, Grant
<1>2. \A error : error # "Ok" => Sits(Deny(error))
  BY DEF Deny
<1>3. ASSUME NEW g \in DOMAIN config
      PROVE  Sits(JoinNamedGroup(room, g, password)) /\ Sits(JoinBlankGroup(room, g, password))
  <2> HIDE DEF Sits
  <2> QED  BY <1>1, <1>2, ZenonT(30) DEF JoinNamedGroup, JoinBlankGroup
<1>4. named # {} => Min(named) \in DOMAIN config
  BY <1>0, MinProperty
<1>5. blank # {} => Min(blank) \in DOMAIN config
  BY <1>0, MinProperty
<1>6. config # << >> => Sits(get_a_slot(room, label, password))
  <2> HIDE DEF Sits
  <2> QED  BY <1>2, <1>3, <1>4, <1>5 DEF get_a_slot
<1> QED  BY <1>6, Zenon

(* Claiming a slot changes the size of no group.                           *)
LEMMA ClaimSlotSizes ==
    ASSUME NEW room \in RoomType, NEW d, Decision(room, d)
    PROVE  SameSizes(room, ClaimSlot(room, d))
<1> DEFINE config == room.group_config
           entry == [config[d.group_id] EXCEPT !.num_members = @ + 1]
           new == [config EXCEPT ![d.group_id] = entry]
           counted == IF d.group_id = 0 THEN room
                      ELSE [room EXCEPT !.group_config[d.group_id].num_members = @ + 1]
           r == ClaimSlot(room, d)
<1>1. /\ r \in RoomType /\ r.max_slot = room.max_slot
      /\ DOMAIN r.group_config = DOMAIN room.group_config
  BY ClaimSlotFields, Zenon
<1>2. config \in Seq(RoomGroupConfig)
  BY RoomFields
<1>3. counted.group_config = IF d.group_id = 0 THEN config ELSE new
  <2>1. CASE d.group_id = 0
    BY <2>1
  <2>2. CASE d.group_id # 0
    <3>1. counted = [room EXCEPT !.group_config = new]
      BY <2>2
    <3> HIDE DEF new, counted
    <3> QED  BY <2>2, <3>1, ZenonT(30) DEF RoomType
  <2> QED  BY <2>1, <2>2
<1>4. DOMAIN counted = DOMAIN room
  BY DEF RoomType
<1>5. r.group_config = counted.group_config
  <2>1. r = IF d.res = "Ok" THEN occupy_slot(counted, d.slot) ELSE counted
    BY DEF ClaimSlot
  <2>2. "group_config" \in DOMAIN room
    BY DEF RoomType
  <2> HIDE DEF counted, r
  <2> QED  BY <1>4, <2>1, <2>2 DEF occupy_slot
<1>6. ASSUME NEW g \in DOMAIN config
      PROVE  new[g].slot_num = config[g].slot_num
  <2>1. config[g] \in RoomGroupConfig
    BY <1>2
  <2>2. new[g] = IF g = d.group_id THEN [config[g] EXCEPT !.num_members = @ + 1] ELSE config[g]
    <3> HIDE DEF config
    <3> QED  BY <1>2, <1>6
  <2> HIDE DEF new, config
  <2> QED  BY <2>1, <2>2 DEF RoomGroupConfig
<1>7. \A g \in DOMAIN config : r.group_config[g].slot_num = config[g].slot_num
  <2> HIDE DEF counted, r, new
  <2> QED  BY <1>3, <1>5, <1>6
<1> QED  BY <1>1, <1>7 DEF SameSizes

(* A granted join, and one that fails after get_a_slot.                    *)
LEMMA JoinSeated ==
    ASSUME NEW room, WellFormed(room), Seated(room), NEW label, NEW password,
           NEW d, d = get_a_slot(room, label, password)
    PROVE  /\ Seated(ClaimSlot(room, d))
           /\ \A u \in UserId : \A team \in Team :
                d.res = "Ok" => Seated(AddMember(room, d, u, team))
<1> DEFINE c == ClaimSlot(room, d)
<1>1. room \in RoomType
  BY DEF WellFormed
<1>2. Decision(room, d)
  BY <1>1, get_a_slotDecides
<1>3. /\ d.res = "Ok" /\ room.group_config # << >> =>
           d.group_id \in DOMAIN room.group_config /\ d.slot \in GroupSlots(room, d.group_id)
  BY <1>1, get_a_slotSeats, Zenon
<1>4. SameSizes(room, c)
  BY <1>1, <1>2, ClaimSlotSizes
<1>5. /\ c.users = room.users
      /\ d.res = "Ok" => c.slots = room.slots \cup {d.slot}
      /\ d.res # "Ok" => c.slots = room.slots
  BY <1>1, <1>2, ClaimSlotFields, Zenon
<1>6. \A h \in DOMAIN room.group_config :
        c.group_config[h].num_members =
          IF h = d.group_id THEN room.group_config[h].num_members + 1
                            ELSE room.group_config[h].num_members
  BY <1>1, <1>2, ClaimSlotFields
<1> HIDE DEF c
<1>7. ASSUME NEW r, SameSizes(room, r), room.group_config = << >>
      PROVE  Seated(r)
  <2>1. r.group_config = << >>
    <3>1. r.group_config \in Seq(RoomGroupConfig)
      BY <1>7, RoomFields DEF SameSizes
    <3>2. DOMAIN r.group_config = {}
      BY <1>7 DEF SameSizes
    <3>3. Len(r.group_config) = 0
      <4>1. Len(r.group_config) \in Nat /\ 1 \notin 1..Len(r.group_config)
        BY <1>7, <3>2, GroupSizes, ZenonT(30) DEF SameSizes
      <4> QED  BY <4>1
    <3> QED  BY <3>1, <3>3
  <2> QED  BY <2>1, NoGroupsSeated
<1>8. Seated(c)
  <2>1. CASE room.group_config = << >>
    BY <1>4, <1>7, <2>1
  <2>2. CASE room.group_config # << >> /\ d.res = "Ok"
    <3>1. \A y \in c.users : \E x \in room.users : SitsAs(y, x)
      BY <1>5 DEF SitsAs
    <3>2. d.group_id \in DOMAIN room.group_config /\ d.slot \in GroupSlots(room, d.group_id)
      BY <1>3, <2>2
    <3>3. c.slots = room.slots \cup {d.slot}
      BY <1>5, <2>2
    <3> QED  BY <1>1, <1>4, <1>6, <3>1, <3>2, <3>3, SeatTaken, Zenon
  <2>3. CASE d.res # "Ok"
    <3>1. \A y \in c.users : \E x \in room.users : SitsAs(y, x)
      BY <1>5 DEF SitsAs
    <3>2. \A h \in DOMAIN room.group_config :
            c.group_config[h].num_members >= room.group_config[h].num_members
      BY <1>1, <1>6, GroupSizes
    <3>3. c.slots \subseteq room.slots
      BY <1>5, <2>3
    <3> QED  BY <1>1, <1>4, <3>1, <3>2, <3>3, SeatsKept, ZenonT(30)
  <2> QED  BY <2>1, <2>2, <2>3
<1>9. ASSUME NEW u \in UserId, NEW team \in Team, d.res = "Ok"
      PROVE  Seated(AddMember(room, d, u, team))
  <2> DEFINE r == AddMember(room, d, u, team)
             x == NewMember(room, d, u, team)
  <2>1. Joined(room, d, x, r)
    BY <1>2, <1>9, AddMemberJoins
  <2>2. r.group_config = c.group_config
    <3>1. c \in RoomType
      BY <1>4 DEF SameSizes
    <3> DEFINE S == InsertUser(c.users, x)
               j == [c EXCEPT !.users = S]
               F == j.flag_attr \cup {"FULL"}
    <3>2. r \in {j, [j EXCEPT !.flag_attr = F]}
      BY DEF AddMember, SetFull, c
    <3>3. j.group_config = c.group_config
          /\ [j EXCEPT !.flag_attr = F].group_config = c.group_config
      <4> HIDE DEF S, F
      <4> QED  BY <3>1, GroupsUntouched, Zenon
    <3> HIDE DEF r, j, F
    <3> QED  BY <3>2, <3>3, Zenon
  <2>3. GroupIdsFit(room) => x.group_id = d.group_id
    <3>1. d.group_id \in {0} \cup DOMAIN room.group_config
      BY <1>2, Zenon DEF Decision
    <3> QED  BY <1>1, <3>1, GroupIdInRoom, Zenon DEF NewMember
  <2> HIDE DEF r, x
  <2>4. SameSizes(room, r)
    BY <1>4, <2>1, <2>2, Zenon DEF SameSizes, Joined
  <2>5. CASE room.group_config = << >>
    BY <1>7, <2>4, <2>5, Zenon DEF r
  <2>6. CASE room.group_config # << >>
    <3>1. \A y \in r.users : \/ \E z \in room.users : SitsAs(y, z)
                             \/ /\ GroupIdsFit(room) => y.group_id = d.group_id
                                /\ MemberSlot(y.member_id) = d.slot
      BY <2>1, <2>3 DEF Joined, SitsAs
    <3>2. d.group_id \in DOMAIN room.group_config /\ d.slot \in GroupSlots(room, d.group_id)
      BY <1>3, <1>9, <2>6
    <3>3. r.slots = room.slots \cup {d.slot}
      BY <2>1, Zenon DEF Joined
    <3>4. \A h \in DOMAIN room.group_config :
            r.group_config[h].num_members =
              IF h = d.group_id THEN room.group_config[h].num_members + 1
                                ELSE room.group_config[h].num_members
      BY <1>6, <2>2, Zenon
    <3>5. Seated(r)
      BY <1>1, <2>4, <3>1, <3>2, <3>3, <3>4, SeatTaken, Zenon
    <3> QED  BY <3>5, ZenonT(30) DEF r
  <2> QED  BY <2>5, <2>6
<1> QED  BY <1>8, <1>9, Zenon DEF c

(* A departure changes the size of no group.                               *)
LEMMA RemoveMemberSizes ==
    ASSUME NEW room, Sound(room), NEW x \in room.users
    PROVE  SameSizes(room, RemoveMember(room, x))
<1> DEFINE config == room.group_config
           g == x.group_id
           l == IF config[g].num_members = 1 /\ ~config[g].fixed_label
                  THEN None ELSE config[g].label
           e == [config[g] EXCEPT !.num_members = config[g].num_members - 1, !.label = l]
           new == [config EXCEPT ![g] = e]
           a == LeaveGroup(room, g)
           b == [a EXCEPT !.users = room.users \ {x}]
           c == free_slot(b, x.member_id)
           r == RemoveMember(room, x)
<1>1. room \in RoomType
  BY DEF Sound
<1>2. Left(room, x, r)
  BY RemoveMemberLeaves
<1>3. a \in RoomType /\ a.users = room.users
  BY LeaveGroupFields, Zenon
<1>4. r.group_config = a.group_config
  <2>1. r = ClearFull(c)
    BY <1>3 DEF RemoveMember
  <2>2. room.users \ {x} \in SUBSET RoomUser
    BY <1>1, RoomFields
  <2>3. b \in RoomType /\ b.group_config = a.group_config
    <3> HIDE DEF a
    <3> QED  BY <1>3, <2>2, UsersFields, Zenon
  <2>4. c \in RoomType /\ c.group_config = b.group_config
    <3> HIDE DEF b
    <3> QED  BY <2>3, FreeSlotFields, Zenon
  <2>5. r.group_config = c.group_config
    <3> HIDE DEF c, r
    <3> QED  BY <2>1, <2>4, ClearFullFields, Zenon
  <2> QED  BY <2>3, <2>4, <2>5, Zenon
<1>5. a.group_config = IF g = 0 THEN config ELSE new
  <2>1. CASE g = 0
    BY <2>1 DEF LeaveGroup
  <2>2. CASE g # 0
    <3>1. a = [room EXCEPT !.group_config = new]
      BY <2>2 DEF LeaveGroup
    <3> HIDE DEF new, a
    <3> QED  BY <1>1, <2>2, <3>1, ZenonT(30) DEF RoomType
  <2> QED  BY <2>1, <2>2
<1>6. ASSUME NEW h \in DOMAIN config
      PROVE  new[h].slot_num = config[h].slot_num
  <2>1. config \in Seq(RoomGroupConfig)
    BY <1>1, RoomFields
  <2>2. config[h] \in RoomGroupConfig
    BY <2>1
  <2>3. new[h] = IF h = g THEN e ELSE config[h]
    <3> HIDE DEF config, e
    <3> QED  BY <1>6, <2>1
  <2>4. h = g => e.slot_num = config[h].slot_num
    <3> HIDE DEF config, l
    <3> QED  BY <2>2 DEF RoomGroupConfig
  <2> HIDE DEF new, e, config
  <2> QED  BY <2>3, <2>4
<1> HIDE DEF new, a, r
<1>7. \A h \in DOMAIN config : r.group_config[h].slot_num = config[h].slot_num
  BY <1>4, <1>5, <1>6
<1>8. SameSizes(room, r)
  BY <1>2, <1>7, Zenon DEF SameSizes, Left
<1> QED  BY <1>8 DEF r

(* A member leaves.                                                        *)
LEMMA RemoveMemberSeated ==
    ASSUME NEW room, Sound(room), Seated(room), NEW x \in room.users
    PROVE  Seated(RemoveMember(room, x))
<1> DEFINE r == RemoveMember(room, x)
<1>1. room \in RoomType /\ SlotsHeld(room)
  BY DEF Sound
<1>2. Left(room, x, r)
  BY RemoveMemberLeaves
<1>3. SameSizes(room, r)
  BY RemoveMemberSizes
<1> HIDE DEF r
<1>4. Seated(r)
  BY <1>1, <1>2, <1>3, SeatFreed, Zenon
<1> QED  BY <1>4 DEF r

(* A change of members' flags or teams, with no slot or group written.     *)
LEMMA MembersChangedSeated ==
    ASSUME NEW room \in RoomType, Seated(room), NEW r \in RoomType,
           r.max_slot = room.max_slot, r.slots = room.slots,
           r.group_config = room.group_config,
           \A y \in r.users : \E x \in room.users : SitsAs(y, x)
    PROVE  Seated(r)
<1>1. SameSizes(room, r)
  BY DEF SameSizes
<1>2. \A g \in DOMAIN room.group_config :
        r.group_config[g].num_members >= room.group_config[g].num_members
  BY GroupSizes
<1> QED  BY <1>1, <1>2, SeatsKept

(* The new owner keeps their seat.                                         *)
LEMMA CrownSeated ==
    ASSUME NEW room \in RoomType, Seated(room), NEW m, Crown(room, m) \in RoomType
    PROVE  Seated(Crown(room, m))
<1> DEFINE r == Crown(room, m)
<1>1. /\ r.max_slot = room.max_slot /\ r.slots = room.slots
      /\ r.group_config = room.group_config
      /\ r.users = {IF x.member_id = m THEN [x EXCEPT !.is_owner = TRUE] ELSE x : x \in room.users}
  BY ZenonT(30) DEF Crown, RoomType
<1>2. room.users \subseteq RoomUser
  BY RoomFields
<1>3. \A x \in RoomUser : SitsAs([x EXCEPT !.is_owner = TRUE], x) /\ SitsAs(x, x)
  BY DEF RoomUser, SitsAs
<1> HIDE DEF r
<1>4. \A y \in r.users : \E x \in room.users : SitsAs(y, x)
  BY <1>1, <1>2, <1>3, Zenon
<1>5. r \in RoomType
  BY DEF r
<1>6. Seated(r)
  BY <1>1, <1>4, <1>5, MembersChangedSeated
<1> QED  BY <1>6 DEF r

(* A member with another team keeps their seat.                            *)
LEMMA ChangeTeamSeated ==
    ASSUME NEW room, WellFormed(room), Seated(room), NEW y \in room.users, NEW team \in Team
    PROVE  Seated([room EXCEPT !.users = InsertUser(room.users, [y EXCEPT !.team_id = team])])
<1> DEFINE z == [y EXCEPT !.team_id = team]
           S == InsertUser(room.users, z)
           r == [room EXCEPT !.users = S]
<1>1. room \in RoomType
  BY DEF WellFormed
<1>2. room.users \subseteq RoomUser
  BY <1>1, RoomFields
<1>3. z \in RoomUser /\ SitsAs(z, y)
  BY <1>2 DEF RoomUser, SitsAs
<1>4. S \in SUBSET RoomUser
  BY <1>2, <1>3 DEF InsertUser
<1>5. \A v \in S : \E x \in room.users : SitsAs(v, x)
  BY <1>3, ZenonT(30) DEF InsertUser, SitsAs
<1> HIDE DEF z, S
<1>6. /\ r \in RoomType /\ r.users = S
      /\ r.max_slot = room.max_slot /\ r.slots = room.slots
      /\ r.group_config = room.group_config
  BY <1>1, <1>4, UsersFields, Zenon
<1> HIDE DEF r
<1>7. Seated(r)
  BY <1>1, <1>5, <1>6, MembersChangedSeated
<1> QED  BY <1>7 DEF r, S, z

(* A change that its members, slots and counts do not see moves nobody.    *)
LEMMA InertSeated ==
    ASSUME NEW room \in RoomType, Seated(room), NEW r, Inert(room, r)
    PROVE  Seated(r)
<1>1. SameSizes(room, r)
  BY DEF SameSizes, Inert
<1>2. r.slots \subseteq room.slots /\ \A y \in r.users : \E x \in room.users : SitsAs(y, x)
  BY DEF Inert, SitsAs
<1>3. \A g \in DOMAIN room.group_config :
        r.group_config[g].num_members >= room.group_config[g].num_members
  BY GroupSizes DEF Inert
<1> QED  BY <1>1, <1>2, <1>3, SeatsKept

(* A labelled group that is not full has a free slot: the loop of          *)
(* req_specific_slots ends before unreachable!().                          *)
LEMMA NamedGroupHasSlot ==
    ASSUME NEW room \in RoomType, Seated(room), SeatsTracked(room),
           NEW g \in DOMAIN room.group_config, NEW password
    PROVE  JoinNamedGroup(room, g, password).res # "panic"
<1> DEFINE group == room.group_config[g]
           S == GroupSlots(room, g)
           free == (S \cap 1..room.max_slot) \ room.slots
<1>1. SUFFICES ASSUME ~(group.num_members >= group.slot_num)
               PROVE  free # {}
  BY Zenon DEF JoinNamedGroup, GroupFull, req_specific_slots, Grant, Deny
<1>2. Cardinality(S) = group.slot_num /\ S \subseteq 1..room.max_slot
  BY GroupsApart DEF Seated, GroupsFit
<1>3. group.num_members >= Cardinality(S \cap room.slots)
  BY Zenon DEF Seated, SlotsCounted
<1>4. S \cap room.slots # S
  BY <1>1, <1>2, <1>3
<1> HIDE DEF S
<1> QED  BY <1>2, <1>4, Zenon

-----------------------------------------------------------------------------
(* An owner's update and a new room.                                       *)

(* Setting flags leaves FULL alone, whatever filter the owner sends.       *)
LEMMA SetFlagsInert ==
    ASSUME NEW room \in RoomType, NEW req \in SetReqType
    PROVE  Inert(room, SetFlags(room, req))
<1>1. req.flag_filter \subseteq Flag /\ req.flag_attr \subseteq Flag
  BY DEF SetReqType
<1> DEFINE filter == req.flag_filter \ PROTECTED_ROOM_FLAGS
           attr == req.flag_attr \ PROTECTED_ROOM_FLAGS
           new == (attr \cap filter) \cup (room.flag_attr \ filter)
           r == SetFlags(room, req)
<1>2. new \in SUBSET Flag /\ ("FULL" \in new <=> "FULL" \in room.flag_attr)
  BY <1>1, RoomFields DEF PROTECTED_ROOM_FLAGS
<1>3. r = [room EXCEPT !.flag_attr = new]
  BY DEF SetFlags
<1> HIDE DEF new, r
<1>4. Inert(room, r)
  BY <1>2, <1>3, ZenonT(30) DEF Inert, RoomType
<1> QED  BY <1>4 DEF r

(* Changing which groups ask for a password counts no member anew.         *)
LEMMA SetGroupPasswordsInert ==
    ASSUME NEW room \in RoomType, NEW req \in SetReqType
    PROVE  Inert(room, SetGroupPasswords(room, req.password_config))
<1> DEFINE config == req.password_config
           old == room.group_config
           new == [g \in DOMAIN old |-> SetGroupPassword(old[g], g, config)]
           r == SetGroupPasswords(room, config)
<1>1. config \in Seq([group_id : Nat \ {0}, with_password : BOOLEAN])
  BY DEF SetReqType
<1>2. old \in Seq(RoomGroupConfig)
  BY RoomFields
<1>3. ASSUME NEW g \in DOMAIN old
      PROVE  /\ SetGroupPassword(old[g], g, config) \in RoomGroupConfig
             /\ SetGroupPassword(old[g], g, config).num_members = old[g].num_members
             /\ SetGroupPassword(old[g], g, config).slot_num = old[g].slot_num
  <2> DEFINE entries == {i \in DOMAIN config : config[i].group_id = g}
  <2>1. old[g] \in RoomGroupConfig
    BY <1>2
  <2>2. CASE entries = {}
    BY <2>1, <2>2 DEF SetGroupPassword
  <2>3. CASE entries # {}
    <3>1. Max(entries) \in DOMAIN config
      <4>1. entries \in SUBSET (1..Len(config)) /\ Len(config) \in Nat
        BY <1>1
      <4>2. Max(entries) \in entries
        <5> HIDE DEF entries
        <5> QED  BY <2>3, <4>1, MaxProperty, Zenon
      <4> QED  BY <4>2
    <3>2. config[Max(entries)].with_password \in BOOLEAN
      <4> DEFINE E == [group_id : Nat \ {0}, with_password : BOOLEAN]
                 i == Max(entries)
      <4>1. config \in Seq(E) /\ i \in DOMAIN config
        BY <1>1, <3>1
      <4>2. config[i] \in E
        <5> HIDE DEF E, i, config
        <5> QED  BY <4>1
      <4> HIDE DEF i
      <4>3. config[i].with_password \in BOOLEAN
        BY <4>2
      <4> QED  BY <4>3, ZenonT(30) DEF i
    <3>3. SetGroupPassword(old[g], g, config)
            = [old[g] EXCEPT !.with_password = config[Max(entries)].with_password]
      BY <2>3 DEF SetGroupPassword
    <3> HIDE DEF entries
    <3> QED  BY <2>1, <3>2, <3>3 DEF RoomGroupConfig
  <2> QED  BY <2>2, <2>3
<1>4. new \in Seq(RoomGroupConfig) /\ DOMAIN new = DOMAIN old
  <2> HIDE DEF old
  <2> QED  BY <1>2, <1>3, SMTT(30)
<1>5. \A g \in DOMAIN old : /\ new[g].num_members = old[g].num_members
                            /\ new[g].slot_num = old[g].slot_num
  BY <1>3
<1>6. r = [room EXCEPT !.group_config = new]
  BY DEF SetGroupPasswords
<1> HIDE DEF new, r
<1>7. Inert(room, r)
  BY <1>4, <1>5, <1>6, ZenonT(30) DEF Inert, RoomType
<1> QED  BY <1>7 DEF r

(* The slot mask and the succession list.                                  *)
LEMMA SetMaskRanksInert ==
    ASSUME NEW room \in RoomType, NEW req \in SetReqType
    PROVE  /\ Inert(room, SetMask(room, req.password_slot_mask))
           /\ Inert(room, SetRanks(room, req.ranks))
<1>1. /\ req.password_slot_mask \in (SUBSET (0..63)) \cup {None}
      /\ req.ranks \in Seq(Nat)
  BY DEF SetReqType
<1>2. Inert(room, room)
  BY DEF Inert
<1>3. Inert(room, SetMask(room, req.password_slot_mask))
  <2>1. CASE req.password_slot_mask = None
    BY <1>2, <2>1 DEF SetMask
  <2>2. CASE req.password_slot_mask # None
    <3> DEFINE mask == req.password_slot_mask
               r == [room EXCEPT !.password_slot_mask = mask]
    <3>1. mask \in SUBSET (0..63)
      BY <1>1, <2>2
    <3>2. Inert(room, r)
      <4> HIDE DEF mask
      <4> QED  BY <3>1, ZenonT(30) DEF Inert, RoomType
    <3> QED  BY <2>2, <3>2 DEF SetMask
  <2> QED  BY <2>1, <2>2
<1>4. Inert(room, SetRanks(room, req.ranks))
  <2>1. CASE req.ranks = << >>
    BY <1>2, <2>1 DEF SetRanks
  <2>2. CASE req.ranks # << >>
    <3> DEFINE ranks == req.ranks
               r == [room EXCEPT !.owner_succession = ranks]
    <3>1. Inert(room, r)
      <4>1. ranks \in Seq(Nat)
        BY <1>1
      <4> HIDE DEF ranks
      <4> QED  BY <4>1, ZenonT(30) DEF Inert, RoomType
    <3> QED  BY <2>2, <3>1 DEF SetRanks
  <2> QED  BY <2>1, <2>2
<1> QED  BY <1>3, <1>4

(* An owner's update is inert wherever it stops.                           *)
LEMMA OwnerUpdateInert ==
    ASSUME NEW room \in RoomType, NEW req \in SetReqType
    PROVE  Inert(room, OwnerUpdate(room, req))
<1> DEFINE flags == SetFlags(room, req)
           groups == SetGroupPasswords(flags, req.password_config)
           masks == SetMask(groups, req.password_slot_mask)
           all == SetRanks(masks, req.ranks)
<1>1. Inert(room, flags) /\ flags \in RoomType
  BY SetFlagsInert, ZenonT(30) DEF Inert
<1> HIDE DEF flags
<1>2. Inert(flags, groups) /\ groups \in RoomType
  BY <1>1, SetGroupPasswordsInert DEF Inert
<1> HIDE DEF groups
<1>3. Inert(groups, masks) /\ masks \in RoomType
  BY <1>2, SetMaskRanksInert, ZenonT(30) DEF Inert
<1> HIDE DEF masks
<1>4. Inert(masks, all)
  BY <1>3, SetMaskRanksInert
<1> HIDE DEF all
<1>5. Inert(room, groups)
  BY <1>1, <1>2, InertTransitive
<1>6. Inert(room, masks)
  BY <1>3, <1>5, InertTransitive
<1>7. Inert(room, all)
  BY <1>4, <1>6, InertTransitive
<1>8. OwnerUpdate(room, req) \in {groups, masks, all}
  <2>1. CASE req.stop = "groups"
    BY <2>1 DEF OwnerUpdate, flags, groups
  <2>2. CASE req.stop = "ranks"
    BY <2>2 DEF OwnerUpdate, flags, groups, masks
  <2>3. CASE req.stop # "groups" /\ req.stop # "ranks"
    BY <2>3 DEF OwnerUpdate, flags, groups, masks, all
  <2> QED  BY <2>1, <2>2, <2>3
<1> QED  BY <1>5, <1>6, <1>7, <1>8, ZenonT(30)

(* A new room has its creator as its only member, in slot 1.               *)
LEMMA CreatedRoomWellFormed ==
    ASSUME NEW req \in CreateReqType, CreateAccepted(req), NEW u \in UserId
    PROVE  LET r == CreatedRoom(req, u)
           IN  /\ WellFormed(r) /\ UserIds(r) = {u}
               /\ r.lobby_id = req.lobby_id /\ r.world_id = req.world_id
               /\ r.slots = {1} /\ r.max_slot = req.max_slot
               /\ r.group_config = CreatedGroups(req)
               /\ \A y \in r.users : /\ MemberSlot(y.member_id) = 1
                                     /\ req.group_config # << >> => y.group_id = 1
<1> DEFINE e == EmptyRoom(req)
           m == NewMemberId(e, 1)
           x == [member_id |-> m, user_id |-> u, is_owner |-> TRUE, team_id |-> req.team_id,
                 group_id |-> IF req.group_config = << >> THEN 0 ELSE 1]
           o == occupy_slot(e, 1)
           r == CreatedRoom(req, u)
<1>1. /\ req.world_id \in World /\ req.lobby_id \in Lobby \cup {0}
      /\ req.max_slot \in 1..64 /\ req.flag_attr \subseteq Flag
      /\ req.room_password \in Password \cup {None}
      /\ req.password_slot_mask \subseteq 0..63
      /\ req.label \in Label \cup {None} /\ req.team_id \in Team
  BY Zenon DEF CreateReqType, CreateAccepted
<1>2. req.group_config
        \in Seq([label : Label \cup {None}, with_password : BOOLEAN, slot_num : Nat])
  BY DEF CreateReqType
<1>3. /\ CreatedGroups(req) \in Seq(RoomGroupConfig)
      /\ DOMAIN CreatedGroups(req) = DOMAIN req.group_config
      /\ \A g \in DOMAIN req.group_config :
           CreatedGroups(req)[g].num_members = IF g = 1 THEN 1 ELSE 0
  <2> DEFINE G == [label : Label \cup {None}, with_password : BOOLEAN, slot_num : Nat]
             config == req.group_config
             N(g) == [label |-> IF g = 1 THEN req.label ELSE config[g].label,
                      fixed_label |-> config[g].label # None,
                      with_password |-> config[g].with_password,
                      slot_num |-> config[g].slot_num,
                      num_members |-> IF g = 1 THEN 1 ELSE 0]
  <2>1. ASSUME NEW g \in DOMAIN config
        PROVE  N(g) \in RoomGroupConfig
    <3>1. config[g] \in G
      <4>1. config \in Seq(G)
        BY <1>2
      <4> HIDE DEF G, config
      <4> QED  BY <4>1
    <3>2. /\ config[g].label \in Label \cup {None} /\ config[g].with_password \in BOOLEAN
          /\ config[g].slot_num \in Nat
      BY <3>1
    <3> QED  BY <1>1, <3>2 DEF RoomGroupConfig
  <2>2. CreatedGroups(req) = [g \in DOMAIN config |-> N(g)]
    BY DEF CreatedGroups
  <2>3. \A g \in DOMAIN config : N(g).num_members = IF g = 1 THEN 1 ELSE 0
    OBVIOUS
  <2>4. DOMAIN config = 1..Len(config) /\ Len(config) \in Nat
    BY <1>2
  <2> HIDE DEF N, config
  <2>5. CreatedGroups(req) \in Seq(RoomGroupConfig)
    BY ONLY <2>1, <2>2, <2>4, SMTT(30)
  <2> QED  BY <2>2, <2>3, <2>5, ZenonT(30) DEF config
<1>4. /\ e \in RoomType /\ e.slots = {} /\ e.member_id_counter = 0
      /\ e.max_slot = req.max_slot /\ "FULL" \notin e.flag_attr
      /\ e.lobby_id = req.lobby_id /\ e.world_id = req.world_id
      /\ e.group_config = CreatedGroups(req)
  <2> HIDE DEF e
  <2>1. e = [world_id |-> req.world_id, lobby_id |-> req.lobby_id, max_slot |-> req.max_slot,
             flag_attr |-> req.flag_attr \ PROTECTED_ROOM_FLAGS,
             room_password |-> req.room_password, group_config |-> CreatedGroups(req),
             password_slot_mask |-> req.password_slot_mask,
             slots |-> {}, member_id_counter |-> 0, users |-> {}, owner |-> 0,
             owner_succession |-> << >>]
    BY DEF EmptyRoom, e
  <2>2. req.flag_attr \ PROTECTED_ROOM_FLAGS \subseteq Flag
        /\ "FULL" \notin req.flag_attr \ PROTECTED_ROOM_FLAGS
    BY <1>1 DEF PROTECTED_ROOM_FLAGS
  <2>3. << >> \in Seq(Nat) /\ 0 \in 0..(MemberIdMod - 1)
    BY MemberIdModAssumption
  <2> QED  BY <1>1, <1>3, <2>1, <2>2, <2>3, ZenonT(30) DEF RoomType
<1> HIDE DEF e
<1>5. m = MemberIdMod /\ m \in Nat /\ MemberSlot(m) = 1
  BY <1>4, MemberIdModAssumption DEF NewMemberId, MemberSlot
<1>6. /\ x \in RoomUser /\ x.member_id = m /\ x.user_id = u /\ x.is_owner = TRUE
      /\ x.group_id = IF req.group_config = << >> THEN 0 ELSE 1
  <2> HIDE DEF m
  <2> QED  BY <1>1, <1>5, GroupIdModAssumption DEF RoomUser
<1>7. r = [o EXCEPT !.owner = m, !.users = {x}]
  BY DEF CreatedRoom, e
<1> HIDE DEF m, x
<1>8. /\ o \in RoomType /\ o.slots = {1} /\ o.max_slot = req.max_slot
      /\ "FULL" \notin o.flag_attr
      /\ o.lobby_id = req.lobby_id /\ o.world_id = req.world_id
      /\ o.group_config = CreatedGroups(req)
  <2>1. 1 \in 1..64
    OBVIOUS
  <2>2. /\ o \in RoomType /\ o.slots = e.slots \cup {1} /\ o.max_slot = e.max_slot
        /\ o.flag_attr = e.flag_attr
        /\ o.lobby_id = e.lobby_id /\ o.world_id = e.world_id
        /\ o.group_config = e.group_config
    BY <1>4, <2>1, OccupyFields, ZenonT(30)
  <2> HIDE DEF o
  <2> QED  BY <1>4, <2>2
<1> HIDE DEF o, r
<1>9. /\ r \in RoomType /\ r.slots = {1} /\ r.max_slot = req.max_slot
      /\ "FULL" \notin r.flag_attr
      /\ r.lobby_id = req.lobby_id /\ r.world_id = req.world_id
      /\ r.group_config = CreatedGroups(req) /\ r.owner = m /\ r.users = {x}
  <2>1. m \in Nat /\ {x} \in SUBSET RoomUser /\ o \in RoomType
    BY <1>5, <1>6, <1>8
  <2>2. /\ r \in RoomType /\ r.slots = o.slots /\ r.max_slot = o.max_slot
        /\ r.flag_attr = o.flag_attr
        /\ r.lobby_id = o.lobby_id /\ r.world_id = o.world_id
        /\ r.group_config = o.group_config /\ r.owner = m /\ r.users = {x}
    BY <1>7, <2>1, ZenonT(30) DEF RoomType
  <2>3. r.slots = {1} /\ r.max_slot = req.max_slot /\ "FULL" \notin r.flag_attr
    BY <1>8, <2>2, Zenon
  <2>4. r.lobby_id = req.lobby_id /\ r.world_id = req.world_id
    BY <1>8, <2>2, Zenon
  <2>5. r.group_config = CreatedGroups(req)
    BY <1>8, <2>2, Zenon
  <2> QED  BY <2>2, <2>3, <2>4, <2>5, Zenon
<1>10. IsFiniteSet(r.users) /\ Cardinality(r.users) = 1
  <2>1. r.users = {x}
    BY <1>9, Zenon
  <2> QED  BY <2>1, FS_Singleton, Zenon
<1>11. HasOneOwner(r)
  BY <1>6, <1>9 DEF HasOneOwner
<1>12. SlotsHeld(r) /\ UsersDistinct(r) /\ UserIds(r) = {u}
  <2>1. 1 \in 1..r.max_slot
    BY <1>1, <1>9
  <2> QED  BY <1>5, <1>6, <1>9, <2>1, ZenonT(30) DEF SlotsHeld, UsersDistinct, UserIds
<1>13. FullFlagRight(r)
  <2>1. ~(r.max_slot > 1 /\ 1 = r.max_slot)
    BY <1>1, <1>9
  <2> QED  BY <1>9, <1>10, <2>1 DEF FullFlagRight
<1>14. GroupsCounted(r)
  <2>1. x.group_id \in {0} \cup DOMAIN r.group_config
    BY <1>2, <1>3, <1>6, <1>9
  <2>2. ASSUME NEW g \in DOMAIN r.group_config
        PROVE  r.group_config[g].num_members >= Cardinality(GroupMembers(r, g))
    <3>1. CASE g = x.group_id
      <4>1. GroupMembers(r, g) = {x}
        BY <1>9, <3>1 DEF GroupMembers
      <4>2. g = 1
        BY <1>2, <1>3, <1>6, <1>9, <3>1, SMTT(30)
      <4>3. Cardinality(GroupMembers(r, g)) = 1
        BY <4>1, FS_Singleton, ZenonT(30)
      <4> QED  BY <1>3, <1>9, <4>2, <4>3, SMTT(30)
    <3>2. CASE g # x.group_id
      <4>1. GroupMembers(r, g) = {}
        BY <1>9, <3>2, ZenonT(30) DEF GroupMembers
      <4>2. Cardinality(GroupMembers(r, g)) = 0
        BY <4>1, FS_EmptySet, ZenonT(30)
      <4> QED  BY <1>3, <1>9, <4>2
    <3> QED  BY <3>1, <3>2
  <2> QED  BY <1>9, <2>1, <2>2 DEF GroupsCounted
<1>15. WellFormed(r)
  BY <1>9, <1>10, <1>11, <1>12, <1>13, <1>14, ZenonT(30) DEF WellFormed
<1>16. \A y \in r.users : /\ MemberSlot(y.member_id) = 1
                          /\ req.group_config # << >> => y.group_id = 1
  BY <1>5, <1>6, <1>9
<1>17. /\ r.lobby_id = req.lobby_id /\ r.world_id = req.world_id /\ r.slots = {1}
       /\ r.max_slot = req.max_slot /\ r.group_config = CreatedGroups(req)
  BY <1>9, Zenon
<1> SUFFICES /\ WellFormed(r) /\ UserIds(r) = {u}
             /\ r.lobby_id = req.lobby_id /\ r.world_id = req.world_id
             /\ r.slots = {1} /\ r.max_slot = req.max_slot
             /\ r.group_config = CreatedGroups(req)
             /\ \A y \in r.users : /\ MemberSlot(y.member_id) = 1
                                   /\ req.group_config # << >> => y.group_id = 1
  BY Zenon DEF r
<1> QED  BY <1>12, <1>15, <1>16, <1>17, Zenon

(* The creator of a room with groups sits in the first one, if that has    *)
(* a slot, and the groups of an accepted request fill the room.            *)
LEMMA CreatedRoomSeated ==
    ASSUME NEW req \in CreateReqType, CreateAccepted(req), NEW u \in UserId
    PROVE  Seated(CreatedRoom(req, u))
<1> DEFINE r == CreatedRoom(req, u)
           G == [label : Label \cup {None}, with_password : BOOLEAN, slot_num : Nat]
           o == req.group_config
           c == r.group_config
           n == Len(o)
           f == cur_slot_id(c)
<1>1. /\ WellFormed(r)
      /\ c = CreatedGroups(req) /\ r.slots = {1} /\ r.max_slot = req.max_slot
      /\ \A y \in r.users : MemberSlot(y.member_id) = 1 /\ (o # << >> => y.group_id = 1)
  BY CreatedRoomWellFormed, Zenon
<1> HIDE DEF r
<1>2. r \in RoomType /\ req.max_slot \in 1..64
  BY <1>1, Zenon DEF WellFormed, CreateAccepted
<1>3. o \in Seq(G)
  BY DEF CreateReqType
<1>4. n \in Nat /\ DOMAIN o = 1..n /\ \A g \in 1..n : o[g].slot_num \in Nat
  <2>1. n \in Nat /\ DOMAIN o = 1..n /\ \A g \in 1..n : o[g] \in G
    <3> HIDE DEF o, G
    <3> QED  BY <1>3, SMTT(30) DEF n
  <2> QED  BY <2>1
<1>5. DOMAIN c = 1..n /\ \A g \in 1..n : /\ c[g].slot_num = o[g].slot_num
                                         /\ c[g].num_members = IF g = 1 THEN 1 ELSE 0
  BY <1>1, <1>4, SMTT(30) DEF CreatedGroups
<1>6. \A g \in 1..n : c[g].slot_num \in Nat
  BY <1>4, <1>5
<1>7. f \in [1..n -> Nat] /\ FirstSlots(f, n, c)
  <2> HIDE DEF c, n
  <2> QED  BY <1>4, <1>5, <1>6, cur_slot_idFirst, Zenon
<1>8. FirstSlots(cur_slot_id(o), n, o)
  <2> HIDE DEF o, n
  <2> QED  BY <1>4, cur_slot_idFirst, Zenon
<1>9. \A g \in 1..n : GroupSlots(r, g) = f[g]..(f[g] + c[g].slot_num - 1)
  BY Zenon DEF GroupSlots
<1>10. o # << >> => cur_slot_id(o)[n] + o[n].slot_num = r.max_slot + 1 /\ n \in 1..n
  <2>1. o # << >> => n \in 1..n
    BY <1>3, <1>4
  <2> QED  BY <1>1, <2>1, Zenon DEF CreateAccepted, GroupsFillRoom
<1> HIDE DEF f, c, n, o
<1>11. \A g \in 1..n : f[g] = cur_slot_id(o)[g]
  <2>1. \A g \in 1..n : c[g].slot_num = o[g].slot_num
    BY <1>5, Zenon
  <2>2. n \in Nat /\ FirstSlots(f, n, c) /\ FirstSlots(cur_slot_id(o), n, o)
    BY <1>4, <1>7, <1>8, Zenon
  <2> QED  BY ONLY <2>1, <2>2, FirstSlotsUnique
<1>12. CASE o = << >>
  <2>1. c = << >>
    <3>1. c \in Seq(RoomGroupConfig) /\ Len(c) = 0
      <4>1. c \in Seq(RoomGroupConfig)
        BY <1>2, RoomFields, Zenon DEF c
      <4>2. DOMAIN c = {}
        <5>1. n = 0
          BY ONLY <1>12 DEF n
        <5> QED  BY ONLY <1>5, <5>1
      <4> QED  BY ONLY <4>1, <4>2
    <3> QED  BY ONLY <3>1
  <2> QED  BY <2>1, NoGroupsSeated DEF c, r
<1>13. CASE o # << >>
  <2>1. /\ n \in 1..n /\ f[n] + c[n].slot_num = r.max_slot + 1
        /\ f[1] = 1 /\ 1 \in 1..n /\ r.max_slot \in Nat
    <3>1. n \in 1..n /\ 1 \in 1..n
      BY <1>4, <1>10, <1>13
    <3>2. f[n] = cur_slot_id(o)[n] /\ c[n].slot_num = o[n].slot_num
      BY <1>5, <1>11, <3>1, Zenon
    <3>3. f[n] + c[n].slot_num = r.max_slot + 1
      BY <1>10, <1>13, <3>2, Zenon
    <3>4. f[1] = 1
      BY <1>7, <3>1 DEF FirstSlots
    <3>5. r.max_slot \in Nat
      <4>1. r.max_slot \in 1..64
        BY <1>2, RoomFields
      <4> QED  BY <4>1
    <3> QED  BY <3>1, <3>3, <3>4, <3>5
  <2>2. \A g, h \in 1..n : g < h => f[g] + c[g].slot_num <= f[h]
    BY <1>4, <1>6, <1>7, FirstSlotsIncrease, Zenon
  <2>3. ASSUME NEW g \in 1..n
        PROVE  GroupSlots(r, g) \subseteq 1..r.max_slot
    <3> DEFINE a == f[g]
               b == c[g].slot_num
               m == r.max_slot
    <3>1. a \in Nat /\ b \in Nat /\ f[n] \in Nat /\ c[n].slot_num \in Nat
          /\ f[1] \in Nat /\ c[1].slot_num \in Nat /\ m \in Nat
      BY <1>6, <1>7, <2>1, ZenonT(30)
    <3>2. a >= 1
      <4>1. g = 1 \/ (1 < g /\ f[1] + c[1].slot_num <= a)
        BY <1>4, <2>1, <2>2
      <4> HIDE DEF a
      <4> QED  BY <2>1, <3>1, <4>1 DEF a
    <3>3. a + b <= m + 1
      <4>1. g = n \/ (g < n /\ a + b <= f[n])
        BY <1>4, <2>1, <2>2
      <4>2. f[n] <= m + 1 /\ (g = n => a + b = m + 1)
        <5>1. f[n] + c[n].slot_num = m + 1 /\ (g = n => a = f[n] /\ b = c[n].slot_num)
          BY <2>1
        <5> HIDE DEF a, b, m
        <5> QED  BY <3>1, <5>1
      <4> HIDE DEF a, b, m
      <4> QED  BY <3>1, <4>1, <4>2
    <3>4. a..(a + b - 1) \subseteq 1..m
      <4> HIDE DEF a, b, m
      <4> QED  BY <3>1, <3>2, <3>3
    <3> QED  BY <1>9, <3>4, Zenon
  <2>4. GroupsFit(r)
    BY <1>5, <2>3, Zenon DEF GroupsFit, c
  <2>5. SeatsTracked(r) => 1 \in GroupSlots(r, 1)
    <3>1. SeatsTracked(r) => c[1].slot_num > 0
      BY DEF SeatsTracked, c
    <3> QED  BY <1>6, <1>9, <2>1, <3>1, SMTT(30)
  <2>6. MembersSeated(r)
    BY <1>1, <1>5, <1>13, <2>1, <2>5, ZenonT(30) DEF MembersSeated, c
  <2>7. ASSUME SeatsTracked(r), NEW g \in 1..n
        PROVE  c[g].num_members >= Cardinality(GroupSlots(r, g) \cap r.slots)
    <3> DEFINE S == GroupSlots(r, g) \cap r.slots
    <3>1. CASE g = 1
      <4>1. S = {1} /\ c[g].num_members = 1
        BY <1>1, <1>5, <2>5, <2>7, <3>1, ZenonT(30)
      <4> QED  BY <4>1, FS_Singleton
    <3>2. CASE g # 1
      <4>1. GroupSlots(r, 1) \cap GroupSlots(r, g) = {}
        BY <1>2, <1>5, <2>1, <3>2, GroupsApart, Zenon DEF c
      <4>2. S = {} /\ c[g].num_members = 0
        BY <1>1, <1>5, <2>5, <2>7, <3>2, <4>1, ZenonT(30)
      <4> QED  BY <4>2, FS_EmptySet
    <3> QED  BY <3>1, <3>2
  <2>8. SlotsCounted(r)
    BY <1>5, <2>7, Zenon DEF SlotsCounted, c
  <2> QED  BY <2>4, <2>6, <2>8 DEF Seated, r
<1> QED  BY <1>12, <1>13
=============================================================================
