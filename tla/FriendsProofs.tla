--------------------------- MODULE FriendsProofs ----------------------------
(***************************************************************************)
(* The properties of Friends for any number of users.                      *)
(***************************************************************************)
EXTENDS Friends, TLAPS

-----------------------------------------------------------------------------
(* The row of a pair, from both sides.                                     *)

Flags == BOOLEAN \X BOOLEAN

(* Two flags are both set, or one of them is not.                          *)
LEMMA BothSet ==
    ASSUME NEW s, NEW a \in BOOLEAN, NEW b \in BOOLEAN, s = <<a, b>>
    PROVE  s = <<TRUE, TRUE>> <=> a /\ b
<1>1. CASE a = TRUE /\ b = TRUE BY <1>1
<1>2. CASE a = FALSE
  <2>1. s[1] # TRUE BY <1>2, ZenonT(30)
  <2> QED BY <1>2, <2>1, Zenon
<1>3. CASE b = FALSE
  <2>1. s[2] # TRUE BY <1>3, ZenonT(30)
  <2> QED BY <1>3, <2>1, Zenon
<1> QED BY <1>1, <1>2, <1>3, ZenonT(30)

(* The two users of a pair see the same row, with the flags exchanged.     *)
LEMMA StatusType ==
    ASSUME TypeOK, NEW u \in UserId, NEW f \in UserId, u # f
    PROVE  /\ get_rel_status(u, f) \in Flags
           /\ get_rel_status(f, u) = <<get_rel_status(u, f)[2], get_rel_status(u, f)[1]>>
<1>1. u \in Nat /\ f \in Nat BY FriendsAssumption
<1> DEFINE p == get_ordered_userids(u, f)
           row == IF p \in DOMAIN friendship THEN friendship[p] ELSE <<FALSE, FALSE>>
<1>2. get_ordered_userids(f, u) = p BY <1>1 DEF get_ordered_userids
<1>3. row \in Flags BY Zenon DEF TypeOK, Flags
<1>4. get_rel_status(u, f) = (IF u > f THEN <<row[2], row[1]>> ELSE row)
  BY DEF get_rel_status
<1>5. get_rel_status(f, u) = (IF f > u THEN <<row[2], row[1]>> ELSE row)
  BY <1>2 DEF get_rel_status
<1>6. PICK a \in BOOLEAN, b \in BOOLEAN : row = <<a, b>> BY <1>3 DEF Flags
<1> HIDE DEF p, row
<1>7. CASE u > f
  <2>1. get_rel_status(u, f) = <<b, a>> BY <1>4, <1>6, <1>7
  <2>2. get_rel_status(f, u) = <<a, b>> BY <1>1, <1>5, <1>6, <1>7
  <2> QED BY <2>1, <2>2 DEF Flags
<1>8. CASE ~(u > f)
  <2>1. get_rel_status(u, f) = <<a, b>> BY <1>4, <1>6, <1>8
  <2>2. get_rel_status(f, u) = <<b, a>> BY <1>1, <1>5, <1>6, <1>8
  <2> QED BY <2>1, <2>2 DEF Flags
<1> QED BY <1>7, <1>8

(* Friends are friends of each other, and have accounts.                   *)
LEMMA MutualBoth ==
    ASSUME TypeOK, NEW u \in UserId, NEW f \in UserId, u # f
    PROVE  /\ Mutual(u, f) <=> Mutual(f, u)
           /\ Mutual(u, f) => u \in accounts /\ f \in accounts
<1>1. Mutual(u, f) <=> Mutual(f, u)
  <2>1. PICK a \in BOOLEAN, b \in BOOLEAN : get_rel_status(u, f) = <<a, b>>
    BY StatusType DEF Flags
  <2>2. get_rel_status(f, u) = <<b, a>> BY <2>1, StatusType
  <2>3. Mutual(u, f) <=> a /\ b BY <2>1, BothSet, Zenon DEF Mutual
  <2>4. Mutual(f, u) <=> b /\ a BY <2>2, BothSet, Zenon DEF Mutual
  <2> QED BY <2>3, <2>4
<1>2. ASSUME Mutual(u, f) PROVE u \in accounts /\ f \in accounts
  <2>1. u \in Nat /\ f \in Nat BY FriendsAssumption
  <2>2. get_ordered_userids(u, f) \in DOMAIN friendship
    BY <1>2, ZenonT(30) DEF Mutual, get_rel_status
  <2>3. get_ordered_userids(u, f) \in accounts \X accounts BY <2>2 DEF TypeOK
  <2> QED BY <2>1, <2>3 DEF get_ordered_userids
<1> QED BY <1>1, <1>2

(* A write changes the row of its pair and no other.                       *)
LEMMA StatusSet ==
    ASSUME TypeOK, NEW u \in UserId, NEW f \in UserId, u # f,
           NEW a \in BOOLEAN, NEW b \in BOOLEAN, set_rel_status(u, f, a, b)
    PROVE  /\ get_rel_status(u, f)' = <<a, b>>
           /\ get_rel_status(f, u)' = <<b, a>>
           /\ \A x, y \in UserId : x # y /\ <<x, y>> # <<u, f>> /\ <<x, y>> # <<f, u>>
                => get_rel_status(x, y)' = get_rel_status(x, y)
<1>1. UserId \subseteq Nat BY FriendsAssumption
<1> DEFINE p == get_ordered_userids(u, f)
           row == IF u > f THEN <<b, a>> ELSE <<a, b>>
<1>2. friendship' = [q \in DOMAIN friendship \cup {p} |-> IF q = p THEN row ELSE friendship[q]]
  BY DEF set_rel_status, swapped
<1>3. p \in DOMAIN friendship' /\ friendship'[p] = row BY <1>2
<1>4. get_ordered_userids(f, u) = p BY <1>1 DEF get_ordered_userids
<1>5. get_rel_status(u, f)' = (IF u > f THEN <<row[2], row[1]>> ELSE row)
  BY <1>3 DEF get_rel_status
<1>6. get_rel_status(f, u)' = (IF f > u THEN <<row[2], row[1]>> ELSE row)
  BY <1>3, <1>4 DEF get_rel_status
<1>7. ASSUME NEW x \in UserId, NEW y \in UserId, x # y,
             <<x, y>> # <<u, f>>, <<x, y>> # <<f, u>>
      PROVE  get_rel_status(x, y)' = get_rel_status(x, y)
  <2> DEFINE q == get_ordered_userids(x, y)
  <2>1. q # p BY <1>1, <1>7 DEF get_ordered_userids
  <2>2. /\ q \in DOMAIN friendship' <=> q \in DOMAIN friendship
        /\ q \in DOMAIN friendship => friendship'[q] = friendship[q]
    BY <1>2, <2>1
  <2> QED BY <2>2, Zenon DEF get_rel_status
<1>8. get_rel_status(u, f)' = <<a, b>> BY <1>5
<1>9. get_rel_status(f, u)' = <<b, a>> BY <1>1, <1>6
<1> QED BY <1>7, <1>8, <1>9

(* The rows of a deleted account are gone, the others stay.                *)
LEMMA StatusDelete ==
    ASSUME TypeOK, NEW w \in UserId, delete_account(w),
           NEW x \in UserId, NEW y \in UserId, x # y
    PROVE  /\ w \notin {x, y} => get_rel_status(x, y)' = get_rel_status(x, y)
           /\ w \in {x, y} => get_rel_status(x, y)' = <<FALSE, FALSE>>
<1> DEFINE p == get_ordered_userids(x, y)
<1>1. friendship' = [q \in {r \in DOMAIN friendship : r[1] # w /\ r[2] # w} |-> friendship[q]]
  BY DEF delete_account
<1>2. p = <<x, y>> \/ p = <<y, x>> BY DEF get_ordered_userids
<1>3. ASSUME w \notin {x, y} PROVE get_rel_status(x, y)' = get_rel_status(x, y)
  <2>1. p[1] # w /\ p[2] # w BY <1>2, <1>3
  <2>2. /\ p \in DOMAIN friendship' <=> p \in DOMAIN friendship
        /\ p \in DOMAIN friendship => friendship'[p] = friendship[p]
    BY <1>1, <2>1
  <2> QED BY <2>2, Zenon DEF get_rel_status
<1>4. ASSUME w \in {x, y} PROVE get_rel_status(x, y)' = <<FALSE, FALSE>>
  <2>1. p \notin DOMAIN friendship' BY <1>1, <1>2, <1>4
  <2> QED BY <2>1, ZenonT(30) DEF get_rel_status
<1> QED BY <1>3, <1>4, ZenonT(30)

(* The same in terms of who asks for whom.                                 *)
LEMMA MutualAsks ==
    ASSUME TypeOK, NEW x \in UserId, NEW y \in UserId, x # y
    PROVE  /\ Mutual(x, y) <=> Asks(x, y) /\ Asks(y, x)
           /\ Mutual(x, y) <=> Mutual(y, x)
<1>1. PICK a \in BOOLEAN, b \in BOOLEAN : get_rel_status(x, y) = <<a, b>>
  BY StatusType DEF Flags
<1>2. get_rel_status(y, x) = <<b, a>> BY <1>1, StatusType
<1>3. Mutual(x, y) <=> a /\ b BY <1>1, BothSet, Zenon DEF Mutual
<1>4. (Asks(x, y) <=> a) /\ (Asks(y, x) <=> b) BY <1>1, <1>2 DEF Asks
<1> QED BY <1>3, <1>4, MutualBoth, Zenon

(* What a write does to who asks for whom.                                 *)
LEMMA AskSet ==
    ASSUME TypeOK, NEW u \in UserId, NEW f \in UserId, u # f,
           NEW a \in BOOLEAN, NEW b \in BOOLEAN, set_rel_status(u, f, a, b)
    PROVE  /\ Asks(u, f)' <=> a
           /\ Asks(f, u)' <=> b
           /\ Mutual(u, f)' <=> a /\ b
           /\ Mutual(f, u)' <=> a /\ b
           /\ \A x, y \in UserId : x # y /\ <<x, y>> # <<u, f>> /\ <<x, y>> # <<f, u>>
                => (Asks(x, y)' <=> Asks(x, y)) /\ (Mutual(x, y)' <=> Mutual(x, y))
<1>1. (Asks(u, f)' <=> a) /\ (Mutual(u, f)' <=> a /\ b)
  <2>1. get_rel_status(u, f)' = <<a, b>> BY StatusSet
  <2>2. Mutual(u, f)' <=> a /\ b BY <2>1, BothSet, Zenon DEF Mutual
  <2> QED BY <2>1, <2>2 DEF Asks
<1>2. (Asks(f, u)' <=> b) /\ (Mutual(f, u)' <=> a /\ b)
  <2>1. get_rel_status(f, u)' = <<b, a>> BY StatusSet
  <2>2. Mutual(f, u)' <=> b /\ a BY <2>1, BothSet, Zenon DEF Mutual
  <2> QED BY <2>1, <2>2 DEF Asks
<1>3. ASSUME NEW x \in UserId, NEW y \in UserId, x # y,
             <<x, y>> # <<u, f>>, <<x, y>> # <<f, u>>
      PROVE  (Asks(x, y)' <=> Asks(x, y)) /\ (Mutual(x, y)' <=> Mutual(x, y))
  <2>1. get_rel_status(x, y)' = get_rel_status(x, y) BY <1>3, StatusSet
  <2> QED BY <2>1 DEF Asks, Mutual
<1> QED BY <1>1, <1>2, <1>3, Zenon

(* A step that leaves the table alone.                                     *)
LEMMA AskSame ==
    ASSUME friendship' = friendship
    PROVE  \A x, y : (Asks(x, y)' <=> Asks(x, y)) /\ (Mutual(x, y)' <=> Mutual(x, y))
BY DEF Asks, Mutual, get_rel_status

(* A deletion.                                                             *)
LEMMA AskDelete ==
    ASSUME TypeOK, NEW w \in UserId, delete_account(w),
           NEW x \in UserId, NEW y \in UserId, x # y
    PROVE  /\ w \notin {x, y} => (Asks(x, y)' <=> Asks(x, y)) /\ (Mutual(x, y)' <=> Mutual(x, y))
           /\ w \in {x, y} => ~Asks(x, y)' /\ ~Mutual(x, y)'
<1>1. ASSUME w \notin {x, y}
      PROVE  (Asks(x, y)' <=> Asks(x, y)) /\ (Mutual(x, y)' <=> Mutual(x, y))
  <2>1. get_rel_status(x, y)' = get_rel_status(x, y) BY <1>1, StatusDelete, Zenon
  <2> QED BY <2>1 DEF Asks, Mutual
<1>2. ASSUME w \in {x, y} PROVE ~Asks(x, y)' /\ ~Mutual(x, y)'
  <2>1. get_rel_status(x, y)' = <<FALSE, FALSE>> BY <1>2, StatusDelete, ZenonT(30)
  <2>2. ~Mutual(x, y)' BY <2>1, BothSet, Zenon DEF Mutual
  <2>3. ~Asks(x, y)' BY <2>1 DEF Asks
  <2> QED BY <2>2, <2>3
<1> QED BY <1>1, <1>2

-----------------------------------------------------------------------------
(* Where a command is under way it has the form of one, and its user is    *)
(* online.                                                                 *)
LEMMA Shapes ==
    ASSUME TypeOK, NEW u \in UserId, pc[u].at \in {"write", "own", "other"}
    PROVE  pc[u] \in Command /\ u \in online /\ u \in accounts /\ pc[u] \notin {Idle, Closing}
BY DEF TypeOK, Idle, Closing

(* What a write finds and does.                                            *)
WriteAt(u, f) ==
    /\ u # f /\ Busy(u, f) /\ pc[u].at = "write" /\ u \in online /\ pc[u] \in Command
    /\ \/ /\ pc[u].op = "add" /\ pc[u].status_friend = TRUE
          /\ set_rel_status(u, f, TRUE, TRUE)
          /\ asked' = asked \cup {<<u, f>>}
          /\ pc' = [pc EXCEPT ![u] = [pc[u] EXCEPT !.at = "own"]]
       \/ /\ pc[u].op = "add" /\ pc[u].status_friend = FALSE
          /\ set_rel_status(u, f, TRUE, FALSE)
          /\ asked' = asked \cup {<<u, f>>}
          /\ pc' = [pc EXCEPT ![u] = Idle]
       \/ /\ pc[u].op = "remove"
          /\ set_rel_status(u, f, FALSE, FALSE)
          /\ pc' = [pc EXCEPT ![u] = [pc[u] EXCEPT !.at = "own"]]
          /\ asked' = asked
    /\ UNCHANGED <<accounts, online, friends, raced>>

(* Every write is one of a command about another user who has an account.  *)
LEMMA Writes ==
    ASSUME TypeOK, NEW u \in UserId, Write(u)
    PROVE  \E f \in accounts : WriteAt(u, f)
<1>1. pc[u] \in Command /\ u \in online BY Shapes DEF Write
<1>2. PICK f \in accounts : pc[u].friend = f BY DEF Write
<1>3. Busy(u, f) /\ u # f BY <1>2 DEF Busy, Write, TypeOK
<1>4. pc[u].status_friend \in BOOLEAN /\ pc[u].op \in {"add", "remove"} BY <1>1 DEF Command
<1>5. CASE pc[u].op = "add" /\ pc[u].status_friend = TRUE
  BY <1>1, <1>2, <1>3, <1>5, Zenon DEF Write, WriteAt
<1>6. CASE pc[u].op = "add" /\ pc[u].status_friend = FALSE
  BY <1>1, <1>2, <1>3, <1>6, Zenon DEF Write, WriteAt
<1>7. CASE pc[u].op = "remove"
  <2>1. [pc EXCEPT ![u].at = "own"] = [pc EXCEPT ![u] = [pc[u] EXCEPT !.at = "own"]]
    OBVIOUS
  <2> QED BY <1>1, <1>2, <1>3, <1>7, <2>1, Zenon DEF Write, WriteAt
<1> QED BY <1>4, <1>5, <1>6, <1>7, Zenon

(* A row that is written is one of the table.                              *)
LEMMA SetTypes ==
    ASSUME TypeOK, NEW u \in accounts, NEW f \in accounts, u # f,
           NEW a \in BOOLEAN, NEW b \in BOOLEAN, set_rel_status(u, f, a, b)
    PROVE  /\ DOMAIN friendship' \subseteq {p \in accounts \X accounts : p[1] < p[2]}
           /\ \A p \in DOMAIN friendship' : friendship'[p] \in BOOLEAN \X BOOLEAN
<1>1. u \in Nat /\ f \in Nat BY FriendsAssumption DEF TypeOK
<1> DEFINE p == get_ordered_userids(u, f)
           row == IF swapped(u, f) THEN <<b, a>> ELSE <<a, b>>
<1>2. friendship' = [q \in DOMAIN friendship \cup {p} |-> IF q = p THEN row ELSE friendship[q]]
  BY DEF set_rel_status
<1>3. p \in {q \in accounts \X accounts : q[1] < q[2]}
  BY <1>1 DEF get_ordered_userids
<1>4. row \in BOOLEAN \X BOOLEAN OBVIOUS
<1> HIDE DEF p, row
<1> QED BY <1>2, <1>3, <1>4 DEF TypeOK

(* Every step keeps the type invariant.                                    *)
LEMMA TypeStep == ASSUME TypeOK, [Next]_vars PROVE TypeOK'
<1> USE DEF TypeOK
<1>1. ASSUME NEW u \in UserId, login(u) PROVE TypeOK'
  BY <1>1 DEF login, Busy, get_relationships
<1>2. ASSUME NEW u \in UserId, drop(u) PROVE TypeOK'
  <2>1. pc' \in [UserId -> {Idle, Closing} \cup Command] BY <1>2 DEF drop
  <2>2. \A v \in UserId : (pc'[v] # Idle => v \in online') /\ ~Busy(v, v)' BY <1>2 DEF drop, Busy, Idle
  <2> QED BY <1>2, <2>1, <2>2 DEF drop
<1>3. ASSUME NEW u \in UserId, delete_account(u) PROVE TypeOK'
  <2>1. /\ DOMAIN friendship' \subseteq {p \in accounts' \X accounts' : p[1] < p[2]}
        /\ \A p \in DOMAIN friendship' : friendship'[p] \in BOOLEAN \X BOOLEAN
    BY <1>3 DEF delete_account
  <2> QED BY <1>3, <2>1 DEF delete_account, Busy
<1>4. ASSUME NEW u \in UserId, NEW f \in UserId, NEW op \in {"add", "remove"}, Begin(u, f, op)
      PROVE  TypeOK'
  <2>1. u # f BY <1>4 DEF Begin
  <2>2. PICK a \in BOOLEAN, b \in BOOLEAN : get_rel_status(u, f) = <<a, b>>
    BY <2>1, StatusType DEF Flags
  <2>3. pc' = [pc EXCEPT ![u] = [at |-> "write", op |-> op, friend |-> f,
                                 status_user |-> a, status_friend |-> b]]
    BY <1>4, <2>2 DEF Begin
  <2>4. [at |-> "write", op |-> op, friend |-> f, status_user |-> a, status_friend |-> b] \in Command
    BY DEF Command
  <2>5. pc' \in [UserId -> {Idle, Closing} \cup Command] BY <2>3, <2>4
  <2>6. \A v \in UserId : (pc'[v] # Idle => v \in online') /\ ~Busy(v, v)'
    BY <1>4, <2>1, <2>3 DEF Begin, Busy
  <2>7. raced' \subseteq Pair BY <1>4 DEF Begin, Pair
  <2> QED BY <1>4, <2>5, <2>6, <2>7 DEF Begin
<1>5. ASSUME NEW u \in UserId, Write(u) PROVE TypeOK'
  <2>1. PICK f \in accounts : WriteAt(u, f) BY <1>5, Writes
  <2>2. /\ DOMAIN friendship' \subseteq {p \in accounts \X accounts : p[1] < p[2]}
        /\ \A p \in DOMAIN friendship' : friendship'[p] \in BOOLEAN \X BOOLEAN
    BY <2>1, SetTypes, Zenon DEF WriteAt
  <2> DEFINE own == [pc[u] EXCEPT !.at = "own"]
  <2>3. \/ pc' = [pc EXCEPT ![u] = own]
        \/ pc' = [pc EXCEPT ![u] = Idle]
    BY <2>1, Zenon DEF WriteAt
  <2>4. asked' = asked \/ asked' = asked \cup {<<u, f>>} BY <2>1, Zenon DEF WriteAt
  <2>5. u # f /\ pc[u] \in Command /\ pc[u].friend = f /\ u \in online BY <2>1 DEF WriteAt, Busy
  <2>6. own \in Command /\ own.friend = f BY <2>5 DEF Command
  <2> HIDE DEF own
  <2>7. pc' \in [UserId -> {Idle, Closing} \cup Command] BY <2>3, <2>6
  <2>8. UNCHANGED <<accounts, online, friends, raced>> BY <2>1 DEF WriteAt
  <2>9. \A v \in UserId : (pc'[v] # Idle => v \in online') /\ ~Busy(v, v)'
    BY <2>3, <2>5, <2>6, <2>8 DEF Busy, Idle
  <2>10. asked' \subseteq Pair BY <2>4 DEF Pair
  <2> QED BY <2>2, <2>7, <2>8, <2>9, <2>10
<1>6. ASSUME NEW u \in UserId, WriteFails(u) PROVE TypeOK'
  BY <1>6, Shapes DEF WriteFails, Busy, Closing
<1>7. ASSUME NEW u \in UserId, UpdateOwn(u) PROVE TypeOK'
  <2>1. pc[u] \in Command /\ u \in online BY <1>7, Shapes DEF UpdateOwn
  <2>2. pc' \in [UserId -> {Idle, Closing} \cup Command] BY <1>7, <2>1 DEF UpdateOwn, Command
  <2>3. \A v \in UserId : (pc'[v] # Idle => v \in online') /\ ~Busy(v, v)'
    BY <1>7, <2>1 DEF UpdateOwn, Busy, Command
  <2>4. friends' \in [UserId -> SUBSET UserId] BY <1>7, <2>1 DEF UpdateOwn, Updated, Command
  <2> QED BY <1>7, <2>2, <2>3, <2>4 DEF UpdateOwn
<1>8. ASSUME NEW u \in UserId, UpdateOther(u) PROVE TypeOK'
  <2>1. pc[u] \in Command /\ u \in online BY <1>8, Shapes DEF UpdateOther
  <2>2. friends' \in [UserId -> SUBSET UserId] BY <1>8, <2>1 DEF UpdateOther, Updated, Command
  <2> QED BY <1>8, <2>2 DEF UpdateOther, Busy, Idle
<1>9. CASE Restart BY <1>9 DEF Restart, Busy, Idle
<1>10. CASE UNCHANGED vars BY <1>10 DEF vars, Busy
<1> QED BY <1>1, <1>2, <1>3, <1>4, <1>5, <1>6, <1>7, <1>8, <1>9, <1>10
        DEF Next, add_friend, remove_friend

(* Every table, list and command of Friends keeps its type.                *)
THEOREM FriendTypes == Spec => []TypeOK
<1>1. Init => TypeOK BY DEF Init, TypeOK, Busy, Idle
<1>2. TypeOK /\ [Next]_vars => TypeOK' BY TypeStep
<1> QED BY <1>1, <1>2, PTL DEF Spec

-----------------------------------------------------------------------------
(* A flag in the table, or one that a command has read and will write      *)
(* back, stands for an AddFriend.                                          *)
ConsentInv ==
    \A x, y \in UserId :
      /\ x # y /\ Asks(x, y) => <<x, y>> \in asked
      /\ Busy(x, y) /\ pc[x].status_friend = TRUE => <<y, x>> \in asked

(* What a command has read of its pair is still there when it writes, and  *)
(* what it has written is there while it updates the lists, unless another *)
(* command about the same pair got in between.                             *)
RowInv ==
    \A x, y \in UserId : Busy(x, y) =>
      /\ Busy(y, x) => <<x, y>> \in raced /\ <<y, x>> \in raced
      /\ pc[x].at = "write" /\ pc[x].op = "add" => pc[x].status_user = FALSE
      /\ y \in accounts /\ (<<x, y>> \notin raced \/ <<y, x>> \notin raced) =>
           /\ pc[x].at = "write" => (Asks(x, y) <=> pc[x].status_user = TRUE)
           /\ pc[x].at = "write" => (Asks(y, x) <=> pc[x].status_friend = TRUE)
           /\ pc[x].at # "write" => (Mutual(x, y) <=> pc[x].op = "add")

(* No command still has to bring f into the list of u, or out of it.       *)
Settled(u, f) ==
    /\ ~(Busy(u, f) /\ pc[u].at = "own")
    /\ ~(Busy(f, u) /\ pc[f].at \in {"own", "other"})

ListInv ==
    \A u \in online : \A f \in UserId \ {u} :
      <<u, f>> \notin raced /\ Settled(u, f) =>
        (f \in friends[u] /\ f \in accounts <=> Mutual(u, f))

IInv == TypeOK /\ ConsentInv /\ RowInv /\ ListInv

-----------------------------------------------------------------------------
(* What a command reads when it begins.                                    *)
BeginAt(u, f, op, a, b) ==
    /\ u # f /\ u \in online /\ pc[u] = Idle /\ f \in accounts
    /\ (Asks(u, f) <=> a = TRUE) /\ (Asks(f, u) <=> b = TRUE)
    /\ pc' = [pc EXCEPT ![u] = [at |-> "write", op |-> op, friend |-> f,
                                status_user |-> a, status_friend |-> b]]
    /\ raced' = IF Busy(f, u) THEN raced \cup {<<u, f>>, <<f, u>>} ELSE raced
    /\ UNCHANGED <<accounts, friendship, online, friends, asked>>

(* Both commands begin this way; an addition that has been made already is *)
(* refused.                                                                *)
LEMMA Begins ==
    ASSUME TypeOK, NEW u \in UserId, NEW f \in UserId,
           add_friend(u, f) \/ remove_friend(u, f)
    PROVE  \E op \in {"add", "remove"}, a \in BOOLEAN, b \in BOOLEAN :
             BeginAt(u, f, op, a, b) /\ (op = "add" => a = FALSE)
<1>1. PICK op \in {"add", "remove"} : Begin(u, f, op) /\ (op = "add" => ~Asks(u, f))
  BY DEF add_friend, remove_friend
<1>2. u # f BY <1>1 DEF Begin
<1>3. PICK a \in BOOLEAN, b \in BOOLEAN : get_rel_status(u, f) = <<a, b>>
  BY <1>2, StatusType DEF Flags
<1>4. get_rel_status(f, u) = <<b, a>> BY <1>2, <1>3, StatusType
<1>5. (Asks(u, f) <=> a = TRUE) /\ (Asks(f, u) <=> b = TRUE) BY <1>3, <1>4 DEF Asks
<1>6. BeginAt(u, f, op, a, b)
  <2>1. pc' = [pc EXCEPT ![u] = [at |-> "write", op |-> op, friend |-> f,
                                status_user |-> a, status_friend |-> b]]
    BY <1>1, <1>3 DEF Begin
  <2> QED BY <1>1, <1>2, <1>5, <2>1, Zenon DEF Begin, BeginAt
<1>7. op = "add" => a = FALSE BY <1>1, <1>5
<1> QED BY <1>6, <1>7

(* The steps that neither begin a command nor write a row.                 *)
Rest(u) == \/ login(u) \/ drop(u) \/ delete_account(u) \/ WriteFails(u)
           \/ UpdateOwn(u) \/ UpdateOther(u) \/ Restart \/ UNCHANGED vars

(* A command goes on with what it has, whichever of those steps is taken.  *)
LEMMA BusySteps ==
    ASSUME TypeOK, NEW u \in UserId, Rest(u)
    PROVE  \A x, y \in UserId : Busy(x, y)' =>
             /\ Busy(x, y)
             /\ pc'[x].op = pc[x].op
             /\ pc'[x].status_user = pc[x].status_user
             /\ pc'[x].status_friend = pc[x].status_friend
             /\ pc'[x].at = pc[x].at \/ (UpdateOwn(u) /\ x = u)
             /\ pc'[x].at = "write" <=> pc[x].at = "write"
<1> SUFFICES ASSUME NEW x \in UserId, NEW y \in UserId, Busy(x, y)'
             PROVE  /\ Busy(x, y)
                    /\ pc'[x].op = pc[x].op
                    /\ pc'[x].status_user = pc[x].status_user
                    /\ pc'[x].status_friend = pc[x].status_friend
                    /\ pc'[x].at = pc[x].at \/ (UpdateOwn(u) /\ x = u)
                    /\ pc'[x].at = "write" <=> pc[x].at = "write"
  OBVIOUS
<1>1. CASE pc' = pc BY <1>1 DEF Busy
<1>2. CASE \/ pc' = [pc EXCEPT ![u] = Idle]
           \/ pc' = [pc EXCEPT ![u] = Closing]
           \/ pc' = [v \in UserId |-> Idle]
  BY <1>2 DEF Busy, TypeOK, Idle, Closing
<1>3. CASE UpdateOwn(u)
  <2>1. pc[u] \in Command BY <1>3, Shapes DEF UpdateOwn
  <2>2. pc' = [pc EXCEPT ![u] = [pc[u] EXCEPT !.at = "other"]] BY <1>3 DEF UpdateOwn
  <2> QED BY <1>3, <2>1, <2>2 DEF Busy, TypeOK, Command, UpdateOwn
<1>4. \/ pc' = pc \/ UpdateOwn(u)
      \/ pc' = [pc EXCEPT ![u] = Idle]
      \/ pc' = [pc EXCEPT ![u] = Closing]
      \/ pc' = [v \in UserId |-> Idle]
  BY Zenon DEF Rest, login, drop, delete_account, WriteFails, UpdateOther, Restart, vars
<1> QED BY <1>1, <1>2, <1>3, <1>4

(* What the write of a command does to who asks for whom.                  *)
LEMMA AskWrite ==
    ASSUME TypeOK, NEW u \in UserId, NEW f \in accounts, WriteAt(u, f)
    PROVE  /\ Asks(u, f)' <=> pc[u].op = "add"
           /\ Asks(f, u)' <=> pc[u].op = "add" /\ pc[u].status_friend = TRUE
           /\ Mutual(u, f)' <=> pc[u].op = "add" /\ pc[u].status_friend = TRUE
           /\ Mutual(f, u)' <=> pc[u].op = "add" /\ pc[u].status_friend = TRUE
           /\ \A x, y \in UserId : x # y /\ <<x, y>> # <<u, f>> /\ <<x, y>> # <<f, u>>
                => (Asks(x, y)' <=> Asks(x, y)) /\ (Mutual(x, y)' <=> Mutual(x, y))
<1>1. f \in UserId /\ u # f BY DEF WriteAt, TypeOK
<1>2. PICK a \in BOOLEAN, b \in BOOLEAN :
        /\ set_rel_status(u, f, a, b)
        /\ a <=> pc[u].op = "add"
        /\ b <=> pc[u].op = "add" /\ pc[u].status_friend = TRUE
  <2>1. CASE pc[u].op = "remove" BY <2>1, ZenonT(30) DEF WriteAt
  <2>2. CASE pc[u].op = "add" /\ pc[u].status_friend = TRUE BY <2>2, Zenon DEF WriteAt
  <2>3. CASE pc[u].op = "add" /\ pc[u].status_friend = FALSE BY <2>3, Zenon DEF WriteAt
  <2> QED BY <2>1, <2>2, <2>3, Zenon DEF WriteAt
<1>3. /\ Asks(u, f)' <=> a
      /\ Asks(f, u)' <=> b
      /\ Mutual(u, f)' <=> a /\ b
      /\ Mutual(f, u)' <=> a /\ b
      /\ \A x, y \in UserId : x # y /\ <<x, y>> # <<u, f>> /\ <<x, y>> # <<f, u>>
           => (Asks(x, y)' <=> Asks(x, y)) /\ (Mutual(x, y)' <=> Mutual(x, y))
  BY <1>1, <1>2, AskSet
<1> QED BY <1>2, <1>3, Zenon

(* Every step keeps what is known of the consents.                         *)
LEMMA ConsentStep == ASSUME TypeOK, ConsentInv, [Next]_vars PROVE ConsentInv'
<1>1. ASSUME NEW u \in UserId, Rest(u) PROVE ConsentInv'
  <2>1. asked' = asked
    BY <1>1, Zenon
    DEF Rest, login, drop, delete_account, WriteFails, UpdateOwn, UpdateOther, Restart, vars
  <2>2. ASSUME NEW x \in UserId, NEW y \in UserId, x # y, Asks(x, y)' PROVE Asks(x, y)
    <3>1. CASE delete_account(u) BY <2>2, <3>1, AskDelete
    <3>2. CASE friendship' = friendship BY <2>2, <3>2, AskSame
    <3> QED BY <1>1, <3>1, <3>2, Zenon
            DEF Rest, login, drop, WriteFails, UpdateOwn, UpdateOther, Restart, vars
  <2> QED BY <1>1, <2>1, <2>2, BusySteps, Zenon DEF ConsentInv
<1>2. ASSUME NEW u \in UserId, NEW f \in UserId, add_friend(u, f) \/ remove_friend(u, f)
      PROVE  ConsentInv'
  <2>1. PICK op \in {"add", "remove"}, a \in BOOLEAN, b \in BOOLEAN : BeginAt(u, f, op, a, b)
    BY <1>2, Begins, ZenonT(30)
  <2>2. asked' = asked /\ friendship' = friendship BY <2>1 DEF BeginAt
  <2>3. ASSUME NEW x \in UserId, NEW y \in UserId, Busy(x, y)', pc'[x].status_friend = TRUE
        PROVE  <<y, x>> \in asked
    <3>1. CASE x = u
      <4>1. y = f /\ b = TRUE BY <2>1, <2>3, <3>1 DEF BeginAt, Busy, TypeOK
      <4> QED BY <2>1, <3>1, <4>1, Zenon DEF BeginAt, ConsentInv
    <3>2. CASE x # u
      <4>1. pc'[x] = pc[x] BY <2>1, <3>2 DEF BeginAt, TypeOK
      <4> QED BY <2>3, <4>1, ZenonT(30) DEF Busy, ConsentInv
    <3> QED BY <3>1, <3>2
  <2> QED BY <2>2, <2>3, AskSame, Zenon DEF ConsentInv
<1>3. ASSUME NEW u \in UserId, Write(u) PROVE ConsentInv'
  <2>1. PICK f \in accounts : WriteAt(u, f) BY <1>3, Writes
  <2>2. f \in UserId /\ u # f /\ Busy(u, f) BY <2>1 DEF WriteAt, TypeOK
  <2>3. asked' = asked \/ asked' = asked \cup {<<u, f>>} BY <2>1, Zenon DEF WriteAt
  <2>4. ASSUME NEW x \in UserId, NEW y \in UserId, x # y, Asks(x, y)'
        PROVE  <<x, y>> \in asked'
    <3>1. CASE <<x, y>> # <<u, f>> /\ <<x, y>> # <<f, u>>
      <4>1. Asks(x, y) BY <2>1, <2>4, <3>1, AskWrite, Zenon
      <4> QED BY <2>3, <2>4, <4>1, Zenon DEF ConsentInv
    <3>2. CASE <<x, y>> = <<u, f>>
      <4>1. x = u /\ y = f BY <3>2
      <4>2. pc[u].op = "add" BY <2>1, <2>4, <4>1, AskWrite, Zenon
      <4> QED BY <2>1, <3>2, <4>2, ZenonT(30) DEF WriteAt
    <3>3. CASE <<x, y>> = <<f, u>>
      <4>1. pc[u].status_friend = TRUE
        <5>1. x = f /\ y = u BY <3>3
        <5> QED BY <2>1, <2>4, <5>1, AskWrite, Zenon
      <4> QED BY <2>2, <2>3, <3>3, <4>1, Zenon DEF ConsentInv
    <3> QED BY <3>1, <3>2, <3>3
  <2>5. ASSUME NEW x \in UserId, NEW y \in UserId, Busy(x, y)', pc'[x].status_friend = TRUE
        PROVE  <<y, x>> \in asked
    <3>1. Busy(x, y) /\ pc[x].status_friend = TRUE
      <4>1. CASE pc' = [pc EXCEPT ![u] = Idle] BY <2>5, <4>1 DEF Busy, Idle, TypeOK
      <4>2. CASE pc' = [pc EXCEPT ![u] = [pc[u] EXCEPT !.at = "own"]]
        <5>1. pc[u] \in Command BY <2>1 DEF WriteAt
        <5> QED BY <2>2, <2>5, <4>2, <5>1 DEF Busy, TypeOK, Command
      <4> QED BY <2>1, <4>1, <4>2, Zenon DEF WriteAt
    <3> QED BY <3>1, ZenonT(30) DEF ConsentInv
  <2> QED BY <2>3, <2>4, <2>5, Zenon DEF ConsentInv
<1>4. CASE UserId = {} BY <1>4 DEF ConsentInv
<1> QED BY <1>1, <1>2, <1>3, <1>4 DEF Next, Rest

-----------------------------------------------------------------------------
(* The record of an overlap stays while a command about the pair goes on.  *)
LEMMA RacedKept ==
    ASSUME TypeOK, NEW u \in UserId, Rest(u),
           NEW x \in UserId, NEW y \in UserId, Busy(x, y), Busy(x, y)'
    PROVE  /\ <<x, y>> \in raced => <<x, y>> \in raced'
           /\ <<y, x>> \in raced => <<y, x>> \in raced'
<1>1. x \in online /\ x # y BY Shapes DEF Busy, TypeOK
<1>2. CASE login(u) BY <1>1, <1>2 DEF login
<1>3. CASE raced' = raced BY <1>3
<1>4. CASE Restart BY <1>4 DEF Restart, Busy, Idle
<1> QED BY <1>2, <1>3, <1>4, Zenon
        DEF Rest, drop, delete_account, WriteFails, UpdateOwn, UpdateOther, vars

(* Every step keeps what is known of the rows of commands under way.       *)
LEMMA RowStep == ASSUME TypeOK, TypeOK', RowInv, [Next]_vars PROVE RowInv'
<1> DEFINE Row(x, y) ==
      /\ Busy(y, x) => <<x, y>> \in raced /\ <<y, x>> \in raced
      /\ pc[x].at = "write" /\ pc[x].op = "add" => pc[x].status_user = FALSE
      /\ y \in accounts /\ (<<x, y>> \notin raced \/ <<y, x>> \notin raced) =>
           /\ pc[x].at = "write" => (Asks(x, y) <=> pc[x].status_user = TRUE)
           /\ pc[x].at = "write" => (Asks(y, x) <=> pc[x].status_friend = TRUE)
           /\ pc[x].at # "write" => (Mutual(x, y) <=> pc[x].op = "add")
<1> SUFFICES ASSUME NEW x \in UserId, NEW y \in UserId, Busy(x, y)'
             PROVE  Row(x, y)'
  BY ZenonT(30) DEF RowInv
<1>0. x # y BY SMTT(30) DEF TypeOK
<1>1. ASSUME NEW u \in UserId, Rest(u) PROVE Row(x, y)'
  <2>1. Busy(x, y) /\ Row(x, y) BY <1>1, BusySteps DEF RowInv
  <2>2. x \in online BY <2>1, Shapes DEF Busy
  <2>3. Busy(y, x)' => Busy(y, x) BY <1>1, BusySteps
  <2>4. y \in accounts' =>
          /\ y \in accounts
          /\ (Asks(x, y)' <=> Asks(x, y)) /\ (Asks(y, x)' <=> Asks(y, x))
          /\ (Mutual(x, y)' <=> Mutual(x, y))
    <3>1. CASE delete_account(u)
      <4>1. y \in accounts' => u \notin {x, y} /\ y \in accounts BY <2>2, <3>1 DEF delete_account
      <4> QED BY <1>0, <3>1, <4>1, AskDelete
    <3>2. CASE friendship' = friendship /\ accounts' = accounts BY <3>2, AskSame
    <3> QED BY <1>1, <3>1, <3>2, Zenon
            DEF Rest, login, drop, WriteFails, UpdateOwn, UpdateOther, Restart, vars
  <2> QED BY <1>1, <2>1, <2>3, <2>4, BusySteps, RacedKept
<1>2. ASSUME NEW u \in UserId, NEW f \in UserId, add_friend(u, f) \/ remove_friend(u, f)
      PROVE  Row(x, y)'
  <2>1. PICK op \in {"add", "remove"}, a \in BOOLEAN, b \in BOOLEAN :
          BeginAt(u, f, op, a, b) /\ (op = "add" => a = FALSE)
    BY <1>2, Begins, Zenon
  <2>2. friendship' = friendship /\ accounts' = accounts BY <2>1 DEF BeginAt
  <2>3. \A v \in UserId \ {u} : pc'[v] = pc[v] BY <2>1 DEF BeginAt, TypeOK
  <2>4. pc'[u] = [at |-> "write", op |-> op, friend |-> f, status_user |-> a, status_friend |-> b]
    BY <2>1 DEF BeginAt, TypeOK
  <2>5. CASE x = u
    <3>1. y = f BY <2>4, <2>5 DEF Busy
    <3>2. Busy(f, u)' <=> Busy(f, u) BY <1>0, <2>3, <2>5, <3>1 DEF Busy
    <3>3. Busy(f, u) => <<u, f>> \in raced' /\ <<f, u>> \in raced' BY <2>1 DEF BeginAt
    <3>4. (Asks(u, f)' <=> a = TRUE) /\ (Asks(f, u)' <=> b = TRUE)
      BY <2>1, <2>2, AskSame DEF BeginAt
    <3> QED BY <2>1, <2>4, <2>5, <3>1, <3>2, <3>3, <3>4
  <2>6. CASE x # u
    <3>1. pc'[x] = pc[x] /\ Busy(x, y) BY <2>3, <2>6 DEF Busy
    <3>2. Row(x, y) BY <3>1 DEF RowInv
    <3>3. raced \subseteq raced' BY <2>1 DEF BeginAt
    <3>4. Busy(y, x)' => <<x, y>> \in raced' /\ <<y, x>> \in raced'
      <4>1. CASE y = u
        <5>1. Busy(y, x)' => x = f BY <2>4, <4>1 DEF Busy
        <5> QED BY <2>1, <3>1, <4>1, <5>1 DEF BeginAt
      <4>2. CASE y # u
        <5>1. Busy(y, x)' => Busy(y, x) BY <2>3, <4>2 DEF Busy
        <5> QED BY <3>2, <3>3, <5>1
      <4> QED BY <4>1, <4>2
    <3> QED BY <2>2, <3>1, <3>2, <3>3, <3>4, AskSame
  <2> QED BY <2>5, <2>6, ZenonT(30)
<1>3. ASSUME NEW u \in UserId, Write(u) PROVE Row(x, y)'
  <2>1. PICK f \in accounts : WriteAt(u, f) BY <1>3, Writes
  <2>2. f \in UserId /\ u # f /\ Busy(u, f) BY <2>1 DEF WriteAt, TypeOK
  <2>3. raced' = raced /\ accounts' = accounts BY <2>1 DEF WriteAt
  <2>4. \A v \in UserId \ {u} : pc'[v] = pc[v] BY <2>1, Zenon DEF WriteAt, TypeOK
  <2>5. CASE x = u
    <3>1. /\ pc[u].op = "add" => pc[u].status_friend = TRUE
          /\ pc' = [pc EXCEPT ![u] = [pc[u] EXCEPT !.at = "own"]]
      <4>1. pc' # [pc EXCEPT ![u] = Idle] BY <2>5 DEF Busy, Idle, TypeOK
      <4> QED BY <2>1, <4>1, Zenon DEF WriteAt
    <3>2. pc'[u].at = "own" /\ pc'[u].op = pc[u].op /\ pc'[u].friend = f
      <4>1. pc[u] \in Command /\ pc[u].friend = f BY <2>1 DEF WriteAt, Busy
      <4> QED BY <3>1, <4>1 DEF TypeOK, Command
    <3>3. y = f BY <2>5, <3>2 DEF Busy
    <3>4. Busy(f, u)' => Busy(f, u) BY <2>2, <2>4 DEF Busy
    <3>5. Mutual(u, f)' <=> pc[u].op = "add"
      BY <2>1, <3>1, AskWrite, Zenon
    <3>6. Row(u, f) BY <2>2 DEF RowInv
    <3> QED BY <2>3, <2>5, <3>2, <3>3, <3>4, <3>5, <3>6
  <2>6. CASE x # u
    <3>1. pc'[x] = pc[x] /\ Busy(x, y) BY <2>4, <2>6 DEF Busy
    <3>2. Row(x, y) BY <3>1 DEF RowInv
    <3>3. Busy(y, x)' => <<x, y>> \in raced /\ <<y, x>> \in raced
      <4>1. Busy(y, x)' => Busy(y, x)
        <5>1. CASE y # u BY <2>4, <5>1 DEF Busy
        <5>2. CASE y = u
          <6>1. pc[u] \in Command BY <2>1 DEF WriteAt
          <6>2. \/ pc' = [pc EXCEPT ![u] = [pc[u] EXCEPT !.at = "own"]]
                \/ pc' = [pc EXCEPT ![u] = Idle]
            BY <2>1, Zenon DEF WriteAt
          <6> QED BY <2>2, <5>2, <6>1, <6>2 DEF Busy, Idle, Command, TypeOK
        <5> QED BY <5>1, <5>2
      <4> QED BY <3>2, <4>1
    <3>4. CASE x = f /\ y = u
      <4>1. <<x, y>> \in raced /\ <<y, x>> \in raced BY <2>2, <3>2, <3>4
      <4> QED BY <2>3, <3>1, <3>2, <4>1
    <3>5. CASE ~(x = f /\ y = u)
      <4>1. /\ (Asks(x, y)' <=> Asks(x, y)) /\ (Asks(y, x)' <=> Asks(y, x))
            /\ Mutual(x, y)' <=> Mutual(x, y)
        <5>1. /\ <<x, y>> # <<u, f>> /\ <<x, y>> # <<f, u>>
              /\ <<y, x>> # <<u, f>> /\ <<y, x>> # <<f, u>>
          BY <2>6, <3>5
        <5> QED BY <1>0, <2>1, <5>1, AskWrite, Zenon
      <4> QED BY <2>3, <3>1, <3>2, <3>3, <4>1
    <3> QED BY <3>4, <3>5, Zenon
  <2> QED BY <2>5, <2>6, ZenonT(30)
<1> QED BY <1>1, <1>2, <1>3, ZenonT(30) DEF Next, Rest

(* Every step keeps what is known of the lists.                            *)
LEMMA ListStep == ASSUME TypeOK, TypeOK', RowInv, ListInv, [Next]_vars PROVE ListInv'
<1> DEFINE Listed(v, g) == g \in friends[v] /\ g \in accounts
<1> SUFFICES ASSUME NEW v \in UserId, v \in online', NEW g \in UserId, g # v,
                    <<v, g>> \notin raced', Settled(v, g)'
             PROVE  (Listed(v, g) <=> Mutual(v, g))'
  BY DEF ListInv, TypeOK
<1>0. v \in online /\ <<v, g>> \notin raced /\ Settled(v, g) => (Listed(v, g) <=> Mutual(v, g))
  BY DEF ListInv
<1>1. ASSUME NEW u \in UserId, login(u) PROVE (Listed(v, g) <=> Mutual(v, g))'
  <2>1. Settled(v, g) <=> Settled(v, g)' BY <1>1 DEF login, Settled, Busy
  <2>2. Mutual(v, g)' <=> Mutual(v, g) BY <1>1, AskSame DEF login
  <2>3. CASE v = u
    <3>1. friends'[u] = get_relationships(u) /\ accounts' = accounts BY <1>1 DEF login, TypeOK
    <3>2. Mutual(v, g) => g \in accounts BY MutualBoth
    <3> QED BY <2>2, <2>3, <3>1, <3>2 DEF get_relationships
  <2>4. CASE v # u
    <3>1. friends'[v] = friends[v] /\ v \in online /\ <<v, g>> \notin raced /\ accounts' = accounts
      BY <1>1, <2>4 DEF login, TypeOK, Pair
    <3> QED BY <1>0, <2>1, <2>2, <3>1
  <2> QED BY <2>3, <2>4
<1>2. ASSUME NEW u \in UserId, drop(u) PROVE (Listed(v, g) <=> Mutual(v, g))'
  <2>1. Settled(v, g)' => Settled(v, g) BY <1>2 DEF drop, Settled, Busy, Idle, Closing, TypeOK
  <2>2. Mutual(v, g)' <=> Mutual(v, g) BY <1>2, AskSame DEF drop
  <2>3. friends'[v] = friends[v] /\ v \in online /\ raced' = raced /\ accounts' = accounts
    BY <1>2 DEF drop, TypeOK
  <2> QED BY <1>0, <2>1, <2>2, <2>3
<1>3. ASSUME NEW u \in UserId, delete_account(u) PROVE (Listed(v, g) <=> Mutual(v, g))'
  <2>1. Settled(v, g)' => Settled(v, g) BY <1>3 DEF delete_account, Settled, Busy
  <2>2. /\ friends' = friends /\ v \in online /\ raced' = raced /\ u # v
        /\ accounts' = accounts \ {u}
    BY <1>3 DEF delete_account
  <2>3. CASE g = u
    <3>1. ~Mutual(v, g)' BY <1>3, <2>3, AskDelete
    <3> QED BY <2>2, <2>3, <3>1
  <2>4. CASE g # u
    <3>1. Mutual(v, g)' <=> Mutual(v, g) BY <1>3, <2>2, <2>4, AskDelete
    <3> QED BY <1>0, <2>1, <2>2, <2>4, <3>1
  <2> QED BY <2>3, <2>4
<1>4. ASSUME NEW u \in UserId, NEW f \in UserId, add_friend(u, f) \/ remove_friend(u, f)
      PROVE  (Listed(v, g) <=> Mutual(v, g))'
  <2>1. PICK op \in {"add", "remove"}, a \in BOOLEAN, b \in BOOLEAN : BeginAt(u, f, op, a, b)
    BY <1>4, Begins, ZenonT(30)
  <2>2. /\ friendship' = friendship /\ accounts' = accounts /\ friends' = friends
        /\ online' = online /\ raced \subseteq raced'
    BY <2>1 DEF BeginAt
  <2>3. Settled(v, g)' => Settled(v, g)
    <3>1. pc[u].at = "idle" BY <2>1 DEF BeginAt, Idle
    <3>2. \A w \in UserId \ {u} : pc'[w] = pc[w] BY <2>1 DEF BeginAt, TypeOK
    <3> QED BY <3>1, <3>2, SMTT(30) DEF Settled, Busy
  <2> QED BY <1>0, <2>2, <2>3, AskSame
<1>5. ASSUME NEW u \in UserId, Write(u) PROVE (Listed(v, g) <=> Mutual(v, g))'
  <2>1. PICK f \in accounts : WriteAt(u, f) BY <1>5, Writes
  <2>2. f \in UserId /\ u # f /\ Busy(u, f) /\ pc[u].at = "write" BY <2>1 DEF WriteAt, TypeOK
  <2>3. raced' = raced /\ accounts' = accounts /\ online' = online /\ friends' = friends
    BY <2>1 DEF WriteAt
  <2>4. \A w \in UserId \ {u} : pc'[w] = pc[w] BY <2>1, ZenonT(30) DEF WriteAt, TypeOK
  <2>5. Settled(v, g) \/ (Busy(u, f) /\ Busy(f, u) /\ {u, f} = {v, g})
    BY <2>2, <2>4 DEF Settled, Busy
  <2>6. ~(Busy(u, f) /\ Busy(f, u) /\ {u, f} = {v, g}) BY <2>2, <2>3, ZenonT(30) DEF RowInv
  <2>7. Listed(v, g)' <=> Mutual(v, g) BY <1>0, <2>3, <2>5, <2>6
  <2>8. CASE {u, f} = {v, g}
    <3>1. pc' = [pc EXCEPT ![u] = Idle]
      <4>1. ASSUME pc' = [pc EXCEPT ![u] = [pc[u] EXCEPT !.at = "own"]] PROVE FALSE
        <5>1. pc[u] \in Command /\ pc[u].friend = f BY <2>1 DEF WriteAt, Busy
        <5>2. pc'[u].at = "own" /\ pc'[u].friend = f BY <4>1, <5>1 DEF TypeOK, Command
        <5> QED BY <2>8, <5>2 DEF Settled, Busy
      <4> QED BY <2>1, <4>1, Zenon DEF WriteAt
    <3>2. pc[u].op = "add" /\ pc[u].status_friend = FALSE
      <4>1. [pc EXCEPT ![u] = Idle] # [pc EXCEPT ![u] = [pc[u] EXCEPT !.at = "own"]]
        <5>1. pc[u] \in Command BY <2>1 DEF WriteAt
        <5> QED BY <5>1 DEF Idle, TypeOK, Command
      <4> QED BY <2>1, <3>1, <4>1, Zenon DEF WriteAt
    <3>3. ~Asks(f, u)
      <4>1. <<u, f>> \notin raced \/ <<f, u>> \notin raced BY <2>2, <2>3, <2>8
      <4>2. Asks(f, u) <=> pc[u].status_friend = TRUE BY <2>2, <4>1 DEF RowInv
      <4>3. pc[u].status_friend # TRUE BY <3>2, ZenonT(30)
      <4> QED BY <4>2, <4>3, Zenon
    <3>4. ~Mutual(u, f) /\ ~Mutual(f, u) BY <2>2, <3>3, MutualAsks, Zenon
    <3>5. ~Mutual(u, f)' /\ ~Mutual(f, u)' BY <2>1, <3>2, AskWrite, Zenon
    <3> QED BY <2>7, <2>8, <3>4, <3>5
  <2>9. CASE {u, f} # {v, g}
    <3>1. <<v, g>> # <<u, f>> /\ <<v, g>> # <<f, u>> BY <2>9
    <3>2. Mutual(v, g)' <=> Mutual(v, g) BY <2>1, <3>1, AskWrite, Zenon
    <3> QED BY <2>7, <3>2
  <2> QED BY <2>8, <2>9
<1>6. ASSUME NEW u \in UserId, WriteFails(u) PROVE (Listed(v, g) <=> Mutual(v, g))'
  <2>1. Settled(v, g)' => Settled(v, g) BY <1>6 DEF WriteFails, Settled, Busy, TypeOK
  <2>2. Mutual(v, g)' <=> Mutual(v, g) BY <1>6, AskSame DEF WriteFails
  <2> QED BY <1>0, <1>6, <2>1, <2>2 DEF WriteFails
<1>7. ASSUME NEW u \in UserId, UpdateOwn(u) PROVE (Listed(v, g) <=> Mutual(v, g))'
  <2>1. pc[u] \in Command BY <1>7, Shapes DEF UpdateOwn
  <2>2. PICK f \in UserId : pc[u].friend = f BY <2>1 DEF Command
  <2>3. Busy(u, f) /\ u # f /\ pc[u].at = "own" BY <1>7, <2>2 DEF UpdateOwn, Busy, TypeOK
  <2>4. /\ pc'[u].at = "other" /\ pc'[u].friend = f
        /\ \A w \in UserId \ {u} : pc'[w] = pc[w]
    BY <1>7, <2>1, <2>2 DEF UpdateOwn, TypeOK, Command
  <2>5. /\ raced' = raced /\ accounts' = accounts /\ online' = online
        /\ Mutual(v, g)' <=> Mutual(v, g)
    BY <1>7, AskSame DEF UpdateOwn
  <2>6. CASE v = u /\ g = f
    <3>1. g \in friends'[v] <=> pc[u].op = "add"
      BY <1>7, <2>1, <2>2, <2>6 DEF UpdateOwn, Updated, TypeOK, Command
    <3>2. g \in accounts => (Mutual(v, g) <=> pc[u].op = "add")
      BY <2>3, <2>5, <2>6, Zenon DEF RowInv
    <3>3. Mutual(v, g) => g \in accounts BY MutualBoth
    <3> QED BY <2>5, <3>1, <3>2, <3>3
  <2>7. CASE ~(v = u /\ g = f)
    <3>1. ~(v = f /\ g = u) BY <2>4 DEF Settled, Busy
    <3>2. Settled(v, g) BY <2>2, <2>4, <2>7, <3>1 DEF Settled, Busy
    <3>3. g \in friends'[v] <=> g \in friends[v]
      BY <1>7, <2>2, <2>7 DEF UpdateOwn, Updated, TypeOK
    <3> QED BY <1>0, <2>5, <3>2, <3>3
  <2> QED BY <2>6, <2>7
<1>8. ASSUME NEW u \in UserId, UpdateOther(u) PROVE (Listed(v, g) <=> Mutual(v, g))'
  <2>1. pc[u] \in Command /\ u \in accounts BY <1>8, Shapes DEF UpdateOther
  <2>2. PICK f \in UserId : pc[u].friend = f BY <2>1 DEF Command
  <2>3. Busy(u, f) /\ u # f /\ pc[u].at = "other" BY <1>8, <2>2 DEF UpdateOther, Busy, TypeOK
  <2>4. pc'[u].at = "idle" /\ \A w \in UserId \ {u} : pc'[w] = pc[w]
    BY <1>8 DEF UpdateOther, TypeOK, Idle
  <2>5. /\ raced' = raced /\ accounts' = accounts /\ online' = online
        /\ Mutual(v, g)' <=> Mutual(v, g)
    BY <1>8, AskSame DEF UpdateOther
  <2>6. CASE v = f /\ g = u
    <3>1. g \in friends'[v] <=> pc[u].op = "add"
      BY <1>8, <2>1, <2>2, <2>5, <2>6 DEF UpdateOther, Updated, TypeOK, Command
    <3>2. Mutual(g, v) <=> pc[u].op = "add"
      BY <2>3, <2>5, <2>6, Zenon DEF RowInv, TypeOK
    <3>3. Mutual(g, v) <=> Mutual(v, g) BY MutualBoth
    <3> QED BY <2>1, <2>5, <2>6, <3>1, <3>2, <3>3
  <2>7. CASE ~(v = f /\ g = u)
    <3>1. Settled(v, g) BY <2>2, <2>3, <2>4, <2>7 DEF Settled, Busy
    <3>2. g \in friends'[v] <=> g \in friends[v]
      BY <1>8, <2>2, <2>7 DEF UpdateOther, Updated, TypeOK
    <3> QED BY <1>0, <2>5, <3>1, <3>2
  <2> QED BY <2>6, <2>7
<1>9. ~Restart BY DEF Restart
<1>10. CASE UNCHANGED vars
  <2>1. Settled(v, g)' => Settled(v, g) BY <1>10 DEF vars, Settled, Busy
  <2>2. Mutual(v, g)' <=> Mutual(v, g) BY <1>10, AskSame DEF vars
  <2> QED BY <1>0, <1>10, <2>1, <2>2 DEF vars
<1> QED BY <1>1, <1>2, <1>3, <1>4, <1>5, <1>6, <1>7, <1>8, <1>9, <1>10 DEF Next

-----------------------------------------------------------------------------
(* The inductive invariant: consents, rows under way and lists, through    *)
(* every interleaving of commands, logins, deletions and restarts.         *)
THEOREM FriendsInvariance == Spec => []IInv
<1>1. Init => IInv
  <2> SUFFICES ASSUME Init PROVE IInv OBVIOUS
  <2>1. TypeOK BY DEF Init, TypeOK, Busy, Idle
  <2>2. \A x, y \in UserId : ~Busy(x, y) BY DEF Init, Busy, Idle
  <2>3. \A x, y \in UserId : ~Asks(x, y) BY DEF Init, Asks, get_rel_status
  <2> QED BY <2>1, <2>2, <2>3 DEF Init, IInv, ConsentInv, RowInv, ListInv
<1>2. IInv /\ [Next]_vars => IInv'
  BY TypeStep, ConsentStep, RowStep, ListStep DEF IInv
<1> QED BY <1>1, <1>2, PTL DEF Spec

(* The list of a user who is online is that of the table, for every friend *)
(* with whom no command is in progress and none has overlapped another     *)
(* (the updates of cmd_friend.rs against get_relationships at login).      *)
THEOREM FriendListsCurrent == Spec => []ListsCurrent
<1>1. IInv => ListsCurrent
  BY DEF IInv, ListInv, ListsCurrent, Settled, Invitable, TypeOK
<1> QED BY <1>1, FriendsInvariance, PTL

(* Nobody is made a friend who never asked or accepted, also where the     *)
(* row that a command writes back is out of date (set_rel_status).         *)
THEOREM FriendsConsented == Spec => []ConsentGiven
<1>1. IInv => ConsentGiven BY ZenonT(30) DEF IInv, ConsentInv, ConsentGiven
<1> QED BY <1>1, FriendsInvariance, PTL
=============================================================================
