---------------------------- MODULE ScoresProofs ----------------------------
(***************************************************************************)
(* The properties of Scores for any number of users, scores and ranks.     *)
(***************************************************************************)
EXTENDS Scores, FiniteSetTheorems, TLAPS

-----------------------------------------------------------------------------
(* Sequences.                                                              *)

(* The elements of a sequence.                                             *)
LEMMA LenProperties ==
    ASSUME NEW S, NEW s \in Seq(S)
    PROVE  Len(s) \in Nat /\ DOMAIN s = 1..Len(s) /\ \A i \in 1..Len(s) : s[i] \in S
OBVIOUS

(* A sequence with one element replaced.                                   *)
LEMMA ExceptSeq ==
    ASSUME NEW S, NEW s \in Seq(S), NEW i \in 1..Len(s), NEW e \in S
    PROVE  /\ [s EXCEPT ![i] = e] \in Seq(S) /\ Len([s EXCEPT ![i] = e]) = Len(s)
           /\ \A j \in 1..Len(s) : [s EXCEPT ![i] = e][j] = IF j = i THEN e ELSE s[j]
OBVIOUS

(* What SubSeq returns.                                                    *)
LEMMA SubSeqProperties ==
    ASSUME NEW S, NEW s, NEW m \in Int, NEW n \in Int, \A i \in m..n : s[i] \in S
    PROVE  /\ SubSeq(s, m, n) \in Seq(S)
           /\ Len(SubSeq(s, m, n)) = IF m <= n THEN n - m + 1 ELSE 0
           /\ \A i \in 1..(n - m + 1) : SubSeq(s, m, n)[i] = s[m + i - 1]
OBVIOUS

(* What concatenation returns.                                             *)
LEMMA ConcatProperties ==
    ASSUME NEW S, NEW s \in Seq(S), NEW t \in Seq(S)
    PROVE  /\ s \o t \in Seq(S) /\ Len(s \o t) = Len(s) + Len(t)
           /\ \A i \in 1..(Len(s) + Len(t)) :
                (s \o t)[i] = IF i <= Len(s) THEN s[i] ELSE t[i - Len(s)]
OBVIOUS

(* s without its i-th element, and with e put before it.                   *)
Cut(s, i) == SubSeq(s, 1, i - 1) \o SubSeq(s, i + 1, Len(s))

Put(s, i, e) == SubSeq(s, 1, i - 1) \o <<e>> \o SubSeq(s, i, Len(s))

(* What taking an element out of a sequence makes of it ...                *)
LEMMA CutElements ==
    ASSUME NEW S, NEW s \in Seq(S), NEW i \in 1..Len(s)
    PROVE  /\ Cut(s, i) \in Seq(S)
           /\ Len(Cut(s, i)) = Len(s) - 1
           /\ \A j \in 1..(Len(s) - 1) : Cut(s, i)[j] = s[IF j < i THEN j ELSE j + 1]
<1> DEFINE a == SubSeq(s, 1, i - 1)
           b == SubSeq(s, i + 1, Len(s))
<1>1. Len(s) \in Nat /\ \A j \in 1..Len(s) : s[j] \in S
  BY LenProperties
<1>2. /\ a \in Seq(S) /\ Len(a) = i - 1
      /\ \A j \in 1..(i - 1) : a[j] = s[j]
  <2>1. \A j \in 1..(i - 1) : s[j] \in S BY <1>1
  <2> QED BY <1>1, <2>1, SubSeqProperties
<1>3. /\ b \in Seq(S) /\ Len(b) = Len(s) - i
      /\ \A j \in 1..(Len(s) - i) : b[j] = s[i + j]
  <2>1. \A j \in (i + 1)..Len(s) : s[j] \in S BY <1>1
  <2> QED BY <1>1, <2>1, SubSeqProperties
<1> HIDE DEF a, b
<1>4. /\ a \o b \in Seq(S) /\ Len(a \o b) = Len(a) + Len(b)
      /\ \A j \in 1..Len(a) + Len(b) :
           (a \o b)[j] = IF j <= Len(a) THEN a[j] ELSE b[j - Len(a)]
  BY <1>2, <1>3, ConcatProperties, Zenon
<1>5. ASSUME NEW j \in 1..(Len(s) - 1)
      PROVE  (a \o b)[j] = s[IF j < i THEN j ELSE j + 1]
  <2>1. (a \o b)[j] = IF j <= i - 1 THEN a[j] ELSE b[j - (i - 1)]
    BY <1>1, <1>2, <1>3, <1>4
  <2> QED BY <1>1, <1>2, <1>3, <2>1
<1>6. Len(a \o b) = Len(s) - 1 BY <1>1, <1>2, <1>3, <1>4
<1> QED BY <1>4, <1>5, <1>6, Zenon DEF Cut, a, b

(* ... and putting one in.                                                 *)
LEMMA PutElements ==
    ASSUME NEW S, NEW s \in Seq(S), NEW e \in S, NEW i \in 1..(Len(s) + 1)
    PROVE  /\ Put(s, i, e) \in Seq(S)
           /\ Len(Put(s, i, e)) = Len(s) + 1
           /\ \A j \in 1..(Len(s) + 1) :
                Put(s, i, e)[j] = IF j = i THEN e ELSE s[IF j < i THEN j ELSE j - 1]
<1> DEFINE a == SubSeq(s, 1, i - 1)
           b == SubSeq(s, i, Len(s))
           c == a \o <<e>>
<1>1. Len(s) \in Nat /\ \A j \in 1..Len(s) : s[j] \in S
  BY LenProperties
<1>2. /\ a \in Seq(S) /\ Len(a) = i - 1
      /\ \A j \in 1..(i - 1) : a[j] = s[j]
  <2>1. \A j \in 1..(i - 1) : s[j] \in S BY <1>1
  <2> QED BY <1>1, <2>1, SubSeqProperties
<1>3. /\ b \in Seq(S) /\ Len(b) = Len(s) - i + 1
      /\ \A j \in 1..(Len(s) - i + 1) : b[j] = s[i + j - 1]
  <2>1. \A j \in i..Len(s) : s[j] \in S BY <1>1
  <2> QED BY <1>1, <2>1, SubSeqProperties
<1> HIDE DEF a, b
<1>4. <<e>> \in Seq(S) /\ Len(<<e>>) = 1 /\ <<e>>[1] = e OBVIOUS
<1>5. /\ c \in Seq(S) /\ Len(c) = Len(a) + Len(<<e>>)
      /\ \A j \in 1..Len(a) + Len(<<e>>) :
           c[j] = IF j <= Len(a) THEN a[j] ELSE <<e>>[j - Len(a)]
  BY <1>2, <1>4, ConcatProperties, Zenon
<1>6. Len(c) = i /\ \A j \in 1..i : c[j] = IF j = i THEN e ELSE s[j]
  <2>1. Len(c) = i BY <1>1, <1>2, <1>4, <1>5
  <2>2. ASSUME NEW j \in 1..i PROVE c[j] = IF j = i THEN e ELSE s[j]
    <3>1. c[j] = IF j <= i - 1 THEN a[j] ELSE <<e>>[j - (i - 1)]
      BY <1>1, <1>2, <1>4, <1>5
    <3>2. CASE j = i
      <4>1. ~(j <= i - 1) /\ j - (i - 1) = 1 BY <3>2, <1>1
      <4>2. c[j] = <<e>>[1] BY <3>1, <4>1, Zenon
      <4> QED BY <4>2, <1>4, <3>2, Zenon
    <3>3. CASE j # i BY <3>1, <3>3, <1>2
    <3> QED BY <3>2, <3>3, Zenon
  <2> QED BY <2>1, <2>2
<1> HIDE DEF c
<1>7a. c \in Seq(S) /\ b \in Seq(S) BY <1>3, <1>5
<1>7. /\ c \o b \in Seq(S) /\ Len(c \o b) = Len(c) + Len(b)
      /\ \A j \in 1..Len(c) + Len(b) :
           (c \o b)[j] = IF j <= Len(c) THEN c[j] ELSE b[j - Len(c)]
  BY <1>7a, ConcatProperties, Zenon
<1>8. ASSUME NEW j \in 1..(Len(s) + 1)
      PROVE  (c \o b)[j] = IF j = i THEN e ELSE s[IF j < i THEN j ELSE j - 1]
  <2>1. (c \o b)[j] = IF j <= i THEN c[j] ELSE b[j - i]
    BY <1>1, <1>3, <1>6, <1>7
  <2> QED BY <1>1, <1>3, <1>6, <2>1
<1>9. Len(c \o b) = Len(s) + 1 BY <1>1, <1>3, <1>6, <1>7
<1> QED BY <1>7, <1>8, <1>9, Zenon DEF Put, a, b, c

(* The first n elements of a sequence.                                     *)
LEMMA PrefixElements ==
    ASSUME NEW S, NEW s \in Seq(S), NEW n \in 0..Len(s)
    PROVE  /\ SubSeq(s, 1, n) \in Seq(S)
           /\ Len(SubSeq(s, 1, n)) = n
           /\ \A j \in 1..n : SubSeq(s, 1, n)[j] = s[j]
<1>1. Len(s) \in Nat /\ \A j \in 1..Len(s) : s[j] \in S
  BY LenProperties
<1>2. \A j \in 1..n : s[j] \in S BY <1>1
<1> QED BY <1>1, <1>2, SubSeqProperties

-----------------------------------------------------------------------------
(* A ranking and its index, apart from the variables that hold them.       *)

Distinct(s) == \A i, j \in 1..Len(s) : Key(s[i]) = Key(s[j]) => i = j

(* r may stand before s.                                                   *)
NotWorse(r, s) == Beats(r.score, s.score) \/ (r.score = s.score /\ r.time <= s.time)

Ordered(s) == \A i, j \in 1..Len(s) : i < j => NotWorse(s[i], s[j])

IndexOf(f, s) ==
    /\ DOMAIN f = {Key(s[i]) : i \in 1..Len(s)}
    /\ \A k \in DOMAIN f : f[k] \in 1..Len(s) /\ Key(s[f[k]]) = k

(* The ranking without the row of key k.                                   *)
LEMMA RestOf ==
    ASSUME NEW s \in Seq(Row), Distinct(s), NEW f, IndexOf(f, s), NEW k,
           NEW old, old = IF k \in DOMAIN f THEN f[k] ELSE 0,
           NEW rest, rest = IF old = 0 THEN s ELSE Cut(s, old)
    PROVE  /\ rest \in Seq(Row) /\ old \in 0..Len(s) /\ (old = 0 <=> k \notin DOMAIN f)
           /\ Len(rest) = IF old = 0 THEN Len(s) ELSE Len(s) - 1
           /\ \A j \in 1..Len(rest) :
                /\ rest[j] = s[IF old = 0 \/ j < old THEN j ELSE j + 1]
                /\ Key(rest[j]) # k
<1>1. Len(s) \in Nat BY LenProperties
<1>2. CASE k \notin DOMAIN f
  <2>1. old = 0 /\ rest = s BY <1>2
  <2>2. \A j \in 1..Len(s) : Key(s[j]) # k BY <1>2 DEF IndexOf
  <2> QED BY <1>1, <1>2, <2>1, <2>2
<1>3. CASE k \in DOMAIN f
  <2>1. old = f[k] /\ old \in 1..Len(s) /\ Key(s[old]) = k BY <1>3 DEF IndexOf
  <2>2. rest = Cut(s, old) BY <1>1, <2>1
  <2>3. /\ rest \in Seq(Row) /\ Len(rest) = Len(s) - 1
        /\ \A j \in 1..(Len(s) - 1) : rest[j] = s[IF j < old THEN j ELSE j + 1]
    BY <2>1, <2>2, CutElements, ZenonT(30)
  <2>4. ASSUME NEW j \in 1..(Len(s) - 1)
        PROVE  rest[j] = s[IF old = 0 \/ j < old THEN j ELSE j + 1] /\ Key(rest[j]) # k
    <3> DEFINE i == IF j < old THEN j ELSE j + 1
    <3>1. i \in 1..Len(s) /\ i # old BY <1>1, <2>1
    <3>2. Key(s[i]) # k BY <2>1, <3>1 DEF Distinct
    <3>3. old # 0 BY <2>1
    <3> QED BY <2>3, <3>2, <3>3
  <2>5. old # 0 BY <1>1, <2>1
  <2> HIDE <1>1
  <2> QED BY <1>1, <1>3, <2>1, <2>3, <2>4, <2>5
<1> QED BY <1>2, <1>3

(* Taking a row out leaves the others in their order.                      *)
LEMMA RestOrdered ==
    ASSUME NEW s \in Seq(Row), Distinct(s), Ordered(s), NEW old \in 0..Len(s),
           NEW rest \in Seq(Row), Len(rest) = IF old = 0 THEN Len(s) ELSE Len(s) - 1,
           \A j \in 1..Len(rest) : rest[j] = s[IF old = 0 \/ j < old THEN j ELSE j + 1]
    PROVE  Distinct(rest) /\ Ordered(rest)
<1> DEFINE at(j) == IF old = 0 \/ j < old THEN j ELSE j + 1
<1>1. Len(s) \in Nat BY LenProperties
<1>2. \A j \in 1..Len(rest) : at(j) \in 1..Len(s) BY <1>1
<1>3. \A i, j \in 1..Len(rest) : (i < j => at(i) < at(j)) /\ (at(i) = at(j) => i = j)
  BY <1>1
<1>4. \A j \in 1..Len(rest) : rest[j] = s[at(j)] OBVIOUS
<1> HIDE DEF at
<1>5. Distinct(rest) BY <1>2, <1>3, <1>4, Zenon DEF Distinct
<1>6. Ordered(rest) BY <1>2, <1>3, <1>4, ZenonT(30) DEF Ordered
<1> QED BY <1>5, <1>6

(* The fields of a row.                                                    *)
LEMMA RowFields ==
    ASSUME NEW r \in Row
    PROVE  /\ r.user \in UserId /\ r.char \in CharId /\ r.score \in Score /\ r.score \in Int
           /\ r.time \in 0..MaxTime /\ r.time \in Int
           /\ r.data \in {NoData} \cup 0..MaxDataId /\ r.data \in Int
           /\ Key(r) = <<r.user, r.char>> /\ Key(r) \in UserId \X CharId
<1>1. r.user \in UserId /\ r.char \in CharId /\ r.score \in Score BY DEF Row
<1>2. r.time \in 0..MaxTime /\ r.data \in {NoData} \cup 0..MaxDataId BY DEF Row
<1>3. r.score \in Int BY <1>1, ScoresAssumption, Zenon
<1>4. r.time \in Int /\ r.data \in Int BY <1>2, ScoresAssumption DEF NoData
<1>5. Key(r) = <<r.user, r.char>> /\ Key(r) \in UserId \X CharId BY <1>1 DEF Key
<1> QED BY <1>1, <1>2, <1>3, <1>4, <1>5

(* What does not beat a score does not beat one that beats it.             *)
LEMMA BeatsChain ==
    ASSUME NEW a \in Int, NEW b \in Int, NEW c \in Int, ~Beats(a, c), Beats(b, c) \/ b = c
    PROVE  ~Beats(a, b)
BY DEF Beats

(* NotWorse is a preorder that Before implies.                             *)
LEMMA NotWorseOrder ==
    ASSUME NEW a \in Row, NEW b \in Row
    PROVE  /\ Before(a, b) => NotWorse(a, b)
           /\ \A c \in Row : NotWorse(a, b) /\ NotWorse(b, c) => NotWorse(a, c)
           /\ NotWorse(a, b) => ~Beats(b.score, a.score)
<1>1. /\ a.score \in Int /\ b.score \in Int /\ a.time \in Int /\ b.time \in Int
      /\ \A c \in Row : c.score \in Int /\ c.time \in Int
  BY RowFields
<1> QED BY <1>1 DEF NotWorse, Before, Beats

(* all is rest with row put at pos.                                        *)
Placed(rest, row, pos, all) ==
    /\ all \in Seq(Row) /\ Len(all) = Len(rest) + 1 /\ pos \in 1..(Len(rest) + 1)
    /\ \A j \in 1..(Len(rest) + 1) :
         all[j] = IF j = pos THEN row ELSE rest[IF j < pos THEN j ELSE j - 1]

(* insert_score places the row where it looked.                            *)
LEMMA PutPlaced ==
    ASSUME NEW rest \in Seq(Row), NEW row \in Row, NEW pos \in Positions(row, rest)
    PROVE  Placed(rest, row, pos, Put(rest, pos, row))
<1>1. pos \in 1..(Len(rest) + 1) BY DEF Positions
<1>2. Put(rest, pos, row) \in Seq(Row) BY <1>1, PutElements
<1>3. Len(Put(rest, pos, row)) = Len(rest) + 1 BY <1>1, PutElements
<1>4. ASSUME NEW j \in 1..(Len(rest) + 1)
      PROVE  Put(rest, pos, row)[j] = IF j = pos THEN row ELSE rest[IF j < pos THEN j ELSE j - 1]
  BY <1>1, PutElements
<1> QED BY <1>1, <1>2, <1>3, <1>4 DEF Placed

(* A row that is put where binary_search_by ends keeps the order.          *)
LEMMA InsertOrdered ==
    ASSUME NEW rest \in Seq(Row), Distinct(rest), Ordered(rest), NEW row \in Row,
           \A j \in 1..Len(rest) : Key(rest[j]) # Key(row),
           NEW pos \in Positions(row, rest),
           NEW all, all = Put(rest, pos, row)
    PROVE  /\ all \in Seq(Row) /\ Len(all) = Len(rest) + 1
           /\ \A j \in 1..Len(all) :
                all[j] = IF j = pos THEN row ELSE rest[IF j < pos THEN j ELSE j - 1]
           /\ pos \in 1..Len(all)
           /\ Distinct(all) /\ Ordered(all)
<1> DEFINE n == Len(rest)
           at(j) == IF j < pos THEN j ELSE j - 1
<1>1. n \in Nat /\ \A j \in 1..n : rest[j] \in Row BY LenProperties
<1>2. /\ pos \in 1..(n + 1)
      /\ pos > 1 => Before(rest[pos - 1], row)
      /\ pos <= n => Before(row, rest[pos])
  BY DEF Positions
<1>3. /\ all \in Seq(Row) /\ Len(all) = n + 1
      /\ \A j \in 1..(n + 1) : all[j] = IF j = pos THEN row ELSE rest[at(j)]
  <2>1. Placed(rest, row, pos, all) BY PutPlaced, Zenon
  <2> QED BY <2>1 DEF Placed
<1>4. \A j \in 1..(n + 1) : j # pos => at(j) \in 1..n BY <1>1, <1>2
<1>5. \A i, j \in 1..(n + 1) : i # pos /\ j # pos =>
         (i < j => at(i) < at(j)) /\ (at(i) = at(j) => i = j)
  BY <1>1, <1>2
<1>6. ASSUME NEW i \in 1..n, i < pos PROVE NotWorse(rest[i], row)
  <2>1. pos > 1 /\ pos - 1 \in 1..n /\ i <= pos - 1 BY <1>1, <1>2, <1>6
  <2>2. NotWorse(rest[pos - 1], row) BY <1>1, <1>2, <2>1, NotWorseOrder
  <2>3. i = pos - 1 \/ NotWorse(rest[i], rest[pos - 1]) BY <1>1, <1>2, <2>1 DEF Ordered
  <2> QED BY <1>1, <2>1, <2>2, <2>3, NotWorseOrder
<1>7. ASSUME NEW i \in 1..n, i >= pos PROVE NotWorse(row, rest[i])
  <2>1. pos <= n /\ pos \in 1..n BY <1>1, <1>2, <1>7
  <2>2. NotWorse(row, rest[pos]) BY <1>1, <1>2, <2>1, NotWorseOrder
  <2>3. i = pos \/ NotWorse(rest[pos], rest[i]) BY <1>1, <1>2, <1>7, <2>1 DEF Ordered
  <2> QED BY <1>1, <2>1, <2>2, <2>3, NotWorseOrder
<1>8. Distinct(all)
  <2> SUFFICES ASSUME NEW i \in 1..(n + 1), NEW j \in 1..(n + 1), Key(all[i]) = Key(all[j])
               PROVE  i = j
    BY <1>3 DEF Distinct
  <2>1. CASE i # pos /\ j # pos
    <3>1. at(i) = at(j) BY <1>3, <1>4, <2>1, ZenonT(30) DEF Distinct
    <3> QED BY <1>5, <2>1, <3>1
  <2>2. CASE i = pos \/ j = pos BY <1>3, <1>4, <2>2, Zenon
  <2> QED BY <2>1, <2>2
<1>9. Ordered(all)
  <2> SUFFICES ASSUME NEW i \in 1..(n + 1), NEW j \in 1..(n + 1), i < j
               PROVE  NotWorse(all[i], all[j])
    BY <1>3 DEF Ordered
  <2>1. CASE i # pos /\ j # pos BY <1>3, <1>4, <1>5, <2>1, Zenon DEF Ordered
  <2>2. CASE i = pos
    <3>1. j # pos /\ at(j) \in 1..n /\ at(j) >= pos BY <1>1, <1>2, <2>2
    <3> QED BY <1>3, <1>7, <2>2, <3>1
  <2>3. CASE j = pos
    <3>1. i # pos /\ at(i) \in 1..n /\ at(i) < pos BY <1>1, <1>2, <2>3
    <3> QED BY <1>3, <1>6, <2>3, <3>1
  <2> QED BY <2>1, <2>2, <2>3
<1> QED BY <1>1, <1>2, <1>3, <1>8, <1>9

(* Where the row of the same key is, or 0.                                 *)
OldPos(f, row) == IF Key(row) \in DOMAIN f THEN f[Key(row)] ELSE 0

(* The index after row was put at position pos, which makes the ranking    *)
(* all, where it was at position old before.                               *)
NewIndex(f, row, old, pos, all) ==
    LET moved == ReorderStart(old, pos)..Len(all)
    IN  [q \in DOMAIN f \cup {Key(row)} |->
           IF \E i \in moved : Key(all[i]) = q
             THEN CHOOSE i \in moved : Key(all[i]) = q
             ELSE IF q = Key(row) THEN pos ELSE f[q]]

(* The index without the last row.                                         *)
Dropped(index, all) == [q \in DOMAIN index \ {Key(all[Len(all)])} |-> index[q]]

(* What is left of a ranking without the row of a key.                     *)
RestOK(s, f, row, old, rest) ==
    /\ rest \in Seq(Row) /\ old \in 0..Len(s) /\ (old = 0 <=> Key(row) \notin DOMAIN f)
    /\ Len(rest) = IF old = 0 THEN Len(s) ELSE Len(s) - 1
    /\ \A j \in 1..Len(rest) : rest[j] = s[IF old = 0 \/ j < old THEN j ELSE j + 1]
    /\ \A j \in 1..Len(rest) : Key(rest[j]) # Key(row)
    /\ Len(s) \in Nat /\ Len(rest) \in Nat
    /\ \A j \in 1..Len(s) : s[j] \in Row
    /\ Distinct(rest) /\ Ordered(rest)
    /\ Len(rest) >= RankLimit =>
         /\ rest = s /\ Len(s) = RankLimit /\ Len(s) \in 1..Len(s)
         /\ Key(row) \notin DOMAIN f /\ rest[Len(rest)] = s[Len(s)]
    /\ \A j \in 1..Len(rest) :
         \E i \in 1..Len(s) : rest[j] = s[i] /\ Key(s[i]) # Key(row)

(* The ranking with the row at pos.                                        *)
AllOK(rest, row, pos, all) ==
    /\ all \in Seq(Row) /\ Len(all) = Len(rest) + 1
    /\ \A j \in 1..Len(all) :
         all[j] = IF j = pos THEN row ELSE rest[IF j < pos THEN j ELSE j - 1]
    /\ pos \in 1..Len(all) /\ Distinct(all) /\ Ordered(all)

(* The index after an insertion is exact.                                  *)
LEMMA InsertIndexed ==
    ASSUME NEW s \in Seq(Row), Distinct(s), NEW f, IndexOf(f, s), NEW row \in Row,
           NEW old, old = OldPos(f, row), NEW rest, RestOK(s, f, row, old, rest),
           NEW pos, NEW all, AllOK(rest, row, pos, all),
           NEW index, index = NewIndex(f, row, old, pos, all)
    PROVE  IndexOf(index, all)
<1>a. /\ old \in 0..Len(s) /\ (old = 0 <=> Key(row) \notin DOMAIN f)
      /\ rest \in Seq(Row) /\ Len(rest) = IF old = 0 THEN Len(s) ELSE Len(s) - 1
      /\ \A j \in 1..Len(rest) : rest[j] = s[IF old = 0 \/ j < old THEN j ELSE j + 1]
  BY DEF RestOK
<1>b. /\ all \in Seq(Row) /\ Len(all) = Len(rest) + 1 /\ pos \in 1..Len(all)
      /\ \A j \in 1..Len(all) :
           all[j] = IF j = pos THEN row ELSE rest[IF j < pos THEN j ELSE j - 1]
      /\ Distinct(all)
  BY DEF AllOK
<1> USE <1>a, <1>b DEF NewIndex, OldPos
<1> DEFINE n == Len(s)
           k == Key(row)
           moved == ReorderStart(old, pos)..Len(all)
           to(j) == LET i == IF old = 0 \/ j < old THEN j ELSE j - 1
                    IN  IF i < pos THEN i ELSE i + 1
<1>1. n \in Nat /\ Len(rest) \in Nat /\ Len(all) \in Nat BY LenProperties
<1>2. ASSUME NEW j \in 1..n, old = 0 \/ j # old
      PROVE  /\ to(j) \in 1..Len(all) /\ all[to(j)] = s[j] /\ to(j) # pos
             /\ to(j) \notin moved => to(j) = j
  <2> DEFINE i == IF old = 0 \/ j < old THEN j ELSE j - 1
             t == IF i < pos THEN i ELSE i + 1
  <2>1. i \in 1..Len(rest) /\ rest[i] = s[j]
    <3>1. i \in 1..Len(rest) BY <1>1, <1>2
    <3>2. (IF old = 0 \/ i < old THEN i ELSE i + 1) = j BY <1>1, <1>2
    <3> QED BY <3>1, <3>2, SMTT(30)
  <2> HIDE DEF i
  <2>2. t \in 1..Len(all) /\ t # pos /\ (IF t < pos THEN t ELSE t - 1) = i
    BY <1>1, <2>1
  <2>3. all[t] = rest[i] BY <2>2
  <2>4. t \notin moved => t = j
    BY <1>1, <1>2, <2>1, <2>2 DEF ReorderStart, i
  <2> QED BY <2>1, <2>2, <2>3, <2>4 DEF i
<1> HIDE DEF to
<1>3. moved \subseteq 1..Len(all) BY <1>1 DEF ReorderStart
<1>4. all[pos] = row OBVIOUS
<1>5. ASSUME NEW q \in DOMAIN f, q # k
      PROVE  f[q] \in 1..n /\ (old = 0 \/ f[q] # old) /\ Key(s[f[q]]) = q
  <2>1. f[q] \in 1..n /\ Key(s[f[q]]) = q BY Zenon DEF IndexOf
  <2>2. old # 0 => Key(s[old]) = k BY Zenon DEF IndexOf
  <2> QED BY <1>5, <2>1, <2>2
<1>6. DOMAIN index = DOMAIN f \cup {k} OBVIOUS
<1>7. \A i \in 1..Len(all) : Key(all[i]) \in DOMAIN f \cup {k}
  <2> SUFFICES ASSUME NEW i \in 1..Len(all), i # pos PROVE Key(all[i]) \in DOMAIN f
    BY <1>4, ZenonT(30)
  <2>1. \E j \in 1..Len(rest) : all[i] = rest[j]
    <3>1. (IF i < pos THEN i ELSE i - 1) \in 1..Len(rest) BY <1>1
    <3> QED BY <3>1, Zenon
  <2>2. \E j \in 1..n : all[i] = s[j]
    <3>1. PICK j \in 1..Len(rest) : all[i] = rest[j] BY <2>1
    <3>2. (IF old = 0 \/ j < old THEN j ELSE j + 1) \in 1..n BY <1>1
    <3> QED BY <3>1, <3>2
  <2> QED BY <2>2 DEF IndexOf
<1>8. ASSUME NEW q \in DOMAIN f \cup {k}
      PROVE  index[q] \in 1..Len(all) /\ Key(all[index[q]]) = q
  <2>1. CASE \E i \in moved : Key(all[i]) = q
    <3>1. index[q] = CHOOSE i \in moved : Key(all[i]) = q BY <2>1, SMTT(30)
    <3>2. index[q] \in moved /\ Key(all[index[q]]) = q BY <2>1, <3>1
    <3> QED BY <1>3, <3>2
  <2>2. CASE ~\E i \in moved : Key(all[i]) = q
    <3>1. index[q] = IF q = k THEN pos ELSE f[q] BY <2>2
    <3>2. CASE q = k BY <1>4, <3>1, <3>2, Zenon
    <3>3. CASE q # k
      <4>1. q \in DOMAIN f /\ index[q] = f[q] BY <3>1, <3>3
      <4>2. f[q] \in 1..n /\ (old = 0 \/ f[q] # old) /\ Key(s[f[q]]) = q BY <1>5, <3>3, <4>1
      <4>3. /\ to(f[q]) \in 1..Len(all) /\ all[to(f[q])] = s[f[q]]
            /\ to(f[q]) \notin moved => to(f[q]) = f[q]
        BY <1>2, <4>2
      <4>4. to(f[q]) \notin moved BY <2>2, <4>2, <4>3
      <4> QED BY <4>1, <4>2, <4>3, <4>4
    <3> QED BY <3>2, <3>3
  <2> QED BY <2>1, <2>2
<1>9. DOMAIN f \cup {k} \subseteq {Key(all[i]) : i \in 1..Len(all)}
  <2> HIDE <1>a, <1>b
  <2> QED BY <1>8, Zenon
<1>10. DOMAIN index = {Key(all[i]) : i \in 1..Len(all)} BY <1>6, <1>7, <1>9
<1>11. \A q \in DOMAIN index : index[q] \in 1..Len(all) /\ Key(all[index[q]]) = q BY <1>6, <1>8, Zenon
<1> QED BY <1>10, <1>11, Zenon DEF IndexOf

-----------------------------------------------------------------------------
(* The inductive invariant.                                                *)

(* The ranked row of a key that the index knows.                           *)
Cached(k) == sorted_scores[npid_lookup[k]]

Clear(row) == [row EXCEPT !.data = NoData]

Owned(r, fs) == r.data > FailedId => r.data \in DOMAIN fs /\ fs[r.data] = Key(r)

(* The row of key k is in the database and still to be put into the cache. *)
Inserting(k) == pc[k[1]].at = "insert" /\ Key(pc[k[1]].row) = k

(* What is in the database and, if it is ranked, in the cache, of the row  *)
(* that a command is about: one that only replaces a worse row, or one     *)
(* whose data only this command is about to set.                           *)
CommandOK(u) ==
    pc[u] # Idle =>
      LET row == pc[u].row
          k == Key(row)
      IN  /\ u \notin gone /\ k \in DOMAIN db
          /\ pc[u].at = "insert" =>
               /\ db[k] = row
               /\ ~ForceUpdate /\ k \in DOMAIN npid_lookup => ~Beats(Cached(k).score, row.score)
          /\ pc[u].at # "insert" =>
               /\ db[k] = Clear(row)
               /\ k \in DOMAIN npid_lookup =>
                    Cached(k) = IF pc[u].at = "db" THEN row ELSE Clear(row)
          /\ pc[u].at = "file" => row.data = NoData
          /\ pc[u].at \in {"cache", "db"} => row.data # NoData /\ Owned(row, files)

(* A ranked row is the one in the database but for data that is not there  *)
(* yet; the exceptions are those of CacheCurrent, key by key.              *)
RowsOK(u) ==
    /\ \A k \in DOMAIN npid_lookup : k[1] = u =>
         /\ Owned(Cached(k), files)
         /\ u \notin gone /\ ~Inserting(k) =>
              k \in DOMAIN db /\ db[k] \in {Cached(k), Clear(Cached(k))}
    /\ \A k \in DOMAIN db : k[1] = u => Owned(db[k], files)

(* What BestRanked says, key by key.                                       *)
LeftOut(k) ==
    ~Inserting(k) => /\ Len(sorted_scores) = RankLimit
                     /\ \A i \in 1..Len(sorted_scores) :
                          ~Beats(db[k].score, sorted_scores[i].score)

DbTypes ==
    /\ DOMAIN db \subseteq UserId \X CharId /\ IsFiniteSet(DOMAIN db) /\ gone \subseteq UserId
    /\ \A k \in DOMAIN db : db[k] \in Row /\ Key(db[k]) = k /\ k[1] \notin gone

CacheTypes ==
    sorted_scores \in Seq(Row) /\ Len(sorted_scores) <= RankLimit /\ users \subseteq UserId

FileTypes ==
    /\ DOMAIN files \subseteq 1..MaxDataId /\ next_id \in 1..(MaxDataId + 1)
    /\ \A i \in DOMAIN files : i < next_id

PcTypes ==
    /\ pc \in [UserId -> {Idle} \cup Busy]
    /\ \A u \in UserId : pc[u] = Idle \/ (pc[u] \in Busy /\ pc[u].row.user = u)

Types == DbTypes /\ CacheTypes /\ FileTypes /\ PcTypes /\ clock \in 0..MaxTime

Ranking == Distinct(sorted_scores) /\ RankingOrdered /\ LookupExact

IInv ==
    /\ Types /\ Ranking
    /\ \A u \in UserId : CommandOK(u) /\ RowsOK(u)
    /\ ~ForceUpdate => \A k \in DOMAIN db \ DOMAIN npid_lookup : LeftOut(k)

-----------------------------------------------------------------------------
(* What a step leaves alone stays as it is.                                *)
LEMMA DbSame ==
    ASSUME DbTypes, db' = db, gone' = gone
    PROVE  DbTypes'
BY DEF DbTypes

(* The same for the cache ...                                              *)
LEMMA CacheSame ==
    ASSUME CacheTypes, Ranking,
           sorted_scores' = sorted_scores, npid_lookup' = npid_lookup, users' = users
    PROVE  /\ CacheTypes' /\ Ranking'
           /\ \A q : Cached(q)' = Cached(q) /\ Clear(Cached(q))' = Clear(Cached(q))
<1>1. CacheTypes' BY DEF CacheTypes
<1>2. Distinct(sorted_scores)' BY DEF Ranking, Distinct
<1>3. RankingOrdered' BY DEF Ranking, RankingOrdered
<1>4. LookupExact' BY DEF Ranking, LookupExact
<1>5. \A q : Cached(q)' = Cached(q) /\ Clear(Cached(q))' = Clear(Cached(q))
  BY DEF Cached, Clear
<1> QED BY <1>1, <1>2, <1>3, <1>4, <1>5 DEF Ranking

(* ... and for the files.                                                  *)
LEMMA FilesSame ==
    ASSUME FileTypes, files' = files, next_id' = next_id
    PROVE  FileTypes'
BY DEF FileTypes

(* A step of u's command.                                                  *)
LEMMA PcStep ==
    ASSUME PcTypes, NEW u \in UserId, NEW c, pc' = [pc EXCEPT ![u] = c],
           c = Idle \/ (c \in Busy /\ c.row.user = u)
    PROVE  PcTypes' /\ pc'[u] = c /\ \A v \in UserId \ {u} : pc'[v] = pc[v]
<1>1. pc \in [UserId -> {Idle} \cup Busy] BY DEF PcTypes
<1>2. pc'[u] = c /\ \A v \in UserId \ {u} : pc'[v] = pc[v] BY <1>1
<1>3. pc' \in [UserId -> {Idle} \cup Busy] BY <1>1
<1>4. ASSUME NEW v \in UserId
      PROVE  pc'[v] = Idle \/ (pc'[v] \in Busy /\ pc'[v].row.user = v)
  <2>1. CASE v = u BY <1>2, <2>1
  <2>2. CASE v # u BY <1>2, <2>2 DEF PcTypes
  <2> QED BY <2>1, <2>2
<1> QED BY <1>2, <1>3, <1>4 DEF PcTypes

(* A command has the form that its place says.                             *)
LEMMA Shapes ==
    ASSUME Types, NEW u \in UserId
    PROVE  /\ pc[u] # Idle =>
                /\ pc[u] \in Busy /\ pc[u].row \in Row /\ pc[u].row.user = u
                /\ Key(pc[u].row) \in UserId \X CharId /\ Key(pc[u].row)[1] = u
           /\ pc[u] = Idle <=> pc[u].at = "idle"
           /\ pc[u].at \in {"insert", "file", "cache", "db"} <=> pc[u] # Idle
<1>1. pc[u] = Idle => pc[u].at = "idle" BY DEF Idle
<1>2. pc[u] # Idle => pc[u] \in Busy /\ pc[u].row.user = u BY DEF Types, PcTypes
<1>3. pc[u] \in Busy => pc[u].at \in {"insert", "file", "cache", "db"} /\ pc[u].row \in Row
  BY DEF Busy
<1>4. pc[u] # Idle => Key(pc[u].row) \in UserId \X CharId /\ Key(pc[u].row)[1] = u
  BY <1>2, <1>3, RowFields
<1> QED BY <1>1, <1>2, <1>3, <1>4

(* The index and the ranking name each other.                              *)
LEMMA IndexFacts ==
    ASSUME Types, Ranking
    PROVE  /\ Len(sorted_scores) \in Nat /\ DOMAIN sorted_scores = 1..Len(sorted_scores)
           /\ Ordered(sorted_scores) /\ IndexOf(npid_lookup, sorted_scores)
           /\ \A k \in DOMAIN npid_lookup :
                /\ npid_lookup[k] \in 1..Len(sorted_scores) /\ Cached(k) \in Row
                /\ Key(Cached(k)) = k /\ Cached(k).user = k[1] /\ k \in UserId \X CharId
           /\ \A i \in 1..Len(sorted_scores) :
                /\ sorted_scores[i] \in Row /\ Key(sorted_scores[i]) \in DOMAIN npid_lookup
                /\ Cached(Key(sorted_scores[i])) = sorted_scores[i]
                /\ npid_lookup[Key(sorted_scores[i])] = i
<1>1. /\ sorted_scores \in Seq(Row) /\ Len(sorted_scores) \in Nat
      /\ DOMAIN sorted_scores = 1..Len(sorted_scores)
      /\ \A i \in 1..Len(sorted_scores) : sorted_scores[i] \in Row
  BY LenProperties DEF Types, CacheTypes
<1>2. IndexOf(npid_lookup, sorted_scores) BY <1>1 DEF Ranking, LookupExact, IndexOf
<1>3. Ordered(sorted_scores) BY <1>1 DEF Ranking, RankingOrdered, Ordered, NotWorse
<1>4. \A k \in DOMAIN npid_lookup :
        /\ npid_lookup[k] \in 1..Len(sorted_scores) /\ Cached(k) \in Row
        /\ Key(Cached(k)) = k
  BY <1>1, <1>2 DEF IndexOf, Cached
<1>5. \A k \in DOMAIN npid_lookup : Cached(k).user = k[1] /\ k \in UserId \X CharId
  BY <1>4, RowFields
<1>6. \A i \in 1..Len(sorted_scores) : Key(sorted_scores[i]) \in DOMAIN npid_lookup
  BY <1>2 DEF IndexOf
<1>7. ASSUME NEW i \in 1..Len(sorted_scores) PROVE npid_lookup[Key(sorted_scores[i])] = i
  BY <1>2, <1>6 DEF IndexOf, Ranking, Distinct
<1> QED BY <1>1, <1>2, <1>3, <1>4, <1>5, <1>6, <1>7 DEF Cached

-----------------------------------------------------------------------------
(* A step of one user, or of the ranking, that leaves what is v's alone.   *)
Steady(v) ==
    /\ pc'[v] = pc[v] /\ (v \in gone' <=> v \in gone)
    /\ \A k \in DOMAIN db : k[1] = v => k \in DOMAIN db' /\ db'[k] = db[k]
    /\ \A k \in DOMAIN db' : k[1] = v => k \in DOMAIN db
    /\ \A k \in DOMAIN npid_lookup' : k[1] = v =>
         k \in DOMAIN npid_lookup /\ Cached(k)' = Cached(k)
    /\ \A i \in DOMAIN files : files[i][1] = v => i \in DOMAIN files' /\ files'[i] = files[i]

(* Such a step keeps what is known of v.                                   *)
LEMMA SteadyKeeps ==
    ASSUME Types, Ranking, NEW v \in UserId, CommandOK(v), RowsOK(v), Steady(v)
    PROVE  CommandOK(v)' /\ RowsOK(v)'
<1>1. ASSUME NEW r, Owned(r, files), Key(r)[1] = v PROVE Owned(r, files')
  BY <1>1, SMTT(30) DEF Owned, Steady
<1>2. CommandOK(v)'
  <2> SUFFICES ASSUME pc[v] # Idle PROVE CommandOK(v)' BY ZenonT(30) DEF CommandOK, Steady
  <2> DEFINE row == pc[v].row
             k == Key(row)
  <2>1. k[1] = v BY Shapes, SMTT(30)
  <2>2. k \in DOMAIN db' /\ db'[k] = db[k] /\ v \notin gone' BY <2>1, SMTT(30) DEF CommandOK, Steady
  <2>3. k \in DOMAIN npid_lookup' => k \in DOMAIN npid_lookup /\ Cached(k)' = Cached(k)
    BY <2>1 DEF Steady
  <2>4. Owned(row, files) => Owned(row, files') BY <1>1, <2>1, SMTT(30)
  <2>5. pc'[v] = pc[v] BY ZenonT(30) DEF Steady
  <2> QED BY <2>2, <2>3, <2>4, <2>5, ZenonT(30) DEF CommandOK
<1>3. ASSUME NEW k \in DOMAIN npid_lookup', k[1] = v
      PROVE  /\ Owned(Cached(k), files)'
             /\ (v \notin gone /\ ~Inserting(k))' =>
                  (k \in DOMAIN db /\ db[k] \in {Cached(k), Clear(Cached(k))})'
  <2>1. k \in DOMAIN npid_lookup /\ Cached(k)' = Cached(k) BY <1>3 DEF Steady
  <2>2. Owned(Cached(k), files) /\ Key(Cached(k)) = k BY <1>3, <2>1, IndexFacts DEF RowsOK
  <2>3. Owned(Cached(k), files)' BY <1>1, <1>3, <2>1, <2>2
  <2>4. Inserting(k)' <=> Inserting(k) BY <1>3 DEF Inserting, Steady
  <2>6. v \notin gone' /\ ~Inserting(k) =>
          k \in DOMAIN db /\ db[k] \in {Cached(k), Clear(Cached(k))}
    BY <1>3, <2>1 DEF RowsOK, Steady
  <2>7. k \in DOMAIN db => k \in DOMAIN db' /\ db'[k] = db[k] BY <1>3 DEF Steady
  <2>8. Clear(Cached(k))' = Clear(Cached(k)) BY <2>1 DEF Clear
  <2> QED BY <2>1, <2>3, <2>4, <2>6, <2>7, <2>8
<1>4. ASSUME NEW k \in DOMAIN db', k[1] = v PROVE Owned(db[k], files)'
  <2>1. k \in DOMAIN db /\ db'[k] = db[k] BY <1>4 DEF Steady
  <2>2. Owned(db[k], files) /\ Key(db[k]) = k BY <1>4, <2>1 DEF RowsOK, Types, DbTypes
  <2> QED BY <1>1, <1>4, <2>1, <2>2
<1> QED BY <1>2, <1>3, <1>4 DEF RowsOK

-----------------------------------------------------------------------------
(* The actions.                                                            *)

(* record_score: the other rows stay, and the one that is recorded does    *)
(* not lose against a ranked row of the same key.                          *)
LEMMA RecordKeeps ==
    ASSUME IInv, NEW u \in UserId, NEW ch \in CharId, NEW s \in Score, record_score(u, ch, s)
    PROVE  IInv'
<1> DEFINE k == <<u, ch>>
<1>0. Types /\ Ranking /\ CommandOK(u) /\ RowsOK(u) /\ pc[u] = Idle /\ u \notin gone
  BY DEF IInv, record_score
<1>u. UNCHANGED <<gone, sorted_scores, npid_lookup, users, files, next_id>>
  BY DEF record_score, cache, disk
<1>1. PICK now \in clock..(clock + 1) \cap 0..MaxTime :
        LET row == [user |-> u, char |-> ch, score |-> s, time |-> now, data |-> NoData]
        IN  /\ clock' = now /\ Accepted(k, s)
            /\ db' = [q \in DOMAIN db \cup {k} |-> IF q = k THEN row ELSE db[q]]
            /\ pc' = [pc EXCEPT ![u] = [at |-> "insert", row |-> row]]
  BY Zenon DEF record_score
<1> DEFINE row == [user |-> u, char |-> ch, score |-> s, time |-> now, data |-> NoData]
           c == [at |-> "insert", row |-> row]
<1>2. row \in Row /\ Key(row) = k /\ k[1] = u /\ k \in UserId \X CharId BY DEF Row, Key
<1>3. c \in Busy /\ c.at = "insert" /\ c.row = row /\ row.user = u /\ row.score = s
      /\ row.data = NoData /\ c # Idle
  BY <1>2 DEF Busy, Idle
<1> HIDE DEF row, c
<1>4. /\ DOMAIN db' = DOMAIN db \cup {k} /\ db'[k] = row
      /\ \A q \in DOMAIN db : q # k => db'[q] = db[q]
  BY <1>1 DEF row
<1>5. pc' = [pc EXCEPT ![u] = c] BY <1>1 DEF row, c
<1>7. PcTypes' /\ pc'[u] = c /\ \A v \in UserId \ {u} : pc'[v] = pc[v]
  BY <1>0, <1>3, <1>5, PcStep, ZenonT(30) DEF Types
<1>10. /\ CacheTypes' /\ Ranking'
       /\ \A q : Cached(q)' = Cached(q) /\ Clear(Cached(q))' = Clear(Cached(q))
  BY <1>0, <1>u, CacheSame DEF Types
<1>8. Types'
  <2>1. IsFiniteSet(DOMAIN db) BY <1>0 DEF Types, DbTypes
  <2>2. IsFiniteSet(DOMAIN db') BY <1>4, <2>1, FS_AddElement, ZenonT(30)
  <2>3. /\ DOMAIN db' \subseteq UserId \X CharId
        /\ \A q \in DOMAIN db' : db'[q] \in Row /\ Key(db'[q]) = q /\ q[1] \notin gone
    BY <1>0, <1>2, <1>4, ZenonT(30) DEF Types, DbTypes
  <2>4. DbTypes' BY <1>0, <1>u, <2>2, <2>3 DEF Types, DbTypes
  <2>5. FileTypes' BY <1>0, <1>u, FilesSame, ZenonT(30) DEF Types
  <2> QED BY <1>1, <1>7, <1>10, <2>4, <2>5 DEF Types
<1>11. ASSUME NEW v \in UserId, v # u PROVE CommandOK(v)' /\ RowsOK(v)'
  <2>1. Steady(v) BY <1>u, <1>2, <1>4, <1>7, <1>10, <1>11 DEF Steady
  <2> QED BY <1>0, <2>1, SteadyKeeps DEF IInv
<1>12. ASSUME k \in DOMAIN npid_lookup
       PROVE  k \in DOMAIN db /\ db[k].score = Cached(k).score
  <2>1. ~Inserting(k) BY <1>0, <1>2, Shapes DEF Inserting
  <2>2. k \in DOMAIN db /\ db[k] \in {Cached(k), Clear(Cached(k))}
    BY <1>0, <1>2, <1>12, <2>1 DEF RowsOK
  <2>3. Cached(k) \in Row BY <1>0, <1>12, IndexFacts, ZenonT(30)
  <2> QED BY <2>2, <2>3 DEF Clear, Row
<1>13. CommandOK(u)'
  <2>1. ~ForceUpdate /\ k \in DOMAIN npid_lookup => ~Beats(Cached(k).score, s)
    BY <1>1, <1>12, ZenonT(30) DEF Accepted
  <2> QED BY <1>0, <1>u, <1>2, <1>3, <1>4, <1>7, <1>10, <2>1, ZenonT(30) DEF CommandOK
<1>14. RowsOK(u)'
  <2>1. Inserting(k)' BY <1>2, <1>3, <1>7, ZenonT(30) DEF Inserting
  <2>2. ASSUME NEW q \in DOMAIN npid_lookup, q[1] = u
        PROVE  /\ Owned(Cached(q), files)
               /\ q # k => q \in DOMAIN db' /\ db'[q] \in {Cached(q), Clear(Cached(q))}
    <3>1. ~Inserting(q) BY <1>0, <2>2, Shapes DEF Inserting
    <3> QED BY <1>0, <1>4, <2>2, <3>1 DEF RowsOK
  <2>4. \A q \in DOMAIN npid_lookup' : q[1] = u =>
          /\ Owned(Cached(q), files)'
          /\ (u \notin gone /\ ~Inserting(q))' =>
               (q \in DOMAIN db /\ db[q] \in {Cached(q), Clear(Cached(q))})'
    BY <1>u, <1>10, <2>1, <2>2
  <2>5. ASSUME NEW q \in DOMAIN db', q[1] = u PROVE Owned(db'[q], files)
    <3>1. CASE q = k BY <1>3, <1>4, <3>1 DEF Owned, NoData, FailedId
    <3>2. CASE q # k BY <1>0, <1>4, <2>5, <3>2 DEF RowsOK
    <3> QED BY <3>1, <3>2
  <2> QED BY <1>u, <2>4, <2>5, SMTT(30) DEF RowsOK
<1>15. ASSUME ~ForceUpdate, NEW q \in DOMAIN db' \ DOMAIN npid_lookup' PROVE LeftOut(q)'
  <2>1. CASE q = k BY <1>2, <1>3, <1>7, <2>1 DEF LeftOut, Inserting
  <2>2. CASE q # k
    <3>1. q \in DOMAIN db /\ db'[q] = db[q] /\ q \notin DOMAIN npid_lookup
      BY <1>u, <1>4, <2>2
    <3>2. q[1] \in UserId /\ LeftOut(q) BY <1>0, <1>15, <3>1 DEF IInv, Types, DbTypes
    <3>3. ~Inserting(q)' => ~Inserting(q)
      <4>1. CASE q[1] = u BY <1>0, <4>1, Shapes DEF Inserting
      <4>2. CASE q[1] # u BY <1>7, <3>2, <4>2 DEF Inserting
      <4> QED BY <4>1, <4>2
    <3> QED BY <1>u, <3>1, <3>2, <3>3 DEF LeftOut
  <2> QED BY <2>1, <2>2
<1> QED BY <1>8, <1>10, <1>11, <1>13, <1>14, <1>15 DEF IInv

(* The steps of an upload and the deletion of an account leave the keys    *)
(* and the scores of the ranking and of the database alone, so what is not *)
(* ranked stays left out, as long as nobody stops inserting.               *)
LEMMA LeftOutKept ==
    ASSUME IInv, ~ForceUpdate, NEW u \in UserId, pc[u].at # "insert",
           \A v \in UserId \ {u} : pc'[v] = pc[v],
           DOMAIN npid_lookup' = DOMAIN npid_lookup,
           \A q \in DOMAIN db' : q \in DOMAIN db /\ db'[q].score = db[q].score,
           Len(sorted_scores') = Len(sorted_scores),
           \A i \in 1..Len(sorted_scores) : sorted_scores'[i].score = sorted_scores[i].score,
           NEW q \in DOMAIN db' \ DOMAIN npid_lookup'
    PROVE  LeftOut(q)'
<1>1. q \in DOMAIN db \ DOMAIN npid_lookup /\ LeftOut(q) /\ q[1] \in UserId
  BY DEF IInv, Types, DbTypes
<1>2. Inserting(q) => Inserting(q)' BY <1>1 DEF Inserting
<1> QED BY <1>1, <1>2 DEF LeftOut

(* contains_score_with_no_data: the row that is then uploaded for has no   *)
(* data in the cache, and so none in the database.                         *)
LEMMA AskKeeps ==
    ASSUME IInv, NEW u \in UserId, NEW ch \in CharId, contains_score_with_no_data(u, ch)
    PROVE  IInv'
<1> DEFINE k == <<u, ch>>
           row == Cached(k)
           c == [at |-> "file", row |-> row]
<1>0. /\ Types /\ Ranking /\ CommandOK(u) /\ RowsOK(u) /\ pc[u] = Idle /\ u \notin gone
      /\ k \in DOMAIN npid_lookup /\ row.data = NoData /\ pc' = [pc EXCEPT ![u] = c]
  BY DEF IInv, contains_score_with_no_data, Cached
<1>u. UNCHANGED <<db, gone, sorted_scores, npid_lookup, users, files, next_id, clock>>
  BY DEF contains_score_with_no_data, cache, disk
<1>1. row \in Row /\ Key(row) = k /\ row.user = u /\ k[1] = u BY <1>0, IndexFacts
<1>2. Clear(row) = row BY <1>0, <1>1 DEF Clear, Row
<1> HIDE DEF row
<1>3. c \in Busy /\ c.at = "file" /\ c.row = row /\ c # Idle BY <1>1 DEF Busy, Idle
<1> HIDE DEF c
<1>4. ~Inserting(k) BY <1>0, <1>1, Shapes, ZenonT(30) DEF Inserting
<1>5. k \in DOMAIN db /\ db[k] = row BY <1>0, <1>1, <1>2, <1>4 DEF RowsOK, row
<1>7. PcTypes' /\ pc'[u] = c /\ \A v \in UserId \ {u} : pc'[v] = pc[v]
  BY <1>0, <1>1, <1>3, PcStep, Zenon DEF Types
<1>10. /\ CacheTypes' /\ Ranking'
       /\ \A q : Cached(q)' = Cached(q) /\ Clear(Cached(q))' = Clear(Cached(q))
  BY <1>0, <1>u, CacheSame DEF Types
<1>8. Types' BY <1>0, <1>u, <1>7, <1>10, DbSame, FilesSame, SMTT(30) DEF Types
<1>11. ASSUME NEW v \in UserId, v # u PROVE CommandOK(v)' /\ RowsOK(v)'
  <2>1. Steady(v) BY <1>u, <1>7, <1>10, <1>11, ZenonT(30) DEF Steady
  <2> QED BY <1>0, <2>1, SteadyKeeps DEF IInv
<1>12. CommandOK(u)'
  BY <1>0, <1>u, <1>1, <1>2, <1>3, <1>5, <1>7, <1>10, ZenonT(30) DEF CommandOK, row
<1>13. RowsOK(u)'
  <2>2. \A q : q[1] = u => ~Inserting(q) BY <1>0, Shapes, ZenonT(30) DEF Inserting
  <2> QED BY <1>0, <1>u, <1>10, <2>2, Zenon DEF RowsOK
<1>14. ~ForceUpdate => \A q \in DOMAIN db' \ DOMAIN npid_lookup' : LeftOut(q)'
  BY <1>0, <1>u, <1>7, LeftOutKept, Shapes
<1> QED BY <1>8, <1>10, <1>11, <1>12, <1>13, <1>14 DEF IInv

(* create_score_data_file: the id is new, so no row names it.              *)
LEMMA CreateKeeps ==
    ASSUME IInv, NEW u \in UserId, create_score_data_file(u)
    PROVE  IInv'
<1> DEFINE row == pc[u].row
           k == Key(row)
<1>0. /\ Types /\ Ranking /\ CommandOK(u) /\ RowsOK(u) /\ pc[u].at = "file"
      /\ next_id \in 1..MaxDataId /\ next_id' = next_id + 1 /\ next_id \notin DOMAIN files
  BY ScoresAssumption DEF IInv, Types, FileTypes, create_score_data_file
<1>u. UNCHANGED <<db, gone, sorted_scores, npid_lookup, users, clock>>
  BY ZenonT(30) DEF create_score_data_file, cache
<1>1. pc[u] # Idle /\ pc[u] \in Busy /\ row \in Row /\ row.user = u /\ k[1] = u
  BY <1>0, Shapes
<1>2. PICK id \in {next_id, FailedId} :
        /\ pc' = [pc EXCEPT ![u].at = "cache", ![u].row.data = id]
        /\ \/ files' = files /\ id = FailedId
           \/ files' = [i \in DOMAIN files \cup {next_id} |-> IF i = next_id THEN k ELSE files[i]]
  BY DEF create_score_data_file
<1> DEFINE new == [row EXCEPT !.data = id]
           c == [at |-> "cache", row |-> new]
<1>3. pc \in [UserId -> {Idle} \cup Busy] BY <1>0 DEF Types, PcTypes
<1>4. pc' = [pc EXCEPT ![u] = c]
  <2>1. pc[u] = [at |-> pc[u].at, row |-> row] BY <1>1 DEF Busy
  <2>2. [[pc[u] EXCEPT !.at = "cache"] EXCEPT !.row.data = id] = c
    <3>1. [pc[u] EXCEPT !.at = "cache"] = [at |-> "cache", row |-> row] BY <2>1
    <3>2. \A r : [[at |-> "cache", row |-> r] EXCEPT !.row.data = id]
                   = [at |-> "cache", row |-> [r EXCEPT !.data = id]]
      OBVIOUS
    <3> QED BY <3>1, <3>2, Zenon
  <2>3. pc' = [pc EXCEPT ![u] = [[pc[u] EXCEPT !.at = "cache"] EXCEPT !.row.data = id]]
    BY <1>2, <1>3, Zenon
  <2> QED BY <2>2, <2>3, Zenon
<1>5. id \in 0..MaxDataId /\ id # NoData BY <1>0, <1>2, ScoresAssumption DEF FailedId, NoData
<1>6. /\ new \in Row /\ Key(new) = k /\ new.user = u /\ new.data = id
      /\ new.score = row.score /\ Clear(new) = Clear(row) /\ Clear(row) = row
  <2>1. row.data = NoData BY <1>0, <1>1 DEF CommandOK
  <2> QED BY <1>1, <1>5, <2>1, ZenonT(30) DEF Row, Key, Clear
<1> HIDE DEF new
<1>7. c \in Busy /\ c.at = "cache" /\ c.row = new /\ c # Idle BY <1>6 DEF Busy, Idle
<1> HIDE DEF c
<1>8. PcTypes' /\ pc'[u] = c /\ \A v \in UserId \ {u} : pc'[v] = pc[v]
  BY <1>0, <1>4, <1>6, <1>7, PcStep, Zenon DEF Types
<1>9. /\ DOMAIN files \subseteq DOMAIN files' /\ DOMAIN files' \subseteq DOMAIN files \cup {next_id}
      /\ \A i \in DOMAIN files : files'[i] = files[i]
  BY <1>0, <1>2
<1>10. Owned(new, files')
  BY <1>2, <1>6 DEF Owned, FailedId
<1>13. /\ CacheTypes' /\ Ranking'
       /\ \A q : Cached(q)' = Cached(q) /\ Clear(Cached(q))' = Clear(Cached(q))
  BY <1>0, <1>u, CacheSame, ZenonT(30) DEF Types
<1>11. Types'
  <2>1. FileTypes' BY <1>0, <1>9, ScoresAssumption, SMTT(30) DEF Types, FileTypes
  <2> QED BY <1>0, <1>u, <1>8, <1>13, <2>1, DbSame, ZenonT(30) DEF Types
<1>14. ASSUME NEW v \in UserId, v # u PROVE CommandOK(v)' /\ RowsOK(v)'
  <2>1. Steady(v) BY <1>u, <1>8, <1>9, <1>13, <1>14 DEF Steady
  <2> QED BY <1>0, <2>1, SteadyKeeps DEF IInv
<1>15. CommandOK(u)'
  <2>1. /\ u \notin gone /\ k \in DOMAIN db /\ db[k] = Clear(row)
        /\ k \in DOMAIN npid_lookup => Cached(k) = Clear(row)
    BY <1>0, <1>1, Zenon DEF CommandOK
  <2> QED BY <1>u, <1>5, <1>6, <1>7, <1>8, <1>10, <1>13, <2>1, ZenonT(30) DEF CommandOK
<1>16. RowsOK(u)'
  <2>2. \A q : q[1] = u => ~Inserting(q) BY <1>0 DEF Inserting
  <2>3. \A r : Owned(r, files) => Owned(r, files') BY <1>9 DEF Owned
  <2> QED BY <1>0, <1>u, <1>13, <2>2, <2>3, ZenonT(30) DEF RowsOK
<1>17. ~ForceUpdate => \A q \in DOMAIN db' \ DOMAIN npid_lookup' : LeftOut(q)'
  BY <1>0, <1>u, <1>8, LeftOutKept
<1> QED BY <1>11, <1>13, <1>14, <1>15, <1>16, <1>17, Zenon DEF IInv

(* set_game_data, when the score is ranked: the cached row gets the data   *)
(* and is otherwise the row that the upload began with.                    *)
LEMMA AttachKeeps ==
    ASSUME IInv, NEW u \in UserId, set_game_data(u), Key(pc[u].row) \in DOMAIN npid_lookup
    PROVE  IInv'
<1> DEFINE row == pc[u].row
           k == Key(row)
           p == npid_lookup[k]
           c == [at |-> "db", row |-> row]
<1>0. /\ Types /\ Ranking /\ CommandOK(u) /\ RowsOK(u) /\ pc[u].at = "cache"
      /\ k \in DOMAIN npid_lookup
      /\ sorted_scores' = [sorted_scores EXCEPT ![p].data = row.data]
      /\ pc' = [pc EXCEPT ![u].at = "db"]
  BY DEF IInv, set_game_data
<1>u. UNCHANGED <<db, gone, npid_lookup, users, files, next_id, clock>>
  BY DEF set_game_data
<1>1. pc[u] # Idle /\ pc[u] \in Busy /\ row \in Row /\ row.user = u /\ k[1] = u
  BY <1>0, Shapes
<1>2. /\ [pc[u] EXCEPT !.at = "db"] = c /\ c \in Busy /\ c # Idle
      /\ c.at = "db" /\ c.row = row /\ c.row.user = u
  BY <1>1 DEF Busy, Idle
<1> HIDE DEF c
<1>3. pc' = [pc EXCEPT ![u] = c] BY <1>0, <1>2, Zenon
<1>4. PcTypes' /\ pc'[u] = c /\ \A v \in UserId \ {u} : pc'[v] = pc[v]
  <2>1. PcTypes BY <1>0 DEF Types
  <2> QED BY <1>2, <1>3, <2>1, PcStep, Zenon
<1>5. /\ u \notin gone /\ k \in DOMAIN db /\ db[k] = Clear(row) /\ Cached(k) = Clear(row)
      /\ row.data # NoData /\ Owned(row, files)
  BY <1>0, <1>1 DEF CommandOK
<1>6. /\ Len(sorted_scores) \in Nat /\ DOMAIN sorted_scores = 1..Len(sorted_scores)
      /\ p \in 1..Len(sorted_scores) /\ sorted_scores[p] = Clear(row)
      /\ \A i \in 1..Len(sorted_scores) : sorted_scores[i] \in Row
  BY <1>0, <1>5, IndexFacts DEF Cached
<1>7. [Clear(row) EXCEPT !.data = row.data] = row BY <1>1, Zenon DEF Clear, Row
<1>8. sorted_scores \in Seq(Row) BY <1>0 DEF Types, CacheTypes
<1>9. sorted_scores' = [sorted_scores EXCEPT ![p] = row] BY <1>0, <1>6, <1>7, Zenon
<1>10. /\ sorted_scores' \in Seq(Row) /\ Len(sorted_scores') = Len(sorted_scores)
       /\ \A i \in 1..Len(sorted_scores) :
            sorted_scores'[i] = IF i = p THEN row ELSE sorted_scores[i]
  BY <1>1, <1>6, <1>8, <1>9, ExceptSeq
<1>11. DOMAIN sorted_scores' = 1..Len(sorted_scores) BY <1>10, LenProperties
<1>12. /\ Key(Clear(row)) = k /\ Clear(row).score = row.score /\ Clear(row).time = row.time
       /\ Clear(row).user = row.user
  BY <1>1, SMTT(30) DEF Clear, Row, Key
<1>13. ASSUME NEW i \in 1..Len(sorted_scores)
       PROVE  /\ Key(sorted_scores'[i]) = Key(sorted_scores[i])
              /\ sorted_scores'[i].score = sorted_scores[i].score
              /\ sorted_scores'[i].time = sorted_scores[i].time
              /\ sorted_scores'[i].user = sorted_scores[i].user
  BY <1>6, <1>10, <1>12
<1>14. Types'
  <2>1. CacheTypes' BY <1>0, <1>u, <1>10 DEF Types, CacheTypes
  <2> QED BY <1>0, <1>u, <1>4, <2>1, DbSame, FilesSame DEF Types
<1>15. Ranking'
  <2>1. Distinct(sorted_scores)' BY <1>0, <1>10, <1>13, ZenonT(30) DEF Ranking, Distinct
  <2>2. RankingOrdered' BY <1>0, <1>6, <1>11, <1>13 DEF Ranking, RankingOrdered
  <2>3. {Key(sorted_scores'[i]) : i \in DOMAIN sorted_scores'}
          = {Key(sorted_scores[i]) : i \in DOMAIN sorted_scores}
    BY <1>6, <1>11, <1>13
  <2>4. LookupExact' BY <1>0, <1>u, <1>6, <1>11, <1>13, <2>3, SMTT(30) DEF Ranking, LookupExact
  <2> QED BY <2>1, <2>2, <2>4 DEF Ranking
<1>16. \A q \in DOMAIN npid_lookup : Cached(q)' = IF q = k THEN row ELSE Cached(q)
  <2> SUFFICES ASSUME NEW q \in DOMAIN npid_lookup
               PROVE  Cached(q)' = IF q = k THEN row ELSE Cached(q)
    OBVIOUS
  <2>1. npid_lookup[q] \in 1..Len(sorted_scores) /\ Key(Cached(q)) = q BY <1>0, IndexFacts
  <2>2. npid_lookup[q] = p => q = k BY <1>6, <1>12, <2>1 DEF Cached
  <2> QED BY <1>u, <1>10, <2>1, <2>2 DEF Cached
<1>17. ASSUME NEW v \in UserId, v # u PROVE CommandOK(v)' /\ RowsOK(v)'
  <2>1. Steady(v) BY <1>u, <1>1, <1>4, <1>16, <1>17 DEF Steady
  <2> QED BY <1>0, <2>1, SteadyKeeps, SMTT(30) DEF IInv
<1>18. CommandOK(u)'
  BY <1>0, <1>u, <1>2, <1>4, <1>5, <1>16 DEF CommandOK
<1>19. RowsOK(u)'
  <2>1. ASSUME NEW q \in DOMAIN npid_lookup, q[1] = u
        PROVE  /\ Owned(Cached(q)', files)
               /\ q \in DOMAIN db /\ db[q] \in {Cached(q)', Clear(Cached(q)')}
    <3>1. CASE q = k BY <1>5, <1>16, <3>1
    <3>2. CASE q # k
      <4>1. ~Inserting(q) BY <1>0, <2>1 DEF Inserting
      <4> QED BY <1>0, <1>5, <1>16, <2>1, <3>2, <4>1 DEF RowsOK
    <3> QED BY <3>1, <3>2, ZenonT(30)
  <2>2. \A q : Clear(Cached(q))' = Clear(Cached(q)') BY DEF Clear
  <2> QED BY <1>0, <1>u, <2>1, <2>2, SMTT(30) DEF RowsOK
<1>20. ~ForceUpdate => \A q \in DOMAIN db' \ DOMAIN npid_lookup' : LeftOut(q)'
  BY <1>0, <1>u, <1>4, <1>10, <1>13, LeftOutKept, ZenonT(30)
<1> QED BY <1>14, <1>15, <1>17, <1>18, <1>19, <1>20 DEF IInv

(* set_game_data, when the score was pushed out: the file that is deleted  *)
(* is named by no row.                                                     *)
LEMMA WithdrawKeeps ==
    ASSUME IInv, NEW u \in UserId, set_game_data(u), Key(pc[u].row) \notin DOMAIN npid_lookup
    PROVE  IInv'
<1> DEFINE row == pc[u].row
           k == Key(row)
<1>0. /\ Types /\ Ranking /\ CommandOK(u) /\ RowsOK(u) /\ pc[u].at = "cache"
      /\ k \notin DOMAIN npid_lookup
      /\ files' = Without(row.data) /\ pc' = [pc EXCEPT ![u] = Idle]
  BY DEF IInv, set_game_data
<1>u. UNCHANGED <<db, gone, sorted_scores, npid_lookup, users, next_id, clock>>
  BY DEF set_game_data
<1>1. pc[u] # Idle /\ row \in Row /\ k[1] = u /\ row.data \in Int BY <1>0, Shapes, RowFields
<1>3. PcTypes' /\ pc'[u] = Idle /\ \A v \in UserId \ {u} : pc'[v] = pc[v]
  <2>1. PcTypes /\ pc' = [pc EXCEPT ![u] = Idle] BY <1>0, ZenonT(30) DEF Types
  <2> QED BY <2>1, PcStep, Zenon
<1>4. k \in DOMAIN db /\ db[k] = Clear(row) /\ Owned(row, files) BY <1>0, <1>1, Zenon DEF CommandOK
<1>5. row.data \in DOMAIN files => files[row.data] = k
  <2>1. \A i \in DOMAIN files : i \in 1..MaxDataId BY <1>0 DEF Types, FileTypes
  <2>2. row.data \in DOMAIN files => row.data > FailedId
    BY <2>1, ScoresAssumption DEF FailedId
  <2> QED BY <1>4, <2>2, Zenon DEF Owned
<1>6. /\ DOMAIN files' = DOMAIN files \ {row.data}
      /\ \A i \in DOMAIN files' : files'[i] = files[i]
  BY <1>0 DEF Without
<1>9. /\ CacheTypes' /\ Ranking'
      /\ \A q : Cached(q)' = Cached(q) /\ Clear(Cached(q))' = Clear(Cached(q))
  BY <1>0, <1>u, CacheSame DEF Types
<1>7. Types'
  <2>1. FileTypes' BY <1>0, <1>u, <1>6 DEF Types, FileTypes
  <2> QED BY <1>0, <1>u, <1>3, <1>9, <2>1, DbSame, ZenonT(30) DEF Types
<1>10. ASSUME NEW v \in UserId, v # u PROVE CommandOK(v)' /\ RowsOK(v)'
  <2>1. \A i \in DOMAIN files : files[i][1] = v => i # row.data BY <1>1, <1>5, <1>10, SMTT(30)
  <2>2. Steady(v) BY <1>u, <1>3, <1>6, <1>9, <1>10, <2>1, ZenonT(30) DEF Steady
  <2> QED BY <1>0, <2>2, SteadyKeeps, Zenon DEF IInv
<1>11. CommandOK(u)' BY <1>3, ZenonT(30) DEF CommandOK
<1>12. ASSUME NEW r, Owned(r, files), Key(r) # k PROVE Owned(r, files')
  BY <1>5, <1>6, <1>12 DEF Owned
<1>13. RowsOK(u)'
  <2>2. \A q : q[1] = u => ~Inserting(q) BY <1>0 DEF Inserting
  <2>3. ASSUME NEW q \in DOMAIN npid_lookup, q[1] = u PROVE Owned(Cached(q), files')
    <3>1. Owned(Cached(q), files) /\ Key(Cached(q)) = q BY <1>0, <2>3, IndexFacts, ZenonT(30) DEF RowsOK
    <3> QED BY <1>0, <1>12, <3>1
  <2>4. ASSUME NEW q \in DOMAIN db, q[1] = u PROVE Owned(db[q], files')
    <3>1. Owned(db[q], files) /\ Key(db[q]) = q BY <1>0, <2>4, Zenon DEF RowsOK, Types, DbTypes
    <3>2. CASE q = k
      <4>1. db[q].data = NoData BY <1>1, <1>4, <3>2 DEF Clear, Row
      <4> QED BY <4>1 DEF Owned, NoData, FailedId
    <3> QED BY <1>12, <3>1, <3>2, ZenonT(30)
  <2> QED BY <1>0, <1>u, <1>9, <2>2, <2>3, <2>4, Zenon DEF RowsOK
<1>14. ~ForceUpdate => \A q \in DOMAIN db' \ DOMAIN npid_lookup' : LeftOut(q)'
  BY <1>0, <1>u, <1>3, LeftOutKept, Zenon
<1> QED BY <1>7, <1>9, <1>10, <1>11, <1>13, <1>14, Zenon DEF IInv

(* set_score_data: the database gets the data that the cache has.          *)
LEMMA StoreKeeps ==
    ASSUME IInv, NEW u \in UserId, set_score_data(u)
    PROVE  IInv'
<1> DEFINE row == pc[u].row
           k == Key(row)
<1>0. /\ Types /\ Ranking /\ CommandOK(u) /\ RowsOK(u) /\ pc[u].at = "db"
      /\ db' = [db EXCEPT ![k].data = row.data] \/ db' = db
      /\ pc' = [pc EXCEPT ![u] = Idle]
  BY DEF IInv, set_score_data
<1>u. UNCHANGED <<gone, sorted_scores, npid_lookup, users, files, next_id, clock>>
  BY DEF set_score_data, cache, disk
<1>1. pc[u] # Idle /\ row \in Row /\ k[1] = u BY <1>0, Shapes
<1>3. PcTypes' /\ pc'[u] = Idle /\ \A v \in UserId \ {u} : pc'[v] = pc[v]
  <2>1. PcTypes /\ pc' = [pc EXCEPT ![u] = Idle] BY <1>0 DEF Types
  <2> QED BY <2>1, PcStep, Zenon
<1>4. /\ k \in DOMAIN db /\ db[k] = Clear(row) /\ Owned(row, files)
      /\ k \in DOMAIN npid_lookup => Cached(k) = row
  BY <1>0, <1>1 DEF CommandOK
<1>5. [Clear(row) EXCEPT !.data = row.data] = row /\ Clear(row).score = row.score
  BY <1>1, Zenon DEF Clear, Row
<1>6. /\ DOMAIN db' = DOMAIN db /\ db'[k] \in {row, Clear(row)}
      /\ \A q \in DOMAIN db : q # k => db'[q] = db[q]
  BY <1>0, <1>4, <1>5
<1>9. /\ CacheTypes' /\ Ranking'
      /\ \A q : Cached(q)' = Cached(q) /\ Clear(Cached(q))' = Clear(Cached(q))
  BY <1>0, <1>u, CacheSame DEF Types
<1>7. Types'
  <2>1. \A q \in DOMAIN db' : db'[q] \in Row /\ Key(db'[q]) = q /\ q[1] \notin gone
    BY <1>0, <1>1, <1>4, <1>6 DEF Types, DbTypes
  <2>2. DbTypes' BY <1>0, <1>u, <1>6, <2>1 DEF Types, DbTypes
  <2> QED BY <1>0, <1>u, <1>3, <1>9, <2>2, FilesSame DEF Types
<1>10. ASSUME NEW v \in UserId, v # u PROVE CommandOK(v)' /\ RowsOK(v)'
  <2>1. Steady(v) BY <1>u, <1>1, <1>3, <1>6, <1>9, <1>10, ZenonT(30) DEF Steady
  <2> QED BY <1>0, <2>1, SteadyKeeps, ZenonT(30) DEF IInv
<1>11. CommandOK(u)' BY <1>3, SMTT(30) DEF CommandOK
<1>12. RowsOK(u)'
  <2>2. ASSUME NEW q \in DOMAIN npid_lookup, q[1] = u
        PROVE  /\ Owned(Cached(q), files)
               /\ u \notin gone => q \in DOMAIN db' /\ db'[q] \in {Cached(q), Clear(Cached(q))}
    <3>1. ~Inserting(q) BY <1>0, <2>2 DEF Inserting
    <3>2. CASE q = k BY <1>0, <1>4, <1>6, <2>2, <3>2 DEF RowsOK
    <3>3. CASE q # k BY <1>0, <1>6, <2>2, <3>1, <3>3, SMTT(30) DEF RowsOK
    <3> QED BY <3>2, <3>3
  <2>3. ASSUME NEW q \in DOMAIN db', q[1] = u PROVE Owned(db'[q], files)
    <3>1. Owned(db[q], files) BY <1>0, <1>6, <2>3 DEF RowsOK
    <3> QED BY <1>4, <1>6, <3>1
  <2> QED BY <1>u, <1>9, <2>2, <2>3, SMTT(30) DEF RowsOK
<1>13. ~ForceUpdate => \A q \in DOMAIN db' \ DOMAIN npid_lookup' : LeftOut(q)'
  <2>1. \A q \in DOMAIN db' : q \in DOMAIN db /\ db'[q].score = db[q].score
    BY <1>4, <1>5, <1>6, SMTT(30)
  <2> QED BY <1>0, <1>u, <1>3, <2>1, LeftOutKept
<1> QED BY <1>7, <1>9, <1>10, <1>11, <1>12, <1>13 DEF IInv

(* delete_user: only rows of a user without a command go.                  *)
LEMMA DeleteKeeps ==
    ASSUME IInv, NEW u \in UserId, delete_user(u)
    PROVE  IInv'
<1>0. /\ Types /\ Ranking /\ CommandOK(u) /\ RowsOK(u) /\ pc[u] = Idle
      /\ gone' = gone \cup {u} /\ db' = [k \in {q \in DOMAIN db : q[1] # u} |-> db[k]]
  BY DEF IInv, delete_user
<1>u. UNCHANGED <<sorted_scores, npid_lookup, users, files, next_id, clock, pc>>
  BY DEF delete_user, cache, disk
<1>1. /\ DOMAIN db' = {q \in DOMAIN db : q[1] # u}
      /\ \A q \in DOMAIN db' : db'[q] = db[q]
  BY <1>0
<1>4. /\ CacheTypes' /\ Ranking'
      /\ \A q : Cached(q)' = Cached(q) /\ Clear(Cached(q))' = Clear(Cached(q))
  BY <1>0, <1>u, CacheSame DEF Types
<1>2. Types'
  <2>1. IsFiniteSet(DOMAIN db') BY <1>0, <1>1, FS_Subset, SMTT(30) DEF Types, DbTypes
  <2>2. DbTypes' BY <1>0, <1>1, <2>1, ZenonT(30) DEF Types, DbTypes
  <2>3. PcTypes' BY <1>0, <1>u DEF Types, PcTypes
  <2> QED BY <1>0, <1>u, <1>4, <2>2, <2>3, FilesSame, SMTT(30) DEF Types
<1>5. ASSUME NEW v \in UserId, v # u PROVE CommandOK(v)' /\ RowsOK(v)'
  <2>1. Steady(v) BY <1>0, <1>u, <1>1, <1>4, <1>5 DEF Steady
  <2> QED BY <1>0, <2>1, SteadyKeeps, SMTT(30) DEF IInv
<1>6. CommandOK(u)' BY <1>0, <1>u, ZenonT(30) DEF CommandOK
<1>7. RowsOK(u)'
  <2>1. u \in gone' BY <1>0
  <2>2. \A q \in DOMAIN npid_lookup : q[1] = u => Owned(Cached(q), files) BY <1>0, Zenon DEF RowsOK
  <2> QED BY <1>u, <1>1, <1>4, <2>1, <2>2 DEF RowsOK
<1>8. ~ForceUpdate => \A q \in DOMAIN db' \ DOMAIN npid_lookup' : LeftOut(q)'
  BY <1>0, <1>u, <1>1, LeftOutKept, Shapes, ZenonT(30)
<1> QED BY <1>2, <1>4, <1>5, <1>6, <1>7, <1>8 DEF IInv

-----------------------------------------------------------------------------
(* insert_score on a ranking s with index f, apart from the variables.     *)
Rest(s, f, row) == IF OldPos(f, row) = 0 THEN s ELSE Cut(s, OldPos(f, row))

Inserted(s, f, row, t, g) ==
    LET old == OldPos(f, row)
        rest == Rest(s, f, row)
    IN  \/ ~Qualifies(row, rest) /\ t = rest /\ g = f
        \/ /\ Qualifies(row, rest)
           /\ \E pos \in Positions(row, rest) :
                LET all == Put(rest, pos, row)
                    index == NewIndex(f, row, old, pos, all)
                IN  IF Len(all) > Limit THEN t = SubSeq(all, 1, Len(all) - 1) /\ g = Dropped(index, all)
                                        ELSE t = all /\ g = index

(* t ranks the row or rows of s of other keys; a key that loses its place  *)
(* loses it to a full ranking of rows that are not worse than its own; and *)
(* a row that is new in a full ranking does not lose against all of s.     *)
Outcome(s, f, row, t, g) ==
    /\ t \in Seq(Row) /\ Len(t) <= RankLimit /\ Distinct(t) /\ Ordered(t) /\ IndexOf(g, t)
    /\ \A i \in 1..Len(t) :
         t[i] = row \/ \E j \in 1..Len(s) : t[i] = s[j] /\ Key(s[j]) # Key(row)
    /\ Len(s) = RankLimit => Len(t) = RankLimit
    /\ \A q \in (DOMAIN f \cup {Key(row)}) \ DOMAIN g :
         \E d \in Row : /\ \/ q = Key(row) /\ d = row
                           \/ q # Key(row) /\ q \in DOMAIN f /\ d = s[f[q]]
                        /\ Len(t) = RankLimit
                        /\ \A i \in 1..Len(t) : ~Beats(d.score, t[i].score)
    /\ Len(s) = RankLimit /\ Key(row) \notin DOMAIN f /\ (\E i \in 1..Len(t) : t[i] = row)
         => \E j \in 1..Len(s) : ~Beats(s[j].score, row.score)

(* The last row of a ranking is pushed out.                                *)
LEMMA FrontRanked ==
    ASSUME NEW all \in Seq(Row), Len(all) > 0, Distinct(all), Ordered(all),
           NEW index, IndexOf(index, all),
           NEW t, t = SubSeq(all, 1, Len(all) - 1),
           NEW g, g = Dropped(index, all)
    PROVE  /\ t \in Seq(Row) /\ Len(t) = Len(all) - 1 /\ Distinct(t) /\ Ordered(t)
           /\ \A i \in 1..Len(t) : t[i] = all[i]
           /\ IndexOf(g, t)
           /\ \A i \in 1..Len(t) : NotWorse(t[i], all[Len(all)])
<1> DEFINE n == Len(all)
<1>0. g = [q \in DOMAIN index \ {Key(all[Len(all)])} |-> index[q]] BY DEF Dropped
<1>1. n \in Nat /\ n - 1 \in 0..n /\ all[Len(all)] = all[n] BY LenProperties
<1>2. t \in Seq(Row) /\ Len(t) = n - 1 /\ \A i \in 1..(n - 1) : t[i] = all[i]
  BY <1>1, PrefixElements, Zenon
<1>w. \A i \in 1..(n - 1) : i \in 1..n BY <1>1
<1>3. Distinct(t) BY <1>2, <1>w, Zenon DEF Distinct
<1>4. Ordered(t) BY <1>2, <1>w, Zenon DEF Ordered
<1>5. \A i \in 1..(n - 1) : NotWorse(t[i], all[Len(all)]) BY <1>1, <1>2 DEF Ordered
<1>6. IndexOf(g, t)
  <2>1. \A i \in 1..(n - 1) : Key(all[i]) # Key(all[n]) BY <1>1 DEF Distinct
  <2>2. \A q \in DOMAIN index : index[q] \in 1..n /\ Key(all[index[q]]) = q BY DEF IndexOf
  <2>3. \A q \in DOMAIN g : q \in DOMAIN index /\ g[q] = index[q] /\ q # Key(all[n])
    BY <1>0, <1>1
  <2>4. \A q \in DOMAIN g : g[q] \in 1..(n - 1) /\ Key(t[g[q]]) = q
    <3> SUFFICES ASSUME NEW q \in DOMAIN g PROVE g[q] \in 1..(n - 1) /\ Key(t[g[q]]) = q
      OBVIOUS
    <3>1. g[q] \in 1..n /\ Key(all[g[q]]) = q /\ g[q] # n BY <2>2, <2>3
    <3>2. g[q] \in 1..(n - 1) BY <1>1, <3>1
    <3> QED BY <1>2, <3>1, <3>2
  <2>5. ASSUME NEW i \in 1..(n - 1) PROVE Key(t[i]) \in DOMAIN g
    <3>1. i \in 1..n BY <1>1
    <3>2. Key(all[i]) \in DOMAIN index BY <3>1 DEF IndexOf
    <3> QED BY <1>0, <1>1, <1>2, <2>1, <3>2
  <2>6. DOMAIN g = {Key(t[i]) : i \in 1..(n - 1)} BY <2>4, <2>5, Zenon
  <2> QED BY <1>2, <2>4, <2>6 DEF IndexOf
<1> QED BY <1>2, <1>3, <1>4, <1>5, <1>6

(* Cut on the ranking.                                                     *)
LEMMA RestFacts ==
    ASSUME NEW s \in Seq(Row), Len(s) <= RankLimit, Distinct(s), Ordered(s),
           NEW f, IndexOf(f, s), NEW row \in Row,
           NEW old, old = OldPos(f, row),
           NEW rest, rest = IF old = 0 THEN s ELSE Cut(s, old)
    PROVE  RestOK(s, f, row, old, rest)
<1> DEFINE k == Key(row)
           n == Len(s)
<1>1. /\ rest \in Seq(Row) /\ old \in 0..n /\ (old = 0 <=> k \notin DOMAIN f)
      /\ Len(rest) = IF old = 0 THEN n ELSE n - 1
      /\ \A j \in 1..Len(rest) : /\ rest[j] = s[IF old = 0 \/ j < old THEN j ELSE j + 1]
                                 /\ Key(rest[j]) # k
  BY RestOf DEF OldPos
<1>2. n \in Nat /\ Len(rest) \in Nat /\ RankLimit \in Nat \ {0}
      /\ \A j \in 1..n : s[j] \in Row
  BY <1>1, LenProperties, ScoresAssumption
<1>3. Distinct(rest) /\ Ordered(rest) BY <1>1, RestOrdered, Zenon
<1>4. ASSUME Len(rest) >= RankLimit
      PROVE  rest = s /\ n = RankLimit /\ n \in 1..n /\ k \notin DOMAIN f /\ rest[Len(rest)] = s[n]
  BY <1>1, <1>2, <1>4
<1>5. ASSUME NEW j \in 1..Len(rest) PROVE \E i \in 1..n : rest[j] = s[i] /\ Key(s[i]) # k
  <2>1. (IF old = 0 \/ j < old THEN j ELSE j + 1) \in 1..n BY <1>1, <1>2
  <2> QED BY <1>1, <2>1, ZenonT(30)
<1> QED BY <1>1, <1>2, <1>3, <1>4, <1>5 DEF RestOK

(* A row that does not qualify leaves a full ranking as it was.            *)
LEMMA RefusedOutcome ==
    ASSUME NEW s \in Seq(Row), Len(s) <= RankLimit, Distinct(s), Ordered(s),
           NEW f, IndexOf(f, s), NEW row \in Row,
           NEW old, NEW rest, RestOK(s, f, row, old, rest),
           ~Qualifies(row, rest)
    PROVE  Outcome(s, f, row, rest, f) /\ \A i \in 1..Len(rest) : rest[i] # row
<1> DEFINE k == Key(row)
           n == Len(s)
<1>1. Len(rest) >= RankLimit /\ ~Before(row, rest[Len(rest)]) BY SMTT(30) DEF Qualifies
<1>2. /\ rest = s /\ n = RankLimit /\ n \in 1..n /\ k \notin DOMAIN f /\ n \in Nat
      /\ ~Before(row, s[n]) /\ \A j \in 1..n : s[j] \in Row
  BY <1>1 DEF RestOK
<1>3. ASSUME NEW i \in 1..n PROVE ~Beats(row.score, s[i].score)
  <2>1. i = n \/ NotWorse(s[i], s[n]) BY <1>2 DEF Ordered
  <2>2. row.score \in Int /\ s[i].score \in Int /\ s[n].score \in Int BY <1>2, RowFields, ZenonT(30)
  <2>3. ~Beats(row.score, s[n].score) BY <1>2 DEF Before
  <2> QED BY <2>1, <2>2, <2>3, BeatsChain, Zenon DEF NotWorse
<1>4. \A j \in 1..n : Key(s[j]) # k BY <1>2 DEF IndexOf
<1>5. \A q \in (DOMAIN f \cup {k}) \ DOMAIN f :
        \E d \in Row : /\ (q = k /\ d = row) \/ (q # k /\ q \in DOMAIN f /\ d = s[f[q]])
                       /\ Len(s) = RankLimit
                       /\ \A i \in 1..Len(s) : ~Beats(d.score, s[i].score)
  BY <1>2, <1>3, Zenon
<1>6. \A i \in 1..n : s[i] # row BY <1>4
<1> HIDE DEF k
<1> SUFFICES Outcome(s, f, row, s, f) BY <1>2, <1>6
<1> QED BY <1>2, <1>4, <1>5, <1>6 DEF Outcome, k

(* Put on what is left.                                                    *)
LEMMA AllFacts ==
    ASSUME NEW s, NEW f, NEW row \in Row, NEW old, NEW rest, RestOK(s, f, row, old, rest),
           NEW pos \in Positions(row, rest), NEW all, all = Put(rest, pos, row)
    PROVE  AllOK(rest, row, pos, all)
<1>1. /\ rest \in Seq(Row) /\ \A j \in 1..Len(rest) : Key(rest[j]) # Key(row)
      /\ Distinct(rest) /\ Ordered(rest)
  BY DEF RestOK
<1> QED BY <1>1, InsertOrdered, SMTT(30) DEF AllOK

(* A row that qualifies is ranked, and may push the last one out.          *)
LEMMA TakenOutcome ==
    ASSUME NEW s \in Seq(Row), Len(s) <= RankLimit, Distinct(s), Ordered(s),
           NEW f, IndexOf(f, s), NEW row \in Row,
           NEW old, NEW rest, RestOK(s, f, row, old, rest),
           Qualifies(row, rest), NEW pos, NEW all, AllOK(rest, row, pos, all),
           NEW index, IndexOf(index, all), DOMAIN index = DOMAIN f \cup {Key(row)},
           NEW t, NEW g,
           Len(all) > Limit => t = SubSeq(all, 1, Len(all) - 1) /\ g = Dropped(index, all),
           ~(Len(all) > Limit) => t = all /\ g = index
    PROVE  Outcome(s, f, row, t, g)
<1> DEFINE k == Key(row)
           n == Len(s)
<1>0. /\ rest \in Seq(Row) /\ old \in 0..n /\ (old = 0 <=> k \notin DOMAIN f)
      /\ Len(rest) = IF old = 0 THEN n ELSE n - 1
      /\ \A j \in 1..Len(rest) : rest[j] = s[IF old = 0 \/ j < old THEN j ELSE j + 1]
      /\ \A j \in 1..Len(rest) : Key(rest[j]) # k
      /\ n \in Nat /\ Len(rest) \in Nat /\ RankLimit \in Nat \ {0}
      /\ \A j \in 1..n : s[j] \in Row
      /\ Distinct(rest) /\ Ordered(rest)
  BY ScoresAssumption, ZenonT(30) DEF RestOK
<1>x. Len(rest) >= RankLimit =>
        rest = s /\ n = RankLimit /\ n \in 1..n /\ k \notin DOMAIN f /\ rest[Len(rest)] = s[n]
  BY DEF RestOK
<1>y. \A j \in 1..Len(rest) : \E i \in 1..n : rest[j] = s[i] /\ Key(s[i]) # k BY ZenonT(30) DEF RestOK
<1>1. /\ all \in Seq(Row) /\ Len(all) = Len(rest) + 1
      /\ \A j \in 1..Len(all) :
           all[j] = IF j = pos THEN row ELSE rest[IF j < pos THEN j ELSE j - 1]
      /\ pos \in 1..Len(all) /\ Distinct(all) /\ Ordered(all)
  BY DEF AllOK
<1>4. ASSUME NEW i \in 1..Len(all)
      PROVE  all[i] = row \/ \E j \in 1..n : all[i] = s[j] /\ Key(s[j]) # k
  <2>1. CASE i = pos BY <1>1, <2>1
  <2>2. CASE i # pos
    <3> DEFINE j == IF i < pos THEN i ELSE i - 1
    <3>1. /\ i \in 1..Len(all) /\ pos \in 1..Len(all) /\ i # pos
          /\ Len(all) = Len(rest) + 1 /\ Len(rest) \in Nat
      BY <1>0, <1>1, <2>2, Zenon
    <3>2. j \in 1..Len(rest) BY ONLY <3>1, SMT
    <3>3. all[i] = rest[j] BY <1>1, <2>2, Zenon
    <3> HIDE DEF j
    <3> QED BY ONLY <1>y, <3>2, <3>3, Zenon
  <2> QED BY <2>1, <2>2, ZenonT(30)
<1>5. CASE ~(Len(all) > Limit)
  <2>1. t = all /\ g = index /\ Len(t) <= RankLimit BY <1>0, <1>1, <1>5 DEF Limit
  <2>2. n = RankLimit => old # 0 /\ Len(t) = RankLimit BY <1>0, <1>1, <2>1
  <2>3. n = RankLimit => k \in DOMAIN f BY <1>0, <2>2, ZenonT(30)
  <2> QED BY <1>1, <1>4, <2>1, <2>2, <2>3, Zenon DEF Outcome
<1>6. CASE Len(all) > Limit
  <2>1. /\ t = SubSeq(all, 1, Len(all) - 1) /\ g = Dropped(index, all)
        /\ Len(rest) >= RankLimit /\ Len(all) > 0
    BY <1>0, <1>1, <1>6 DEF Limit
  <2>2. /\ rest = s /\ n = RankLimit /\ n \in 1..n /\ k \notin DOMAIN f
        /\ Before(row, s[n])
    BY <1>x, <2>1 DEF Qualifies
  <2>3. /\ t \in Seq(Row) /\ Len(t) = RankLimit /\ Distinct(t) /\ Ordered(t)
        /\ \A i \in 1..Len(t) : t[i] = all[i] /\ i \in 1..Len(all)
        /\ IndexOf(g, t) /\ \A i \in 1..Len(t) : NotWorse(t[i], all[Len(all)])
    <3>1. /\ t \in Seq(Row) /\ Len(t) = Len(all) - 1 /\ Distinct(t) /\ Ordered(t)
          /\ \A i \in 1..Len(t) : t[i] = all[i]
          /\ IndexOf(g, t) /\ \A i \in 1..Len(t) : NotWorse(t[i], all[Len(all)])
      BY <1>1, <2>1, FrontRanked, ZenonT(30)
    <3>2. Len(all) = RankLimit + 1 BY <1>1, <2>2
    <3> QED BY <1>0, <3>1, <3>2
  <2>4. ~Beats(s[n].score, row.score) BY <1>0, <2>2, NotWorseOrder
  <2> DEFINE d == all[Len(all)]
  <2>5. d = all[Len(all)] /\ Len(all) \in 1..Len(all) /\ d \in Row
    BY <1>0, <1>1, LenProperties
  <2>6. \A i \in 1..Len(t) : ~Beats(d.score, t[i].score)
    <3>1. \A i \in 1..Len(t) : t[i] \in Row BY <2>3, LenProperties
    <3> QED BY <2>3, <2>5, <3>1, NotWorseOrder
  <2>7. ASSUME NEW q \in (DOMAIN f \cup {k}) \ DOMAIN g
        PROVE  Key(d) = q /\ ((q = k /\ d = row) \/ (q # k /\ q \in DOMAIN f /\ d = s[f[q]]))
    <3>1. Key(d) = q BY <2>1 DEF Dropped
    <3>2. CASE d = row BY <3>1, <3>2, Zenon
    <3>3. CASE d # row
      <4>1. PICK j \in 1..n : d = s[j] /\ Key(s[j]) # k BY <1>4, <2>5, <3>3
      <4>2. q \in DOMAIN f BY <3>1, <4>1
      <4>3. f[q] \in 1..n /\ Key(s[f[q]]) = q BY <4>2, Zenon DEF IndexOf
      <4>4. f[q] = j BY <3>1, <4>1, <4>3 DEF Distinct
      <4> QED BY <3>1, <4>1, <4>2, <4>4, ZenonT(30)
    <3> QED BY <3>2, <3>3, Zenon
  <2>8. \A q \in (DOMAIN f \cup {k}) \ DOMAIN g :
          \E e \in Row : /\ (q = k /\ e = row) \/ (q # k /\ q \in DOMAIN f /\ e = s[f[q]])
                         /\ Len(t) = RankLimit
                         /\ \A i \in 1..Len(t) : ~Beats(e.score, t[i].score)
    BY <2>3, <2>5, <2>6, <2>7, SMTT(30)
  <2>9. \A i \in 1..Len(t) : t[i] = row \/ \E j \in 1..n : t[i] = s[j] /\ Key(s[j]) # k
    BY <1>4, <2>3
  <2> QED BY <2>2, <2>3, <2>4, <2>8, <2>9, ScoresAssumption, ZenonT(30) DEF Outcome
<1> QED BY <1>5, <1>6

(* insert_score as a whole.                                                *)
LEMMA InsertOutcome ==
    ASSUME NEW s \in Seq(Row), Len(s) <= RankLimit, Distinct(s), Ordered(s),
           NEW f, IndexOf(f, s), NEW row \in Row, NEW t, NEW g, Inserted(s, f, row, t, g)
    PROVE  /\ Outcome(s, f, row, t, g)
           /\ (\E i \in 1..Len(t) : t[i] = row) => Qualifies(row, Rest(s, f, row))
<1>1. PICK old : old = OldPos(f, row) OBVIOUS
<1>2. PICK rest : rest = Rest(s, f, row) OBVIOUS
<1>r. RestOK(s, f, row, old, rest) BY <1>1, <1>2, RestFacts DEF Rest
<1>3. CASE ~Qualifies(row, rest) /\ t = rest /\ g = f
  BY <1>r, <1>2, <1>3, RefusedOutcome, SMTT(30)
<1>4. CASE Qualifies(row, rest) /\ \E pos \in Positions(row, rest) :
             LET all == Put(rest, pos, row)
                 index == NewIndex(f, row, old, pos, all)
             IN  IF Len(all) > Limit THEN t = SubSeq(all, 1, Len(all) - 1) /\ g = Dropped(index, all)
                                     ELSE t = all /\ g = index
  <2>1. PICK pos \in Positions(row, rest) :
             LET all == Put(rest, pos, row)
                 index == NewIndex(f, row, old, pos, all)
             IN  IF Len(all) > Limit THEN t = SubSeq(all, 1, Len(all) - 1) /\ g = Dropped(index, all)
                                     ELSE t = all /\ g = index
    BY <1>4
  <2>2. PICK all : all = Put(rest, pos, row) OBVIOUS
  <2>3. PICK index : index = NewIndex(f, row, old, pos, all) OBVIOUS
  <2>4. /\ Len(all) > Limit => t = SubSeq(all, 1, Len(all) - 1) /\ g = Dropped(index, all)
        /\ ~(Len(all) > Limit) => t = all /\ g = index
    BY <2>1, <2>2, <2>3, Zenon
  <2>5. AllOK(rest, row, pos, all) BY <1>r, <2>2, AllFacts
  <2>6. IndexOf(index, all) BY <1>1, <1>r, <2>3, <2>5, InsertIndexed
  <2>7. DOMAIN index = DOMAIN f \cup {Key(row)} BY <2>3 DEF NewIndex
  <2>8. Outcome(s, f, row, t, g) BY <1>r, <1>4, <2>4, <2>5, <2>6, <2>7, TakenOutcome, ZenonT(30)
  <2> QED BY <1>2, <1>4, <2>8
<1> QED BY <1>1, <1>2, <1>3, <1>4, Zenon DEF Inserted

(* insert_score: the ranking stays exact, and a row that loses its place   *)
(* does not beat one that has one.                                         *)
LEMMA InsertKeeps ==
    ASSUME IInv, NEW u \in UserId, insert_score(u)
    PROVE  IInv'
<1> DEFINE row == pc[u].row
           k == Key(row)
<1>0. /\ Types /\ Ranking /\ CommandOK(u) /\ RowsOK(u) /\ pc[u].at = "insert"
      /\ pc' = [pc EXCEPT ![u] = Idle]
  BY Zenon DEF IInv, insert_score
<1>u. UNCHANGED <<db, gone, files, next_id, clock>> BY ZenonT(30) DEF insert_score, disk
<1>1. /\ pc[u] # Idle /\ row \in Row /\ row.user = u /\ k[1] = u /\ Inserting(k)
  BY <1>0, Shapes DEF Inserting
<1>2. /\ u \notin gone /\ k \in DOMAIN db /\ db[k] = row
      /\ ~ForceUpdate /\ k \in DOMAIN npid_lookup => ~Beats(Cached(k).score, row.score)
  BY <1>0, <1>1, Zenon DEF CommandOK
<1>4. PcTypes' /\ pc'[u] = Idle /\ \A v \in UserId \ {u} : pc'[v] = pc[v]
  <2>1. PcTypes /\ pc' = [pc EXCEPT ![u] = Idle] BY <1>0, ZenonT(30) DEF Types
  <2> QED BY <2>1, PcStep, Zenon
<1>5. /\ sorted_scores \in Seq(Row) /\ Len(sorted_scores) <= RankLimit
      /\ Distinct(sorted_scores) /\ Ordered(sorted_scores)
      /\ IndexOf(npid_lookup, sorted_scores) /\ Len(sorted_scores) \in Nat
      /\ DOMAIN sorted_scores = 1..Len(sorted_scores)
  BY <1>0, IndexFacts DEF Types, CacheTypes, Ranking
<1>6. Inserted(sorted_scores, npid_lookup, row, sorted_scores', npid_lookup')
  BY Zenon DEF insert_score, Inserted, Rest, NewIndex, Dropped, OldPos, Cut, Put
<1>7. /\ Outcome(sorted_scores, npid_lookup, row, sorted_scores', npid_lookup')
      /\ (\E i \in 1..Len(sorted_scores') : sorted_scores'[i] = row) =>
           Qualifies(row, Rest(sorted_scores, npid_lookup, row))
  BY <1>1, <1>5, <1>6, InsertOutcome, Zenon
<1>8. /\ sorted_scores' \in Seq(Row) /\ Len(sorted_scores') <= RankLimit
      /\ Distinct(sorted_scores') /\ Ordered(sorted_scores')
      /\ IndexOf(npid_lookup', sorted_scores')
      /\ Len(sorted_scores') \in Nat /\ DOMAIN sorted_scores' = 1..Len(sorted_scores')
  BY <1>7, LenProperties, ZenonT(30) DEF Outcome
<1>9. ASSUME NEW i \in 1..Len(sorted_scores')
      PROVE  \/ sorted_scores'[i] = row
             \/ \E j \in 1..Len(sorted_scores) :
                  sorted_scores'[i] = sorted_scores[j] /\ Key(sorted_scores[j]) # k
  BY <1>7, ZenonT(30) DEF Outcome
<1>10. /\ users \subseteq users' /\ users' \subseteq users \cup {u}
       /\ \A i \in 1..Len(sorted_scores') : sorted_scores'[i].user \in users'
  <2>1. /\ users' \in {users, users \cup {u}}
        /\ Qualifies(row, Rest(sorted_scores, npid_lookup, row)) => u \in users'
    BY Zenon DEF insert_score, Rest, OldPos, Cut
  <2>2. ASSUME NEW i \in 1..Len(sorted_scores') PROVE sorted_scores'[i].user \in users'
    <3>1. CASE sorted_scores'[i] = row BY <1>1, <1>7, <2>1, <3>1, ZenonT(30)
    <3>2. CASE sorted_scores'[i] # row
      <4>1. PICK j \in 1..Len(sorted_scores) : sorted_scores'[i] = sorted_scores[j]
        BY <1>9, <3>2
      <4> QED BY <1>0, <1>5, <2>1, <4>1, ZenonT(30) DEF Ranking, LookupExact
    <3> QED BY <3>1, <3>2
  <2> QED BY <2>1, <2>2
<1>11. Types'
  <2>1. users \subseteq UserId BY <1>0 DEF Types, CacheTypes
  <2>2. CacheTypes' BY <1>8, <1>10, <2>1, Zenon DEF CacheTypes
  <2> QED BY <1>0, <1>u, <1>4, <2>2, DbSame, FilesSame DEF Types
<1>12. Ranking'
  <2>1. RankingOrdered' BY <1>8, ZenonT(30) DEF RankingOrdered, Ordered, NotWorse
  <2>2. LookupExact' BY <1>8, <1>10, ZenonT(30) DEF LookupExact, IndexOf
  <2> QED BY <1>8, <2>1, <2>2 DEF Ranking
<1>13. ASSUME NEW q \in DOMAIN npid_lookup'
       PROVE  /\ q = k => Cached(q)' = row
              /\ q # k => q \in DOMAIN npid_lookup /\ Cached(q)' = Cached(q)
  <2>1. npid_lookup'[q] \in 1..Len(sorted_scores') /\ Key(sorted_scores'[npid_lookup'[q]]) = q
    BY <1>8 DEF IndexOf
  <2>2. Cached(q)' = sorted_scores'[npid_lookup'[q]] BY DEF Cached
  <2>3. CASE Cached(q)' = row BY <2>1, <2>2, <2>3, ZenonT(30)
  <2>4. CASE Cached(q)' # row
    <3>1. PICK j \in 1..Len(sorted_scores) :
            Cached(q)' = sorted_scores[j] /\ Key(sorted_scores[j]) # k
      BY <1>9, <2>1, <2>2, <2>4, ZenonT(30)
    <3>2. /\ Key(sorted_scores[j]) \in DOMAIN npid_lookup
          /\ Cached(Key(sorted_scores[j])) = sorted_scores[j]
      BY <1>0, IndexFacts
    <3> QED BY <2>1, <2>2, <3>1, <3>2, SMTT(30)
  <2> QED BY <2>3, <2>4, SMTT(30)
<1>14. ASSUME NEW v \in UserId, v # u PROVE CommandOK(v)' /\ RowsOK(v)'
  <2>1. Steady(v) BY <1>u, <1>1, <1>4, <1>13, <1>14 DEF Steady
  <2> QED BY <1>0, <2>1, SteadyKeeps, ZenonT(30) DEF IInv
<1>15. CommandOK(u)' BY <1>4 DEF CommandOK
<1>16. RowsOK(u)'
  <2>1. Owned(row, files) BY <1>0, <1>1, <1>2, ZenonT(30) DEF RowsOK
  <2>2. ASSUME NEW q \in DOMAIN npid_lookup', q[1] = u
        PROVE  /\ Owned(Cached(q)', files)
               /\ q \in DOMAIN db /\ db[q] \in {Cached(q)', Clear(Cached(q)')}
    <3>1. CASE q = k BY <1>2, <1>13, <2>1, <3>1, ZenonT(30)
    <3>2. CASE q # k
      <4>1. ~Inserting(q) BY <2>2, <3>2 DEF Inserting
      <4> QED BY <1>0, <1>2, <1>13, <2>2, <3>2, <4>1, ZenonT(30) DEF RowsOK
    <3> QED BY <3>1, <3>2, Zenon
  <2>3. \A q : Clear(Cached(q))' = Clear(Cached(q)') BY DEF Clear
  <2> QED BY <1>0, <1>u, <2>2, <2>3, ZenonT(30) DEF RowsOK
<1>17. ASSUME ~ForceUpdate, NEW q \in DOMAIN db' \ DOMAIN npid_lookup', ~Inserting(q)'
       PROVE  /\ Len(sorted_scores') = RankLimit
              /\ \A i \in 1..Len(sorted_scores') : ~Beats(db[q].score, sorted_scores'[i].score)
  <2>1. /\ q \in DOMAIN db /\ db[q] \in Row /\ q[1] \in UserId /\ q[1] \notin gone
        /\ db[q].score \in Int
    BY <1>0, <1>u, <1>17, RowFields, Zenon DEF Types, DbTypes
  <2>2. q # k => ~Inserting(q)
    <3>1. CASE q[1] = u BY <3>1, ZenonT(30) DEF Inserting
    <3>2. CASE q[1] # u BY <1>4, <1>17, <2>1, <3>2 DEF Inserting
    <3> QED BY <3>1, <3>2, ZenonT(30)
  <2>3. CASE q \in DOMAIN npid_lookup \cup {k}
    <3>1. PICK d \in Row :
            /\ (q = k /\ d = row) \/ (q # k /\ q \in DOMAIN npid_lookup /\ d = Cached(q))
            /\ Len(sorted_scores') = RankLimit
            /\ \A i \in 1..Len(sorted_scores') : ~Beats(d.score, sorted_scores'[i].score)
      BY <1>7, <1>17, <2>3, ZenonT(30) DEF Outcome, Cached
    <3>2. CASE q = k BY <1>2, <3>1, <3>2, ZenonT(30)
    <3>3. CASE q # k
      <4>1. db[q] \in {d, Clear(d)} BY <1>17, <2>1, <2>2, <3>1, <3>3, Zenon DEF IInv, RowsOK
      <4>2. db[q].score = d.score BY <4>1 DEF Clear, Row
      <4> QED BY <3>1, <4>2, Zenon
    <3> QED BY <3>2, <3>3, ZenonT(30)
  <2>4. CASE q \notin DOMAIN npid_lookup \cup {k}
    <3>1. /\ Len(sorted_scores) = RankLimit
          /\ \A j \in 1..Len(sorted_scores) : ~Beats(db[q].score, sorted_scores[j].score)
      BY <1>17, <2>1, <2>2, <2>4 DEF IInv, LeftOut
    <3>2. Len(sorted_scores') = RankLimit BY <1>7, <3>1, ZenonT(30) DEF Outcome
    <3>3. ASSUME NEW i \in 1..Len(sorted_scores'), sorted_scores'[i] = row
          PROVE  ~Beats(db[q].score, row.score)
      <4>1. PICK j \in 1..Len(sorted_scores) : ~Beats(sorted_scores[j].score, row.score)
        <5>1. CASE k \in DOMAIN npid_lookup
          BY <1>0, <1>2, <1>17, <5>1, IndexFacts, ZenonT(30) DEF Cached
        <5>2. CASE k \notin DOMAIN npid_lookup BY <1>7, <3>1, <3>3, <5>2, ZenonT(30) DEF Outcome
        <5> QED BY <5>1, <5>2
      <4>2. sorted_scores[j].score \in Int /\ row.score \in Int
        BY <1>0, <1>1, RowFields, IndexFacts, ZenonT(30)
      <4>3. ~Beats(db[q].score, sorted_scores[j].score) BY <3>1
      <4> QED BY <2>1, <4>1, <4>2, <4>3, SMTT(30) DEF Beats
    <3> QED BY <1>9, <3>1, <3>2, <3>3, ZenonT(30)
  <2> QED BY <2>3, <2>4, ZenonT(30)
<1>18. ~ForceUpdate => \A q \in DOMAIN db' \ DOMAIN npid_lookup' : LeftOut(q)'
  BY <1>u, <1>17, Zenon DEF LeftOut
<1> QED BY <1>11, <1>12, <1>14, <1>15, <1>16, <1>18 DEF IInv

-----------------------------------------------------------------------------
(* Restart.                                                                *)

(* A set of numbers that has a bound has a largest element.                *)
LEMMA MaxBounds ==
    ASSUME NEW n \in Nat, NEW S \in SUBSET (1..n), S # {}
    PROVE  Max(S) \in 1..n /\ \A i \in S : i <= Max(S)
<1> DEFINE T == {m \in Nat : \A i \in S : i <= m}
<1>1. T \subseteq Nat /\ n \in T OBVIOUS
<1>2. PICK m \in T : \A y \in T : ~(<<y, m>> \in OpToRel(<, Nat))
  <2> HIDE DEF T
  <2> QED BY <1>1, NatLessThanWellFounded, WFMin, Zenon
<1>3. \A y \in T : ~(y < m) BY <1>2, Zenon DEF OpToRel
<1>4. m \in S
  <2>1. SUFFICES ASSUME m \notin S PROVE FALSE OBVIOUS
  <2>2. \A i \in S : i \in Nat /\ 1 <= i /\ i < m BY <2>1
  <2>3. m > 0
    <3>1. PICK i \in S : TRUE BY Zenon
    <3> QED BY <2>2, <3>1
  <2>4. m - 1 \in T BY <2>2, <2>3
  <2> QED BY <1>3, <2>4
<1>5. \A i \in S : m >= i OBVIOUS
<1>6. \E x \in S : \A i \in S : x >= i BY <1>4, <1>5
<1>7. Max(S) \in S /\ \A i \in S : Max(S) >= i BY <1>6, Zenon DEF Max
<1> QED BY <1>7, ZenonT(30)

(* a lists the n members of S, none of them twice.                         *)
Lists(S, n, a) ==
    /\ IsFiniteSet(S) /\ n = Cardinality(S) /\ a \in [1..n -> S]
    /\ \A i, j \in 1..n : i < j => a[i] # a[j]

Listing(S, n, a) ==
    /\ a \in Seq(S) /\ Len(a) = n
    /\ \A i, j \in 1..Len(a) : a[i] = a[j] => i = j
    /\ \A x \in S : \E i \in 1..Len(a) : a[i] = x

(* Such a list has each of them once.                                      *)
LEMMA AllListed ==
    ASSUME NEW S, NEW n, NEW a, Lists(S, n, a)
    PROVE  Listing(S, n, a)
<1>0. /\ IsFiniteSet(S) /\ n = Cardinality(S) /\ a \in [1..n -> S]
      /\ \A i, j \in 1..n : i < j => a[i] # a[j]
  BY DEF Lists
<1> USE <1>0
<1>1. n \in Nat BY FS_CardinalityType
<1>2. a \in Seq(S) /\ Len(a) = n BY <1>1
<1>3. \A i, j \in 1..n : a[i] = a[j] => i = j
  <2> SUFFICES ASSUME NEW i \in 1..n, NEW j \in 1..n, a[i] = a[j] PROVE i = j OBVIOUS
  <2>1. ~(i < j) /\ ~(j < i) OBVIOUS
  <2> QED BY <1>1, <2>1
<1>4. a \in Injection(1..n, S) BY <1>3 DEF Injection, IsInjective
<1>5. Cardinality(1..n) = n BY <1>1, FS_Interval, SMTT(30)
<1>6. a \in Surjection(1..n, S) BY <1>4, <1>5, FS_Injection
<1>7. \A x \in S : \E i \in 1..n : a[i] = x BY <1>6, ZenonT(30) DEF Surjection
<1> QED BY <1>2, <1>3, <1>7 DEF Listing

(* get_scores_from_table gives rows of the database, one per key, in the   *)
(* order of the ranking, and leaves out only rows that beat none of them.  *)
LEMMA LoadedRows ==
    ASSUME Types, NEW loaded \in get_scores_from_table
    PROVE  /\ loaded \in Seq(Row) /\ Len(loaded) <= RankLimit
           /\ Distinct(loaded) /\ Ordered(loaded)
           /\ \A i \in 1..Len(loaded) :
                Key(loaded[i]) \in DOMAIN db /\ loaded[i] = db[Key(loaded[i])]
           /\ \A k \in DOMAIN db :
                \/ \E i \in 1..Len(loaded) : Key(loaded[i]) = k
                \/ /\ Len(loaded) = RankLimit
                   /\ \A i \in 1..Len(loaded) : ~Beats(db[k].score, loaded[i].score)
<1> DEFINE S == {db[k] : k \in DOMAIN db}
<1>1. \A k \in DOMAIN db : db[k] \in Row /\ Key(db[k]) = k BY DEF Types, DbTypes
<1>2. IsFiniteSet(S)
  <2> DEFINE f == [k \in DOMAIN db |-> db[k]]
  <2>1. f \in Surjection(DOMAIN db, S) BY DEF Surjection
  <2>2. IsFiniteSet(DOMAIN db) BY DEF Types, DbTypes
  <2> HIDE DEF f, S
  <2> QED BY <2>1, <2>2, FS_Surjection
<1> DEFINE n == Cardinality(S)
<1>3. PICK all \in [1..n -> S] :
        /\ \A i, j \in 1..n : i < j => all[i] # all[j] /\ ~SqlBefore(all[j], all[i])
        /\ loaded = SubSeq(all, 1, IF n < RankLimit THEN n ELSE RankLimit)
  <2>1. PICK all \in {s \in [1..n -> S] :
                        \A i, j \in 1..n : i < j => s[i] # s[j] /\ ~SqlBefore(s[j], s[i])} :
          loaded = SubSeq(all, 1, IF n < RankLimit THEN n ELSE RankLimit)
    BY Zenon DEF get_scores_from_table
  <2> HIDE DEF n
  <2>2. /\ all \in [1..n -> S]
        /\ \A i, j \in 1..n : i < j => all[i] # all[j] /\ ~SqlBefore(all[j], all[i])
    BY <2>1
  <2> QED BY <2>1, <2>2, Zenon
<1>4. /\ all \in Seq(S) /\ Len(all) = n /\ \A i, j \in 1..Len(all) : all[i] = all[j] => i = j
      /\ \A x \in S : \E i \in 1..Len(all) : all[i] = x
  <2>1. n = Cardinality(S) OBVIOUS
  <2> HIDE DEF n, S
  <2>2. Lists(S, n, all) BY <1>2, <1>3, <2>1 DEF Lists
  <2>3. Listing(S, n, all) BY <2>2, AllListed, Zenon
  <2> QED BY <2>3, SMTT(30) DEF Listing
<1> HIDE DEF n
<1>5. \A r \in S : r \in Row /\ Key(r) \in DOMAIN db /\ r = db[Key(r)] BY <1>1
<1> DEFINE m == IF Len(all) < RankLimit THEN Len(all) ELSE RankLimit
<1>6. Len(all) \in Nat /\ \A i \in 1..Len(all) : all[i] \in S
  BY <1>4, LenProperties
<1> HIDE DEF S
<1>7. m \in 0..Len(all) /\ m <= RankLimit /\ (m < Len(all) => m = RankLimit)
  <2>1. RankLimit \in Nat BY ScoresAssumption
  <2>2. Len(all) \in Nat BY <1>6
  <2>3. CASE Len(all) < RankLimit BY <2>1, <2>2, <2>3
  <2>4. CASE ~(Len(all) < RankLimit) BY <2>1, <2>2, <2>4, SMTT(30)
  <2> QED BY <2>3, <2>4
<1> HIDE DEF m
<1>8. loaded \in Seq(S) /\ Len(loaded) = m /\ \A i \in 1..m : loaded[i] = all[i]
  BY <1>3, <1>4, <1>7, PrefixElements DEF m
<1>9. \A i \in 1..m : i \in 1..Len(all) BY <1>6, <1>7
<1>10. ASSUME NEW i \in 1..Len(all), NEW j \in 1..Len(all), i < j
       PROVE  NotWorse(all[i], all[j])
  <2>1. all[i] \in Row /\ all[j] \in Row BY <1>5, <1>6, ZenonT(30)
  <2>2. /\ all[i].score \in Int /\ all[j].score \in Int
        /\ all[i].time \in Int /\ all[j].time \in Int
    BY <2>1, RowFields
  <2>3. ~SqlBefore(all[j], all[i]) BY <1>3, <1>4, <1>10
  <2> QED BY <2>2, <2>3 DEF SqlBefore, NotWorse, Beats
<1>11. loaded \in Seq(Row)
  <2>1. S \subseteq Row BY <1>5
  <2> QED BY <1>8, <2>1
<1>12. \A i \in 1..m : Key(loaded[i]) \in DOMAIN db /\ loaded[i] = db[Key(loaded[i])]
  BY <1>5, <1>6, <1>8, <1>9, SMTT(30)
<1>13. Distinct(loaded)
  <2> SUFFICES ASSUME NEW i \in 1..m, NEW j \in 1..m, Key(loaded[i]) = Key(loaded[j])
               PROVE  i = j
    BY <1>8 DEF Distinct
  <2>1. loaded[i] = loaded[j] BY <1>12
  <2> QED BY <1>4, <1>8, <1>9, <2>1
<1>14. Ordered(loaded) BY <1>8, <1>9, <1>10, SMTT(30) DEF Ordered
<1>15. ASSUME NEW k \in DOMAIN db, \A i \in 1..m : Key(loaded[i]) # k
       PROVE  m = RankLimit /\ \A i \in 1..m : ~Beats(db[k].score, loaded[i].score)
  <2>1. PICK j \in 1..Len(all) : all[j] = db[k] BY <1>4, ZenonT(30) DEF S
  <2>2. j \notin 1..m BY <1>1, <1>8, <1>15, <2>1
  <2>3. m < j /\ m = RankLimit BY <1>6, <1>7, <2>2, SMTT(30)
  <2>4. ASSUME NEW i \in 1..m PROVE ~Beats(db[k].score, loaded[i].score)
    <3>1. NotWorse(all[i], all[j]) BY <1>7, <1>9, <1>10, <2>3, SMTT(30)
    <3>2. all[i] \in Row /\ all[j] \in Row BY <1>5, <1>6, <1>9, SMTT(30)
    <3> QED BY <1>8, <2>1, <3>1, <3>2, NotWorseOrder, ZenonT(30)
  <2> QED BY <2>3, <2>4
<1> QED BY <1>7, <1>8, <1>11, <1>12, <1>13, <1>14, <1>15, ZenonT(30)

(* A restart, which loads the cache from the database and finds the files  *)
(* on the disk, keeps IInv.                                                *)
LEMMA RestartKeeps ==
    ASSUME IInv, Restart
    PROVE  IInv'
<1>0. Types /\ UNCHANGED <<db, gone, clock>> /\ pc' = [u \in UserId |-> Idle]
      /\ next_id' = create_data_directory
      /\ files' = [i \in DOMAIN files \cap Referenced |-> files[i]]
  BY SMTT(30) DEF IInv, Restart
<1>1. /\ sorted_scores' \in get_scores_from_table
      /\ npid_lookup' = [k \in {Key(sorted_scores'[i]) : i \in DOMAIN sorted_scores'} |->
                           CHOOSE i \in DOMAIN sorted_scores' : Key(sorted_scores'[i]) = k]
      /\ users' = {sorted_scores'[i].user : i \in DOMAIN sorted_scores'}
  BY DEF Restart
<1>2. /\ sorted_scores' \in Seq(Row) /\ Len(sorted_scores') <= RankLimit
      /\ Distinct(sorted_scores') /\ Ordered(sorted_scores')
      /\ \A i \in 1..Len(sorted_scores') : /\ Key(sorted_scores'[i]) \in DOMAIN db
                                           /\ sorted_scores'[i] = db[Key(sorted_scores'[i])]
      /\ \A k \in DOMAIN db :
           \/ \E i \in 1..Len(sorted_scores') : Key(sorted_scores'[i]) = k
           \/ /\ Len(sorted_scores') = RankLimit
              /\ \A i \in 1..Len(sorted_scores') : ~Beats(db[k].score, sorted_scores'[i].score)
  BY <1>0, <1>1, LoadedRows, ZenonT(30)
<1>3. /\ DOMAIN sorted_scores' = 1..Len(sorted_scores')
      /\ \A i \in 1..Len(sorted_scores') : sorted_scores'[i] \in Row
  BY <1>2, LenProperties
<1>4. /\ DOMAIN npid_lookup' = {Key(sorted_scores'[i]) : i \in 1..Len(sorted_scores')}
      /\ \A k \in DOMAIN npid_lookup' : /\ npid_lookup'[k] \in 1..Len(sorted_scores')
                                        /\ Key(sorted_scores'[npid_lookup'[k]]) = k
  BY <1>1, <1>3
<1>5. DOMAIN files' = DOMAIN files \cap Referenced /\ \A i \in DOMAIN files' : files'[i] = files[i]
  BY <1>0
<1>6. next_id' \in 1..(MaxDataId + 1) /\ \A i \in DOMAIN files : i < next_id'
  <2>1. DOMAIN files \subseteq 1..MaxDataId /\ MaxDataId \in Nat
    BY <1>0, ScoresAssumption DEF Types, FileTypes
  <2>2. CASE DOMAIN files = {} BY <1>0, <2>1, <2>2 DEF create_data_directory
  <2>3. CASE DOMAIN files # {}
    <3>1. Max(DOMAIN files) \in 1..MaxDataId /\ \A i \in DOMAIN files : i <= Max(DOMAIN files)
      BY <2>1, <2>3, MaxBounds, SMTT(30)
    <3>2. next_id' = Max(DOMAIN files) + 1 BY <1>0, <2>3 DEF create_data_directory
    <3> QED BY <2>1, <3>1, <3>2
  <2> QED BY <2>2, <2>3, Zenon
<1>7. Types'
  <2>1. PcTypes' BY <1>0, SMTT(30) DEF PcTypes
  <2>2. users' \subseteq UserId BY <1>1, <1>3, RowFields
  <2>3. CacheTypes' BY <1>2, <2>2, Zenon DEF CacheTypes
  <2>4. FileTypes' BY <1>0, <1>5, <1>6, Zenon DEF Types, FileTypes
  <2> QED BY <1>0, <2>1, <2>3, <2>4, DbSame, SMTT(30) DEF Types
<1>8. Ranking'
  <2>1. RankingOrdered' BY <1>2, <1>3 DEF RankingOrdered, Ordered, NotWorse
  <2>2. LookupExact' BY <1>1, <1>3, <1>4 DEF LookupExact
  <2> QED BY <1>2, <2>1, <2>2, ZenonT(30) DEF Ranking
<1>9. ASSUME NEW k \in DOMAIN db PROVE Owned(db[k], files')
  <2>1. k[1] \in UserId BY <1>0, ZenonT(30) DEF Types, DbTypes
  <2>2. Owned(db[k], files) BY <2>1 DEF IInv, RowsOK
  <2>3. db[k].data \in Referenced BY DEF Referenced
  <2> QED BY <1>5, <2>2, <2>3, SMTT(30) DEF Owned
<1>10. \A k \in DOMAIN npid_lookup' : k \in DOMAIN db /\ Cached(k)' = db[k]
  BY <1>2, <1>4 DEF Cached
<1>11. ASSUME NEW u \in UserId PROVE CommandOK(u)' /\ RowsOK(u)'
  <2>1. pc'[u] = Idle BY <1>0
  <2>2. CommandOK(u)' BY <2>1, ZenonT(30) DEF CommandOK
  <2>3. RowsOK(u)' BY <1>0, <1>9, <1>10, ZenonT(30) DEF RowsOK
  <2> QED BY <2>2, <2>3
<1>12. ASSUME NEW k \in DOMAIN db' \ DOMAIN npid_lookup' PROVE LeftOut(k)'
  <2>1. ~\E i \in 1..Len(sorted_scores') : Key(sorted_scores'[i]) = k BY <1>4, <1>12, SMTT(30)
  <2> QED BY <1>0, <1>2, <2>1, ZenonT(30) DEF LeftOut
<1> QED BY <1>7, <1>8, <1>11, <1>12, ZenonT(30) DEF IInv

-----------------------------------------------------------------------------
(* The theorems.                                                           *)

(* IInv holds initially.                                                   *)
LEMMA InitIInv ==
    ASSUME Init
    PROVE  IInv
<1>1. /\ DOMAIN db = {} /\ DOMAIN files = {} /\ DOMAIN npid_lookup = {}
      /\ Len(sorted_scores) = 0 /\ DOMAIN sorted_scores = {} /\ sorted_scores \in Seq(Row)
  BY DEF Init
<1>2. Types
  <2>1. IsFiniteSet(DOMAIN db) BY <1>1, FS_EmptySet
  <2>2. pc \in [UserId -> {Idle} \cup Busy] /\ \A u \in UserId : pc[u] = Idle BY DEF Init
  <2>3. users = {} /\ gone = {} /\ next_id = 1 /\ clock = 0 BY DEF Init
  <2>4. DbTypes BY <1>1, <2>1, <2>3 DEF DbTypes
  <2>5. CacheTypes BY <1>1, <2>3, ScoresAssumption DEF CacheTypes
  <2>6. FileTypes BY <1>1, <2>3, ScoresAssumption DEF FileTypes
  <2>7. PcTypes BY <2>2, ZenonT(30) DEF PcTypes
  <2> QED BY <2>3, <2>4, <2>5, <2>6, <2>7, ScoresAssumption DEF Types
<1>3. Ranking BY <1>1 DEF Ranking, Distinct, RankingOrdered, LookupExact
<1>4. \A u \in UserId : CommandOK(u) /\ RowsOK(u)
  BY <1>1, ZenonT(30) DEF Init, CommandOK, RowsOK
<1> QED BY <1>1, <1>2, <1>3, <1>4 DEF IInv

(* A stuttering step keeps IInv.                                           *)
LEMMA StutterKeeps ==
    ASSUME IInv, UNCHANGED vars
    PROVE  IInv'
<1>1. UNCHANGED <<db, gone, sorted_scores, npid_lookup, users, files, next_id, clock, pc>>
  BY SMTT(30) DEF vars, cache, disk
<1>4. /\ CacheTypes' /\ Ranking'
      /\ \A q : Cached(q)' = Cached(q) /\ Clear(Cached(q))' = Clear(Cached(q))
  BY <1>1, CacheSame, ZenonT(30) DEF IInv, Types
<1>2. Types'
  <2>1. PcTypes' BY <1>1, ZenonT(30) DEF IInv, Types, PcTypes
  <2> QED BY <1>1, <1>4, <2>1, DbSame, FilesSame, SMTT(30) DEF IInv, Types
<1>5. ASSUME NEW v \in UserId PROVE CommandOK(v)' /\ RowsOK(v)'
  <2>1. Steady(v) BY <1>1, <1>4, ZenonT(30) DEF Steady
  <2> QED BY <2>1, SteadyKeeps DEF IInv
<1>6. ASSUME ~ForceUpdate, NEW q \in DOMAIN db' \ DOMAIN npid_lookup' PROVE LeftOut(q)'
  <2>1. LeftOut(q) BY <1>1, <1>6 DEF IInv
  <2> QED BY <1>1, <2>1, SMTT(30) DEF LeftOut, Inserting
<1> QED BY <1>2, <1>4, <1>5, <1>6, ZenonT(30) DEF IInv

(* The invariant holds in every state.                                     *)
THEOREM Invariance == Spec => []IInv
<1>1. Init => IInv BY InitIInv
<1>2. IInv /\ [Next]_vars => IInv'
  <2> SUFFICES ASSUME IInv, [Next]_vars PROVE IInv' OBVIOUS
  <2>1. ASSUME NEW u \in UserId, NEW ch \in CharId, NEW s \in Score, record_score(u, ch, s)
        PROVE  IInv'
    BY <2>1, RecordKeeps
  <2>2. ASSUME NEW u \in UserId, NEW ch \in CharId, contains_score_with_no_data(u, ch)
        PROVE  IInv'
    BY <2>2, AskKeeps
  <2>3. ASSUME NEW u \in UserId, insert_score(u) PROVE IInv' BY <2>3, InsertKeeps
  <2>4. ASSUME NEW u \in UserId, create_score_data_file(u) PROVE IInv' BY <2>4, CreateKeeps
  <2>5. ASSUME NEW u \in UserId, set_game_data(u) PROVE IInv'
    BY <2>5, AttachKeeps, WithdrawKeeps, SMTT(30)
  <2>6. ASSUME NEW u \in UserId, set_score_data(u) PROVE IInv' BY <2>6, StoreKeeps
  <2>7. ASSUME NEW u \in UserId, delete_user(u) PROVE IInv' BY <2>7, DeleteKeeps
  <2>8. CASE Restart BY <2>8, RestartKeeps
  <2>9. CASE UNCHANGED vars BY <2>9, StutterKeeps
  <2> QED BY <2>1, <2>2, <2>3, <2>4, <2>5, <2>6, <2>7, <2>8, <2>9, SMTT(30) DEF Next
<1> QED BY <1>1, <1>2, PTL DEF Spec

(* What the tables and the cache hold has its type, a command is that of   *)
(* its user, and the cache is never longer than its limit.                 *)
THEOREM TypeCorrect == Spec => []TypeOK
<1>1. IInv => TypeOK BY ZenonT(30) DEF IInv, Types, DbTypes, CacheTypes, FileTypes, PcTypes, TypeOK
<1> QED BY <1>1, Invariance, PTL

(* insert_score renumbers every row that it moves, so the positions that   *)
(* the readers index with are exact and the names they look up are there.  *)
THEOREM LookupExactHolds == Spec => []LookupExact
<1>1. IInv => LookupExact BY DEF IInv, Ranking
<1> QED BY <1>1, Invariance, PTL

(* The ranking is by score and age, whatever was inserted or loaded.       *)
THEOREM RankingOrderedHolds == Spec => []RankingOrdered
<1>1. IInv => RankingOrdered BY DEF IInv, Ranking
<1> QED BY <1>1, Invariance, PTL

(* The cache follows the database although record_score and                *)
(* record_score_data write the two one after the other.                    *)
THEOREM CacheCurrentHolds == Spec => []CacheCurrent
<1>1. ASSUME IInv PROVE CacheCurrent
  <2>1. Types /\ Ranking BY <1>1 DEF IInv
  <2> SUFFICES ASSUME NEW i \in 1..Len(sorted_scores), pc[sorted_scores[i].user].at # "insert",
                      sorted_scores[i].user \notin gone
               PROVE  /\ Key(sorted_scores[i]) \in DOMAIN db
                      /\ db[Key(sorted_scores[i])] \in {sorted_scores[i], Clear(sorted_scores[i])}
    BY <2>1, IndexFacts DEF CacheCurrent, Clear
  <2> DEFINE k == Key(sorted_scores[i])
  <2>2. /\ k \in DOMAIN npid_lookup /\ Cached(k) = sorted_scores[i]
        /\ k[1] = sorted_scores[i].user /\ k[1] \in UserId
    BY <2>1, IndexFacts, RowFields, ZenonT(30)
  <2>3. ~Inserting(k) BY <2>2, ZenonT(30) DEF Inserting
  <2>4. RowsOK(k[1]) BY <1>1, <2>2, ZenonT(30) DEF IInv
  <2> QED BY <2>2, <2>3, <2>4, ZenonT(30) DEF RowsOK
<1> QED BY <1>1, Invariance, PTL

(* No score is kept out of a board of best scores by a worse one.          *)
THEOREM BestRankedHolds == Spec => []BestRanked
<1>1. ASSUME IInv PROVE BestRanked
  <2>1. Types /\ Ranking BY <1>1 DEF IInv
  <2> SUFFICES ASSUME ~ForceUpdate, NEW k \in DOMAIN db \ DOMAIN npid_lookup,
                      pc[k[1]].at # "insert"
               PROVE  /\ Len(sorted_scores) = RankLimit
                      /\ \A i \in 1..Len(sorted_scores) :
                           ~Beats(db[k].score, sorted_scores[i].score)
    BY <2>1, IndexFacts, ZenonT(30) DEF BestRanked
  <2>2. LeftOut(k) BY <1>1, SMTT(30) DEF IInv
  <2> QED BY <2>2, ZenonT(30) DEF LeftOut, Inserting
<1> QED BY <1>1, Invariance, PTL

(* Ids are never handed out twice for files that rows still name, and no   *)
(* cleaning or failing upload removes such a file.                         *)
THEOREM DataOwnedHolds == Spec => []DataOwned
<1>1. ASSUME IInv PROVE DataOwned
  <2>1. Types /\ Ranking BY <1>1 DEF IInv
  <2>2. ASSUME NEW k \in DOMAIN db PROVE Owned(db[k], files)
    <3>1. k[1] \in UserId BY <2>1 DEF Types, DbTypes
    <3> QED BY <1>1, <3>1, ZenonT(30) DEF IInv, RowsOK
  <2>3. ASSUME NEW i \in DOMAIN sorted_scores PROVE Owned(sorted_scores[i], files)
    <3> DEFINE k == Key(sorted_scores[i])
    <3>1. /\ k \in DOMAIN npid_lookup /\ Cached(k) = sorted_scores[i] /\ k[1] \in UserId
      BY <2>1, IndexFacts, RowFields, Zenon
    <3> QED BY <1>1, <3>1, Zenon DEF IInv, RowsOK
  <2> QED BY <2>2, <2>3, ZenonT(30) DEF DataOwned, Owned
<1> QED BY <1>1, Invariance, PTL
=============================================================================
