------------------------------ MODULE TusProofs -----------------------------
(***************************************************************************)
(* The properties of TusData and of TusVar for any number of users, slots, *)
(* files and values.                                                       *)
(***************************************************************************)
EXTENDS TusData, TusVar, WellFoundedInduction, TLAPS

-----------------------------------------------------------------------------
(* A set of numbers that has a bound has a largest element.                *)
LEMMA MaxBounds ==
    ASSUME NEW n \in Nat, NEW S \in SUBSET (1..n), S # {}
    PROVE  Max(S) \in 1..n /\ \A i \in S : i <= Max(S)
<1> DEFINE T == {m \in Nat : \A i \in S : i <= m}
<1>1. T \subseteq Nat /\ n \in T OBVIOUS
<1>2. PICK m \in T : \A y \in T : ~(<<y, m>> \in OpToRel(<, Nat))
  <2> HIDE DEF T
  <2> QED BY <1>1, NatLessThanWellFounded, WFMin, Zenon
<1>3. \A y \in T : ~(y < m)
  BY <1>2, Zenon DEF OpToRel
<1>4. m \in S
  <2>1. SUFFICES ASSUME m \notin S PROVE FALSE OBVIOUS
  <2>2. \A i \in S : i \in Nat /\ 1 <= i /\ i < m BY <2>1
  <2>3. m > 0
    <3>1. PICK i \in S : TRUE BY Zenon
    <3> QED BY <2>2, <3>1
  <2>4. m - 1 \in T BY <2>2, <2>3
  <2> QED BY <1>3, <2>4
<1>5. \A i \in S : m >= i OBVIOUS
<1>6. \E x \in S : \A i \in S : x >= i BY <1>4, <1>5
<1>7. Max(S) \in S /\ \A i \in S : Max(S) >= i BY <1>6, Zenon DEF Max
<1> QED BY <1>7, ZenonT(30)

-----------------------------------------------------------------------------
(* A command is that of an account, about a slot its user may write, and   *)
(* has no id before it has a file.                                         *)
CommandInv ==
    \A u \in UserId :
      /\ pc[u] # Idle => u \notin gone
      /\ pc[u].at \in {"file", "store"} => MayWrite(u, pc[u].key[1])
      /\ pc[u].at = "file" => pc[u].id = FailedId

(* The next id is new, and the file of an upload that has no row yet is    *)
(* known to nobody else.                                                   *)
UploadInv ==
    /\ \A i \in DOMAIN files : i < next_id
    /\ \A u \in UserId : pc[u].at = "store" /\ pc[u].id # FailedId =>
         /\ pc[u].id \in DOMAIN files
         /\ files[pc[u].id] = Upload(pc[u].key, pc[u].time)
         /\ \A k \in DOMAIN table : table[k].id # pc[u].id
         /\ \A v \in UserId \ {u} : pc[v].at = "store" => pc[v].id # pc[u].id
         /\ \A v \in UserId : pc[v].at = "read" => pc[v].row.id # pc[u].id

IInv == TypeOK /\ CommandInv /\ UploadInv /\ DataOwned /\ ReadFindsFile

-----------------------------------------------------------------------------
(* A command has the form that its place says.                             *)
LEMMA Shapes ==
    ASSUME TypeOK, NEW u \in UserId
    PROVE  /\ pc[u].at \in {"file", "store"} => pc[u] \in Store /\ pc[u] # Idle
           /\ pc[u].at = "read" => pc[u] \in Read /\ pc[u] # Idle
BY DEF TypeOK, Store, Read, Idle

(* A row that is stored.                                                   *)
StoredRow(u) == [id |-> pc[u].id, time |-> pc[u].time, author |-> u]

(* Every step keeps the type invariant.                                    *)
LEMMA TypeStep == ASSUME TypeOK, CommandInv, [Next]_vars PROVE TypeOK'
<1> USE DEF TypeOK
<1>1. ASSUME NEW u \in UserId, NEW k \in Key, NEW t \in {None} \cup Date,
             NEW a \in {None} \cup Author, tus_set_data(u, k, t, a)
      PROVE  TypeOK'
  <2>1. PICK now \in 0..MaxTime :
          /\ clock' = now
          /\ pc' = [pc EXCEPT ![u] = [at |-> "file", key |-> k, id |-> FailedId, time |-> now,
                                      cond_time |-> t, cond_author |-> a]]
    BY <1>1, Zenon DEF tus_set_data
  <2>2. [at |-> "file", key |-> k, id |-> FailedId, time |-> now,
         cond_time |-> t, cond_author |-> a] \in Store
    BY TusAssumption, TusDataAssumption DEF Store, FailedId
  <2>3. pc' \in [UserId -> {Idle} \cup Store \cup Read] BY <2>1, <2>2
  <2> QED BY <1>1, <2>1, <2>3 DEF tus_set_data, disk, contents
<1>2. ASSUME NEW u \in UserId, NEW k \in Key, tus_get_data(u, k) PROVE TypeOK'
  <2>1. [at |-> "read", key |-> k, row |-> table[k]] \in Read BY <1>2 DEF tus_get_data, Read
  <2>2. pc' \in [UserId -> {Idle} \cup Store \cup Read] BY <1>2, <2>1 DEF tus_get_data
  <2> QED BY <1>2, <2>2 DEF tus_get_data, disk, contents
<1>3. ASSUME NEW u \in UserId, NEW o, NEW slots, tus_delete_multislot_data(u, o, slots)
      PROVE  TypeOK'
  BY <1>3 DEF tus_delete_multislot_data, Without, disk, contents
<1>4. ASSUME NEW u \in UserId, create_tus_data_file(u) PROVE TypeOK'
  <2>1. pc[u] \in Store BY <1>4, Shapes DEF create_tus_data_file
  <2>2. next_id \in 1..MaxDataId /\ next_id' = next_id + 1
    BY <1>4, TusAssumption, TusDataAssumption DEF create_tus_data_file
  <2>3. /\ DOMAIN files' \subseteq 1..MaxDataId
        /\ \A i \in DOMAIN files' : files'[i] \in [key: Key, time: 0..MaxTime]
        /\ writing' \subseteq DOMAIN files'
    <3>1. Upload(pc[u].key, pc[u].time) \in [key: Key, time: 0..MaxTime]
      BY <2>1 DEF Upload, Store
    <3> QED BY <1>4, <2>2, <3>1 DEF create_tus_data_file
  <2>4. \/ pc' = [pc EXCEPT ![u] = [pc[u] EXCEPT !.at = "store", !.id = next_id]]
        \/ pc' = [pc EXCEPT ![u] = [pc[u] EXCEPT !.at = "store"]]
    <3>1. [pc EXCEPT ![u].at = "store", ![u].id = next_id]
            = [pc EXCEPT ![u] = [pc[u] EXCEPT !.at = "store", !.id = next_id]]
      BY Zenon
    <3>2. [pc EXCEPT ![u].at = "store"] = [pc EXCEPT ![u] = [pc[u] EXCEPT !.at = "store"]]
      OBVIOUS
    <3> QED BY <1>4, <3>1, <3>2, Zenon DEF create_tus_data_file
  <2>5. /\ [pc[u] EXCEPT !.at = "store", !.id = next_id] \in Store
        /\ [pc[u] EXCEPT !.at = "store"] \in Store
    <3>1. next_id \in 0..MaxDataId BY <2>2, TusAssumption, TusDataAssumption
    <3>2. PICK r \in Store : pc[u] = r BY <2>1
    <3>3. [r EXCEPT !.at = "store", !.id = next_id] \in Store BY <3>1, Zenon DEF Store
    <3>4. [r EXCEPT !.at = "store"] \in Store BY DEF Store
    <3> QED BY <3>2, <3>3, <3>4
  <2>6. pc' \in [UserId -> {Idle} \cup Store \cup Read] BY <2>4, <2>5
  <2> QED BY <1>4, <2>2, <2>3, <2>6, TusAssumption, TusDataAssumption DEF create_tus_data_file
<1>5. ASSUME NEW u \in UserId, tus_set_user_data(u) PROVE TypeOK'
  <2>1. pc[u] \in Store /\ u \notin gone BY <1>5, Shapes DEF tus_set_user_data, CommandInv
  <2>2. pc[u].key \in Key /\ pc[u].key[1] \notin gone
    <3>1. MayWrite(u, pc[u].key[1]) BY <1>5 DEF tus_set_user_data, CommandInv
    <3> QED BY <2>1, <3>1, TusAssumption, TusDataAssumption DEF Store, MayWrite
  <2>3. StoredRow(u) \in Row /\ StoredRow(u).author = u BY <2>1 DEF StoredRow, Row, Store, Author
  <2>4. \/ table' = table
        \/ table' = With(table, pc[u].key, StoredRow(u))
    BY <1>5 DEF tus_set_user_data, StoredRow
  <2>5. /\ DOMAIN table' \subseteq Key
        /\ \A k \in DOMAIN table' :
             table'[k] \in Row /\ k[1] \notin gone /\ table'[k].author \notin gone
    BY <2>1, <2>2, <2>3, <2>4 DEF With
  <2>6. /\ DOMAIN files' \subseteq DOMAIN files
        /\ \A i \in DOMAIN files' : files'[i] = files[i]
        /\ writing' \subseteq DOMAIN files'
    BY <1>5 DEF tus_set_user_data, delete_tus_data, contents
  <2>7. pc' \in [UserId -> {Idle} \cup Store \cup Read] BY <1>5 DEF tus_set_user_data
  <2> QED BY <1>5, <2>5, <2>6, <2>7 DEF tus_set_user_data
<1>6. ASSUME NEW u \in UserId, get_tus_data_file(u) PROVE TypeOK'
  BY <1>6 DEF get_tus_data_file, disk, contents
<1>7. ASSUME NEW u \in UserId, delete_user(u) PROVE TypeOK'
  <2>1. ASSUME NEW k \in DOMAIN table'
        PROVE  /\ k \in Key /\ k[1] \notin gone'
               /\ table'[k] \in Row /\ table'[k].author \notin gone'
    <3>1. k \in DOMAIN table /\ k[1] # u BY <1>7, <2>1 DEF delete_user, Disowned
    <3>2. table'[k] = IF table[k].author = u THEN [table[k] EXCEPT !.author = DeletedUser]
                      ELSE table[k]
      BY <1>7, <2>1 DEF delete_user, Disowned
    <3>3. table[k] \in Row /\ table[k].author \notin gone /\ k[1] \notin gone BY <3>1
    <3>4. CASE table[k].author = u
      BY <1>7, <3>1, <3>2, <3>3, <3>4, TusAssumption, TusDataAssumption DEF delete_user, Disowned, Row, Author
    <3>5. CASE table[k].author # u
      BY <1>7, <3>1, <3>2, <3>3, <3>5 DEF delete_user, Disowned
    <3> QED BY <3>4, <3>5
  <2> QED BY <1>7, <2>1, Zenon DEF delete_user, Disowned, disk, contents
<1>8. CASE Restart
  <2>1. next_id' \in 1..(MaxDataId + 1)
    <3>1. CASE DOMAIN files = {}
      BY <1>8, <3>1, TusAssumption, TusDataAssumption DEF Restart, initialize_tus_data_handler
    <3>2. CASE DOMAIN files # {}
      <4>1. Max(DOMAIN files) \in 1..MaxDataId BY <3>2, MaxBounds, TusAssumption, TusDataAssumption
      <4> QED BY <1>8, <3>2, <4>1, TusAssumption, TusDataAssumption DEF Restart, initialize_tus_data_handler
    <3> QED BY <3>1, <3>2
  <2>2. /\ DOMAIN files' \subseteq DOMAIN files
        /\ \A i \in DOMAIN files' : files'[i] = files[i]
        /\ writing' = {}
    BY <1>8 DEF Restart
  <2>3. pc' \in [UserId -> {Idle} \cup Store \cup Read] /\ up' \in BOOLEAN BY <1>8 DEF Restart
  <2> QED BY <1>8, <2>1, <2>2, <2>3 DEF Restart
<1>9. CASE UNCHANGED vars BY <1>9 DEF vars, disk, contents
<1>10. ASSUME NEW i \in writing, DataWritten(i) PROVE TypeOK'
  <2>1. writing' \subseteq DOMAIN files' BY <1>10 DEF DataWritten
  <2> QED BY <1>10, <2>1 DEF DataWritten
<1> QED BY <1>1, <1>2, <1>3, <1>4, <1>5, <1>6, <1>7, <1>8, <1>9, <1>10, ZenonT(30) DEF Next

(* Every step keeps what is known of commands.                             *)
LEMMA CommandStep == ASSUME TypeOK, CommandInv, [Next]_vars PROVE CommandInv'
<1> DEFINE Good(u) ==
      /\ pc[u] # Idle => u \notin gone
      /\ pc[u].at \in {"file", "store"} => MayWrite(u, pc[u].key[1])
      /\ pc[u].at = "file" => pc[u].id = FailedId
<1> SUFFICES ASSUME NEW v \in UserId PROVE Good(v)' BY DEF CommandInv
<1>0. Good(v) BY DEF CommandInv
<1>1. ASSUME NEW u \in UserId, NEW k \in Key, NEW t \in {None} \cup Date,
             NEW a \in {None} \cup Author, tus_set_data(u, k, t, a)
      PROVE  Good(v)'
  <2>1. PICK now \in 0..MaxTime :
             pc' = [pc EXCEPT ![u] = [at |-> "file", key |-> k, id |-> FailedId, time |-> now,
                                      cond_time |-> t, cond_author |-> a]]
    BY <1>1, Zenon DEF tus_set_data
  <2>2. CASE v = u
    <3>1. pc'[v] = [at |-> "file", key |-> k, id |-> FailedId, time |-> now,
                    cond_time |-> t, cond_author |-> a]
      BY <2>1, <2>2 DEF TypeOK
    <3> QED BY <1>1, <2>1, <2>2, <3>1 DEF tus_set_data, MayWrite
  <2>3. CASE v # u
    <3>1. pc'[v] = pc[v] /\ gone' = gone BY <1>1, <2>1, <2>3 DEF tus_set_data, TypeOK
    <3> QED BY <1>0, <3>1 DEF MayWrite
  <2> QED BY <2>2, <2>3
<1>2. ASSUME NEW u \in UserId, NEW k \in Key, tus_get_data(u, k) PROVE Good(v)'
  <2>1. CASE v = u
    <3>1. pc'[v] = [at |-> "read", key |-> k, row |-> table[k]] /\ u \notin gone'
      BY <1>2, <2>1 DEF tus_get_data, TypeOK
    <3> QED BY <2>1, <3>1
  <2>2. CASE v # u
    <3>1. pc'[v] = pc[v] /\ gone' = gone BY <1>2, <2>2 DEF tus_get_data, TypeOK
    <3> QED BY <1>0, <3>1 DEF MayWrite
  <2> QED BY <2>1, <2>2
<1>3. ASSUME NEW u \in UserId, create_tus_data_file(u) PROVE Good(v)'
  <2>1. CASE v = u
    <3>1. pc[u] \in Store BY <1>3, Shapes DEF create_tus_data_file
    <3>2. /\ pc'[u].at = "store" /\ pc'[u].key = pc[u].key /\ pc'[u].time = pc[u].time
      BY <1>3, <3>1 DEF create_tus_data_file, Store, TypeOK
    <3>3. pc[u].at = "file" /\ gone' = gone /\ u \notin gone
      BY <1>0, <1>3, <2>1, Shapes DEF create_tus_data_file
    <3> QED BY <1>0, <2>1, <3>2, <3>3 DEF MayWrite
  <2>2. CASE v # u
    <3>1. pc'[v] = pc[v] /\ gone' = gone BY <1>3, <2>2 DEF create_tus_data_file, TypeOK
    <3> QED BY <1>0, <3>1 DEF MayWrite
  <2> QED BY <2>1, <2>2
<1>4. CASE pc'[v] = Idle BY <1>4 DEF Idle
<1>5. CASE pc'[v] = pc[v] /\ (gone' = gone \/ \E u \in UserId : delete_user(u))
  <2>1. pc[v] # Idle => v \notin gone' BY <1>0, <1>5, Zenon DEF delete_user, Disowned
  <2> QED BY <1>0, <1>5, <2>1 DEF MayWrite
<1>6. ASSUME NEW u \in UserId, tus_set_user_data(u) \/ get_tus_data_file(u) PROVE Good(v)'
  <2>1. gone' = gone /\ (pc'[v] = Idle \/ pc'[v] = pc[v])
    BY <1>6 DEF tus_set_user_data, get_tus_data_file, TypeOK
  <2> QED BY <1>4, <1>5, <2>1
<1>7. CASE Restart BY <1>4, <1>7 DEF Restart
<1>8. CASE UNCHANGED vars BY <1>5, <1>8 DEF vars
<1>9. ASSUME NEW u \in UserId, NEW o, NEW slots, tus_delete_multislot_data(u, o, slots)
      PROVE  Good(v)'
  BY <1>5, <1>9 DEF tus_delete_multislot_data, Without
<1>10. ASSUME NEW u \in UserId, delete_user(u) PROVE Good(v)'
  BY <1>5, <1>10 DEF delete_user, Disowned
<1>11. ASSUME NEW i \in writing, DataWritten(i) PROVE Good(v)'
  BY <1>5, <1>11 DEF DataWritten
<1> QED BY <1>1, <1>2, <1>3, <1>6, <1>7, <1>8, <1>9, <1>10, <1>11 DEF Next

-----------------------------------------------------------------------------
(* The three facts about files.                                            *)
FileInv == UploadInv /\ DataOwned /\ ReadFindsFile

(* A step that leaves the files alone, stores no row and begins no upload  *)
(* or reading.                                                             *)
LEMMA QuietStep ==
    ASSUME FileInv, files' = files, next_id' = next_id,
           \A k \in DOMAIN table' : /\ k \in DOMAIN table
                                    /\ table'[k].id = table[k].id
                                    /\ table'[k].time = table[k].time,
           \A v \in UserId : pc'[v] = pc[v] \/ pc'[v].at \notin {"store", "read"}
    PROVE  FileInv'
<1>1. DataOwned' BY DEF FileInv, DataOwned, Upload
<1>2. ReadFindsFile' BY DEF FileInv, ReadFindsFile, Upload
<1>3. UploadInv'
  <2>1. \A i \in DOMAIN files' : i < next_id' BY DEF FileInv, UploadInv
  <2>2. ASSUME NEW u \in UserId, pc'[u].at = "store", pc'[u].id # FailedId
        PROVE  /\ pc'[u].id \in DOMAIN files'
               /\ files'[pc'[u].id] = Upload(pc'[u].key, pc'[u].time)
               /\ \A k \in DOMAIN table' : table'[k].id # pc'[u].id
               /\ \A v \in UserId \ {u} : pc'[v].at = "store" => pc'[v].id # pc'[u].id
               /\ \A v \in UserId : pc'[v].at = "read" => pc'[v].row.id # pc'[u].id
    <3>1. pc'[u] = pc[u] BY <2>2
    <3> QED BY <2>2, <3>1 DEF FileInv, UploadInv
  <2> QED BY <2>1, <2>2 DEF UploadInv, Upload
<1> QED BY <1>1, <1>2, <1>3 DEF FileInv

(* Every step keeps what is known of the files.                            *)
LEMMA FileStep == ASSUME TypeOK, TypeOK', CommandInv, FileInv, [Next]_vars PROVE FileInv'
<1>1. ASSUME NEW u \in UserId, NEW k \in Key, NEW t, NEW a, tus_set_data(u, k, t, a)
      PROVE  FileInv'
  <2>1. \A v \in UserId : pc'[v] = pc[v] \/ pc'[v].at \notin {"store", "read"}
    BY <1>1 DEF tus_set_data, TypeOK
  <2> QED BY <1>1, <2>1, QuietStep DEF tus_set_data, disk, contents
<1>2. ASSUME NEW u \in UserId, NEW k \in Key, tus_get_data(u, k) PROVE FileInv'
  <2>1. /\ k \in DOMAIN table /\ files' = files /\ next_id' = next_id /\ table' = table
        /\ pc'[u] = [at |-> "read", key |-> k, row |-> table[k]]
        /\ \A v \in UserId \ {u} : pc'[v] = pc[v]
    BY <1>2 DEF tus_get_data, disk, contents, TypeOK
  <2>2. DataOwned' BY <2>1 DEF FileInv, DataOwned, Upload
  <2>3. ReadFindsFile'
    <3>1. ASSUME NEW v \in UserId, pc'[v].at = "read", pc'[v].row.id # FailedId
          PROVE  /\ pc'[v].row.id \in DOMAIN files
                 /\ files[pc'[v].row.id] = Upload(pc'[v].key, pc'[v].row.time)
      <4>1. CASE v = u BY <2>1, <3>1, <4>1 DEF FileInv, DataOwned
      <4>2. CASE v # u BY <2>1, <3>1, <4>2 DEF FileInv, ReadFindsFile
      <4> QED BY <4>1, <4>2
    <3> QED BY <2>1, <3>1 DEF ReadFindsFile, Upload
  <2>4. UploadInv'
    <3>1. \A v \in UserId : pc'[v].at = "store" => v # u /\ pc'[v] = pc[v] BY <2>1
    <3>2. \A v, w \in UserId : pc'[v].at = "store" /\ pc'[v].id # FailedId
            /\ pc'[w].at = "read" => pc'[w].row.id # pc'[v].id
      BY <2>1, <3>1 DEF FileInv, UploadInv
    <3> QED BY <2>1, <3>1, <3>2 DEF FileInv, UploadInv, Upload
  <2> QED BY <2>2, <2>3, <2>4 DEF FileInv
<1>3. ASSUME NEW u \in UserId, NEW o, NEW slots, tus_delete_multislot_data(u, o, slots)
      PROVE  FileInv'
  BY <1>3, QuietStep DEF tus_delete_multislot_data, Without, disk, contents
<1>4. ASSUME NEW u \in UserId, create_tus_data_file(u) PROVE FileInv'
  <2>1. pc[u] \in Store /\ pc[u].id = FailedId
    BY <1>4, Shapes DEF create_tus_data_file, CommandInv
  <2>2. PICK n \in 1..MaxDataId : next_id = n /\ next_id' = n + 1
    BY <1>4, TusAssumption, TusDataAssumption DEF create_tus_data_file, TypeOK
  <2>3. /\ table' = table /\ pc'[u].at = "store" /\ pc'[u].key = pc[u].key
        /\ pc'[u].time = pc[u].time
        /\ \A v \in UserId \ {u} : pc'[v] = pc[v]
    BY <1>4, <2>1 DEF create_tus_data_file, Store, TypeOK
  <2>4. pc'[u].id = FailedId \/ (pc'[u].id = n /\ n \in DOMAIN files'
                                 /\ files'[n] = Upload(pc[u].key, pc[u].time))
    BY <1>4, <2>1, <2>2 DEF create_tus_data_file, Store, TypeOK
  <2>5. n \notin DOMAIN files /\ n # FailedId BY <2>2 DEF FileInv, UploadInv, FailedId
  <2>6. /\ DOMAIN files \subseteq DOMAIN files' /\ DOMAIN files' \subseteq DOMAIN files \cup {n}
        /\ \A i \in DOMAIN files : files'[i] = files[i]
    BY <1>4, <2>2, <2>5 DEF create_tus_data_file
  <2>7. DataOwned' BY <2>3, <2>6 DEF FileInv, DataOwned, Upload
  <2>8. ReadFindsFile' BY <2>3, <2>6 DEF FileInv, ReadFindsFile, Upload
  <2>9. UploadInv'
    <3>1. \A i \in DOMAIN files' : i < next_id'
      BY <2>2, <2>6 DEF FileInv, UploadInv, TypeOK
    <3>2. /\ \A k \in DOMAIN table : table[k].id # n
          /\ \A v \in UserId : pc[v].at = "store" => pc[v].id # n
          /\ \A v \in UserId : pc[v].at = "read" => pc[v].row.id # n
      BY <2>5 DEF FileInv, UploadInv, DataOwned, ReadFindsFile
    <3>3. ASSUME NEW w \in UserId, pc'[w].at = "store", pc'[w].id # FailedId
          PROVE  /\ pc'[w].id \in DOMAIN files'
                 /\ files'[pc'[w].id] = Upload(pc'[w].key, pc'[w].time)
                 /\ \A k \in DOMAIN table' : table'[k].id # pc'[w].id
                 /\ \A v \in UserId \ {w} : pc'[v].at = "store" => pc'[v].id # pc'[w].id
                 /\ \A v \in UserId : pc'[v].at = "read" => pc'[v].row.id # pc'[w].id
      <4>1. CASE w = u BY <2>3, <2>4, <3>2, <3>3, <4>1
      <4>2. CASE w # u
        <5>1. pc'[w] = pc[w] /\ pc[w].id # n /\ pc[w].id \in DOMAIN files
          BY <2>3, <3>2, <3>3, <4>2 DEF FileInv, UploadInv
        <5>2. pc'[u].id # pc[w].id BY <2>4, <3>3, <5>1
        <5> QED BY <2>3, <2>6, <3>3, <4>2, <5>1, <5>2 DEF FileInv, UploadInv
      <4> QED BY <4>1, <4>2
    <3> QED BY <3>1, <3>3 DEF UploadInv, Upload
  <2> QED BY <2>7, <2>8, <2>9 DEF FileInv
<1>5. ASSUME NEW u \in UserId, tus_set_user_data(u) PROVE FileInv'
  <2>1. PICK r \in Store : pc[u] = r /\ r.at = "store"
    BY <1>5, Shapes DEF tus_set_user_data
  <2>2. /\ next_id' = next_id /\ pc'[u].at = "idle"
        /\ \A v \in UserId \ {u} : pc'[v] = pc[v]
    BY <1>5 DEF tus_set_user_data, TypeOK, Idle
  <2>3. CASE UNCHANGED <<files, table>> BY <2>2, <2>3, QuietStep
  <2>4. CASE files' = files /\ table' = With(table, r.key, StoredRow(u))
    <3>1. /\ DOMAIN table' = DOMAIN table \cup {r.key}
          /\ table'[r.key].id = r.id /\ table'[r.key].time = r.time
          /\ \A k \in DOMAIN table \ {r.key} : table'[k] = table[k]
      BY <2>1, <2>4 DEF With, StoredRow
    <3>2. DataOwned'
      BY <2>1, <2>4, <3>1 DEF FileInv, DataOwned, UploadInv, Upload
    <3>3. ReadFindsFile' BY <2>2, <2>4 DEF FileInv, ReadFindsFile, Upload
    <3>4. ASSUME NEW w \in UserId, pc'[w].at = "store", pc'[w].id # FailedId
          PROVE  /\ pc'[w].id \in DOMAIN files'
                 /\ files'[pc'[w].id] = Upload(pc'[w].key, pc'[w].time)
                 /\ \A k \in DOMAIN table' : table'[k].id # pc'[w].id
                 /\ \A v \in UserId \ {w} : pc'[v].at = "store" => pc'[v].id # pc'[w].id
                 /\ \A v \in UserId : pc'[v].at = "read" => pc'[v].row.id # pc'[w].id
      <4>1. w # u /\ pc'[w] = pc[w] BY <2>2, <3>4
      <4>2. r.id # pc[w].id BY <2>1, <3>4, <4>1 DEF FileInv, UploadInv
      <4>3. \A k \in DOMAIN table' : table'[k].id # pc[w].id
        BY <3>1, <3>4, <4>1, <4>2 DEF FileInv, UploadInv
      <4> QED BY <2>2, <2>4, <3>4, <4>1, <4>3 DEF FileInv, UploadInv
    <3>5. UploadInv' BY <2>2, <2>4, <3>4 DEF FileInv, UploadInv, Upload
    <3> QED BY <3>2, <3>3, <3>5 DEF FileInv
  <2>5. CASE delete_tus_data(r.id) /\ table' = table
    <3>1. DOMAIN files' = DOMAIN files \ {r.id} /\ \A i \in DOMAIN files' : files'[i] = files[i]
      BY <2>5 DEF delete_tus_data
    <3>2. CASE r.id = FailedId
      <4>1. DOMAIN files' = DOMAIN files
        <5>1. \A i \in 1..MaxDataId : i # FailedId BY DEF FailedId
        <5>2. FailedId \notin DOMAIN files BY <5>1 DEF TypeOK
        <5> QED BY <3>1, <3>2, <5>2
      <4>2. DataOwned' BY <2>5, <3>1, <4>1 DEF FileInv, DataOwned, Upload
      <4>3. ReadFindsFile' BY <2>2, <3>1, <4>1 DEF FileInv, ReadFindsFile, Upload
      <4>4. UploadInv'
        <5>1. \A v \in UserId : pc'[v].at \in {"store", "read"} => pc'[v] = pc[v] BY <2>2
        <5> QED BY <2>2, <2>5, <3>1, <4>1, <5>1 DEF FileInv, UploadInv, Upload
      <4> QED BY <4>2, <4>3, <4>4 DEF FileInv
    <3>3. CASE r.id # FailedId
      <4>1. /\ \A k \in DOMAIN table : table[k].id # r.id
            /\ \A v \in UserId \ {u} : pc[v].at = "store" => pc[v].id # r.id
            /\ \A v \in UserId : pc[v].at = "read" => pc[v].row.id # r.id
        BY <2>1, <3>3 DEF FileInv, UploadInv
      <4>2. DataOwned' BY <2>5, <3>1, <4>1 DEF FileInv, DataOwned, Upload
      <4>3. ReadFindsFile' BY <2>2, <3>1, <4>1, SMTT(30) DEF FileInv, ReadFindsFile, Upload
      <4>4. UploadInv'
        <5>1. \A v \in UserId : pc'[v].at \in {"store", "read"} => v # u /\ pc'[v] = pc[v] BY <2>2
        <5> QED BY <2>2, <2>5, <3>1, <4>1, <5>1 DEF FileInv, UploadInv, Upload
      <4> QED BY <4>2, <4>3, <4>4 DEF FileInv
    <3> QED BY <3>2, <3>3
  <2> QED BY <1>5, <2>1, <2>3, <2>4, <2>5, Zenon DEF tus_set_user_data, StoredRow, contents
<1>6. ASSUME NEW u \in UserId, get_tus_data_file(u) PROVE FileInv'
  <2>1. \A v \in UserId : pc'[v] = pc[v] \/ pc'[v].at \notin {"store", "read"}
    BY <1>6 DEF get_tus_data_file, TypeOK, Idle
  <2> QED BY <1>6, <2>1, QuietStep DEF get_tus_data_file, disk, contents
<1>7. ASSUME NEW u \in UserId, delete_user(u) PROVE FileInv'
  <2>1. \A k \in DOMAIN table' : /\ k \in DOMAIN table
                                 /\ table'[k].id = table[k].id
                                 /\ table'[k].time = table[k].time
    BY <1>7 DEF delete_user, Disowned, TypeOK, Row
  <2> QED BY <1>7, <2>1, QuietStep DEF delete_user, Disowned, disk, contents
<1>8. CASE Restart
  <2>1. \A v \in UserId : pc'[v].at = "idle" BY <1>8 DEF Restart, Idle
  <2>2. /\ table' = table /\ DOMAIN files' \subseteq DOMAIN files
        /\ DOMAIN files \cap tus_get_all_data_ids \subseteq DOMAIN files'
        /\ \A i \in DOMAIN files' : files'[i] = files[i]
    BY <1>8 DEF Restart
  <2>3. \A k \in DOMAIN table : table[k].id \in tus_get_all_data_ids BY DEF tus_get_all_data_ids
  <2>4. DataOwned' BY <2>2, <2>3 DEF FileInv, DataOwned, Upload
  <2>5. \A i \in DOMAIN files : i < next_id'
    <3>1. CASE DOMAIN files = {} BY <3>1
    <3>2. CASE DOMAIN files # {}
      <4>1. /\ Max(DOMAIN files) \in 1..MaxDataId
            /\ \A i \in DOMAIN files : i <= Max(DOMAIN files)
        BY <3>2, MaxBounds, TusAssumption, TusDataAssumption DEF TypeOK
      <4>2. next_id' = Max(DOMAIN files) + 1
        BY <1>8, <3>2 DEF Restart, initialize_tus_data_handler
      <4> QED BY <4>1, <4>2 DEF TypeOK
    <3> QED BY <3>1, <3>2
  <2> QED BY <2>1, <2>2, <2>4, <2>5 DEF FileInv, UploadInv, ReadFindsFile
<1>9. CASE UNCHANGED vars BY <1>9, QuietStep DEF vars, disk, contents
<1>10. ASSUME NEW i \in writing, DataWritten(i) PROVE FileInv'
  BY <1>10, QuietStep DEF DataWritten
<1> QED BY <1>1, <1>2, <1>3, <1>4, <1>5, <1>6, <1>7, <1>8, <1>9, <1>10 DEF Next

-----------------------------------------------------------------------------
(* The inductive invariant: commands under way, files and rows, through    *)
(* every failure, deletion and start of the server.                        *)
THEOREM TusDataInvariance == Spec => []IInv
<1>1. Init => IInv
  BY TusAssumption, TusDataAssumption
  DEF Init, IInv, TypeOK, CommandInv, UploadInv, DataOwned, ReadFindsFile, Idle
<1>2. IInv /\ [Next]_vars => IInv'
  BY TypeStep, CommandStep, FileStep DEF IInv, FileInv
<1> QED BY <1>1, <1>2, PTL DEF Spec

(* A row names the file uploaded for it (tus_set_user_data against         *)
(* clean_tus_data).                                                        *)
THEOREM DataStaysOwned == Spec => []DataOwned
<1>1. IInv => DataOwned BY DEF IInv
<1> QED BY <1>1, TusDataInvariance, PTL

(* A reader finds the file of the upload that its row is of, although the  *)
(* data may still be on its way (tus_get_data).                            *)
THEOREM ReadersFindFiles == Spec => []ReadFindsFile
<1>1. IInv => ReadFindsFile BY DEF IInv
<1> QED BY <1>1, TusDataInvariance, PTL

(* A store on a date that is not to come never turns the date of a slot    *)
(* back (the WHERE of the upsert, prepare_cond_string).                    *)
THEOREM DatesKept == Spec => ConditionalKeepsDates
<1> DEFINE Kept ==
      \A k \in DOMAIN table :
        k \in DOMAIN table' /\ table'[k].time < table[k].time =>
          \E u \in UserId : /\ pc[u].at = "store" /\ pc[u].key = k
                            /\ pc[u].time = table'[k].time
                            /\ pc[u].cond_time = None \/ pc[u].cond_time > pc[u].time
<1>1. ASSUME IInv, Next PROVE Kept
  <2> SUFFICES ASSUME NEW k \in DOMAIN table, k \in DOMAIN table',
                      table'[k].time < table[k].time
               PROVE  \E u \in UserId : /\ pc[u].at = "store" /\ pc[u].key = k
                                        /\ pc[u].time = table'[k].time
                                        /\ \/ pc[u].cond_time = None
                                           \/ pc[u].cond_time > pc[u].time
    OBVIOUS
  <2>1. table[k] \in Row /\ table[k].time \in Nat BY <1>1 DEF IInv, TypeOK, Row
  <2>2. table'[k].time # table[k].time BY <2>1
  <2>3. ASSUME NEW u \in UserId, tus_set_user_data(u)
        PROVE  /\ pc[u].at = "store" /\ pc[u].key = k
               /\ pc[u].time = table'[k].time
               /\ pc[u].cond_time = None \/ pc[u].cond_time > pc[u].time
    <3>1. PICK r \in Store : pc[u] = r /\ r.at = "store"
      BY <1>1, <2>3, Shapes DEF tus_set_user_data, IInv
    <3>2. /\ prepare_cond_string(r.key, r.cond_time, r.cond_author)
          /\ table' = With(table, r.key, StoredRow(u))
      BY <2>2, <2>3, <3>1 DEF tus_set_user_data, StoredRow
    <3>3. k = r.key /\ table'[k].time = r.time
      BY <2>2, <3>1, <3>2 DEF With, StoredRow
    <3>4. r.cond_time # None => table[k].time <= r.cond_time
      BY <3>2, <3>3 DEF prepare_cond_string, Meets
    <3>5. r.cond_time # None => r.cond_time \in Nat /\ r.time \in Nat
      <4>1. r.cond_time \in {None} \cup Date /\ r.time \in 0..MaxTime BY DEF Store
      <4>2. Date \subseteq Nat BY TusAssumption, Zenon
      <4>3. r.cond_time # None => r.cond_time \in Nat BY <4>1, <4>2, Zenon
      <4>4. r.time \in Nat BY ONLY <4>1
      <4> QED BY <4>3, <4>4, Zenon
    <3>6. r.cond_time = None \/ r.cond_time > r.time BY <2>1, <3>3, <3>4, <3>5
    <3> QED BY <3>1, <3>3, <3>6
  <2>4. ASSUME NEW u \in UserId, delete_user(u) PROVE FALSE
    BY <2>1, <2>2, <2>4 DEF delete_user, Disowned, Row
  <2>5. ASSUME NEW u \in UserId, NEW o, NEW slots, tus_delete_multislot_data(u, o, slots)
        PROVE  FALSE
    BY <2>2, <2>5 DEF tus_delete_multislot_data, Without
  <2>6. table' # table BY <2>2
  <2> QED BY <1>1, <2>3, <2>4, <2>5, <2>6, ZenonT(30)
          DEF Next, tus_set_data, tus_get_data, create_tus_data_file, get_tus_data_file,
              DataWritten, Restart
<1>2. IInv /\ [Next]_vars => [Kept]_vars BY <1>1
<1> QED BY <1>2, TusDataInvariance, PTL DEF Spec, ConditionalKeepsDates

-----------------------------------------------------------------------------
(* TusVar.                                                                 *)

(* What the rows are: of accounts, private where they belong to a user,    *)
(* and not from the future.                                                *)
RowInv ==
    /\ DOMAIN var \subseteq Key
    /\ \A k \in DOMAIN var : var[k] \in VarRow /\ k[1] \notin gone /\ var[k].author \notin gone
    /\ \A k \in DOMAIN var : k[1] \in UserId => var[k].author = k[1]
    /\ \A k \in DOMAIN var : var[k].time <= clock

VarCommand == {Idle} \cup Setting \cup Request \cup Answer

(* A command of u is that of an account, about variables that u may write; *)
(* its timestamp is in the past.  Until it has written, all rows of u are  *)
(* older than it.                                                          *)
UserInv(u) ==
    /\ pc[u] # Idle => u \notin gone
    /\ pc[u].at = "set" => MayWrite(u, pc[u].owner) /\ pc[u].time <= clock
    /\ pc[u].at = "write" => MayWrite(u, pc[u].key[1]) /\ pc[u].time <= clock
    /\ pc[u].at \in {"write", "select"} =>
         \A k \in DOMAIN var : var[k].author = u => var[k].time < pc[u].time
    /\ pc[u].at = "select" => pc[u].done = FALSE
    /\ pc[u].at = "reply" =>
         (pc[u].done <=> pc[u].row.author = u /\ pc[u].row.time = pc[u].time)

VarIInv ==
    /\ RowInv
    /\ gone \subseteq UserId /\ clock \in 0..MaxTime
    /\ pc \in [UserId -> VarCommand]
    /\ \A u \in UserId : UserInv(u)

(* The inductive invariant gives the invariants that are checked.          *)
LEMMA VarIInvImplies ==
    ASSUME VarIInv
    PROVE  VarTypeOK /\ OwnSlotsPrivate /\ RepliesTellOutcome
<1>1. VarTypeOK BY DEF VarIInv, RowInv, VarTypeOK, VarCommand
<1>2. OwnSlotsPrivate BY DEF VarIInv, RowInv, OwnSlotsPrivate
<1>3. RepliesTellOutcome BY DEF VarIInv, UserInv, RepliesTellOutcome
<1> QED BY <1>1, <1>2, <1>3

(* A command has the form that its place says.                             *)
LEMMA VarShapes ==
    ASSUME NEW r \in VarCommand
    PROVE  /\ r.at = "set" => r \in Setting
           /\ r.at = "write" => r \in Request
           /\ r.at \in {"select", "reply"} => r \in Answer
           /\ r.at \notin {"set", "write", "select", "reply"} => r = Idle
           /\ r = Idle => r.at = "idle"
BY DEF VarCommand, Idle, Setting, Request, Answer

(* A step of u writes no rows in the name of another.                      *)
OthersKept(u) ==
    \A v \in UserId \ {u} : \A k \in DOMAIN var' :
      var'[k].author = v =>
        k \in DOMAIN var /\ var[k].author = v /\ var'[k].time = var[k].time

(* The rows when no statement changes them.                                *)
LEMMA RowsSame ==
    ASSUME RowInv, NEW u, UNCHANGED <<var, gone>>, clock \in Int, clock' \in Int, clock' >= clock
    PROVE  RowInv' /\ OthersKept(u)
<1>1. \A k \in DOMAIN var : var[k].time <= clock'
  BY DEF RowInv, VarRow
<1> QED BY <1>1, Zenon DEF RowInv, OthersKept

(* The rows after a user has written one.                                  *)
LEMMA RowWritten ==
    ASSUME RowInv, NEW u \in UserId, NEW k \in Key, NEW row \in VarRow,
           gone \subseteq UserId, u \notin gone, MayWrite(u, k[1]), row.author = u,
           var' = With(var, k, row), gone' = gone,
           clock \in Int, clock' \in Int, clock' >= clock, row.time <= clock
    PROVE  RowInv' /\ OthersKept(u)
<1>1. /\ DOMAIN var' = DOMAIN var \cup {k} /\ var'[k] = row
      /\ \A q \in DOMAIN var \ {k} : var'[q] = var[q]
  BY DEF With
<1>2. k[1] \notin gone /\ (k[1] \in UserId => k[1] = u)
  BY TusAssumption DEF MayWrite
<1>3. \A q \in DOMAIN var : var[q].time <= clock'
  BY DEF RowInv, VarRow
<1>4. row.time <= clock' BY DEF VarRow
<1>5. RowInv' BY <1>1, <1>2, <1>3, <1>4, Zenon DEF RowInv
<1>6. OthersKept(u) BY <1>1 DEF OthersKept
<1> QED BY <1>5, <1>6

(* The rows after a user has deleted some.                                 *)
LEMMA RowsDeleted ==
    ASSUME RowInv, NEW u, NEW o, NEW slots, var' = Without(var, o, slots), UNCHANGED <<gone, clock>>
    PROVE  RowInv' /\ OthersKept(u)
<1>1. DOMAIN var' \subseteq DOMAIN var /\ \A k \in DOMAIN var' : var'[k] = var[k]
  BY DEF Without
<1> QED BY <1>1, Zenon DEF RowInv, OthersKept

(* The rows after an account is deleted.                                   *)
LEMMA RowsDisowned ==
    ASSUME RowInv, NEW u \in UserId, gone \subseteq UserId, var' = Disowned(var, u),
           gone' = gone \cup {u}, clock' = clock
    PROVE  RowInv' /\ OthersKept(u)
<1>1. ASSUME NEW k \in DOMAIN var'
      PROVE  /\ k \in DOMAIN var /\ k[1] # u
             /\ var'[k] \in VarRow /\ var'[k].time = var[k].time
             /\ var[k].author # u => var'[k].author = var[k].author
             /\ var[k].author = u => var'[k].author = DeletedUser
  <2>1. /\ k \in DOMAIN var /\ k[1] # u
        /\ var'[k] = IF var[k].author = u THEN [var[k] EXCEPT !.author = DeletedUser] ELSE var[k]
    BY <1>1 DEF Disowned
  <2>2. var[k] \in VarRow BY <2>1 DEF RowInv
  <2>3. PICK row \in VarRow : row = var[k] BY <2>2
  <2>4. /\ [row EXCEPT !.author = DeletedUser] \in VarRow
        /\ [row EXCEPT !.author = DeletedUser].time = row.time
        /\ [row EXCEPT !.author = DeletedUser].author = DeletedUser
    BY DEF VarRow, Author
  <2> QED BY <2>1, <2>3, <2>4
<1>2. DeletedUser \notin UserId /\ DeletedUser \notin gone' BY TusAssumption
<1>3. RowInv'
  <2>1. ASSUME NEW k \in DOMAIN var'
        PROVE  /\ k \in Key /\ var'[k] \in VarRow
               /\ k[1] \notin gone' /\ var'[k].author \notin gone'
               /\ k[1] \in UserId => var'[k].author = k[1]
               /\ var'[k].time <= clock'
    <3>1. /\ k \in Key /\ k[1] \notin gone /\ var[k].author \notin gone
          /\ k[1] \in UserId => var[k].author = k[1]
          /\ var[k].time <= clock
      BY <1>1, <2>1, Zenon DEF RowInv
    <3> QED BY <1>1, <1>2, <2>1, <3>1
  <2> QED BY <2>1, Zenon DEF RowInv
<1>4. OthersKept(u) BY <1>1, <1>2 DEF OthersKept
<1> QED BY <1>3, <1>4

(* A step of u keeps what holds of the command of another user.            *)
LEMMA OtherUserInv ==
    ASSUME VarIInv, NEW u \in UserId, NEW v \in UserId \ {u}, OthersKept(u),
           pc'[v] = pc[v], v \in gone' => v \in gone, clock' \in Int, clock' >= clock
    PROVE  UserInv(v)'
<1>1. UserInv(v) /\ pc[v] \in VarCommand /\ clock \in Int BY DEF VarIInv
<1>2. pc[v].at \in {"set", "write"} => pc[v].time \in Int
  BY <1>1, VarShapes DEF Setting, Request
<1>3. pc[v].at \in {"set", "write"} /\ pc[v].time <= clock => pc[v].time <= clock'
  BY <1>1, <1>2
<1>4. pc[v].at \in {"write", "select"} =>
        \A k \in DOMAIN var' : var'[k].author = v => var'[k].time < pc[v].time
  BY <1>1, Zenon DEF UserInv, OthersKept
<1>5. pc[v] # Idle => v \notin gone' BY <1>1 DEF UserInv
<1> QED BY <1>1, <1>3, <1>4, <1>5 DEF UserInv, MayWrite

(* A step that gives u the command r.                                      *)
LEMMA StepInv ==
    ASSUME VarIInv, NEW u \in UserId, NEW r \in VarCommand, pc' = [pc EXCEPT ![u] = r],
           gone' = gone, clock' \in 0..MaxTime, clock' >= clock,
           RowInv', OthersKept(u), UserInv(u)'
    PROVE  VarIInv'
<1>1. \A v \in UserId \ {u} : pc'[v] = pc[v] BY DEF VarIInv
<1>2. \A v \in UserId \ {u} : UserInv(v)' BY <1>1, OtherUserInv
<1>3. pc' \in [UserId -> VarCommand] BY DEF VarIInv
<1>4. gone' \subseteq UserId BY DEF VarIInv
<1> QED BY <1>2, <1>3, <1>4, Zenon DEF VarIInv

(* A step after which u has no command.                                    *)
LEMMA IdleUserInv ==
    ASSUME VarIInv, NEW u \in UserId, pc' = [pc EXCEPT ![u] = Idle]
    PROVE  UserInv(u)' /\ Idle \in VarCommand
<1>1. pc'[u] = Idle BY DEF VarIInv
<1>2. pc'[u].at = "idle" BY <1>1 DEF Idle
<1> QED BY <1>1, <1>2 DEF UserInv, VarCommand

(* A timestamp is not before the clock, and after all rows of the user.    *)
LEMMA NewTimestamp ==
    ASSUME VarIInv, NEW u, NEW now \in get_psn_timestamp(u)
    PROVE  /\ now \in 0..MaxTime /\ now >= clock
           /\ \A k \in DOMAIN var : var[k].author = u => var[k].time < now
BY DEF VarIInv, get_psn_timestamp

(* Setting variables begins.                                               *)
LEMMA SetBegins ==
    ASSUME VarIInv, NEW u \in UserId, NEW o \in UserId \cup VUser, NEW todo \in ToDo,
           tus_set_multislot_variable(u, o, todo)
    PROVE  VarIInv'
<1>1. PICK now \in get_psn_timestamp(u) :
        /\ clock' = now
        /\ pc' = [pc EXCEPT ![u] = [at |-> "set", owner |-> o, todo |-> todo, time |-> now]]
  BY Zenon DEF tus_set_multislot_variable
<1> DEFINE r == [at |-> "set", owner |-> o, todo |-> todo, time |-> now]
<1>2. now \in 0..MaxTime /\ now >= clock BY NewTimestamp
<1>3. UNCHANGED <<var, gone>> /\ u \notin gone /\ MayWrite(u, o)
  BY DEF tus_set_multislot_variable, Ready
<1>4. r \in VarCommand BY <1>2 DEF VarCommand, Setting
<1>5. RowInv' /\ OthersKept(u) BY <1>1, <1>2, <1>3, RowsSame, TusAssumption DEF VarIInv
<1>6. UserInv(u)'
  <2>1. pc'[u] = r BY <1>1 DEF VarIInv
  <2> QED BY <1>1, <1>2, <1>3, <2>1 DEF UserInv, MayWrite
<1> HIDE DEF r
<1>7. pc' = [pc EXCEPT ![u] = r] BY <1>1 DEF r
<1> QED BY <1>1, <1>2, <1>3, <1>4, <1>5, <1>6, <1>7, StepInv, Zenon

(* What a client sets fits into a row.                                     *)
LEMMA ValueStored ==
    ASSUME NEW x \in Value
    PROVE  x \in Stored
<1>1. MaxVar \in Nat /\ x \in -MaxVar..MaxVar BY TusVarAssumption
<1>2. x \in Int /\ -MaxVar <= x /\ x <= MaxVar BY <1>1
<1>3. -(2 * MaxVar) <= x /\ x <= 2 * MaxVar BY <1>1, <1>2
<1> QED BY <1>1, <1>2, <1>3 DEF Stored

(* One slot is set.                                                        *)
LEMMA SlotSet ==
    ASSUME VarIInv, NEW u \in UserId, NEW s \in Slot, tus_set_user_variable(u, s)
    PROVE  VarIInv'
<1> DEFINE todo == pc[u].todo
           rest == [t \in DOMAIN todo \ {s} |-> todo[t]]
           row == [value |-> todo[s], time |-> pc[u].time, author |-> u]
           k == <<pc[u].owner, s>>
<1>1. /\ pc[u].at = "set" /\ s \in DOMAIN todo /\ gone' = gone
      /\ var' = With(var, k, row) \/ var' = var
      /\ \/ pc' = [pc EXCEPT ![u] = Idle] /\ clock' = clock
         \/ \E now \in clock..(clock + 1) \cap 0..MaxTime :
              clock' = now /\ pc' = [pc EXCEPT ![u].todo = rest, ![u].time = now]
  BY Zenon DEF tus_set_user_variable
<1>2. /\ pc[u] \in Setting /\ u \notin gone /\ MayWrite(u, pc[u].owner)
      /\ pc[u].time <= clock /\ clock \in 0..MaxTime /\ gone \subseteq UserId
  <2>1. pc[u] \in VarCommand /\ UserInv(u) /\ clock \in 0..MaxTime /\ gone \subseteq UserId
    BY DEF VarIInv
  <2>2. pc[u] \in Setting BY <1>1, <2>1, VarShapes
  <2>3. pc[u] # Idle BY <1>1 DEF Idle
  <2> QED BY <1>1, <2>1, <2>2, <2>3 DEF UserInv
<1>3. clock' \in 0..MaxTime /\ clock' >= clock BY <1>1, <1>2, TusAssumption
<1>4. todo \in ToDo /\ rest \in ToDo
  <2>1. todo \in ToDo BY <1>2 DEF Setting
  <2>2. PICK S \in SUBSET Slot : todo \in [S -> Value] BY <2>1 DEF ToDo
  <2>3. rest \in [S \ {s} -> Value] BY <2>2
  <2> QED BY <2>1, <2>3, ZenonT(30) DEF ToDo
<1>5. RowInv' /\ OthersKept(u)
  <2>1. CASE var' = var BY <1>1, <1>2, <1>3, <2>1, RowsSame DEF VarIInv
  <2>2. CASE var' = With(var, k, row)
    <3>1. k \in Key /\ k[1] = pc[u].owner BY <1>2 DEF Key, Setting
    <3>2. todo[s] \in Value
      <4>1. PICK S \in SUBSET Slot : todo \in [S -> Value] BY <1>4 DEF ToDo
      <4> QED BY <1>1, <4>1
    <3>3. row \in VarRow
      <4>1. todo[s] \in Stored BY <3>2, ValueStored
      <4> QED BY <1>2, <4>1 DEF VarRow, Setting, Author
    <3> HIDE DEF k
    <3>4. row.author = u /\ row.time = pc[u].time OBVIOUS
    <3> HIDE DEF row
    <3>5. MayWrite(u, k[1]) BY <1>2, <3>1
    <3>6. RowInv BY DEF VarIInv
    <3> QED BY <1>1, <1>2, <1>3, <2>2, <3>1, <3>3, <3>4, <3>5, <3>6, RowWritten
  <2> QED BY <1>1, <2>1, <2>2
<1>6. CASE pc' = [pc EXCEPT ![u] = Idle] /\ clock' = clock
  BY <1>1, <1>3, <1>5, <1>6, IdleUserInv, StepInv, Zenon
<1>7. ASSUME NEW now \in clock..(clock + 1) \cap 0..MaxTime,
             clock' = now, pc' = [pc EXCEPT ![u].todo = rest, ![u].time = now]
      PROVE  VarIInv'
  <2> DEFINE r == [pc[u] EXCEPT !.todo = rest, !.time = now]
  <2>1. pc' = [pc EXCEPT ![u] = r] BY <1>7, Zenon
  <2>2. r \in Setting /\ r.at = "set" /\ r.owner = pc[u].owner /\ r.time = now
    <3>1. PICK x \in Setting : x = pc[u] BY <1>2
    <3>2. /\ [x EXCEPT !.todo = rest, !.time = now] \in Setting
          /\ [x EXCEPT !.todo = rest, !.time = now].owner = x.owner
          /\ [x EXCEPT !.todo = rest, !.time = now].time = now
          /\ [x EXCEPT !.todo = rest, !.time = now].at = "set"
      <4> HIDE DEF rest
      <4> QED BY <1>4, Zenon DEF Setting
    <3> QED BY <3>1, <3>2
  <2> HIDE DEF r, rest, todo
  <2>3. UserInv(u)'
    <3>1. pc'[u] = r BY <2>1 DEF VarIInv
    <3> QED BY <1>1, <1>2, <1>7, <2>2, <3>1 DEF UserInv, MayWrite
  <2>4. r \in VarCommand BY <2>2 DEF VarCommand
  <2> QED BY <1>1, <1>3, <1>5, <2>1, <2>3, <2>4, StepInv, Zenon
<1> QED BY <1>1, <1>6, <1>7, Zenon

(* An addition or a conditional set begins.                                *)
LEMMA ChangeBegins ==
    ASSUME VarIInv, NEW u \in UserId, NEW k \in Key, NEW op \in OpeType \cup {"+"},
           NEW value \in Value, NEW than \in Value, NEW cond_time \in {None} \cup Date,
           NEW asked \in Authors(k), Begin(u, k, op, value, than, cond_time, asked)
    PROVE  VarIInv'
<1> DEFINE a == compare_author(asked)
<1>1. PICK now \in get_psn_timestamp(u) :
        /\ clock' = now
        /\ pc' = [pc EXCEPT ![u] = [at |-> "write", key |-> k, op |-> op, value |-> value,
                                    than |-> than, time |-> now, cond_time |-> cond_time,
                                    cond_author |-> a, asked |-> asked]]
  BY Zenon DEF Begin
<1> DEFINE r == [at |-> "write", key |-> k, op |-> op, value |-> value, than |-> than,
                 time |-> now, cond_time |-> cond_time, cond_author |-> a, asked |-> asked]
<1>2. /\ now \in 0..MaxTime /\ now >= clock
      /\ \A q \in DOMAIN var : var[q].author = u => var[q].time < now
  BY NewTimestamp
<1>3. UNCHANGED <<var, gone>> /\ u \notin gone /\ MayWrite(u, k[1]) BY DEF Begin, Ready
<1>4. asked \in {None} \cup Author /\ a \in {None} \cup Author
  <2>1. k \in DOMAIN var => var[k].author \in Author BY DEF VarIInv, RowInv, VarRow
  <2>2. gone \subseteq Author BY SMTT(30) DEF VarIInv, Author
  <2> QED BY <2>1, <2>2, SMTT(30) DEF Authors, compare_author
<1> HIDE DEF a
<1>6. r \in VarCommand BY <1>2, <1>4 DEF VarCommand, Request
<1>7. clock' = now /\ pc' = [pc EXCEPT ![u] = r] BY <1>1, Zenon
<1>8. r.at = "write" /\ r.key = k /\ r.time = now OBVIOUS
<1> HIDE DEF r
<1>9. RowInv' /\ OthersKept(u)
  <2>1. RowInv /\ clock \in Int /\ clock' \in Int /\ clock' >= clock BY <1>2, <1>7, SMTT(30) DEF VarIInv
  <2> QED BY <1>3, <2>1, RowsSame, SMTT(30)
<1>10. UserInv(u)'
  <2>1. pc'[u] = r BY <1>7 DEF VarIInv
  <2>2. now <= clock' BY <1>2, <1>7
  <2> QED BY <1>2, <1>3, <1>8, <2>1, <2>2 DEF UserInv, MayWrite
<1> QED BY <1>2, <1>3, <1>6, <1>7, <1>9, <1>10, StepInv, Zenon

(* What is known of a command that is about to write.                      *)
LEMMA Writing ==
    ASSUME VarIInv, NEW u \in UserId, pc[u].at = "write"
    PROVE  /\ pc[u] \in Request /\ u \notin gone /\ MayWrite(u, pc[u].key[1])
           /\ pc[u].time <= clock /\ clock \in 0..MaxTime /\ gone \subseteq UserId
           /\ \A k \in DOMAIN var : var[k].author = u => var[k].time < pc[u].time
<1>1. pc[u] \in VarCommand /\ UserInv(u) /\ clock \in 0..MaxTime /\ gone \subseteq UserId
  BY DEF VarIInv
<1>2. pc[u] \in Request BY <1>1, VarShapes
<1>3. pc[u] # Idle BY DEF Idle
<1> QED BY <1>1, <1>2, <1>3, Zenon DEF UserInv

(* The upsert.                                                             *)
LEMMA Upserted ==
    ASSUME VarIInv, NEW u \in UserId, Upsert(u)
    PROVE  VarIInv'
<1> DEFINE r == pc[u]
           old == IF r.op = "+" /\ r.key \in DOMAIN var THEN var[r.key].value ELSE 0
           row == [value |-> old + r.value, time |-> r.time, author |-> u]
           no == Answered(u, "select", None, FALSE)
           yes == Answered(u, "reply", row, TRUE)
<1>1. /\ r.at = "write" /\ row.value \in Stored /\ gone' = gone /\ clock' = clock
      /\ \/ var' = With(var, r.key, row) /\ ReturningRow(u, row)
         \/ pc' = [pc EXCEPT ![u] = no] /\ var' = var
  BY ZenonT(30) DEF Upsert
<1>2. /\ r \in Request /\ u \notin gone /\ MayWrite(u, r.key[1])
      /\ r.time <= clock /\ clock \in 0..MaxTime /\ gone \subseteq UserId
      /\ \A k \in DOMAIN var : var[k].author = u => var[k].time < r.time
  BY <1>1, Writing, SMTT(30)
<1>3. r.key \in Key /\ r.time \in 0..MaxTime
  <2> HIDE DEF r
  <2>1. r \in Request BY <1>2, Zenon
  <2> QED BY ONLY <2>1 DEF Request
<1>4. clock' \in 0..MaxTime /\ clock' >= clock /\ clock' \in Int /\ clock \in Int
  <2>1. clock' = clock /\ clock \in 0..MaxTime BY <1>1, <1>2, ZenonT(30)
  <2> QED BY ONLY <2>1, TusAssumption
<1>5. row \in VarRow /\ row.author = u /\ row.time = r.time
  BY <1>1, <1>3 DEF VarRow, Author
<1>6. RowInv BY DEF VarIInv
<1>7. CASE pc' = [pc EXCEPT ![u] = no] /\ var' = var
  <2>1. RowInv' /\ OthersKept(u) BY <1>1, <1>4, <1>6, <1>7, RowsSame, ZenonT(30)
  <2>2. no \in VarCommand BY <1>3, Zenon DEF VarCommand, Answer, Answered
  <2>3. UserInv(u)'
    <3>1. pc'[u] = no BY <1>7 DEF VarIInv
    <3>2. no.at = "select" /\ no.time = r.time /\ no.done = FALSE BY DEF Answered
    <3> HIDE DEF no
    <3> QED BY <1>1, <1>2, <1>7, <3>1, <3>2, Zenon DEF UserInv
  <2> HIDE DEF no
  <2> QED BY <1>1, <1>4, <1>7, <2>1, <2>2, <2>3, StepInv, ZenonT(30)
<1>8. CASE var' = With(var, r.key, row) /\ ReturningRow(u, row)
  <2>1. RowInv' /\ OthersKept(u)
    <3> HIDE DEF row
    <3> QED BY <1>1, <1>2, <1>3, <1>4, <1>5, <1>6, <1>8, RowWritten, ZenonT(30)
  <2>2. CASE pc' = [pc EXCEPT ![u] = Idle]
    BY <1>1, <1>4, <2>1, <2>2, IdleUserInv, StepInv, ZenonT(30)
  <2>3. CASE pc' = [pc EXCEPT ![u] = yes]
    <3>1. yes \in VarCommand
      <4> HIDE DEF row
      <4> QED BY <1>3, <1>5 DEF VarCommand, Answer, Answered
    <3>2. UserInv(u)'
      <4>1. pc'[u] = yes BY <2>3, SMTT(30) DEF VarIInv
      <4>2. yes.at = "reply" /\ yes.time = r.time /\ yes.done = TRUE /\ yes.row = row
        BY Zenon DEF Answered
      <4> HIDE DEF yes, row
      <4> QED BY <1>1, <1>2, <1>5, <4>1, <4>2, ZenonT(30) DEF UserInv
    <3> HIDE DEF yes
    <3> QED BY <1>1, <1>4, <2>1, <2>3, <3>1, <3>2, StepInv, Zenon
  <2> QED BY <1>8, <2>2, <2>3, Zenon DEF ReturningRow
<1> QED BY <1>1, <1>7, <1>8, ZenonT(30)

(* The row of the reply is read.                                           *)
LEMMA Selected ==
    ASSUME VarIInv, NEW u \in UserId, Select(u)
    PROVE  VarIInv'
<1> DEFINE k == pc[u].key
           r == [pc[u] EXCEPT !.at = "reply", !.row = var[k]]
<1>1. /\ pc[u].at = "select" /\ UNCHANGED <<var, gone, clock>>
      /\ \/ k \in DOMAIN var /\ pc' = [pc EXCEPT ![u] = r]
         \/ pc' = [pc EXCEPT ![u] = Idle]
  <2>1. [pc EXCEPT ![u].at = "reply", ![u].row = var[k]] = [pc EXCEPT ![u] = r] BY Zenon
  <2> QED BY <2>1, Zenon DEF Select
<1>2. clock' \in 0..MaxTime /\ clock' >= clock /\ clock \in Int /\ clock' \in Int /\ RowInv
  BY <1>1 DEF VarIInv
<1>3. RowInv' /\ OthersKept(u) BY <1>1, <1>2, RowsSame
<1>4. CASE pc' = [pc EXCEPT ![u] = Idle]
  BY <1>1, <1>2, <1>3, <1>4, IdleUserInv, StepInv, Zenon
<1>5. CASE k \in DOMAIN var /\ pc' = [pc EXCEPT ![u] = r]
  <2>1. UserInv(u) /\ pc[u] \in VarCommand BY DEF VarIInv
  <2>2. pc[u] \in Answer /\ pc[u] # Idle /\ u \notin gone /\ pc[u].done = FALSE
    <3>1. pc[u] \in Answer BY <1>1, <2>1, VarShapes
    <3>2. pc[u] # Idle BY <1>1, SMTT(30) DEF Idle
    <3> QED BY <1>1, <2>1, <3>1, <3>2, Zenon DEF UserInv
  <2>3. var[k] \in VarRow /\ (var[k].author = u => var[k].time # pc[u].time)
    <3>1. var[k].author = u => var[k].time < pc[u].time
      BY <1>1, <1>5, <2>1, Zenon DEF UserInv
    <3>2. var[k] \in VarRow BY <1>5, <1>2, Zenon DEF RowInv
    <3> QED BY <2>2, <3>1, <3>2 DEF VarRow, Answer
  <2>4. /\ r \in Answer /\ r.at = "reply" /\ r.row = var[k]
        /\ r.time = pc[u].time /\ r.done = FALSE
    <3>1. PICK x \in Answer : x = pc[u] BY <2>2
    <3>2. PICK y \in VarRow : y = var[k] BY <2>3
    <3>3. /\ [x EXCEPT !.at = "reply", !.row = y] \in Answer
          /\ [x EXCEPT !.at = "reply", !.row = y].at = "reply"
          /\ [x EXCEPT !.at = "reply", !.row = y].row = y
          /\ [x EXCEPT !.at = "reply", !.row = y].time = x.time
          /\ [x EXCEPT !.at = "reply", !.row = y].done = x.done
      BY Zenon DEF Answer
    <3> QED BY <2>2, <3>1, <3>2, <3>3
  <2> HIDE DEF r, k
  <2>5. UserInv(u)'
    <3>1. pc'[u] = r BY <1>5 DEF VarIInv
    <3> QED BY <1>1, <2>2, <2>3, <2>4, <3>1 DEF UserInv
  <2>6. r \in VarCommand BY <2>4 DEF VarCommand
  <2> QED BY <1>1, <1>2, <1>3, <1>5, <2>5, <2>6, StepInv, Zenon
<1> QED BY <1>1, <1>4, <1>5

(* The reply is sent.                                                      *)
LEMMA Replied ==
    ASSUME VarIInv, NEW u \in UserId, Reply(u)
    PROVE  VarIInv'
<1>1. UNCHANGED <<var, gone, clock>> /\ pc' = [pc EXCEPT ![u] = Idle] BY DEF Reply
<1>2. clock' \in 0..MaxTime /\ clock' >= clock /\ clock \in Int /\ clock' \in Int /\ RowInv
  BY <1>1 DEF VarIInv
<1>3. RowInv' /\ OthersKept(u) BY <1>1, <1>2, RowsSame
<1> QED BY <1>1, <1>2, <1>3, IdleUserInv, StepInv, ZenonT(30)

(* A step of u, who has no command, and which leaves all commands alone.   *)
LEMMA IdleStep ==
    ASSUME VarIInv, NEW u \in UserId, pc[u] = Idle, pc' = pc, clock' = clock,
           gone' \subseteq gone \cup {u}, RowInv', OthersKept(u)
    PROVE  VarIInv'
<1>1. \A v \in UserId \ {u} : UserInv(v)'
  <2>1. clock' \in Int /\ clock' >= clock BY DEF VarIInv
  <2> QED BY <2>1, OtherUserInv
<1>2. UserInv(u)'
  <2>1. pc'[u].at = "idle" BY DEF Idle
  <2> QED BY <2>1 DEF UserInv
<1>3. gone' \subseteq UserId BY DEF VarIInv
<1> QED BY <1>1, <1>2, <1>3, Zenon DEF VarIInv

(* Variables are deleted.                                                  *)
LEMMA VarsDeleted ==
    ASSUME VarIInv, NEW u \in UserId, NEW o, NEW slots, tus_delete_multislot_variable(u, o, slots)
    PROVE  VarIInv'
<1>1. /\ pc[u] = Idle /\ var' = Without(var, o, slots) /\ UNCHANGED <<gone, clock, pc>>
  BY DEF tus_delete_multislot_variable, Ready
<1>2. RowInv' /\ OthersKept(u) BY <1>1, RowsDeleted DEF VarIInv
<1> QED BY <1>1, <1>2, IdleStep

(* An account is deleted.                                                  *)
LEMMA VarUserDeleted ==
    ASSUME VarIInv, NEW u \in UserId, delete_var_user(u)
    PROVE  VarIInv'
<1>1. /\ pc[u] = Idle /\ var' = Disowned(var, u) /\ gone' = gone \cup {u}
      /\ UNCHANGED <<clock, pc>>
  BY DEF delete_var_user, Ready
<1>2. RowInv' /\ OthersKept(u) BY <1>1, RowsDisowned DEF VarIInv
<1> QED BY <1>1, <1>2, IdleStep

(* Every step keeps the invariant.                                         *)
LEMMA VarStep ==
    ASSUME VarIInv, [VarNext]_var_vars
    PROVE  VarIInv'
<1>1. ASSUME NEW u \in UserId, NEW o \in UserId \cup VUser, NEW slots \in SUBSET Slot,
             NEW todo \in [slots -> Value], tus_set_multislot_variable(u, o, todo)
      PROVE  VarIInv'
  <2>1. todo \in ToDo BY DEF ToDo
  <2> QED BY <1>1, <2>1, SetBegins
<1>2. ASSUME NEW u \in UserId, NEW o, NEW slots, tus_delete_multislot_variable(u, o, slots)
      PROVE  VarIInv'
  BY <1>2, VarsDeleted
<1>3. ASSUME NEW u \in UserId, NEW k \in Key, NEW value \in Value, NEW cond_time \in {None} \cup Date,
             NEW asked \in Authors(k), tus_add_and_get_variable(u, k, value, cond_time, asked)
      PROVE  VarIInv'
  <2>1. Begin(u, k, "+", value, value, cond_time, asked) BY <1>3 DEF tus_add_and_get_variable
  <2> QED BY <2>1, ChangeBegins
<1>4. ASSUME NEW u \in UserId, NEW k \in Key, NEW value \in Value, NEW cond_time \in {None} \cup Date,
             NEW asked \in Authors(k), NEW op \in OpeType, NEW than \in Value,
             tus_try_and_set_variable(u, k, op, value, than, cond_time, asked)
      PROVE  VarIInv'
  <2>1. Begin(u, k, op, value, than, cond_time, asked) BY <1>4 DEF tus_try_and_set_variable
  <2>2. op \in OpeType \cup {"+"} OBVIOUS
  <2> QED BY <2>1, <2>2, ChangeBegins
<1>5. ASSUME NEW u \in UserId, NEW s \in Slot, tus_set_user_variable(u, s) PROVE VarIInv'
  BY <1>5, SlotSet
<1>6. ASSUME NEW u \in UserId, Upsert(u) PROVE VarIInv' BY <1>6, Upserted
<1>7. ASSUME NEW u \in UserId, Select(u) PROVE VarIInv' BY <1>7, Selected
<1>8. ASSUME NEW u \in UserId, Reply(u) PROVE VarIInv' BY <1>8, Replied
<1>9. ASSUME NEW u \in UserId, delete_var_user(u) PROVE VarIInv' BY <1>9, VarUserDeleted
<1>10. CASE UNCHANGED var_vars
  <2>1. UNCHANGED <<var, gone, clock, pc>> BY <1>10 DEF var_vars
  <2> QED BY <2>1, Zenon DEF VarIInv, RowInv, UserInv, MayWrite
<1> QED BY <1>1, <1>2, <1>3, <1>4, <1>5, <1>6, <1>7, <1>8, <1>9, <1>10, Zenon DEF VarNext

(* The inductive invariant of TUS variables: rows of accounts only,        *)
(* private where they belong to a user, and commands that are newer than   *)
(* what their user wrote before.                                           *)
THEOREM TusVarInvariance == VarSpec => []VarIInv
<1>1. VarInit => VarIInv
  <2> SUFFICES ASSUME VarInit PROVE VarIInv OBVIOUS
  <2>1. RowInv BY DEF VarInit, RowInv
  <2>2. pc \in [UserId -> VarCommand] BY DEF VarInit, VarCommand
  <2>3. \A u \in UserId : UserInv(u)
    <3>1. ASSUME NEW u \in UserId PROVE pc[u] = Idle /\ pc[u].at = "idle" BY DEF VarInit, Idle
    <3> QED BY <3>1, Zenon DEF UserInv
  <2> QED BY <2>1, <2>2, <2>3, TusAssumption DEF VarInit, VarIInv
<1>2. VarIInv /\ [VarNext]_var_vars => VarIInv' BY VarStep
<1> QED BY <1>1, <1>2, PTL DEF VarSpec

(* The author and the owner of a row are accounts at all times, also when  *)
(* accounts are deleted between the statements of others.                  *)
THEOREM VarsWellTyped == VarSpec => []VarTypeOK
<1>1. VarIInv => VarTypeOK BY VarIInvImplies
<1> QED BY <1>1, TusVarInvariance, PTL

(* The variables of a user are changed by that user only.                  *)
THEOREM VarsStayPrivate == VarSpec => []OwnSlotsPrivate
<1>1. VarIInv => OwnSlotsPrivate BY VarIInvImplies
<1> QED BY <1>1, TusVarInvariance, PTL

(* The reply to an addition or to a conditional set bears the name of its  *)
(* user and the timestamp of the command exactly when the change was made. *)
THEOREM RepliesTruthful == VarSpec => []RepliesTellOutcome
<1>1. VarIInv => RepliesTellOutcome BY VarIInvImplies
<1> QED BY <1>1, TusVarInvariance, PTL

-----------------------------------------------------------------------------
(* Only the upsert ends the writing of a command.                          *)
LEMMA WriterUpserts ==
    ASSUME VarIInv, VarNext, NEW u \in UserId, pc[u].at = "write", pc'[u] # pc[u]
    PROVE  Upsert(u)
<1>1. pc[u] # Idle /\ pc \in [UserId -> VarCommand] BY DEF Idle, VarIInv
<1>2. ASSUME NEW v \in UserId, NEW r, pc' = [pc EXCEPT ![v] = r] PROVE v = u
  BY <1>1, <1>2
<1>3. ASSUME NEW v \in UserId, NEW r, pc' = [pc EXCEPT ![v] = r], pc[v].at # "write" PROVE FALSE
  BY <1>2, <1>3
<1>4. ASSUME NEW v \in UserId, pc[v] = Idle PROVE pc[v].at # "write" BY <1>4 DEF Idle
<1>5. ASSUME NEW v \in UserId, NEW o, NEW todo, tus_set_multislot_variable(v, o, todo) PROVE FALSE
  BY <1>3, <1>4, <1>5, Zenon DEF tus_set_multislot_variable, Ready
<1>6. ASSUME NEW v \in UserId, NEW o, NEW slots, tus_delete_multislot_variable(v, o, slots)
      PROVE  FALSE
  BY <1>6 DEF tus_delete_multislot_variable
<1>7. ASSUME NEW v \in UserId, NEW k, NEW op, NEW value, NEW than, NEW t, NEW a,
             Begin(v, k, op, value, than, t, a)
      PROVE  FALSE
  BY <1>3, <1>4, <1>7, Zenon DEF Begin, Ready
<1>8. ASSUME NEW v \in UserId, NEW s, tus_set_user_variable(v, s) PROVE FALSE
  <2>1. pc[v].at # "write" BY <1>8 DEF tus_set_user_variable
  <2>2. \/ pc' = [pc EXCEPT ![v] = Idle]
        \/ \E x, now : pc' = [pc EXCEPT ![v].todo = x, ![v].time = now]
    BY <1>8, ZenonT(30) DEF tus_set_user_variable
  <2>3. \A x, now : [pc EXCEPT ![v].todo = x, ![v].time = now]
                      = [pc EXCEPT ![v] = [pc[v] EXCEPT !.todo = x, !.time = now]]
    BY Zenon
  <2>4. \E r : pc' = [pc EXCEPT ![v] = r]
    <3>1. CASE pc' = [pc EXCEPT ![v] = Idle] BY <3>1, Zenon
    <3>2. ASSUME NEW x, NEW now, pc' = [pc EXCEPT ![v].todo = x, ![v].time = now]
          PROVE  \E r : pc' = [pc EXCEPT ![v] = r]
      <4>1. pc' = [pc EXCEPT ![v] = [pc[v] EXCEPT !.todo = x, !.time = now]] BY <2>3, <3>2, Zenon
      <4> QED BY <4>1, Zenon
    <3> QED BY <2>2, <3>1, <3>2, Zenon
  <2> QED BY <1>3, <2>1, <2>4
<1>9. ASSUME NEW v \in UserId, Upsert(v) PROVE Upsert(u)
  <2>1. \E r : pc' = [pc EXCEPT ![v] = r] BY <1>9, Zenon DEF Upsert, ReturningRow
  <2>2. v = u BY <1>2, <2>1
  <2> QED BY <1>9, <2>2, Zenon
<1>10. ASSUME NEW v \in UserId, Select(v) PROVE FALSE
  <2>1. pc[v].at # "write" BY <1>10 DEF Select
  <2>2. \A x : [pc EXCEPT ![v].at = "reply", ![v].row = x]
                 = [pc EXCEPT ![v] = [pc[v] EXCEPT !.at = "reply", !.row = x]]
    BY Zenon
  <2>3. \E r : pc' = [pc EXCEPT ![v] = r] BY <1>10, <2>2, Zenon DEF Select
  <2> QED BY <1>3, <2>1, <2>3
<1>11. ASSUME NEW v \in UserId, Reply(v) PROVE FALSE BY <1>3, <1>11 DEF Reply
<1>12. ASSUME NEW v \in UserId, delete_var_user(v) PROVE FALSE BY <1>12 DEF delete_var_user
<1> QED
  BY <1>5, <1>6, <1>7, <1>8, <1>9, <1>10, <1>11, <1>12, Zenon
     DEF VarNext, tus_add_and_get_variable, tus_try_and_set_variable

(* A change on the condition that the variable was not changed after a     *)
(* date, which is not to come, never turns a date back.                    *)
THEOREM VarDatesKept == VarSpec => ConditionalVarDates
<1> DEFINE A == \A u \in UserId :
                  /\ pc[u].at = "write" /\ pc'[u] # pc[u]
                  /\ pc[u].cond_time # None /\ pc[u].cond_time <= pc[u].time
                  => \A k \in DOMAIN var : k \in DOMAIN var' => var'[k].time >= var[k].time
<1>1. VarIInv /\ [VarNext]_var_vars => [A]_var_vars
  <2> SUFFICES ASSUME VarIInv, VarNext, NEW u \in UserId, pc[u].at = "write",
                      pc'[u] # pc[u], pc[u].cond_time # None, pc[u].cond_time <= pc[u].time,
                      NEW k \in DOMAIN var, k \in DOMAIN var'
               PROVE  var'[k].time >= var[k].time
    OBVIOUS
  <2> DEFINE r == pc[u]
  <2>1. Upsert(u) BY WriterUpserts
  <2>2. r \in Request BY Writing
  <2>3. var[k].time \in Nat BY DEF VarIInv, RowInv, VarRow
  <2>4. \/ var' = var
        \/ /\ r.key \in DOMAIN var => var[r.key].time <= r.cond_time
           /\ \E x : var' = With(var, r.key, [value |-> x, time |-> r.time, author |-> u])
    BY <2>1, Zenon DEF Upsert, prepare_try_and_set_cond_string
  <2>5. r.cond_time \in Nat /\ r.time \in Nat /\ r.cond_time <= r.time
    <3>1. r.cond_time \in {None} \cup Date /\ r.time \in 0..MaxTime
      BY <2>2 DEF Request
    <3>2. Date \subseteq Nat BY TusAssumption, Zenon
    <3>3. r.cond_time \in Nat BY <3>1, <3>2, Zenon
    <3>4. r.time \in Nat BY ONLY <3>1
    <3> QED BY <3>3, <3>4, Zenon
  <2> HIDE DEF r
  <2>6. ASSUME NEW x, var' = With(var, r.key, [value |-> x, time |-> r.time, author |-> u]),
               r.key \in DOMAIN var => var[r.key].time <= r.cond_time
        PROVE  var'[k].time >= var[k].time
    <3>1. CASE k = r.key
      <4>1. var'[k].time = r.time BY <2>6, <3>1, SMTT(30) DEF With
      <4>2. var[k].time <= r.cond_time BY <2>6, <3>1
      <4> QED BY <2>3, <2>5, <4>1, <4>2, SMTT(30)
    <3>2. CASE k # r.key
      <4>1. var'[k] = var[k] BY <2>6, <3>2 DEF With
      <4> QED BY <2>3, <4>1
    <3> QED BY <3>1, <3>2
  <2>7. CASE var' = var BY <2>3, <2>7
  <2> QED BY <2>4, <2>6, <2>7, Zenon
<1> QED BY <1>1, TusVarInvariance, PTL DEF VarSpec, ConditionalVarDates
=============================================================================
