------------------------------ MODULE TusData -------------------------------
(***************************************************************************)
(* The data slots of the title user storage, src/server/client/cmd_tus.rs  *)
(* and database/db_tus.rs: rows of tus_data and tus_data_vuser in the      *)
(* database, each naming a file by its id.                                 *)
(*                                                                         *)
(* A client stores data in steps (check, file, row) and reads it in two    *)
(* (row, file), with the commands of the others in between.  The server    *)
(* may stop at any point; when it starts it deletes the files that no row  *)
(* names.  Files are told apart by the upload they are of; how much of its *)
(* data a file holds is not recorded.                                      *)
(***************************************************************************)
EXTENDS Tus, FiniteSets, FiniteSetsExt

CONSTANT MaxDataId     \* bound on the file ids handed out

ASSUME TusDataAssumption == MaxDataId \in Nat

VARIABLES
    table,    \* both tables: key -> row
    files,    \* file id -> the upload it is of
    writing,  \* files whose data is on its way to the disk
    next_id,  \* TUS_DATA_ID_DISPENSER
    up        \* the server runs

contents == <<files, writing>>
disk == <<contents, next_id>>
vars == <<table, gone, disk, clock, up, pc>>

FailedId == 0      \* what create_tus_data_file returns if it fails

Row == [id: 0..MaxDataId, time: 0..MaxTime, author: Author]
Upload(k, t) == [key |-> k, time |-> t]

Store == [at: {"file", "store"}, key: Key, id: 0..MaxDataId, time: 0..MaxTime,
          cond_time: {None} \cup Date, cond_author: {None} \cup Author]
Read == [at: {"read"}, key: Key, row: Row]

Init ==
    /\ table = <<>> /\ gone = {}
    /\ files = <<>> /\ writing = {} /\ next_id = 1
    /\ clock = 0 /\ up = TRUE
    /\ pc = [u \in UserId |-> Idle]

-----------------------------------------------------------------------------
Meets(row, cond_time, cond_author) ==
    /\ cond_time # None => row.time <= cond_time
    /\ cond_author # None => row.author = cond_author

preliminary_set_tus_data_check(k, cond_time, cond_author) ==
    k \in DOMAIN table => Meets(table[k], cond_time, cond_author)

(* Wrong: the check made before the file was written is relied on.         *)
prepare_cond_string_Dropped(k, cond_time, cond_author) == TRUE

(* The WHERE of the upsert, evaluated where a row is in the way.           *)
prepare_cond_string(k, cond_time, cond_author) ==
    k \in DOMAIN table => Meets(table[k], cond_time, cond_author)

(* The request of a client: the author is looked up, the timestamp taken   *)
(* and the condition checked; if it does not hold nothing happens.  Any    *)
(* date is taken, also one that is yet to come.                            *)
tus_set_data(u, k, cond_time, cond_author) ==
    /\ up /\ pc[u] = Idle /\ u \notin gone
    /\ MayWrite(u, k[1])
    /\ cond_author \notin gone
    /\ preliminary_set_tus_data_check(k, cond_time, cond_author)
    /\ \E now \in clock..(clock + 1) \cap 0..MaxTime :
         /\ clock' = now
         /\ pc' = [pc EXCEPT ![u] = [at |-> "file", key |-> k, id |-> FailedId, time |-> now,
                                     cond_time |-> cond_time, cond_author |-> cond_author]]
    /\ UNCHANGED <<table, gone, disk, up>>

(* Creating or writing the file may fail; then the id is 0.  Otherwise     *)
(* write_all has only handed the data to a thread that writes it.          *)
create_tus_data_file(u) ==
    LET created == [i \in DOMAIN files \cup {next_id} |->
                      IF i = next_id THEN Upload(pc[u].key, pc[u].time) ELSE files[i]]
    IN  /\ pc[u].at = "file"
        /\ next_id <= MaxDataId
        /\ next_id' = next_id + 1
        /\ \/ /\ files' = created /\ writing' = writing \cup {next_id}
              /\ pc' = [pc EXCEPT ![u].at = "store", ![u].id = next_id]
           \/ /\ files' \in {created, files} /\ UNCHANGED writing
              /\ pc' = [pc EXCEPT ![u].at = "store"]
        /\ UNCHANGED <<table, gone, clock, up>>

(* The thread has written all of the data, or has failed on the way, which *)
(* nobody is told.                                                         *)
DataWritten(i) ==
    /\ writing' = writing \ {i}
    /\ UNCHANGED <<files, next_id, table, gone, clock, up, pc>>

delete_tus_data(i) ==
    /\ files' = [j \in DOMAIN files \ {i} |-> files[j]]
    /\ writing' = writing \ {i}

(* Wrong: the file of the row that is overwritten is deleted at once.      *)
tus_set_user_data_DeletesOld(u) ==
    LET k == pc[u].key
    IN  /\ pc[u].at = "store"
        /\ prepare_cond_string(k, pc[u].cond_time, pc[u].cond_author)
        /\ table' = With(table, k, [id |-> pc[u].id, time |-> pc[u].time, author |-> u])
        /\ IF k \in DOMAIN table THEN delete_tus_data(table[k].id) ELSE UNCHANGED contents
        /\ pc' = [pc EXCEPT ![u] = Idle]
        /\ UNCHANGED <<gone, next_id, clock, up>>

(* The row names the file; if the condition no longer holds the file is    *)
(* deleted, and if the database fails it stays.                            *)
tus_set_user_data(u) ==
    LET k == pc[u].key
        held == prepare_cond_string(k, pc[u].cond_time, pc[u].cond_author)
    IN  /\ pc[u].at = "store"
        /\ \/ /\ held
              /\ table' = With(table, k, [id |-> pc[u].id, time |-> pc[u].time, author |-> u])
              /\ UNCHANGED contents
           \/ ~held /\ delete_tus_data(pc[u].id) /\ UNCHANGED table
           \/ UNCHANGED <<contents, table>>
        /\ pc' = [pc EXCEPT ![u] = Idle]
        /\ UNCHANGED <<gone, next_id, clock, up>>

-----------------------------------------------------------------------------
(* tus_get_data reads the row, and the file after that.                    *)
tus_get_data(u, k) ==
    /\ up /\ pc[u] = Idle /\ u \notin gone
    /\ k \in DOMAIN table
    /\ pc' = [pc EXCEPT ![u] = [at |-> "read", key |-> k, row |-> table[k]]]
    /\ UNCHANGED <<table, gone, disk, clock, up>>

get_tus_data_file(u) ==
    /\ pc[u].at = "read"
    /\ pc' = [pc EXCEPT ![u] = Idle]
    /\ UNCHANGED <<table, gone, disk, clock, up>>

(* The rows go, the files stay until the next start.                       *)
tus_delete_multislot_data(u, o, slots) ==
    /\ up /\ pc[u] = Idle /\ u \notin gone
    /\ MayWrite(u, o)
    /\ table' = Without(table, o, slots)
    /\ UNCHANGED <<gone, disk, clock, up, pc>>

-----------------------------------------------------------------------------
(* An account is deleted while its user is offline.                        *)
delete_user(u) ==
    /\ up /\ pc[u] = Idle /\ u \in Deletable \ gone
    /\ gone' = gone \cup {u}
    /\ table' = Disowned(table, u)
    /\ UNCHANGED <<disk, clock, up, pc>>

(* Wrong: only the ids of one of the two tables are collected.             *)
tus_get_all_data_ids_OneTable == {table[k].id : k \in {q \in DOMAIN table : q[1] \in UserId}}

tus_get_all_data_ids == {table[k].id : k \in DOMAIN table}

Duplicates == \E k, q \in DOMAIN table : k # q /\ table[k].id = table[q].id

(* The ids resume after the largest in the directory.                      *)
initialize_tus_data_handler == IF DOMAIN files = {} THEN 1 ELSE Max(DOMAIN files) + 1

(* clean_tus_data removes the files that are not named; it gives up, and   *)
(* the server with it, where an id occurs twice.                           *)
Restart ==
    /\ next_id' = initialize_tus_data_handler
    /\ up' = ~Duplicates
    /\ IF Duplicates THEN UNCHANGED files
       ELSE files' = [i \in DOMAIN files \cap tus_get_all_data_ids |-> files[i]]
    /\ writing' = {}
    /\ pc' = [u \in UserId |-> Idle]
    /\ UNCHANGED <<table, gone, clock>>

Next ==
    \/ \E u \in UserId, k \in Key :
         \/ \E cond_time \in {None} \cup Date, cond_author \in {None} \cup Author :
              tus_set_data(u, k, cond_time, cond_author)
         \/ tus_get_data(u, k)
    \/ \E u \in UserId, o \in UserId \cup VUser, slots \in SUBSET Slot \ {{}} :
         tus_delete_multislot_data(u, o, slots)
    \/ \E u \in UserId : \/ create_tus_data_file(u)
                         \/ tus_set_user_data(u)
                         \/ get_tus_data_file(u)
                         \/ delete_user(u)
    \/ \E i \in writing : DataWritten(i)
    \/ Restart

Spec == Init /\ [][Next]_vars

-----------------------------------------------------------------------------
(* Type invariant.  The author of a row is an account, which the replies   *)
(* look up by name.                                                        *)
TypeOK ==
    /\ DOMAIN table \subseteq Key
    /\ \A k \in DOMAIN table : table[k] \in Row /\ k[1] \notin gone /\ table[k].author \notin gone
    /\ gone \subseteq UserId
    /\ DOMAIN files \subseteq 1..MaxDataId
    /\ \A i \in DOMAIN files : files[i] \in [key: Key, time: 0..MaxTime]
    /\ writing \subseteq DOMAIN files 
    /\ next_id \in 1..(MaxDataId + 1) /\ clock \in 0..MaxTime /\ up \in BOOLEAN
    /\ pc \in [UserId -> {Idle} \cup Store \cup Read]

(* A row names the file that was made for its slot at its date, whatever   *)
(* overwrites, failures, deletions and starts came in between; only a file *)
(* that could not be made leaves a row without one.                        *)
DataOwned ==
    \A k \in DOMAIN table :
      table[k].id # FailedId =>
        table[k].id \in DOMAIN files /\ files[table[k].id] = Upload(k, table[k].time)

(* A reader who has seen a row finds the file of that row, although the    *)
(* row may be overwritten or deleted before the file is opened: the data   *)
(* in the reply of tus_get_data is of no other upload than the status in   *)
(* it.  That the file has all of its data by then is not promised: the row *)
(* is stored while the file is in writing, and a write may fail unseen.    *)
ReadFindsFile ==
    \A u \in UserId :
      pc[u].at = "read" /\ pc[u].row.id # FailedId =>
        /\ pc[u].row.id \in DOMAIN files
        /\ files[pc[u].row.id] = Upload(pc[u].key, pc[u].row.time)

(* Data stored on the condition that the slot was not changed after a      *)
(* date never turns the date of the slot back, however long the file took  *)
(* to write: only an unconditional store does, or one whose condition      *)
(* names a date after its own timestamp, which the server takes as well.   *)
ConditionalKeepsDates ==
    [][\A k \in DOMAIN table :
         k \in DOMAIN table' /\ table'[k].time < table[k].time =>
           \E u \in UserId : /\ pc[u].at = "store" /\ pc[u].key = k
                             /\ pc[u].time = table'[k].time
                             /\ pc[u].cond_time = None \/ pc[u].cond_time > pc[u].time]_vars

(* The server starts again: no two rows have the same id, which            *)
(* tus_get_all_data_ids insists on.                                        *)
IdsDistinct == ~Duplicates
=============================================================================
