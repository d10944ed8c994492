------------------------------- MODULE Scores -------------------------------
(***************************************************************************)
(* A scoreboard: the rows of the score table in the database, the sorted   *)
(* cache in front of it (src/server/score_cache.rs), and the files with    *)
(* the data attached to scores (src/server/client/cmd_score.rs).           *)
(*                                                                         *)
(* A client records a score first in the database and then in the cache,   *)
(* and attaches data in three steps with the others' commands in between;  *)
(* the server may stop at any point and reload the cache.                  *)
(***************************************************************************)
EXTENDS Integers, FiniteSets, Sequences, FiniteSetsExt

CONSTANTS
    UserId,        \* account ids, which break ties
    CharId,        \* character ids: a user has a score for each
    Score,         \* scores a game may report
    RankLimit,     \* rows kept in the cache
    Ascending,     \* sort_mode # 0
    ForceUpdate,   \* update_mode # 0
    Uploader,      \* users who attach data to scores
    Deletable,     \* users whose account may be deleted
    MaxTime,       \* bound on the clock
    MaxDataId      \* bound on the file ids handed out

ASSUME ScoresAssumption ==
    /\ UserId \subseteq Nat /\ CharId \subseteq Nat /\ Score \subseteq Int
    /\ Uploader \subseteq UserId /\ Deletable \subseteq UserId
    /\ RankLimit \in Nat \ {0} /\ MaxTime \in Nat /\ MaxDataId \in Nat
    /\ Ascending \in BOOLEAN /\ ForceUpdate \in BOOLEAN

VARIABLES
    db,             \* the score table: key -> row
    gone,           \* users whose account was deleted
    sorted_scores,  \* the cache, best row first
    npid_lookup,    \* key -> position in sorted_scores
    users,          \* users whose names are cached
    files,          \* file id -> key it was uploaded for
    next_id,        \* SCORE_DATA_ID_DISPENSER
    clock,
    pc              \* user -> command in progress

cache == <<sorted_scores, npid_lookup, users>>
disk == <<files, next_id>>
vars == <<db, gone, cache, disk, clock, pc>>

NoData == -1       \* data_id NULL
FailedId == 0      \* what create_score_data_file returns if it fails

Row == [user: UserId, char: CharId, score: Score, time: 0..MaxTime,
        data: {NoData} \cup 0..MaxDataId]
Key(row) == <<row.user, row.char>>
Idle == [at |-> "idle"]
Busy == [at: {"insert", "file", "cache", "db"}, row: Row]

Init ==
    /\ db = <<>> /\ gone = {}
    /\ sorted_scores = <<>> /\ npid_lookup = <<>> /\ users = {}
    /\ files = <<>> /\ next_id = 1
    /\ clock = 0
    /\ pc = [u \in UserId |-> Idle]

-----------------------------------------------------------------------------
(* record_score: the database.                                             *)

Beats(s, t) == IF Ascending THEN s < t ELSE s > t

(* The WHERE of the upsert.                                                *)
Accepted(k, s) == k \in DOMAIN db /\ ~ForceUpdate => ~Beats(db[k].score, s)

(* Wrong: the cache is updated although the score was not the best.        *)
record_score_NotBest(u, ch, s) ==
    LET k == <<u, ch>>
    IN  /\ pc[u] = Idle /\ u \notin gone
        /\ \E now \in clock..(clock + 1) \cap 0..MaxTime :
             LET row == [user |-> u, char |-> ch, score |-> s, time |-> now, data |-> NoData]
             IN  /\ \A q \in DOMAIN db : q[1] = u => db[q].time < now
                 /\ clock' = now
                 /\ db' = [q \in DOMAIN db \cup {k} |->
                            IF q = k /\ Accepted(k, s) THEN row ELSE db[q]]
                 /\ pc' = [pc EXCEPT ![u] = [at |-> "insert", row |-> row]]
        /\ UNCHANGED <<gone, cache, disk>>

(* A user's commands are one after the other, so its timestamps differ.    *)
(* A score that the WHERE refuses is answered with ScoreNotBest and        *)
(* changes nothing.                                                        *)
record_score(u, ch, s) ==
    LET k == <<u, ch>>
    IN  /\ pc[u] = Idle /\ u \notin gone
        /\ \E now \in clock..(clock + 1) \cap 0..MaxTime :
             LET row == [user |-> u, char |-> ch, score |-> s, time |-> now, data |-> NoData]
             IN  /\ \A q \in DOMAIN db : q[1] = u => db[q].time < now
                 /\ clock' = now
                 /\ Accepted(k, s)
                 /\ db' = [q \in DOMAIN db \cup {k} |-> IF q = k THEN row ELSE db[q]]
                 /\ pc' = [pc EXCEPT ![u] = [at |-> "insert", row |-> row]]
        /\ UNCHANGED <<gone, cache, disk>>

-----------------------------------------------------------------------------
(* insert_score: the cache, under the lock of the table.                   *)

(* DbScoreInfo::cmp gives Less.                                            *)
Before(r, s) ==
    \/ Beats(r.score, s.score)
    \/ r.score = s.score /\ r.time < s.time
    \/ r.score = s.score /\ r.time = s.time /\ r.user > s.user

(* Wrong: a full table takes no further row.                               *)
Qualifies_NotFull(row, rest) == Len(rest) < RankLimit

Qualifies(row, rest) == Len(rest) >= RankLimit => Before(row, rest[Len(rest)])

(* Wrong: the new row goes behind all rows that are not worse.             *)
Positions_First(row, rest) ==
    {i \in 1..Len(rest) + 1 : i <= Len(rest) => Before(row, rest[i])}

(* Where binary_search_by may end: its last probes on either side.         *)
Positions(row, rest) ==
    {i \in 1..Len(rest) + 1 : /\ i > 1 => Before(rest[i - 1], row)
                              /\ i <= Len(rest) => Before(row, rest[i])}

(* Wrong: rows between the old and a lower new position keep their index.  *)
ReorderStart_AfterNew(old, pos) == pos + 1

ReorderStart(old, pos) == IF old = 0 \/ pos + 1 < old THEN pos + 1 ELSE old

(* Wrong: the row beyond the limit stays.                                  *)
Limit_Off == RankLimit + 1

Limit == RankLimit

insert_score(u) ==
    LET row == pc[u].row
        k == Key(row)
        old == IF k \in DOMAIN npid_lookup THEN npid_lookup[k] ELSE 0
        rest == IF old = 0 THEN sorted_scores
                ELSE SubSeq(sorted_scores, 1, old - 1)
                       \o SubSeq(sorted_scores, old + 1, Len(sorted_scores))
    IN  /\ pc[u].at = "insert"
        /\ pc' = [pc EXCEPT ![u] = Idle]
        /\ \/ /\ ~Qualifies(row, rest)
              /\ sorted_scores' = rest
              /\ UNCHANGED <<npid_lookup, users>>
           \/ /\ Qualifies(row, rest)
              /\ users' = users \cup {u}
              /\ \E pos \in Positions(row, rest) :
                   LET all == SubSeq(rest, 1, pos - 1) \o <<row>> \o SubSeq(rest, pos, Len(rest))
                       moved == ReorderStart(old, pos)..Len(all)
                       index == [q \in DOMAIN npid_lookup \cup {k} |->
                                   IF \E i \in moved : Key(all[i]) = q
                                     THEN CHOOSE i \in moved : Key(all[i]) = q
                                     ELSE IF q = k THEN pos ELSE npid_lookup[q]]
                   IN  IF Len(all) > Limit
                         THEN /\ sorted_scores' = SubSeq(all, 1, Len(all) - 1)
                              /\ npid_lookup' = [q \in DOMAIN index \ {Key(all[Len(all)])} |-> index[q]]
                         ELSE sorted_scores' = all /\ npid_lookup' = index
        /\ UNCHANGED <<db, gone, disk, clock>>

-----------------------------------------------------------------------------
(* record_score_data: the cache is asked, the file written, the cache      *)
(* updated and last the database.                                          *)

contains_score_with_no_data(u, ch) ==
    LET k == <<u, ch>>
    IN  /\ pc[u] = Idle /\ u \in Uploader \ gone
        /\ k \in DOMAIN npid_lookup
        /\ sorted_scores[npid_lookup[k]].data = NoData
        /\ pc' = [pc EXCEPT ![u] = [at |-> "file", row |-> sorted_scores[npid_lookup[k]]]]
        /\ UNCHANGED <<db, gone, cache, disk, clock>>

(* Creating or writing the file may fail; then the id is 0.  When the data *)
(* has reached the file, after write_all has handed it over, is left out.  *)
create_score_data_file(u) ==
    LET k == Key(pc[u].row)
        created == [i \in DOMAIN files \cup {next_id} |-> IF i = next_id THEN k ELSE files[i]]
    IN  /\ pc[u].at = "file"
        /\ next_id <= MaxDataId
        /\ next_id' = next_id + 1
        /\ \/ files' = created /\ pc' = [pc EXCEPT ![u].at = "cache", ![u].row.data = next_id]
           \/ files' = created /\ pc' = [pc EXCEPT ![u].at = "cache", ![u].row.data = FailedId]
           \/ files' = files /\ pc' = [pc EXCEPT ![u].at = "cache", ![u].row.data = FailedId]
        /\ UNCHANGED <<db, gone, cache, clock>>

Without(i) == [j \in DOMAIN files \ {i} |-> files[j]]

(* The score may have been pushed out: then the file is deleted again.     *)
set_game_data(u) ==
    LET row == pc[u].row
        k == Key(row)
    IN  /\ pc[u].at = "cache"
        /\ \/ /\ k \in DOMAIN npid_lookup
              /\ sorted_scores' = [sorted_scores EXCEPT ![npid_lookup[k]].data = row.data]
              /\ pc' = [pc EXCEPT ![u].at = "db"]
              /\ UNCHANGED files
           \/ /\ k \notin DOMAIN npid_lookup
              /\ files' = Without(row.data)
              /\ pc' = [pc EXCEPT ![u] = Idle]
              /\ UNCHANGED sorted_scores
        /\ UNCHANGED <<db, gone, npid_lookup, users, next_id, clock>>

(* data_id is UNIQUE, and a failure is only logged.                        *)
set_score_data(u) ==
    LET row == pc[u].row
        k == Key(row)
    IN  /\ pc[u].at = "db"
        /\ \/ /\ k \in DOMAIN db /\ db[k].score = row.score
              /\ \A q \in DOMAIN db \ {k} : db[q].data # row.data
              /\ db' = [db EXCEPT ![k].data = row.data]
           \/ UNCHANGED db
        /\ pc' = [pc EXCEPT ![u] = Idle]
        /\ UNCHANGED <<gone, cache, disk, clock>>

-----------------------------------------------------------------------------
(* The rows of a deleted account go with it, in the database.              *)
delete_user(u) ==
    /\ pc[u] = Idle /\ u \in Deletable \ gone
    /\ gone' = gone \cup {u}
    /\ db' = [k \in {q \in DOMAIN db : q[1] # u} |-> db[k]]
    /\ UNCHANGED <<cache, disk, clock, pc>>

(* get_scores_from_table: ORDER BY score, timestamp, user_id LIMIT.        *)
SqlBefore(r, s) ==
    \/ Beats(r.score, s.score)
    \/ r.score = s.score /\ r.time < s.time
    \/ r.score = s.score /\ r.time = s.time /\ r.user < s.user

get_scores_from_table ==
    LET rows == {db[k] : k \in DOMAIN db}
        n == Cardinality(rows)
    IN  {SubSeq(all, 1, IF n < RankLimit THEN n ELSE RankLimit) :
           all \in {s \in [1..n -> rows] :
                      \A i, j \in 1..n : i < j => s[i] # s[j] /\ ~SqlBefore(s[j], s[i])}}

(* Wrong: the last id in use is handed out again.                          *)
create_data_directory_Max == IF DOMAIN files = {} THEN 1 ELSE Max(DOMAIN files)

create_data_directory == IF DOMAIN files = {} THEN 1 ELSE Max(DOMAIN files) + 1

(* clean_score_data: files the database does not know are deleted.         *)
Referenced == {db[k].data : k \in DOMAIN db}

(* The server stops, at any point, and starts: initialize_score and then   *)
(* clean_score_data.                                                       *)
Restart ==
    /\ \E loaded \in get_scores_from_table :
         /\ sorted_scores' = loaded
         /\ npid_lookup' = [k \in {Key(loaded[i]) : i \in DOMAIN loaded} |->
                              CHOOSE i \in DOMAIN loaded : Key(loaded[i]) = k]
         /\ users' = {loaded[i].user : i \in DOMAIN loaded}
    /\ next_id' = create_data_directory
    /\ files' = [i \in DOMAIN files \cap Referenced |-> files[i]]
    /\ pc' = [u \in UserId |-> Idle]
    /\ UNCHANGED <<db, gone, clock>>

Next ==
    \/ \E u \in UserId, ch \in CharId : \/ \E s \in Score : record_score(u, ch, s)
                                        \/ contains_score_with_no_data(u, ch)
    \/ \E u \in UserId : \/ insert_score(u)
                         \/ create_score_data_file(u)
                         \/ set_game_data(u)
                         \/ set_score_data(u)
                         \/ delete_user(u)
    \/ Restart

Spec == Init /\ [][Next]_vars

-----------------------------------------------------------------------------
(* Type invariant.                                                         *)
TypeOK ==
    /\ DOMAIN db \subseteq UserId \X CharId
    /\ \A k \in DOMAIN db : db[k] \in Row /\ Key(db[k]) = k /\ k[1] \notin gone
    /\ sorted_scores \in Seq(Row) /\ Len(sorted_scores) <= RankLimit
    /\ users \subseteq UserId /\ gone \subseteq UserId
    /\ DOMAIN files \subseteq 1..MaxDataId /\ next_id \in 1..(MaxDataId + 1)
    /\ clock \in 0..MaxTime
    /\ \A u \in UserId : pc[u] = Idle \/ (pc[u] \in Busy /\ pc[u].row.user = u)

(* What readers index without a check is there: a key's position is that   *)
(* of its row, however rows moved, and the name of every ranked user is    *)
(* cached.                                                                 *)
LookupExact ==
    /\ DOMAIN npid_lookup = {Key(sorted_scores[i]) : i \in DOMAIN sorted_scores}
    /\ \A k \in DOMAIN npid_lookup :
         npid_lookup[k] \in DOMAIN sorted_scores /\ Key(sorted_scores[npid_lookup[k]]) = k
    /\ \A i \in DOMAIN sorted_scores : sorted_scores[i].user \in users

(* The ranking is by score and then by age, whether rows were inserted in  *)
(* the order of their timestamps or not and whether they were loaded or    *)
(* inserted (the two differ on the users of a tie).                        *)
RankingOrdered ==
    \A i, j \in DOMAIN sorted_scores :
      LET r == sorted_scores[i]
          s == sorted_scores[j]
      IN  i < j => Beats(r.score, s.score) \/ (r.score = s.score /\ r.time <= s.time)

(* A ranked row is the row of the database, for a user who is not just     *)
(* recording a score and still has an account; data that the database      *)
(* knows of is also known to the cache.                                    *)
CacheCurrent ==
    \A i \in DOMAIN sorted_scores :
      LET r == sorted_scores[i]
      IN  pc[r.user].at # "insert" /\ r.user \notin gone =>
            /\ Key(r) \in DOMAIN db
            /\ db[Key(r)] \in {r, [r EXCEPT !.data = NoData]}

(* On a board that keeps the best score of each, no score that was left    *)
(* out of the ranking is better than one that is in it.                    *)
BestRanked ==
    ~ForceUpdate =>
      \A k \in DOMAIN db \ DOMAIN npid_lookup :
        pc[k[1]].at = "insert" \/ /\ Len(sorted_scores) = RankLimit
                                  /\ \A i \in DOMAIN sorted_scores :
                                       ~Beats(db[k].score, sorted_scores[i].score)

(* The data id of a row, in the cache or in the database, names the file   *)
(* that was uploaded for it, across restarts that clean files and restart  *)
(* the ids; only a file that could not be made leaves an id without one.   *)
(* That all of its data has been written by then is not promised.          *)
DataOwned ==
    \A r \in {db[k] : k \in DOMAIN db} \cup {sorted_scores[i] : i \in DOMAIN sorted_scores} :
      r.data > FailedId => r.data \in DOMAIN files /\ files[r.data] = Key(r)
=============================================================================
