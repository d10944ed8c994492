------------------------------- MODULE TusVar -------------------------------
(***************************************************************************)
(* The variables of the title user storage, src/server/client/cmd_tus.rs   *)
(* and database/db_tus.rs: numbers with the date and the author of their   *)
(* last change, which clients set, add to, compare and set, and delete.    *)
(*                                                                         *)
(* A command takes its timestamp, writes with one statement and, where the *)
(* condition did not hold, reads the row it replies with another one.      *)
(***************************************************************************)
EXTENDS Tus

CONSTANTS
    Value,         \* values that clients set, add and compare with
    OpeType,       \* comparisons that clients ask for
    MaxVar         \* the largest integer of the database (2^63 - 1)

ASSUME TusVarAssumption ==
    /\ MaxVar \in Nat
    /\ Value \subseteq -MaxVar..MaxVar
    /\ OpeType \subseteq {"==", "!=", ">", ">=", "<", "<="}

VARIABLE var      \* both tables: key -> row

var_vars == <<var, gone, clock, pc>>

(* A sum beyond the integers is stored as a floating point number, which   *)
(* stands here as a number beyond MaxVar.                                  *)
Integer(n) == n \in -MaxVar..MaxVar
Stored == -(2 * MaxVar)..(2 * MaxVar)
VarRow == [value: Stored, time: 0..MaxTime, author: Author]

ToDo == UNION {[slots -> Value] : slots \in SUBSET Slot}
Setting == [at: {"set"}, owner: UserId \cup VUser, todo: ToDo, time: 0..MaxTime]
Request == [at: {"write"}, key: Key, op: OpeType \cup {"+"}, value: Value, than: Value,
            time: 0..MaxTime, cond_time: {None} \cup Date, cond_author: {None} \cup Author,
            asked: {None} \cup Author]
Answer == [at: {"select", "reply"}, key: Key, time: 0..MaxTime, row: VarRow \cup {None},
           done: BOOLEAN]

VarInit ==
    /\ var = <<>> /\ gone = {}
    /\ clock = 0
    /\ pc = [u \in UserId |-> Idle]

-----------------------------------------------------------------------------
Ready(u) == pc[u] = Idle /\ u \notin gone

(* get_psn_timestamp: a user's commands are one after the other, with      *)
(* microseconds in between.                                                *)
get_psn_timestamp(u) ==
    {now \in clock..(clock + 1) \cap 0..MaxTime :
       \A k \in DOMAIN var : var[k].author = u => var[k].time < now}

(* The slots of one request are written one by one.                        *)
tus_set_multislot_variable(u, o, todo) ==
    /\ Ready(u) /\ MayWrite(u, o)
    /\ \E now \in get_psn_timestamp(u) :
         /\ clock' = now
         /\ pc' = [pc EXCEPT ![u] = [at |-> "set", owner |-> o, todo |-> todo, time |-> now]]
    /\ UNCHANGED <<var, gone>>

(* A statement that fails is logged, and the next slot follows.            *)
tus_set_user_variable(u, s) ==
    LET todo == pc[u].todo
        rest == [t \in DOMAIN todo \ {s} |-> todo[t]]
    IN  /\ pc[u].at = "set"
        /\ s \in DOMAIN todo
        /\ \/ var' = With(var, <<pc[u].owner, s>>,
                         [value |-> todo[s], time |-> pc[u].time, author |-> u])
           \/ UNCHANGED var
        /\ \/ DOMAIN rest = {} /\ pc' = [pc EXCEPT ![u] = Idle] /\ UNCHANGED clock
           \/ /\ DOMAIN rest # {}
              /\ \E now \in clock..(clock + 1) \cap 0..MaxTime :
                   /\ now > pc[u].time
                   /\ clock' = now
                   /\ pc' = [pc EXCEPT ![u].todo = rest, ![u].time = now]
        /\ UNCHANGED gone

-----------------------------------------------------------------------------
(* tus_add_and_get_variable and tus_try_and_set_variable.                  *)

(* The author that a client puts in a condition is the one it has seen in  *)
(* the variable, or one who left since.                                    *)
Authors(k) == {None} \cup gone \cup (IF k \in DOMAIN var THEN {var[k].author} ELSE {})

(* The id of the author in the condition; a name without an account gives  *)
(* no condition.                                                           *)
compare_author(asked) == IF asked \in gone THEN None ELSE asked

(* The command is read and the timestamp taken.                            *)
Begin(u, k, op, value, than, cond_time, asked) ==
    /\ Ready(u) /\ MayWrite(u, k[1])
    /\ \E now \in get_psn_timestamp(u) :
         /\ clock' = now
         /\ pc' = [pc EXCEPT ![u] =
                     [at |-> "write", key |-> k, op |-> op, value |-> value, than |-> than,
                      time |-> now, cond_time |-> cond_time,
                      cond_author |-> compare_author(asked), asked |-> asked]]
    /\ UNCHANGED <<var, gone>>

tus_add_and_get_variable(u, k, value, cond_time, asked) ==
    Begin(u, k, "+", value, value, cond_time, asked)

tus_try_and_set_variable(u, k, op, value, than, cond_time, asked) ==
    Begin(u, k, op, value, than, cond_time, asked)

Compare(op, a, b) ==
    CASE op = "+"  -> TRUE
      [] op = "==" -> a = b
      [] op = "!=" -> a # b
      [] op = ">"  -> a > b
      [] op = ">=" -> a >= b
      [] op = "<"  -> a < b
      [] op = "<=" -> a <= b

(* Wrong: the date is not compared.                                        *)
prepare_try_and_set_cond_string_NoDate(row, r) ==
    /\ Compare(r.op, row.value, r.than)
    /\ r.cond_author # None => row.author = r.cond_author

(* The WHERE of the upsert, evaluated where a row is in the way.           *)
prepare_try_and_set_cond_string(row, r) ==
    /\ Compare(r.op, row.value, r.than)
    /\ r.cond_time # None => row.time <= r.cond_time
    /\ r.cond_author # None => row.author = r.cond_author

Answered(u, at, row, done) ==
    [at |-> at, key |-> pc[u].key, time |-> pc[u].time, row |-> row, done |-> done]

(* Wrong: the row of the reply is always read with a statement of its own. *)
ReturningRow_Reread(u, row) ==
    pc' = [pc EXCEPT ![u] = Answered(u, "select", None, TRUE)]

(* RETURNING; a number that is no integer makes the task panic.            *)
ReturningRow(u, row) ==
    IF Integer(row.value)
      THEN pc' = [pc EXCEPT ![u] = Answered(u, "reply", row, TRUE)]
      ELSE pc' = [pc EXCEPT ![u] = Idle]

(* The upsert.  A row that is not there is inserted whatever the           *)
(* condition says.                                                         *)
Upsert(u) ==
    LET r == pc[u]
        old == IF r.op = "+" /\ r.key \in DOMAIN var THEN var[r.key].value ELSE 0
        row == [value |-> old + r.value, time |-> r.time, author |-> u]
        held == r.key \in DOMAIN var => prepare_try_and_set_cond_string(var[r.key], r)
    IN  /\ r.at = "write"
        /\ row.value \in Stored
        /\ \/ held /\ var' = With(var, r.key, row) /\ ReturningRow(u, row)
           \/ /\ ~held
              /\ pc' = [pc EXCEPT ![u] = Answered(u, "select", None, FALSE)]
              /\ UNCHANGED var
        /\ UNCHANGED <<gone, clock>>

(* The row may be gone by now, and the client is disconnected for it.      *)
Select(u) ==
    LET k == pc[u].key
    IN  /\ pc[u].at = "select"
        /\ \/ /\ k \in DOMAIN var /\ Integer(var[k].value)
              /\ pc' = [pc EXCEPT ![u].at = "reply", ![u].row = var[k]]
           \/ /\ ~(k \in DOMAIN var /\ Integer(var[k].value))
              /\ pc' = [pc EXCEPT ![u] = Idle]
        /\ UNCHANGED <<var, gone, clock>>

(* The name of the author is looked up and the reply sent.                 *)
Reply(u) ==
    /\ pc[u].at = "reply"
    /\ pc' = [pc EXCEPT ![u] = Idle]
    /\ UNCHANGED <<var, gone, clock>>

-----------------------------------------------------------------------------
tus_delete_multislot_variable(u, o, slots) ==
    /\ Ready(u) /\ MayWrite(u, o)
    /\ var' = Without(var, o, slots)
    /\ UNCHANGED <<gone, clock, pc>>

(* An account is deleted while its user is offline.                        *)
delete_var_user(u) ==
    /\ Ready(u) /\ u \in Deletable
    /\ gone' = gone \cup {u}
    /\ var' = Disowned(var, u)
    /\ UNCHANGED <<clock, pc>>

VarNext ==
    \/ \E u \in UserId, o \in UserId \cup VUser, slots \in SUBSET Slot \ {{}} :
         \/ \E todo \in [slots -> Value] : tus_set_multislot_variable(u, o, todo)
         \/ tus_delete_multislot_variable(u, o, slots)
    \/ \E u \in UserId, k \in Key, value \in Value :
       \E cond_time \in {None} \cup Date, asked \in Authors(k) :
         \/ tus_add_and_get_variable(u, k, value, cond_time, asked)
         \/ \E op \in OpeType, than \in Value :
              tus_try_and_set_variable(u, k, op, value, than, cond_time, asked)
    \/ \E u \in UserId : \/ \E s \in Slot : tus_set_user_variable(u, s)
                         \/ Upsert(u) \/ Select(u) \/ Reply(u)
                         \/ delete_var_user(u)

VarSpec == VarInit /\ [][VarNext]_var_vars

-----------------------------------------------------------------------------
(* Type invariant.  The author of a row is an account, which the replies   *)
(* look up by name.                                                        *)
VarTypeOK ==
    /\ DOMAIN var \subseteq Key
    /\ \A k \in DOMAIN var : var[k] \in VarRow /\ k[1] \notin gone /\ var[k].author \notin gone
    /\ gone \subseteq UserId /\ clock \in 0..MaxTime
    /\ pc \in [UserId -> {Idle} \cup Setting \cup Request \cup Answer]

(* The variables of a user are changed by that user only, whichever of the *)
(* commands is used.                                                       *)
OwnSlotsPrivate == \A k \in DOMAIN var : k[1] \in UserId => var[k].author = k[1]

(* A client learns from the reply whether its addition or its conditional  *)
(* set was done: the reply bears its own name and the timestamp of the     *)
(* command exactly then, whatever others wrote in between.                 *)
RepliesTellOutcome ==
    \A u \in UserId :
      pc[u].at = "reply" =>
        (pc[u].done <=> pc[u].row.author = u /\ pc[u].row.time = pc[u].time)

(* A change on the condition that the variable was not changed after a     *)
(* date never turns its date back, although others write between the       *)
(* timestamp of the command and its statement.  The server takes any date; *)
(* one after the command's own timestamp promises nothing.                 *)
ConditionalVarDates ==
    [][\A u \in UserId :
         /\ pc[u].at = "write" /\ pc'[u] # pc[u]
         /\ pc[u].cond_time # None /\ pc[u].cond_time <= pc[u].time
         => \A k \in DOMAIN var : k \in DOMAIN var' => var'[k].time >= var[k].time]_var_vars

(* A condition on an author without an account never holds: the variable   *)
(* is not changed.                                                         *)
UnknownAuthorNeverMatches ==
    [][\A u \in UserId :
         pc[u].at = "write" /\ pc'[u] # pc[u] /\ pc[u].asked \in gone =>
           \A k \in DOMAIN var : k \in DOMAIN var' /\ var'[k] = var[k]]_var_vars
=============================================================================
