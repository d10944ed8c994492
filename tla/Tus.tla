-------------------------------- MODULE Tus ---------------------------------
(***************************************************************************)
(* What the two parts of the title user storage have in common: the        *)
(* variables (TusVar) and the data (TusData) are both kept in slots of a   *)
(* user or of a virtual user, in tables of the same form, and written by   *)
(* commands with a timestamp.  src/server/client/cmd_tus.rs,               *)
(* src/server/database/db_tus.rs, src/server/database.rs.                  *)
(***************************************************************************)
EXTENDS Integers

CONSTANTS
    UserId,        \* accounts, owners of slots of their own
    VUser,         \* virtual users, whose slots all may change
    Slot,
    Deletable,     \* users whose account may be deleted
    DeletedUser,   \* the account that takes over a deleted one's writing
    None,          \* an optional field that is not set
    Date,          \* dates that clients put in conditions
    MaxTime        \* bound on the clock

ASSUME TusAssumption ==
    /\ Deletable \subseteq UserId /\ DeletedUser \notin UserId
    /\ UserId \cap VUser = {} /\ None \notin UserId \cup {DeletedUser} \cup Int
    /\ MaxTime \in Nat /\ Date \subseteq Nat

VARIABLES
    gone,     \* users whose account was deleted
    clock,
    pc        \* user -> command in progress

(* The primary key of a table, and who a row may have as its author.       *)
Key == (UserId \cup VUser) \X Slot
Author == UserId \cup {DeletedUser}

Idle == [at |-> "idle"]

(* Wrong: any user may write to the slots of another.                      *)
MayWrite_Any(u, o) == TRUE

(* A user has slots of its own, and the slots of virtual users.            *)
MayWrite(u, o) == o \in VUser \cup {u}

-----------------------------------------------------------------------------
(* The table f after INSERT ... ON CONFLICT DO UPDATE of one row.          *)
With(f, k, row) == [q \in DOMAIN f \cup {k} |-> IF q = k THEN row ELSE f[q]]

(* The table f after DELETE of slots of the owner o.                       *)
Without(f, o, slots) == [k \in {q \in DOMAIN f : ~(q[1] = o /\ q[2] \in slots)} |-> f[k]]

(* Wrong: what the user wrote keeps its author.                            *)
Disowned_KeepsAuthor(f, u) == [k \in {q \in DOMAIN f : q[1] # u} |-> f[k]]

(* The table f when the account of u is deleted: its rows go with it, and  *)
(* what it wrote elsewhere passes to DeletedUser.                          *)
Disowned(f, u) ==
    [k \in {q \in DOMAIN f : q[1] # u} |->
       IF f[k].author = u THEN [f[k] EXCEPT !.author = DeletedUser] ELSE f[k]]
=============================================================================
