------------------------------ MODULE Accounts ------------------------------
(***************************************************************************)
(* Accounts: creation, login, deletion, the mails with tokens and reset    *)
(* codes, ResetPassword, and the daily cleaner                             *)
(* (src/server/client/cmd_account.rs, src/server/daily_cleaner.rs, the     *)
(* account statements of src/server/database.rs).                          *)
(*                                                                         *)
(* A step is one statement on the database; there are no transactions.     *)
(* Login, logout, deletion and the cleaner of unused accounts exclude each *)
(* other by client_infos.write(), the other commands take no lock.  (That  *)
(* a login also waits for the cleanup of an earlier session is in Sessions.)*)
(* Credentials are inputs: a request that does not know them is refused    *)
(* and changes nothing.  Reset codes are random and taken as distinct.     *)
(***************************************************************************)
EXTENDS Integers

CONSTANTS
    Name, Email,
    Fold,        \* name -> its letters without their case
    Task,        \* connections that are not logged in
    Cleaner,     \* the daily cleaner's task
    MaxId,       \* bound: accounts ever created
    MaxCode,     \* bound: reset codes ever drawn for a mail
    None

ASSUME AccountsAssumption ==
    /\ MaxId \in Nat /\ MaxCode \in Nat
    /\ Cleaner \notin Task /\ None \notin Task \cup {Cleaner}
    /\ DOMAIN Fold = Name

VARIABLES
    account,     \* user_id -> row, for the accounts there are
    stamp,       \* user_id -> row of account_timestamp
    last_id,     \* AUTOINCREMENT
    last_code,
    name_hash, email_hash,  \* of deleted accounts
    online,      \* the keys of client_infos
    lock,        \* who holds client_infos.write() over several steps
    pc,          \* task -> command in progress
    uses,        \* code -> how often it has changed a password
    seen,        \* accounts that have logged in
    reborn,      \* accounts whose name was given away during a login
    hasty        \* accounts that logged in before their creation was complete

db == <<account, stamp, last_id, last_code, name_hash, email_hash>>
ghosts == <<uses, seen, reborn, hasty>>
vars == <<db, online, lock, pc, ghosts>>

Id == 1..MaxId
Code == 1..MaxCode
NoCode == 0          \* reset_token is NULL, or a code that is told nobody

Account == [name : Name, email : Email, reset_token : Code \cup {NoCode}]
(* The times as far as they are compared: ever, or in the last 24 hours.   *)
Mail == {"token", "reset"}
Stamp == [last_login : BOOLEAN, sent : SUBSET Mail]

Idle == [at |-> "idle"]
Command ==
    [at : {"create", "insert", "id"}, name : Name, email : Email]
      \cup [at : {"stamp"}, id : Id]
      \cup [at : {"login"}, name : Name, id : Id]
      \cup [at : {"delete", "hash_name", "hash_email", "row"},
            name : Name, email : Email, id : Id]
      \cup [at : {"new_code", "mail", "sent"}, kind : Mail, id : Id, code : Code \cup {NoCode}]
      \cup [at : {"password"}, id : Id, code : Code]
Cleaning == [at : {"accounts"}, stale : SUBSET Id]

Init ==
    /\ account = [i \in {} |-> None] /\ stamp = [i \in {} |-> None]
    /\ last_id = 0 /\ last_code = 0
    /\ name_hash = {} /\ email_hash = {}
    /\ online = {} /\ lock = None
    /\ pc = [t \in Task \cup {Cleaner} |-> Idle]
    /\ uses = [c \in Code |-> 0]
    /\ seen = {} /\ reborn = {} /\ hasty = {}

At(t, label) == pc[t].at = label
Goto(t, label) == pc' = [pc EXCEPT ![t].at = label]
Begin(t, command) == At(t, "idle") /\ pc' = [pc EXCEPT ![t] = command]
Done(t) == pc' = [pc EXCEPT ![t] = Idle]

(* WHERE username = ?1, in the same spelling.                              *)
Rows(n) == {i \in DOMAIN account : account[i].name = n}
Restrict(f, S) == [i \in S |-> f[i]]

(* A command that holds no lock ends at its next step, without effect: its *)
(* request is refused, or the database or the mail server fails.           *)
Fails(t) ==
    /\ pc[t].at \notin {"idle", "hash_name", "hash_email", "row"}
    /\ Done(t)
    /\ UNCHANGED <<db, online, lock, ghosts>>

-----------------------------------------------------------------------------
(* create_account: add_user checks the hashes of deleted accounts, hashes  *)
(* the password, and then inserts into two tables.                         *)

(* The hash is of the name as it is spelled.                               *)
check_username_vs_deleted(n) == n \notin name_hash

create_account(t, n, e) ==
    /\ check_username_vs_deleted(n)
    /\ Begin(t, [at |-> "create", name |-> n, email |-> e])
    /\ UNCHANGED <<db, online, lock, ghosts>>

check_email_vs_deleted(t) ==
    /\ At(t, "create")
    /\ pc[t].email \notin email_hash
    /\ Goto(t, "insert")
    /\ UNCHANGED <<db, online, lock, ghosts>>

(* UNIQUE(username COLLATE NOCASE) and UNIQUE(email_check).                *)
Taken(n, e) ==
    \E i \in DOMAIN account : Fold[account[i].name] = Fold[n] \/ account[i].email = e

(* Logins that are under way for the name.                                 *)
LoginIds(n) == {pc[t].id : t \in {x \in Task : At(x, "login") /\ pc[x].name = n}}

InsertAccount(t) ==
    LET r == pc[t]
        i == last_id + 1
    IN  /\ At(t, "insert")
        /\ ~Taken(r.name, r.email)
        /\ last_id < MaxId
        /\ last_id' = i
        /\ account' = [j \in DOMAIN account \cup {i} |->
                         IF j = i THEN [name |-> r.name, email |-> r.email,
                                        reset_token |-> NoCode]
                                  ELSE account[j]]
        /\ reborn' = reborn \cup LoginIds(r.name)
        /\ Goto(t, "id")
        /\ UNCHANGED <<stamp, last_code, name_hash, email_hash, online, lock,
                       uses, seen, hasty>>

(* get_user_id(username).unwrap(), which panics if the account has gone.   *)
ReadId(t) ==
    /\ At(t, "id")
    /\ \E i \in Rows(pc[t].name) : pc' = [pc EXCEPT ![t] = [at |-> "stamp", id |-> i]]
    /\ UNCHANGED <<db, online, lock, ghosts>>

(* If this fails, for want of the account or on a second row for it, the   *)
(* account stays without its times.                                        *)
InsertStamp(t) ==
    LET i == pc[t].id
    IN  /\ At(t, "stamp")
        /\ i \in DOMAIN account \ DOMAIN stamp
        /\ stamp' = [j \in DOMAIN stamp \cup {i} |->
                       IF j = i THEN [last_login |-> FALSE, sent |-> {}] ELSE stamp[j]]
        /\ hasty' = hasty \cup (seen \cap {i})
        /\ Done(t)
        /\ UNCHANGED <<account, last_id, last_code, name_hash, email_hash, online, lock,
                       uses, seen, reborn>>

-----------------------------------------------------------------------------
(* login: check_user, and then everything else under the lock.             *)

check_user(t, n) ==
    /\ \E i \in Rows(n) : Begin(t, [at |-> "login", name |-> n, id |-> i])
    /\ UNCHANGED <<db, online, lock, ghosts>>

(* Wrong: the account is not looked up again under the lock.               *)
MayLogin_NoRecheck(r) == r.id \notin online

MayLogin(r) == r.id \notin online /\ Rows(r.name) # {}

(* The times of an account that has none are updated without effect.       *)
login(t) ==
    LET i == pc[t].id
    IN  /\ At(t, "login")
        /\ lock = None
        /\ MayLogin(pc[t])
        /\ online' = online \cup {i}
        /\ seen' = seen \cup {i}
        /\ stamp' = IF i \in DOMAIN stamp THEN [stamp EXCEPT ![i].last_login = TRUE] ELSE stamp
        /\ Done(t)
        /\ UNCHANGED <<account, last_id, last_code, name_hash, email_hash, lock,
                       uses, reborn, hasty>>

(* The end of a session, of which the task is not told here.               *)
logout(i) ==
    /\ i \in online
    /\ lock = None
    /\ online' = online \ {i}
    /\ UNCHANGED <<db, lock, pc, ghosts>>

-----------------------------------------------------------------------------
(* delete_account, or DelUser: delete_user runs under the lock.            *)

delete_account(t, n) ==
    /\ \E i \in Rows(n) : Begin(t, [at |-> "delete", name |-> n, email |-> account[i].email,
                                    id |-> i])
    /\ UNCHANGED <<db, online, lock, ghosts>>

LockDelete(t) ==
    /\ At(t, "delete")
    /\ lock = None
    /\ pc[t].id \notin online
    /\ lock' = t
    /\ Goto(t, "hash_name")
    /\ UNCHANGED <<db, online, ghosts>>

(* A hash that cannot be stored does not stop the deletion.                *)
HashName(t) ==
    /\ At(t, "hash_name")
    /\ \/ name_hash' = name_hash \cup {pc[t].name}
       \/ UNCHANGED name_hash
    /\ Goto(t, "hash_email")
    /\ UNCHANGED <<account, stamp, last_id, last_code, email_hash, online, lock, ghosts>>

HashEmail(t) ==
    /\ At(t, "hash_email")
    /\ \/ email_hash' = email_hash \cup {pc[t].email}
       \/ UNCHANGED email_hash
    /\ Goto(t, "row")
    /\ UNCHANGED <<account, stamp, last_id, last_code, name_hash, online, lock, ghosts>>

RemoveRows(S) ==
    /\ account' = Restrict(account, DOMAIN account \ S)
    /\ stamp' = Restrict(stamp, DOMAIN stamp \ S)

(* The rows that refer to the account go with it, or, if the statement     *)
(* fails, all stay.                                                        *)
DeleteRow(t) ==
    LET r == pc[t]
    IN  /\ At(t, "row")
        /\ RemoveRows({r.id}) \/ UNCHANGED <<account, stamp>>
        /\ lock' = None
        /\ Done(t)
        /\ UNCHANGED <<last_id, last_code, name_hash, email_hash, online, ghosts>>

-----------------------------------------------------------------------------
(* resend_token and send_reset_token: the time of the last mail is read,   *)
(* for a reset a new code is stored, the mail is sent, the time is set.    *)

RequestMail(t, n, kind) ==
    /\ \E i \in Rows(n) :
         /\ i \in DOMAIN stamp /\ kind \notin stamp[i].sent
         /\ Begin(t, [at |-> IF kind = "reset" THEN "new_code" ELSE "mail",
                      kind |-> kind, id |-> i, code |-> NoCode])
    /\ UNCHANGED <<db, online, lock, ghosts>>

SetCode(i, c) ==
    account' = IF i \in DOMAIN account THEN [account EXCEPT ![i].reset_token = c] ELSE account

update_password_token(t) ==
    /\ At(t, "new_code")
    /\ last_code < MaxCode
    /\ last_code' = last_code + 1
    /\ SetCode(pc[t].id, last_code')
    /\ pc' = [pc EXCEPT ![t].at = "mail", ![t].code = last_code']
    /\ UNCHANGED <<stamp, last_id, name_hash, email_hash, online, lock, ghosts>>

(* If the mail fails, a new code stays in the account that nobody knows.   *)
SendMail(t) ==
    /\ At(t, "mail")
    /\ Goto(t, "sent")
    /\ UNCHANGED <<db, online, lock, ghosts>>

SetSentTime(t) ==
    LET r == pc[t]
    IN  /\ At(t, "sent")
        /\ r.id \in DOMAIN stamp
        /\ stamp' = [stamp EXCEPT ![r.id].sent = @ \cup {r.kind}]
        /\ Done(t)
        /\ UNCHANGED <<account, last_id, last_code, name_hash, email_hash, online, lock, ghosts>>

-----------------------------------------------------------------------------
(* reset_password: the code is checked, the new password is hashed, and    *)
(* then stored where the code is still the same.  The code is an input,    *)
(* which the server knows only as the one that it drew last for a mail.    *)

check_reset_token(t, n, c) ==
    /\ \E i \in Rows(n) : /\ account[i].reset_token = c
                          /\ Begin(t, [at |-> "password", id |-> i, code |-> c])
    /\ UNCHANGED <<db, online, lock, ghosts>>

(* Wrong: the statement goes by the account only.                          *)
Unspent_Any(i, c) == i \in DOMAIN account

Unspent(i, c) == i \in DOMAIN account /\ account[i].reset_token = c

(* The account gets a new code, which is told nobody.  If the code is not  *)
(* the same no row is changed, with the same reply.                        *)
update_user_password(t) ==
    LET r == pc[t]
    IN  /\ At(t, "password")
        /\ Unspent(r.id, r.code)
        /\ SetCode(r.id, NoCode)
        /\ uses' = [uses EXCEPT ![r.code] = @ + 1]
        /\ Done(t)
        /\ UNCHANGED <<stamp, last_id, last_code, name_hash, email_hash, online, lock,
                       seen, reborn, hasty>>

-----------------------------------------------------------------------------
(* The daily cleaner.                                                      *)

(* Some hashes have become old enough; the second statement may fail.      *)
cleanup_expired_hashes(names, emails) ==
    /\ name_hash' = name_hash \ names
    /\ email_hash' = email_hash \ emails
    /\ UNCHANGED <<account, stamp, last_id, last_code, online, lock, pc, ghosts>>

(* Wrong: logins are not kept out.                                         *)
LockCleaner_Not == UNCHANGED lock

LockCleaner == lock = None /\ lock' = Cleaner

(* cleanup_never_used_accounts, under the lock: of the accounts without a  *)
(* login those that are old enough lose their times ...                    *)
CleanStamps(stale) ==
    /\ Begin(Cleaner, [at |-> "accounts", stale |-> stale])
    /\ stale # {} /\ \A i \in stale : ~stamp[i].last_login
    /\ LockCleaner
    /\ stamp' = Restrict(stamp, DOMAIN stamp \ stale)
    /\ UNCHANGED <<account, last_id, last_code, name_hash, email_hash, online, ghosts>>

(* ... and then, unless that fails, are deleted.                           *)
CleanAccounts ==
    /\ At(Cleaner, "accounts")
    /\ RemoveRows(pc[Cleaner].stale) \/ UNCHANGED <<account, stamp>>
    /\ lock' = None
    /\ Done(Cleaner)
    /\ UNCHANGED <<last_id, last_code, name_hash, email_hash, online, ghosts>>

-----------------------------------------------------------------------------
(* 24 hours have passed since a mail.                                      *)
Elapse(i, kind) ==
    /\ kind \in stamp[i].sent
    /\ stamp' = [stamp EXCEPT ![i].sent = @ \ {kind}]
    /\ UNCHANGED <<account, last_id, last_code, name_hash, email_hash, online, lock, pc, ghosts>>

(* The server stops and starts: only the database is left.                 *)
Restart ==
    /\ online' = {} /\ lock' = None
    /\ pc' = [t \in Task \cup {Cleaner} |-> Idle]
    /\ UNCHANGED <<db, ghosts>>

Next ==
    \/ \E t \in Task :
         \/ \E n \in Name :
              \/ \E e \in Email : create_account(t, n, e)
              \/ check_user(t, n) \/ delete_account(t, n)
              \/ \E kind \in Mail : RequestMail(t, n, kind)
              \/ \E c \in Code : check_reset_token(t, n, c)
         \/ check_email_vs_deleted(t) \/ InsertAccount(t) \/ ReadId(t) \/ InsertStamp(t)
         \/ login(t)
         \/ LockDelete(t) \/ HashName(t) \/ HashEmail(t) \/ DeleteRow(t)
         \/ update_password_token(t) \/ SendMail(t) \/ SetSentTime(t)
         \/ update_user_password(t) \/ Fails(t)
    \/ \E i \in online : logout(i)
    \/ \E names \in SUBSET name_hash, emails \in SUBSET email_hash :
         cleanup_expired_hashes(names, emails)
    \/ \E stale \in SUBSET DOMAIN stamp : CleanStamps(stale)
    \/ CleanAccounts
    \/ \E i \in DOMAIN stamp, kind \in Mail : Elapse(i, kind)
    \/ Restart

Spec == Init /\ [][Next]_vars

-----------------------------------------------------------------------------
(* Type invariant; the times are those of accounts there are.              *)
TypeOK ==
    /\ DOMAIN account \subseteq 1..last_id /\ last_id \in 0..MaxId
    /\ \A i \in DOMAIN account : account[i] \in Account
    /\ DOMAIN stamp \subseteq DOMAIN account
    /\ \A i \in DOMAIN stamp : stamp[i] \in Stamp
    /\ last_code \in 0..MaxCode
    /\ name_hash \subseteq Name /\ email_hash \subseteq Email
    /\ online \subseteq Id /\ lock \in Task \cup {Cleaner, None}
    /\ DOMAIN pc = Task \cup {Cleaner} /\ pc[Cleaner] \in Cleaning \cup {Idle}
    /\ \A t \in Task : pc[t] \in Command \cup {Idle}
    /\ uses \in [Code -> Nat]
    /\ seen \subseteq Id /\ reborn \subseteq Id /\ hasty \subseteq Id

(* A user who is logged in has an account, whichever of login, deletion    *)
(* and the daily cleaner comes first, with two exceptions: the name was    *)
(* given to another account between the two halves of the login, which     *)
(* looks under the lock for the name and not for the user_id it goes on    *)
(* with; and the login came between the two statements of add_user, so     *)
(* that last_login stays NULL until the next one.                          *)
OnlineHasAccount == online \subseteq DOMAIN account \cup reborn \cup hasty

(* A reset code changes a password at most once ("this code can only be    *)
(* used once!"), although requests with it may have been checked before.   *)
ResetOnce == \A c \in Code : uses[c] <= 1

(* An account that has logged in since it was complete goes only by a      *)
(* Delete command: the daily cleaner, which reads last_login before it     *)
(* deletes in two statements, never takes it.                              *)
UsedAccountsKept ==
    [][\A i \in (seen \ hasty) \cap DOMAIN account :
         i \notin DOMAIN account' => \E t \in Task : At(t, "row") /\ pc[t].id = i]_vars
=============================================================================
