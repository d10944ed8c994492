--------------------------- MODULE AccountsProofs ---------------------------
(***************************************************************************)
(* The properties of Accounts for any names, e-mails and tasks, and any    *)
(* number of accounts and codes.                                           *)
(***************************************************************************)
EXTENDS Accounts, TLAPS

-----------------------------------------------------------------------------
(* The parts of a command, by where it is.                                 *)

Creating == [at : {"create", "insert", "id"}, name : Name, email : Email]
Deleting == [at : {"delete", "hash_name", "hash_email", "row"},
             name : Name, email : Email, id : Id]
Mailing == [at : {"new_code", "mail", "sent"}, kind : Mail, id : Id, code : Code \cup {NoCode}]

(* A command that is where creations are has the form of a creation, and   *)
(* so on.                                                                  *)
LEMMA Shapes ==
    ASSUME NEW r \in Command \cup {Idle}
    PROVE  /\ r.at \in {"create", "insert", "id"} => r \in Creating
           /\ r.at = "stamp" => r \in [at : {"stamp"}, id : Id]
           /\ r.at = "login" => r \in [at : {"login"}, name : Name, id : Id]
           /\ r.at \in {"delete", "hash_name", "hash_email", "row"} => r \in Deleting
           /\ r.at \in {"new_code", "mail", "sent"} => r \in Mailing
           /\ r.at = "password" => r \in [at : {"password"}, id : Id, code : Code]
  BY DEF Command, Idle, Creating, Deleting, Mailing

(* A command stays well formed on its way.                                 *)
LEMMA GotoTypes ==
    ASSUME TypeOK, NEW t \in Task, NEW label, Goto(t, label),
           \/ pc[t] \in Creating /\ label \in {"insert", "id"}
           \/ pc[t] \in Deleting /\ label \in {"hash_name", "hash_email", "row"}
           \/ pc[t] \in Mailing /\ label \in {"mail", "sent"}
    PROVE  /\ DOMAIN pc' = Task \cup {Cleaner} /\ pc'[Cleaner] = pc[Cleaner]
           /\ \A x \in Task : pc'[x] \in Command \cup {Idle}
<1>1. pc' = [pc EXCEPT ![t] = [pc[t] EXCEPT !.at = label]]
  BY DEF Goto, TypeOK
<1>2. [pc[t] EXCEPT !.at = label] \in Command
  <2>1. CASE pc[t] \in Creating /\ label \in {"insert", "id"}
    BY <2>1 DEF Creating, Command
  <2>2. CASE pc[t] \in Deleting /\ label \in {"hash_name", "hash_email", "row"}
    BY <2>2 DEF Deleting, Command
  <2>3. CASE pc[t] \in Mailing /\ label \in {"mail", "sent"}
    BY <2>3 DEF Mailing, Command
  <2> QED BY <2>1, <2>2, <2>3
<1> QED BY <1>1, <1>2, AccountsAssumption DEF TypeOK

(* So does the command that replaces it, or its end.                       *)
LEMMA ReplaceTypes ==
    ASSUME TypeOK, NEW t \in Task, NEW r \in Command \cup {Idle},
           pc' = [pc EXCEPT ![t] = r]
    PROVE  /\ DOMAIN pc' = Task \cup {Cleaner} /\ pc'[Cleaner] = pc[Cleaner]
           /\ \A x \in Task : pc'[x] \in Command \cup {Idle}
  BY AccountsAssumption DEF TypeOK

(* Rows of accounts that are removed leave the others as they are.         *)
LEMMA RemoveTypes ==
    ASSUME TypeOK, NEW S, RemoveRows(S)
    PROVE  /\ DOMAIN account' = DOMAIN account \ S
           /\ \A i \in DOMAIN account' : account'[i] = account[i]
           /\ DOMAIN stamp' = DOMAIN stamp \ S
           /\ \A i \in DOMAIN stamp' : stamp'[i] = stamp[i]
  BY DEF RemoveRows, Restrict

(* A new code changes the reset_token of one account.                      *)
LEMMA SetCodeTypes ==
    ASSUME TypeOK, NEW i, NEW c, SetCode(i, c), c \in Code \cup {NoCode}
    PROVE  /\ DOMAIN account' = DOMAIN account
           /\ \A j \in DOMAIN account :
                /\ account'[j] \in Account
                /\ account'[j].name = account[j].name
                /\ account'[j].reset_token = IF j = i THEN c ELSE account[j].reset_token
  BY DEF SetCode, TypeOK, Account

-----------------------------------------------------------------------------
(* Every step keeps the type invariant.                                    *)
LEMMA TypeStep == ASSUME TypeOK, [Next]_vars PROVE TypeOK'
<1> USE AccountsAssumption
<1>1. CASE UNCHANGED vars
  BY <1>1 DEF TypeOK, vars, db, ghosts
<1>2. ASSUME NEW t \in Task, NEW n \in Name,
             \/ \E e \in Email : create_account(t, n, e)
             \/ check_user(t, n) \/ delete_account(t, n)
             \/ \E kind \in Mail : RequestMail(t, n, kind)
             \/ \E c \in Code : check_reset_token(t, n, c)
      PROVE  TypeOK'
  <2>1. UNCHANGED <<db, online, lock, ghosts>>
    BY <1>2, ZenonT(30)
    DEF create_account, check_user, delete_account, RequestMail, check_reset_token
  <2>2. \A i \in Rows(n) : i \in Id /\ account[i] \in Account
    BY DEF Rows, TypeOK, Id
  <2>3. \E r \in Command : pc' = [pc EXCEPT ![t] = r]
    <3>1. CASE \E e \in Email : create_account(t, n, e)
      <4>1. PICK e \in Email : create_account(t, n, e)
        BY <3>1
      <4>2. pc' = [pc EXCEPT ![t] = [at |-> "create", name |-> n, email |-> e]]
        BY <4>1, Zenon DEF create_account, Begin
      <4> QED BY <4>2, ZenonT(30) DEF Command
    <3>2. CASE check_user(t, n)
      BY <3>2, <2>2, ZenonT(30) DEF check_user, Begin, Command
    <3>3. CASE delete_account(t, n)
      BY <3>3, <2>2, ZenonT(30) DEF delete_account, Begin, Command, Account
    <3>4. CASE \E kind \in Mail : RequestMail(t, n, kind)
      BY <3>4, <2>2, Zenon DEF RequestMail, Begin, Command
    <3>5. CASE \E c \in Code : check_reset_token(t, n, c)
      BY <3>5, <2>2, ZenonT(30) DEF check_reset_token, Begin, Command, TypeOK
    <3> QED BY <1>2, <3>1, <3>2, <3>3, <3>4, <3>5
  <2> QED BY <2>1, <2>3, ReplaceTypes DEF TypeOK, db, ghosts
<1>3. ASSUME NEW t \in Task, Fails(t) PROVE TypeOK'
  BY <1>3, ReplaceTypes DEF Fails, Done, TypeOK, db, ghosts
<1>4. ASSUME NEW t \in Task, check_email_vs_deleted(t) PROVE TypeOK'
  <2>1. pc[t] \in Creating BY <1>4, Shapes DEF check_email_vs_deleted, At, TypeOK
  <2> QED BY <1>4, <2>1, GotoTypes DEF check_email_vs_deleted, TypeOK, db, ghosts
<1>5. ASSUME NEW t \in Task, InsertAccount(t) PROVE TypeOK'
  <2>1. pc[t] \in Creating BY <1>5, Shapes DEF InsertAccount, At, TypeOK
  <2>2. \A x \in Task : x \in {y \in Task : At(y, "login")} => pc[x].id \in Id
    BY Shapes DEF At, TypeOK
  <2>3. reborn' \subseteq Id
    BY <1>5, <2>2 DEF InsertAccount, LoginIds, TypeOK
  <2>4. \A i \in DOMAIN account' : account'[i] \in Account
    BY <1>5, <2>1 DEF InsertAccount, TypeOK, Account, Creating
  <2>5. /\ DOMAIN account' \subseteq 1..last_id' /\ last_id' \in 0..MaxId
        /\ DOMAIN stamp' \subseteq DOMAIN account'
    BY <1>5 DEF InsertAccount, TypeOK
  <2> QED BY <1>5, <2>1, <2>3, <2>4, <2>5, GotoTypes, Zenon DEF InsertAccount, TypeOK
<1>6. ASSUME NEW t \in Task, ReadId(t) PROVE TypeOK'
  <2>1. \E r \in Command : pc' = [pc EXCEPT ![t] = r]
    <3>1. PICK i \in Rows(pc[t].name) : pc' = [pc EXCEPT ![t] = [at |-> "stamp", id |-> i]]
      BY <1>6, Zenon DEF ReadId
    <3>2. i \in Id BY DEF Rows, TypeOK, Id
    <3> QED BY <3>1, <3>2, ZenonT(30) DEF Command
  <2> QED BY <1>6, <2>1, ReplaceTypes DEF ReadId, TypeOK, db, ghosts
<1>7. ASSUME NEW t \in Task, InsertStamp(t) PROVE TypeOK'
  BY <1>7, ReplaceTypes DEF InsertStamp, Done, TypeOK, Stamp
<1>8. ASSUME NEW t \in Task, login(t) PROVE TypeOK'
  <2>1. pc[t].id \in Id BY <1>8, Shapes DEF login, At, TypeOK
  <2>2. /\ DOMAIN stamp' = DOMAIN stamp
        /\ \A i \in DOMAIN stamp : stamp'[i] \in Stamp
    BY <1>8, ZenonT(30) DEF login, TypeOK, Stamp
  <2> QED BY <1>8, <2>1, <2>2, ReplaceTypes, ZenonT(30) DEF login, Done, TypeOK
<1>9. ASSUME NEW i \in online, logout(i) PROVE TypeOK'
  BY <1>9 DEF logout, TypeOK, db, ghosts
<1>10. ASSUME NEW t \in Task, LockDelete(t) \/ HashName(t) \/ HashEmail(t) PROVE TypeOK'
  <2>1. pc[t] \in Deleting
    BY <1>10, Shapes DEF LockDelete, HashName, HashEmail, At, TypeOK
  <2>2. pc[t].name \in Name /\ pc[t].email \in Email
    BY <2>1 DEF Deleting
  <2>3. CASE LockDelete(t)
    BY <2>3, <2>1, GotoTypes DEF LockDelete, TypeOK, db, ghosts
  <2>4. CASE HashName(t)
    BY <2>4, <2>1, <2>2, GotoTypes, ZenonT(30) DEF HashName, TypeOK, ghosts
  <2>5. CASE HashEmail(t)
    BY <2>5, <2>1, <2>2, GotoTypes, Zenon DEF HashEmail, TypeOK, ghosts
  <2> QED BY <1>10, <2>3, <2>4, <2>5
<1>11. ASSUME NEW t \in Task, DeleteRow(t) PROVE TypeOK'
  <2>2. /\ DOMAIN account' \subseteq DOMAIN account
        /\ \A i \in DOMAIN account' : account'[i] = account[i]
        /\ DOMAIN stamp' \subseteq DOMAIN stamp \cap DOMAIN account'
        /\ \A i \in DOMAIN stamp' : stamp'[i] = stamp[i]
    BY <1>11, RemoveTypes, ZenonT(30) DEF DeleteRow, TypeOK
  <2> QED BY <1>11, <2>2, ReplaceTypes DEF DeleteRow, Done, TypeOK, ghosts
<1>12. ASSUME NEW t \in Task, update_password_token(t) PROVE TypeOK'
  <2>1. pc[t] \in Mailing BY <1>12, Shapes DEF update_password_token, At, TypeOK
  <2>2. last_code' \in Code BY <1>12 DEF update_password_token, TypeOK, Code
  <2>3. \E r \in Command : pc' = [pc EXCEPT ![t] = r]
    <3> DEFINE r == [pc[t] EXCEPT !.at = "mail", !.code = last_code']
    <3>1. r \in Command BY <2>1, <2>2, ZenonT(30) DEF Mailing, Command
    <3>2. pc' = [pc EXCEPT ![t] = r] BY <1>12, ZenonT(30) DEF update_password_token, TypeOK
    <3> QED BY <3>1, <3>2, ZenonT(30)
  <2>4. last_code' \in 0..MaxCode
    BY <1>12, SMTT(30) DEF update_password_token, TypeOK
  <2> QED BY <1>12, <2>2, <2>3, <2>4, ReplaceTypes, SetCodeTypes
          DEF update_password_token, TypeOK, ghosts
<1>13. ASSUME NEW t \in Task, update_user_password(t) PROVE TypeOK'
  <2>1. pc[t].code \in Code BY <1>13, Shapes DEF update_user_password, At, TypeOK
  <2>2. /\ DOMAIN account' = DOMAIN account
        /\ \A j \in DOMAIN account : account'[j] \in Account
    BY <1>13, SetCodeTypes DEF update_user_password
  <2>4. uses' \in [Code -> Nat]
    BY <1>13, <2>1 DEF update_user_password, TypeOK
  <2> QED BY <1>13, <2>2, <2>4, ReplaceTypes, SMTT(30)
          DEF update_user_password, Done, TypeOK
<1>14. ASSUME NEW t \in Task, SetSentTime(t) PROVE TypeOK'
  <2>1. pc[t].kind \in Mail BY <1>14, Shapes DEF SetSentTime, At, TypeOK, Mailing
  <2>2. /\ DOMAIN stamp' = DOMAIN stamp
        /\ \A i \in DOMAIN stamp : stamp'[i] \in Stamp
    BY <1>14, <2>1 DEF SetSentTime, TypeOK, Stamp
  <2> QED BY <1>14, <2>2, ReplaceTypes, ZenonT(30) DEF SetSentTime, Done, TypeOK, ghosts
<1>15. ASSUME NEW t \in Task, SendMail(t) PROVE TypeOK'
  <2>1. pc[t] \in Mailing BY <1>15, Shapes DEF SendMail, At, TypeOK
  <2> QED BY <1>15, <2>1, GotoTypes, ZenonT(30) DEF SendMail, TypeOK, db, ghosts
<1>16. ASSUME NEW names, NEW emails, cleanup_expired_hashes(names, emails) PROVE TypeOK'
  <2>1. name_hash' \subseteq Name /\ email_hash' \subseteq Email
    BY <1>16 DEF cleanup_expired_hashes, TypeOK
  <2> QED BY <1>16, <2>1, ZenonT(30) DEF cleanup_expired_hashes, TypeOK, ghosts
<1>17. ASSUME NEW stale \in SUBSET DOMAIN stamp, CleanStamps(stale) PROVE TypeOK'
  <2>1. stale \subseteq Id BY DEF TypeOK, Id
  <2>2. pc'[Cleaner] \in Cleaning /\ DOMAIN pc' = DOMAIN pc /\ \A t \in Task : pc'[t] = pc[t]
    BY <1>17, <2>1 DEF CleanStamps, Begin, Cleaning, TypeOK
  <2> QED BY <1>17, <2>2 DEF CleanStamps, LockCleaner, Restrict, TypeOK, ghosts
<1>18. CASE CleanAccounts
  <2>2. /\ DOMAIN account' \subseteq DOMAIN account
        /\ \A i \in DOMAIN account' : account'[i] = account[i]
        /\ DOMAIN stamp' \subseteq DOMAIN stamp \cap DOMAIN account'
        /\ \A i \in DOMAIN stamp' : stamp'[i] = stamp[i]
    BY <1>18, RemoveTypes, ZenonT(30) DEF CleanAccounts, TypeOK
  <2>3. pc'[Cleaner] = Idle /\ DOMAIN pc' = DOMAIN pc /\ \A t \in Task : pc'[t] = pc[t]
    BY <1>18 DEF CleanAccounts, Done, TypeOK
  <2> QED BY <1>18, <2>2, <2>3 DEF CleanAccounts, TypeOK, ghosts
<1>19. ASSUME NEW i \in DOMAIN stamp, NEW kind \in Mail, Elapse(i, kind) PROVE TypeOK'
  <2>2. /\ DOMAIN stamp' = DOMAIN stamp
        /\ \A j \in DOMAIN stamp : stamp'[j] \in Stamp
    BY <1>19 DEF Elapse, TypeOK, Stamp
  <2> QED BY <1>19, <2>2, SMTT(30) DEF Elapse, TypeOK, ghosts
<1>20. CASE Restart
  BY <1>20 DEF Restart, TypeOK, db, ghosts
<1> QED BY <1>1, <1>2, <1>3, <1>4, <1>5, <1>6, <1>7, <1>8, <1>9, <1>10, <1>11, <1>12,
           <1>13, <1>14, <1>15, <1>16, <1>17, <1>18, <1>19, <1>20 DEF Next

(* Every table, command and record of Accounts keeps its type.             *)
THEOREM AccountTypes == Spec => []TypeOK
<1>1. Init => TypeOK
  BY AccountsAssumption DEF Init, TypeOK
<1>2. TypeOK /\ [Next]_vars => TypeOK'
  BY TypeStep
<1> QED BY <1>1, <1>2, PTL DEF Spec

-----------------------------------------------------------------------------
(* Reset codes: one that has been used is in no account any more, and an   *)
(* account's code is one that was drawn, for no other account.             *)
CodesInv ==
    /\ \A i \in DOMAIN account : account[i].reset_token <= last_code
    /\ \A i, j \in DOMAIN account :
         account[i].reset_token = account[j].reset_token /\ account[i].reset_token # NoCode
           => i = j
    /\ \A c \in Code :
         uses[c] # 0 =>
           /\ uses[c] = 1 /\ c <= last_code
           /\ \A i \in DOMAIN account : account[i].reset_token # c

(* Every step keeps what is known of the reset codes.                      *)
LEMMA CodesStep == ASSUME TypeOK, TypeOK', CodesInv, [Next]_vars PROVE CodesInv'
<1> USE AccountsAssumption
<1>1. CASE UNCHANGED <<account, last_code, uses>>
  BY <1>1 DEF CodesInv
<1>2. ASSUME NEW t \in Task, InsertAccount(t) PROVE CodesInv'
  <2>1. /\ DOMAIN account' = DOMAIN account \cup {last_id + 1}
        /\ \A j \in DOMAIN account' :
             account'[j].reset_token = IF j = last_id + 1 THEN NoCode ELSE account[j].reset_token
    BY <1>2 DEF InsertAccount
  <2>2. last_id + 1 \notin DOMAIN account BY DEF TypeOK
  <2>3. UNCHANGED <<last_code, uses>> /\ last_code \in Nat BY <1>2 DEF InsertAccount, TypeOK
  <2> QED BY <2>1, <2>2, <2>3 DEF CodesInv, NoCode, Code
<1>3. ASSUME NEW S, RemoveRows(S), UNCHANGED <<last_code, uses>> PROVE CodesInv'
  <2>1. /\ DOMAIN account' \subseteq DOMAIN account
        /\ \A i \in DOMAIN account' : account'[i] = account[i]
    BY <1>3, RemoveTypes, ZenonT(30)
  <2> QED BY <1>3, <2>1 DEF CodesInv
<1>4. ASSUME NEW t \in Task, update_password_token(t) PROVE CodesInv'
  <2>1. last_code' \in Code /\ last_code' = last_code + 1 /\ last_code \in Nat
    BY <1>4 DEF update_password_token, TypeOK, Code
  <2>2. uses' = uses BY <1>4 DEF update_password_token, ghosts
  <2>3. /\ DOMAIN account' = DOMAIN account
        /\ \A j \in DOMAIN account :
             account'[j].reset_token = IF j = pc[t].id THEN last_code' ELSE account[j].reset_token
    BY <1>4, <2>1, SetCodeTypes DEF update_password_token
  <2>4. \A i \in DOMAIN account : account[i].reset_token \in Int
    BY DEF TypeOK, Account, Code, NoCode
  <2>5. \A i \in DOMAIN account : account[i].reset_token # last_code'
    BY <2>1, <2>4 DEF CodesInv
  <2>6. \A d \in Code : uses[d] # 0 => d # last_code' /\ d <= last_code'
    BY <2>1 DEF CodesInv, Code
  <2> QED BY <2>1, <2>2, <2>3, <2>4, <2>5, <2>6 DEF CodesInv
<1>5. ASSUME NEW t \in Task, update_user_password(t) PROVE CodesInv'
  <2> DEFINE c == pc[t].code
             k == pc[t].id
  <2>1. last_code' = last_code /\ last_code \in Nat
    BY <1>5 DEF update_user_password, TypeOK
  <2>2. c \in Code BY <1>5, Shapes DEF update_user_password, At, TypeOK
  <2>3. k \in DOMAIN account /\ account[k].reset_token = c
    BY <1>5, SMTT(30) DEF update_user_password, Unspent
  <2>4. uses' = [uses EXCEPT ![c] = 1]
    <3>1. uses[c] = 0 BY <2>2, <2>3 DEF CodesInv
    <3> QED BY <3>1, <1>5, <2>2 DEF update_user_password, TypeOK
  <2>5. /\ DOMAIN account' = DOMAIN account
        /\ \A j \in DOMAIN account :
             account'[j].reset_token = IF j = k THEN NoCode ELSE account[j].reset_token
    BY <1>5, SetCodeTypes DEF update_user_password
  <2>6. \A i \in DOMAIN account : account[i].reset_token \in Int
    BY DEF TypeOK, Account, Code, NoCode
  <2>7. \A d \in Code : uses'[d] = IF d = c THEN 1 ELSE uses[d]
    BY <2>4, <2>2 DEF TypeOK
  <2>8. c <= last_code /\ c # NoCode
    BY <2>2, <2>3 DEF CodesInv, Code, NoCode
  <2> HIDE DEF c, k
  <2> QED BY <2>1, <2>2, <2>3, <2>5, <2>6, <2>7, <2>8 DEF CodesInv, Code, NoCode
<1>6. \/ UNCHANGED <<account, last_code, uses>>
      \/ \E t \in Task : \/ InsertAccount(t) \/ update_password_token(t)
                         \/ update_user_password(t)
      \/ \E S : RemoveRows(S) /\ UNCHANGED <<last_code, uses>>
  BY ZenonT(30) DEF Next, vars, db, ghosts, create_account, check_user, delete_account, RequestMail,
         check_reset_token, check_email_vs_deleted, ReadId, InsertStamp, login, LockDelete,
         HashName, HashEmail, DeleteRow, SendMail, SetSentTime, Fails, logout,
         cleanup_expired_hashes, CleanStamps, CleanAccounts, Elapse, Restart
<1> QED BY <1>1, <1>2, <1>3, <1>4, <1>5, <1>6

(* A reset code changes a password at most once, also where several        *)
(* ResetPassword commands have passed the check (update_user_password).    *)
THEOREM ResetCodesOnce == Spec => []ResetOnce
<1>1. Init => CodesInv
  BY AccountsAssumption DEF Init, CodesInv
<1>2. TypeOK /\ TypeOK' /\ CodesInv /\ [Next]_vars => CodesInv'
  BY CodesStep
<1>3. TypeOK /\ CodesInv => ResetOnce
  BY DEF CodesInv, ResetOnce
<1> QED BY <1>1, <1>2, <1>3, AccountTypes, PTL DEF Spec

-----------------------------------------------------------------------------
(* What a step does to the table of accounts.                              *)
LEMMA AccountSteps ==
    ASSUME TypeOK, [Next]_vars
    PROVE  \/ UNCHANGED account
           \/ \E t \in Task : InsertAccount(t)
           \/ \E S : RemoveRows(S)
           \/ \E i : \E c \in Code \cup {NoCode} : SetCode(i, c)
<1> USE AccountsAssumption
<1>1. ASSUME NEW t \in Task, DeleteRow(t) PROVE UNCHANGED account \/ \E S : RemoveRows(S)
  BY <1>1 DEF DeleteRow
<1>2. CASE CleanAccounts
  BY <1>2 DEF CleanAccounts
<1>3. ASSUME NEW t \in Task, update_password_token(t) \/ update_user_password(t)
      PROVE  \E i : \E c \in Code \cup {NoCode} : SetCode(i, c)
  <2>1. update_password_token(t) => last_code' \in Code
    BY DEF update_password_token, TypeOK, Code
  <2> QED BY <1>3, <2>1 DEF update_password_token, update_user_password
<1>4. \/ UNCHANGED account
      \/ \E t \in Task : \/ InsertAccount(t) \/ DeleteRow(t) \/ update_password_token(t)
                         \/ update_user_password(t)
      \/ CleanAccounts
  BY ZenonT(30) DEF Next, vars, db, create_account, check_user, delete_account, RequestMail,
         check_reset_token, check_email_vs_deleted, ReadId, InsertStamp, login, LockDelete,
         HashName, HashEmail, SendMail, SetSentTime, Fails, logout,
         cleanup_expired_hashes, CleanStamps, Elapse, Restart
<1> QED BY <1>1, <1>2, <1>3, <1>4

(* What a step does to the command of a task.                              *)
LEMMA TaskSteps ==
    ASSUME TypeOK, [Next]_vars, NEW t \in Task
    PROVE  \/ pc'[t] = pc[t] \/ pc'[t] = Idle
           \/ \E n \in Name :
                \/ \E e \in Email : create_account(t, n, e)
                \/ check_user(t, n) \/ delete_account(t, n)
                \/ \E kind \in Mail : RequestMail(t, n, kind)
                \/ \E c \in Code : check_reset_token(t, n, c)
           \/ check_email_vs_deleted(t) \/ InsertAccount(t) \/ ReadId(t)
           \/ LockDelete(t) \/ HashName(t) \/ HashEmail(t)
           \/ update_password_token(t) \/ SendMail(t)
<1> USE AccountsAssumption
<1>1. ASSUME NEW u \in Task \cup {Cleaner}, NEW r, pc' = [pc EXCEPT ![u] = r], u # t
      PROVE  pc'[t] = pc[t]
  BY <1>1, SMTT(30) DEF TypeOK
<1> DEFINE First(u) ==
             \E n \in Name : \/ \E e \in Email : create_account(u, n, e)
                             \/ check_user(u, n) \/ delete_account(u, n)
                             \/ \E kind \in Mail : RequestMail(u, n, kind)
                             \/ \E c \in Code : check_reset_token(u, n, c)
           Later(u) == \/ check_email_vs_deleted(u) \/ InsertAccount(u)
                       \/ LockDelete(u) \/ HashName(u) \/ HashEmail(u)
                       \/ update_password_token(u) \/ SendMail(u)
           Last(u) == \/ InsertStamp(u) \/ login(u) \/ DeleteRow(u) \/ SetSentTime(u)
                      \/ update_user_password(u) \/ Fails(u)
           Other == \/ \E i \in online : logout(i)
                    \/ \E names \in SUBSET name_hash, emails \in SUBSET email_hash :
                         cleanup_expired_hashes(names, emails)
                    \/ \E stale \in SUBSET DOMAIN stamp : CleanStamps(stale)
                    \/ CleanAccounts
                    \/ \E i \in DOMAIN stamp, kind \in Mail : Elapse(i, kind)
                    \/ Restart
                    \/ UNCHANGED vars
<1>2. \A u \in Task : u # t /\ (First(u) \/ ReadId(u)) => pc'[t] = pc[t]
  BY <1>1 DEF create_account, check_user, delete_account, RequestMail, check_reset_token,
         ReadId, Begin
<1>3. \A u \in Task : u # t /\ Later(u) => pc'[t] = pc[t]
  BY DEF check_email_vs_deleted, InsertAccount, LockDelete, HashName, HashEmail,
         update_password_token, SendMail, Goto, TypeOK
<1>4. \A u \in Task : Last(u) => pc'[t] = pc[t] \/ pc'[t] = Idle
  BY DEF InsertStamp, login, DeleteRow, SetSentTime, update_user_password, Fails, Done, TypeOK
<1>5. Other => pc'[t] = pc[t] \/ pc'[t] = Idle
  BY Zenon DEF logout, cleanup_expired_hashes, CleanStamps, CleanAccounts, Elapse, Restart,
         Begin, Done, vars, TypeOK
<1>6. Other \/ \E u \in Task : First(u) \/ ReadId(u) \/ Later(u) \/ Last(u)
  BY Zenon DEF Next
<1>7. \/ pc'[t] = pc[t] \/ pc'[t] = Idle \/ First(t) \/ ReadId(t) \/ Later(t)
  <2> HIDE DEF First, Later, Last, Other
  <2> QED BY <1>2, <1>3, <1>4, <1>5, <1>6
<1> QED BY <1>7

(* A command that goes on has the new place and otherwise what it had.     *)
LEMMA GotoEffect ==
    ASSUME TypeOK, NEW t \in Task, NEW label, Goto(t, label)
    PROVE  /\ pc'[t] = [pc[t] EXCEPT !.at = label]
           /\ pc'[t].at = label
<1>1. pc[t] \in Command \cup {Idle} /\ t \in DOMAIN pc BY DEF TypeOK
<1>2. "at" \in DOMAIN pc[t] BY <1>1 DEF Command, Idle
<1>3. pc'[t] = [pc[t] EXCEPT !.at = label] BY <1>1 DEF Goto
<1> QED BY <1>2, <1>3

(* Where the steps of a command lead.                                      *)
LEMMA FirstPlaces ==
    ASSUME TypeOK, NEW t \in Task, NEW n
    PROVE  /\ \A e : create_account(t, n, e) => pc'[t].at = "create"
           /\ check_user(t, n) => pc'[t].at = "login"
           /\ delete_account(t, n) => pc'[t].at = "delete"
           /\ \A kind : RequestMail(t, n, kind) => pc'[t].at \in {"new_code", "mail"}
           /\ \A c : check_reset_token(t, n, c) => pc'[t].at = "password"
<1>1. t \in DOMAIN pc BY DEF TypeOK
<1>2. ASSUME NEW r, Begin(t, r) PROVE pc'[t] = r
  BY <1>1, <1>2 DEF Begin
<1>3. \A e : create_account(t, n, e) => pc'[t].at = "create"
  BY <1>2 DEF create_account
<1>4. check_user(t, n) => pc'[t].at = "login"
  BY <1>2 DEF check_user
<1>5. delete_account(t, n) => pc'[t].at = "delete"
  BY <1>2 DEF delete_account
<1>6. \A kind : RequestMail(t, n, kind) => pc'[t].at \in {"new_code", "mail"}
  BY <1>2 DEF RequestMail
<1>7. \A c : check_reset_token(t, n, c) => pc'[t].at = "password"
  BY <1>2 DEF check_reset_token
<1> QED BY <1>3, <1>4, <1>5, <1>6, <1>7

(* The same for the later steps.                                           *)
LEMMA LaterPlaces ==
    ASSUME TypeOK, NEW t \in Task
    PROVE  /\ check_email_vs_deleted(t) => pc'[t].at = "insert"
           /\ InsertAccount(t) => pc'[t].at = "id"
           /\ ReadId(t) => pc'[t].at = "stamp"
           /\ LockDelete(t) => pc'[t].at = "hash_name"
           /\ HashName(t) => pc'[t].at = "hash_email"
           /\ HashEmail(t) => pc'[t].at = "row"
           /\ update_password_token(t) => pc'[t].at = "mail"
           /\ SendMail(t) => pc'[t].at = "sent"
<1>1. t \in DOMAIN pc /\ pc[t] \in Command \cup {Idle} BY DEF TypeOK
<1>2. ReadId(t) => pc'[t].at = "stamp"
  BY <1>1 DEF ReadId
<1>3. update_password_token(t) => pc'[t].at = "mail"
  <2>1. update_password_token(t) => pc[t] \in Mailing
    BY <1>1, Shapes DEF update_password_token, At
  <2> QED BY <1>1, <2>1 DEF update_password_token, Mailing
<1> QED BY <1>2, <1>3, GotoEffect, ZenonT(30)
        DEF check_email_vs_deleted, InsertAccount, LockDelete, HashName, HashEmail, SendMail

-----------------------------------------------------------------------------
(* Who holds client_infos.write(): a deletion from the check that the user *)
(* is not online to its last statement, and the cleaner.                   *)
Deletes == {"hash_name", "hash_email", "row"}

LockInv ==
    /\ \A t \in Task : pc[t].at \in Deletes => lock = t /\ pc[t].id \notin online
    /\ pc[Cleaner].at = "accounts" => lock = Cleaner

(* What a step does to the lock and to who is online.                      *)
LEMMA LockSteps ==
    ASSUME TypeOK, [Next]_vars
    PROVE  \/ lock' = lock /\ online' \subseteq online
           \/ lock = None /\ lock' = None /\ \E t \in Task : login(t)
           \/ \E t \in Task : LockDelete(t) \/ DeleteRow(t)
           \/ \E stale \in SUBSET DOMAIN stamp : CleanStamps(stale)
           \/ CleanAccounts \/ Restart
  BY ZenonT(30)
  DEF Next, vars, create_account, check_user, delete_account, RequestMail, check_reset_token,
         check_email_vs_deleted, InsertAccount, ReadId, InsertStamp, login, HashName, HashEmail,
         update_password_token, SendMail, SetSentTime, update_user_password, Fails, logout,
         cleanup_expired_hashes, Elapse

(* What a step does to the cleaner.                                        *)
LEMMA CleanerSteps ==
    ASSUME TypeOK, [Next]_vars
    PROVE  \/ pc'[Cleaner] = pc[Cleaner] \/ pc'[Cleaner] = Idle
           \/ \E stale \in SUBSET DOMAIN stamp : CleanStamps(stale)
<1> USE AccountsAssumption
<1>1. ASSUME NEW t \in Task, NEW r, pc' = [pc EXCEPT ![t] = r] PROVE pc'[Cleaner] = pc[Cleaner]
  BY <1>1 DEF TypeOK
<1>2. ASSUME NEW t \in Task, NEW label, Goto(t, label) PROVE pc'[Cleaner] = pc[Cleaner]
  BY <1>2 DEF Goto, TypeOK
<1>3. ASSUME NEW t \in Task, update_password_token(t) PROVE pc'[Cleaner] = pc[Cleaner]
  BY <1>3 DEF update_password_token, TypeOK
<1>4. ASSUME NEW t \in Task, NEW n,
             \/ \E e \in Email : create_account(t, n, e)
             \/ check_user(t, n) \/ delete_account(t, n)
             \/ \E kind \in Mail : RequestMail(t, n, kind)
             \/ \E c \in Code : check_reset_token(t, n, c)
      PROVE  pc'[Cleaner] = pc[Cleaner]
  <2>1. ASSUME NEW r, Begin(t, r) PROVE pc'[Cleaner] = pc[Cleaner]
    BY <2>1, <1>1 DEF Begin
  <2>2. CASE \E e \in Email : create_account(t, n, e)
    BY <2>1, <2>2, ZenonT(30) DEF create_account
  <2>3. CASE check_user(t, n)
    BY <2>1, <2>3, ZenonT(30) DEF check_user
  <2>4. CASE delete_account(t, n)
    BY <2>1, <2>4, ZenonT(30) DEF delete_account
  <2>5. CASE \E kind \in Mail : RequestMail(t, n, kind)
    BY <2>1, <2>5, ZenonT(30) DEF RequestMail
  <2>6. CASE \E c \in Code : check_reset_token(t, n, c)
    BY <2>1, <2>6, ZenonT(30) DEF check_reset_token
  <2> QED BY <1>4, <2>2, <2>3, <2>4, <2>5, <2>6, ZenonT(30)
<1>5. ASSUME NEW t \in Task,
             \/ check_email_vs_deleted(t) \/ InsertAccount(t) \/ ReadId(t) \/ InsertStamp(t)
             \/ login(t) \/ LockDelete(t) \/ HashName(t) \/ HashEmail(t) \/ DeleteRow(t)
             \/ SendMail(t) \/ SetSentTime(t) \/ update_user_password(t) \/ Fails(t)
      PROVE  pc'[Cleaner] = pc[Cleaner]
  BY <1>5, <1>1, <1>2
     DEF check_email_vs_deleted, InsertAccount, ReadId, InsertStamp, login, LockDelete, HashName,
         HashEmail, DeleteRow, SendMail, SetSentTime, update_user_password, Fails, Done
<1>6. CASE CleanAccounts \/ Restart
  BY <1>6 DEF CleanAccounts, Restart, Done, TypeOK
<1>7. ASSUME \/ \E i \in online : logout(i)
             \/ \E names \in SUBSET name_hash, emails \in SUBSET email_hash :
                  cleanup_expired_hashes(names, emails)
             \/ \E i \in DOMAIN stamp, kind \in Mail : Elapse(i, kind)
             \/ UNCHANGED vars
      PROVE  pc'[Cleaner] = pc[Cleaner]
  BY <1>7 DEF logout, cleanup_expired_hashes, Elapse, vars
<1> QED BY <1>3, <1>4, <1>5, <1>6, <1>7, ZenonT(30) DEF Next

(* Where a deletion is that holds the lock, it was before or it has just   *)
(* taken it.                                                               *)
LEMMA DeleteSteps ==
    ASSUME TypeOK, [Next]_vars, NEW t \in Task, pc'[t].at \in Deletes
    PROVE  \/ pc'[t] = pc[t]
           \/ LockDelete(t)
           \/ HashName(t) \/ HashEmail(t)
<1>1. ~\E n \in Name :
         \/ \E e \in Email : create_account(t, n, e)
         \/ check_user(t, n) \/ delete_account(t, n)
         \/ \E kind \in Mail : RequestMail(t, n, kind)
         \/ \E c \in Code : check_reset_token(t, n, c)
  BY FirstPlaces DEF Deletes
<1>3. ~(\/ check_email_vs_deleted(t) \/ InsertAccount(t) \/ ReadId(t)
        \/ update_password_token(t) \/ SendMail(t))
  BY LaterPlaces DEF Deletes
<1>4. pc'[t] # Idle
  BY DEF Idle, Deletes
<1> QED BY <1>1, <1>3, <1>4, TaskSteps, ZenonT(30)

(* Every step keeps what is known of the holder of client_infos.           *)
LEMMA LockStep == ASSUME TypeOK, TypeOK', LockInv, [Next]_vars PROVE LockInv'
<1> USE AccountsAssumption
<1>1. ASSUME NEW t \in Task, pc'[t].at \in Deletes PROVE lock' = t /\ pc'[t].id \notin online'
  <2>1. CASE pc'[t] = pc[t]
    <3>1. lock = t /\ pc[t].id \notin online /\ lock # None
      BY <1>1, <2>1 DEF LockInv
    <3>2. ASSUME NEW u \in Task, DeleteRow(u) PROVE FALSE
      <4>1. u = t BY <3>1, <3>2 DEF DeleteRow, At, LockInv, Deletes
      <4> QED BY <3>2, <4>1, <1>1, SMTT(30) DEF DeleteRow, Done, TypeOK, Idle, Deletes
    <3>3. ~CleanAccounts /\ ~Restart
      BY <3>1, <1>1 DEF CleanAccounts, At, LockInv, Restart, Idle, Deletes
    <3>4. ~(\E u \in Task : LockDelete(u)) /\ ~\E stale \in SUBSET DOMAIN stamp : CleanStamps(stale)
      BY <3>1, Zenon DEF LockDelete, CleanStamps, LockCleaner
    <3> QED BY <2>1, <3>1, <3>2, <3>3, <3>4, LockSteps
  <2>2. CASE LockDelete(t)
    <3>1. pc[t].at = "delete" BY <2>2 DEF LockDelete, At
    <3>2. pc'[t].id = pc[t].id
      BY <2>2, <3>1, Shapes, GotoEffect DEF LockDelete, TypeOK, Deleting
    <3> QED BY <2>2, <3>2 DEF LockDelete
  <2>3. CASE HashName(t) \/ HashEmail(t)
    <3>1. pc[t].at \in {"hash_name", "hash_email"} BY <2>3 DEF HashName, HashEmail, At
    <3>2. pc'[t].id = pc[t].id
      BY <2>3, <3>1, Shapes, GotoEffect DEF HashName, HashEmail, TypeOK, Deleting
    <3> QED BY <2>3, <3>1, <3>2 DEF HashName, HashEmail, LockInv, Deletes
  <2> QED BY <1>1, <2>1, <2>2, <2>3, DeleteSteps
<1>2. ASSUME pc'[Cleaner].at = "accounts" PROVE lock' = Cleaner
  <2>1. CASE pc'[Cleaner] = pc[Cleaner]
    <3>1. lock = Cleaner BY <1>2, <2>1 DEF LockInv
    <3>2. ASSUME NEW u \in Task, DeleteRow(u) PROVE FALSE
      BY <3>1, <3>2 DEF DeleteRow, At, LockInv, Deletes
    <3>3. ~CleanAccounts /\ ~Restart
      BY <1>2 DEF CleanAccounts, Done, Restart, Idle, TypeOK
    <3>4. ~\E u \in Task : LockDelete(u)
      BY <3>1 DEF LockDelete
    <3>5. \A stale \in SUBSET DOMAIN stamp : ~CleanStamps(stale)
      BY <3>1 DEF CleanStamps, LockCleaner
    <3> QED BY <3>1, <3>2, <3>3, <3>4, <3>5, LockSteps
  <2>2. ASSUME NEW stale \in SUBSET DOMAIN stamp, CleanStamps(stale) PROVE lock' = Cleaner
    BY <2>2 DEF CleanStamps, LockCleaner
  <2> QED BY <1>2, <2>1, <2>2, CleanerSteps DEF Idle
<1> QED BY <1>1, <1>2 DEF LockInv

-----------------------------------------------------------------------------
(* Logins under way: if the account that was checked has gone and there is *)
(* another of the same name, the name was given away meanwhile.            *)
LoginInv ==
    /\ \A i, j \in DOMAIN account : account[i].name = account[j].name => i = j
    /\ \A t \in Task : pc[t].at = "login" =>
         /\ pc[t].id <= last_id
         /\ pc[t].id \in DOMAIN account => account[pc[t].id].name = pc[t].name
         /\ pc[t].id \notin DOMAIN account /\ Rows(pc[t].name) # {} => pc[t].id \in reborn

(* The records of what happened only grow.                                 *)
LEMMA GhostsGrow ==
    ASSUME TypeOK, [Next]_vars
    PROVE  /\ last_id' \in Nat /\ last_id <= last_id'
           /\ reborn \subseteq reborn' /\ hasty \subseteq hasty'
<1>1. last_id' = last_id \/ last_id' = last_id + 1
  BY ZenonT(30) DEF Next, vars, db, create_account, check_user, delete_account, RequestMail,
         check_reset_token, check_email_vs_deleted, InsertAccount, ReadId, InsertStamp, login,
         LockDelete, HashName, HashEmail, DeleteRow, update_password_token,
         update_user_password, SendMail, SetSentTime, Fails, logout,
         cleanup_expired_hashes, CleanStamps, CleanAccounts, Elapse, Restart
<1>2. reborn \subseteq reborn' /\ hasty \subseteq hasty'
  BY ZenonT(30) DEF Next, vars, ghosts, create_account, check_user, delete_account, RequestMail,
         check_reset_token, check_email_vs_deleted, InsertAccount, ReadId, InsertStamp, login,
         LockDelete, HashName, HashEmail, DeleteRow, update_password_token,
         update_user_password, SendMail, SetSentTime, Fails, logout,
         cleanup_expired_hashes, CleanStamps, CleanAccounts, Elapse, Restart
<1>3. last_id \in Nat BY DEF TypeOK
<1> QED BY <1>1, <1>2, <1>3

(* Where a task is about to log in, it was before or has just checked.     *)
LEMMA LoginSteps ==
    ASSUME TypeOK, [Next]_vars, NEW t \in Task, pc'[t].at = "login"
    PROVE  pc'[t] = pc[t] \/ \E n \in Name : check_user(t, n)
<1>1. ~\E n \in Name :
         \/ \E e \in Email : create_account(t, n, e)
         \/ delete_account(t, n)
         \/ \E kind \in Mail : RequestMail(t, n, kind)
         \/ \E c \in Code : check_reset_token(t, n, c)
  BY FirstPlaces
<1>2. ~(\/ check_email_vs_deleted(t) \/ InsertAccount(t) \/ ReadId(t) \/ LockDelete(t)
        \/ HashName(t) \/ HashEmail(t) \/ update_password_token(t) \/ SendMail(t))
  BY LaterPlaces
<1>3. pc'[t] # Idle
  BY DEF Idle
<1> QED BY <1>1, <1>2, <1>3, TaskSteps, ZenonT(30)

(* The next user_id is not in use.                                         *)
LEMMA NextId == ASSUME TypeOK PROVE last_id \in Nat /\ last_id + 1 \notin DOMAIN account
<1>1. last_id \in Nat /\ DOMAIN account \subseteq 1..last_id BY DEF TypeOK
<1> QED BY <1>1

(* Every step keeps what is known of a login under way.                    *)
LEMMA LoginStep == ASSUME TypeOK, TypeOK', LoginInv, [Next]_vars PROVE LoginInv'
<1> USE AccountsAssumption
<1>1. \A i, j \in DOMAIN account' : account'[i].name = account'[j].name => i = j
  <2>1. CASE UNCHANGED account
    BY <2>1 DEF LoginInv
  <2>2. ASSUME NEW t \in Task, InsertAccount(t) PROVE <1>1!:
    <3>1. /\ DOMAIN account' = DOMAIN account \cup {last_id + 1}
          /\ \A j \in DOMAIN account : j # last_id + 1 => account'[j] = account[j]
          /\ account'[last_id + 1].name = pc[t].name
      BY <2>2 DEF InsertAccount
    <3>2. \A j \in DOMAIN account : j # last_id + 1 /\ account[j].name # pc[t].name
      BY <2>2, NextId DEF InsertAccount, Taken
    <3> QED BY <3>1, <3>2, SMTT(30) DEF LoginInv
  <2>3. ASSUME NEW S, RemoveRows(S) PROVE <1>1!:
    <3>1. /\ DOMAIN account' \subseteq DOMAIN account
          /\ \A j \in DOMAIN account' : account'[j] = account[j]
      BY <2>3, RemoveTypes, ZenonT(30)
    <3> QED BY <3>1 DEF LoginInv
  <2>4. ASSUME NEW i, NEW c \in Code \cup {NoCode}, SetCode(i, c) PROVE <1>1!:
    BY <2>4, SetCodeTypes, SMTT(30) DEF LoginInv
  <2> QED BY <2>1, <2>2, <2>3, <2>4, AccountSteps
<1>2. ASSUME NEW t \in Task, pc'[t].at = "login"
      PROVE  /\ pc'[t].id <= last_id'
             /\ pc'[t].id \in DOMAIN account' => account'[pc'[t].id].name = pc'[t].name
             /\ pc'[t].id \notin DOMAIN account' /\ Rows(pc[t].name)' # {}
                  => pc'[t].id \in reborn'
  <2>1. CASE \E n \in Name : check_user(t, n)
    <3>1. PICK n \in Name : check_user(t, n) BY <2>1, SMTT(30)
    <3>2. PICK i \in Rows(n) : pc'[t] = [at |-> "login", name |-> n, id |-> i]
      BY <3>1, Zenon DEF check_user, Begin, TypeOK
    <3>3. UNCHANGED <<account, last_id>> BY <3>1 DEF check_user, db
    <3> QED BY <3>2, <3>3 DEF Rows, TypeOK
  <2>2. CASE pc'[t] = pc[t]
    <3>1. PICK i \in Id, n \in Name : pc[t].id = i /\ pc[t].name = n
      BY <1>2, <2>2, Shapes, ZenonT(30) DEF TypeOK
    <3>2. /\ i <= last_id
          /\ i \in DOMAIN account => account[i].name = n
          /\ i \notin DOMAIN account /\ Rows(n) # {} => i \in reborn
      BY <1>2, <2>2, <3>1, SMTT(30) DEF LoginInv
    <3>3. SUFFICES /\ i \in DOMAIN account' => account'[i].name = n
                   /\ i \notin DOMAIN account' /\ Rows(n)' # {} => i \in reborn'
      <4>1. i <= last_id' BY <3>2, GhostsGrow, NextId DEF Id
      <4> QED BY <2>2, <3>1, <4>1 DEF Rows
    <3>4. CASE UNCHANGED account
      BY <3>4, <3>2, GhostsGrow DEF Rows
    <3>5. ASSUME NEW u \in Task, InsertAccount(u) PROVE <3>3!1
      <4>1. /\ DOMAIN account' = DOMAIN account \cup {last_id + 1}
            /\ \A j \in DOMAIN account : j # last_id + 1 => account'[j] = account[j]
            /\ account'[last_id + 1].name = pc[u].name
        BY <3>5 DEF InsertAccount
      <4>2. i # last_id + 1 BY <3>2, NextId DEF Id
      <4>3. \A j \in DOMAIN account : j # last_id + 1 BY NextId
      <4>4. n = pc[u].name => i \in reborn'
        BY <3>5, <1>2, <2>2, <3>1 DEF InsertAccount, LoginIds, At
      <4>5. Rows(n)' \subseteq Rows(n) \cup (IF n = pc[u].name THEN {last_id + 1} ELSE {})
        BY <4>1, <4>3 DEF Rows
      <4> QED BY <3>2, <4>1, <4>2, <4>3, <4>4, <4>5, GhostsGrow, SMTT(30)
    <3>6. ASSUME NEW S, RemoveRows(S) PROVE <3>3!1
      <4>1. /\ DOMAIN account' \subseteq DOMAIN account
            /\ \A j \in DOMAIN account' : account'[j] = account[j]
        BY <3>6, RemoveTypes, Zenon
      <4>2. Rows(n)' \subseteq Rows(n) BY <4>1 DEF Rows
      <4>3. i \in DOMAIN account /\ i \notin DOMAIN account' => Rows(n)' = {}
        BY <3>2, <4>1 DEF Rows, LoginInv
      <4> QED BY <3>2, <4>1, <4>2, <4>3, GhostsGrow
    <3>7. ASSUME NEW j, NEW c \in Code \cup {NoCode}, SetCode(j, c) PROVE <3>3!1
      <4>1. Rows(n)' = Rows(n) BY <3>7, SetCodeTypes DEF Rows
      <4> QED BY <3>2, <3>7, <4>1, SetCodeTypes, GhostsGrow
    <3> QED BY <3>4, <3>5, <3>6, <3>7, AccountSteps
  <2> QED BY <1>2, <2>1, <2>2, LoginSteps, SMTT(30)
<1> QED BY <1>1, <1>2 DEF LoginInv

-----------------------------------------------------------------------------
(* Accounts in use: whoever has logged in is on record, but for an account *)
(* that was not complete, and the cleaner does not hold an account that is *)
(* on record.                                                              *)
UsedInv ==
    /\ online \subseteq seen
    /\ \A i \in DOMAIN stamp : i \in seen => stamp[i].last_login = TRUE \/ i \in hasty
    /\ pc[Cleaner].at = "accounts" => pc[Cleaner].stale \cap seen \subseteq hasty
    /\ OnlineHasAccount

IInv == TypeOK /\ LockInv /\ LoginInv /\ UsedInv

(* What a step does to who is, or was, online.                             *)
LEMMA SeenSteps ==
    ASSUME [Next]_vars
    PROVE  \/ online' \subseteq online /\ seen' = seen
           \/ \E t \in Task : login(t)
  BY ZenonT(30) DEF Next, vars, ghosts, create_account, check_user, delete_account, RequestMail,
         check_reset_token, check_email_vs_deleted, InsertAccount, ReadId, InsertStamp,
         LockDelete, HashName, HashEmail, DeleteRow, update_password_token,
         update_user_password, SendMail, SetSentTime, Fails, logout,
         cleanup_expired_hashes, CleanStamps, CleanAccounts, Elapse, Restart

(* What a step does to the times of the accounts.                          *)
LEMMA StampSteps ==
    ASSUME TypeOK, [Next]_vars
    PROVE  \/ \E t \in Task : InsertStamp(t) \/ login(t)
           \/ /\ DOMAIN stamp' \subseteq DOMAIN stamp
              /\ \A i \in DOMAIN stamp' : stamp'[i].last_login = stamp[i].last_login
<1> DEFINE Kept == /\ DOMAIN stamp' \subseteq DOMAIN stamp
                   /\ \A i \in DOMAIN stamp' : stamp'[i].last_login = stamp[i].last_login
<1>1. ASSUME NEW S, stamp' = Restrict(stamp, DOMAIN stamp \ S) PROVE Kept
  BY <1>1 DEF Restrict
<1>2. ASSUME NEW t \in Task, DeleteRow(t) PROVE Kept
  BY <1>2, <1>1, ZenonT(30) DEF DeleteRow, RemoveRows
<1>3. ASSUME NEW stale \in SUBSET DOMAIN stamp, CleanStamps(stale) PROVE Kept
  BY <1>3, <1>1, ZenonT(30) DEF CleanStamps
<1>4. ASSUME CleanAccounts PROVE Kept
  BY <1>4, <1>1 DEF CleanAccounts, RemoveRows
<1>5. ASSUME NEW t \in Task, SetSentTime(t) PROVE Kept
  BY <1>5 DEF SetSentTime, TypeOK, Stamp
<1>6. ASSUME NEW i \in DOMAIN stamp, NEW kind \in Mail, Elapse(i, kind) PROVE Kept
  BY <1>6 DEF Elapse, TypeOK, Stamp
<1>7. ASSUME UNCHANGED stamp PROVE Kept
  BY <1>7
<1>8. \/ UNCHANGED stamp
      \/ \E t \in Task : InsertStamp(t) \/ login(t) \/ DeleteRow(t) \/ SetSentTime(t)
      \/ \E stale \in SUBSET DOMAIN stamp : CleanStamps(stale)
      \/ CleanAccounts
      \/ \E i \in DOMAIN stamp, kind \in Mail : Elapse(i, kind)
  BY ZenonT(30) DEF Next, vars, db, create_account, check_user, delete_account, RequestMail,
         check_reset_token, check_email_vs_deleted, InsertAccount, ReadId,
         LockDelete, HashName, HashEmail, update_password_token,
         update_user_password, SendMail, Fails, logout, cleanup_expired_hashes, Restart
<1> HIDE DEF Kept
<1>9. Kept \/ \E t \in Task : InsertStamp(t) \/ login(t)
  BY <1>2, <1>3, <1>4, <1>5, <1>6, <1>7, <1>8
<1> QED BY <1>9 DEF Kept

(* Which accounts a step removes.                                          *)
LEMMA AccountsKept ==
    ASSUME TypeOK, [Next]_vars, NEW i \in DOMAIN account, i \notin DOMAIN account'
    PROVE  \/ \E t \in Task : DeleteRow(t) /\ pc[t].id = i
           \/ CleanAccounts /\ i \in pc[Cleaner].stale
<1> USE AccountsAssumption
<1>1. ASSUME NEW t \in Task, DeleteRow(t) PROVE pc[t].id = i
  BY <1>1 DEF DeleteRow, RemoveRows, Restrict
<1>2. CleanAccounts => i \in pc[Cleaner].stale
  BY DEF CleanAccounts, RemoveRows, Restrict
<1>3. ~\E t \in Task : \/ InsertAccount(t) \/ update_password_token(t)
                       \/ update_user_password(t)
  <2>1. \A k, c : SetCode(k, c) => DOMAIN account' = DOMAIN account
    BY DEF SetCode
  <2> QED BY <2>1, ZenonT(30) DEF InsertAccount, update_password_token, update_user_password
<1>4. account' # account
  OBVIOUS
<1>5. CleanAccounts \/ \E t \in Task : DeleteRow(t)
  BY <1>3, <1>4, ZenonT(30)
     DEF Next, vars, db, create_account, check_user, delete_account, RequestMail,
         check_reset_token, check_email_vs_deleted, ReadId, InsertStamp, login, LockDelete,
         HashName, HashEmail, SendMail, SetSentTime, Fails, logout,
         cleanup_expired_hashes, CleanStamps, Elapse, Restart
<1> QED BY <1>1, <1>2, <1>5

(* Every step keeps what is known of the accounts in use.                  *)
LEMMA UsedStep == ASSUME IInv, TypeOK', [Next]_vars PROVE UsedInv'
<1> USE AccountsAssumption
<1>1. online' \subseteq seen'
  BY SeenSteps, ZenonT(30) DEF IInv, UsedInv, login
<1>2. ASSUME NEW i \in DOMAIN stamp', i \in seen' PROVE stamp'[i].last_login = TRUE \/ i \in hasty'
  <2>1. ASSUME NEW t \in Task, InsertStamp(t)
        PROVE  stamp'[i].last_login = TRUE \/ i \in hasty'
    BY <2>1, <1>2 DEF InsertStamp, IInv, UsedInv
  <2>2. ASSUME NEW t \in Task, login(t)
        PROVE  stamp'[i].last_login = TRUE \/ i \in hasty'
    <3>1. /\ DOMAIN stamp' = DOMAIN stamp /\ hasty' = hasty
          /\ i # pc[t].id => i \in seen /\ stamp'[i] = stamp[i]
          /\ i = pc[t].id => stamp'[i].last_login = TRUE
      BY <2>2, <1>2 DEF login, IInv, TypeOK, Stamp
    <3> QED BY <3>1, <1>2 DEF IInv, UsedInv
  <2>3. CASE /\ DOMAIN stamp' \subseteq DOMAIN stamp
             /\ \A j \in DOMAIN stamp' : stamp'[j].last_login = stamp[j].last_login
             /\ seen' = seen
    BY <2>3, <1>2, GhostsGrow DEF IInv, UsedInv
  <2>4. \/ \E t \in Task : InsertStamp(t) \/ login(t)
        \/ /\ DOMAIN stamp' \subseteq DOMAIN stamp
           /\ \A j \in DOMAIN stamp' : stamp'[j].last_login = stamp[j].last_login
           /\ seen' = seen
    BY StampSteps, SeenSteps DEF IInv
  <2> QED BY <2>1, <2>2, <2>3, <2>4, ZenonT(30)
<1>3. ASSUME pc'[Cleaner].at = "accounts" PROVE pc'[Cleaner].stale \cap seen' \subseteq hasty'
  <2>1. CASE pc'[Cleaner] = pc[Cleaner]
    <3>1. ~\E t \in Task : login(t)
      BY <1>3, <2>1, ZenonT(30) DEF login, IInv, LockInv
    <3>2. seen' = seen BY <3>1, SeenSteps
    <3> QED BY <1>3, <2>1, <3>2, GhostsGrow DEF IInv, UsedInv
  <2>2. ASSUME NEW stale \in SUBSET DOMAIN stamp, CleanStamps(stale)
        PROVE  pc'[Cleaner].stale \cap seen' \subseteq hasty'
    <3>1. pc'[Cleaner].stale = stale /\ UNCHANGED <<seen, hasty>>
      BY <2>2, SMTT(30) DEF CleanStamps, Begin, ghosts, IInv, TypeOK
    <3>2. \A i \in stale : stamp[i].last_login # TRUE
      BY <2>2, Zenon DEF CleanStamps
    <3> QED BY <3>1, <3>2, ZenonT(30) DEF IInv, UsedInv
  <2> QED BY <1>3, <2>1, <2>2, CleanerSteps DEF Idle, IInv
<1>4. OnlineHasAccount'
  <2>1. ASSUME NEW i \in online', i \in online PROVE i \in DOMAIN account' \cup reborn' \cup hasty'
    <3>1. CASE i \in reborn \cup hasty
      BY <3>1, GhostsGrow DEF IInv
    <3>2. CASE i \in DOMAIN account /\ i \notin DOMAIN account'
      <4>1. ~\E t \in Task : DeleteRow(t) /\ pc[t].id = i
        BY <2>1, Zenon DEF DeleteRow, At, IInv, LockInv, Deletes
      <4>2. CleanAccounts /\ i \in pc[Cleaner].stale
        BY <3>2, <4>1, AccountsKept DEF IInv
      <4>3. i \in hasty
        BY <2>1, <4>2 DEF CleanAccounts, At, IInv, UsedInv
      <4> QED BY <4>3, GhostsGrow DEF IInv
    <3> QED BY <2>1, <3>1, <3>2 DEF IInv, UsedInv, OnlineHasAccount
  <2>2. ASSUME NEW t \in Task, login(t) PROVE pc[t].id \in DOMAIN account' \cup reborn'
    <3>1. UNCHANGED <<account, reborn>> /\ pc[t].at = "login" /\ Rows(pc[t].name) # {}
      BY <2>2 DEF login, MayLogin, At
    <3> QED BY <3>1 DEF IInv, LoginInv
  <2>3. \A i \in online' : i \in online \/ \E t \in Task : login(t) /\ pc[t].id = i
    BY SeenSteps DEF login
  <2> QED BY <2>1, <2>2, <2>3 DEF OnlineHasAccount
<1> QED BY <1>1, <1>2, <1>3, <1>4, Zenon DEF UsedInv

(* The inductive invariant of accounts: types, the holder of the lock,     *)
(* logins under way and accounts in use, through every statement, failure  *)
(* and restart.                                                            *)
THEOREM AccountsInvariance == Spec => []IInv
<1>1. Init => IInv
  <2>1. Init => TypeOK
    BY AccountsAssumption DEF Init, TypeOK
  <2> QED BY <2>1, AccountsAssumption
          DEF Init, IInv, LockInv, Deletes, LoginInv, UsedInv, OnlineHasAccount, Idle
<1>2. IInv /\ [Next]_vars => IInv'
  BY TypeStep, LockStep, LoginStep, UsedStep DEF IInv
<1> QED BY <1>1, <1>2, PTL DEF Spec

(* Whoever is online has an account, but for the two races that the        *)
(* property names (login, delete_user, the daily cleaner).                 *)
THEOREM OnlineUsersHaveAccounts == Spec => []OnlineHasAccount
<1>1. IInv => OnlineHasAccount
  BY DEF IInv, UsedInv
<1> QED BY <1>1, AccountsInvariance, PTL

(* The daily cleaner takes no account that has logged in since it was      *)
(* complete (cleanup_never_used_accounts under client_infos.write()).      *)
THEOREM CleanerSparesUsed == Spec => UsedAccountsKept
<1> DEFINE A == \A i \in (seen \ hasty) \cap DOMAIN account :
                  i \notin DOMAIN account' => \E t \in Task : At(t, "row") /\ pc[t].id = i
<1>1. IInv /\ [Next]_vars => [A]_vars
  <2> SUFFICES ASSUME IInv, [Next]_vars, NEW i \in (seen \ hasty) \cap DOMAIN account,
                      i \notin DOMAIN account'
               PROVE  \E t \in Task : At(t, "row") /\ pc[t].id = i
    OBVIOUS
  <2>1. ~(CleanAccounts /\ i \in pc[Cleaner].stale)
    BY DEF CleanAccounts, At, IInv, UsedInv
  <2> QED BY <2>1, AccountsKept, Zenon DEF IInv, DeleteRow
<1> QED BY <1>1, AccountsInvariance, PTL DEF Spec, UsedAccountsKept
=============================================================================
