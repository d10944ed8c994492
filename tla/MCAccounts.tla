----------------------------- MODULE MCAccounts -----------------------------
(* Small instances of Accounts: tasks that race for the same name, in its  *)
(* different spellings.                                                    *)
EXTENDS Accounts, TLC

MCFold == [n \in Name |-> "name"]

Symmetry == Permutations(Task) \cup Permutations(Name)
=============================================================================
