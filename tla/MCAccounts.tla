----------------------------- MODULE MCAccounts -----------------------------
(* Two usernames that differ in case only: both give the same slug. *)
EXTENDS Accounts, TLC

SameSlug == [n \in Name |-> CHOOSE b \in Base : TRUE]
=============================================================================
