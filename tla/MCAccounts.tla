----------------------------- MODULE MCAccounts ------------------------------
(* Bounded instance of Accounts: the slots are interchangeable.            *)
EXTENDS Accounts, TLC

RequestSymmetry == Permutations(Requests)
=============================================================================
