---------------------------- MODULE MCAccounts ----------------------------
(* Finite instances of Accounts for TLC. *)
EXTENDS Accounts, TLC

AnyRequest == Permutations(Requests)
=============================================================================
