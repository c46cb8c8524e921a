----------------------------- MODULE MCAccounts -----------------------------
(* Model-checking instance of Accounts; the .cfg files give the constants. *)
EXTENDS Accounts, TLC

Slots == Permutations(LoginRequests)
=============================================================================
