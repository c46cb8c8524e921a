----------------------------- MODULE MCSessions -----------------------------
(* Model-checking instance of Sessions; the .cfg files give the constants. *)
EXTENDS Sessions, TLC

Slots == Permutations(RefreshRequests)
=============================================================================
