--------------------------- MODULE MCVerification ---------------------------
(* Model-checking instance of Verification; verification.cfg has the constants. *)
EXTENDS Verification, TLC

Slots == Permutations(Requests) \cup Permutations(Tokens)
=============================================================================
