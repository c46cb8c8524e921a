--------------------------- MODULE MCMfaSettings ---------------------------
(* Model-checking instance of MfaSettings; mfa_settings.cfg has the constants. *)
EXTENDS MfaSettings, TLC

Slots == Permutations(Requests) \cup Permutations(Secrets)
           \cup Permutations(Batches) \cup Permutations(Keys)
=============================================================================
