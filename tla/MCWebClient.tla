---------------------------- MODULE MCWebClient ----------------------------
(* TLC instance of WebClient: one person, two calls in flight. *)
EXTENDS WebClient, TLC

Slots == Permutations(Calls) \cup Permutations(SessionIds)
=============================================================================
