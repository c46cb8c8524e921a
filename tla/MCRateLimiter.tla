--------------------------- MODULE MCRateLimiter ---------------------------
(* TLC instance of RateLimiter: two addresses, windows of three instants. *)
EXTENDS RateLimiter, TLC

Addresses == Permutations(Keys)
=============================================================================
