---------------------------- MODULE MC_RateLimiter ----------------------------
(* Small instances of RateLimiter. *)
EXTENDS RateLimiter, TLC

CONSTANTS c1, c2, c3

Symmetric == Permutations(Clients)
=============================================================================
