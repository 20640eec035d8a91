--------------------------- MODULE MCRateLimiter ---------------------------
(***************************************************************************)
(* TLC instance of RateLimiter: a bucket of two tokens and a half, refilled*)
(* by one token every two ticks.                                           *)
(***************************************************************************)
EXTENDS RateLimiter, TLC

Symmetry == Permutations(Handlers)
=============================================================================
