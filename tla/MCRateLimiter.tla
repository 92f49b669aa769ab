--------------------------- MODULE MCRateLimiter ---------------------------
(***************************************************************************)
(* RateLimiter for TLC.                                                    *)
(***************************************************************************)
EXTENDS RateLimiter, TLC

(* The limiter treats all client addresses alike.                          *)
Symmetry == Permutations(Keys)
===========================================================================
