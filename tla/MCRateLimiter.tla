--------------------------- MODULE MCRateLimiter ---------------------------
(***************************************************************************)
(* An instance of RateLimiter for TLC: ticks of half a second, a window    *)
(* longer than what clocks and commands may be late.                       *)
(***************************************************************************)
EXTENDS RateLimiter, TLC

AttemptSymmetry == Permutations(Attempts) \cup Permutations(Workers)
=============================================================================
