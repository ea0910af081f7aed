--------------------------- MODULE MCRateLimiting ---------------------------
(* Both limiters with two workers; names the symmetry set.                 *)
EXTENDS RateLimiting, TLC

LimiterSymmetry == Permutations(Workers) \cup Permutations(Keys)
=============================================================================
