------------------------- MODULE MCLoginRateLimiter -------------------------
(* Model checking LoginRateLimiter: requests are interchangeable.          *)
EXTENDS LoginRateLimiter, TLC

RequestSymmetry == Permutations(Requests)
=============================================================================
