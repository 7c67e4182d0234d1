---- MODULE MCRateLimiter ----
EXTENDS RateLimiter, TLC
CONSTANTS x1, x2
Symmetric == Permutations(Draws)
====
