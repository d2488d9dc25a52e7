---------------------------- MODULE MCRateLimiter ---------------------------
(* RateLimiter on small instances: clients and callers are interchangeable.  *)
EXTENDS RateLimiter, TLC

Symmetry == Permutations(Ids) \cup Permutations(Callers)

=============================================================================
