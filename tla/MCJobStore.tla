----------------------------- MODULE MCJobStore -----------------------------
(* JobStore on a small instance: the jobs are interchangeable. *)
EXTENDS JobStore

Symmetry == Permutations(Jobs)

=============================================================================
