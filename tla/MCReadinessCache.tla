-------------------------- MODULE MCReadinessCache --------------------------
(* The instances of ReadinessCache that TLC checks.                         *)
EXTENDS ReadinessCache, TLC

Symmetry == Permutations(Requests)

=============================================================================
