---- MODULE MCAuthCoordinator ----
(* Instances of AuthCoordinator for TLC. *)
EXTENDS AuthCoordinator, TLC

Symmetry == Permutations(Callers)
====
