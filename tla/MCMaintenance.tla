---------------------------- MODULE MCMaintenance ----------------------------
(* Instances of Maintenance for TLC. *)
EXTENDS Maintenance, TLC

Symmetry == Permutations(Hosts) \cup Permutations(Tasks) \cup Permutations(Requests)
=============================================================================
