---------------------------- MODULE MCEnrollment ----------------------------
(* Instances of Enrollment for TLC. *)
EXTENDS Enrollment, TLC

Symmetry == Permutations(Hosts) \cup Permutations(Keys) \cup Permutations(Tokens)
              \cup Permutations(Requests)
=============================================================================
