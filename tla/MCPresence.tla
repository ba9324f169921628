----------------------------- MODULE MCPresence -----------------------------
(***************************************************************************)
(* Instances of Presence for TLC.  Connections and timers are              *)
(* interchangeable, so safety runs use their permutations as symmetry.      *)
(***************************************************************************)
EXTENDS Presence, TLC

Symmetry == Permutations(Conns) \cup Permutations(Timers) \cup Permutations(Hosts)
=============================================================================
