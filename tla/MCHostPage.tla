----------------------------- MODULE MCHostPage -----------------------------
(* Instances of HostPage for TLC. *)
EXTENDS HostPage
=============================================================================
