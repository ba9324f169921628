---------------------------- MODULE MCHostsPanel ----------------------------
(* Instances of HostsPanel for TLC. *)
EXTENDS HostsPanel
=============================================================================
