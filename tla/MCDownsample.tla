---------------------------- MODULE MCDownsample ----------------------------
(* Instances of Downsample for TLC.  An hour is two buckets instead of twelve. *)
EXTENDS Downsample
=============================================================================
