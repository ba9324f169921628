----------------------------- MODULE MCLiveView -----------------------------
(* An instance of LiveView for TLC: one host is there when the run starts, none   *)
(* was seen lately.  The others are created.                                       *)
EXTENDS LiveView

CONSTANT First

MCInit == Init /\ recent = {} /\ row = [h \in Hosts |-> IF h = First THEN "row" ELSE "none"]

MCSpec == MCInit /\ [][Next]_vars /\ Fairness
=============================================================================
