------------------------ MODULE MCMaintenancePanel ------------------------
(* An instance of MaintenancePanel for TLC.  Only the list looks at the rows of    *)
(* other hosts: here they are created while the host's page is not on the screen,  *)
(* and it is not opened afterwards, which bounds the states and nothing else.      *)
EXTENDS MaintenancePanel

NoneElsewhere == \A i \in DOMAIN rows : rows[i] # None

MCNext == Next /\ (mounted' => NoneElsewhere')

MCSpec == Init /\ [][MCNext]_vars /\ Fairness
=============================================================================
