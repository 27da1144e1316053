--------------------------- MODULE MCHealthAlerts ---------------------------
(* Instances of HealthAlerts for TLC. *)
EXTENDS HealthAlerts

CONSTANT c1
=============================================================================
