------------------------------- MODULE MCWeekly --------------------------------
(* WeeklyReport on its own, on the values of WeeklyValues. *)
EXTENDS WeeklyReport, WeeklyValues
=============================================================================
