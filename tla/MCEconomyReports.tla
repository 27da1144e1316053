--------------------------- MODULE MCEconomyReports ---------------------------
(* EconomyReports on its own, on the values of EconomyValues. *)
EXTENDS EconomyReports, EconomyValues
=============================================================================
