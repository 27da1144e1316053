--------------------------- MODULE MCSaleDelivery ---------------------------
(* Instances of SaleDelivery for TLC. *)
EXTENDS SaleDelivery, TLC

CONSTANTS s1, s2, i1

MCItemOf == [s \in Sales |-> i1]
MCSymmetry == Permutations(Sales)
=============================================================================
