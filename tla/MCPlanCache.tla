---------------------------- MODULE MCPlanCache ----------------------------
(* Instances of PlanCache for TLC. *)
EXTENDS PlanCache, TLC

CONSTANTS r1, r2, r3, k1, k2

Alike == Permutations({r1, r2, r3})
TTLs  == [k \in Keys |-> IF k = k1 THEN 1 ELSE 2]
=============================================================================
