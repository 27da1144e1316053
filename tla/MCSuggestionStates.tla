------------------------- MODULE MCSuggestionStates -------------------------
(* Instances of SuggestionStates for TLC. *)
EXTENDS SuggestionStates, TLC

CONSTANTS h1, h2, m1, t1, t2, a1, a2

Alike == Permutations({h1, h2}) \cup Permutations({a1, a2})
           \cup Permutations({t1, t2})
=============================================================================
