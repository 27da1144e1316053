--------------------------- MODULE MCTutorialSync ---------------------------
(* Instances of TutorialSync for TLC. *)
EXTENDS TutorialSync

CONSTANTS c1, c2, r1

Found(files, failed, players, days) ==
  [files |-> files, failed |-> failed, players |-> players, days |-> days]

\* A full walk; one at every floor of it; one below each floor alone; and one
\* broken by each absolute rule alone.
FewScans ==
  { Found(4, 0, 4, 4), Found(2, 0, 2, 2),
    Found(1, 0, 1, 2), Found(4, 0, 1, 2), Found(4, 0, 2, 1),
    Nothing, Found(4, 2, 2, 2), Found(4, 0, 4, 0) }
=============================================================================
