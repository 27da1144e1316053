----------------------------- MODULE MCReadModels -----------------------------
(* Values of the constants of ReadModels, for TLC.                           *)
EXTENDS ReadModels, RetentionValues, HealthReadings, TLC

CONSTANTS u1, u2, u3

EV == INSTANCE EconomyValues
WV == INSTANCE WeeklyValues

Answer(first, second, made, withDay) ==
  [paid |-> 1 :> first @@ 2 :> second, created |-> made, dated |-> withDay]

\* The whole log; less than half of it by one count, or by the other, with a
\* part of two identical payments; nothing; and half of it, with no day at all.
SomeLogs ==
  { Answer(2, 2, 4, 3), Answer(0, 1, 4, 4), Answer(2, 1, 1, 1), Answer(0, 0, 4, 4),
    Answer(0, 2, 2, 0) }

\* Everybody, half, less than half, unreadable rows, nobody.
SomePayloads ==
  { [players |-> {u1, u2, u3}, rows |-> 4], [players |-> {u1, u2}, rows |-> 2],
    [players |-> {u3}, rows |-> 1], [players |-> {u3}, rows |-> 4],
    [players |-> {}, rows |-> 0] }

Plans3     == WV!WPlans
Tables     == WV!WRetention
Arrivals   == WV!WNewcomers
Shop5      == EV!EShop
Ledger5    == EV!ELedger
Positions  == EV!EProgress
Calendar   == EV!EClock
PlatformBy == EV!EPlatformOf
FirstSeen  == EV!ERegistered
=============================================================================
