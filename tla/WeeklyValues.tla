----------------------------- MODULE WeeklyValues ------------------------------
(* Values of the constants of WeeklyReport: five newcomers of two platforms, *)
(* two on the first day, of whom Plan, which begins within it, has one, and  *)
(* one on the last day of a window.                                          *)
EXTENDS Integers

P(who, at, platform, entered, completed) ==
  [ who |-> who, at |-> at, platform |-> platform, entered |-> entered,
    completed |-> completed ]

WNewcomers ==
  { P(1, 1, "java", 1, 5), P(2, 0, "bedrock", 3, -1), P(3, 3, "java", -1, -1),
    P(4, 4, "java", 4, 4), P(5, 5, "bedrock", 5, 6) }

Table   == [ok |-> TRUE, cohorts |-> 3, blanked |-> 1]
NoTable == [ok |-> FALSE, cohorts |-> 0, blanked |-> 0]
WRetention == {Table, NoTable}

\* Plan began within the first day, or is not there.
WPlans ==
  { [configured |-> TRUE, since |-> 1, retention |-> Table],
    [configured |-> FALSE, since |-> 1, retention |-> NoTable] }
=============================================================================
