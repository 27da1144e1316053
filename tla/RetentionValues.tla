---------------------------- MODULE RetentionValues ----------------------------
(* Values of the constants of Retention: two months side by side, one six    *)
(* months away from them and one seven, and a day on which few had time.     *)
EXTENDS Integers, TLC

\* So many of a month stayed, so many left on their first day.
Batch(month, platform, stayed, left) ==
  LET first == month * 30 + 5
      p(seen) == [registered |-> first, lastSeen |-> first + seen, platform |-> platform]
  IN  (p(31) :> stayed) @@ (IF left = 0 THEN <<>> ELSE (p(0) :> left))

\* Somebody who came nine days before the end, and was last seen in three.
Young == ([registered |-> 335, lastSeen |-> 338, platform |-> "java"] :> 3)

RBatches ==
  {Batch(m, "java", 20, 0) : m \in {0, 1, 2}}
    \cup {Batch(1, "java", 20, 5)}
    \cup {Batch(m, "bedrock", 10, 0) : m \in {1, 2}}
    \cup {Batch(9, "java", 20, 0), Batch(0, "bedrock", 3, 2), Young}

RWindows ==
  { [from |-> 0, to |-> 11, platform |-> "all"],
    [from |-> 1, to |-> 2, platform |-> "bedrock"] }

RClock == {340, 343}
=============================================================================
