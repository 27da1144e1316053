---------------------------- MODULE EconomyValues -----------------------------
(* Values of the constants of EconomyReports: one player Plan knew before    *)
(* the first night, one who bought before Plan first saw them, a newcomer.   *)
EXTENDS Integers

EPlatformOf == [a |-> "java", b |-> "bedrock", c |-> "java"]
ERegistered == [a |-> 1, b |-> 35, c |-> 38]

S(id, buyer, at, cents, historical) ==
  [id |-> id, buyer |-> buyer, at |-> at, cents |-> cents, historical |-> historical]

EShop ==
  { S(1, "a", 2, 100, FALSE), S(2, "b", 30, 250, FALSE), S(3, "b", 39, 50, FALSE),
    S(4, "a", 2, 400, TRUE), S(5, "c", 39, 100, FALSE) }

\* A payment is two rows, with the parties swapped; the copy may lack one.
X(id, from, to, at, amount) ==
  { [id |-> id, from |-> from, to |-> to, at |-> at, amount |-> amount, type |-> "PAY_RECEIVER"],
    [id |-> id + 1, from |-> to, to |-> from, at |-> at, amount |-> -amount, type |-> "PAY_SENDER"] }

ELedger ==
  X(1, "a", "b", 36, 100)
    \cup {x \in X(3, "a", "b", 39, 20) \cup X(5, "a", "c", 38, 30) \cup X(7, "b", "a", 39, 40) : x.type = "PAY_RECEIVER"}

P(completed, index) == [completed |-> completed, index |-> index]
EProgress ==
  { [a |-> P(TRUE, 3), b |-> P(FALSE, 1), c |-> P(FALSE, -1)],
    [a |-> P(TRUE, 3), b |-> P(FALSE, -1), c |-> P(FALSE, 2)] }

EClock == {3, 40, 45}
=============================================================================
