------------------------ MODULE SuggestionLifecycle ------------------------
(***************************************************************************)
(* What a suggestion's card promises its readers, without requests, locks  *)
(* or statements: the text is the one first posted, the stage only moves   *)
(* forward and ends for good, and the credit is given once, to whoever     *)
(* approved.  SuggestionStates is shown to implement it.                   *)
(***************************************************************************)
EXTENDS Naturals

CONSTANTS
  Messages,   \* Discord messages a suggestion may come from
  Texts,      \* bodies, as stored
  Actors,     \* staff members
  Nobody      \* no credit yet

VARIABLE card \* the posted suggestions, by message

\* How far a suggestion has come; the two ends share the last rank.
Rank == [enviada |-> 0, aprovada |-> 1, em_andamento |-> 2,
         concluida |-> 3, recusada |-> 3]

Card == [text : Texts, status : DOMAIN Rank, credit : Actors \cup {Nobody}]

CardTypeOK ==
  /\ DOMAIN card \subseteq Messages
  /\ card \in [DOMAIN card -> Card]

New(t) == [text |-> t, status |-> "enviada", credit |-> Nobody]

Init == \E posted \in SUBSET Messages : card \in [posted -> {New(t) : t \in Texts}]

Post(m, t) ==
  /\ m \in Messages \ DOMAIN card
  /\ card' = [x \in DOMAIN card \cup {m} |-> IF x = m THEN New(t) ELSE card[x]]

\* One step along the path; an approval gives its actor the credit.
Advance(m, a) ==
  /\ m \in DOMAIN card
  /\ \E s \in DOMAIN Rank \ {"recusada"} :
       /\ Rank[s] = Rank[card[m].status] + 1
       /\ card' = [card EXCEPT ![m] =
            [text |-> card[m].text, status |-> s,
             credit |-> IF s = "aprovada" THEN a ELSE card[m].credit]]

\* A refusal from any stage that is still open.
TurnDown(m) ==
  /\ m \in DOMAIN card
  /\ card[m].status \notin {"concluida", "recusada"}
  /\ card' = [card EXCEPT ![m] = [@ EXCEPT !.status = "recusada"]]

Next ==
  \E m \in Messages :
    \/ \E t \in Texts : Post(m, t)
    \/ \E a \in Actors : Advance(m, a)
    \/ TurnDown(m)

Spec == Init /\ [][Next]_card
=============================================================================
