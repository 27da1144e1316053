------------------------- MODULE HealthAlertsProofs -------------------------
(***************************************************************************)
(* Proofs about HealthAlerts, for every set of checks, window, budget and  *)
(* confirmation threshold.  The argument rests on one fact about the       *)
(* table: only a check's newest row is ever stamped, so stamps are in row  *)
(* order, and lastAlert, the newest stamp, is the newest stamped row.      *)
(***************************************************************************)
EXTENDS HealthAlerts, SequenceTheorems, FiniteSetTheorems, TLAPS

\* Nothing in the table is of the future.
TimesPast ==
  \A c \in Checks : \A i \in DOMAIN log[c] :
    log[c][i].at <= clock /\ log[c][i].alerted <= clock

\* The newest stamp is on the newest stamped row.
Latest(c, i) ==
  /\ i \in Stamped(c)
  /\ \A j \in Stamped(c) : j <= i /\ log[c][j].alerted <= log[c][i].alerted

InOrder(c) == Stamped(c) # {} => \E i \in Stamped(c) : Latest(c, i)

StampsInOrder == \A c \in Checks : InOrder(c)

\* The rows of the cycle in progress are the newest and not stamped yet.
FreshUnstamped ==
  \A c \in fresh : Len(log[c]) > 0 /\ Newest(c).alerted = Never

\* What the newest row of c may say to the channel.
MayFollow(c) ==
  IF Stamped(c) = {} THEN Newest(c).status \in {"breached", "error"}
                     ELSE Follows(log[c][LastAlert(c)], Newest(c))

DecidedMayFollow ==
  phase \in {"decided", "published"} =>
    \A c \in fresh : decision[c] \in Buckets => MayFollow(c)

\* What publish returned was shown and had been decided.
DeliveredWasShown ==
  phase = "published" =>
    \A c \in delivered : decision[c] \in Buckets /\ Len(log[c]) \in channel[c]

IInv ==
  /\ TypeOK
  /\ TimesPast
  /\ StampsInOrder
  /\ FreshUnstamped
  /\ DecidedMayFollow
  /\ DeliveredWasShown
  /\ StampedWasHeard
  /\ MessagesFollow
  /\ FlappingNeverDecided
  /\ SilenceEnds

-----------------------------------------------------------------------------
(* The queries.                                                            *)

\* A check's log is a sequence of rows; what the store selects is in it.
LEMMA RowsOf ==
  ASSUME TypeOK, NEW c \in Checks
  PROVE  /\ Len(log[c]) \in Nat
         /\ DOMAIN log[c] = 1..Len(log[c])
         /\ \A i \in DOMAIN log[c] :
              /\ i \in Nat \ {0}
              /\ log[c][i] \in Row
              /\ log[c][i].status \in Statuses
              /\ log[c][i].at \in Nat
              /\ log[c][i].alerted \in Nat
         /\ Stamped(c) \subseteq DOMAIN log[c]
<1>1. log[c] \in Seq(Row)
  BY DEF TypeOK
<1>2. Len(log[c]) \in Nat /\ DOMAIN log[c] = 1..Len(log[c])
  BY <1>1, LenProperties
<1>3. ASSUME NEW i \in DOMAIN log[c] PROVE i \in Nat \ {0} /\ log[c][i] \in Row
  BY <1>1, <1>2, ElementOfSeq
<1> QED
  BY <1>2, <1>3 DEF Row, Stamped, StampedIn

\* lastAlert finds the latest stamped row, if there is one.
LEMMA LastAlertIsLatest ==
  ASSUME TypeOK, StampsInOrder, NEW c \in Checks
  PROVE  /\ Stamped(c) = {} => LastAlert(c) = 0
         /\ Stamped(c) # {} => LastAlert(c) # 0 /\ Latest(c, LastAlert(c))
<1>1. CASE Stamped(c) = {}
  BY <1>1 DEF LastAlert, LastIn, Stamped
<1>2. CASE Stamped(c) # {}
  <2> DEFINE IsLast(k) ==
        \A j \in Stamped(c) :
           \/ log[c][j].alerted < log[c][k].alerted
           \/ log[c][j].alerted = log[c][k].alerted /\ j <= k
  <2>1. \A j \in Stamped(c) : j \in Nat \ {0} /\ log[c][j].alerted \in Nat
    BY RowsOf
  <2>2. PICK i \in Stamped(c) : Latest(c, i)
    BY <1>2 DEF StampsInOrder, InOrder
  <2>3. IsLast(i)
    BY <2>1, <2>2 DEF Latest
  <2>4. LastAlert(c) = CHOOSE k \in Stamped(c) : IsLast(k)
    BY <1>2 DEF LastAlert, LastIn, Stamped
  <2>5. LastAlert(c) \in Stamped(c) /\ IsLast(LastAlert(c))
    BY <2>3, <2>4
  <2>6. LastAlert(c) = i
    BY <2>1, <2>2, <2>5 DEF Latest
  <2> QED
    BY <1>2, <2>1, <2>2, <2>6
<1> QED
  BY <1>1, <1>2

\* A check that was silent for a window has not been heard in the window:
\* the row is no older than the clock, and no stamp is newer than the last.
LEMMA SilentMeansNothingHeard ==
  ASSUME TypeOK, TimesPast, StampsInOrder, NEW c \in Checks,
         Len(log[c]) > 0, Silent(c)
  PROVE  HeardInWindow(c) = {}
<1> SUFFICES ASSUME NEW i \in HeardInWindow(c) PROVE FALSE
  OBVIOUS
<1>1. ReAlertAfter \in Nat /\ clock \in Nat
  BY HealthAlertsAssumption DEF TypeOK
<1>2. /\ i \in Stamped(c)
      /\ log[c][i].alerted + ReAlertAfter > clock
  BY DEF HeardInWindow
<1>3. LastAlert(c) # 0 /\ Latest(c, LastAlert(c))
  BY <1>2, LastAlertIsLatest
<1>4. log[c][LastAlert(c)].alerted + ReAlertAfter <= Newest(c).at
  BY <1>3 DEF Silent
<1>5. Newest(c).at <= clock /\ Newest(c).at \in Nat
  <2>1. Len(log[c]) \in DOMAIN log[c]
    BY RowsOf
  <2> QED
    BY RowsOf, <2>1 DEF TimesPast, Newest
<1>6. log[c][i].alerted <= log[c][LastAlert(c)].alerted
  BY <1>2, <1>3 DEF Latest
<1>7. log[c][i].alerted \in Nat /\ log[c][LastAlert(c)].alerted \in Nat
  BY <1>2, <1>3, RowsOf DEF Latest
<1>8. \A a, b, n \in Nat :
        a <= b /\ b + ReAlertAfter <= n /\ n <= clock => ~(a + ReAlertAfter > clock)
  BY <1>1
<1> QED
  BY <1>2, <1>4, <1>5, <1>6, <1>7, <1>8, Zenon

\* So the budget never withholds anything from a silent check.
LEMMA SilentIsDelivered ==
  ASSUME TypeOK, TimesPast, StampsInOrder, NEW c \in Checks, NEW bucket,
         Len(log[c]) > 0, Silent(c)
  PROVE  Deliver(c, bucket) = bucket
<1>1. ~HeardThis(c)
  BY SilentMeansNothingHeard DEF HeardThis
<1> QED
  BY <1>1 DEF Deliver

\* No row is ever put in the flapping bucket.
LEMMA NeverFlapping ==
  ASSUME TypeOK, TimesPast, StampsInOrder, NEW c \in Checks, NEW bucket,
         Len(log[c]) > 0, bucket # "flapping"
  PROVE  Deliver(c, bucket) \in {bucket, "muted"}
<1>1. CASE Silent(c)
  BY <1>1, SilentIsDelivered
<1>2. CASE ~Silent(c)
  BY <1>2 DEF Deliver, Mute
<1> QED
  BY <1>1, <1>2
-----------------------------------------------------------------------------
(* Steps that leave the table alone.                                       *)

\* What the queries see does not change with the table unchanged.
LEMMA SameLog ==
  ASSUME log' = log
  PROVE  /\ \A c \in Checks : /\ Stamped(c)' = Stamped(c)
                              /\ LastAlert(c)' = LastAlert(c)
                              /\ Newest(c)' = Newest(c)
                              /\ Confirmed(c)' = Confirmed(c)
                              /\ Open(c)' = Open(c)
                              /\ Silent(c)' = Silent(c)
         /\ StampsInOrder' = StampsInOrder
         /\ MessagesFollow' = MessagesFollow
<1>1. \A c \in Checks : Stamped(c)' = Stamped(c)
  BY DEF Stamped
<1>2. \A c \in Checks : LastAlert(c)' = LastAlert(c)
  BY DEF LastAlert
<1>3. \A c \in Checks : Newest(c)' = Newest(c)
  BY DEF Newest
<1>4. \A c \in Checks : Confirmed(c)' = Confirmed(c)
  BY DEF Confirmed
<1>5. \A c \in Checks : Open(c)' = Open(c)
  BY <1>2 DEF Open
<1>6. \A c \in Checks : Silent(c)' = Silent(c)
  BY <1>2, <1>3 DEF Silent
<1>7. StampsInOrder' = StampsInOrder
  BY <1>1 DEF StampsInOrder, InOrder, Latest
<1>8. MessagesFollow' = MessagesFollow
  BY <1>1 DEF MessagesFollow, Conversation, Follows
<1> QED
  BY <1>1, <1>2, <1>3, <1>4, <1>5, <1>6, <1>7, <1>8

\* So, with the cycle's own variables, are the invariants about decisions.
LEMMA SameCycle ==
  ASSUME IInv, log' = log, UNCHANGED cycleVars
  PROVE  DecidedMayFollow' /\ SilenceEnds' /\ FreshUnstamped' /\ FlappingNeverDecided'
<1>1. fresh \subseteq Checks /\ fresh' = fresh /\ phase' = phase /\ decision' = decision
  BY DEF IInv, TypeOK, cycleVars
<1>2. DecidedMayFollow'
  <2>1. \A c \in Checks : MayFollow(c)' = MayFollow(c)
    BY SameLog DEF MayFollow, Follows
  <2> QED
    BY <1>1, <2>1 DEF IInv, DecidedMayFollow
<1>3. SilenceEnds'
  <2>1. \A c \in Checks : Due(c)' = Due(c)
    BY SameLog DEF Due
  <2> QED
    BY <1>1, <2>1, SameLog DEF IInv, SilenceEnds
<1>4. FreshUnstamped'
  BY <1>1, SameLog DEF IInv, FreshUnstamped
<1>5. FlappingNeverDecided'
  BY <1>1 DEF IInv, FlappingNeverDecided
<1> QED
  BY <1>2, <1>3, <1>4, <1>5

LEMMA InitIInv == Init => IInv
<1> SUFFICES ASSUME Init PROVE IInv
  OBVIOUS
<1>1. \A c \in Checks : log[c] = <<>> /\ Stamped(c) = {}
  BY DEF Init, Stamped, StampedIn
<1>2. TypeOK
  BY DEF Init, TypeOK, Absent
<1>3. TimesPast /\ StampsInOrder /\ StampedWasHeard /\ MessagesFollow
  BY <1>1 DEF TimesPast, StampsInOrder, InOrder, StampedWasHeard, MessagesFollow, Conversation
<1>4. FreshUnstamped /\ DecidedMayFollow /\ DeliveredWasShown /\ SilenceEnds
  BY DEF Init, FreshUnstamped, DecidedMayFollow, DeliveredWasShown, SilenceEnds
<1>5. FlappingNeverDecided
  BY DEF Init, FlappingNeverDecided, Absent
<1> QED
  BY <1>2, <1>3, <1>4, <1>5 DEF IInv

LEMMA AdvanceStep ==
  ASSUME IInv, Advance
  PROVE  IInv'
<1>1. /\ clock' = clock + 1 /\ clock \in Nat \ {0}
      /\ UNCHANGED <<log, channel, cycleVars, muted>>
  BY DEF Advance, IInv, TypeOK
<1>2. TypeOK'
  BY <1>1 DEF IInv, TypeOK, cycleVars
<1>3. TimesPast'
  <2> SUFFICES ASSUME NEW c \in Checks, NEW i \in DOMAIN log[c]
               PROVE  log[c][i].at <= clock + 1 /\ log[c][i].alerted <= clock + 1
    BY <1>1 DEF TimesPast
  <2>1. log[c][i].at <= clock /\ log[c][i].alerted <= clock
    BY DEF IInv, TimesPast
  <2>2. log[c][i].at \in Nat /\ log[c][i].alerted \in Nat
    BY RowsOf DEF IInv
  <2> QED
    BY <1>1, <2>1, <2>2
<1>4. StampsInOrder' /\ MessagesFollow' /\ StampedWasHeard'
  BY <1>1, SameLog DEF IInv, StampedWasHeard
<1>5. DeliveredWasShown'
  BY <1>1 DEF IInv, DeliveredWasShown, cycleVars
<1> QED
  BY <1>1, <1>2, <1>3, <1>4, <1>5, SameCycle DEF IInv

LEMMA CycleFailsStep ==
  ASSUME IInv, CycleFails
  PROVE  IInv'
<1>1. /\ UNCHANGED <<clock, log, channel, muted>>
      /\ phase' = "idle" /\ fresh' = {} /\ delivered' = {}
      /\ decision' = [c \in Checks |-> Absent]
  BY DEF CycleFails, EndCycle
<1>2. TypeOK'
  BY <1>1 DEF IInv, TypeOK, Absent
<1>3. TimesPast'
  BY <1>1 DEF IInv, TimesPast
<1>4. StampsInOrder' /\ MessagesFollow' /\ StampedWasHeard'
  BY <1>1, SameLog DEF IInv, StampedWasHeard
<1>5. FreshUnstamped' /\ DecidedMayFollow' /\ DeliveredWasShown' /\ SilenceEnds'
  BY <1>1 DEF FreshUnstamped, DecidedMayFollow, DeliveredWasShown, SilenceEnds
<1>6. FlappingNeverDecided'
  BY <1>1 DEF FlappingNeverDecided, Absent
<1> QED
  BY <1>2, <1>3, <1>4, <1>5, <1>6 DEF IInv

LEMMA PublishStep ==
  ASSUME IInv, Publish
  PROVE  IInv'
<1>1. /\ UNCHANGED <<clock, log, fresh, decision, muted>>
      /\ phase = "decided" /\ phase' = "published"
  BY DEF Publish
<1>2. PICK shown \in Fitting :
        \/ channel' = Shown(shown) /\ delivered' = shown
        \/ channel' = Shown(shown) /\ delivered' = {}
        \/ channel' = channel /\ delivered' = {}
  BY DEF Publish
<1>3. shown \subseteq ToSend /\ ToSend \subseteq fresh /\ fresh \subseteq Checks
  BY DEF Fitting, ToSend, IInv, TypeOK
<1>4. \A c \in fresh : Len(log[c]) \in Nat \ {0}
  BY <1>3, RowsOf DEF IInv, FreshUnstamped
<1>5. /\ channel' \in [Checks -> SUBSET (Nat \ {0})]
      /\ \A c \in Checks : channel[c] \subseteq channel'[c]
      /\ \A c \in delivered' : Len(log[c]) \in channel'[c]
  <2>1. channel \in [Checks -> SUBSET (Nat \ {0})]
    BY DEF IInv, TypeOK
  <2>2. CASE channel' = Shown(shown)
    BY <1>2, <1>3, <1>4, <2>1, <2>2 DEF Shown
  <2>3. CASE channel' = channel /\ delivered' = {}
    BY <2>1, <2>3
  <2> QED
    BY <1>2, <2>2, <2>3
<1>6. delivered' \subseteq ToSend
  BY <1>2, <1>3
<1>7. TypeOK'
  BY <1>1, <1>3, <1>5, <1>6 DEF IInv, TypeOK
<1>8. TimesPast'
  BY <1>1 DEF IInv, TimesPast
<1>9. StampsInOrder' /\ MessagesFollow'
  BY <1>1, SameLog DEF IInv
<1>10. StampedWasHeard'
  BY <1>1, <1>5, SameLog DEF IInv, StampedWasHeard
<1>11. FreshUnstamped'
  BY <1>1, <1>3, SameLog DEF IInv, FreshUnstamped
<1>12. DecidedMayFollow'
  <2>1. \A c \in Checks : MayFollow(c)' = MayFollow(c)
    BY <1>1, SameLog DEF MayFollow, Follows
  <2> QED
    BY <1>1, <1>3, <2>1 DEF IInv, DecidedMayFollow
<1>13. DeliveredWasShown'
  BY <1>1, <1>5, <1>6 DEF DeliveredWasShown, ToSend
<1>14. FlappingNeverDecided' /\ SilenceEnds'
  BY <1>1 DEF IInv, FlappingNeverDecided, SilenceEnds
<1> QED
  BY <1>7, <1>8, <1>9, <1>10, <1>11, <1>12, <1>13, <1>14 DEF IInv
-----------------------------------------------------------------------------
(* The decision.                                                           *)

\* A verdict on a recovery: bucket and what it may answer.
LEMMA RecoverySound ==
  ASSUME TypeOK, TimesPast, StampsInOrder, NEW c \in Checks, Len(log[c]) > 0,
         Newest(c).status = "ok"
  PROVE  /\ Recovery(c) \in Reasons \cup {"recovered"}
         /\ Recovery(c) = "recovered" => MayFollow(c)
         /\ Silent(c) /\ Open(c) /\ Confirmed(c) => Recovery(c) = "recovered"
<1>1. Deliver(c, "recovered") \in {"recovered", "muted"}
  BY NeverFlapping
<1>2. Recovery(c) \in Reasons \cup {"recovered"}
  BY <1>1 DEF Recovery, Reasons
<1>3. ASSUME Recovery(c) = "recovered" PROVE MayFollow(c)
  <2>1. Open(c)
    BY <1>3 DEF Recovery
  <2>2. Stamped(c) # {}
    BY <2>1, LastAlertIsLatest DEF Open
  <2> QED
    BY <2>1, <2>2 DEF MayFollow, Open, Follows
<1>4. ASSUME Silent(c), Open(c), Confirmed(c) PROVE Recovery(c) = "recovered"
  BY <1>4, SilentIsDelivered DEF Recovery
<1> QED
  BY <1>2, <1>3, <1>4

\* A verdict on a problem: bucket and what it may follow.
LEMMA ProblemSound ==
  ASSUME TypeOK, TimesPast, StampsInOrder, NEW c \in Checks, Len(log[c]) > 0,
         Newest(c).status \in Statuses \ {"ok"}
  PROVE  /\ Problem(c) \in Reasons \cup {"announce", "lostSignal"}
         /\ Problem(c) \in {"announce", "lostSignal"} => MayFollow(c)
         /\ Silent(c) /\ (Newest(c).status # "no_data" \/ Open(c)) =>
              Problem(c) \in {"announce", "lostSignal"}
<1> DEFINE bucket == IF Newest(c).status = "no_data" THEN "lostSignal" ELSE "announce"
           worse  == /\ Open(c)
                     /\ Severity[Newest(c).status]
                          > Severity[log[c][LastAlert(c)].status]
<1>1. bucket \in {"announce", "lostSignal"}
  OBVIOUS
<1>2. CASE ~Open(c) /\ Newest(c).status = "no_data"
  <2>1. Problem(c) = "not_notifiable"
    BY <1>2 DEF Problem
  <2> QED
    BY <1>2, <2>1 DEF Reasons
<1>3. CASE ~Open(c) /\ Newest(c).status # "no_data"
  <2>1. Problem(c) = Deliver(c, "announce")
    BY <1>3 DEF Problem
  <2>2. Newest(c).status \in {"breached", "error"}
    BY <1>3 DEF Statuses
  <2>3. MayFollow(c)
    <3>1. CASE Stamped(c) = {}
      BY <2>2, <3>1 DEF MayFollow
    <3>2. CASE Stamped(c) # {}
      <4>1. LastAlert(c) # 0
        BY <3>2, LastAlertIsLatest
      <4>2. log[c][LastAlert(c)].status = "ok"
        BY <1>3, <4>1 DEF Open
      <4> QED
        BY <2>2, <3>2, <4>2 DEF MayFollow, Follows
    <3> QED
      BY <3>1, <3>2
  <2> QED
    BY <2>1, <2>3, NeverFlapping, SilentIsDelivered DEF Reasons
<1>4. ASSUME Open(c) PROVE Stamped(c) # {} /\ log[c][LastAlert(c)].status # "ok"
  BY <1>4, LastAlertIsLatest DEF Open
<1>5. CASE Open(c) /\ worse
  <2>1. Problem(c) = Deliver(c, bucket)
    BY <1>5 DEF Problem
  <2>2. MayFollow(c)
    BY <1>4, <1>5 DEF MayFollow, Follows
  <2> QED
    BY <1>1, <2>1, <2>2, NeverFlapping, SilentIsDelivered DEF Reasons
<1>6. CASE Open(c) /\ ~worse
  <2>1. Problem(c) = Repeat(c, bucket)
    BY <1>6 DEF Problem
  <2>2. CASE Silent(c)
    <3>1. Problem(c) = bucket
      BY <2>1, <2>2, SilentIsDelivered DEF Repeat
    <3>2. Newest(c).at >= log[c][LastAlert(c)].alerted + ReAlertAfter
      BY <1>6, <2>2 DEF Silent, Open
    <3>3. MayFollow(c)
      BY <1>4, <1>6, <3>2 DEF MayFollow, Follows
    <3> QED
      BY <1>1, <3>1, <3>3
  <2>3. CASE ~Silent(c)
    BY <2>1, <2>3 DEF Repeat, Reasons
  <2> QED
    BY <2>2, <2>3
<1> QED
  BY <1>2, <1>3, <1>5, <1>6

LEMMA DecideStep ==
  ASSUME IInv, Decide
  PROVE  IInv'
<1>1. /\ UNCHANGED <<clock, log, channel, fresh, delivered>>
      /\ phase = "recorded" /\ phase' = "decided"
      /\ decision' = [c \in Checks |-> IF c \in fresh THEN Verdict(c) ELSE Absent]
      /\ muted' = muted \cup { c \in fresh : decision'[c] = "muted" }
      /\ fresh \subseteq Checks
  BY DEF Decide, IInv, TypeOK
<1>2. ASSUME NEW c \in fresh
      PROVE  /\ Verdict(c) \in Reasons \cup {"announce", "lostSignal", "recovered"}
             /\ Verdict(c) \in {"announce", "lostSignal", "recovered"} => MayFollow(c)
             /\ Silent(c) /\ Due(c) =>
                  Verdict(c) \in {"announce", "lostSignal", "recovered"}
  <2>1. c \in Checks /\ Len(log[c]) > 0
    BY <1>1 DEF IInv, FreshUnstamped
  <2>2. Newest(c).status \in Statuses
    BY <2>1, RowsOf DEF IInv, Newest
  <2>3. CASE c \in BlindSpots /\ Newest(c).status = "no_data"
    BY <2>3 DEF Verdict, Reasons, Due
  <2>4. CASE Newest(c).status = "ok"
    BY <2>1, <2>4, RecoverySound DEF IInv, Verdict, Reasons, Due
  <2>5. CASE Newest(c).status # "ok" /\ ~(c \in BlindSpots /\ Newest(c).status = "no_data")
    <3>1. Verdict(c) = Problem(c)
      BY <2>5 DEF Verdict
    <3>2. Due(c) => Newest(c).status # "no_data" \/ Open(c)
      BY <2>5 DEF Due
    <3>3. /\ Problem(c) \in Reasons \cup {"announce", "lostSignal"}
          /\ Problem(c) \in {"announce", "lostSignal"} => MayFollow(c)
          /\ Silent(c) /\ (Newest(c).status # "no_data" \/ Open(c)) =>
               Problem(c) \in {"announce", "lostSignal"}
      BY <2>1, <2>2, <2>5, ProblemSound DEF IInv
    <3> QED
      BY <3>1, <3>2, <3>3 DEF Reasons
  <2> QED
    BY <2>3, <2>4, <2>5
<1>3. TypeOK'
  <2>1. decision' \in [Checks -> Buckets \cup Reasons \cup {Absent}]
    BY <1>1, <1>2 DEF Buckets
  <2> QED
    BY <1>1, <2>1 DEF IInv, TypeOK
<1>4. TimesPast'
  BY <1>1 DEF IInv, TimesPast
<1>5. StampsInOrder' /\ MessagesFollow' /\ StampedWasHeard'
  BY <1>1, SameLog DEF IInv, StampedWasHeard
<1>6. FreshUnstamped'
  BY <1>1, SameLog DEF IInv, FreshUnstamped
<1>7. FlappingNeverDecided'
  BY <1>1, <1>2 DEF FlappingNeverDecided, Reasons, Absent
<1>8. DecidedMayFollow'
  <2>1. \A c \in Checks : MayFollow(c)' = MayFollow(c)
    BY <1>1, SameLog DEF MayFollow, Follows
  <2> QED
    BY <1>1, <1>2, <2>1, <1>7 DEF DecidedMayFollow, FlappingNeverDecided, Buckets
<1>9. DeliveredWasShown'
  BY <1>1 DEF DeliveredWasShown
<1>10. SilenceEnds'
  <2>1. \A c \in Checks : Due(c)' = Due(c)
    BY <1>1, SameLog DEF Due
  <2> QED
    BY <1>1, <1>2, <2>1, SameLog DEF SilenceEnds
<1> QED
  BY <1>3, <1>4, <1>5, <1>6, <1>7, <1>8, <1>9, <1>10 DEF IInv
-----------------------------------------------------------------------------
(* The steps that write the table.                                         *)

\* What recording appends to a check's rows.
LEMMA RecordedRows ==
  ASSUME IInv, Record, NEW c \in Checks
  PROVE  /\ log'[c] \in Seq(Row)
         /\ DOMAIN log[c] \subseteq DOMAIN log'[c]
         /\ \A i \in DOMAIN log[c] : log'[c][i] = log[c][i]
         /\ \A i \in DOMAIN log'[c] \ DOMAIN log[c] :
              log'[c][i].at = clock /\ log'[c][i].alerted = Never
         /\ c \in fresh' => /\ Len(log'[c]) > 0
                            /\ log'[c][Len(log'[c])].alerted = Never
         /\ Stamped(c)' = Stamped(c)
         /\ \A i \in Stamped(c) : log'[c][i] = log[c][i]
<1>1. PICK obs \in [Checks -> Statuses \cup {Absent}] :
        /\ fresh' = { d \in Checks : obs[d] # Absent }
        /\ fresh' # {}
        /\ log' = [d \in Checks |->
                     IF obs[d] = Absent THEN log[d]
                     ELSE Append(log[d], [status |-> obs[d], at |-> clock,
                                          alerted |-> Never])]
  BY DEF Record
<1>2. clock \in Nat \ {0}
  BY DEF IInv, TypeOK
<1>3. /\ log'[c] \in Seq(Row)
      /\ DOMAIN log[c] \subseteq DOMAIN log'[c]
      /\ \A i \in DOMAIN log[c] : log'[c][i] = log[c][i]
      /\ \A i \in DOMAIN log'[c] \ DOMAIN log[c] :
           log'[c][i].at = clock /\ log'[c][i].alerted = Never
      /\ c \in fresh' => /\ Len(log'[c]) > 0
                         /\ log'[c][Len(log'[c])].alerted = Never
  <2>1. log[c] \in Seq(Row) /\ Len(log[c]) \in Nat /\ DOMAIN log[c] = 1..Len(log[c])
    BY RowsOf DEF IInv, TypeOK
  <2>2. CASE obs[c] = Absent
    BY <1>1, <2>1, <2>2
  <2>3. CASE obs[c] # Absent
    <3> DEFINE r == [status |-> obs[c], at |-> clock, alerted |-> Never]
    <3>1. r \in Row
      BY <1>2, <2>3 DEF Row, Never
    <3>2. log'[c] = Append(log[c], r)
      BY <1>1, <2>3
    <3>3. /\ Append(log[c], r) \in Seq(Row)
          /\ Len(Append(log[c], r)) = Len(log[c]) + 1
          /\ \A i \in 1..Len(log[c]) : Append(log[c], r)[i] = log[c][i]
          /\ Append(log[c], r)[Len(log[c]) + 1] = r
      BY <2>1, <3>1, AppendProperties
    <3>4. DOMAIN Append(log[c], r) = 1..(Len(log[c]) + 1)
      BY <3>3, LenProperties
    <3>5. r.at = clock /\ r.alerted = Never
      OBVIOUS
    <3> HIDE DEF r
    <3> QED
      BY <2>1, <3>2, <3>3, <3>4, <3>5
  <2> QED
    BY <2>2, <2>3
<1>4. /\ Stamped(c)' = Stamped(c)
      /\ \A i \in Stamped(c) : log'[c][i] = log[c][i]
  BY <1>3 DEF Stamped, StampedIn
<1> QED
  BY <1>3, <1>4

\* A new row changes nothing about the stamps.
LEMMA RecordStep ==
  ASSUME IInv, Record
  PROVE  IInv'
<1>1. PICK obs \in [Checks -> Statuses \cup {Absent}] :
        /\ fresh' = { c \in Checks : obs[c] # Absent }
        /\ fresh' # {}
        /\ log' = [c \in Checks |->
                     IF obs[c] = Absent THEN log[c]
                     ELSE Append(log[c], [status |-> obs[c], at |-> clock,
                                          alerted |-> Never])]
  BY DEF Record
<1>2. /\ phase = "idle" /\ phase' = "recorded" /\ fresh = {}
      /\ UNCHANGED <<clock, channel, decision, delivered, muted>>
      /\ clock \in Nat \ {0}
  BY DEF Record, IInv, TypeOK
<1>3. ASSUME NEW c \in Checks
      PROVE  /\ log'[c] \in Seq(Row)
             /\ DOMAIN log[c] \subseteq DOMAIN log'[c]
             /\ \A i \in DOMAIN log[c] : log'[c][i] = log[c][i]
             /\ \A i \in DOMAIN log'[c] \ DOMAIN log[c] :
                  log'[c][i].at = clock /\ log'[c][i].alerted = Never
             /\ c \in fresh' => /\ Len(log'[c]) > 0
                                /\ log'[c][Len(log'[c])].alerted = Never
  BY RecordedRows
<1>4. ASSUME NEW c \in Checks
      PROVE  /\ Stamped(c)' = Stamped(c)
             /\ \A i \in Stamped(c) : log'[c][i] = log[c][i]
  BY RecordedRows
<1>5. TypeOK'
  <2>1. log' \in [Checks -> Seq(Row)]
    BY <1>1, <1>3
  <2>2. fresh' \subseteq Checks /\ delivered' \subseteq fresh'
    BY <1>1, <1>2 DEF IInv, TypeOK
  <2> QED
    BY <1>1, <1>2, <2>1, <2>2 DEF IInv, TypeOK
<1>6. TimesPast'
  <2> SUFFICES ASSUME NEW c \in Checks, NEW i \in DOMAIN log'[c]
               PROVE  log'[c][i].at <= clock /\ log'[c][i].alerted <= clock
    BY <1>2 DEF TimesPast
  <2>1. CASE i \in DOMAIN log[c]
    BY <1>3, <2>1 DEF IInv, TimesPast
  <2>2. CASE i \notin DOMAIN log[c]
    BY <1>2, <1>3, <2>2 DEF Never
  <2> QED
    BY <2>1, <2>2
<1>7. StampsInOrder'
  BY <1>4 DEF IInv, StampsInOrder, InOrder, Latest
<1>8. FreshUnstamped'
  BY <1>1, <1>3 DEF FreshUnstamped, Newest
<1>9. DecidedMayFollow' /\ DeliveredWasShown' /\ SilenceEnds'
  BY <1>2 DEF DecidedMayFollow, DeliveredWasShown, SilenceEnds
<1>10. StampedWasHeard'
  BY <1>2, <1>4 DEF IInv, StampedWasHeard
<1>11. MessagesFollow'
  <2> SUFFICES ASSUME NEW c \in Checks PROVE Conversation(c)'
    BY DEF MessagesFollow
  <2>1. Conversation(c)
    BY DEF IInv, MessagesFollow
  <2> QED
    BY <1>4, <2>1 DEF Conversation, Follows
<1>12. FlappingNeverDecided'
  BY <1>2 DEF IInv, FlappingNeverDecided
<1> QED
  BY <1>5, <1>6, <1>7, <1>8, <1>9, <1>10, <1>11, <1>12 DEF IInv

\* What a stamp changes of a check's rows.
LEMMA MarkedRows ==
  ASSUME IInv, MarkAlerted, NEW c \in Checks, c \in delivered
  PROVE  /\ Len(log[c]) \in DOMAIN log[c]
         /\ Len(log[c]) \notin Stamped(c)
         /\ \A i \in Stamped(c) : i < Len(log[c])
         /\ log'[c] \in Seq(Row)
         /\ DOMAIN log'[c] = DOMAIN log[c]
         /\ \A i \in DOMAIN log[c] \ {Len(log[c])} : log'[c][i] = log[c][i]
         /\ log'[c][Len(log[c])] = [Newest(c) EXCEPT !.alerted = clock]
         /\ Newest(c) \in Row
         /\ Stamped(c)' = Stamped(c) \cup {Len(log[c])}
<1>1. /\ phase = "published" /\ phase' = "idle" /\ fresh' = {} /\ delivered' = {}
      /\ decision' = [d \in Checks |-> Absent]
      /\ muted' = muted \ delivered
      /\ UNCHANGED <<clock, channel>>
      /\ log' = [d \in Checks |->
                   IF d \in delivered
                     THEN [log[d] EXCEPT ![Len(log[d])].alerted = clock]
                     ELSE log[d]]
      /\ clock \in Nat \ {0} /\ delivered \subseteq fresh /\ fresh \subseteq Checks
  BY DEF MarkAlerted, EndCycle, IInv, TypeOK
<1>2. /\ Len(log[c]) \in DOMAIN log[c]
      /\ Len(log[c]) \notin Stamped(c)
      /\ \A i \in Stamped(c) : i < Len(log[c])
      /\ log'[c] \in Seq(Row)
      /\ DOMAIN log'[c] = DOMAIN log[c]
      /\ \A i \in DOMAIN log[c] \ {Len(log[c])} : log'[c][i] = log[c][i]
      /\ log'[c][Len(log[c])] = [Newest(c) EXCEPT !.alerted = clock]
      /\ Newest(c) \in Row
      /\ Stamped(c)' = Stamped(c) \cup {Len(log[c])}
  <2> DEFINE n == Len(log[c])
  <2>1. /\ log[c] \in Seq(Row) /\ n \in Nat \ {0} /\ DOMAIN log[c] = 1..n
        /\ log[c][n] \in Row /\ log[c][n].alerted = Never
    BY <1>1, RowsOf DEF IInv, TypeOK, FreshUnstamped, Newest
  <2>2. log'[c] = [log[c] EXCEPT ![n] = [log[c][n] EXCEPT !.alerted = clock]]
    BY <1>1
  <2>3. [log[c][n] EXCEPT !.alerted = clock] \in Row
    BY <1>1, <2>1 DEF Row
  <2>4. log'[c] \in Seq(Row)
    BY <2>1, <2>2, <2>3, ExceptSeq
  <2>5. /\ DOMAIN log'[c] = DOMAIN log[c]
        /\ \A i \in DOMAIN log[c] \ {n} : log'[c][i] = log[c][i]
        /\ log'[c][n] = [log[c][n] EXCEPT !.alerted = clock]
    BY <2>1, <2>2
  <2>6. log'[c][n].alerted # Never
    BY <1>1, <2>1, <2>5 DEF Row, Never
  <2>7. n \notin Stamped(c) /\ \A i \in Stamped(c) : i < n
    BY <2>1 DEF Stamped, StampedIn
  <2>8. Stamped(c)' = Stamped(c) \cup {n}
    <3>1. Stamped(c)' = { i \in DOMAIN log[c] : log'[c][i].alerted # Never }
      BY <2>5 DEF Stamped, StampedIn
    <3>2. Stamped(c) = { i \in DOMAIN log[c] : log[c][i].alerted # Never }
      BY DEF Stamped, StampedIn
    <3>3. n \in Stamped(c)'
      BY <2>1, <2>6, <3>1
    <3>4. \A i \in DOMAIN log[c] \ {n} : i \in Stamped(c)' <=> i \in Stamped(c)
      BY <2>5, <3>1, <3>2
    <3>5. Stamped(c)' \subseteq DOMAIN log[c] /\ Stamped(c) \subseteq DOMAIN log[c]
      BY <3>1, <3>2
    <3> HIDE DEF n
    <3> QED
      BY <3>3, <3>4, <3>5
  <2> QED
    BY <2>1, <2>4, <2>5, <2>7, <2>8 DEF Newest
<1> QED
  BY <1>2

\* The stamp goes on the newest row, so it is the newest stamp.
LEMMA MarkAlertedStep ==
  ASSUME IInv, MarkAlerted
  PROVE  IInv'
<1>1. /\ phase = "published" /\ phase' = "idle" /\ fresh' = {} /\ delivered' = {}
      /\ decision' = [c \in Checks |-> Absent]
      /\ muted' = muted \ delivered
      /\ UNCHANGED <<clock, channel>>
      /\ log' = [c \in Checks |->
                   IF c \in delivered
                     THEN [log[c] EXCEPT ![Len(log[c])].alerted = clock]
                     ELSE log[c]]
      /\ clock \in Nat \ {0} /\ delivered \subseteq fresh /\ fresh \subseteq Checks
  BY DEF MarkAlerted, EndCycle, IInv, TypeOK
<1>2. ASSUME NEW c \in Checks, c \in delivered
      PROVE  /\ Len(log[c]) \in DOMAIN log[c]
             /\ Len(log[c]) \notin Stamped(c)
             /\ \A i \in Stamped(c) : i < Len(log[c])
             /\ log'[c] \in Seq(Row)
             /\ DOMAIN log'[c] = DOMAIN log[c]
             /\ \A i \in DOMAIN log[c] \ {Len(log[c])} : log'[c][i] = log[c][i]
             /\ log'[c][Len(log[c])] = [Newest(c) EXCEPT !.alerted = clock]
             /\ Newest(c) \in Row
             /\ Stamped(c)' = Stamped(c) \cup {Len(log[c])}
  BY <1>2, MarkedRows
<1>3. ASSUME NEW c \in Checks, c \notin delivered
      PROVE  log'[c] = log[c] /\ Stamped(c)' = Stamped(c)
  BY <1>1, <1>3 DEF Stamped
<1>4. TypeOK'
  <2>1. \A c \in Checks : log'[c] \in Seq(Row)
    BY <1>2, <1>3 DEF IInv, TypeOK
  <2>2. log' \in [Checks -> Seq(Row)]
    BY <1>1, <2>1
  <2> QED
    BY <1>1, <2>2 DEF IInv, TypeOK, Absent
<1>5. TimesPast'
  <2> SUFFICES ASSUME NEW c \in Checks, NEW i \in DOMAIN log'[c]
               PROVE  log'[c][i].at <= clock /\ log'[c][i].alerted <= clock
    BY <1>1 DEF TimesPast
  <2>1. CASE c \in delivered /\ i = Len(log[c])
    <3>1. Newest(c).at <= clock
      BY <1>2, <2>1 DEF IInv, TimesPast, Newest
    <3>2. log'[c][i] = [Newest(c) EXCEPT !.alerted = clock] /\ Newest(c) \in Row
      BY <1>2, <2>1
    <3>3. log'[c][i].at = Newest(c).at /\ log'[c][i].alerted = clock
      BY <3>2 DEF Row
    <3> QED
      BY <1>1, <3>1, <3>3
  <2>2. CASE ~(c \in delivered /\ i = Len(log[c]))
    BY <1>2, <1>3, <2>2 DEF IInv, TimesPast
  <2> QED
    BY <2>1, <2>2
<1>6. StampsInOrder'
  <2> SUFFICES ASSUME NEW c \in Checks PROVE InOrder(c)'
    BY DEF StampsInOrder
  <2>1. CASE c \notin delivered
    BY <1>3, <2>1 DEF IInv, StampsInOrder, InOrder, Latest
  <2>2. CASE c \in delivered
    <3> DEFINE n == Len(log[c])
    <3>1. n \in Stamped(c)' /\ log'[c][n].alerted = clock
      <4>1. Stamped(c)' = Stamped(c) \cup {n}
        BY <1>2, <2>2
      <4>2. log'[c][n] = [Newest(c) EXCEPT !.alerted = clock] /\ Newest(c) \in Row
        BY <1>2, <2>2
      <4>3. log'[c][n].alerted = clock
        BY <4>2 DEF Row
      <4> QED
        BY <4>1, <4>3
    <3>2. ASSUME NEW j \in Stamped(c)'
          PROVE  j <= n /\ log'[c][j].alerted <= log'[c][n].alerted
      <4>1. j \in DOMAIN log'[c]
        BY DEF Stamped, StampedIn
      <4>2. log'[c][j].alerted <= clock
        BY <1>1, <1>5, <4>1 DEF TimesPast
      <4>3. j <= n
        <5>1. DOMAIN log'[c] = 1..n /\ n \in Nat
          BY <1>2, <2>2, RowsOf DEF IInv
        <5> QED
          BY <4>1, <5>1
      <4> QED
        BY <3>1, <4>2, <4>3
    <3> QED
      BY <3>1, <3>2 DEF InOrder, Latest
  <2> QED
    BY <2>1, <2>2
<1>7. FreshUnstamped' /\ DecidedMayFollow' /\ DeliveredWasShown' /\ SilenceEnds'
  BY <1>1 DEF FreshUnstamped, DecidedMayFollow, DeliveredWasShown, SilenceEnds
<1>8. StampedWasHeard'
  <2> SUFFICES ASSUME NEW c \in Checks PROVE Stamped(c)' \subseteq channel[c]
    BY <1>1 DEF StampedWasHeard
  <2>1. CASE c \in delivered
    <3>1. Stamped(c)' = Stamped(c) \cup {Len(log[c])}
      BY <1>2, <2>1
    <3>2. Stamped(c) \subseteq channel[c] /\ Len(log[c]) \in channel[c]
      BY <1>1, <2>1 DEF IInv, DeliveredWasShown, StampedWasHeard
    <3> QED
      BY <3>1, <3>2
  <2>2. CASE c \notin delivered
    BY <1>3, <2>2 DEF IInv, StampedWasHeard
  <2> QED
    BY <2>1, <2>2
<1>9. MessagesFollow'
  <2> SUFFICES ASSUME NEW c \in Checks PROVE Conversation(c)'
    BY DEF MessagesFollow
  <2>1. Conversation(c)
    BY DEF IInv, MessagesFollow
  <2>2. CASE c \notin delivered
    BY <1>3, <2>1, <2>2 DEF Conversation, Follows
  <2>3. CASE c \in delivered
    <3> DEFINE n == Len(log[c])
               new == log'[c]
               before(j) == { i \in Stamped(c)' : i < j }
    <3>1. SUFFICES ASSUME NEW j \in Stamped(c)'
                   PROVE  \/ before(j) = {} /\ new[j].status \in {"breached", "error"}
                          \/ \E i \in before(j) :
                               /\ \A k \in before(j) : k <= i
                               /\ Follows(new[i], new[j])
      BY DEF Conversation, Follows
    <3>2. /\ \A i \in Stamped(c) : i < n /\ new[i] = log[c][i]
          /\ \A i \in Stamped(c) : i \in Nat
          /\ n \in Nat
      BY <1>2, <2>3, RowsOf DEF IInv
    <3> HIDE DEF n
    <3>3. Stamped(c)' = Stamped(c) \cup {n}
      BY <1>2, <2>3 DEF n
    <3>4. CASE j = n
      <4>1. before(n) = Stamped(c)
        BY <3>2, <3>3
      <4>2. new[n].status = Newest(c).status /\ new[n].at = Newest(c).at
        <5>1. new[n] = [Newest(c) EXCEPT !.alerted = clock] /\ Newest(c) \in Row
          BY <1>2, <2>3 DEF n
        <5> HIDE DEF new
        <5> QED
          BY <5>1 DEF Row
      <4>3. MayFollow(c)
        BY <1>1, <2>3 DEF IInv, DecidedMayFollow, DeliveredWasShown
      <4>4. CASE Stamped(c) = {}
        BY <3>4, <4>1, <4>2, <4>3, <4>4 DEF MayFollow
      <4>5. CASE Stamped(c) # {}
        <5>1. Latest(c, LastAlert(c))
          BY <4>5, LastAlertIsLatest DEF IInv
        <5>2. new[LastAlert(c)] = log[c][LastAlert(c)]
          BY <3>2, <5>1 DEF Latest
        <5>3. Follows(log[c][LastAlert(c)], Newest(c))
          BY <4>3, <4>5 DEF MayFollow
        <5>4. Follows(new[LastAlert(c)], new[n])
          BY <4>2, <5>2, <5>3 DEF Follows
        <5> QED
          BY <3>4, <4>1, <5>1, <5>4 DEF Latest
      <4> QED
        BY <4>4, <4>5
    <3>5. CASE j # n
      <4>1. j \in Stamped(c)
        BY <3>5, <3>3
      <4>2. before(j) = { i \in Stamped(c) : i < j }
        BY <3>2, <3>3, <4>1
      <4> HIDE DEF before
      <4>3. \/ before(j) = {} /\ log[c][j].status \in {"breached", "error"}
            \/ \E i \in before(j) :
                 /\ \A k \in before(j) : k <= i
                 /\ Follows(log[c][i], log[c][j])
        BY <2>1, <4>1, <4>2 DEF Conversation
      <4>4. \A i \in before(j) : new[i] = log[c][i]
        BY <3>2, <4>2
      <4>5. new[j] = log[c][j]
        BY <3>2, <4>1
      <4> HIDE DEF new
      <4> QED
        BY <4>3, <4>4, <4>5
    <3> QED
      BY <3>4, <3>5
  <2> QED
    BY <2>2, <2>3
<1>10. FlappingNeverDecided'
  BY <1>1 DEF FlappingNeverDecided, Absent
<1> QED
  BY <1>4, <1>5, <1>6, <1>7, <1>8, <1>9, <1>10 DEF IInv

-----------------------------------------------------------------------------
(* The budget.  How much the messages of a window exceed the different      *)
(* statuses in them only falls as the window rolls.                         *)

Image(f, S) == {f[x] : x \in S}

\* A part of a set has no more repetitions than the whole.
LEMMA FewerRepetitions ==
  ASSUME NEW T, IsFiniteSet(T), NEW S \in SUBSET T, NEW f, T \subseteq DOMAIN f
  PROVE  /\ Cardinality(S) \in Nat /\ Cardinality(T) \in Nat
         /\ Cardinality(S) <= Cardinality(T)
         /\ Cardinality(Image(f, S)) \in Nat
         /\ Cardinality(Image(f, T)) \in Nat
         /\ Cardinality(S) + Cardinality(Image(f, T))
              <= Cardinality(T) + Cardinality(Image(f, S))
<1>1. ASSUME NEW U \in SUBSET T
      PROVE  /\ IsFiniteSet(U) /\ IsFiniteSet(Image(f, U))
             /\ Cardinality(U) \in Nat /\ Cardinality(Image(f, U)) \in Nat
             /\ Cardinality(U) <= Cardinality(T)
             /\ Cardinality(Image(f, U)) <= Cardinality(U)
  <2> DEFINE g == [x \in U |-> f[x]]
  <2>1. IsFiniteSet(U) /\ Cardinality(U) <= Cardinality(T)
    BY FS_Subset
  <2>2. g \in Surjection(U, Image(f, U))
    <3>1. g \in [U -> Image(f, U)]
      BY DEF Image
    <3>2. \A y \in Image(f, U) : \E x \in U : g[x] = y
      BY DEF Image
    <3> QED
      BY <3>1, <3>2 DEF Surjection
  <2>3. IsFiniteSet(Image(f, U)) /\ Cardinality(Image(f, U)) <= Cardinality(U)
    BY <2>1, <2>2, FS_Surjection
  <2> QED
    BY <2>1, <2>3, FS_CardinalityType
<1> DEFINE D == T \ S
<1>2. Cardinality(D) = Cardinality(T) - Cardinality(S)
  <2>1. T \cap S = S
    OBVIOUS
  <2> QED
    BY <2>1, FS_Difference
<1>3. Image(f, T) = Image(f, S) \cup Image(f, D)
  BY DEF Image
<1>4. Cardinality(Image(f, T)) <= Cardinality(Image(f, S)) + Cardinality(Image(f, D))
  <2>1. IsFiniteSet(Image(f, S)) /\ IsFiniteSet(Image(f, D))
    BY <1>1
  <2>2. Cardinality(Image(f, S) \cup Image(f, D))
          = Cardinality(Image(f, S)) + Cardinality(Image(f, D))
              - Cardinality(Image(f, S) \cap Image(f, D))
    BY <2>1, FS_Union
  <2>3. Cardinality(Image(f, S) \cap Image(f, D)) \in Nat
    BY <2>1, FS_Intersection, FS_CardinalityType
  <2>4. Cardinality(Image(f, S)) \in Nat /\ Cardinality(Image(f, D)) \in Nat
    BY <1>1
  <2> HIDE DEF D
  <2> QED
    BY <1>3, <2>2, <2>3, <2>4
<1>5. /\ Cardinality(S) \in Nat /\ Cardinality(T) \in Nat
      /\ Cardinality(S) <= Cardinality(T)
      /\ Cardinality(Image(f, S)) \in Nat /\ Cardinality(Image(f, T)) \in Nat
      /\ Cardinality(Image(f, D)) \in Nat /\ Cardinality(Image(f, D)) <= Cardinality(D)
  BY <1>1
<1>6. Cardinality(S) + Cardinality(Image(f, T)) <= Cardinality(T) + Cardinality(Image(f, S))
  <2> HIDE DEF D
  <2> QED
    BY <1>2, <1>4, <1>5
<1> QED
  BY <1>5, <1>6

\* RepetitionBounded, of one check.
HeardStatuses(c) == { log[c][i].status : i \in HeardInWindow(c) }

Bounded(c) ==
  \/ Cardinality(HeardInWindow(c)) < MaxAlertsPerWindow + Cardinality(HeardStatuses(c))
  \/ HeardInWindow(c) = {}

\* What is decided but not stamped yet is new to the window, or in the budget.
InBudget(c) == ~HeardThis(c) \/ Cardinality(HeardInWindow(c)) < MaxAlertsPerWindow

DecidedInBudget ==
  phase \in {"decided", "published"} =>
    \A c \in fresh : decision[c] \in Buckets => InBudget(c)

LEMMA HeardIsFinite ==
  ASSUME TypeOK, NEW c \in Checks
  PROVE  /\ HeardInWindow(c) \subseteq Stamped(c)
         /\ HeardInWindow(c) \subseteq DOMAIN log[c]
         /\ IsFiniteSet(HeardInWindow(c)) /\ Cardinality(HeardInWindow(c)) \in Nat
<1>1. HeardInWindow(c) \subseteq Stamped(c)
  BY DEF HeardInWindow
<1>2. PICK n \in Nat : DOMAIN log[c] = 1..n
  BY RowsOf
<1>3. HeardInWindow(c) \subseteq 1..n
  BY <1>1, <1>2, RowsOf
<1>4. IsFiniteSet(1..n)
  BY FS_Interval
<1>5. IsFiniteSet(HeardInWindow(c))
  BY <1>3, <1>4, FS_Subset
<1> QED
  BY <1>1, <1>2, <1>3, <1>5, FS_CardinalityType

\* A window that lost messages, and gained none, is bounded still.
LEMMA WindowRolls ==
  ASSUME TypeOK, NEW c \in Checks, Bounded(c),
         HeardInWindow(c)' \subseteq HeardInWindow(c),
         \A i \in HeardInWindow(c) : log'[c][i] = log[c][i]
  PROVE  /\ Bounded(c)'
         /\ Cardinality(HeardInWindow(c)') \in Nat
         /\ Cardinality(HeardInWindow(c)') <= Cardinality(HeardInWindow(c))
<1>1. MaxAlertsPerWindow \in Nat
  BY HealthAlertsAssumption
<1>2. PICK T : T = HeardInWindow(c)
  OBVIOUS
<1>3. PICK S : S = HeardInWindow(c)'
  OBVIOUS
<1>4. PICK f : f = [i \in DOMAIN log[c] |-> log[c][i].status]
  OBVIOUS
<1>5. IsFiniteSet(T) /\ S \in SUBSET T /\ T \subseteq DOMAIN f
  BY <1>2, <1>3, <1>4, HeardIsFinite
<1>6. HeardStatuses(c) = Image(f, T)
  BY <1>2, <1>4, HeardIsFinite DEF HeardStatuses, Image
<1>7. HeardStatuses(c)' = Image(f, S)
  <2>1. HeardStatuses(c)' = {log'[c][i].status : i \in S}
    BY <1>3 DEF HeardStatuses
  <2>2. \A i \in S : log'[c][i].status = f[i]
    BY <1>2, <1>4, <1>5
  <2> QED
    BY <2>1, <2>2 DEF Image
<1>8. /\ Cardinality(S) \in Nat /\ Cardinality(T) \in Nat
      /\ Cardinality(S) <= Cardinality(T)
      /\ Cardinality(Image(f, S)) \in Nat
      /\ Cardinality(Image(f, T)) \in Nat
      /\ Cardinality(S) + Cardinality(Image(f, T))
           <= Cardinality(T) + Cardinality(Image(f, S))
  BY <1>5, FewerRepetitions
<1>9. Bounded(c)'
  <2>1. CASE T = {}
    BY <1>2, <1>3, <1>5, <2>1 DEF Bounded
  <2>2. CASE T # {}
    <3>1. Cardinality(T) < MaxAlertsPerWindow + Cardinality(Image(f, T))
      BY <1>2, <1>6, <2>2 DEF Bounded
    <3>2. Cardinality(S) < MaxAlertsPerWindow + Cardinality(Image(f, S))
      BY <1>1, <1>8, <3>1
    <3> QED
      BY <1>3, <1>7, <3>2 DEF Bounded
  <2> QED
    BY <2>1, <2>2
<1> QED
  BY <1>2, <1>3, <1>8, <1>9

\* A decision to post is a decision of the budget.
LEMMA DecidedByBudget ==
  ASSUME IInv, NEW c \in fresh,
         Verdict(c) \in {"announce", "lostSignal", "recovered"}
  PROVE  InBudget(c)
<1>1. c \in Checks /\ MaxAlertsPerWindow \in Nat
  BY HealthAlertsAssumption DEF IInv, TypeOK
<1>2. Cardinality(HeardInWindow(c)) \in Nat
  BY <1>1, HeardIsFinite DEF IInv
<1>3. \/ Verdict(c) \in Reasons
      \/ \E bucket \in {"announce", "lostSignal", "recovered"} :
           Verdict(c) = Deliver(c, bucket)
  <2>1. Recovery(c) \in {"not_notifiable", "recovery_unconfirmed", Deliver(c, "recovered")}
    BY DEF Recovery
  <2>2. \/ Problem(c) \in {"not_notifiable", "grouped"}
        \/ \E bucket \in {"announce", "lostSignal"} : Problem(c) = Deliver(c, bucket)
    BY DEF Problem, Repeat
  <2> QED
    BY <2>1, <2>2 DEF Verdict, Reasons
<1>4. Verdict(c) \notin Reasons
  BY DEF Reasons
<1>5. PICK bucket \in {"announce", "lostSignal", "recovered"} :
        Verdict(c) = Deliver(c, bucket)
  BY <1>3, <1>4
<1>6. \/ ~HeardThis(c)
      \/ Cardinality(HeardInWindow(c))
           < (IF Newest(c).status = "ok" THEN MaxAlertsPerWindow - 1
                                         ELSE MaxAlertsPerWindow)
  BY <1>5 DEF Deliver, Mute
<1> QED
  BY <1>1, <1>2, <1>6 DEF InBudget

\* Steps that stamp nothing: the window only rolls.
LEMMA NothingStamped ==
  ASSUME IInv, RepetitionBounded, clock' \in Nat, clock <= clock',
         \A c \in Checks : /\ Stamped(c)' = Stamped(c)
                           /\ \A i \in Stamped(c) : log'[c][i] = log[c][i]
  PROVE  /\ RepetitionBounded'
         /\ \A c \in Checks :
              /\ HeardInWindow(c)' \subseteq HeardInWindow(c)
              /\ Newest(c)' = Newest(c) /\ InBudget(c) => InBudget(c)'
<1>1. TypeOK /\ clock \in Nat /\ ReAlertAfter \in Nat /\ MaxAlertsPerWindow \in Nat
  BY HealthAlertsAssumption DEF IInv, TypeOK
<1>2. ASSUME NEW c \in Checks
      PROVE  /\ HeardInWindow(c)' \subseteq HeardInWindow(c)
             /\ \A i \in HeardInWindow(c) : log'[c][i] = log[c][i]
  <2>1. \A i \in Stamped(c) : log[c][i].alerted \in Nat
    BY <1>1, RowsOf
  <2>2. HeardInWindow(c)'
          = { i \in Stamped(c) : log'[c][i].alerted + ReAlertAfter > clock' }
    BY DEF HeardInWindow
  <2>3. HeardInWindow(c) = { i \in Stamped(c) : log[c][i].alerted + ReAlertAfter > clock }
    BY DEF HeardInWindow
  <2>4. ASSUME NEW i \in Stamped(c), log'[c][i].alerted + ReAlertAfter > clock'
        PROVE  log[c][i].alerted + ReAlertAfter > clock
    <3>1. log'[c][i].alerted = log[c][i].alerted
      OBVIOUS
    <3> QED
      BY <1>1, <2>1, <2>4, <3>1
  <2> QED
    BY <2>2, <2>3, <2>4
<1>3. \A c \in Checks : Bounded(c)
  BY DEF RepetitionBounded, Bounded, HeardStatuses
<1>4. ASSUME NEW c \in Checks
      PROVE  /\ Bounded(c)'
             /\ Cardinality(HeardInWindow(c)') \in Nat
             /\ Cardinality(HeardInWindow(c)') <= Cardinality(HeardInWindow(c))
             /\ Cardinality(HeardInWindow(c)) \in Nat
  BY <1>1, <1>2, <1>3, WindowRolls, HeardIsFinite
<1>5. RepetitionBounded'
  BY <1>4 DEF RepetitionBounded, Bounded, HeardStatuses
<1>6. ASSUME NEW c \in Checks, Newest(c)' = Newest(c), InBudget(c)
      PROVE  InBudget(c)'
  <2>1. HeardThis(c)' => HeardThis(c)
    BY <1>2, <1>6 DEF HeardThis
  <2>2. Cardinality(HeardInWindow(c)) < MaxAlertsPerWindow =>
          Cardinality(HeardInWindow(c)') < MaxAlertsPerWindow
    BY <1>1, <1>4
  <2> QED
    BY <1>6, <2>1, <2>2 DEF InBudget
<1> QED
  BY <1>2, <1>5, <1>6

\* A stamp adds a status the window had not, or stays in the budget.
LEMMA StampInBudget ==
  ASSUME IInv, MarkAlerted, RepetitionBounded, DecidedInBudget,
         NEW c \in Checks, c \in delivered
  PROVE  Bounded(c)'
<1>1. TypeOK /\ c \in fresh /\ clock \in Nat
  BY DEF IInv, TypeOK
<1>2. ReAlertAfter \in Nat \ {0} /\ MaxAlertsPerWindow \in Nat \ {0}
  BY HealthAlertsAssumption
<1>3. InBudget(c)
  BY <1>1 DEF MarkAlerted, IInv, DeliveredWasShown, DecidedInBudget
<1>4. PICK n : n = Len(log[c])
  OBVIOUS
<1>5. PICK S : S = HeardInWindow(c)
  OBVIOUS
<1>6. PICK st : st = Newest(c).status
  OBVIOUS
<1>7. /\ n \in DOMAIN log[c] /\ n \notin Stamped(c)
      /\ \A i \in DOMAIN log[c] \ {n} : log'[c][i] = log[c][i]
      /\ log'[c][n] = [Newest(c) EXCEPT !.alerted = clock] /\ Newest(c) \in Row
      /\ Stamped(c)' = Stamped(c) \cup {n}
  BY <1>4, MarkedRows
<1>8. log'[c][n].alerted = clock /\ log'[c][n].status = st
  BY <1>6, <1>7 DEF Row
<1>9. S \subseteq Stamped(c) /\ IsFiniteSet(S) /\ Cardinality(S) \in Nat
      /\ Stamped(c) \subseteq DOMAIN log[c]
  BY <1>1, <1>5, HeardIsFinite, RowsOf
<1>10. HeardInWindow(c)' = S \cup {n}
  <2>1. clock' = clock
    BY DEF MarkAlerted
  <2>2. HeardInWindow(c)'
          = { i \in Stamped(c) \cup {n} : log'[c][i].alerted + ReAlertAfter > clock }
    BY <1>7, <2>1 DEF HeardInWindow
  <2>3. S = { i \in Stamped(c) : log[c][i].alerted + ReAlertAfter > clock }
    BY <1>5 DEF HeardInWindow
  <2>4. log'[c][n].alerted + ReAlertAfter > clock
    BY <1>1, <1>2, <1>8
  <2>5. \A i \in Stamped(c) : log'[c][i] = log[c][i]
    BY <1>7, <1>9
  <2> QED
    BY <2>2, <2>3, <2>4, <2>5
<1>11. PICK I : I = HeardStatuses(c)
  OBVIOUS
<1>12. HeardStatuses(c)' = I \cup {st}
  <2>1. HeardStatuses(c)' = { log'[c][i].status : i \in S \cup {n} }
    BY <1>10 DEF HeardStatuses
  <2>2. I = { log[c][i].status : i \in S }
    BY <1>5, <1>11 DEF HeardStatuses
  <2>3. \A i \in S : log'[c][i].status = log[c][i].status
    BY <1>7, <1>9
  <2> QED
    BY <1>8, <2>1, <2>2, <2>3
<1>13. IsFiniteSet(I) /\ Cardinality(I) \in Nat
  <2>1. PICK f : f = [i \in S |-> log[c][i].status]
    OBVIOUS
  <2>2. I = Image(f, S)
    BY <1>5, <1>11, <2>1 DEF HeardStatuses, Image
  <2>3. f \in Surjection(S, I)
    <3>1. f \in [S -> I]
      BY <2>1, <2>2 DEF Image
    <3>2. \A y \in I : \E x \in S : f[x] = y
      BY <2>2 DEF Image
    <3> QED
      BY <3>1, <3>2 DEF Surjection
  <2> QED
    BY <1>9, <2>3, FS_Surjection, FS_CardinalityType
<1>14. Cardinality(S \cup {n}) = Cardinality(S) + 1
  BY <1>7, <1>9, FS_AddElement
<1>15. Cardinality(I \cup {st}) = IF st \in I THEN Cardinality(I) ELSE Cardinality(I) + 1
  BY <1>13, FS_AddElement
<1>16. Cardinality(S \cup {n}) < MaxAlertsPerWindow + Cardinality(I \cup {st})
  <2>1. CASE st \in I
    <3>1. HeardThis(c)
      BY <1>6, <1>11, <2>1 DEF HeardThis, HeardStatuses
    <3>2. Cardinality(S) < MaxAlertsPerWindow
      BY <1>3, <1>5, <3>1 DEF InBudget
    <3>3. Cardinality(I) # 0
      BY <1>13, <2>1, FS_EmptySet
    <3> QED
      BY <1>2, <1>9, <1>13, <1>14, <1>15, <2>1, <3>2, <3>3
  <2>2. CASE st \notin I
    <3>1. Bounded(c)
      BY DEF RepetitionBounded, Bounded, HeardStatuses
    <3>2. Cardinality(S) < MaxAlertsPerWindow + Cardinality(I) \/ S = {}
      BY <1>5, <1>11, <3>1 DEF Bounded
    <3>3. S = {} => Cardinality(S) = 0
      BY FS_EmptySet
    <3> QED
      BY <1>2, <1>9, <1>13, <1>14, <1>15, <2>2, <3>2, <3>3
  <2> QED
    BY <2>1, <2>2
<1> QED
  BY <1>10, <1>12, <1>16 DEF Bounded

LEMMA BudgetStep ==
  ASSUME IInv, RepetitionBounded, DecidedInBudget, [Next]_vars
  PROVE  RepetitionBounded' /\ DecidedInBudget'
<1>1. TypeOK /\ clock \in Nat /\ fresh \subseteq Checks
  BY DEF IInv, TypeOK
<1>2. ASSUME log' = log, clock' \in Nat, clock <= clock'
      PROVE  /\ RepetitionBounded'
             /\ \A c \in Checks : InBudget(c) => InBudget(c)'
  <2>1. \A c \in Checks : Stamped(c)' = Stamped(c) /\ Newest(c)' = Newest(c)
    BY <1>2, SameLog
  <2> QED
    BY <1>2, <2>1, NothingStamped
<1>3. CASE Advance
  <2>1. log' = log /\ clock' \in Nat /\ clock <= clock'
        /\ phase' = phase /\ fresh' = fresh /\ decision' = decision
    BY <1>1, <1>3 DEF Advance, cycleVars
  <2> QED
    BY <1>1, <1>2, <2>1 DEF DecidedInBudget
<1>4. CASE Record
  <2>1. phase' = "recorded" /\ clock' = clock
    BY <1>4 DEF Record
  <2>2. \A c \in Checks : /\ Stamped(c)' = Stamped(c)
                          /\ \A i \in Stamped(c) : log'[c][i] = log[c][i]
    BY <1>4, RecordedRows
  <2>3. clock' \in Nat /\ clock <= clock'
    BY <1>1, <2>1
  <2>4. RepetitionBounded'
    BY <2>2, <2>3, NothingStamped
  <2> QED
    BY <2>1, <2>4 DEF DecidedInBudget
<1>5. CASE Decide
  <2>1. log' = log /\ clock' = clock /\ fresh' = fresh
    BY <1>5 DEF Decide
  <2>2. clock' \in Nat /\ clock <= clock'
    BY <1>1, <2>1
  <2>3. IInv'
    BY <1>5, DecideStep
  <2>4. ASSUME NEW c \in fresh, decision'[c] \in Buckets PROVE InBudget(c)'
    <3>1. decision'[c] = Verdict(c) /\ decision'[c] # "flapping"
      BY <1>1, <1>5, <2>3 DEF Decide, IInv, FlappingNeverDecided
    <3>2. InBudget(c)
      BY <2>4, <3>1, DecidedByBudget DEF Buckets
    <3> QED
      BY <1>1, <1>2, <2>1, <2>2, <3>2
  <2> QED
    BY <1>2, <2>1, <2>2, <2>4 DEF DecidedInBudget
<1>6. CASE Publish
  <2>1. /\ log' = log /\ clock' = clock /\ fresh' = fresh /\ decision' = decision
        /\ phase = "decided"
    BY <1>6 DEF Publish
  <2>2. clock' \in Nat /\ clock <= clock'
    BY <1>1, <2>1
  <2> QED
    BY <1>1, <1>2, <2>1, <2>2 DEF DecidedInBudget
<1>7. CASE MarkAlerted
  <2>1. phase' = "idle" /\ clock' = clock
    BY <1>7 DEF MarkAlerted, EndCycle
  <2>2. ASSUME NEW c \in Checks PROVE Bounded(c)'
    <3>1. CASE c \in delivered
      BY <1>7, <3>1, StampInBudget
    <3>2. CASE c \notin delivered
      <4>1. log'[c] = log[c]
        BY <1>7, <3>2 DEF MarkAlerted
      <4>2. HeardInWindow(c)' = HeardInWindow(c)
        BY <2>1, <4>1 DEF HeardInWindow, Stamped
      <4>3. Bounded(c)
        BY DEF RepetitionBounded, Bounded, HeardStatuses
      <4> QED
        BY <4>1, <4>2, <4>3 DEF Bounded, HeardStatuses
    <3> QED
      BY <3>1, <3>2
  <2>3. RepetitionBounded'
    BY <2>2 DEF RepetitionBounded, Bounded, HeardStatuses
  <2> QED
    BY <2>1, <2>3 DEF DecidedInBudget
<1>8. CASE CycleFails
  <2>1. log' = log /\ clock' = clock /\ phase' = "idle"
    BY <1>8 DEF CycleFails, EndCycle
  <2>2. clock' \in Nat /\ clock <= clock'
    BY <1>1, <2>1
  <2> QED
    BY <1>2, <2>1, <2>2 DEF DecidedInBudget
<1>9. CASE UNCHANGED vars
  <2>1. /\ log' = log /\ clock' = clock /\ phase' = phase /\ fresh' = fresh
        /\ decision' = decision
    BY <1>9 DEF vars, cycleVars
  <2>2. clock' \in Nat /\ clock <= clock'
    BY <1>1, <2>1
  <2> QED
    BY <1>1, <1>2, <2>1, <2>2 DEF DecidedInBudget
<1> QED
  BY <1>3, <1>4, <1>5, <1>6, <1>7, <1>8, <1>9 DEF Next, EmptyCycle

-----------------------------------------------------------------------------
(* The theorems.                                                           *)

\* The inductive invariant of the alert cycle (runner.cycle).
THEOREM Invariant == Spec => []IInv
<1>1. Init => IInv
  BY InitIInv
<1>2. IInv /\ [Next]_vars => IInv'
  <2> SUFFICES ASSUME IInv, [Next]_vars PROVE IInv'
    OBVIOUS
  <2>1. CASE Advance
    BY <2>1, AdvanceStep
  <2>2. CASE Record
    BY <2>2, RecordStep
  <2>3. CASE Decide
    BY <2>3, DecideStep
  <2>4. CASE Publish
    BY <2>4, PublishStep
  <2>5. CASE MarkAlerted
    BY <2>5, MarkAlertedStep
  <2>6. CASE CycleFails
    BY <2>6, CycleFailsStep
  <2>7. CASE UNCHANGED vars
    <3>1. /\ UNCHANGED <<clock, log, channel, muted>>
          /\ UNCHANGED cycleVars
      BY <2>7 DEF vars
    <3>2. /\ phase' = phase /\ fresh' = fresh /\ decision' = decision
          /\ delivered' = delivered
      BY <3>1 DEF cycleVars
    <3>3. TypeOK' /\ TimesPast' /\ DeliveredWasShown'
      BY <3>1, <3>2 DEF IInv, TypeOK, TimesPast, DeliveredWasShown
    <3>4. StampsInOrder' /\ MessagesFollow' /\ StampedWasHeard'
      BY <3>1, SameLog DEF IInv, StampedWasHeard
    <3> QED
      BY <3>1, <3>3, <3>4, SameCycle DEF IInv
  <2> QED
    BY <2>1, <2>2, <2>3, <2>4, <2>5, <2>6, <2>7 DEF Next, EmptyCycle
<1> QED
  BY <1>1, <1>2, PTL DEF Spec

\* Type correctness.
THEOREM TypeCorrect == Spec => []TypeOK
<1>1. IInv => TypeOK
  BY DEF IInv
<1> QED
  BY <1>1, Invariant, PTL

\* No row is stamped that the channel was not shown.
THEOREM StampsAreHeard == Spec => []StampedWasHeard
<1>1. IInv => StampedWasHeard
  BY DEF IInv
<1> QED
  BY <1>1, Invariant, PTL

\* What the channel hears of a check is a conversation, whatever the verdicts.
THEOREM ConversationsHold == Spec => []MessagesFollow
<1>1. IInv => MessagesFollow
  BY DEF IInv
<1> QED
  BY <1>1, Invariant, PTL

\* The budget never withholds what a silent check has to say.
THEOREM BudgetNeverStarves == Spec => []SilenceEnds
<1>1. IInv => SilenceEnds
  BY DEF IInv
<1> QED
  BY <1>1, Invariant, PTL

\* The notice of a muted check cannot be reached.
THEOREM FlappingUnreachable == Spec => []FlappingNeverDecided
<1>1. IInv => FlappingNeverDecided
  BY DEF IInv
<1> QED
  BY <1>1, Invariant, PTL

\* Within a window a check repeats itself less often than the budget allows,
\* however the window rolls between the decision and the stamp.
THEOREM RepetitionsBounded == Spec => []RepetitionBounded
<1>1. Init => RepetitionBounded /\ DecidedInBudget
  <2> SUFFICES ASSUME Init PROVE RepetitionBounded /\ DecidedInBudget
    OBVIOUS
  <2>1. \A c \in Checks : HeardInWindow(c) = {}
    BY DEF Init, HeardInWindow, Stamped, StampedIn
  <2> QED
    BY <2>1 DEF Init, RepetitionBounded, DecidedInBudget
<1>2. IInv /\ RepetitionBounded /\ DecidedInBudget /\ [Next]_vars
        => RepetitionBounded' /\ DecidedInBudget'
  BY BudgetStep
<1> QED
  BY <1>1, <1>2, Invariant, PTL DEF Spec
=============================================================================
