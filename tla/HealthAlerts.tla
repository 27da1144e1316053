---------------------------- MODULE HealthAlerts ----------------------------
(***************************************************************************)
(* The instrumentation's alerts: one cycle at a time runs the checks,      *)
(* stores a row per verdict (HealthCheckStore.record), decides from the    *)
(* stored rows what the Discord channel should hear (decideAlerts), posts  *)
(* one message (DiscordAlerter.publish) and stamps alerted_at on the rows  *)
(* the message carried (markAlerted).                                      *)
(*                                                                         *)
(* The cycle can end at any point with an exception the scheduler logs, or *)
(* with the process; Discord's answer can be lost after the message went   *)
(* out; and every timestamp is the database's.  A row's place in the       *)
(* sequence of its check stands for its id.                                *)
(***************************************************************************)
EXTENDS Naturals, Sequences, FiniteSets

CONSTANTS
  Checks,                \* check names
  BlindSpots,            \* ACCEPTED_BLIND_SPOTS
  ReAlertAfter,          \* reAlertAfterMs
  ConfirmRecoveryAfter,  \* HEALTH_ALERT_CONFIRM_RECOVERY
  MaxAlertsPerWindow,    \* HEALTH_ALERT_MAX_PER_WINDOW
  MaxTime,               \* bound: the clock
  MaxRows                \* bound: rows of one check

ASSUME HealthAlertsAssumption ==
  /\ BlindSpots \subseteq Checks
  /\ ReAlertAfter \in Nat \ {0}
  /\ ConfirmRecoveryAfter \in Nat \ {0}
  /\ MaxAlertsPerWindow \in Nat \ {0}
  /\ MaxTime \in Nat /\ MaxRows \in Nat

VARIABLES
  clock,      \* the database's now()
  log,        \* health_checks, by check and in id order
  channel,    \* rows of each check the Discord channel was shown
  phase,      \* the cycle: "idle", "recorded", "decided", "published"
  fresh,      \* checks with a row in this cycle
  decision,   \* what decideAlerts made of each fresh row
  delivered,  \* the checks publish returned
  muted       \* checks a row of which the budget withheld since their last
              \* stamp (history)

cycleVars == <<phase, fresh, decision, delivered>>
vars == <<clock, log, channel, cycleVars, muted>>

-----------------------------------------------------------------------------
Statuses == {"ok", "breached", "no_data", "error"}
Never    == 0                      \* alerted_at IS NULL
Row      == [status : Statuses, at : Nat, alerted : Nat]
Severity == [ok |-> 0, breached |-> 1, no_data |-> 2, error |-> 3]

\* The buckets of a decision; CutOrder is what the message loses first.
Buckets  == {"announce", "recovered", "lostSignal", "flapping"}
CutOrder == [announce |-> 3, lostSignal |-> 2, recovered |-> 1, flapping |-> 0]
Reasons  == {"accepted_blind_spot", "not_notifiable", "recovery_unconfirmed",
             "grouped", "muted"}   \* "muted": withheld by the budget
Absent   == "absent"               \* no row in this cycle

TypeOK ==
  /\ clock \in Nat \ {0}
  /\ log \in [Checks -> Seq(Row)]
  /\ channel \in [Checks -> SUBSET (Nat \ {0})]
  /\ phase \in {"idle", "recorded", "decided", "published"}
  /\ fresh \subseteq Checks
  /\ phase = "idle" <=> fresh = {}
  /\ decision \in [Checks -> Buckets \cup Reasons \cup {Absent}]
  /\ delivered \subseteq fresh
  /\ muted \subseteq Checks

Init ==
  /\ clock = 1
  /\ log = [c \in Checks |-> <<>>]
  /\ channel = [c \in Checks |-> {}]
  /\ phase = "idle" /\ fresh = {} /\ delivered = {}
  /\ decision = [c \in Checks |-> Absent]
  /\ muted = {}

Advance ==
  /\ clock < MaxTime
  /\ clock' = clock + 1
  /\ UNCHANGED <<log, channel, cycleVars, muted>>

-----------------------------------------------------------------------------
(* What the store answers about a check.                                   *)

Newest(c)  == log[c][Len(log[c])]
\* Of one check's rows, those stamped, and the one stamped last: the later
\* row at a tie, 0 when there is none.
StampedIn(rows) == { i \in DOMAIN rows : rows[i].alerted # Never }
LastIn(rows) ==
  IF StampedIn(rows) = {} THEN 0
  ELSE CHOOSE i \in StampedIn(rows) :
         \A j \in StampedIn(rows) :
           \/ rows[j].alerted < rows[i].alerted
           \/ rows[j].alerted = rows[i].alerted /\ j <= i

Stamped(c)   == StampedIn(log[c])
LastAlert(c) == LastIn(log[c])

\* alertsInWindow: the rows stamped after now() - reAlertAfterMs.
HeardInWindow(c) ==
  { i \in Stamped(c) : log[c][i].alerted + ReAlertAfter > clock }

\* healthyStreak over the newest ConfirmRecoveryAfter rows reaches its bound.
Confirmed(c) ==
  /\ Len(log[c]) >= ConfirmRecoveryAfter
  /\ \A i \in DOMAIN log[c] :
       i + ConfirmRecoveryAfter > Len(log[c]) => log[c][i].status = "ok"

-----------------------------------------------------------------------------
(* decideAlerts, for the newest row of check c.                            *)

\* Faulty variant: open means the previous row was a problem.
OpenByPreviousRow(c) ==
  /\ Len(log[c]) > 1
  /\ log[c][Len(log[c]) - 1].status # "ok"
  /\ LastAlert(c) # 0

\* The channel is holding an unresolved problem about c.
Open(c) == LastAlert(c) # 0 /\ log[c][LastAlert(c)].status # "ok"

\* The row is at least a window younger than the last message.
Silent(c) ==
  \/ LastAlert(c) = 0
  \/ Newest(c).at >= log[c][LastAlert(c)].alerted + ReAlertAfter

HeardThis(c) ==
  \E i \in HeardInWindow(c) : log[c][i].status = Newest(c).status

\* Withheld by the budget, with a notice when the check was silent so long.
Mute(c) ==
  IF Silent(c) /\ Newest(c).status # "ok" THEN "flapping" ELSE "muted"

\* Faulty variant: the budget gates a status the channel has not heard.
DeliverWithoutFreePass(c, bucket) ==
  IF Cardinality(HeardInWindow(c))
       < (IF Newest(c).status = "ok" THEN MaxAlertsPerWindow - 1
                                     ELSE MaxAlertsPerWindow)
    THEN bucket ELSE Mute(c)

\* Faulty variant: no budget.
DeliverUngated(c, bucket) == bucket

\* A status not heard in this window always goes out; a repetition does while
\* the budget lasts, one slot less for an all-clear.
Deliver(c, bucket) ==
  IF \/ ~HeardThis(c)
     \/ Cardinality(HeardInWindow(c))
          < (IF Newest(c).status = "ok" THEN MaxAlertsPerWindow - 1
                                        ELSE MaxAlertsPerWindow)
    THEN bucket ELSE Mute(c)

\* The same problem, or a lesser one, waits for the window to roll.
Repeat(c, bucket) == IF Silent(c) THEN Deliver(c, bucket) ELSE "grouped"

Recovery(c) ==
  CASE ~Open(c) -> "not_notifiable"
    [] Open(c) /\ Confirmed(c) -> Deliver(c, "recovered")
    [] Open(c) /\ ~Confirmed(c) -> "recovery_unconfirmed"

Problem(c) ==
  LET bucket == IF Newest(c).status = "no_data" THEN "lostSignal" ELSE "announce"
      worse  == /\ Open(c)
                /\ Severity[Newest(c).status] > Severity[log[c][LastAlert(c)].status]
  IN  CASE ~Open(c) /\ Newest(c).status = "no_data" -> "not_notifiable"
        [] ~Open(c) /\ Newest(c).status # "no_data" -> Deliver(c, "announce")
        [] Open(c) /\ worse -> Deliver(c, bucket)
        [] Open(c) /\ ~worse -> Repeat(c, bucket)

Verdict(c) ==
  IF c \in BlindSpots /\ Newest(c).status = "no_data" THEN "accepted_blind_spot"
  ELSE IF Newest(c).status = "ok" THEN Recovery(c) ELSE Problem(c)

-----------------------------------------------------------------------------
(* The cycle.                                                              *)

\* A check may yield no observation; with none at all the cycle ends, as it
\* does at once when another one is still running.
EmptyCycle == UNCHANGED vars

Record ==
  /\ phase = "idle"
  /\ \E obs \in [Checks -> Statuses \cup {Absent}] :
       /\ fresh' = { c \in Checks : obs[c] # Absent }
       /\ fresh' # {}
       /\ \A c \in fresh' : Len(log[c]) < MaxRows
       /\ log' = [c \in Checks |->
                    IF obs[c] = Absent THEN log[c]
                    ELSE Append(log[c], [status |-> obs[c], at |-> clock,
                                         alerted |-> Never])]
  /\ phase' = "recorded"
  /\ UNCHANGED <<clock, channel, decision, delivered, muted>>

\* The reads and the decision: nothing else writes the table meanwhile, and
\* only alertsInWindow looks at the clock.
Decide ==
  /\ phase = "recorded"
  /\ phase' = "decided"
  /\ decision' = [c \in Checks |-> IF c \in fresh THEN Verdict(c) ELSE Absent]
  /\ muted' = muted \cup { c \in fresh : decision'[c] = "muted" }
  /\ UNCHANGED <<clock, log, channel, fresh, delivered>>

ToSend == { c \in fresh : decision[c] \in Buckets }

\* What fits the message's character budget: fields are cut from the bucket
\* with the lowest cutOrder that has any left.
Fitting ==
  { shown \in SUBSET ToSend :
      \A c \in shown, d \in ToSend :
        CutOrder[decision[d]] > CutOrder[decision[c]] => d \in shown }

Shown(heard) ==
  [c \in Checks |-> IF c \in heard THEN channel[c] \cup {Len(log[c])}
                                   ELSE channel[c]]

\* publish: posted and confirmed; posted, the answer lost; or not posted (no
\* webhook, refused, unreachable).  Only the first returns what was shown.
Publish ==
  /\ phase = "decided"
  /\ phase' = "published"
  /\ \E shown \in Fitting :
       \/ channel' = Shown(shown) /\ delivered' = shown
       \/ channel' = Shown(shown) /\ delivered' = {}
       \/ channel' = channel /\ delivered' = {}
  /\ UNCHANGED <<clock, log, fresh, decision, muted>>

\* Faulty variant: the cycle's rows are not dropped.
EndCycleKeepsRows ==
  /\ phase' = "idle" /\ delivered' = {}
  /\ decision' = [c \in Checks |-> Absent]
  /\ UNCHANGED fresh

EndCycle ==
  /\ phase' = "idle" /\ fresh' = {} /\ delivered' = {}
  /\ decision' = [c \in Checks |-> Absent]

\* Faulty variant: stamps the decided rows, not the delivered ones.
MarkFresh ==
  /\ phase = "published"
  /\ log' = [c \in Checks |->
               IF c \in fresh
                 THEN [log[c] EXCEPT ![Len(log[c])].alerted = clock]
                 ELSE log[c]]
  /\ muted' = muted \ delivered
  /\ EndCycle
  /\ UNCHANGED <<clock, channel>>

\* markAlerted stamps the delivered rows with now().
MarkAlerted ==
  /\ phase = "published"
  /\ log' = [c \in Checks |->
               IF c \in delivered
                 THEN [log[c] EXCEPT ![Len(log[c])].alerted = clock]
                 ELSE log[c]]
  /\ muted' = muted \ delivered
  /\ EndCycle
  /\ UNCHANGED <<clock, channel>>

\* A query fails (tick catches it), or the process restarts.
CycleFails ==
  /\ phase # "idle"
  /\ EndCycle
  /\ UNCHANGED <<clock, log, channel, muted>>

Next ==
  Advance \/ EmptyCycle \/ Record \/ Decide \/ Publish \/ MarkAlerted \/ CycleFails

Spec == Init /\ [][Next]_vars
-----------------------------------------------------------------------------
(* Safety.                                                                 *)

\* A stamped row was shown to the channel: a check is never taken for
\* announced without anyone having seen it (DiscordAlerter.publish, "the bug
\* behind the 25-field cap").
StampedWasHeard == \A c \in Checks : Stamped(c) \subseteq channel[c]

\* May a message with row n follow, on the same check, one with row m?  A
\* problem or its all-clear at once, the same or a lesser problem only after
\* a window.
Follows(m, n) ==
  \/ m.status = "ok" /\ n.status \in {"breached", "error"}
  \/ m.status # "ok" /\ n.status = "ok"
  \/ m.status # "ok" /\ Severity[n.status] > Severity[m.status]
  \/ m.status # "ok" /\ n.status # "ok" /\ n.at >= m.alerted + ReAlertAfter

\* The channel's history of every check is a conversation: it opens with a
\* breach or an error, an all-clear always answers a problem, and one problem
\* is not repeated within a window however the verdicts flapped in between
\* (decideAlerts, "The state that matters is the channel's").
Conversation(c) ==
  \A j \in Stamped(c) :
    LET before == { i \in Stamped(c) : i < j }
    IN  \/ before = {} /\ log[c][j].status \in {"breached", "error"}
        \/ \E i \in before :
             /\ \A k \in before : k <= i
             /\ Follows(log[c][i], log[c][j])

MessagesFollow == \A c \in Checks : Conversation(c)

\* The budget never starves a check that was quiet for a window: its next
\* failure, lost signal or confirmed recovery goes out (AlertPolicyInput,
\* maxAlertsPerWindow, "What it must never gate").
Due(c) ==
  \/ Newest(c).status \in {"breached", "error"}
  \/ Newest(c).status = "no_data" /\ Open(c) /\ c \notin BlindSpots
  \/ Newest(c).status = "ok" /\ Open(c) /\ Confirmed(c)

SilenceEnds ==
  phase = "decided" =>
    \A c \in fresh : Silent(c) /\ Due(c) =>
      decision[c] \in {"announce", "lostSignal", "recovered"}

\* What the notice of a muted check comes to: no cycle ever puts a check in
\* the flapping bucket, because a check silent for a window has an empty
\* window (decideAlerts, mute).
FlappingNeverDecided == \A c \in Checks : decision[c] # "flapping"

\* Within a window a check repeats itself less than MaxAlertsPerWindow times;
\* what exceeds that are statuses the channel had not heard.
RepetitionBounded ==
  \A c \in Checks :
    Cardinality(HeardInWindow(c))
      < MaxAlertsPerWindow
        + Cardinality({ log[c][i].status : i \in HeardInWindow(c) })
      \/ HeardInWindow(c) = {}

\* A check muted for a whole window gets its notice with the next problem
\* (env.validation, HEALTH_ALERT_MAX_PER_WINDOW; decideAlerts, "put in the
\* flapping bucket").
NoticeAfterMutedWindow ==
  phase = "decided" =>
    \A c \in fresh \cap muted :
      Silent(c) /\ Newest(c).status # "ok" => decision[c] = "flapping"
=============================================================================
