----------------------------- MODULE WeeklyReport ------------------------------
(***************************************************************************)
(* The weekly report (WeeklyReportService): built of the funnel, of the    *)
(* retention table and of the health summary, stored as a row, and posted  *)
(* to a Discord channel; whatever fails, the channel is told.              *)
(*                                                                         *)
(* The cron and a route may run it at once, nothing keeps them apart.      *)
(* While a report is built players arrive and the tutorial is copied; the  *)
(* table and Discord fail, and the process dies, at any step.  Retention   *)
(* and the health summary are whole sections here: Retention and           *)
(* HealthChecks model how they are made.  A message is a sequence of       *)
(* lines, and a line stands for its text.                                  *)
(***************************************************************************)
EXTENDS Funnel

CONSTANTS
  WindowDays,         \* WINDOW_DAYS
  RetentionSections,  \* [ok, cohorts, blanked]: tables Retention may give
  HealthSections,     \* states of the health summary
  MaxCohortLines,     \* MAX_COHORT_LINES
  MaxLines,           \* DESCRIPTION_LIMIT, in lines
  Plans,              \* what Plan may be: [configured, since, retention]
  MaxRuns,            \* bound: runs
  LastInstant,        \* bound: the clock
  MaxSyncs            \* bound: copies of the tutorial

\* What the proofs need of the constants.
Settings ==
  /\ MaxRuns \in Nat /\ MaxLines \in Nat \ {0} /\ MaxCohortLines \in Nat
  /\ DaysPerMonth \in Nat \ {0} /\ MaxWindow \in Nat /\ WindowDays \in 1..MaxWindow
  /\ LastInstant \in Nat /\ 2 * WindowDays < LastInstant
  /\ \A p \in Plans : p.retention.cohorts \in Nat /\ p.since \in Nat
  /\ IsFiniteSet(Newcomers) /\ Newcomers \subseteq Newcomer
  /\ \A p, q \in Newcomers : p.who = q.who => p = q
  /\ \A p \in Newcomers : \A step \in {p.entered, p.completed} : step = Never \/ p.at <= step

-----------------------------------------------------------------------------
(* weekly-report.types.ts                                                  *)

Window == [from : Nat, to : Nat]

StepCoverage == [days : Nat, ofDays : Nat]

FunnelSection ==
  [ bucket : Bucket, coverage : [1..4 -> StepCoverage],
    survival : FunnelSourceState, tutorial : FunnelSourceState ]

RetentionSection == [ok : BOOLEAN, cohorts : Nat, blanked : Nat]

Report ==
  [ window : Window, funnel : FunnelSection, retention : RetentionSections,
    health : HealthSections ]

-----------------------------------------------------------------------------
(* WeeklyReportBuilder                                                     *)

WindowOf(to) == [from |-> to - (WindowDays - 1), to |-> to]

CountsOf(bucket, i) == bucket.counts[i]

\* partialReason: the first day that says why speaks for the week.
PartialReason(step, daily, days) ==
  LET told == {d \in DOMAIN daily : CountsOf(daily[d], step).reason \notin {"none", "fallback"}}
  IN  IF days > 0 THEN "partial"
      ELSE IF told = {} THEN "no_day"
      ELSE CountsOf(daily[Min(told)], step).reason

Covered(step, daily) == {d \in DOMAIN daily : CountsOf(daily[d], step).value # Null}

Sum(v) == MapThenSumSet(LAMBDA d : v[d], DOMAIN v)

SumOver(step, daily, days) == Sum([d \in days |-> CountsOf(daily[d], step).value])

\* rollUp: a week is summed when every day of it has a number.
Total(step, daily) ==
  Step(IF Covered(step, daily) = DOMAIN daily /\ DOMAIN daily # {}
       THEN SumOver(step, daily, DOMAIN daily) ELSE Null,
       PartialReason(step, daily, Cardinality(Covered(step, daily))))

FunnelSectionOf(survival, tutorial) ==
  LET daily == Buckets(survival, tutorial)
  IN  [ bucket |-> BuildBucket(Total(2, daily), Total(3, daily), Total(4, daily)),
        coverage |-> [ i \in 1..4 |-> [ days |-> Cardinality(Covered(i, daily)),
                                        ofDays |-> Cardinality(DOMAIN daily) ] ],
        survival |-> survival.state, tutorial |-> tutorial.state ]

-----------------------------------------------------------------------------
(* weekly-report.renderer.ts                                               *)

\* Faulty variant: the line that says so comes on top of the limit.
ClampPastLimit(lines) ==
  IF Len(lines) <= MaxLines THEN lines
  ELSE Append(SubSeq(lines, 1, MaxLines), [line |-> "cut"])

\* clamp: what does not fit goes, and the last line says so.
Clamp(lines) ==
  IF Len(lines) <= MaxLines THEN lines
  ELSE Append(SubSeq(lines, 1, MaxLines - 1), [line |-> "cut"])

FunnelLines(funnel) ==
  LET broken == {s \in {funnel.survival, funnel.tutorial} : ~s.ok}
  IN  [ i \in 1..4 |-> [ line |-> "count", of |-> funnel.bucket.counts[i],
                         coverage |-> funnel.coverage[i] ] ]
        \o [i \in 1..3 |-> [line |-> "conversion", of |-> funnel.bucket.conversions[i]]]
        \o (IF broken = {} THEN <<>>
            ELSE <<[line |-> "sources out", failures |-> {s.failure : s \in broken}]>>)

\* A source that failed is not a table in which nobody stayed.
RetentionLines(retention) ==
  LET shown == Min({retention.cohorts, MaxCohortLines})
  IN  IF ~retention.ok THEN <<[line |-> "no table"]>>
      ELSE IF retention.cohorts = 0 THEN <<[line |-> "no cohort"]>>
      ELSE [i \in 1..shown |-> [line |-> "cohort", of |-> i]]
             \o (IF shown = retention.cohorts THEN <<>>
                 ELSE <<[line |-> "more", of |-> retention.cohorts - shown]>>)
             \o (IF retention.blanked = 0 THEN <<>>
                 ELSE <<[line |-> "blanked", of |-> retention.blanked]>>)

HealthLines(health) == <<[line |-> "health", status |-> health]>>

RenderWeeklyReport(report) ==
  Clamp(<<[line |-> "week", window |-> report.window]>> \o FunnelLines(report.funnel)
          \o RetentionLines(report.retention) \o HealthLines(report.health))

RenderFailure(window) == Clamp(<<[line |-> "not made", window |-> window]>>)

-----------------------------------------------------------------------------
VARIABLES
  now,       \* the clock, an instant
  plan,      \* Plan: whether it is configured, since when it collects, its retention
  synced,    \* when the tutorial was last copied
  syncs,     \* how often
  runs,      \* the runs of the report
  reports,   \* weekly_reports, in id order
  channel    \* the messages in the channel, and which run posted them

weeklyVars == <<now, plan, synced, syncs, runs, reports, channel>>

\* plan_users: who came while Plan was collecting.
PlanUsers == {p \in Newcomers : plan.since <= p.at /\ p.at <= now}

\* tutorial_daily, as the last copy left it: the players it counts.
Before(instant) == IF instant <= synced THEN instant ELSE Never
TutorialDaily ==
  { [ who |-> p.who, platform |-> p.platform, entered |-> Before(p.entered),
      completed |-> Before(p.completed) ] : p \in {p \in Newcomers : p.at <= synced} }

Status == {"ok", "error"}

NoReport == [window |-> [from |-> 0, to |-> 0]]
Stored ==
  [window : Window, status : Status, payload : Report \cup {NoReport}, delivered : BOOLEAN]

Unread == [state |-> [ok |-> FALSE, failure |-> "unread"]]

NotStarted == [pc |-> "idle"]
NoRow == 0

\* Runs are numbered as they begin.
Runs == 1..MaxRuns

Init ==
  /\ now = 2 * WindowDays + 1
  /\ plan \in Plans
  /\ synced = Never /\ syncs = 0
  /\ runs = [r \in Runs |-> NotStarted]
  /\ reports = <<>>
  /\ channel = {}

Go(r, to) == runs' = [runs EXCEPT ![r] = to]
At(r, pc) == runs[r].pc = pc

\* lastCompleteDay: the cron, or somebody who asks for a report now.
Start(r) ==
  /\ At(r, "idle") /\ \A q \in 1..(r - 1) : ~At(q, "idle")
  /\ Go(r, [ pc |-> "building", to |-> DayOf(now) - 1, survival |-> Unread,
             provenance |-> Null, tutorial |-> Unread ])
  /\ UNCHANGED <<now, plan, synced, syncs, reports, channel>>

\* The funnel's two sources are read at once, so one of them may be first.
ReadSurvival(r, answer) ==
  /\ At(r, "building") /\ runs[r].survival = Unread
  /\ answer = "not_configured" <=> ~plan.configured
  /\ LET w == WindowOf(runs[r].to)
     IN  Go(r, [runs[r] EXCEPT !.survival =
                  Survival(PlanUsers, answer, now, "daily", w.from, w.to, "all")])
  /\ UNCHANGED <<now, plan, synced, syncs, reports, channel>>

\* Of the tutorial, when it was copied comes first, and then the rows; a run
\* that has read the first and not the second has a provenance.
ReadProvenance(r) ==
  /\ At(r, "building") /\ runs[r].tutorial = Unread /\ runs[r].provenance = Null
  /\ synced # Never
  /\ Go(r, [runs[r] EXCEPT !.provenance = synced])
  /\ UNCHANGED <<now, plan, synced, syncs, reports, channel>>

\* The copy was never made, or one of the two queries fails.
TutorialMissing(r, answer) ==
  /\ At(r, "building") /\ runs[r].tutorial = Unread
  /\ answer = "ok" => synced = Never /\ runs[r].provenance = Null
  /\ LET w == WindowOf(runs[r].to)
     IN  Go(r, [runs[r] EXCEPT !.tutorial =
                  Tutorial({}, Never, answer, "daily", w.from, w.to, "all")])
  /\ UNCHANGED <<now, plan, synced, syncs, reports, channel>>

ReadTutorial(r) ==
  /\ At(r, "building") /\ runs[r].tutorial = Unread /\ runs[r].provenance # Null
  /\ LET w == WindowOf(runs[r].to)
     IN  Go(r, [runs[r] EXCEPT !.tutorial =
                  Tutorial(TutorialDaily, runs[r].provenance, "ok", "daily", w.from, w.to, "all")])
  /\ UNCHANGED <<now, plan, synced, syncs, reports, channel>>

\* The report is built and rendered; or a section throws, and the run goes on
\* with a notice of it.
Build(r, health) ==
  /\ At(r, "building")
  /\ Unread \notin {runs[r].survival, runs[r].tutorial}
  /\ LET report == [ window |-> WindowOf(runs[r].to),
                     funnel |-> FunnelSectionOf(runs[r].survival, runs[r].tutorial),
                     retention |-> plan.retention, health |-> health ]
     IN  Go(r, [ pc |-> "built", status |-> "ok", window |-> report.window, payload |-> report,
                 rendered |-> RenderWeeklyReport(report) ])
  /\ UNCHANGED <<now, plan, synced, syncs, reports, channel>>

BuildFails(r) ==
  /\ At(r, "building")
  /\ LET w == WindowOf(runs[r].to)
     IN  Go(r, [ pc |-> "built", status |-> "error", window |-> w, payload |-> NoReport,
                 rendered |-> RenderFailure(w) ])
  /\ UNCHANGED <<now, plan, synced, syncs, reports, channel>>

\* recordSuccess, recordFailure: one row, not delivered yet.
Persist(r) ==
  /\ At(r, "built")
  /\ reports' = Append(reports,
       [ window |-> runs[r].window, status |-> runs[r].status, payload |-> runs[r].payload,
         rendered |-> runs[r].rendered, delivered |-> FALSE ])
  /\ Go(r, [ pc |-> "persisted", status |-> runs[r].status, rendered |-> runs[r].rendered,
             row |-> Len(reports) + 1 ])
  /\ UNCHANGED <<now, plan, synced, syncs, channel>>

\* The table cannot be written: the run goes on without a row.
PersistFails(r) ==
  /\ At(r, "built")
  /\ Go(r, [ pc |-> "persisted", status |-> runs[r].status, rendered |-> runs[r].rendered,
             row |-> NoRow ])
  /\ UNCHANGED <<now, plan, synced, syncs, reports, channel>>

\* post: the message, of the colour of its status.
Message(r) == [by |-> r, status |-> runs[r].status, body |-> Clamp(runs[r].rendered)]

Posted(r, told) ==
  Go(r, [pc |-> "posted", status |-> runs[r].status, row |-> runs[r].row, delivered |-> told])

\* Discord has the message, and the answer may be lost or too late.
Publish(r, answered) ==
  /\ At(r, "persisted")
  /\ channel' = channel \cup {Message(r)}
  /\ Posted(r, answered)
  /\ UNCHANGED <<now, plan, synced, syncs, reports>>

\* No webhook, a refusal, a second 429, or no connexion.
PublishFails(r) ==
  /\ At(r, "persisted")
  /\ Posted(r, FALSE)
  /\ UNCHANGED <<now, plan, synced, syncs, reports, channel>>

End(r) == Go(r, [ pc |-> "ended", row |-> runs[r].row, delivered |-> runs[r].delivered,
                  status |-> IF runs[r].row = NoRow THEN "error" ELSE runs[r].status ])

\* Faulty variant: the newest row is marked.
MarkDeliveredNewest(r) ==
  /\ At(r, "posted") /\ runs[r].delivered /\ runs[r].row # NoRow
  /\ reports' = [reports EXCEPT ![Len(reports)].delivered = TRUE]
  /\ End(r)
  /\ UNCHANGED <<now, plan, synced, syncs, channel>>

MarkDelivered(r) ==
  /\ At(r, "posted") /\ runs[r].delivered /\ runs[r].row # NoRow
  /\ reports' = [reports EXCEPT ![runs[r].row].delivered = TRUE]
  /\ End(r)
  /\ UNCHANGED <<now, plan, synced, syncs, channel>>

\* Nothing to mark, or the mark cannot be written, which is only logged.
EndUnmarked(r) ==
  /\ At(r, "posted")
  /\ End(r)
  /\ UNCHANGED <<now, plan, synced, syncs, reports, channel>>

\* The process dies with its runs; nothing takes them up again.
Crash ==
  /\ \E r \in Runs : runs[r].pc \notin {"idle", "ended", "dead"}
  /\ runs' = [r \in Runs |-> IF runs[r].pc \in {"idle", "ended"} THEN runs[r] ELSE [pc |-> "dead"]]
  /\ UNCHANGED <<now, plan, synced, syncs, reports, channel>>

\* The nightly copy of the tutorial; TutorialSync models it.
Sync ==
  /\ syncs < MaxSyncs
  /\ synced' = now /\ syncs' = syncs + 1
  /\ UNCHANGED <<now, plan, runs, reports, channel>>

TimePasses ==
  /\ now < LastInstant
  /\ now' = now + 1
  /\ UNCHANGED <<plan, synced, syncs, runs, reports, channel>>

Run(r) ==
  \/ Start(r)
  \/ \E answer \in SurvivalAnswers : ReadSurvival(r, answer)
  \/ ReadProvenance(r) \/ ReadTutorial(r)
  \/ \E answer \in TutorialAnswers : TutorialMissing(r, answer)
  \/ \E health \in HealthSections : Build(r, health)
  \/ BuildFails(r)
  \/ Persist(r) \/ PersistFails(r)
  \/ \E answered \in BOOLEAN : Publish(r, answered)
  \/ PublishFails(r)
  \/ MarkDelivered(r) \/ EndUnmarked(r)

Next ==
  \/ \E r \in Runs : Run(r)
  \/ Crash
  \/ Sync
  \/ TimePasses

Spec == Init /\ [][Next]_weeklyVars

-----------------------------------------------------------------------------
(* Properties.                                                             *)

\* Rows, runs and messages are of their kinds; a row's report is well formed.
TypeOK ==
  /\ now \in 0..LastInstant /\ synced \in 0..now \cup {Never}
  /\ \A i \in DOMAIN reports :
       /\ reports[i].status \in Status /\ reports[i].delivered \in BOOLEAN
       /\ reports[i].status = "ok" => reports[i].payload.funnel \in FunnelSection
       /\ Len(reports[i].rendered) \in 1..MaxLines
  /\ \A r \in Runs :
       runs[r].pc \in {"persisted", "posted", "ended"} => runs[r].row \in 0..Len(reports)

\* Who really came, entered or completed in some days, known to us or not.
Came(days, f)      == Cardinality({p \in Newcomers : Matches(p, f) /\ DayOf(p.at) \in days})
EnteredIn(days, f) == Cardinality({p \in Newcomers : Matches(p, f) /\ DayOf(p.entered) \in days})
CompletedIn(days, f) ==
  Cardinality({p \in Newcomers : Matches(p, f) /\ DayOf(p.completed) \in days})

IsTotal(count, truth) == count.value \in {Null, truth}

\* The bucket of a week or of a month is the number of those who came in it, or
\* no number: never part of it, although Plan began to collect within a day,
\* and within a month, and a source may be out on some of the days.  So are the
\* buckets of any series of past days which lie in its window whole.  The steps
\* of the tutorial are so when its copy is younger than the bucket.  (A series
\* is of the clock and of the sources only: it is enough to look at it before
\* a run begins.)
\* Code: funnel.service.ts survivalByBucket, firstFullyCoveredDay,
\* firstFullyCoveredMonth; weekly-report.builder.ts rollUp
TotalsAreWhole ==
  /\ \A i \in DOMAIN reports :
       reports[i].status = "ok" =>
         LET funnel == reports[i].payload.funnel
             days   == reports[i].window.from..reports[i].window.to
             c      == funnel.bucket.counts
         IN  /\ IsTotal(c[2], Came(days, "all"))
             /\ funnel.tutorial.ok /\ funnel.tutorial.asOf > EndOfDay(reports[i].window.to) =>
                  IsTotal(c[3], EnteredIn(days, "all")) /\ IsTotal(c[4], CompletedIn(days, "all"))
  /\ (\A r \in Runs : At(r, "idle")) =>
     \A g \in Granularities, f \in PlatformFilters :
       LET to     == DayOf(now) - 1
           series == Buckets(Survival(PlanUsers, "ok", now, g, 0, to, f),
                             Tutorial(TutorialDaily, synced, "ok", g, 0, to, f))
       IN  \A key \in DOMAIN series :
             LET days == {d \in 0..LastInstant : Key(g, d) = key}
                 c    == series[key].counts
             IN  days \subseteq ClampFrom(0, to)..to =>
                   /\ IsTotal(c[2], Came(days, f))
                   /\ synced > EndOfDay(Max(days)) =>
                        IsTotal(c[3], EnteredIn(days, f)) /\ IsTotal(c[4], CompletedIn(days, f))

\* A row that says it was delivered is in the channel, word for word and as
\* what it is, a report or a notice; a run that says so posted it.  Two runs
\* may be under way, of the same week and of the same words.
\* Code: weekly-report.service.ts run; weekly-report.store.ts markDelivered
DeliveredIsInTheChannel ==
  /\ \A i \in DOMAIN reports :
       reports[i].delivered =>
         \E m \in channel : m.body = reports[i].rendered /\ m.status = reports[i].status
  /\ \A r \in Runs :
       At(r, "ended") /\ runs[r].delivered => \E m \in channel : m.by = r
  /\ Cardinality({i \in DOMAIN reports : reports[i].delivered}) <= Cardinality(channel)

\* A week is summed over days that carry a number, so not over days the copy of
\* the tutorial has not seen yet: "A step is summed only when **every day** in
\* the window carries a number" (weekly-report.types.ts:45), and whether a day
\* without a row is a zero or a hole "requires {@link lastSuccessfulSync}"
\* (tutorial.store.ts:200).
WeekWasCopied ==
  \A i \in DOMAIN reports :
    reports[i].status = "ok" /\ reports[i].payload.funnel.bucket.counts[3].value # Null =>
      reports[i].payload.funnel.tutorial.asOf > EndOfDay(reports[i].window.to)
=============================================================================
