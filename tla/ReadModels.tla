------------------------------ MODULE ReadModels ------------------------------
(***************************************************************************)
(* The economy's copies (EconomySync), and what is read for the staff: the *)
(* retention table, the health checks, the weekly report and the economy   *)
(* reports.  The five share no state here: a behaviour is of one of them,  *)
(* its topic, and the variables of the others stand.                       *)
(***************************************************************************)
EXTENDS EconomySync

CONSTANTS
  Platforms, DaysPerMonth, MinCohort, StampShare,             \* of Retention
  StampPopulation, ContaminationMax, Batches, Windows, Clock,
  MaxRows, MaxLate, MaxAsks,
  Proxy, Servers, Deployments, Readings, MinEntryRate,        \* of HealthChecks
  MinSample, MaxSyncAge, OfflineWindow, MaxOfflineShare, MaxSilence,
  Interval, MaxMinutes, MaxDeploys,
  Newcomers, Plans, RetentionSections, HealthSections,        \* of WeeklyReport
  WeekMonth, MaxWindow, WindowDays, MaxCohortLines, MaxLines, MaxReports,
  LastInstant, MaxSyncs,
  Buyers, platformOf, registered, Shop, Ledger, Progress,     \* of EconomyReports
  Days, ContactDays, TutorialAmount, RepeatedPair, FundingMany,
  NewAccountDays, MinWindowForOutlier, MaxEvents

VARIABLES
  topic,                                                      \* what the behaviour is of
  known, lists, torn, held, today, body, table, asks,         \* of Retention
  minute, deployment, deploys, latest,                        \* of HealthChecks
  now, plan, synced, copies, makings, reports, channel,       \* of WeeklyReport
  day, events, sales, lastSeen, ledger, created, positions,   \* of EconomyReports
  provenance, ranAt, wrote, asking, answer, asOf

retentionVars == <<known, lists, torn, held, today, body, table, asks>>
healthVars    == <<minute, deployment, deploys, latest>>
weeklyVars    == <<now, plan, synced, copies, makings, reports, channel>>
reportVars    == <<day, events, sales, lastSeen, ledger, created, positions,
                   provenance, ranAt, wrote, asking, answer, asOf>>

R == INSTANCE Retention WITH read <- body, report <- table
H == INSTANCE HealthChecks
W == INSTANCE WeeklyReport WITH
       DaysPerMonth <- WeekMonth, MaxRuns <- MaxReports, runs <- makings,
       syncs <- copies
E == INSTANCE EconomyReports WITH
       Players <- Buyers, Clock <- Days, dimension <- lastSeen,
       payments <- ledger, creations <- created

\* What the proofs need of the constants.
ASSUME ReadAssumption == R!Settings /\ H!Settings /\ W!Settings /\ E!Settings

-----------------------------------------------------------------------------
\* What a behaviour is not of has not begun.
Off == "off"
HealthOff  == minute = Off /\ deployment = Off /\ deploys = Off /\ latest = Off
WeeklyOff  == /\ now = Off /\ plan = Off /\ synced = Off /\ copies = Off
              /\ makings = Off /\ reports = Off /\ channel = Off
EconomyOff == /\ day = Off /\ events = Off /\ sales = Off /\ lastSeen = Off
              /\ ledger = Off /\ created = Off /\ positions = Off
              /\ provenance = Off /\ ranAt = Off /\ wrote = Off
              /\ asking = Off /\ answer = Off /\ asOf = Off

ReadInit ==
  /\ topic \in {"copies", "retention", "health", "weekly", "economy"}
  /\ Init /\ R!Init
  /\ IF topic = "health" THEN H!Init ELSE HealthOff
  /\ IF topic = "weekly" THEN W!Init ELSE WeeklyOff
  /\ IF topic = "economy" THEN E!Init ELSE EconomyOff

OfCopies ==
  /\ topic = "copies" /\ Next
  /\ UNCHANGED <<topic, retentionVars, healthVars, weeklyVars, reportVars>>
OfRetention ==
  /\ topic = "retention" /\ R!Next
  /\ UNCHANGED <<topic, vars, healthVars, weeklyVars, reportVars>>
OfHealth ==
  /\ topic = "health" /\ H!Next
  /\ UNCHANGED <<topic, vars, retentionVars, weeklyVars, reportVars>>
OfWeekly ==
  /\ topic = "weekly" /\ W!Next
  /\ UNCHANGED <<topic, vars, retentionVars, healthVars, reportVars>>
OfEconomy ==
  /\ topic = "economy" /\ E!Next
  /\ UNCHANGED <<topic, vars, retentionVars, healthVars, weeklyVars>>

\* The others stop at their bounds; the copies are made as long as there are runs.
Rest ==
  /\ topic # "copies"
  /\ UNCHANGED <<topic, vars, retentionVars, healthVars, weeklyVars, reportVars>>

ReadNext == OfCopies \/ OfRetention \/ OfHealth \/ OfWeekly \/ OfEconomy \/ Rest

ReadSpec ==
  ReadInit /\ [][ReadNext]_<<topic, vars, retentionVars, healthVars, weeklyVars, reportVars>>

-----------------------------------------------------------------------------
(* The properties of the five modules, each looked at in its topic.        *)

\* The variables of each module are of their types.
ReadTypeOK ==
  /\ topic = "copies" => TypeOK
  /\ topic = "retention" => R!TypeOK
  /\ topic = "health" => H!TypeOK
  /\ topic = "weekly" => W!TypeOK
  /\ topic = "economy" => E!TypeOK

\* Retention: numbers are withheld exactly when there is evidence against them.
CohortsAreEvidence == topic = "retention" => R!CohortsAreEvidence

\* Retention: of one body the numbers are the same whatever the day.
StalledSourceKeepsNumbers == R!StalledSourceKeepsNumbers

\* HealthChecks: a summary that says ok has measured all it has to.
OkMeansMeasured == topic = "health" => H!OkMeansMeasured

\* Funnel and WeeklyReport: a total is of all its days, or there is none.
TotalsAreWhole == topic = "weekly" => W!TotalsAreWhole

\* WeeklyReport: a row marked delivered is in the channel.
DeliveredIsInTheChannel == topic = "weekly" => W!DeliveredIsInTheChannel

\* EconomyReports: reports made of the same tables agree with each other.
ReportsAgree == topic = "economy" => E!ReportsAgree

\* EconomyReports: a cohort table holds whom the run it is dated by wrote.
CohortsAreFounded == topic = "economy" => E!CohortsAreFounded

\* EconomyReports: a mark on the feed counts payments, not rows of a page.
MarksCountPayments == topic = "economy" => E!MarksCountPayments
=============================================================================
