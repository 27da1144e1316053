------------------------------ MODULE Retention -------------------------------
(***************************************************************************)
(* The cohort table of RetentionService: of every month of registration    *)
(* and platform, the share of the players who were still seen 1, 7 and 30  *)
(* days after they registered.                                             *)
(*                                                                         *)
(* The table is read off one payload, two dates of each player, whose last *)
(* ones a bulk import may have written.  So a good part of the module      *)
(* refuses numbers: a horizon the data do not reach, days on which too     *)
(* many players were last seen, cohorts that kept everybody, and small     *)
(* cohorts of the same shape among those.                                  *)
(*                                                                         *)
(* A payload is a bag of players, a date is a day, a percentage is in      *)
(* tenths of a percent, as it is rounded.                                  *)
(***************************************************************************)
EXTENDS Integers, FiniteSets, FiniteSetsExt, Functions

CONSTANTS
  Platforms,
  DaysPerMonth,
  MinCohort,         \* RETENTION_MIN_COHORT_SIZE
  StampShare,        \* RETENTION_STAMP_DAY_MIN_SHARE, per thousand
  StampPopulation,   \* RETENTION_STAMP_DAY_MIN_POPULATION
  ContaminationMax,  \* RETENTION_COHORT_CONTAMINATION_MAX, per thousand
  Batches,           \* players Plan may come to know, each a bag of players
  Windows,           \* what is asked: pairs of months and a filter
  Clock,             \* days on which the report is asked
  MaxRows, MaxLate,  \* bounds: batches in the payload, and in one that still
                     \* changes after a report or in its shape
  MaxAsks            \* bound: reports

Horizons             == {1, 7, 30}
ImplausibleSurvival  == 990  \* of a thousand
ImplausibleMinCohort == 20
MaxSpanGapMonths     == 6

Month(day) == day \div DaysPerMonth

Player == [registered : Nat, lastSeen : Nat, platform : Platforms]

\* What the proofs need of the constants.
Settings ==
  /\ DaysPerMonth \in Nat \ {0} /\ MaxAsks \in Nat
  /\ Windows # {} /\ Clock # {} /\ Clock \subseteq Nat
  /\ IsFiniteSet(Batches)
  /\ \A b \in Batches : /\ IsFiniteSet(DOMAIN b) /\ DOMAIN b \subseteq Player
                        /\ b \in [DOMAIN b -> Nat]

\* How many players of the payload are of these kinds.
Many(kinds, players) == FoldFunctionOnSet(+, 0, players, kinds)

Population(players) == Many(DOMAIN players, players)

\* latestEpoch: 0 when nobody was seen.
DataThrough(players) == Max({p.lastSeen : p \in DOMAIN players} \cup {0})

\* earliestDay; 0 stands for none.
DataFrom(players) ==
  IF DOMAIN players = {} THEN 0 ELSE Min({p.registered : p \in DOMAIN players})

-----------------------------------------------------------------------------
(* What is published.                                                      *)

Unavailable ==
  { "immature_horizon", "import_artifact", "source_unavailable",
    "source_stale", "implausible_survival", "contaminated_span" }

\* A number with its base, or a base with the reason why there is no number.
Measure ==
  [reason : {"measured"}, n : Nat, survived : Nat, belowMinimum : BOOLEAN]
    \cup
  [reason : Unavailable, n : Nat]

Measured(m) == m.reason = "measured"

Percent(m) == (2000 * m.survived + m.n) \div (2 * m.n)

\* The base survives whatever takes the number away.
Blank(m, reason) == [reason |-> reason, n |-> m.n]

StampDay == [day : Nat, n : Nat, population : Nat, runTotal : Nat]

Contamination == [n : Nat, suspect : BOOLEAN]

Cohort ==
  [ month : Nat, platform : Platforms, size : Nat, belowMinimum : BOOLEAN,
    contamination : Contamination, measures : [Horizons -> Measure] ]

ConfirmedSpan ==
  [ from : Nat, to : Nat, confirmedMonths : SUBSET Nat,
    confirmedCohorts : Nat, judgedCohorts : Nat ]

ContaminatedSpan ==
  [ from : Nat, to : Nat, confirmedMonths : SUBSET Nat,
    confirmedCohorts : Nat, judgedCohorts : Nat,
    inheritedCohorts : Nat, inheritedPlayers : Nat ]

-----------------------------------------------------------------------------
(* detectStampDays: the days, or pairs of days, an import wrote.           *)

DaysSeen(players) == {p.lastSeen : p \in DOMAIN players}

SeenOn(days, players) ==
  Many({p \in DOMAIN players : p.lastSeen \in days}, players)

\* shortRuns: single days, and days next to one another.
ShortRuns(days) == {{d} : d \in days} \cup {{d, d + 1} : d \in {d \in days : d + 1 \in days}}

StampRuns(players) ==
  { run \in ShortRuns(DaysSeen(players)) :
      /\ Population(players) >= StampPopulation
      /\ 1000 * SeenOn(run, players) >= StampShare * Population(players) }

\* A day is told with the heaviest run it is of.
StampDays(players) ==
  { [ day |-> d, n |-> SeenOn({d}, players), population |-> Population(players),
      runTotal |-> Max({SeenOn(run, players) :
                          run \in {run \in StampRuns(players) : d \in run}}) ] :
      d \in UNION StampRuns(players) }

-----------------------------------------------------------------------------
(* buildCohorts.                                                           *)

ContaminationOf(members, players, stampDays) ==
  LET stamped == Many({p \in members : p.lastSeen \in stampDays}, players)
  IN  [ n |-> stamped,
        suspect |-> /\ stamped > 0
                    /\ 1000 * stamped >= ContaminationMax * Many(members, players) ]

\* Faulty variant: the calendar makes a horizon measurable.
ReachedByCalendar(p, days, dataThrough, now) == now - p.registered >= days

\* Who had the opportunity to survive that long: the data decide, not the clock.
Reached(p, days, dataThrough, now) == dataThrough - p.registered >= days

MeasureOf(members, players, days, dataThrough, now, suspect) ==
  LET eligible == {p \in members : Reached(p, days, dataThrough, now)}
      n        == Many(eligible, players)
  IN  IF suspect THEN [reason |-> "import_artifact", n |-> n]
      ELSE IF n = 0
      THEN [ reason |-> IF \E p \in members : now - p.registered >= days
                        THEN "source_stale" ELSE "immature_horizon",
             n |-> 0 ]
      ELSE [ reason |-> "measured", n |-> n,
             survived |-> Many({p \in eligible : p.lastSeen - p.registered >= days},
                               players),
             belowMinimum |-> n < MinCohort ]

\* Every horizon measured, and nobody lost.
ReadsImplausible(measures) ==
  \A h \in Horizons :
    Measured(measures[h]) /\ Percent(measures[h]) >= ImplausibleSurvival

SuppressImplausible(measures, size) ==
  IF size >= ImplausibleMinCohort /\ ReadsImplausible(measures)
  THEN [h \in Horizons |-> Blank(measures[h], "implausible_survival")]
  ELSE measures

CohortOf(month, platform, players, stampDays, now) ==
  LET members == { p \in DOMAIN players :
                     Month(p.registered) = month /\ p.platform = platform }
      size    == Many(members, players)
      tainted == ContaminationOf(members, players, stampDays)
  IN  [ month |-> month, platform |-> platform, size |-> size,
        belowMinimum |-> size < MinCohort, contamination |-> tainted,
        measures |->
          SuppressImplausible(
            [h \in Horizons |-> MeasureOf(members, players, h,
               DataThrough(players), now, tainted.suspect)], size) ]

BuildCohorts(players, now) ==
  LET stampDays == {s.day : s \in StampDays(players)}
  IN  { CohortOf(g[1], g[2], players, stampDays, now) :
          g \in {<<Month(p.registered), p.platform>> : p \in DOMAIN players} }

-----------------------------------------------------------------------------
(* detectContaminatedSpans and applyContaminatedSpans: the neighbourhood   *)
(* of a proven import.                                                     *)

JudgedImplausible(c) ==
  \E h \in Horizons : c.measures[h].reason = "implausible_survival"

Judgeable(c) ==
  \/ JudgedImplausible(c)
  \/ /\ c.size >= ImplausibleMinCohort
     /\ \A h \in Horizons : Measured(c.measures[h])

MonthsOf(cohorts) == {c.month : c \in cohorts}

\* One failing cohort settles its month, whatever else the month holds.
Confirmed(all) == MonthsOf({c \in all : JudgedImplausible(c)})
Clean(all)     == MonthsOf({c \in all : Judgeable(c)}) \ Confirmed(all)

\* Faulty variant: no month is evidence against an import.
WalledByGap(all, p, q) == q - p - 1 > MaxSpanGapMonths

\* Of two confirmed months, one next to the other: they are not of one write.
Walled(all, p, q) ==
  \/ q - p - 1 > MaxSpanGapMonths
  \/ \E m \in Clean(all) : p < m /\ m < q

Previous(months, q) == Max({p \in months : p < q})

\* The confirmed months that begin a run.
Starts(all) ==
  { q \in Confirmed(all) :
      \/ q = Min(Confirmed(all))
      \/ Walled(all, Previous(Confirmed(all), q), q) }

Inside(month, span) == span.from <= month /\ month <= span.to

DetectContaminatedSpans(all) ==
  { LET months == {q \in Confirmed(all) :
                     start <= q /\ \A t \in Starts(all) : start < t => q < t}
        inside == {c \in all : start <= c.month /\ c.month <= Max(months)}
    IN  [ from |-> start, to |-> Max(months), confirmedMonths |-> months,
          confirmedCohorts |-> Cardinality({c \in inside : JudgedImplausible(c)}),
          judgedCohorts |-> Cardinality({c \in inside : Judgeable(c)}) ] :
      start \in Starts(all) }

Inherits(c, spans) ==
  /\ \E span \in spans : Inside(c.month, span)
  /\ ~JudgedImplausible(c)
  /\ ReadsImplausible(c.measures)

ApplyContaminatedSpans(cohorts, spans) ==
  { IF Inherits(c, spans)
    THEN [c EXCEPT !.measures =
            [h \in Horizons |-> Blank(c.measures[h], "contaminated_span")]]
    ELSE c : c \in cohorts }

CountInherited(cohorts, spans) ==
  { LET heirs == {c \in cohorts : Inside(c.month, span) /\ Inherits(c, spans)}
    IN  [ from |-> span.from, to |-> span.to,
          confirmedMonths |-> span.confirmedMonths,
          confirmedCohorts |-> span.confirmedCohorts,
          judgedCohorts |-> span.judgedCohorts,
          inheritedCohorts |-> Cardinality(heirs),
          inheritedPlayers |-> MapThenSumSet(LAMBDA c : c.size, heirs) ] :
      span \in spans }

-----------------------------------------------------------------------------
(* RetentionService.load: the payload, or a label for why there is none.   *)

VARIABLES
  known,    \* Plan: the batches it has collected
  lists,    \* Plan: how many lists its answer holds; one, until its contract moves
  torn,     \* Plan: rows of its answer that cannot be read
  held,     \* what the cache holds of the answer; PlanCache models when
  today,    \* the clock
  read,     \* the body the last report was made from
  report,   \* the last report
  asks      \* how many were made

vars == <<known, lists, torn, held, today, read, report, asks>>

Body == [lists : 0..2, batches : SUBSET Batches, torn : {0, 1}]

None == [lists |-> 0, batches |-> {}, torn |-> 0]

Failures == {"not_configured", "unreachable", "contract_mismatch"}

\* The rows of a body, as one bag.
Rows(body) ==
  LET kinds == UNION {DOMAIN b : b \in body.batches}
  IN  [ p \in kinds |-> MapThenSumSet(LAMBDA b : b[p],
                                      {b \in body.batches : p \in DOMAIN b}) ]

\* findRows: the list of players, when there is no doubt which it is.
FindRows(body) == body.lists = 1

\* parseRetention: nothing readable in it is a contract that moved, not a
\* population of nobody.
Parses(body) == FindRows(body) /\ (DOMAIN Rows(body) = {} => body.torn = 0)

SourceState ==
  [ ok : {TRUE}, failure : {"none"}, stale : BOOLEAN, rows : Nat, dropped : Nat,
    dataThrough : Nat, dataFrom : Nat ]
    \cup
  [ok : {FALSE}, failure : Failures]

Failed(failure) == [ok |-> FALSE, failure |-> failure]

LoadedState(body, stale) ==
  [ ok |-> TRUE, failure |-> "none", stale |-> stale,
    rows |-> Population(Rows(body)) + body.torn, dropped |-> body.torn,
    dataThrough |-> DataThrough(Rows(body)), dataFrom |-> DataFrom(Rows(body)) ]

-----------------------------------------------------------------------------
(* RetentionService.report                                                 *)

Report ==
  [ window : Windows, stampDays : SUBSET StampDay,
    contaminatedSpans : SUBSET ContaminatedSpan, cohorts : SUBSET Cohort,
    uncovered : BOOLEAN, source : SourceState ]

\* What coverageWarning says: an empty table outside what the source covers
\* is not a period in which nobody registered.
Uncovered(w, source, cohorts) ==
  /\ cohorts = {}
  /\ 0 \notin {source.dataFrom, source.dataThrough}
  /\ \/ w.to < Month(source.dataFrom)
     \/ w.from > Month(source.dataThrough)

EmptyReport(w, source) ==
  [ window |-> w, stampDays |-> {}, contaminatedSpans |-> {}, cohorts |-> {},
    uncovered |-> FALSE, source |-> source ]

InWindow(cohorts, w) ==
  { c \in cohorts : /\ w.from <= c.month /\ c.month <= w.to
                    /\ w.platform \in {"all", c.platform} }

\* Every detector reasons over the whole payload; the window comes last.
ReportOf(w, body, stale, now) ==
  LET all     == BuildCohorts(Rows(body), now)
      spans   == DetectContaminatedSpans(all)
      cohorts == InWindow(ApplyContaminatedSpans(all, spans), w)
      source  == LoadedState(body, stale)
  IN  [ window |-> w, stampDays |-> StampDays(Rows(body)),
        contaminatedSpans |-> CountInherited(all, spans), cohorts |-> cohorts,
        uncovered |-> Uncovered(w, source, cohorts), source |-> source ]

Answer(w, body, stale) ==
  IF Parses(body) THEN ReportOf(w, body, stale, today)
  ELSE EmptyReport(w, Failed("contract_mismatch"))

NoWindow == CHOOSE w \in Windows : TRUE

Init ==
  /\ known = {} /\ lists = 1 /\ torn = 0
  /\ held = None
  /\ today = Min(Clock)
  /\ read = None
  /\ report = EmptyReport(NoWindow, Failed("unreachable"))
  /\ asks = 0

\* The controller refuses a window that ends before it begins.
Asked(w) ==
  /\ asks < MaxAsks
  /\ w.from <= w.to
  /\ asks' = asks + 1

\* Plan answers; what it answers replaces what the cache held, readable or not.
Fetch(w) ==
  LET body == [lists |-> lists, batches |-> known, torn |-> torn]
  IN  /\ Asked(w)
      /\ held' = body
      /\ read' = body
      /\ report' = Answer(w, body, FALSE)
      /\ UNCHANGED <<known, lists, torn, today>>

\* The cache answers, within its time to live or because Plan does not.
ServeHeld(w, stale) ==
  /\ Asked(w)
  /\ held # None
  /\ read' = held
  /\ report' = Answer(w, held, stale)
  /\ UNCHANGED <<known, lists, torn, held, today>>

\* No answer and nothing held: Plan is not there, or the backend has no address
\* of it.
Unreachable(w, failure) ==
  /\ Asked(w)
  /\ held = None
  /\ read' = None
  /\ report' = EmptyReport(w, Failed(failure))
  /\ UNCHANGED <<known, lists, torn, held, today>>

\* Plan comes to know more players, of today or before.
Collect(batch) ==
  /\ Cardinality(known) < IF asks = 0 THEN MaxRows ELSE MaxLate
  /\ \A p \in DOMAIN batch : p.lastSeen <= today
  /\ batch \notin known
  /\ known' = known \cup {batch}
  /\ UNCHANGED <<lists, torn, held, today, read, report, asks>>

\* An upgrade of Plan: another envelope, or a row whose dates cannot be read.
ContractMoves(n) ==
  /\ lists = 1 /\ torn = 0 /\ Cardinality(known) <= MaxLate
  /\ n # 1
  /\ lists' = n
  /\ UNCHANGED <<known, torn, held, today, read, report, asks>>

RowUnreadable ==
  /\ lists = 1 /\ torn = 0 /\ Cardinality(known) <= MaxLate
  /\ torn' = 1
  /\ UNCHANGED <<known, lists, held, today, read, report, asks>>

\* Days pass, and Plan may collect nothing in them.
Pass(day) ==
  /\ today < day
  /\ today' = day
  /\ UNCHANGED <<known, lists, torn, held, read, report, asks>>

Next ==
  \/ \E w \in Windows : Fetch(w) \/ \E s \in BOOLEAN : ServeHeld(w, s)
  \/ \E w \in Windows, f \in Failures \ {"contract_mismatch"} : Unreachable(w, f)
  \/ \E batch \in Batches : Collect(batch)
  \/ \E n \in {0, 2} : ContractMoves(n)
  \/ RowUnreadable
  \/ \E day \in Clock : Pass(day)

Spec == Init /\ [][Next]_vars

-----------------------------------------------------------------------------
(* Properties.                                                             *)

TypeOK ==
  /\ known \subseteq Batches
  /\ [lists |-> lists, batches |-> known, torn |-> torn] \in Body
  /\ {held, read} \subseteq Body
  /\ today \in Clock
  /\ report \in Report
  /\ asks \in 0..MaxAsks

\* What the players of a body say themselves of one month and platform.
Group(players, m, f) ==
  {p \in DOMAIN players : p.registered \div DaysPerMonth = m /\ p.platform = f}
Size(players, m, f) == Many(Group(players, m, f), players)
Base(players, m, f, h) ==
  Many({p \in Group(players, m, f) : p.registered + h <= DataThrough(players)}, players)
Kept(players, m, f, h) ==
  Many({p \in Group(players, m, f) : p.registered + h <= p.lastSeen}, players)

\* A day next to, or of, a pile of last visits too high to be play.
Pile(players, d) ==
  \E run \in {{d}, {d - 1, d}, {d, d + 1}} :
    /\ \A e \in run : \E p \in DOMAIN players : p.lastSeen = e
    /\ Population(players) >= StampPopulation
    /\ 1000 * Many({p \in DOMAIN players : p.lastSeen \in run}, players)
         >= StampShare * Population(players)

Stamped(players, m, f) ==
  LET n == Many({p \in Group(players, m, f) : Pile(players, p.lastSeen)}, players)
  IN  n > 0 /\ 1000 * n >= ContaminationMax * Size(players, m, f)

KeptEverybody(players, m, f) ==
  \A h \in Horizons :
    /\ Base(players, m, f, h) > 0
    /\ 2000 * Kept(players, m, f, h) >= 1979 * Base(players, m, f, h)

Weighed(players, m, f) ==
  /\ Size(players, m, f) >= 20
  /\ ~Stamped(players, m, f)
  /\ \A h \in Horizons : Base(players, m, f, h) > 0

Proven(players, m) == \E f \in Platforms : Weighed(players, m, f) /\ KeptEverybody(players, m, f)
Sound(players, m)  == ~Proven(players, m) /\ \E f \in Platforms : Weighed(players, m, f)

\* Between two proven months, or in one, with no sound month between them and
\* never more than six months without proof.
Touched(players, m) ==
  LET months == {Month(p.registered) : p \in DOMAIN players}
      proven == {q \in months : Proven(players, q)}
  IN  \E p, q \in proven :
        /\ p <= m /\ m <= q
        /\ \A k \in months : p <= k /\ k <= q => ~Sound(players, k)
        /\ \A k \in p..(q - 6) : \E j \in k..(k + 6) : j \in proven

\* A cohort's numbers are withheld exactly when there is evidence against them,
\* and are the counts of its players otherwise: it is stamped, or it kept
\* everybody and is big enough to be judged or lies within a proven import.
\* It holds in whatever window the cohort is asked for: the evidence is of the
\* payload.  The base is told in every case, and no cohort of the window is
\* missing.
\* Code: retention-math.ts, retention.service.ts report
CohortsAreEvidence ==
  report.source.ok =>
    LET players == Rows(read)
        w       == report.window
    IN  /\ {<<c.month, c.platform>> : c \in report.cohorts} =
             { g \in {<<Month(p.registered), p.platform>> : p \in DOMAIN players} :
                 w.from <= g[1] /\ g[1] <= w.to /\ w.platform \in {"all", g[2]} }
        /\ \A c \in report.cohorts :
             LET m == c.month
                 f == c.platform
                 refused == \/ Stamped(players, m, f)
                            \/ /\ KeptEverybody(players, m, f)
                               /\ Size(players, m, f) >= 20 \/ Touched(players, m)
             IN  \A h \in Horizons :
                   LET base == Base(players, m, f, h)
                   IN  /\ c.measures[h].n = base
                       /\ Measured(c.measures[h]) <=> ~refused /\ base > 0
                       /\ Measured(c.measures[h]) =>
                            c.measures[h].survived = Kept(players, m, f, h)

\* A report's numbers, without the reasons for those there are not.
Numbers(r) ==
  { [ group |-> <<c.month, c.platform, c.size>>,
      measures |-> [h \in Horizons |-> [c.measures[h] EXCEPT !.reason = Measured(c.measures[h])]] ] :
      c \in r.cohorts }

\* Numbers of the same body in the same window are the same whenever they are
\* read: a source that has stopped cannot make players who could not be seen
\* into players who left.  Only the reason why there is no number may change.
\* Code: retention-math.ts measure, CohortOptions.dataThrough
StalledSourceKeepsNumbers ==
  [][ /\ read' = read
      /\ report.source.ok /\ report'.source.ok
      /\ report'.window = report.window
      => Numbers(report') = Numbers(report) ]_vars
=============================================================================
