-------------------------------- MODULE Funnel ---------------------------------
(***************************************************************************)
(* The funnel series (FunnelService, funnel-math): of every day or month   *)
(* of a window, how many arrived at each of four steps, and the share of a *)
(* step that reached the next.                                             *)
(*                                                                         *)
(* Two sources answer: Plan's plan_users for the arrivals at the Survival  *)
(* server, and the nightly copy of the tutorial.  Neither may cover a day, *)
(* and a number that is not there is never a zero.  An instant is half a   *)
(* day, the even ones are midnights; shares are in tenths of a percent.    *)
(***************************************************************************)
EXTENDS Integers, Sequences, FiniteSets, FiniteSetsExt, SequencesExt

CONSTANTS
  Platforms,
  Newcomers,     \* [who, at, platform, entered, completed]: who comes, and when
  DaysPerMonth,
  MaxWindow      \* MAX_WINDOW_DAYS

Null  == -1
Never == -1     \* of an instant

Newcomer ==
  [ who : Nat, at : Nat, platform : Platforms,
    entered : Nat \cup {Never}, completed : Nat \cup {Never} ]

DayOf(instant)   == instant \div 2
StartOfDay(day)  == 2 * day
EndOfDay(day)    == 2 * day + 1
MonthOf(day)     == day \div DaysPerMonth

Granularities   == {"daily", "monthly"}
PlatformFilters == {"all"} \cup Platforms

Matches(p, filter) == filter = "all" \/ p.platform = filter

\* The bucket of a day.
Key(granularity, day) == IF granularity = "monthly" THEN MonthOf(day) ELSE day

-----------------------------------------------------------------------------
(* funnel.types.ts                                                         *)

FunnelSteps == <<"rede", "survival", "tutorial_entrou", "tutorial_concluiu">>

Reasons ==
  { "network_unavailable", "not_configured", "query_failed", "covers_nothing",
    "before_coverage", "fallback", "partial", "no_day", "base_zero" }

\* A count, or the reason why there is none.
StepCount ==
  [value : Nat, reason : {"none"}] \cup [value : {Null}, reason : Reasons]

\* A share with its base; a base may be told without a share.
Conversion ==
  [percent : Nat, n : Nat, reason : {"none"}]
    \cup [percent : {Null}, n : Nat \cup {Null}, reason : Reasons]

Bucket == [counts : [1..4 -> StepCount], conversions : [1..3 -> Conversion]]

FunnelSourceFailures == {"not_configured", "query_failed", "never_synced"}

FunnelSourceState ==
  [ok : {TRUE}, failure : {"none"}, asOf : Nat, coversFrom : Nat \cup {Null}]
    \cup
  [ok : {FALSE}, failure : FunnelSourceFailures]

-----------------------------------------------------------------------------
(* funnel-math.ts                                                          *)

Step(value, reason) ==
  [value |-> value, reason |-> IF value # Null THEN "none" ELSE reason]

Convert(from, to) ==
  IF from.value = Null THEN [percent |-> Null, n |-> Null, reason |-> from.reason]
  ELSE IF to.value = Null THEN [percent |-> Null, n |-> from.value, reason |-> to.reason]
  ELSE IF from.value = 0 THEN [percent |-> Null, n |-> 0, reason |-> "base_zero"]
  ELSE [ percent |-> (2000 * to.value + from.value) \div (2 * from.value),
         n |-> from.value, reason |-> "none" ]

\* buildBucket, of the counts of three steps; the network has no source.
BuildBucket(survival, entered, completed) ==
  LET counts == <<Step(Null, "network_unavailable"), survival, entered, completed>>
  IN  [counts |-> counts, conversions |-> [i \in 1..3 |-> Convert(counts[i], counts[i + 1])]]

-----------------------------------------------------------------------------
(* FunnelService                                                           *)

\* clampFrom: a window that is too long loses its oldest days.
ClampFrom(from, to) == Max({from, to - (MaxWindow - 1)})

BucketKeys(granularity, from, to) == {Key(granularity, d) : d \in ClampFrom(from, to)..to}

FailedSource(failure) == [ok |-> FALSE, failure |-> failure]

\* firstFullyCoveredDay: the source began within its first day.
FirstFullyCoveredDay(earliest) ==
  IF earliest <= StartOfDay(DayOf(earliest)) THEN DayOf(earliest) ELSE DayOf(earliest) + 1

FirstFullyCoveredMonth(day) ==
  IF day % DaysPerMonth = 0 THEN MonthOf(day) ELSE MonthOf(day) + 1

\* Faulty variant: the bucket the source began in counts as covered.
CoversFromDay(granularity, earliest) == Key(granularity, DayOf(earliest))

\* The first bucket the source covers whole.
CoversFrom(granularity, earliest) ==
  IF granularity = "monthly" THEN FirstFullyCoveredMonth(FirstFullyCoveredDay(earliest))
  ELSE FirstFullyCoveredDay(earliest)

\* survivalByBucket: what a bucket counts, when plan_users holds these rows.
SurvivalCounts(table, granularity, from, to, filter) ==
  LET earliest == Min({p.at : p \in table})
      arrivals == {p \in table : StartOfDay(ClampFrom(from, to)) <= p.at /\ p.at <= EndOfDay(to)}
      count(key) == Cardinality({p \in arrivals :
                      Matches(p, filter) /\ Key(granularity, DayOf(p.at)) = key})
  IN  [ key \in BucketKeys(granularity, from, to) |->
          IF table = {} THEN Step(Null, "covers_nothing")
          ELSE IF key < CoversFrom(granularity, earliest) THEN Step(Null, "before_coverage")
          ELSE Step(count(key), "none") ]

Survival(table, answer, now, granularity, from, to, filter) ==
  IF answer = "ok"
  THEN [ counts |-> SurvivalCounts(table, granularity, from, to, filter),
         state |-> [ ok |-> TRUE, failure |-> "none", asOf |-> now,
                     coversFrom |-> IF table = {} THEN Null
                                    ELSE FirstFullyCoveredDay(Min({p.at : p \in table})) ] ]
  ELSE [ counts |-> [key \in BucketKeys(granularity, from, to) |-> Step(Null, answer)],
         state |-> FailedSource(answer) ]

\* tutorialByBucket: once the copy was ever made, a day without a row is zero.
TutorialCounts(rows, granularity, from, to, filter) ==
  [ key \in BucketKeys(granularity, from, to) |->
      LET on(instant) == /\ instant # Never
                         /\ DayOf(instant) \in ClampFrom(from, to)..to
                         /\ Key(granularity, DayOf(instant)) = key
          mine == {p \in rows : Matches(p, filter)}
      IN  [ entered |-> Step(Cardinality({p \in mine : on(p.entered)}), "none"),
            completed |-> Step(Cardinality({p \in mine : on(p.completed)}), "none") ] ]

Tutorial(rows, synced, answer, granularity, from, to, filter) ==
  IF answer = "ok" /\ synced # Never
  THEN [ counts |-> TutorialCounts(rows, granularity, from, to, filter),
         state |-> [ok |-> TRUE, failure |-> "none", asOf |-> synced, coversFrom |-> Null] ]
  ELSE [ counts |-> [ key \in BucketKeys(granularity, from, to) |->
                        [entered |-> Step(Null, "fallback"), completed |-> Step(Null, "fallback")] ],
         state |-> FailedSource(IF answer = "ok" THEN "never_synced" ELSE "query_failed") ]

\* The buckets of a series, of what the two sources answered.
Buckets(survival, tutorial) ==
  [ key \in DOMAIN survival.counts |->
      BuildBucket(survival.counts[key], tutorial.counts[key].entered,
                  tutorial.counts[key].completed) ]

SurvivalAnswers == {"ok", "not_configured", "query_failed"}
TutorialAnswers == {"ok", "query_failed"}
=============================================================================
