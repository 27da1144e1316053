---------------------------- MODULE ReadTypesProofs ----------------------------
(***************************************************************************)
(* Whatever is told to the staff is of its type, for every value of the    *)
(* constants: the health summary, the weekly report, the retention table   *)
(* and the economy's reports are computed by folds, medians and shares of  *)
(* any data, and none of them is ever ill-formed.                          *)
(***************************************************************************)
EXTENDS ReadModelsProofs, EconomySyncProofs

-----------------------------------------------------------------------------
(* The types of the health checks.                                         *)

\* A stored row is whole, and not of the future.
HealthTypes ==
  /\ minute \in 0..MaxMinutes /\ deploys \in 0..MaxDeploys
  /\ \A name \in H!CheckName : latest[name].status # "none" =>
       latest[name] \in H!Row /\ latest[name].at <= minute

LEMMA HealthTypesInit == ASSUME H!Settings, H!Init PROVE HealthTypes
<1>1. \A name \in H!CheckName : latest[name].status = "none" BY DEF H!Init, H!NoRow
<1>q. QED BY <1>1 DEF H!Init, H!Settings, HealthTypes

LEMMA SoundIsBoolean ==
  ASSUME NEW reading, NEW servers, NEW name \in H!CheckName
  PROVE  H!Sound(name, reading, servers) \in BOOLEAN
<1>0. name.check \in CheckNames BY RegistryHolds DEF H!CheckName
<1>q. QED BY <1>0 DEF H!Sound, CheckNames

LEMMA HealthTypesNext ==
  ASSUME H!Settings, HealthTypes, [H!Next]_(H!healthVars) PROVE HealthTypes'
<1>0. MaxMinutes \in Nat /\ MaxDeploys \in Nat BY DEF H!Settings
<1>1. CASE \E reading \in Readings : H!Cycle(reading)
  <2>1. PICK reading \in Readings : H!Cycle(reading) BY <1>1
  <2>2. minute' = minute /\ deploys' = deploys BY <2>1 DEF H!Cycle
  <2>3. ASSUME NEW name \in H!CheckName, latest'[name].status # "none"
        PROVE  latest'[name] \in H!Row /\ latest'[name].at <= minute
    <3>1. CASE H!Observed(name, deployment.servers)
      <4> DEFINE status == H!Status(name.check, name.target, reading, deployment.servers)
                 sound == H!Sound(name, reading, deployment.servers)
                 ahead == H!Ahead(name, reading)
      <4>1. latest'[name] = [status |-> status, at |-> minute, sound |-> sound, ahead |-> ahead]
        BY <2>1, <3>1 DEF H!Cycle
      <4>2. status \in H!Verdicts BY StatusIsVerdict
      <4>3. sound \in BOOLEAN /\ ahead \in BOOLEAN BY SoundIsBoolean DEF H!Ahead
      <4> HIDE DEF status, sound, ahead
      <4>4. minute \in Nat BY DEF HealthTypes
      <4>q. QED BY <4>1, <4>2, <4>3, <4>4 DEF H!Row
    <3>2. CASE ~H!Observed(name, deployment.servers)
      <4>1. latest'[name] = latest[name] BY <2>1, <3>2 DEF H!Cycle
      <4>q. QED BY <2>3, <4>1 DEF HealthTypes
    <3>q. QED BY <3>1, <3>2
  <2>q. QED BY <2>2, <2>3 DEF HealthTypes
<1>2. CASE \E to \in Deployments : H!Deploy(to)
  BY <1>0, <1>2 DEF H!Deploy, HealthTypes
<1>3. CASE H!MinutePasses
  <2>1. \A name \in H!CheckName : latest[name] \in H!Row => latest[name].at \in Nat
    BY DEF H!Row
  <2>q. QED BY <1>0, <1>3, <2>1 DEF H!MinutePasses, HealthTypes
<1>4. CASE UNCHANGED H!healthVars BY <1>4 DEF H!healthVars, HealthTypes
<1>q. QED BY <1>1, <1>2, <1>3, <1>4 DEF H!Next

LEMMA HealthTyped ==
  ASSUME H!Settings, HealthIInv, HealthTypes PROVE H!TypeOK
<1>1. \A name \in H!Records : latest[name] \in H!Row /\ latest[name].at <= minute
  BY DEF H!Records, HealthTypes
<1>2. /\ H!Records \subseteq H!CheckName /\ H!Measuring \subseteq H!CheckName
      /\ H!Reporting \subseteq H!Range(H!Registry)
  BY DEF H!Records, H!Measuring, H!Reporting, H!CheckName
<1>3. \A s : H!Tally(s) \in Nat
  <2>1. ASSUME NEW s PROVE H!Tally(s) \in Nat
    <3>1. PICK S : S = {name \in H!Measuring : latest[name].status = s} OBVIOUS
    <3>2. H!Cardinality(S) \in Nat BY <1>2, <3>1, NamesFinite
    <3>q. QED BY <3>1, <3>2 DEF H!Tally
  <2>q. QED BY <2>1
<1>4. H!ResolveStatus \in {"unknown", "down", "degraded", "ok"} BY DEF H!ResolveStatus
<1>5. H!AnyStale \in BOOLEAN BY DEF H!AnyStale
<1>6. H!Cardinality(H!Records) \in Nat BY <1>2, NamesFinite
<1>7. [s \in H!Verdicts |-> H!Tally(s)] \in [H!Verdicts -> Nat] BY <1>3
<1>8. /\ {name \in H!Measuring : latest[name].status # "ok"} \in SUBSET H!CheckName
      /\ {name \in H!Records : H!IsStale(latest[name].at)} \in SUBSET H!CheckName
      /\ {name \in H!Records : H!IsBlind(name)} \in SUBSET H!CheckName
      /\ H!Missing \in SUBSET H!Range(H!Registry)
  BY <1>2 DEF H!Missing
<1>9. H!Summary \in H!SummaryDto
  BY <1>4, <1>5, <1>6, <1>7, <1>8 DEF H!Summary, H!SummaryDto
<1>q. QED BY <1>1, <1>9 DEF H!TypeOK, HealthTypes, HealthIInv

-----------------------------------------------------------------------------
(* The types of the weekly report.                                         *)

LEMMA DivIsNat ==
  ASSUME NEW n \in Nat, NEW m \in Nat \ {0}
  PROVE  n \div m \in Nat
<1>1. PICK q \in Int, r \in Int : q = n \div m /\ r = n % m OBVIOUS
<1>2. n = m * q + r /\ 0 <= r /\ r < m BY <1>1
<1>3. ASSUME q < 0 PROVE FALSE
  <2>1. PICK k \in Nat : q = -1 - k
    <3>1. -1 - q \in Nat /\ q = -1 - (-1 - q) BY <1>3
    <3>q. QED BY <3>1
  <2>2. m * q = -m - m * k BY <2>1
  <2>3. m * k >= 0 BY <2>1
  <2>q. QED BY <1>2, <2>2, <2>3
<1>q. QED BY <1>1, <1>3

\* A count is a number, or a reason.
LEMMA StepTyped ==
  ASSUME NEW v, NEW why, v \in Nat \/ (v = W!Null /\ why \in W!Reasons)
  PROVE  W!Step(v, why) \in W!StepCount
<1>1. CASE v \in Nat
  <2>1. v # W!Null BY <1>1 DEF W!Null
  <2>2. W!Step(v, why) = [value |-> v, reason |-> "none"] BY <2>1 DEF W!Step
  <2>q. QED BY <1>1, <2>2 DEF W!StepCount
<1>2. CASE v = W!Null /\ why \in W!Reasons
  <2>1. W!Step(v, why) = [value |-> W!Null, reason |-> why] BY <1>2 DEF W!Step
  <2>q. QED BY <1>2, <2>1 DEF W!StepCount
<1>q. QED BY <1>1, <1>2

LEMMA CountFields ==
  ASSUME NEW c \in W!StepCount
  PROVE  /\ c.value \in Nat \/ (c.value = W!Null /\ c.reason \in W!Reasons)
         /\ c.reason \in W!Reasons \cup {"none"}
BY DEF W!StepCount

LEMMA ConvertTyped ==
  ASSUME NEW a \in W!StepCount, NEW b \in W!StepCount
  PROVE  W!Convert(a, b) \in W!Conversion
<1>0. W!Null \notin Nat BY DEF W!Null
<1>1. CASE a.value = W!Null
  <2>1. a.reason \in W!Reasons BY <1>0, <1>1, CountFields
  <2>2. W!Convert(a, b) = [percent |-> W!Null, n |-> W!Null, reason |-> a.reason]
    BY <1>1 DEF W!Convert
  <2>q. QED BY <2>1, <2>2 DEF W!Conversion
<1>2. CASE a.value # W!Null /\ b.value = W!Null
  <2>1. a.value \in Nat /\ b.reason \in W!Reasons BY <1>0, <1>2, CountFields
  <2>2. W!Convert(a, b) = [percent |-> W!Null, n |-> a.value, reason |-> b.reason]
    BY <1>2 DEF W!Convert
  <2>q. QED BY <2>1, <2>2 DEF W!Conversion
<1>3. CASE a.value # W!Null /\ b.value # W!Null /\ a.value = 0
  <2>1. W!Convert(a, b) = [percent |-> W!Null, n |-> 0, reason |-> "base_zero"]
    BY <1>3 DEF W!Convert
  <2>2. "base_zero" \in W!Reasons BY DEF W!Reasons
  <2>q. QED BY <2>1, <2>2 DEF W!Conversion
<1>4. CASE a.value # W!Null /\ b.value # W!Null /\ a.value # 0
  <2>1. PICK x, y : x = a.value /\ y = b.value OBVIOUS
  <2>2. x \in Nat /\ y \in Nat BY <1>4, <2>1, CountFields
  <2>3. x # 0 BY <1>4, <2>1
  <2>4. 2000 * y + x \in Nat /\ 2 * x \in Nat \ {0} BY <2>2, <2>3
  <2>5. PICK share : share = (2000 * y + x) \div (2 * x) OBVIOUS
  <2>6. share \in Nat BY <2>4, <2>5, DivIsNat
  <2>7. W!Convert(a, b) = [percent |-> share, n |-> x, reason |-> "none"]
    BY <1>4, <2>1, <2>5 DEF W!Convert
  <2>q. QED BY <2>2, <2>6, <2>7 DEF W!Conversion
<1>q. QED BY <1>1, <1>2, <1>3, <1>4

LEMMA BucketTyped ==
  ASSUME NEW a \in W!StepCount, NEW b \in W!StepCount, NEW c \in W!StepCount
  PROVE  W!BuildBucket(a, b, c) \in W!Bucket
<1>1. PICK network : network = W!Step(W!Null, "network_unavailable") OBVIOUS
<1>2. network \in W!StepCount BY <1>1, StepTyped DEF W!Reasons
<1>3. PICK counts : counts = <<network, a, b, c>> OBVIOUS
<1>4. counts \in [1..4 -> W!StepCount] BY <1>2, <1>3
<1>5. PICK shares : shares = [i \in 1..3 |-> W!Convert(counts[i], counts[i + 1])] OBVIOUS
<1>6. ASSUME NEW i \in 1..3 PROVE W!Convert(counts[i], counts[i + 1]) \in W!Conversion
  <2>1. i \in 1..4 /\ i + 1 \in 1..4 OBVIOUS
  <2>q. QED BY <1>4, <2>1, ConvertTyped
<1>7. shares \in [1..3 -> W!Conversion] BY <1>5, <1>6
<1>8. W!BuildBucket(a, b, c) = [counts |-> counts, conversions |-> shares]
  BY <1>1, <1>3, <1>5 DEF W!BuildBucket
<1>q. QED BY <1>4, <1>7, <1>8 DEF W!Bucket

\* What a source answered, of its days.
SurvivalTyped(read_, to) ==
  read_.counts \in [DaysTo(to) -> W!StepCount] /\ read_.state \in W!FunnelSourceState

TutorialTyped(read_, to) ==
  /\ \A d \in DaysTo(to) : read_.counts[d].entered \in W!StepCount
                             /\ read_.counts[d].completed \in W!StepCount
  /\ read_.state \in W!FunnelSourceState

LEMMA FailedTyped ==
  ASSUME NEW failure \in W!FunnelSourceFailures
  PROVE  W!FailedSource(failure) \in W!FunnelSourceState
BY DEF W!FailedSource, W!FunnelSourceState

LEMMA AnsweredTyped ==
  ASSUME NEW instant \in Nat, NEW first \in Nat \cup {W!Null}
  PROVE  [ok |-> TRUE, failure |-> "none", asOf |-> instant, coversFrom |-> first]
           \in W!FunnelSourceState
<1>1. [ok |-> TRUE, failure |-> "none", asOf |-> instant, coversFrom |-> first]
        \in [ok : {TRUE}, failure : {"none"}, asOf : Nat, coversFrom : Nat \cup {W!Null}]
  OBVIOUS
<1>q. QED BY <1>1 DEF W!FunnelSourceState

LEMMA SurvivalReadTyped ==
  ASSUME W!Settings, plan \in Plans, FunnelIInv, NEW to \in Nat, WindowDays - 1 <= to,
         NEW from, from = W!WindowOf(to).from, NEW reply \in W!SurvivalAnswers
  PROVE  SurvivalTyped(W!Survival(W!PlanUsers, reply, now, "daily", from, to, "all"), to)
<1>1. W!BucketKeys("daily", from, to) = DaysTo(to) BY WindowIsDays
<1>2. PICK x : x = W!Survival(W!PlanUsers, reply, now, "daily", from, to, "all") OBVIOUS
<1>3. CASE reply = "ok"
  <2>1. PICK T : T = W!PlanUsers OBVIOUS
  <2>2. PICK e : e = W!Min({p.at : p \in T}) OBVIOUS
  <2>3. T # {} => e \in Nat BY <2>1, <2>2, EarliestIs
  <2>4. PICK A : A = {p \in T : /\ W!StartOfDay(W!ClampFrom(from, to)) <= p.at
                                /\ p.at <= W!EndOfDay(to)}
    OBVIOUS
  <2>5. PICK of : of = [d \in DaysTo(to) |->
                  {p \in A : W!Matches(p, "all") /\ W!Key("daily", W!DayOf(p.at)) = d}]
    OBVIOUS
  <2>6. x.counts = [d \in DaysTo(to) |->
          IF T = {} THEN W!Step(W!Null, "covers_nothing")
          ELSE IF d < W!CoversFrom("daily", e) THEN W!Step(W!Null, "before_coverage")
          ELSE W!Step(W!Cardinality(of[d]), "none")]
    BY <1>1, <1>2, <1>3, <2>1, <2>2, <2>4, <2>5 DEF W!Survival, W!SurvivalCounts
  <2>7. ASSUME NEW d \in DaysTo(to) PROVE W!Cardinality(of[d]) \in Nat
    <3>1. of[d] \subseteq Newcomers BY <2>1, <2>4, <2>5 DEF W!PlanUsers
    <3>2. IsFiniteSet(Newcomers) BY DEF W!Settings, W!IsFiniteSet, IsFiniteSet
    <3>3. IsFiniteSet(of[d]) BY <3>1, <3>2, FS_Subset
    <3>q. QED BY <3>3, FS_CardinalityType, WeeklyCardinality
  <2>8. {"covers_nothing", "before_coverage"} \subseteq W!Reasons BY DEF W!Reasons
  <2>9. ASSUME NEW d \in DaysTo(to) PROVE x.counts[d] \in W!StepCount
    <3>1. CASE T = {} BY <2>6, <2>8, <3>1, StepTyped
    <3>2. CASE T # {} /\ d < W!CoversFrom("daily", e) BY <2>6, <2>8, <3>2, StepTyped
    <3>3. CASE T # {} /\ ~(d < W!CoversFrom("daily", e)) BY <2>6, <2>7, <3>3, StepTyped
    <3>q. QED BY <3>1, <3>2, <3>3
  <2>10. PICK first : first = IF T = {} THEN W!Null ELSE W!FirstFullyCoveredDay(e) OBVIOUS
  <2>11. first \in Nat \cup {W!Null}
    <3>1. CASE T = {} BY <2>10, <3>1
    <3>2. CASE T # {}
      <4>1. PICK d : d = W!DayOf(e) OBVIOUS
      <4>2. d \in Nat BY <2>3, <3>2, <4>1, DayIsNat
      <4>3. first = d \/ first = d + 1
        BY <2>10, <3>2, <4>1 DEF W!FirstFullyCoveredDay
      <4>q. QED BY <4>2, <4>3
    <3>q. QED BY <3>1, <3>2
  <2>12. x.state = [ok |-> TRUE, failure |-> "none", asOf |-> now, coversFrom |-> first]
    BY <1>2, <1>3, <2>1, <2>2, <2>10 DEF W!Survival
  <2>13. now \in Nat BY DEF FunnelIInv
  <2>14. x.state \in W!FunnelSourceState BY <2>11, <2>12, <2>13, AnsweredTyped
  <2>15. x.counts \in [DaysTo(to) -> W!StepCount] BY <2>6, <2>9
  <2>q. QED BY <1>2, <2>14, <2>15 DEF SurvivalTyped
<1>4. CASE reply # "ok"
  <2>1. x.counts = [d \in DaysTo(to) |-> W!Step(W!Null, reply)] /\ x.state = W!FailedSource(reply)
    BY <1>1, <1>2, <1>4 DEF W!Survival
  <2>2. reply \in W!Reasons /\ reply \in W!FunnelSourceFailures
    BY <1>4 DEF W!SurvivalAnswers, W!Reasons, W!FunnelSourceFailures
  <2>3. W!Step(W!Null, reply) \in W!StepCount BY <2>2, StepTyped
  <2>4. x.state \in W!FunnelSourceState BY <2>1, <2>2, FailedTyped
  <2>5. x.counts \in [DaysTo(to) -> W!StepCount] BY <2>1, <2>3
  <2>q. QED BY <1>2, <2>4, <2>5 DEF SurvivalTyped
<1>q. QED BY <1>3, <1>4

LEMMA TutorialReadTyped ==
  ASSUME W!Settings, NEW to \in Nat, WindowDays - 1 <= to,
         NEW from, from = W!WindowOf(to).from, NEW copied \in Nat
  PROVE  TutorialTyped(W!Tutorial(W!TutorialDaily, copied, "ok", "daily", from, to, "all"), to)
<1>1. W!BucketKeys("daily", from, to) = DaysTo(to) BY WindowIsDays
<1>2. PICK x : x = W!Tutorial(W!TutorialDaily, copied, "ok", "daily", from, to, "all") OBVIOUS
<1>3. copied # W!Never BY DEF W!Never
<1>4. PICK rows : rows = W!TutorialDaily OBVIOUS
<1>5. IsFiniteSet(rows)
  <2>1. PICK P : P = {p \in Newcomers : p.at <= synced} OBVIOUS
  <2>2. PICK f : f = [p \in P |-> [ who |-> p.who, platform |-> p.platform,
                        entered |-> W!Before(p.entered), completed |-> W!Before(p.completed) ]]
    OBVIOUS
  <2>3. rows = Image(f, P) BY <1>4, <2>1, <2>2 DEF W!TutorialDaily, Image
  <2>4. P \subseteq Newcomers BY <2>1
  <2>5. IsFiniteSet(Newcomers) BY DEF W!Settings, W!IsFiniteSet, IsFiniteSet
  <2>6. IsFiniteSet(P) BY <2>4, <2>5, FS_Subset
  <2>q. QED BY <2>3, <2>6, ImageIsFinite
<1>6. ASSUME NEW S, S \subseteq rows PROVE W!Cardinality(S) \in Nat
  BY <1>5, <1>6, FS_Subset, FS_CardinalityType, WeeklyCardinality
<1>7. PICK mine : mine = {p \in rows : W!Matches(p, "all")} OBVIOUS
<1>8. PICK came : came = [d \in DaysTo(to) |->
        {p \in mine : /\ p.entered # W!Never
                      /\ W!DayOf(p.entered) \in W!ClampFrom(from, to)..to
                      /\ W!Key("daily", W!DayOf(p.entered)) = d}]
  OBVIOUS
<1>9. PICK left : left = [d \in DaysTo(to) |->
        {p \in mine : /\ p.completed # W!Never
                      /\ W!DayOf(p.completed) \in W!ClampFrom(from, to)..to
                      /\ W!Key("daily", W!DayOf(p.completed)) = d}]
  OBVIOUS
<1>10. x.counts = [d \in DaysTo(to) |-> [ entered |-> W!Step(W!Cardinality(came[d]), "none"),
                                          completed |-> W!Step(W!Cardinality(left[d]), "none") ]]
  BY <1>1, <1>2, <1>3, <1>4, <1>7, <1>8, <1>9 DEF W!Tutorial, W!TutorialCounts
<1>11. ASSUME NEW d \in DaysTo(to)
       PROVE  x.counts[d].entered \in W!StepCount /\ x.counts[d].completed \in W!StepCount
  <2>1. came[d] \subseteq rows /\ left[d] \subseteq rows BY <1>7, <1>8, <1>9
  <2>2. W!Cardinality(came[d]) \in Nat /\ W!Cardinality(left[d]) \in Nat BY <1>6, <2>1
  <2>3. /\ x.counts[d].entered = W!Step(W!Cardinality(came[d]), "none")
        /\ x.counts[d].completed = W!Step(W!Cardinality(left[d]), "none")
    BY <1>10
  <2>q. QED BY <2>2, <2>3, StepTyped
<1>12. x.state = [ok |-> TRUE, failure |-> "none", asOf |-> copied, coversFrom |-> W!Null]
  BY <1>2, <1>3 DEF W!Tutorial
<1>13. x.state \in W!FunnelSourceState BY <1>12, AnsweredTyped
<1>q. QED BY <1>2, <1>11, <1>13 DEF TutorialTyped

LEMMA TutorialMissingTyped ==
  ASSUME W!Settings, NEW to \in Nat, WindowDays - 1 <= to,
         NEW from, from = W!WindowOf(to).from, NEW reply \in W!TutorialAnswers
  PROVE  TutorialTyped(W!Tutorial({}, W!Never, reply, "daily", from, to, "all"), to)
<1>1. W!BucketKeys("daily", from, to) = DaysTo(to) BY WindowIsDays
<1>2. PICK x : x = W!Tutorial({}, W!Never, reply, "daily", from, to, "all") OBVIOUS
<1>3. PICK none : none = W!Step(W!Null, "fallback") OBVIOUS
<1>4. none \in W!StepCount BY <1>3, StepTyped DEF W!Reasons
<1>5. PICK why : why = IF reply = "ok" THEN "never_synced" ELSE "query_failed" OBVIOUS
<1>6. x.counts = [d \in DaysTo(to) |-> [entered |-> none, completed |-> none]]
      /\ x.state = W!FailedSource(why)
  BY <1>1, <1>2, <1>3, <1>5 DEF W!Tutorial
<1>7. why \in W!FunnelSourceFailures BY <1>5 DEF W!FunnelSourceFailures
<1>8. x.state \in W!FunnelSourceState BY <1>6, <1>7, FailedTyped
<1>9. \A d \in DaysTo(to) : x.counts[d].entered \in W!StepCount
                              /\ x.counts[d].completed \in W!StepCount
  BY <1>4, <1>6
<1>q. QED BY <1>2, <1>8, <1>9 DEF TutorialTyped

\* The total of a week of counts is a count.
LEMMA TotalTyped ==
  ASSUME NEW D, IsFiniteSet(D), D \subseteq Int, NEW daily, DOMAIN daily = D, NEW step,
         \A d \in D : W!CountsOf(daily[d], step) \in W!StepCount
  PROVE  /\ W!Total(step, daily) \in W!StepCount
         /\ W!Cardinality(W!Covered(step, daily)) \in Nat
<1>1. PICK v : v = [d \in D |-> W!CountsOf(daily[d], step).value] OBVIOUS
<1>2. DOMAIN v = D /\ \A d \in D : v[d] = W!CountsOf(daily[d], step).value BY <1>1
<1>3. W!SumOver(step, daily, D) = TotalOf(v, D)
  <2>1. W!SumOver(step, daily, D) = W!Sum(v) BY <1>1 DEF W!SumOver
  <2>q. QED BY <1>2, <2>1, WeekSumIsTotal
<1>4. PICK C : C = W!Covered(step, daily) OBVIOUS
<1>5. C \subseteq D /\ \A d \in C : v[d] # W!Null BY <1>2, <1>4 DEF W!Covered
<1>6. W!Cardinality(C) \in Nat BY <1>5, FS_Subset, FS_CardinalityType, WeeklyCardinality
<1>7. PICK why : why = W!PartialReason(step, daily, W!Cardinality(C)) OBVIOUS
<1>8. why \in W!Reasons
  <2>1. PICK told : told = {d \in DOMAIN daily :
                      W!CountsOf(daily[d], step).reason \notin {"none", "fallback"}}
    OBVIOUS
  <2>2. why = IF W!Cardinality(C) > 0 THEN "partial" ELSE IF told = {} THEN "no_day"
              ELSE W!CountsOf(daily[W!Min(told)], step).reason
    BY <1>7, <2>1 DEF W!PartialReason
  <2>3. {"partial", "no_day"} \subseteq W!Reasons BY DEF W!Reasons
  <2>4. ASSUME told # {} PROVE W!CountsOf(daily[W!Min(told)], step).reason \in W!Reasons
    <3>1. told \subseteq D BY <2>1
    <3>2. IsFiniteSet(told) BY <3>1, FS_Subset
    <3>3. told \subseteq Int BY <3>1
    <3>4. Min(told) \in told BY <2>4, <3>2, <3>3, MinIsLeast
    <3>5. W!Min(told) = Min(told) BY DEF W!Min, Min
    <3>6. PICK d : d = W!Min(told) OBVIOUS
    <3>7. d \in told /\ d \in D BY <3>1, <3>4, <3>5, <3>6
    <3>8. W!CountsOf(daily[d], step).reason # "none" BY <2>1, <3>7
    <3>9. W!CountsOf(daily[d], step).reason \in W!Reasons \cup {"none"} BY <3>7, CountFields
    <3>q. QED BY <3>6, <3>8, <3>9
  <2>q. QED BY <2>2, <2>3, <2>4
<1>9. PICK value : value = IF C = D /\ D # {} THEN W!SumOver(step, daily, D) ELSE W!Null
  OBVIOUS
<1>10. value \in Nat \cup {W!Null}
  <2>1. CASE C = D /\ D # {}
    <3>1. \A d \in D : v[d] \in Nat BY <1>2, <1>5, <2>1, CountFields
    <3>2. TotalOf(v, D) \in Nat BY <3>1, TotalNat
    <3>q. QED BY <1>3, <1>9, <2>1, <3>2
  <2>2. CASE ~(C = D /\ D # {}) BY <1>9, <2>2
  <2>q. QED BY <2>1, <2>2
<1>11. W!Total(step, daily) = W!Step(value, why) BY <1>4, <1>7, <1>9 DEF W!Total
<1>12. W!Step(value, why) \in W!StepCount BY <1>8, <1>10, StepTyped
<1>q. QED BY <1>4, <1>6, <1>11, <1>12

LEMMA SectionTyped ==
  ASSUME W!Settings, NEW to \in Nat, WindowDays - 1 <= to,
         NEW s, SurvivalTyped(s, to), NEW t, TutorialTyped(t, to)
  PROVE  W!FunnelSectionOf(s, t) \in W!FunnelSection
<1>1. PICK D : D = DaysTo(to) OBVIOUS
<1>2. PICK from : from = W!WindowOf(to).from OBVIOUS
<1>3. from..to = D /\ from \in Nat BY <1>1, <1>2, WindowIsDays
<1>4. IsFiniteSet(D) BY <1>3, FS_Interval
<1>4a. D \subseteq Int BY <1>3
<1>5. PICK daily : daily = W!Buckets(s, t) OBVIOUS
<1>6. DOMAIN daily = D
  BY <1>1, <1>5 DEF W!Buckets, SurvivalTyped
<1>7. ASSUME NEW d \in D PROVE daily[d] \in W!Bucket
  <2>1. /\ s.counts[d] \in W!StepCount /\ t.counts[d].entered \in W!StepCount
        /\ t.counts[d].completed \in W!StepCount
    BY <1>1 DEF SurvivalTyped, TutorialTyped
  <2>2. daily[d] = W!BuildBucket(s.counts[d], t.counts[d].entered, t.counts[d].completed)
    BY <1>5, <1>6 DEF W!Buckets
  <2>q. QED BY <2>1, <2>2, BucketTyped
<1>8. ASSUME NEW i \in 1..4
      PROVE  /\ W!Total(i, daily) \in W!StepCount
             /\ W!Cardinality(W!Covered(i, daily)) \in Nat
  <2>1. \A d \in D : W!CountsOf(daily[d], i) \in W!StepCount
    BY <1>7 DEF W!Bucket, W!CountsOf
  <2>q. QED BY <1>4, <1>4a, <1>6, <2>1, TotalTyped
<1>9. PICK bucket : bucket = W!BuildBucket(W!Total(2, daily), W!Total(3, daily), W!Total(4, daily))
  OBVIOUS
<1>10. bucket \in W!Bucket BY <1>8, <1>9, BucketTyped
<1>11. W!Cardinality(D) \in Nat BY <1>4, FS_CardinalityType, WeeklyCardinality
<1>12. PICK coverage : coverage = [ i \in 1..4 |->
         [ days |-> W!Cardinality(W!Covered(i, daily)), ofDays |-> W!Cardinality(DOMAIN daily) ] ]
  OBVIOUS
<1>13. coverage \in [1..4 -> W!StepCoverage]
  <2>1. ASSUME NEW i \in 1..4
        PROVE  [ days |-> W!Cardinality(W!Covered(i, daily)),
                 ofDays |-> W!Cardinality(DOMAIN daily) ] \in W!StepCoverage
    BY <1>6, <1>8, <1>11 DEF W!StepCoverage
  <2>q. QED BY <1>12, <2>1
<1>14. W!FunnelSectionOf(s, t) = [ bucket |-> bucket, coverage |-> coverage,
                                   survival |-> s.state, tutorial |-> t.state ]
  BY <1>5, <1>9, <1>12 DEF W!FunnelSectionOf
<1>15. s.state \in W!FunnelSourceState /\ t.state \in W!FunnelSourceState
  BY DEF SurvivalTyped, TutorialTyped
<1>q. QED BY <1>10, <1>13, <1>14, <1>15 DEF W!FunnelSection

\* What is rendered has a line, and not more than fit.
Fits(l) == IsSeq(l) /\ Len(l) \in 1..MaxLines

LEMMA ClampFits ==
  ASSUME W!Settings, NEW l, IsSeq(l), Len(l) >= 1
  PROVE  Fits(W!Clamp(l))
<1>1. PICK S : l \in Seq(S) BY DEF IsSeq
<1>2. Len(l) \in Nat /\ MaxLines \in Nat \ {0} BY <1>1, LenProperties DEF W!Settings
<1>3. CASE Len(l) <= MaxLines BY <1>2, <1>3 DEF W!Clamp, Fits
<1>4. CASE ~(Len(l) <= MaxLines)
  <2>1. PICK kept : kept = SubSeq(l, 1, MaxLines - 1) OBVIOUS
  <2>2. kept \in Seq(S) /\ Len(kept) = MaxLines - 1
    BY <1>1, <1>2, <1>4, <2>1, SubSeqProperties
  <2>3. IsSeq(kept) BY <2>2 DEF IsSeq
  <2>4. /\ Len(Append(kept, [line |-> "cut"])) = MaxLines
        /\ IsSeq(Append(kept, [line |-> "cut"]))
    BY <1>2, <2>2, <2>3, AppendIsSeq
  <2>5. W!Clamp(l) = Append(kept, [line |-> "cut"]) BY <1>4, <2>1 DEF W!Clamp
  <2>q. QED BY <1>2, <2>4, <2>5 DEF Fits
<1>q. QED BY <1>3, <1>4

LEMMA ConcatLength ==
  ASSUME NEW s, NEW t, IsSeq(s), IsSeq(t), Len(s) >= 1
  PROVE  Len(s \o t) >= 1
<1>1. PICK S : s \in Seq(S) BY DEF IsSeq
<1>2. PICK T : t \in Seq(T) BY DEF IsSeq
<1>3. s \in Seq(S \cup T) BY <1>1, SeqWidens
<1>4. t \in Seq(S \cup T) BY <1>2, SeqWidens
<1>5. Len(s \o t) = Len(s) + Len(t) BY <1>3, <1>4, ConcatProperties
<1>6. Len(s) \in Nat /\ Len(t) \in Nat BY <1>1, <1>2, LenProperties
<1>q. QED BY <1>5, <1>6

LEMMA ReportFits ==
  ASSUME W!Settings, NEW report, report.retention.cohorts \in Nat
  PROVE  Fits(W!RenderWeeklyReport(report))
<1>1. PICK week : week = <<[line |-> "week", window |-> report.window]>> OBVIOUS
<1>2. IsSeq(week) /\ Len(week) >= 1
  <2>1. PICK first : first = [line |-> "week", window |-> report.window] OBVIOUS
  <2>2. week = <<first>> BY <1>1, <2>1
  <2>3. IsSeq(<<first>>) BY OneLineIsSeq
  <2>4. Len(<<first>>) = 1 OBVIOUS
  <2>q. QED BY <2>2, <2>3, <2>4
<1>3. IsSeq(W!FunnelLines(report.funnel)) BY FunnelLinesAreSeq
<1>4. IsSeq(W!RetentionLines(report.retention)) BY RetentionLinesAreSeq
<1>5. IsSeq(W!HealthLines(report.health)) BY OneLineIsSeq DEF W!HealthLines
<1>6. PICK a : a = week \o W!FunnelLines(report.funnel) OBVIOUS
<1>7. IsSeq(a) /\ Len(a) >= 1
  <2>1. IsSeq(a) BY <1>2, <1>3, <1>6, ConcatIsSeq
  <2>2. Len(a) >= 1 BY <1>2, <1>3, <1>6, ConcatLength
  <2>q. QED BY <2>1, <2>2
<1>8. PICK b : b = a \o W!RetentionLines(report.retention) OBVIOUS
<1>9. IsSeq(b) /\ Len(b) >= 1 BY <1>7, <1>4, <1>8, ConcatIsSeq, ConcatLength
<1>10. PICK c : c = b \o W!HealthLines(report.health) OBVIOUS
<1>11. IsSeq(c) /\ Len(c) >= 1 BY <1>9, <1>5, <1>10, ConcatIsSeq, ConcatLength
<1>12. W!RenderWeeklyReport(report) = W!Clamp(c)
  BY <1>1, <1>6, <1>8, <1>10 DEF W!RenderWeeklyReport
<1>q. QED BY <1>11, <1>12, ClampFits

LEMMA NoticeFits ==
  ASSUME W!Settings, NEW window PROVE Fits(W!RenderFailure(window))
<1>1. PICK l : l = <<[line |-> "not made", window |-> window]>> OBVIOUS
<1>2. IsSeq(l) /\ Len(l) = 1 BY <1>1, OneLineIsSeq
<1>3. W!RenderFailure(window) = W!Clamp(l) BY <1>1 DEF W!RenderFailure
<1>q. QED BY <1>2, <1>3, ClampFits

\* What a run has made, and what a row holds.
MadeTyped(made) ==
  /\ made.status \in W!Status /\ Fits(made.rendered)
  /\ made.status = "ok" => made.payload.funnel \in W!FunnelSection

RunTyped(r) ==
  /\ W!At(r, "building") =>
       /\ makings[r].survival = W!Unread \/ SurvivalTyped(makings[r].survival, makings[r].to)
       /\ makings[r].tutorial = W!Unread \/ TutorialTyped(makings[r].tutorial, makings[r].to)
  /\ W!At(r, "built") => MadeTyped(makings[r])
  /\ makings[r].pc \in {"persisted", "posted", "ended"} => makings[r].row \in 0..Len(reports)

WeeklyTypes ==
  /\ Len(reports) \in Nat
  /\ \A r \in W!Runs : RunTyped(r)
  /\ \A i \in DOMAIN reports : MadeTyped(reports[i])

\* A step of one run: what it is at then, and what the rows hold, is to be shown.
LEMMA TypedStep ==
  ASSUME WeeklyIInv, WeeklyTypes, NEW r \in W!Runs, NEW v, W!Go(r, v),
         Len(reports') \in Nat, Len(reports) <= Len(reports'), RunTyped(r)',
         \A i \in DOMAIN reports' :
           \/ i \in DOMAIN reports /\ reports'[i] = reports[i]
           \/ MadeTyped(reports'[i])
  PROVE  WeeklyTypes'
<1>1. \A q \in W!Runs : q # r => makings'[q] = makings[q] BY GoMoves
<1>2. ASSUME NEW q \in W!Runs, q # r PROVE RunTyped(q)'
  <2>1. makings'[q] = makings[q] BY <1>1, <1>2
  <2>2. RunTyped(q) BY DEF WeeklyTypes
  <2>3. 0..Len(reports) \subseteq 0..Len(reports') BY DEF WeeklyTypes
  <2>q. QED BY <2>1, <2>2, <2>3 DEF RunTyped, W!At
<1>3. \A i \in DOMAIN reports' : MadeTyped(reports'[i]) BY DEF WeeklyTypes
<1>4. \A i \in DOMAIN reports' : MadeTyped(reports[i])' BY <1>3 DEF MadeTyped, Fits
<1>5. \A q \in W!Runs : RunTyped(q)' BY <1>2
<1>q. QED BY <1>4, <1>5 DEF WeeklyTypes

\* A step of one run that writes no row.
LEMMA TypedQuietStep ==
  ASSUME WeeklyIInv, WeeklyTypes, NEW r \in W!Runs, NEW v, W!Go(r, v), reports' = reports,
         v.pc = "building" =>
           /\ v.survival = W!Unread \/ SurvivalTyped(v.survival, v.to)
           /\ v.tutorial = W!Unread \/ TutorialTyped(v.tutorial, v.to),
         v.pc = "built" => MadeTyped(v),
         v.pc \in {"persisted", "posted", "ended"} => v.row \in 0..Len(reports)
  PROVE  WeeklyTypes'
<1>1. makings'[r] = v BY GoMoves
<1>2. RunTyped(r)' BY <1>1 DEF RunTyped, W!At, MadeTyped, Fits, SurvivalTyped, TutorialTyped
<1>3. Len(reports') \in Nat /\ Len(reports) <= Len(reports') BY DEF WeeklyTypes
<1>q. QED BY <1>2, <1>3, TypedStep

LEMMA TypedReadStep ==
  ASSUME W!Settings, WeeklyIInv, FunnelIInv, WeeklyTypes, NEW r \in W!Runs,
         \/ \E reply \in W!SurvivalAnswers : W!ReadSurvival(r, reply)
         \/ W!ReadProvenance(r)
         \/ W!ReadTutorial(r)
         \/ \E reply \in W!TutorialAnswers : W!TutorialMissing(r, reply)
  PROVE  WeeklyTypes'
<1>1. W!At(r, "building") /\ reports' = reports
  BY DEF W!ReadSurvival, W!ReadProvenance, W!ReadTutorial, W!TutorialMissing
<1>2. BuildingOK(r) BY <1>1 DEF FunnelIInv, FunnelRun
<1>3. PICK to : to = makings[r].to OBVIOUS
<1>4. to \in Nat /\ WindowDays - 1 <= to BY <1>2, <1>3 DEF BuildingOK, PastWindow
<1>5. PICK from : from = W!WindowOf(to).from OBVIOUS
<1>6. W!WindowOf(to).to = to BY <1>4, <1>5, WindowIsDays
<1>7. {"pc", "to", "survival", "provenance", "tutorial"} \subseteq DOMAIN makings[r]
  BY <1>2 DEF BuildingOK
<1>8. /\ makings[r].survival = W!Unread \/ SurvivalTyped(makings[r].survival, to)
      /\ makings[r].tutorial = W!Unread \/ TutorialTyped(makings[r].tutorial, to)
  BY <1>1, <1>3 DEF WeeklyTypes, RunTyped
<1>9. makings[r].pc = "building" BY <1>1 DEF W!At
<1>10. ASSUME NEW v, W!Go(r, v), v.pc = "building", v.to = to,
              v.survival = W!Unread \/ SurvivalTyped(v.survival, to),
              v.tutorial = W!Unread \/ TutorialTyped(v.tutorial, to)
       PROVE  WeeklyTypes'
  BY <1>1, <1>10, TypedQuietStep
<1>11. ASSUME NEW reply \in W!SurvivalAnswers, W!ReadSurvival(r, reply) PROVE WeeklyTypes'
  <2>1. PICK s : s = W!Survival(W!PlanUsers, reply, now, "daily", from, to, "all") OBVIOUS
  <2>2. plan \in Plans BY DEF WeeklyIInv
  <2>3. SurvivalTyped(s, to) BY <1>4, <1>5, <2>1, <2>2, SurvivalReadTyped
  <2>4. PICK v : v = [makings[r] EXCEPT !.survival = s] OBVIOUS
  <2>5. W!Go(r, v) BY <1>3, <1>5, <1>6, <1>11, <2>1, <2>4 DEF W!ReadSurvival
  <2>6. v.pc = "building" /\ v.to = to /\ v.survival = s /\ v.tutorial = makings[r].tutorial
    BY <1>3, <1>7, <1>9, <2>4
  <2>q. QED BY <1>8, <1>10, <2>3, <2>5, <2>6
<1>12. ASSUME W!ReadProvenance(r) PROVE WeeklyTypes'
  <2>1. PICK v : v = [makings[r] EXCEPT !.provenance = synced] OBVIOUS
  <2>2. W!Go(r, v) BY <1>12, <2>1 DEF W!ReadProvenance
  <2>3. /\ v.pc = "building" /\ v.to = to /\ v.survival = makings[r].survival
        /\ v.tutorial = makings[r].tutorial
    BY <1>3, <1>7, <1>9, <2>1
  <2>q. QED BY <1>8, <1>10, <2>2, <2>3
<1>13. ASSUME NEW t, TutorialTyped(t, to), W!Go(r, [makings[r] EXCEPT !.tutorial = t])
       PROVE  WeeklyTypes'
  <2>1. PICK v : v = [makings[r] EXCEPT !.tutorial = t] OBVIOUS
  <2>2. W!Go(r, v) BY <1>13, <2>1
  <2>3. v.pc = "building" /\ v.to = to /\ v.survival = makings[r].survival /\ v.tutorial = t
    BY <1>3, <1>7, <1>9, <2>1
  <2>q. QED BY <1>8, <1>10, <1>13, <2>2, <2>3
<1>14. ASSUME W!ReadTutorial(r) PROVE WeeklyTypes'
  <2>1. PICK copied : copied = makings[r].provenance OBVIOUS
  <2>2. copied \in Nat BY <1>2, <1>14, <2>1 DEF W!ReadTutorial, BuildingOK
  <2>3. PICK t : t = W!Tutorial(W!TutorialDaily, copied, "ok", "daily", from, to, "all") OBVIOUS
  <2>4. TutorialTyped(t, to) BY <1>4, <1>5, <2>2, <2>3, TutorialReadTyped
  <2>5. W!Go(r, [makings[r] EXCEPT !.tutorial = t])
    BY <1>3, <1>5, <1>6, <1>14, <2>1, <2>3 DEF W!ReadTutorial
  <2>q. QED BY <1>13, <2>4, <2>5
<1>15. ASSUME NEW reply \in W!TutorialAnswers, W!TutorialMissing(r, reply) PROVE WeeklyTypes'
  <2>1. PICK t : t = W!Tutorial({}, W!Never, reply, "daily", from, to, "all") OBVIOUS
  <2>2. TutorialTyped(t, to) BY <1>4, <1>5, <2>1, TutorialMissingTyped
  <2>3. W!Go(r, [makings[r] EXCEPT !.tutorial = t])
    BY <1>3, <1>5, <1>6, <1>15, <2>1 DEF W!TutorialMissing
  <2>q. QED BY <1>13, <2>2, <2>3
<1>q. QED BY <1>11, <1>12, <1>14, <1>15

LEMMA TypedBuildStep ==
  ASSUME W!Settings, WeeklyIInv, FunnelIInv, WeeklyTypes, NEW r \in W!Runs,
         (\E health \in HealthSections : W!Build(r, health)) \/ W!BuildFails(r)
  PROVE  WeeklyTypes'
<1>1. W!At(r, "building") /\ reports' = reports BY DEF W!Build, W!BuildFails
<1>2. BuildingOK(r) BY <1>1 DEF FunnelIInv, FunnelRun
<1>3. ASSUME NEW v, W!Go(r, v), v.pc = "built", MadeTyped(v) PROVE WeeklyTypes'
  BY <1>1, <1>3, TypedQuietStep
<1>4. ASSUME NEW health \in HealthSections, W!Build(r, health) PROVE WeeklyTypes'
  <2>1. PICK to, s, t : to = makings[r].to /\ s = makings[r].survival /\ t = makings[r].tutorial
    OBVIOUS
  <2>2. s # W!Unread /\ t # W!Unread BY <1>4, <2>1 DEF W!Build
  <2>3. to \in Nat /\ WindowDays - 1 <= to BY <1>2, <2>1 DEF BuildingOK, PastWindow
  <2>4. SurvivalTyped(s, to) /\ TutorialTyped(t, to)
    BY <1>1, <2>1, <2>2 DEF WeeklyTypes, RunTyped
  <2>5. PICK funnel, window : funnel = W!FunnelSectionOf(s, t) /\ window = W!WindowOf(to) OBVIOUS
  <2>6. funnel \in W!FunnelSection BY <2>3, <2>4, <2>5, SectionTyped
  <2>7. PICK report : report = [ window |-> window, funnel |-> funnel,
                                 retention |-> plan.retention, health |-> health ]
    OBVIOUS
  <2>8. report.retention.cohorts \in Nat BY <2>7 DEF WeeklyIInv, W!Settings
  <2>9. Fits(W!RenderWeeklyReport(report)) BY <2>8, ReportFits
  <2>10. PICK v : v = [ pc |-> "built", status |-> "ok", window |-> report.window,
                        payload |-> report, rendered |-> W!RenderWeeklyReport(report) ]
    OBVIOUS
  <2>11. W!Go(r, v) BY <1>4, <2>1, <2>5, <2>7, <2>10 DEF W!Build
  <2>12. /\ v.pc = "built" /\ v.status = "ok" /\ v.payload.funnel = funnel
         /\ v.rendered = W!RenderWeeklyReport(report)
    BY <2>7, <2>10
  <2>13. MadeTyped(v) BY <2>6, <2>9, <2>12 DEF MadeTyped, W!Status
  <2>q. QED BY <1>3, <2>11, <2>12, <2>13
<1>5. ASSUME W!BuildFails(r) PROVE WeeklyTypes'
  <2>1. PICK w : w = W!WindowOf(makings[r].to) OBVIOUS
  <2>2. PICK v : v = [ pc |-> "built", status |-> "error", window |-> w, payload |-> W!NoReport,
                       rendered |-> W!RenderFailure(w) ]
    OBVIOUS
  <2>3. W!Go(r, v) BY <1>5, <2>1, <2>2 DEF W!BuildFails
  <2>4. v.pc = "built" /\ v.status = "error" /\ v.rendered = W!RenderFailure(w) BY <2>2
  <2>5. MadeTyped(v) BY <2>4, NoticeFits DEF MadeTyped, W!Status
  <2>q. QED BY <1>3, <2>3, <2>4, <2>5
<1>q. QED BY <1>4, <1>5

LEMMA TypedPersistStep ==
  ASSUME WeeklyIInv, WeeklyTypes, NEW r \in W!Runs, W!Persist(r) PROVE WeeklyTypes'
<1>1. PICK row : row = [ window |-> makings[r].window, status |-> makings[r].status,
                         payload |-> makings[r].payload, rendered |-> makings[r].rendered,
                         delivered |-> FALSE ]
  OBVIOUS
<1>2. PICK v : v = [ pc |-> "persisted", status |-> makings[r].status,
                     rendered |-> makings[r].rendered, row |-> Len(reports) + 1 ]
  OBVIOUS
<1>3. W!At(r, "built") /\ W!Go(r, v) /\ reports' = Append(reports, row)
  BY <1>1, <1>2 DEF W!Persist
<1>4. MadeTyped(makings[r]) BY <1>3 DEF WeeklyTypes, RunTyped
<1>5. /\ row.status = makings[r].status /\ row.payload = makings[r].payload
      /\ row.rendered = makings[r].rendered
  BY <1>1
<1>6. MadeTyped(row) BY <1>4, <1>5 DEF MadeTyped
<1>7. v.pc = "persisted" /\ v.row = Len(reports) + 1 BY <1>2
<1>8. makings'[r] = v BY <1>3, GoMoves
<1>9. IsSeq(reports) BY DEF WeeklyIInv
<1>10. /\ Len(reports) \in Nat /\ DOMAIN reports = 1..Len(reports)
       /\ Len(reports') = Len(reports) + 1 /\ DOMAIN reports' = 1..(Len(reports) + 1)
       /\ \A i \in 1..Len(reports) : reports'[i] = reports[i]
       /\ reports'[Len(reports) + 1] = row
  BY <1>3, <1>9, AppendIsSeq
<1>11. RunTyped(r)' BY <1>7, <1>8, <1>10 DEF RunTyped, W!At
<1>12. ASSUME NEW i \in DOMAIN reports'
       PROVE  (i \in DOMAIN reports /\ reports'[i] = reports[i]) \/ MadeTyped(reports'[i])
  <2>1. i \in 1..Len(reports) \/ i = Len(reports) + 1 BY <1>10
  <2>q. QED BY <1>6, <1>10, <2>1
<1>q. QED BY <1>3, <1>10, <1>11, <1>12, TypedStep

LEMMA TypedRestStep ==
  ASSUME WeeklyIInv, WeeklyTypes, NEW r \in W!Runs,
         \/ W!PersistFails(r) \/ W!PublishFails(r) \/ W!EndUnmarked(r)
         \/ \E answered \in BOOLEAN : W!Publish(r, answered)
  PROVE  WeeklyTypes'
<1>1. Len(reports) \in Nat /\ reports' = reports
  BY DEF WeeklyTypes, W!PersistFails, W!Publish, W!PublishFails, W!EndUnmarked
<1>2. ASSUME NEW v, W!Go(r, v), v.pc \in {"persisted", "posted", "ended"},
             v.row \in 0..Len(reports)
      PROVE  WeeklyTypes'
  BY <1>1, <1>2, TypedQuietStep
<1>3. makings[r].pc \in {"persisted", "posted"} => makings[r].row \in 0..Len(reports)
  BY DEF WeeklyTypes, RunTyped
<1>4. ASSUME W!PersistFails(r) PROVE WeeklyTypes'
  <2>1. PICK v : v = [ pc |-> "persisted", status |-> makings[r].status,
                       rendered |-> makings[r].rendered, row |-> W!NoRow ]
    OBVIOUS
  <2>2. W!Go(r, v) BY <1>4, <2>1 DEF W!PersistFails
  <2>3. v.pc = "persisted" /\ v.row = 0 BY <2>1 DEF W!NoRow
  <2>4. 0 \in 0..Len(reports) BY <1>1
  <2>q. QED BY <1>2, <2>2, <2>3, <2>4
<1>5. ASSUME NEW told, W!Posted(r, told), W!At(r, "persisted") PROVE WeeklyTypes'
  <2>1. PICK v : v = [ pc |-> "posted", status |-> makings[r].status,
                       row |-> makings[r].row, delivered |-> told ]
    OBVIOUS
  <2>2. W!Go(r, v) BY <1>5, <2>1 DEF W!Posted
  <2>3. v.pc = "posted" /\ v.row = makings[r].row BY <2>1
  <2>q. QED BY <1>2, <1>3, <1>5, <2>2, <2>3 DEF W!At
<1>6. ASSUME W!EndUnmarked(r) PROVE WeeklyTypes'
  <2>1. PICK v : v = [ pc |-> "ended", row |-> makings[r].row,
                       delivered |-> makings[r].delivered,
                       status |-> IF makings[r].row = W!NoRow THEN "error"
                                  ELSE makings[r].status ]
    OBVIOUS
  <2>2. W!Go(r, v) /\ W!At(r, "posted") BY <1>6, <2>1 DEF W!EndUnmarked, W!End
  <2>3. v.pc = "ended" /\ v.row = makings[r].row BY <2>1
  <2>q. QED BY <1>2, <1>3, <2>2, <2>3 DEF W!At
<1>q. QED BY <1>4, <1>5, <1>6 DEF W!Publish, W!PublishFails

LEMMA TypedMarkStep ==
  ASSUME WeeklyIInv, WeeklyTypes, NEW r \in W!Runs, W!MarkDelivered(r) PROVE WeeklyTypes'
<1>1. PICK v : v = [ pc |-> "ended", row |-> makings[r].row,
                     delivered |-> makings[r].delivered,
                     status |-> IF makings[r].row = W!NoRow THEN "error"
                                ELSE makings[r].status ]
  OBVIOUS
<1>2. W!Go(r, v) /\ W!At(r, "posted") BY <1>1 DEF W!MarkDelivered, W!End
<1>3. v.pc = "ended" /\ v.row = makings[r].row BY <1>1
<1>4. makings'[r] = v BY <1>2, GoMoves
<1>5. PICK n : reports' = [reports EXCEPT ![n].delivered = TRUE] BY DEF W!MarkDelivered
<1>6. PICK S : reports \in Seq(S) BY DEF WeeklyIInv, IsSeq
<1>7. Len(reports) \in Nat /\ DOMAIN reports = 1..Len(reports) BY <1>6, LenProperties
<1>8. DOMAIN reports' = 1..Len(reports) BY <1>5, <1>7
<1>9. Len(reports') = Len(reports)
  <2>1. PICK T : T = {reports'[i] : i \in 1..Len(reports)} OBVIOUS
  <2>2. reports' \in [1..Len(reports) -> T] BY <1>5, <1>7, <1>8, <2>1
  <2>3. reports' \in Seq(T) BY <1>7, <2>2, SeqDef
  <2>4. Len(reports') \in Nat /\ DOMAIN reports' = 1..Len(reports') BY <2>3, LenProperties
  <2>q. QED BY <1>7, <1>8, <2>4
<1>10. RunTyped(r)'
  <2>1. makings[r].row \in 0..Len(reports) BY <1>2 DEF WeeklyTypes, RunTyped, W!At
  <2>q. QED BY <1>3, <1>4, <1>9, <2>1 DEF RunTyped, W!At
<1>11. ASSUME NEW i \in DOMAIN reports' PROVE MadeTyped(reports'[i])
  <2>1. i \in DOMAIN reports BY <1>7, <1>8
  <2>2. DOMAIN reports[i] = RowFields BY <2>1 DEF WeeklyIInv, RowOK
  <2>3. reports'[i] = IF i = n THEN [reports[i] EXCEPT !.delivered = TRUE] ELSE reports[i]
    BY <1>5, <2>1
  <2>4. /\ reports'[i].status = reports[i].status /\ reports'[i].payload = reports[i].payload
        /\ reports'[i].rendered = reports[i].rendered
    BY <2>2, <2>3 DEF RowFields
  <2>5. MadeTyped(reports[i]) BY <2>1 DEF WeeklyTypes
  <2>q. QED BY <2>4, <2>5 DEF MadeTyped
<1>12. Len(reports') \in Nat /\ Len(reports) <= Len(reports') BY <1>7, <1>9
<1>q. QED BY <1>2, <1>10, <1>11, <1>12, TypedStep

LEMMA WeeklyTypesInit == ASSUME W!Init PROVE WeeklyTypes
<1>1. reports = <<>> /\ makings = [r \in W!Runs |-> W!NotStarted] BY DEF W!Init
<1>2. \A r \in W!Runs : makings[r].pc = "idle" BY <1>1 DEF W!NotStarted
<1>3. \A r \in W!Runs : RunTyped(r) BY <1>2 DEF RunTyped, W!At
<1>4. Len(reports) = 0 /\ DOMAIN reports = {} BY <1>1
<1>q. QED BY <1>3, <1>4 DEF WeeklyTypes

LEMMA TypedUnmoved ==
  ASSUME WeeklyTypes, UNCHANGED <<makings, reports>> PROVE WeeklyTypes'
<1>1. \A r \in W!Runs : RunTyped(r)' 
  BY DEF WeeklyTypes, RunTyped, W!At, MadeTyped, Fits, SurvivalTyped, TutorialTyped
<1>q. QED BY <1>1 DEF WeeklyTypes, MadeTyped, Fits

LEMMA WeeklyTypesNext ==
  ASSUME W!Settings, WeeklyIInv, FunnelIInv, WeeklyTypes, [W!Next]_(W!weeklyVars)
  PROVE  WeeklyTypes'
<1>1. ASSUME NEW r \in W!Runs, W!Run(r) PROVE WeeklyTypes'
  <2>1. CASE W!Start(r)
    <3>1. PICK v : v = [ pc |-> "building", to |-> W!DayOf(now) - 1, survival |-> W!Unread,
                         provenance |-> W!Null, tutorial |-> W!Unread ]
      OBVIOUS
    <3>2. W!Go(r, v) /\ reports' = reports BY <2>1, <3>1 DEF W!Start
    <3>3. v.pc = "building" /\ v.survival = W!Unread /\ v.tutorial = W!Unread BY <3>1
    <3>q. QED BY <3>2, <3>3, TypedQuietStep
  <2>2. CASE \/ \E reply \in W!SurvivalAnswers : W!ReadSurvival(r, reply)
             \/ W!ReadProvenance(r)
             \/ W!ReadTutorial(r)
             \/ \E reply \in W!TutorialAnswers : W!TutorialMissing(r, reply)
    BY <2>2, TypedReadStep
  <2>3. CASE (\E health \in HealthSections : W!Build(r, health)) \/ W!BuildFails(r)
    BY <2>3, TypedBuildStep
  <2>4. CASE W!Persist(r) BY <2>4, TypedPersistStep
  <2>5. CASE \/ W!PersistFails(r) \/ W!PublishFails(r) \/ W!EndUnmarked(r)
             \/ \E answered \in BOOLEAN : W!Publish(r, answered)
    BY <2>5, TypedRestStep
  <2>6. CASE W!MarkDelivered(r) BY <2>6, TypedMarkStep
  <2>q. QED BY <1>1, <2>1, <2>2, <2>3, <2>4, <2>5, <2>6 DEF W!Run
<1>2. CASE W!Crash
  <2>1. reports' = reports BY <1>2 DEF W!Crash
  <2>2. ASSUME NEW r \in W!Runs PROVE RunTyped(r)'
    <3>1. CASE makings[r].pc \in {"idle", "ended"}
      <4>1. makings'[r] = makings[r] BY <1>2, <3>1 DEF W!Crash
      <4>2. RunTyped(r) BY DEF WeeklyTypes
      <4>q. QED BY <2>1, <3>1, <4>1, <4>2 DEF RunTyped, W!At
    <3>2. CASE makings[r].pc \notin {"idle", "ended"}
      <4>1. makings'[r] = [pc |-> "dead"] BY <1>2, <3>2 DEF W!Crash
      <4>2. makings'[r].pc = "dead" BY <4>1
      <4>q. QED BY <4>2 DEF RunTyped, W!At
    <3>q. QED BY <3>1, <3>2
  <2>q. QED BY <2>1, <2>2 DEF WeeklyTypes, MadeTyped, Fits
<1>3. CASE W!Sync \/ W!TimePasses BY <1>3, TypedUnmoved DEF W!Sync, W!TimePasses
<1>4. CASE UNCHANGED W!weeklyVars BY <1>4, TypedUnmoved DEF W!weeklyVars
<1>q. QED BY <1>1, <1>2, <1>3, <1>4 DEF W!Next

LEMMA WeeklyTyped == ASSUME W!Settings, WeeklyIInv, FunnelIInv, WeeklyTypes PROVE W!TypeOK
<1>1. now \in 0..LastInstant /\ synced \in 0..now \cup {W!Never}
  BY DEF FunnelIInv, W!Settings
<1>2. ASSUME NEW i \in DOMAIN reports
      PROVE  /\ reports[i].status \in W!Status /\ reports[i].delivered \in BOOLEAN
             /\ reports[i].status = "ok" => reports[i].payload.funnel \in W!FunnelSection
             /\ Len(reports[i].rendered) \in 1..MaxLines
  BY DEF WeeklyIInv, RowOK, WeeklyTypes, MadeTyped, Fits
<1>3. \A r \in W!Runs : makings[r].pc \in {"persisted", "posted", "ended"} =>
        makings[r].row \in 0..Len(reports)
  BY DEF WeeklyTypes, RunTyped
<1>q. QED BY <1>1, <1>2, <1>3 DEF W!TypeOK

-----------------------------------------------------------------------------
(* The types of the retention table.                                       *)

LEMMA RetentionCardinality == \A S : R!Cardinality(S) = Cardinality(S)
BY DEF R!Cardinality, Cardinality

LEMMA MonthIsTyped ==
  ASSUME R!Settings, NEW d \in Nat PROVE R!Month(d) \in Nat
<1>1. DaysPerMonth \in Nat \ {0} BY DEF R!Settings
<1>q. QED BY <1>1, DivIsNat DEF R!Month

LEMMA FromIsTyped ==
  ASSUME NEW v, IsBag(v) PROVE R!DataFrom(v) \in Nat
<1>1. CASE DOMAIN v = {} BY <1>1 DEF R!DataFrom
<1>2. CASE DOMAIN v # {}
  <2>1. PICK f : f = [p \in DOMAIN v |-> p.registered] OBVIOUS
  <2>2. PICK S : S = Image(f, DOMAIN v) OBVIOUS
  <2>3. S = {p.registered : p \in DOMAIN v} BY <2>1, <2>2 DEF Image
  <2>4. IsFiniteSet(S) BY <2>2, ImageIsFinite DEF IsBag
  <2>5. \A p \in DOMAIN v : p.registered \in Nat BY DEF IsBag, R!Player
  <2>6. S \subseteq Nat /\ S # {} BY <1>2, <2>3, <2>5
  <2>7. S \subseteq Int BY <2>6
  <2>8. Min(S) \in S BY <2>4, <2>6, <2>7, MinIsLeast
  <2>9. R!DataFrom(v) = Min(S) BY <1>2, <2>3, RetentionNames DEF R!DataFrom
  <2>q. QED BY <2>6, <2>8, <2>9
<1>q. QED BY <1>1, <1>2

LEMMA PopulationIsTyped ==
  ASSUME NEW v, IsBag(v)
  PROVE  /\ R!Population(v) \in Nat
         /\ \A days : R!SeenOn(days, v) \in Nat
<1>1. R!Population(v) \in Nat BY ManyNat DEF R!Population
<1>2. ASSUME NEW days PROVE R!SeenOn(days, v) \in Nat
  <2>1. PICK S : S = {p \in DOMAIN v : p.lastSeen \in days} OBVIOUS
  <2>2. S \subseteq DOMAIN v BY <2>1
  <2>q. QED BY <2>1, <2>2, ManyNat DEF R!SeenOn
<1>q. QED BY <1>1, <1>2

\* What is said of the source.
LEMMA LostTyped == R!Failures # {} /\ \A f \in R!Failures : R!Failed(f) \in R!SourceState
<1>1. ASSUME NEW f \in R!Failures PROVE R!Failed(f) \in [ok : {FALSE}, failure : R!Failures]
  BY DEF R!Failed
<1>2. [ok : {FALSE}, failure : R!Failures] \subseteq R!SourceState BY DEF R!SourceState
<1>q. QED BY <1>1, <1>2 DEF R!Failures

LEMMA LoadedTyped ==
  ASSUME R!Settings, NEW b \in R!Body, NEW stale \in BOOLEAN
  PROVE  R!LoadedState(b, stale) \in R!SourceState
<1>1. PICK v : v = R!Rows(b) OBVIOUS
<1>2. IsBag(v) BY <1>1, RowsAreBag
<1>3. PICK a : a = R!Population(v) + b.torn OBVIOUS
<1>4. b.torn \in {0, 1} BY DEF R!Body
<1>5. R!Population(v) \in Nat BY <1>2, PopulationIsTyped
<1>6. a \in Nat /\ b.torn \in Nat BY <1>3, <1>4, <1>5
<1>7. PICK through \in Nat : through = R!DataThrough(v) BY <1>2, ThroughIsLast
<1>8. PICK from \in Nat : from = R!DataFrom(v) BY <1>2, FromIsTyped
<1>9. R!LoadedState(b, stale) =
        [ ok |-> TRUE, failure |-> "none", stale |-> stale, rows |-> a, dropped |-> b.torn,
          dataThrough |-> through, dataFrom |-> from ]
  BY <1>1, <1>3, <1>7, <1>8 DEF R!LoadedState
<1>10. R!LoadedState(b, stale) \in
         [ ok : {TRUE}, failure : {"none"}, stale : BOOLEAN, rows : Nat, dropped : Nat,
           dataThrough : Nat, dataFrom : Nat ]
  BY <1>6, <1>9
<1>q. QED BY <1>10 DEF R!SourceState

\* The days an import wrote, told with their heaviest run.
LEMMA StampsTyped ==
  ASSUME NEW v, IsBag(v) PROVE R!StampDays(v) \subseteq R!StampDay
<1>1. PICK seen : seen = R!DaysSeen(v) OBVIOUS
<1>2. seen \subseteq Nat BY <1>1 DEF R!DaysSeen, IsBag, R!Player
<1>3. IsFiniteSet(seen)
  <2>1. PICK f : f = [p \in DOMAIN v |-> p.lastSeen] OBVIOUS
  <2>2. Image(f, DOMAIN v) = seen BY <1>1, <2>1 DEF R!DaysSeen, Image
  <2>q. QED BY <2>2, ImageIsFinite DEF IsBag
<1>4. PICK A : A = {{e} : e \in seen} OBVIOUS
<1>5. PICK pairs : pairs = {e \in seen : e + 1 \in seen} OBVIOUS
<1>6. PICK B : B = {{e, e + 1} : e \in pairs} OBVIOUS
<1>7. IsFiniteSet(A)
  <2>1. PICK f : f = [e \in seen |-> {e}] OBVIOUS
  <2>2. Image(f, seen) = A BY <1>4, <2>1 DEF Image
  <2>q. QED BY <1>3, <2>2, ImageIsFinite
<1>8. IsFiniteSet(B)
  <2>1. pairs \subseteq seen BY <1>5
  <2>2. IsFiniteSet(pairs) BY <1>3, <2>1, FS_Subset
  <2>3. PICK f : f = [e \in pairs |-> {e, e + 1}] OBVIOUS
  <2>4. Image(f, pairs) = B BY <1>6, <2>3 DEF Image
  <2>q. QED BY <2>2, <2>4, ImageIsFinite
<1>9. R!ShortRuns(seen) = A \cup B BY <1>4, <1>5, <1>6 DEF R!ShortRuns
<1>10. \A run \in A \cup B : run \subseteq Nat BY <1>2, <1>4, <1>5, <1>6
<1>11. PICK runsOf : runsOf = R!StampRuns(v) OBVIOUS
<1>12. runsOf \subseteq A \cup B BY <1>1, <1>9, <1>11 DEF R!StampRuns
<1>13. IsFiniteSet(runsOf)
  <2>1. IsFiniteSet(A \cup B) BY <1>7, <1>8, FS_Union
  <2>q. QED BY <1>12, <2>1, FS_Subset
<1>14. ASSUME NEW d \in UNION runsOf
       PROVE  /\ d \in Nat
              /\ R!Max({R!SeenOn(run, v) : run \in {run \in runsOf : d \in run}}) \in Nat
  <2>1. d \in Nat BY <1>10, <1>12
  <2>2. PICK some : some = {run \in runsOf : d \in run} OBVIOUS
  <2>3. some \subseteq runsOf /\ some # {} BY <2>2
  <2>4. IsFiniteSet(some) BY <1>13, <2>3, FS_Subset
  <2>5. PICK f : f = [run \in some |-> R!SeenOn(run, v)] OBVIOUS
  <2>6. PICK S : S = Image(f, some) OBVIOUS
  <2>7. S = {R!SeenOn(run, v) : run \in some} BY <2>5, <2>6 DEF Image
  <2>8. IsFiniteSet(S) BY <2>4, <2>6, ImageIsFinite
  <2>9. S \subseteq Nat /\ S # {} BY <2>3, <2>7, PopulationIsTyped
  <2>10. S \subseteq Int BY <2>9
  <2>11. Max(S) \in S BY <2>8, <2>9, <2>10, MaxIsGreatest
  <2>12. R!Max({R!SeenOn(run, v) : run \in {run \in runsOf : d \in run}}) = Max(S)
    BY <2>2, <2>7, RetentionNames
  <2>q. QED BY <2>1, <2>9, <2>11, <2>12
<1> DEFINE st(e) == [ day |-> e, n |-> R!SeenOn({e}, v), population |-> R!Population(v),
                      runTotal |-> R!Max({R!SeenOn(run, v) :
                                            run \in {run \in runsOf : e \in run}}) ]
<1>15. R!StampDays(v) = {st(e) : e \in UNION runsOf} BY <1>11 DEF R!StampDays
<1>16. \A e \in UNION runsOf : st(e) \in R!StampDay
  <2>1. TAKE e \in UNION runsOf
  <2>2. PICK a \in Nat : a = R!SeenOn({e}, v) BY PopulationIsTyped
  <2>3. PICK k \in Nat : k = R!Population(v) BY PopulationIsTyped
  <2>4. PICK top \in Nat :
          top = R!Max({R!SeenOn(run, v) : run \in {run \in runsOf : e \in run}})
    BY <1>14
  <2>5. st(e) = [day |-> e, n |-> a, population |-> k, runTotal |-> top] BY <2>2, <2>3, <2>4
  <2>6. e \in Nat BY <1>14
  <2> HIDE DEF st
  <2>q. QED BY <2>5, <2>6 DEF R!StampDay
<1> HIDE DEF st
<1>q. QED BY <1>15, <1>16

LEMMA ReasonedTyped ==
  ASSUME NEW why \in R!Unavailable, NEW n \in Nat
  PROVE  [reason |-> why, n |-> n] \in R!Measure
<1>1. [reason |-> why, n |-> n] \in [reason : R!Unavailable, n : Nat] OBVIOUS
<1>q. QED BY <1>1 DEF R!Measure

LEMMA MeasuredTyped ==
  ASSUME NEW n \in Nat, NEW k \in Nat, NEW below \in BOOLEAN
  PROVE  [reason |-> "measured", n |-> n, survived |-> k, belowMinimum |-> below] \in R!Measure
<1>1. [reason |-> "measured", n |-> n, survived |-> k, belowMinimum |-> below]
        \in [reason : {"measured"}, n : Nat, survived : Nat, belowMinimum : BOOLEAN]
  OBVIOUS
<1>q. QED BY <1>1 DEF R!Measure

LEMMA MeasureHasBase ==
  ASSUME NEW m \in R!Measure PROVE m.n \in Nat
BY DEF R!Measure

LEMMA MeasureTyped ==
  ASSUME NEW v, IsBag(v), NEW members, members \subseteq DOMAIN v,
         NEW h, NEW through, NEW t, NEW suspect \in BOOLEAN
  PROVE  R!MeasureOf(members, v, h, through, t, suspect) \in R!Measure
<1>1. PICK eligible : eligible = {p \in members : through - p.registered >= h} OBVIOUS
<1>2. PICK kept : kept = {p \in eligible : p.lastSeen - p.registered >= h} OBVIOUS
<1>3. eligible \subseteq DOMAIN v /\ kept \subseteq DOMAIN v BY <1>1, <1>2
<1>4. PICK n \in Nat : n = R!Many(eligible, v) BY <1>3, ManyNat
<1>5. PICK k \in Nat : k = R!Many(kept, v) BY <1>3, ManyNat
<1>6. PICK below \in BOOLEAN : below <=> n < MinCohort OBVIOUS
<1>7. PICK m : m = R!MeasureOf(members, v, h, through, t, suspect) OBVIOUS
<1>8. \/ m = [reason |-> "import_artifact", n |-> n]
      \/ m = [reason |-> "source_stale", n |-> 0]
      \/ m = [reason |-> "immature_horizon", n |-> 0]
      \/ m = [reason |-> "measured", n |-> n, survived |-> k, belowMinimum |-> (n < MinCohort)]
  BY <1>1, <1>2, <1>4, <1>5, <1>7 DEF R!MeasureOf, R!Reached
<1>9. {"import_artifact", "source_stale", "immature_horizon"} \subseteq R!Unavailable
  BY DEF R!Unavailable
<1>10. (n < MinCohort) \in BOOLEAN OBVIOUS
<1>q. QED BY <1>7, <1>8, <1>9, <1>10, ReasonedTyped, MeasuredTyped

LEMMA BlankTyped ==
  ASSUME NEW m \in R!Measure, NEW why \in R!Unavailable
  PROVE  R!Blank(m, why) \in R!Measure
<1>1. m.n \in Nat BY MeasureHasBase
<1>q. QED BY <1>1, ReasonedTyped DEF R!Blank

LEMMA BlanksTyped ==
  ASSUME NEW ms \in [R!Horizons -> R!Measure], NEW why \in R!Unavailable
  PROVE  [h \in R!Horizons |-> R!Blank(ms[h], why)] \in [R!Horizons -> R!Measure]
<1>1. \A h \in R!Horizons : R!Blank(ms[h], why) \in R!Measure BY BlankTyped
<1>q. QED BY <1>1

LEMMA ContaminationTyped ==
  ASSUME NEW v, IsBag(v), NEW members, members \subseteq DOMAIN v, NEW stampDays
  PROVE  R!ContaminationOf(members, v, stampDays) \in R!Contamination
<1> DEFINE S == {p \in members : p.lastSeen \in stampDays}
           n == R!Many(S, v)
           suspect == n > 0 /\ 1000 * n >= ContaminationMax * R!Many(members, v)
<1>1. R!ContaminationOf(members, v, stampDays) = [n |-> n, suspect |-> suspect]
  BY DEF R!ContaminationOf
<1>2. S \subseteq DOMAIN v OBVIOUS
<1> HIDE DEF S
<1>3. n \in Nat BY <1>2, ManyNat
<1>4. suspect \in BOOLEAN OBVIOUS
<1> HIDE DEF n, suspect
<1>q. QED BY <1>1, <1>3, <1>4 DEF R!Contamination

LEMMA CohortTyped ==
  ASSUME NEW v, IsBag(v), NEW m \in Nat, NEW f \in Platforms, NEW stampDays, NEW t
  PROVE  R!CohortOf(m, f, v, stampDays, t) \in R!Cohort
<1>1. PICK members :
        members = {p \in DOMAIN v : R!Month(p.registered) = m /\ p.platform = f}
  OBVIOUS
<1>2. members \subseteq DOMAIN v BY <1>1
<1>3. PICK size \in Nat : size = R!Many(members, v) BY <1>2, ManyNat
<1>4. PICK tainted \in R!Contamination : tainted = R!ContaminationOf(members, v, stampDays)
  BY <1>2, ContaminationTyped
<1>5. tainted.suspect \in BOOLEAN BY DEF R!Contamination
<1>6. PICK raw : raw = [h \in R!Horizons |->
                  R!MeasureOf(members, v, h, R!DataThrough(v), t, tainted.suspect)]
  OBVIOUS
<1>7. \A h \in R!Horizons :
        R!MeasureOf(members, v, h, R!DataThrough(v), t, tainted.suspect) \in R!Measure
  BY <1>2, <1>5, MeasureTyped
<1>8. raw \in [R!Horizons -> R!Measure] BY <1>6, <1>7
<1>9. PICK ms : ms = R!SuppressImplausible(raw, size) OBVIOUS
<1>10. "implausible_survival" \in R!Unavailable BY DEF R!Unavailable
<1>11. ms \in [R!Horizons -> R!Measure]
  BY <1>8, <1>9, <1>10, BlanksTyped DEF R!SuppressImplausible
<1> DEFINE below == size < MinCohort
<1>12. below \in BOOLEAN OBVIOUS
<1>13. R!CohortOf(m, f, v, stampDays, t) =
         [ month |-> m, platform |-> f, size |-> size, belowMinimum |-> below,
           contamination |-> tainted, measures |-> ms ]
  BY <1>1, <1>3, <1>4, <1>6, <1>9 DEF R!CohortOf
<1> HIDE DEF below
<1>q. QED BY <1>11, <1>12, <1>13 DEF R!Cohort

LEMMA CohortsTyped ==
  ASSUME R!Settings, NEW v, IsBag(v), NEW t
  PROVE  R!BuildCohorts(v, t) \subseteq R!Cohort /\ IsFiniteSet(R!BuildCohorts(v, t))
<1>1. PICK stampDays : stampDays = {s.day : s \in R!StampDays(v)} OBVIOUS
<1>2. R!BuildCohorts(v, t) = {R!CohortOf(g[1], g[2], v, stampDays, t) : g \in GroupsOf(v)}
  BY <1>1 DEF R!BuildCohorts, GroupsOf
<1>3. \A g \in GroupsOf(v) : g[1] \in Nat /\ g[2] \in Platforms BY GroupsAreTyped
<1>4. \A g \in GroupsOf(v) : R!CohortOf(g[1], g[2], v, stampDays, t) \in R!Cohort
  BY <1>3, CohortTyped
<1>5. IsFiniteSet(GroupsOf(v))
  <2>1. PICK f : f = [p \in DOMAIN v |-> <<R!Month(p.registered), p.platform>>] OBVIOUS
  <2>2. Image(f, DOMAIN v) = GroupsOf(v) BY <2>1 DEF GroupsOf, Image
  <2>q. QED BY <2>2, ImageIsFinite DEF IsBag
<1>6. PICK f : f = [g \in GroupsOf(v) |-> R!CohortOf(g[1], g[2], v, stampDays, t)] OBVIOUS
<1>7. Image(f, GroupsOf(v)) = R!BuildCohorts(v, t) BY <1>2, <1>6 DEF Image
<1>8. IsFiniteSet(R!BuildCohorts(v, t)) BY <1>5, <1>7, ImageIsFinite
<1>q. QED BY <1>2, <1>4, <1>8

LEMMA SpansTyped ==
  ASSUME R!Settings, NEW v, IsBag(v), NEW t, NEW all, all = R!BuildCohorts(v, t)
  PROVE  R!DetectContaminatedSpans(all) \subseteq R!ConfirmedSpan
<1>1. PICK C : C = R!Confirmed(all) OBVIOUS
<1>2. C = {q \in MonthsSeen(v) : R!Proven(v, q)} BY <1>1, MonthsAreJudged
<1>3. MonthsSeen(v) \in SUBSET Nat /\ IsFiniteSet(MonthsSeen(v)) BY GroupsAreTyped
<1>4. C \in SUBSET Nat /\ C \subseteq MonthsSeen(v) BY <1>2, <1>3
<1>5. IsFiniteSet(C) BY <1>3, <1>4, FS_Subset
<1>6. IsFiniteSet(all) BY CohortsTyped
<1> DEFINE inside(start) == {c \in all : start <= c.month /\ c.month <= R!Max(RunOf(all, start))}
           span(start) ==
               [ from |-> start, to |-> R!Max(RunOf(all, start)),
                 confirmedMonths |-> RunOf(all, start),
                 confirmedCohorts |-> R!Cardinality({c \in inside(start) : R!JudgedImplausible(c)}),
                 judgedCohorts |-> R!Cardinality({c \in inside(start) : R!Judgeable(c)}) ]
<1>7. R!DetectContaminatedSpans(all) = {span(start) : start \in R!Starts(all)}
  BY DEF R!DetectContaminatedSpans, RunOf
<1>8. ASSUME NEW start \in R!Starts(all) PROVE span(start) \in R!ConfirmedSpan
  <2>1. start \in C BY <1>1 DEF R!Starts
  <2>2. PICK run : run = RunOf(all, start) OBVIOUS
  <2>3. run \subseteq C BY <1>1, <2>2 DEF RunOf
  <2>4. start \in run
    <3>1. start \in Nat BY <1>4, <2>1
    <3>q. QED BY <1>1, <2>1, <2>2, <3>1 DEF RunOf
  <2>5. IsFiniteSet(run) BY <1>5, <2>3, FS_Subset
  <2>6. run \in SUBSET Nat BY <1>4, <2>3
  <2>7. run \subseteq Int /\ run # {} BY <2>4, <2>6
  <2>8. Max(run) \in run BY <2>5, <2>7, MaxIsGreatest
  <2>9. PICK top \in Nat : top = R!Max(run) BY <2>6, <2>8, RetentionNames
  <2>10. PICK A : A = {c \in inside(start) : R!JudgedImplausible(c)} OBVIOUS
  <2>11. PICK B : B = {c \in inside(start) : R!Judgeable(c)} OBVIOUS
  <2>12. A \subseteq all /\ B \subseteq all BY <2>10, <2>11
  <2>13. IsFiniteSet(A) /\ IsFiniteSet(B) BY <1>6, <2>12, FS_Subset
  <2>14. PICK a \in Nat : a = R!Cardinality(A) BY <2>13, FS_CardinalityType, RetentionCardinality
  <2>15. PICK b \in Nat : b = R!Cardinality(B) BY <2>13, FS_CardinalityType, RetentionCardinality
  <2>16. span(start) = [ from |-> start, to |-> top, confirmedMonths |-> run,
                         confirmedCohorts |-> a, judgedCohorts |-> b ]
    BY <2>2, <2>9, <2>10, <2>11, <2>14, <2>15
  <2>17. start \in Nat BY <1>4, <2>1
  <2> HIDE DEF span, inside
  <2>q. QED BY <2>6, <2>16, <2>17 DEF R!ConfirmedSpan
<1> HIDE DEF span, inside
<1>q. QED BY <1>7, <1>8

LEMMA AppliedTyped ==
  ASSUME NEW all, all \subseteq R!Cohort, NEW spans
  PROVE  R!ApplyContaminatedSpans(all, spans) \subseteq R!Cohort
<1>1. "contaminated_span" \in R!Unavailable BY DEF R!Unavailable
<1>2. ASSUME NEW c \in all
      PROVE  [c EXCEPT !.measures = [h \in R!Horizons |-> R!Blank(c.measures[h], "contaminated_span")]]
               \in R!Cohort
  <2>1. c \in R!Cohort OBVIOUS
  <2>2. c.measures \in [R!Horizons -> R!Measure] BY <2>1 DEF R!Cohort
  <2>3. PICK blanked : blanked = [h \in R!Horizons |-> R!Blank(c.measures[h], "contaminated_span")]
    OBVIOUS
  <2>4. blanked \in [R!Horizons -> R!Measure] BY <1>1, <2>2, <2>3, BlanksTyped
  <2>5. [c EXCEPT !.measures = blanked] \in R!Cohort BY <2>1, <2>4 DEF R!Cohort
  <2>q. QED BY <2>3, <2>5
<1>q. QED BY <1>2 DEF R!ApplyContaminatedSpans

\* inheritedPlayers: the players of the heirs.
LEMMA HeirsCounted ==
  ASSUME NEW all, all \subseteq R!Cohort, IsFiniteSet(all), NEW X, X \subseteq all
  PROVE  R!MapThenSumSet(LAMBDA c : c.size, X) \in Nat
<1>1. IsFiniteSet(X) BY FS_Subset
<1>2. PICK v : v = [c \in X |-> c.size] OBVIOUS
<1>3. \A c \in X : v[c] = c.size /\ v[c] \in Nat BY <1>2 DEF R!Cohort
<1> DEFINE F(f) == f = [s \in SUBSET X |-> IF s = {} THEN 0 ELSE Picked(s).size + f[Remaining(s)]]
<1>4. R!MapThenSumSet(LAMBDA c : c.size, X) = (CHOOSE f : F(f))[X]
  BY DEF R!MapThenSumSet, R!MapThenFoldSet, Picked, Remaining
<1>5. ASSUME NEW f PROVE F(f) <=> IsFold(f, v, X)
  <2>1. ASSUME NEW s \in SUBSET X, s # {} PROVE v[Picked(s)] = Picked(s).size
    BY <1>3, <2>1, PickIsElement
  <2>q. QED BY <2>1 DEF IsFold
<1> HIDE DEF F
<1>6. PICK g : IsFold(g, v, X) BY <1>1, FoldExists
<1>7. PICK f : f = CHOOSE k : F(k) OBVIOUS
<1>8. F(f) BY <1>5, <1>6, <1>7
<1>9. f[X] = TotalOf(v, X) BY <1>1, <1>5, <1>8, FoldIsTotal
<1>10. TotalOf(v, X) \in Nat BY <1>1, <1>3, TotalNat
<1>q. QED BY <1>4, <1>7, <1>9, <1>10

LEMMA InheritedTyped ==
  ASSUME NEW all, all \subseteq R!Cohort, IsFiniteSet(all),
         NEW spans, spans \subseteq R!ConfirmedSpan
  PROVE  R!CountInherited(all, spans) \subseteq R!ContaminatedSpan
<1> DEFINE heirs(span) == {c \in all : R!Inside(c.month, span) /\ R!Inherits(c, spans)}
           row(span) ==
             [ from |-> span.from, to |-> span.to,
               confirmedMonths |-> span.confirmedMonths,
               confirmedCohorts |-> span.confirmedCohorts,
               judgedCohorts |-> span.judgedCohorts,
               inheritedCohorts |-> R!Cardinality(heirs(span)),
               inheritedPlayers |-> R!MapThenSumSet(LAMBDA c : c.size, heirs(span)) ]
<1>1. R!CountInherited(all, spans) = {row(span) : span \in spans} BY DEF R!CountInherited
<1>2. ASSUME NEW span \in spans PROVE row(span) \in R!ContaminatedSpan
  <2>1. span \in R!ConfirmedSpan OBVIOUS
  <2>2. PICK X : X = heirs(span) OBVIOUS
  <2>3. X \subseteq all BY <2>2
  <2>4. IsFiniteSet(X) BY <2>3, FS_Subset
  <2>5. PICK a \in Nat : a = R!Cardinality(X) BY <2>4, FS_CardinalityType, RetentionCardinality
  <2>6. PICK n \in Nat : n = R!MapThenSumSet(LAMBDA c : c.size, X) BY <2>3, HeirsCounted
  <2>7. row(span) = [ from |-> span.from, to |-> span.to,
               confirmedMonths |-> span.confirmedMonths,
               confirmedCohorts |-> span.confirmedCohorts,
               judgedCohorts |-> span.judgedCohorts,
               inheritedCohorts |-> a, inheritedPlayers |-> n ]
    BY <2>2, <2>5, <2>6
  <2> HIDE DEF row, heirs
  <2>q. QED BY <2>1, <2>7 DEF R!ConfirmedSpan, R!ContaminatedSpan
<1> HIDE DEF row, heirs
<1>q. QED BY <1>1, <1>2

LEMMA ReportTyped ==
  ASSUME R!Settings, NEW b \in R!Body, NEW w \in Windows, NEW stale \in BOOLEAN, NEW t
  PROVE  R!ReportOf(w, b, stale, t) \in R!Report
<1>1. PICK v : v = R!Rows(b) OBVIOUS
<1>2. IsBag(v) BY <1>1, RowsAreBag
<1>3. PICK all : all = R!BuildCohorts(v, t) OBVIOUS
<1>4. all \subseteq R!Cohort /\ IsFiniteSet(all) BY <1>2, <1>3, CohortsTyped
<1>5. PICK spans : spans = R!DetectContaminatedSpans(all) OBVIOUS
<1>6. spans \subseteq R!ConfirmedSpan BY <1>2, <1>3, <1>5, SpansTyped
<1>7. PICK applied : applied = R!ApplyContaminatedSpans(all, spans) OBVIOUS
<1>8. applied \subseteq R!Cohort BY <1>4, <1>7, AppliedTyped
<1>9. PICK cohorts : cohorts = R!InWindow(applied, w) OBVIOUS
<1>10. cohorts \in SUBSET R!Cohort BY <1>8, <1>9 DEF R!InWindow
<1>11. PICK source \in R!SourceState : source = R!LoadedState(b, stale) BY LoadedTyped
<1>12. PICK days \in SUBSET R!StampDay : days = R!StampDays(v) BY <1>2, StampsTyped
<1>13. PICK told \in SUBSET R!ContaminatedSpan : told = R!CountInherited(all, spans)
  BY <1>4, <1>6, InheritedTyped
<1>14. PICK un \in BOOLEAN : un = R!Uncovered(w, source, cohorts) BY DEF R!Uncovered
<1>15. R!ReportOf(w, b, stale, t) =
         [ window |-> w, stampDays |-> days, contaminatedSpans |-> told,
           cohorts |-> cohorts, uncovered |-> un, source |-> source ]
  BY <1>1, <1>3, <1>5, <1>7, <1>9, <1>11, <1>12, <1>13, <1>14 DEF R!ReportOf
<1>q. QED BY <1>10, <1>15 DEF R!Report

LEMMA NoReportTyped ==
  ASSUME NEW w \in Windows, NEW f \in R!Failures
  PROVE  R!EmptyReport(w, R!Failed(f)) \in R!Report
<1>1. R!Failed(f) \in R!SourceState BY LostTyped
<1>q. QED BY <1>1 DEF R!EmptyReport, R!Report

LEMMA AnswerTyped ==
  ASSUME R!Settings, NEW b \in R!Body, NEW w \in Windows, NEW stale \in BOOLEAN
  PROVE  R!Answer(w, b, stale) \in R!Report
<1>1. "contract_mismatch" \in R!Failures BY DEF R!Failures
<1>q. QED BY <1>1, ReportTyped, NoReportTyped DEF R!Answer

\* What of the table is not of its bodies.
TableTypes == today \in Clock /\ table \in R!Report /\ asks \in 0..MaxAsks

LEMMA TableTypesInit == ASSUME R!Settings, R!Init PROVE TableTypes
<1>1. MaxAsks \in Nat /\ Windows # {} /\ Clock # {} /\ Clock \subseteq Nat BY DEF R!Settings
<1>2. today \in Clock
  <2>1. PICK n \in Clock : \A m \in Clock : n <= m BY <1>1, Least
  <2>2. today = Min(Clock) BY RetentionNames DEF R!Init
  <2>3. \A k \in Clock : (\A m \in Clock : k <= m) <=> k = n
    <3>1. n \in Nat BY <1>1
    <3>2. \A k \in Clock : k \in Nat BY <1>1
    <3>q. QED BY <2>1, <3>1, <3>2
  <2>4. Min(Clock) = n BY <2>1, <2>3 DEF Min
  <2>q. QED BY <2>2, <2>4
<1>3. R!NoWindow \in Windows BY <1>1 DEF R!NoWindow
<1>4. "unreachable" \in R!Failures BY DEF R!Failures
<1>5. table \in R!Report BY <1>3, <1>4, NoReportTyped DEF R!Init
<1>6. asks = 0 BY DEF R!Init
<1>7. asks \in 0..MaxAsks BY <1>1, <1>6
<1>q. QED BY <1>2, <1>5, <1>7 DEF TableTypes

LEMMA TableTypesNext ==
  ASSUME R!Settings, BodiesOK, TableTypes, [R!Next]_(R!vars)
  PROVE  TableTypes'
<1>1. MaxAsks \in Nat BY DEF R!Settings
<1>2. asks \in 0..MaxAsks /\ today \in Clock /\ table \in R!Report BY DEF TableTypes
<1>3. ASSUME NEW w, R!Asked(w) PROVE asks' \in 0..MaxAsks BY <1>1, <1>2, <1>3 DEF R!Asked
<1>4. [lists |-> lists, batches |-> known, torn |-> torn] \in R!Body BY DEF BodiesOK, R!Body
<1>5. ASSUME NEW w \in Windows, R!Fetch(w) PROVE TableTypes'
  <2>1. R!Asked(w) /\ today' = today BY <1>5 DEF R!Fetch
  <2>2. PICK b \in R!Body : table' = R!Answer(w, b, FALSE) BY <1>4, <1>5 DEF R!Fetch
  <2>3. table' \in R!Report BY <2>2, AnswerTyped
  <2>q. QED BY <1>2, <1>3, <2>1, <2>3 DEF TableTypes
<1>6. ASSUME NEW w \in Windows, NEW s \in BOOLEAN, R!ServeHeld(w, s) PROVE TableTypes'
  <2>1. R!Asked(w) /\ today' = today /\ table' = R!Answer(w, held, s) BY <1>6 DEF R!ServeHeld
  <2>2. held \in R!Body BY DEF BodiesOK
  <2>3. table' \in R!Report BY <2>1, <2>2, AnswerTyped
  <2>q. QED BY <1>2, <1>3, <2>1, <2>3 DEF TableTypes
<1>7. ASSUME NEW w \in Windows, NEW f \in R!Failures, R!Unreachable(w, f) PROVE TableTypes'
  <2>1. R!Asked(w) /\ today' = today /\ table' = R!EmptyReport(w, R!Failed(f))
    BY <1>7 DEF R!Unreachable
  <2>2. table' \in R!Report BY <2>1, NoReportTyped
  <2>q. QED BY <1>2, <1>3, <2>1, <2>2 DEF TableTypes
<1>8. (\E batch \in Batches : R!Collect(batch)) => TableTypes' BY <1>2 DEF R!Collect, TableTypes
<1>9. (\E n \in {0, 2} : R!ContractMoves(n)) => TableTypes' BY <1>2 DEF R!ContractMoves, TableTypes
<1>10. R!RowUnreadable => TableTypes' BY <1>2 DEF R!RowUnreadable, TableTypes
<1>11. (\E d \in Clock : R!Pass(d)) => TableTypes' BY <1>2 DEF R!Pass, TableTypes
<1>12. UNCHANGED R!vars => TableTypes' BY <1>2 DEF R!vars, TableTypes
<1>q. QED BY <1>5, <1>6, <1>7, <1>8, <1>9, <1>10, <1>11, <1>12 DEF R!Next

LEMMA TableTyped == ASSUME BodiesOK, TableTypes PROVE R!TypeOK
BY DEF BodiesOK, TableTypes, R!TypeOK, R!Body

-----------------------------------------------------------------------------
(* The types of the economy's reports.                                     *)

Percents == 0..1000 \cup {E!Undefined}

LEMMA ShareTyped ==
  ASSUME NEW part \in Nat, NEW whole \in Nat, part <= whole
  PROVE  E!ShareOf(part, whole) \in Percents
<1>1. CASE whole = 0 BY <1>1 DEF E!ShareOf, Percents
<1>2. CASE whole > 0
  <2>1. PICK h \in Int, z \in Int : h = whole \div 2 /\ z = whole % 2 OBVIOUS
  <2>2. whole = 2 * h + z /\ 0 <= z /\ z < 2 BY <2>1
  <2>3. h \in Nat /\ h < whole BY <1>2, <2>2
  <2>4. PICK a \in Nat : a = part * 1000 + h BY <2>3
  <2>5. a < 1001 * whole BY <2>3, <2>4
  <2>6. PICK q \in Int, r \in Int : q = a \div whole /\ r = a % whole BY <1>2
  <2>7. a = whole * q + r /\ 0 <= r /\ r < whole BY <1>2, <2>6
  <2>8. q \in Nat BY <1>2, <2>6, DivIsNat
  <2>9. ASSUME q >= 1001 PROVE FALSE
    <3>1. whole * q >= whole * 1001 BY <2>9
    <3>q. QED BY <2>5, <2>7, <3>1
  <2>10. q \in 0..1000 BY <2>8, <2>9
  <2>11. E!ShareOf(part, whole) = q BY <1>2, <2>1, <2>4, <2>6 DEF E!ShareOf
  <2>q. QED BY <2>10, <2>11 DEF Percents
<1>q. QED BY <1>1, <1>2

LEMMA CountShareTyped ==
  ASSUME NEW part \in Nat, NEW whole \in Nat, part <= whole
  PROVE  E!CountShare(part, whole) \in E!Share
<1>1. PICK p : p = E!ShareOf(part, whole) OBVIOUS
<1>2. p \in Percents BY <1>1, ShareTyped
<1>3. E!CountShare(part, whole) = [n |-> whole, percent |-> p] BY <1>1 DEF E!CountShare
<1>q. QED BY <1>2, <1>3 DEF E!Share, Percents

\* The least value of a sample that so much of it does not exceed is of it.
LEMMA PercentileTyped ==
  ASSUME NEW v, IsFiniteSet(DOMAIN v), \A i \in DOMAIN v : v[i] \in Nat,
         NEW share \in Nat, share <= 1000
  PROVE  E!Percentile(v, share) \in Nat \cup {E!Undefined}
<1>1. CASE DOMAIN v = {} BY <1>1 DEF E!Percentile
<1>2. CASE DOMAIN v # {}
  <2>1. PICK S : S = Image(v, DOMAIN v) OBVIOUS
  <2>2. S = E!Range(v) BY <2>1 DEF E!Range, Image
  <2>3. IsFiniteSet(S) BY <2>1, ImageIsFinite
  <2>4. S \subseteq Nat /\ S # {} BY <1>2, <2>1 DEF Image
  <2>5. S \subseteq Int BY <2>4
  <2>6. PICK top : top = Max(S) OBVIOUS
  <2>7. top \in S /\ \A y \in S : y <= top BY <2>3, <2>4, <2>5, <2>6, MaxIsGreatest
  <2>8. \A i \in DOMAIN v : v[i] \in S BY <2>1 DEF Image
  <2>9. {i \in DOMAIN v : v[i] <= top} = DOMAIN v BY <2>7, <2>8
  <2>10. Cardinality(DOMAIN v) \in Nat BY FS_CardinalityType
  <2> DEFINE Fit(y) == 1000 * E!Cardinality({i \in DOMAIN v : v[i] <= y})
                         >= share * E!Cardinality(DOMAIN v)
             A == {y \in S : Fit(y)}
  <2>11. Fit(top)
    <3>1. PICK n \in Nat : n = Cardinality(DOMAIN v) BY <2>10
    <3>2. 1000 * n >= share * n BY <3>1
    <3>3. E!Cardinality(DOMAIN v) = n BY <3>1, EconomyCardinality
    <3>q. QED BY <2>9, <3>2, <3>3
  <2>12. E!Percentile(v, share) = E!Min(A)
    BY <1>2, <2>2 DEF E!Percentile
  <2> HIDE DEF Fit
  <2>13. A \subseteq S /\ A # {} BY <2>7, <2>11
  <2> HIDE DEF A
  <2>14. IsFiniteSet(A) BY <2>3, <2>13, FS_Subset
  <2>15. A \subseteq Int BY <2>5, <2>13
  <2>16. Min(A) \in A BY <2>13, <2>14, <2>15, MinIsLeast
  <2>17. E!Min(A) = Min(A) BY DEF E!Min, Min
  <2>q. QED BY <2>4, <2>12, <2>13, <2>16, <2>17
<1>q. QED BY <1>1, <1>2

LEMMA NoShareTooLarge == 500 <= 1000 /\ 900 <= 1000 /\ 950 <= 1000 OBVIOUS

\* Some of the players: how many they are.
LEMMA SomeOf ==
  ASSUME NEW S, IsFiniteSet(S), NEW T, T \subseteq S
  PROVE  /\ IsFiniteSet(T) /\ E!Cardinality(T) \in Nat /\ E!Cardinality(S) \in Nat
         /\ E!Cardinality(T) <= E!Cardinality(S)
<1>1. IsFiniteSet(T) /\ Cardinality(T) <= Cardinality(S) BY FS_Subset
<1>2. Cardinality(T) \in Nat /\ Cardinality(S) \in Nat BY <1>1, FS_CardinalityType
<1>q. QED BY <1>1, <1>2, EconomyCardinality

\* What some of the rows hold, and that it is no more than all of them.
LEMMA RowsTyped ==
  ASSUME E!Settings, TablesOK, NEW w, NEW rows, rows = E!BuyerRows(w),
         NEW mine, mine \subseteq rows
  PROVE  /\ E!TotalCents(mine) \in Nat /\ E!TotalSales(mine) \in Nat
         /\ E!Cardinality(mine) \in Nat
         /\ E!TotalCents(rows) \in Nat /\ E!TotalCents(mine) <= E!TotalCents(rows)
<1>1. IsFiniteSet(rows) BY BuyerRowsAre
<1>2. IsFiniteSet(mine) /\ E!Cardinality(mine) \in Nat BY <1>1, SomeOf
<1>3. \A r \in rows : r.cents \in Nat /\ r.sales \in Nat BY RowTypes
<1>4. ASSUME NEW X, X \subseteq rows
      PROVE  /\ E!TotalCents(X) = TotalOf([r \in X |-> r.cents], X)
             /\ E!TotalSales(X) = TotalOf([r \in X |-> r.sales], X)
             /\ E!TotalCents(X) \in Nat /\ E!TotalSales(X) \in Nat
  <2> DEFINE c == [r \in X |-> r.cents]
             n == [r \in X |-> r.sales]
  <2>1. IsFiniteSet(X) BY <1>1, <1>4, FS_Subset
  <2>2. DOMAIN c = X /\ DOMAIN n = X OBVIOUS
  <2>3. \A r \in X : c[r] \in Nat /\ n[r] \in Nat BY <1>3, <1>4
  <2>4. E!TotalCents(X) = E!Sum(c) /\ E!TotalSales(X) = E!Sum(n)
    BY DEF E!TotalCents, E!TotalSales
  <2> HIDE DEF c, n
  <2>5. E!Sum(c) = TotalOf(c, X) /\ E!Sum(n) = TotalOf(n, X) BY <2>2, SumIsTotal
  <2>6. TotalOf(c, X) \in Nat BY <2>1, <2>3, TotalNat
  <2>7. TotalOf(n, X) \in Nat BY <2>1, <2>3, TotalNat
  <2>q. QED BY <2>4, <2>5, <2>6, <2>7 DEF c, n
<1>5. E!TotalCents(mine) <= E!TotalCents(rows)
  <2> DEFINE c == [r \in rows |-> r.cents]
             b == [r \in mine |-> r.cents]
  <2>1. E!TotalCents(mine) = TotalOf(b, mine) BY <1>4
  <2>2. E!TotalCents(rows) = TotalOf(c, rows) BY <1>4
  <2>3. \A r \in rows : c[r] \in Nat BY <1>3
  <2>4. \A r \in mine : b[r] = c[r] OBVIOUS
  <2> HIDE DEF c, b
  <2>5. TotalOf(b, mine) = TotalOf(c, mine) BY <1>2, <2>4, TotalSame
  <2>6. TotalOf(c, mine) <= TotalOf(c, rows) BY <1>1, <2>3, TotalOfPart
  <2>q. QED BY <2>1, <2>2, <2>5, <2>6
<1>q. QED BY <1>2, <1>4, <1>5

LEMMA CohortTypedOf ==
  ASSUME E!Settings, NEW p \in Buyers
  PROVE  E!CohortOf(p) \in E!Cohort /\ platformOf[p] \in Platforms
<1>1. E!Month(registered[p]) \in Nat BY MonthIsNat
<1>q. QED BY <1>1 DEF E!CohortOf, E!Cohort, E!Settings

LEMMA PlatformsTyped ==
  ASSUME E!Settings, TablesOK, NEW w, NEW rows, rows = E!BuyerRows(w)
  PROVE  E!ByPlatform(rows) \subseteq E!PlatformRevenue
<1> DEFINE Mine(f) == {r \in rows : platformOf[r.player] = f}
           row(f) ==
             [ platform |-> f, revenue |-> E!TotalCents(Mine(f)),
               sales |-> E!TotalSales(Mine(f)), buyers |-> E!Cardinality(Mine(f)),
               share |-> [ n |-> E!TotalSales(Mine(f)),
                           percent |-> E!ShareOf(E!TotalCents(Mine(f)), E!TotalCents(rows)) ] ]
<1>1. E!ByPlatform(rows) = {row(f) : f \in {platformOf[r.player] : r \in rows}}
  BY DEF E!ByPlatform
<1>2. ASSUME NEW r \in rows PROVE row(platformOf[r.player]) \in E!PlatformRevenue
  <2>1. r.player \in Buyers BY BuyerRowsAre
  <2>2. PICK f \in Platforms : f = platformOf[r.player] BY <2>1, CohortTypedOf
  <2>3. PICK mine : mine = Mine(f) OBVIOUS
  <2>4. mine \subseteq rows BY <2>3
  <2>5. /\ E!TotalCents(mine) \in Nat /\ E!TotalSales(mine) \in Nat /\ E!Cardinality(mine) \in Nat
        /\ E!TotalCents(rows) \in Nat /\ E!TotalCents(mine) <= E!TotalCents(rows)
    BY <2>4, RowsTyped
  <2>6. PICK a \in Nat, b \in Nat, c \in Nat :
          a = E!TotalCents(mine) /\ b = E!TotalSales(mine) /\ c = E!Cardinality(mine)
    BY <2>5
  <2>7. PICK p : p = E!ShareOf(a, E!TotalCents(rows)) OBVIOUS
  <2>11. p \in Percents BY <2>5, <2>6, <2>7, ShareTyped
  <2>8. row(f) = [ platform |-> f, revenue |-> a, sales |-> b, buyers |-> c,
                   share |-> [n |-> b, percent |-> p] ]
    BY <2>3, <2>6, <2>7
  <2>9. [n |-> b, percent |-> p] \in E!Share BY <2>11 DEF E!Share, Percents
  <2>10. row(f) \in E!PlatformRevenue
    <3> HIDE DEF row, Mine
    <3>q. QED BY <2>8, <2>9 DEF E!PlatformRevenue
  <2> HIDE DEF row, Mine
  <2>q. QED BY <2>2, <2>10
<1> HIDE DEF row, Mine
<1>q. QED BY <1>1, <1>2

LEMMA CohortRevenueTyped ==
  ASSUME E!Settings, TablesOK, NEW w, NEW rows, rows = E!BuyerRows(w)
  PROVE  E!ByCohort(rows) \subseteq E!CohortRevenue
<1>1. ASSUME NEW r \in rows PROVE CohortRow(rows, Key(r)) \in E!CohortRevenue
  <2>1. r.player \in Buyers /\ r.cohort = E!CohortOf(r.player) BY BuyerRowsAre
  <2>2. PICK c \in E!Cohort, f \in Platforms : c = r.cohort /\ f = platformOf[r.player]
    BY <2>1, CohortTypedOf
  <2>3. PICK g : g = Key(r) OBVIOUS
  <2>4. g[1] = c /\ g[2] = f BY <2>2, <2>3 DEF Key
  <2>5. PICK mine : mine = OfKey(rows, g) OBVIOUS
  <2>6. mine \subseteq rows BY <2>5 DEF OfKey
  <2>7. PICK a \in Nat, b \in Nat, n \in Nat :
          a = E!TotalCents(mine) /\ b = E!TotalSales(mine) /\ n = E!Cardinality(mine)
    BY <2>6, RowsTyped
  <2>8. CohortRow(rows, g) = [cohort |-> c, platform |-> f, revenue |-> a, sales |-> b, buyers |-> n]
    BY <2>4, <2>5, <2>7 DEF CohortRow
  <2>9. CohortRow(rows, g) \in E!CohortRevenue BY <2>8 DEF E!CohortRevenue
  <2>q. QED BY <2>3, <2>9
<1>q. QED BY <1>1, ByCohortIs DEF KeysOf

LEMMA RevenueTyped ==
  ASSUME E!Settings, TablesOK, NEW w, NEW source \in E!SourceState
  PROVE  E!Revenue(w, source) \in E!RevenueReport
<1>1. PICK rows : rows = E!BuyerRows(w) OBVIOUS
<1>2. PICK mine : mine = {r \in rows : source = "ok" /\ r.cohort # E!UnknownCohort} OBVIOUS
<1>3. mine \subseteq rows /\ rows \subseteq rows BY <1>2
<1>4. PICK a \in Nat, b \in Nat, c \in Nat :
        a = E!TotalCents(rows) /\ b = E!TotalSales(rows) /\ c = E!Cardinality(rows)
  BY <1>1, <1>3, RowsTyped
<1>5. PICK k \in Nat, n \in Nat : k = E!TotalSales(mine) /\ n = E!TotalCents(mine)
  BY <1>1, <1>3, RowsTyped
<1>6. sales \ E!Counted(sales) \in SUBSET sales OBVIOUS
<1>7. PICK es \in Nat, er \in Nat :
        es = E!Cardinality(sales \ E!Counted(sales)) /\ er = E!Cents(sales \ E!Counted(sales))
  BY <1>6, SalesFinite
<1>8. PICK bp \in SUBSET E!PlatformRevenue : bp = E!ByPlatform(rows) BY <1>1, PlatformsTyped
<1>9. PICK bc \in SUBSET E!CohortRevenue : bc = IF source = "ok" THEN E!ByCohort(rows) ELSE {}
  BY <1>1, CohortRevenueTyped
<1>10. PICK why \in E!Unavailable : why = IF source = "ok" THEN "nothing" ELSE "no_source"
  BY DEF E!Unavailable
<1>11. E!Revenue(w, source) =
         [ report |-> "revenue", revenue |-> a, sales |-> b, buyers |-> c, byPlatform |-> bp,
           byCohort |-> bc, unavailable |-> why, salesWithCohort |-> k, revenueWithCohort |-> n,
           excludedSales |-> es, excludedRevenue |-> er, source |-> source ]
  BY <1>1, <1>2, <1>4, <1>5, <1>7, <1>8, <1>9, <1>10 DEF E!Revenue
<1>q. QED BY <1>11 DEF E!RevenueReport

\* The days to a first purchase: a number, be it negative.
LEMMA FirstDayTyped ==
  ASSUME E!Settings, TablesOK, NEW p \in Buyers, E!PurchasesOf(p) # {}
  PROVE  E!Min(E!PurchasesOf(p)) \in Nat
<1>1. PICK sold : sold = {s \in E!Counted(sales) : s.buyer = p} OBVIOUS
<1>2. sold \in SUBSET sales BY <1>1 DEF E!Counted
<1>3. IsFiniteSet(sold) /\ \A s \in sold : s.at \in Nat BY <1>2, SalesFinite DEF E!Sale
<1>4. PICK f : f = [s \in sold |-> s.at] OBVIOUS
<1>5. PICK S : S = Image(f, sold) OBVIOUS
<1>6. S = E!PurchasesOf(p) BY <1>1, <1>4, <1>5 DEF Image, E!PurchasesOf
<1>7. IsFiniteSet(S) BY <1>3, <1>5, ImageIsFinite
<1>8. S \subseteq Nat
  <2>1. \A s \in sold : f[s] \in Nat BY <1>3, <1>4
  <2>q. QED BY <1>5, <2>1 DEF Image
<1>9. S \subseteq Int /\ S # {} BY <1>6, <1>8
<1>10. Min(S) \in S BY <1>7, <1>9, MinIsLeast
<1>11. E!Min(S) = Min(S) BY DEF E!Min, Min
<1>q. QED BY <1>6, <1>8, <1>10, <1>11

LEMMA FirstSpendRowsTyped ==
  ASSUME E!Settings, TablesOK, NEW from, NEW to, NEW rows, rows = E!FirstSpendRows(from, to)
  PROVE  /\ DOMAIN rows \subseteq Buyers
         /\ \A p \in DOMAIN rows : rows[p].days \in Int
<1>1. DOMAIN rows \subseteq Buyers BY DEF E!FirstSpendRows
<1>2. ASSUME NEW p \in DOMAIN rows PROVE rows[p].days \in Int
  <2>1. rows[p].days = IF E!PurchasesOf(p) = {} THEN 0
                       ELSE E!Min(E!PurchasesOf(p)) - registered[p]
    BY DEF E!FirstSpendRows
  <2>2. p \in Buyers /\ registered[p] \in Nat BY <1>1, MonthIsNat
  <2>3. CASE E!PurchasesOf(p) = {} BY <2>1, <2>3
  <2>4. CASE E!PurchasesOf(p) # {}
    <3>1. PICK n \in Nat : n = E!Min(E!PurchasesOf(p)) BY <2>2, <2>4, FirstDayTyped
    <3>q. QED BY <2>1, <2>2, <2>4, <3>1
  <2>q. QED BY <2>3, <2>4
<1>q. QED BY <1>1, <1>2

LEMMA FirstSpendsTyped ==
  ASSUME E!Settings, TablesOK, NEW from, NEW to, NEW rows, rows = E!FirstSpendRows(from, to)
  PROVE  E!CohortFirstSpends(rows) \subseteq E!CohortFirstSpend
<1>1. DOMAIN rows \subseteq Buyers /\ \A p \in DOMAIN rows : rows[p].days \in Int
  BY FirstSpendRowsTyped
<1>2. IsFiniteSet(Buyers) BY EconomyFinite DEF E!Settings
<1>3. ASSUME NEW q \in DOMAIN rows PROVE SpendRow(rows, MonthOf(q)) \in E!CohortFirstSpend
  <2>1. PICK g : g = MonthOf(q) OBVIOUS
  <2>2. PICK m \in Nat, f \in Platforms : m = g[1] /\ f = g[2]
    BY <1>1, <2>1, MonthIsNat, CohortTypedOf DEF MonthOf
  <2>3. PICK members : members = OfMonth(rows, g) OBVIOUS
  <2>4. members \subseteq DOMAIN rows /\ members \subseteq Buyers BY <1>1, <2>3 DEF OfMonth
  <2>5. PICK spent : spent = E!Spenders(rows, members) OBVIOUS
  <2>6. PICK before : before = BeforeOf(rows, g) OBVIOUS
  <2>7. spent \subseteq members /\ before \subseteq members
    BY <2>3, <2>5, <2>6 DEF E!Spenders, BeforeOf
  <2>8. IsFiniteSet(members) BY <1>2, <2>4, FS_Subset
  <2>9. PICK size \in Nat, n \in Nat, b \in Nat :
          /\ size = E!Cardinality(members) /\ n = E!Cardinality(spent)
          /\ b = E!Cardinality(before) /\ n <= size
    BY <2>7, <2>8, SomeOf
  <2>10. PICK v : v = DaysOf(rows, g) OBVIOUS
  <2>11. DOMAIN v \subseteq members BY <2>3, <2>10 DEF DaysOf
  <2>12. IsFiniteSet(DOMAIN v) BY <2>8, <2>11, FS_Subset
  <2>13. ASSUME NEW p \in DOMAIN v PROVE v[p] \in Nat
    <3>1. p \in members /\ rows[p].bought /\ p \notin before /\ v[p] = rows[p].days
      BY <2>3, <2>6, <2>10 DEF DaysOf
    <3>2. ~(rows[p].days < 0) BY <2>3, <2>6, <3>1 DEF BeforeOf
    <3>3. rows[p].days \in Int BY <1>1, <2>4, <3>1
    <3>q. QED BY <3>1, <3>2, <3>3
  <2>14. PICK median : median = E!Percentile(v, 500) OBVIOUS
  <2>15. PICK p90 : p90 = E!Percentile(v, 900) OBVIOUS
  <2>16. median \in Nat \cup {E!Undefined}
    BY <2>12, <2>13, <2>14, PercentileTyped, NoShareTooLarge
  <2>17. p90 \in Nat \cup {E!Undefined}
    BY <2>12, <2>13, <2>15, PercentileTyped, NoShareTooLarge
  <2>18. PICK ever \in E!Share : ever = E!CountShare(n, size) BY <2>9, CountShareTyped
  <2>19. SpendRow(rows, g) =
           [ cohort |-> m, platform |-> f, cohortSize |-> size, spenders |-> n,
             everSpent |-> ever, median |-> median, p90 |-> p90, beforeRegistration |-> b ]
    BY <2>2, <2>3, <2>5, <2>6, <2>9, <2>10, <2>14, <2>15, <2>18 DEF SpendRow
  <2>20. SpendRow(rows, g) \in E!CohortFirstSpend
    BY <2>16, <2>17, <2>19 DEF E!CohortFirstSpend
  <2>q. QED BY <2>1, <2>20
<1>q. QED BY <1>3, FirstSpendsAre DEF MonthsOf

\* What some of the players with a position spent.
SpendType == [players : Nat, spenders : Nat, everSpent : E!Share, revenue : Nat]

LEMMA SpendTyped ==
  ASSUME E!Settings, TablesOK, NEW rows, rows = E!PositionRows,
         NEW mine, mine \subseteq DOMAIN rows
  PROVE  E!Spend(rows, mine) \in SpendType /\ IsFiniteSet(mine)
<1>1. DOMAIN rows \subseteq Buyers /\ \A p \in DOMAIN rows : rows[p].cents \in Nat
  BY PositionRowsAre
<1>2. IsFiniteSet(Buyers) BY EconomyFinite DEF E!Settings
<1>3. mine \subseteq Buyers BY <1>1
<1>4. IsFiniteSet(mine) BY <1>2, <1>3, FS_Subset
<1>5. PICK spent : spent = {p \in mine : rows[p].sales > 0} OBVIOUS
<1>6. spent \subseteq mine BY <1>5
<1>7. PICK a \in Nat, n \in Nat :
        a = E!Cardinality(spent) /\ n = E!Cardinality(mine) /\ a <= n
  BY <1>4, <1>6, SomeOf
<1>8. PICK ever \in E!Share : ever = E!CountShare(a, n) BY <1>7, CountShareTyped
<1>9. PICK v : v = [p \in mine |-> rows[p].cents] OBVIOUS
<1>10. DOMAIN v = mine /\ \A p \in mine : v[p] \in Nat BY <1>1, <1>9
<1>11. E!Sum(v) = TotalOf(v, mine) BY <1>10, SumIsTotal
<1>12. TotalOf(v, mine) \in Nat BY <1>4, <1>10, TotalNat
<1>13. PICK total \in Nat : total = E!Sum(v) BY <1>11, <1>12
<1>14. E!Spend(rows, mine) = [players |-> n, spenders |-> a, everSpent |-> ever, revenue |-> total]
  BY <1>5, <1>7, <1>8, <1>9, <1>13 DEF E!Spend
<1>q. QED BY <1>4, <1>14 DEF SpendType

\* Whoever entered has a step.
LEMMA StepsTyped ==
  ASSUME E!Settings, TablesOK, NEW rows, rows = E!PositionRows, NEW p \in DOMAIN rows
  PROVE  E!Entered(rows[p].at) => rows[p].at.index \in Nat
<1>1. p \in Buyers BY PositionRowsAre
<1>2. positions[p] \in E!Position BY <1>1 DEF TablesOK
<1>3. rows[p].at = positions[p] BY DEF E!PositionRows
<1>4. rows[p].at.index \in Nat \cup {E!Absent} BY <1>2, <1>3 DEF E!Position
<1>q. QED BY <1>4 DEF E!Entered

LEMMA PositionsTyped ==
  ASSUME E!Settings, TablesOK, NEW rows, rows = E!PositionRows
  PROVE  E!ByFunnelPosition(rows) \subseteq E!FunnelPositionSpend
<1>1. E!ByFunnelPosition(rows) =
        {PositionRow(rows, AtPosition(rows, group), group) : group \in E!FunnelPositions}
  BY DEF E!ByFunnelPosition, PositionRow, AtPosition, StepsOf
<1>2. ASSUME NEW group \in E!FunnelPositions
      PROVE  PositionRow(rows, AtPosition(rows, group), group) \in E!FunnelPositionSpend
  <2>1. PICK mine : mine = AtPosition(rows, group) OBVIOUS
  <2>2. mine \subseteq DOMAIN rows BY <2>1 DEF AtPosition
  <2>3. IsFiniteSet(mine) BY <2>2, SpendTyped
  <2>4. PICK x \in SpendType : x = E!Spend(rows, mine) BY <2>2, SpendTyped
  <2>5. PICK v : v = StepsOf(rows, mine) OBVIOUS
  <2>6. DOMAIN v \subseteq mine BY <2>5 DEF StepsOf
  <2>7. IsFiniteSet(DOMAIN v) BY <2>3, <2>6, FS_Subset
  <2>8. ASSUME NEW p \in DOMAIN v PROVE v[p] \in Nat
    <3>1. p \in mine /\ E!Entered(rows[p].at) /\ v[p] = rows[p].at.index
      BY <2>5 DEF StepsOf
    <3>q. QED BY <2>2, <3>1, StepsTyped
  <2>9. PICK median : median = E!Percentile(v, 500) OBVIOUS
  <2>10. median \in Nat \cup {E!Undefined} BY <2>7, <2>8, <2>9, PercentileTyped, NoShareTooLarge
  <2>11. PositionRow(rows, mine, group) =
           [ position |-> group, players |-> x.players, spenders |-> x.spenders,
             everSpent |-> x.everSpent, revenue |-> x.revenue, medianFurthestStep |-> median ]
    BY <2>4, <2>5, <2>9 DEF PositionRow
  <2>12. PositionRow(rows, mine, group) \in E!FunnelPositionSpend
    BY <2>4, <2>10, <2>11 DEF SpendType, E!FunnelPositionSpend
  <2>q. QED BY <2>1, <2>12
<1>q. QED BY <1>1, <1>2

LEMMA FurthestTyped ==
  ASSUME E!Settings, TablesOK, NEW rows, rows = E!PositionRows
  PROVE  E!ByFurthestStep(rows) \subseteq E!FurthestStepSpend
<1> DEFINE Mine(i) == {p \in DOMAIN rows : rows[p].at.index = i}
           row(i) == [ index |-> i, players |-> E!Spend(rows, Mine(i)).players,
                       spenders |-> E!Spend(rows, Mine(i)).spenders,
                       everSpent |-> E!Spend(rows, Mine(i)).everSpent,
                       revenue |-> E!Spend(rows, Mine(i)).revenue ]
<1>1. E!ByFurthestStep(rows) =
        {row(i) : i \in {rows[p].at.index : p \in {p \in DOMAIN rows : E!Entered(rows[p].at)}}}
  BY DEF E!ByFurthestStep
<1>2. ASSUME NEW i \in Nat PROVE row(i) \in E!FurthestStepSpend
  <2>1. PICK mine : mine = Mine(i) OBVIOUS
  <2>2. mine \subseteq DOMAIN rows BY <2>1
  <2>3. PICK x \in SpendType : x = E!Spend(rows, mine) BY <2>2, SpendTyped
  <2>4. row(i) = [ index |-> i, players |-> x.players, spenders |-> x.spenders,
                   everSpent |-> x.everSpent, revenue |-> x.revenue ]
    BY <2>1, <2>3
  <2> HIDE DEF row, Mine
  <2>q. QED BY <2>3, <2>4 DEF SpendType, E!FurthestStepSpend
<1>3. \A p \in DOMAIN rows : E!Entered(rows[p].at) => rows[p].at.index \in Nat BY StepsTyped
<1> HIDE DEF row
<1>q. QED BY <1>1, <1>2, <1>3

\* The positions of a report, with why they are absent.
PositionParts ==
  [ by : SUBSET E!FunnelPositionSpend, steps : SUBSET E!FurthestStepSpend,
    unavailable : E!Unavailable ]

LEMMA NoPartsTyped ==
  ASSUME NEW why \in E!Unavailable
  PROVE  [by |-> {}, steps |-> {}, unavailable |-> why] \in PositionParts
BY DEF PositionParts

LEMMA PartsTyped ==
  ASSUME E!Settings, TablesOK, NEW tutorial \in E!States
  PROVE  E!FunnelPosition(tutorial, E!PositionRows) \in PositionParts
<1>1. PICK rows : rows = E!PositionRows OBVIOUS
<1>2. {"nothing", "no_tutorial_sync", "switch_off"} \subseteq E!Unavailable
  BY DEF E!Unavailable
<1>3. CASE tutorial = "none"
  <2>1. E!FunnelPosition(tutorial, rows) = [by |-> {}, steps |-> {}, unavailable |-> "no_tutorial_sync"]
    BY <1>3 DEF E!FunnelPosition
  <2>q. QED BY <1>1, <1>2, <2>1, NoPartsTyped
<1>4. CASE tutorial = "switch_off"
  <2>1. E!FunnelPosition(tutorial, rows) = [by |-> {}, steps |-> {}, unavailable |-> "switch_off"]
    BY <1>4 DEF E!FunnelPosition
  <2>q. QED BY <1>1, <1>2, <2>1, NoPartsTyped
<1>5. CASE tutorial = "ok"
  <2>1. PICK a \in SUBSET E!FunnelPositionSpend : a = E!ByFunnelPosition(rows)
    BY <1>1, PositionsTyped
  <2>2. PICK b \in SUBSET E!FurthestStepSpend : b = E!ByFurthestStep(rows)
    BY <1>1, FurthestTyped
  <2>3. E!FunnelPosition(tutorial, rows) = [by |-> a, steps |-> b, unavailable |-> "nothing"]
    BY <1>5, <2>1, <2>2 DEF E!FunnelPosition
  <2>q. QED BY <1>1, <1>2, <2>3 DEF PositionParts
<1>q. QED BY <1>3, <1>4, <1>5 DEF E!States

LEMMA FirstSpendReportTyped ==
  ASSUME E!Settings, TablesOK, NEW from, NEW to, NEW source \in E!SourceState,
         NEW parts \in PositionParts
  PROVE  E!FirstSpend(from, to, source, parts) \in E!FirstSpendReport
<1>1. PICK bc \in SUBSET E!CohortFirstSpend :
        bc = IF source = "ok" THEN E!CohortFirstSpends(E!FirstSpendRows(from, to)) ELSE {}
  BY FirstSpendsTyped
<1>2. PICK why \in E!Unavailable : why = IF source = "ok" THEN "nothing" ELSE "no_source"
  BY DEF E!Unavailable
<1>3. E!FirstSpend(from, to, source, parts) =
        [ report |-> "first-spend", byCohort |-> bc, unavailable |-> why,
          byFunnelPosition |-> parts.by, funnelPositionUnavailable |-> parts.unavailable,
          byFurthestStep |-> parts.steps, source |-> source ]
  BY <1>1, <1>2 DEF E!FirstSpend
<1>q. QED BY <1>3 DEF E!FirstSpendReport, PositionParts

LEMMA ContactTyped ==
  ASSUME E!Settings, NEW from, NEW to, NEW source \in E!SourceState
  PROVE  E!Contact(from, to, source) \in E!SocialContactReport
<1>1. PICK rows : rows = {p \in Buyers : /\ lastSeen[p] # E!Absent
                                         /\ from <= E!Month(registered[p])
                                         /\ E!Month(registered[p]) <= to}
  OBVIOUS
<1>2. IsFiniteSet(Buyers) BY EconomyFinite DEF E!Settings
<1>3. rows \subseteq Buyers BY <1>1
<1> DEFINE Mine(group) == {p \in rows : E!ContactGroup(p) = group}
           Mature(group) == {p \in Mine(group) : ~E!Immature(p)}
           Young(group) == {p \in Mine(group) : E!Immature(p)}
           Back(group) == {p \in Mature(group) : E!Survived(p)}
           row(group) ==
             [ group |-> group, players |-> E!Cardinality(Mine(group)),
               immature |-> E!Cardinality(Young(group)),
               d7 |-> E!CountShare(E!Cardinality(Back(group)), E!Cardinality(Mature(group))) ]
           groups == IF source # "ok" THEN {} ELSE {row(group) : group \in E!ContactGroups}
<1>4. E!Contact(from, to, source) =
        [ report |-> "social-contact", groups |-> groups,
          unavailable |-> IF source = "ok" THEN "nothing" ELSE "no_source", source |-> source ]
  BY <1>1 DEF E!Contact
<1>5. ASSUME NEW group \in E!ContactGroups PROVE row(group) \in E!ContactGroupResult
  <2>1. Mine(group) \subseteq rows /\ Young(group) \subseteq rows /\ Mature(group) \subseteq rows
        /\ Back(group) \subseteq Mature(group)
    OBVIOUS
  <2> HIDE DEF Mine, Mature, Young, Back
  <2>2. IsFiniteSet(rows) BY <1>2, <1>3, FS_Subset
  <2>3. IsFiniteSet(Mature(group)) BY <2>1, <2>2, FS_Subset
  <2>4. PICK a \in Nat, b \in Nat :
          a = E!Cardinality(Mine(group)) /\ b = E!Cardinality(Young(group))
    BY <2>1, <2>2, SomeOf
  <2>5. PICK c \in Nat, n \in Nat :
          c = E!Cardinality(Back(group)) /\ n = E!Cardinality(Mature(group)) /\ c <= n
    BY <2>1, <2>3, SomeOf
  <2>6. PICK d7 \in E!Share : d7 = E!CountShare(c, n) BY <2>5, CountShareTyped
  <2>7. row(group) = [group |-> group, players |-> a, immature |-> b, d7 |-> d7]
    BY <2>4, <2>5, <2>6
  <2> HIDE DEF row
  <2>q. QED BY <2>7 DEF E!ContactGroupResult
<1> HIDE DEF row
<1>6. groups \in SUBSET E!ContactGroupResult BY <1>5
<1> HIDE DEF groups
<1>7. PICK why \in E!Unavailable : why = IF source = "ok" THEN "nothing" ELSE "no_source"
  BY DEF E!Unavailable
<1>q. QED BY <1>4, <1>6, <1>7 DEF E!SocialContactReport

\* A mark, where it holds, of two numbers.
LEMMA MarkTyped ==
  ASSUME NEW holds, NEW flag \in E!PaymentFlags, NEW observed, NEW threshold,
         holds => observed \in Nat /\ threshold \in Nat
  PROVE  E!Mark(holds, flag, observed, threshold) \subseteq E!FlagMark
<1>1. CASE ~holds BY <1>1 DEF E!Mark
<1>2. CASE holds
  <2>1. observed \in Nat /\ threshold \in Nat BY <1>2
  <2>2. [flag |-> flag, observed |-> observed, threshold |-> threshold] \in E!FlagMark
    BY <2>1 DEF E!FlagMark
  <2>q. QED BY <1>2, <2>2 DEF E!Mark
<1>q. QED BY <1>1, <1>2

\* The payments of a window: of the ledger, and of positive amounts.
LEMMA WindowTyped ==
  ASSUME E!Settings, TablesOK, NEW days, NEW window, window = E!FeedWindow(days)
  PROVE  /\ window \subseteq Ledger /\ IsFiniteSet(window)
         /\ \A x \in window : x.amount \in Nat
         /\ E!AmountP95(window) \in Nat \cup {E!Undefined}
<1>1. window \subseteq ledger /\ \A x \in window : x.type = E!CanonicalPaymentType
  BY DEF E!FeedWindow
<1>2. window \subseteq Ledger BY <1>1 DEF TablesOK
<1>3. IsFiniteSet(Ledger) BY EconomyFinite DEF E!Settings
<1>4. IsFiniteSet(window) BY <1>2, <1>3, FS_Subset
<1>5. ASSUME NEW x \in window PROVE x.amount \in Nat
  <2>1. x \in Ledger /\ x.type = E!CanonicalPaymentType BY <1>1, <1>2
  <2>2. x.amount \in Int /\ x.amount > 0 BY <2>1 DEF E!Settings, E!Payment
  <2>q. QED BY <2>2
<1>6. PICK v : v = [x \in window |-> x.amount] OBVIOUS
<1>7. DOMAIN v = window /\ \A x \in DOMAIN v : v[x] \in Nat BY <1>5, <1>6
<1>8. PICK p : p = E!Percentile(v, 950) OBVIOUS
<1>9. p \in Nat \cup {E!Undefined} BY <1>4, <1>7, <1>8, PercentileTyped, NoShareTooLarge
<1>10. E!AmountP95(window) = p \/ E!AmountP95(window) = E!Undefined
  BY <1>6, <1>8 DEF E!AmountP95
<1>q. QED BY <1>2, <1>4, <1>5, <1>9, <1>10

LEMMA FeedPaymentTyped ==
  ASSUME E!Settings, TablesOK, NEW days, NEW window, window = E!FeedWindow(days),
         NEW x \in window, NEW p95, p95 = E!AmountP95(window), NEW dates
  PROVE  E!ToFeedPayment(x, window, p95, dates) \in E!FeedPayment
<1>1. /\ window \subseteq Ledger /\ IsFiniteSet(window) /\ x.amount \in Nat
      /\ p95 \in Nat \cup {E!Undefined}
  BY WindowTyped
<1>2. PICK outlier : outlier = (p95 # E!Undefined /\ x.amount > p95) OBVIOUS
<1>3. PICK S : S = {y \in window : y.from = x.from /\ y.to = x.to} OBVIOUS
<1>4. PICK X : X = {y \in window : y.from = x.from} OBVIOUS
<1>5. PICK T : T = {y.to : y \in X} OBVIOUS
<1>6. S \subseteq window /\ X \subseteq window BY <1>3, <1>4
<1>7. PICK pairs \in Nat : pairs = E!Cardinality(S) BY <1>1, <1>6, SomeOf
<1>8. IsFiniteSet(X) BY <1>1, <1>6, FS_Subset
<1>9. IsFiniteSet(T)
  <2>1. PICK f : f = [y \in X |-> y.to] OBVIOUS
  <2>2. Image(f, X) = T BY <1>5, <2>1 DEF Image
  <2>q. QED BY <1>8, <2>2, ImageIsFinite
<1>10. T \subseteq T OBVIOUS
<1>11. PICK fanOut \in Nat : fanOut = E!Cardinality(T) BY <1>9, <1>10, SomeOf
<1>12. PICK age : age = x.at - registered[x.to] OBVIOUS
<1>13. PICK new : new = (x.to \in dates /\ outlier /\ age \in 0..NewAccountDays) OBVIOUS
<1>14. RepeatedPair \in Nat /\ FundingMany \in Nat /\ NewAccountDays \in Nat BY DEF E!Settings
<1>15. PICK M1 : M1 = E!Mark(outlier, "amount_outlier", x.amount, p95) OBVIOUS
<1>16. PICK M2 : M2 = E!Mark(pairs >= RepeatedPair, "repeated_pair", pairs, RepeatedPair) OBVIOUS
<1>17. PICK M3 : M3 = E!Mark(fanOut >= FundingMany, "funding_many", fanOut, FundingMany) OBVIOUS
<1>18. PICK M4 : M4 = E!Mark(new, "new_account_high_value", age, NewAccountDays) OBVIOUS
<1>19. /\ "amount_outlier" \in E!PaymentFlags /\ "repeated_pair" \in E!PaymentFlags
       /\ "funding_many" \in E!PaymentFlags /\ "new_account_high_value" \in E!PaymentFlags
  BY DEF E!PaymentFlags
<1>20. outlier => x.amount \in Nat /\ p95 \in Nat BY <1>1, <1>2
<1>21. new => age \in Nat
  <2>1. new => age \in 0..NewAccountDays BY <1>13, Zenon
  <2>2. age \in 0..NewAccountDays => age \in Nat BY <1>14
  <2>q. QED BY <2>1, <2>2
<1>22. M1 \subseteq E!FlagMark BY <1>15, <1>19, <1>20, MarkTyped
<1>23. M2 \subseteq E!FlagMark BY <1>14, <1>16, <1>19, MarkTyped
<1>24. M3 \subseteq E!FlagMark BY <1>14, <1>17, <1>19, MarkTyped
<1>25. M4 \subseteq E!FlagMark BY <1>14, <1>18, <1>19, <1>21, MarkTyped
<1>26. E!ToFeedPayment(x, window, p95, dates) = [of |-> x, flags |-> M1 \cup M2 \cup M3 \cup M4]
  BY <1>2, <1>3, <1>4, <1>5, <1>7, <1>11, <1>12, <1>13, <1>15, <1>16, <1>17, <1>18
     DEF E!ToFeedPayment
<1>27. PICK M \in SUBSET E!FlagMark : M = M1 \cup M2 \cup M3 \cup M4
  BY <1>22, <1>23, <1>24, <1>25
<1>28. x \in Ledger BY <1>1
<1>q. QED BY <1>26, <1>27, <1>28 DEF E!FeedPayment

LEMMA FeedTyped ==
  ASSUME E!Settings, TablesOK, NEW days, NEW limit, NEW source \in E!SourceState, NEW fails
  PROVE  E!Feed(days, limit, source, fails) \in E!PaymentsFeedReport
<1>1. PICK window : window = E!FeedWindow(days) OBVIOUS
<1>2. /\ window \subseteq Ledger /\ IsFiniteSet(window)
      /\ E!AmountP95(window) \in Nat \cup {E!Undefined}
  BY <1>1, WindowTyped
<1>3. PICK shown : shown = E!Marked(window, limit, E!RegistrationDates(fails)) OBVIOUS
<1>4. shown \subseteq E!FeedPayment
  <2>1. PICK p : p = E!AmountP95(window) OBVIOUS
  <2>2. PICK dates : dates = E!RegistrationDates(fails) OBVIOUS
  <2>3. E!Page(window, limit) \subseteq window BY DEF E!Page
  <2>4. shown = {E!ToFeedPayment(x, window, p, dates) : x \in E!Page(window, limit)}
    BY <1>3, <2>1, <2>2 DEF E!Marked
  <2>5. ASSUME NEW x \in window PROVE E!ToFeedPayment(x, window, p, dates) \in E!FeedPayment
    BY <1>1, <2>1, FeedPaymentTyped
  <2>q. QED BY <2>3, <2>4, <2>5
<1>5. window \subseteq window OBVIOUS
<1>6. E!Cardinality(window) \in Nat BY <1>2, <1>5, SomeOf
<1>7. PICK size \in Nat : size = IF source = "ok" THEN E!Cardinality(window) ELSE 0 BY <1>6
<1>8. PICK p95 : p95 = IF source = "ok" THEN E!AmountP95(window) ELSE E!Undefined OBVIOUS
<1>9. PICK list \in SUBSET E!FeedPayment : list = IF source = "ok" THEN shown ELSE {}
  BY <1>4
<1>10. PICK why \in E!Unavailable : why = IF source = "ok" THEN "nothing" ELSE "no_source"
  BY DEF E!Unavailable
<1>11. E!Feed(days, limit, source, fails) =
         [ report |-> "feed", windowSize |-> size, amountP95 |-> p95, payments |-> list,
           unavailable |-> why, source |-> source ]
  BY <1>1, <1>3, <1>7, <1>8, <1>9, <1>10 DEF E!Feed
<1>12. p95 \in Nat \cup {E!Undefined}
  <2>1. p95 = E!AmountP95(window) \/ p95 = E!Undefined BY <1>8
  <2>q. QED BY <1>2, <2>1
<1>q. QED BY <1>11, <1>12 DEF E!PaymentsFeedReport

LEMMA CreationsTyped ==
  ASSUME created \subseteq Nat, NEW from, NEW to, NEW source \in E!SourceState
  PROVE  E!AccountCreations(from, to, source) \in E!AccountCreationsReport
<1>1. PICK days \in SUBSET Nat :
        days = IF source = "ok" THEN {d \in created : from <= d /\ d <= to} ELSE {}
  OBVIOUS
<1>2. PICK why \in E!Unavailable : why = IF source = "ok" THEN "nothing" ELSE "no_source"
  BY DEF E!Unavailable
<1>3. E!AccountCreations(from, to, source) =
        [report |-> "account-creations", days |-> days, unavailable |-> why, source |-> source]
  BY <1>1, <1>2 DEF E!AccountCreations
<1>q. QED BY <1>3 DEF E!AccountCreationsReport

\* A report being made.
Asking == [ endpoint : E!Endpoints, source : E!SourceState, asOf : SUBSET Buyers,
            tutorial : E!States, position : PositionParts ]

\* What of the types the other invariant has no need of.
EconomyTypes ==
  /\ events \in 0..MaxEvents /\ ranAt \in Days \cup {E!Absent} /\ created \subseteq Nat
  /\ wrote \subseteq Buyers /\ asOf \subseteq Buyers
  /\ asking = E!Idle \/ asking \in Asking
  /\ answer = E!NoAnswer \/ answer \in E!Answers

LEMMA ReplyTyped ==
  ASSUME E!Settings, EconomyIInv, EconomyTypes, asking # E!Idle,
         NEW w, NEW limit, NEW fails
  PROVE  E!Reply(asking.endpoint, w, limit, fails) \in E!Answers
<1>1. TablesOK BY TablesHold
<1>2. asking \in Asking /\ created \subseteq Nat BY DEF EconomyTypes
<1>3. PICK e \in E!Endpoints : e = asking.endpoint BY <1>2 DEF Asking
<1>4. asking.source \in E!SourceState /\ asking.position \in PositionParts BY <1>2 DEF Asking
<1>5. CASE e = "revenue"
  <2>1. E!Reply(e, w, limit, fails) = E!Revenue(w, asking.source) BY <1>5 DEF E!Reply
  <2>q. QED BY <1>1, <1>3, <1>4, <2>1, RevenueTyped DEF E!Answers
<1>6. CASE e = "first-spend"
  <2>1. E!Reply(e, w, limit, fails) =
          E!FirstSpend(E!Month(w.from), E!Month(w.to), asking.source, asking.position)
    BY <1>6 DEF E!Reply
  <2>q. QED BY <1>1, <1>3, <1>4, <2>1, FirstSpendReportTyped DEF E!Answers
<1>7. CASE e = "social-contact"
  <2>1. E!Reply(e, w, limit, fails) = E!Contact(E!Month(w.from), E!Month(w.to), asking.source)
    BY <1>7 DEF E!Reply
  <2>q. QED BY <1>3, <1>4, <2>1, ContactTyped DEF E!Answers
<1>8. CASE e = "feed"
  <2>1. E!Reply(e, w, limit, fails) = E!Feed(w.to - w.from, limit, asking.source, fails)
    BY <1>8 DEF E!Reply
  <2>q. QED BY <1>1, <1>3, <1>4, <2>1, FeedTyped DEF E!Answers
<1>9. CASE e = "account-creations"
  <2>1. E!Reply(e, w, limit, fails) = E!AccountCreations(w.from, w.to, asking.source)
    BY <1>9 DEF E!Reply
  <2>q. QED BY <1>2, <1>3, <1>4, <2>1, CreationsTyped DEF E!Answers
<1>q. QED BY <1>5, <1>6, <1>7, <1>8, <1>9 DEF E!Endpoints

LEMMA StateTyped ==
  ASSUME NEW cs, NEW failing PROVE E!StateOf(cs, failing) \in E!SourceState
BY DEF E!StateOf, E!SourceState, E!Failures

LEMMA EconomyTypesInit == ASSUME E!Settings, E!Init PROVE EconomyTypes
<1>1. MaxEvents \in Nat BY DEF E!Settings
<1>2. /\ events = 0 /\ created = {} /\ asking = E!Idle /\ answer = E!NoAnswer /\ ranAt = E!Absent
      /\ wrote = {} /\ asOf = {}
  BY DEF E!Init
<1>3. events \in 0..MaxEvents BY <1>1, <1>2
<1>q. QED BY <1>2, <1>3 DEF EconomyTypes

LEMMA EconomyTypesNext ==
  ASSUME E!Settings, EconomyIInv, EconomyTypes, [E!Next]_(E!vars)
  PROVE  EconomyTypes'
<1> DEFINE Counts == events' \in 0..MaxEvents
           Tables == /\ ranAt' \in Days \cup {E!Absent} /\ created' \subseteq Nat
                     /\ wrote' \subseteq Buyers
           Asks == asking' = E!Idle \/ asking' \in Asking
           Told == /\ answer' = E!NoAnswer \/ answer' \in E!Answers
                   /\ asOf' \subseteq Buyers
<1>0. /\ Counts /\ Tables /\ Asks /\ Told => EconomyTypes'
      /\ events' = events => Counts
      /\ ranAt' = ranAt /\ created' = created /\ wrote' = wrote => Tables
      /\ asking' = asking => Asks
      /\ answer' = answer /\ asOf' = asOf => Told
  BY DEF EconomyTypes
<1>1. events < MaxEvents /\ events' = events + 1 => Counts
  <2>1. MaxEvents \in Nat /\ events \in 0..MaxEvents BY DEF E!Settings, EconomyTypes
  <2>q. QED BY <2>1
<1>2. asking' = E!Idle => Asks OBVIOUS
<1>3. E!Write => Counts /\ Asks /\ Told BY <1>0, <1>1 DEF E!Write
<1> HIDE DEF Counts, Told
<1>4. ASSUME NEW s, E!Sold(s) PROVE EconomyTypes' BY <1>0, <1>3, <1>4 DEF E!Sold
<1>5. ASSUME NEW found \in SUBSET Buyers, NEW seen \in SUBSET Buyers,
             E!DimensionSynced(found, seen)
      PROVE  EconomyTypes'
  <2>1. day \in Days BY DEF EconomyIInv
  <2>2. ranAt' = day /\ created' = created /\ wrote' = found BY <1>5 DEF E!DimensionSynced
  <2>3. Tables BY <2>1, <2>2 DEF EconomyTypes
  <2>q. QED BY <1>0, <1>3, <1>5, <2>3 DEF E!DimensionSynced
<1>6. ASSUME NEW rows, E!PaymentsSynced(rows) PROVE EconomyTypes'
  <2>1. \A p \in Buyers : registered[p] \in Nat BY MonthIsNat
  <2>2. /\ created' = {registered[p] : p \in {p \in Buyers : registered[p] <= day}}
        /\ ranAt' = ranAt /\ wrote' = wrote
    BY <1>6 DEF E!PaymentsSynced
  <2>3. Tables BY <2>1, <2>2 DEF EconomyTypes
  <2>q. QED BY <1>0, <1>3, <1>6, <2>3 DEF E!PaymentsSynced
<1>7. ASSUME NEW found, E!TutorialSynced(found) PROVE EconomyTypes'
  BY <1>0, <1>3, <1>7 DEF E!TutorialSynced
<1>8. E!TutorialSyncedWithoutPositions => EconomyTypes'
  BY <1>0, <1>3 DEF E!TutorialSyncedWithoutPositions
<1>9. E!DayPasses => EconomyTypes' BY <1>0 DEF E!DayPasses, E!tables
<1>10. ASSUME NEW e \in E!Endpoints, NEW failing, E!Ask(e, failing) PROVE EconomyTypes'
  <2>1. /\ UNCHANGED <<ranAt, created, wrote, answer, asOf>>
        /\ events < MaxEvents /\ events' = events + 1
        /\ asking' = [ endpoint |-> e, source |-> E!StateOf(E!Needs[e], failing),
                       asOf |-> IF /\ "dimension" \in E!Needs[e]
                                   /\ E!StateOf(E!Needs[e], failing) = "ok" THEN wrote ELSE {},
                       tutorial |-> E!TutorialState(failing), position |-> E!NoPosition ]
    BY <1>10 DEF E!Ask, E!tables
  <2>2. E!TutorialState(failing) \in E!States
    <3>1. provenance \in [E!Copies -> E!States] BY DEF EconomyIInv
    <3>2. provenance["tutorial"] \in E!States BY <3>1 DEF E!Copies
    <3>q. QED BY <3>2 DEF E!TutorialState, E!States
  <2>3. "no_tutorial_sync" \in E!Unavailable BY DEF E!Unavailable
  <2>4. E!NoPosition \in PositionParts BY <2>3, NoPartsTyped DEF E!NoPosition
  <2>5. PICK source \in E!SourceState : source = E!StateOf(E!Needs[e], failing) BY StateTyped
  <2>6. PICK whom \in SUBSET Buyers :
          whom = IF "dimension" \in E!Needs[e] /\ source = "ok" THEN wrote ELSE {}
    BY DEF EconomyTypes
  <2>7. asking' = [ endpoint |-> e, source |-> source, asOf |-> whom,
                    tutorial |-> E!TutorialState(failing), position |-> E!NoPosition ]
    BY <2>1, <2>5, <2>6
  <2>8. asking' \in Asking BY <2>2, <2>4, <2>7 DEF Asking
  <2>q. QED BY <1>0, <1>1, <2>1, <2>8
<1>11. ASSUME E!ReadPositions PROVE EconomyTypes'
  <2>1. /\ UNCHANGED <<events, ranAt, created, wrote, answer, asOf>>
        /\ asking.endpoint = "first-spend"
        /\ asking' = [asking EXCEPT !.tutorial = "none",
                        !.position = E!FunnelPosition(asking.tutorial, E!PositionRows)]
    BY <1>11 DEF E!ReadPositions, E!tables
  <2>2. asking # E!Idle BY <2>1 DEF E!Idle
  <2>3. asking \in Asking BY <2>2 DEF EconomyTypes
  <2>4. asking.tutorial \in E!States BY <2>3 DEF Asking
  <2>5. TablesOK BY TablesHold
  <2>6. PICK parts \in PositionParts : parts = E!FunnelPosition(asking.tutorial, E!PositionRows)
    BY <2>4, <2>5, PartsTyped
  <2>7. "none" \in E!States BY DEF E!States
  <2>8. asking' = [asking EXCEPT !.tutorial = "none", !.position = parts] BY <2>1, <2>6
  <2>9. asking' \in Asking BY <2>3, <2>7, <2>8 DEF Asking
  <2>q. QED BY <1>0, <2>1, <2>9
<1>12. ASSUME NEW limit, NEW fails, E!Answer(E!Everything, limit, fails) PROVE EconomyTypes'
  <2>1. /\ UNCHANGED <<events, ranAt, created, wrote>> /\ asking' = E!Idle /\ asking # E!Idle
        /\ asOf' = asking.asOf
        /\ answer' = E!Reply(asking.endpoint, E!Everything, limit, fails)
    BY <1>12 DEF E!Answer, E!tables
  <2>2. answer' \in E!Answers BY <2>1, ReplyTyped
  <2>3. asking.asOf \subseteq Buyers BY <2>1 DEF EconomyTypes, Asking
  <2>4. Told BY <2>1, <2>2, <2>3 DEF Told
  <2>q. QED BY <1>0, <1>2, <2>1, <2>4
<1>13. E!RequestFails => EconomyTypes' BY <1>0, <1>2 DEF E!RequestFails, E!tables
<1>14. UNCHANGED E!vars => EconomyTypes' BY <1>0 DEF E!vars, E!tables
<1>q. QED BY <1>4, <1>5, <1>6, <1>7, <1>8, <1>9, <1>10, <1>11, <1>12, <1>13, <1>14 DEF E!Next

LEMMA EconomyTyped == ASSUME E!Settings, EconomyIInv, EconomyTypes PROVE E!TypeOK
<1>1. \A s \in sales : s \in E!Sale BY DEF EconomyIInv, E!Settings
<1>2. \A x \in ledger : x \in E!Payment BY DEF EconomyIInv, E!Settings
<1>3. asking = E!Idle \/ asking.endpoint \in E!Endpoints BY DEF EconomyTypes, Asking
<1>q. QED BY <1>1, <1>2, <1>3 DEF EconomyIInv, EconomyTypes, E!TypeOK

-----------------------------------------------------------------------------
(* The types of all five.                                                  *)

CopiesTyped    == topic = "copies" => IInv
RetentionTyped == BodiesOK /\ TableTypes
HealthHolds    == topic = "health" => HealthIInv /\ HealthTypes
WeeklyHolds    == topic = "weekly" => WeeklyIInv /\ FunnelIInv /\ WeeklyTypes
ReportsHold    == topic = "economy" => EconomyIInv /\ EconomyTypes

TypesHold == CopiesTyped /\ RetentionTyped /\ HealthHolds /\ WeeklyHolds /\ ReportsHold

LEMMA TypesHoldInit == ReadInit => TypesHold
<1> SUFFICES ASSUME ReadInit PROVE TypesHold OBVIOUS
<1>0. R!Settings /\ H!Settings /\ W!Settings /\ E!Settings BY ReadAssumption DEF ReadAssumption
<1>1. CopiesTyped BY InitOK DEF ReadInit, CopiesTyped
<1>2. RetentionTyped BY <1>0, BodiesInitOK, TableTypesInit DEF ReadInit, RetentionTyped
<1>3. HealthHolds BY <1>0, HealthInitOK, HealthTypesInit DEF ReadInit, HealthHolds
<1>4. WeeklyHolds BY <1>0, WeeklyInitOK, FunnelInitOK, WeeklyTypesInit DEF ReadInit, WeeklyHolds
<1>5. ReportsHold BY <1>0, EconomyInitOK, EconomyTypesInit DEF ReadInit, ReportsHold
<1>q. QED BY <1>1, <1>2, <1>3, <1>4, <1>5 DEF TypesHold

LEMMA TypesHoldNext == TypesHold /\ [ReadNext]_readVars => TypesHold'
<1> SUFFICES ASSUME TypesHold, [ReadNext]_readVars PROVE TypesHold' OBVIOUS
<1>0. R!Settings /\ H!Settings /\ W!Settings /\ E!Settings BY ReadAssumption DEF ReadAssumption
<1>1. CopiesTyped' BY OneTopic, NextOK DEF TypesHold, CopiesTyped
<1>2. RetentionTyped' BY <1>0, OneTopic, BodiesNextOK, TableTypesNext DEF TypesHold, RetentionTyped
<1>3. ASSUME topic' = "health" PROVE HealthIInv' /\ HealthTypes'
  <2>1. topic = "health" /\ [H!Next]_healthVars BY <1>3, OneTopic
  <2>2. HealthIInv /\ HealthTypes BY <2>1 DEF TypesHold, HealthHolds
  <2>3. [H!Next]_(H!healthVars) BY <2>1 DEF healthVars, H!healthVars
  <2>q. QED BY <1>0, <2>2, <2>3, HealthNextOK, HealthTypesNext
<1>4. ASSUME topic' = "weekly" PROVE WeeklyIInv' /\ FunnelIInv' /\ WeeklyTypes'
  <2>1. topic = "weekly" /\ [W!Next]_weeklyVars BY <1>4, OneTopic
  <2>2. WeeklyIInv /\ FunnelIInv /\ WeeklyTypes BY <2>1 DEF TypesHold, WeeklyHolds
  <2>3. [W!Next]_(W!weeklyVars) BY <2>1 DEF weeklyVars, W!weeklyVars
  <2>q. QED BY <1>0, <2>2, <2>3, WeeklyNextOK, FunnelNextOK, WeeklyTypesNext
<1>5. ASSUME topic' = "economy" PROVE EconomyIInv' /\ EconomyTypes'
  <2>1. topic = "economy" /\ [E!Next]_(E!vars) BY <1>5, OneTopic
  <2>2. EconomyIInv /\ EconomyTypes BY <2>1 DEF TypesHold, ReportsHold
  <2>q. QED BY <1>0, <2>1, <2>2, EconomyNextOK, EconomyTypesNext
<1>6. HealthHolds' /\ WeeklyHolds' /\ ReportsHold'
  BY <1>3, <1>4, <1>5 DEF HealthHolds, WeeklyHolds, ReportsHold
<1>q. QED BY <1>1, <1>2, <1>6 DEF TypesHold

\* The tables and all that is told of them are of their types: every answer,
\* summary, section and table the staff is given is one its type describes, no
\* count negative, no share above the whole and no notice too long, for any
\* data and settings.
\* Code: the report types of retention.service.ts, instrumentation-health.service.ts,
\* weekly-report.builder.ts and the economy's *.service.ts
THEOREM ReadTyped == ReadSpec => []ReadTypeOK
<1>1. TypesHold => ReadTypeOK
  <2>0. R!Settings /\ H!Settings /\ W!Settings /\ E!Settings BY ReadAssumption DEF ReadAssumption
  <2>1. ASSUME TypesHold, topic = "copies" PROVE TypeOK
    BY <2>1 DEF TypesHold, CopiesTyped, IInv
  <2>2. ASSUME TypesHold PROVE R!TypeOK BY <2>2, TableTyped DEF TypesHold, RetentionTyped
  <2>3. ASSUME TypesHold, topic = "health" PROVE H!TypeOK
    BY <2>0, <2>3, HealthTyped DEF TypesHold, HealthHolds
  <2>4. ASSUME TypesHold, topic = "weekly" PROVE W!TypeOK
    BY <2>0, <2>4, WeeklyTyped DEF TypesHold, WeeklyHolds
  <2>5. ASSUME TypesHold, topic = "economy" PROVE E!TypeOK
    BY <2>0, <2>5, EconomyTyped DEF TypesHold, ReportsHold
  <2>q. QED BY <2>1, <2>2, <2>3, <2>4, <2>5 DEF ReadTypeOK
<1>q. QED BY <1>1, TypesHoldInit, TypesHoldNext, PTL DEF ReadSpec, readVars
=============================================================================
