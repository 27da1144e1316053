----------------------------- MODULE HealthChecks ------------------------------
(***************************************************************************)
(* The seven checks of the instrumentation and the summary the panel makes *)
(* of their stored verdicts (InstrumentationHealthService).                *)
(*                                                                         *)
(* A cycle takes one reading of the Plan API, of Plan's database and of    *)
(* the tutorial's copy, runs the checks over the servers it is configured  *)
(* for and stores a row per verdict; HealthAlerts has what becomes of the  *)
(* rows in Discord.  The summary reads the newest row of every name ever   *)
(* stored, whatever is configured now.  The clock counts minutes, shares   *)
(* are per thousand, and Null is a number the source did not report.       *)
(***************************************************************************)
EXTENDS Integers, Sequences, FiniteSets, FiniteSetsExt, SequencesExt

CONSTANTS
  Proxy,            \* PLAN_PROXY_SERVER
  Servers,          \* the names PLAN_SERVERS may hold
  Deployments,      \* [servers, enabled]: what the backend is started with
  Readings,         \* what a cycle may find
  MinEntryRate,     \* FUNNEL_MIN_TUTORIAL_ENTRY_RATE
  MinSample,        \* FUNNEL_MIN_SAMPLE, PLATFORM_OFFLINE_MIN_SAMPLE
  MaxSyncAge,       \* TUTORIAL_MAX_SYNC_AGE_HOURS
  OfflineWindow,    \* PLATFORM_OFFLINE_WINDOW_DAYS
  MaxOfflineShare,  \* PLATFORM_OFFLINE_SHARE_MAX
  MaxSilence,       \* PROXY_REGISTRATION_MAX_SILENCE_HOURS
  Interval,         \* HEALTH_CHECK_INTERVAL_MINUTES
  MaxMinutes,       \* bound: the clock
  MaxDeploys        \* bound: restarts with another configuration

Null == -1

-----------------------------------------------------------------------------
(* What the sources answer.                                                *)

Answers == {"fails", "unreadable", "ok"}

\* parseServerOverview: "unreadable" is a body without a timestamp; a number
\* that is a sentinel of Plan's is Null.
Overview == [ answer : Answers, newPlayers : Nat \cup {Null},
              uniqueDay : Nat \cup {Null}, online : Nat \cup {Null} ]

PlayerPlatforms == {"bedrock", "java_premium", "java_offline", "unknown"}

\* So many players of a platform who registered so long ago, when that can be
\* read.  The instants are the game's and the clock is the backend's: an age
\* below zero is a registration ahead of it.
PlayerRow == [platform : PlayerPlatforms, dated : BOOLEAN, age : Int, n : Nat]

PlayersTable == [answer : Answers, players : SUBSET PlayerRow]

\* plan_users: how many there are and how long ago the last one came, when that
\* can be read; below zero, too, when it is ahead of the clock.
PlanUsers == [answer : Answers, total : Nat \cup {Null}, dated : BOOLEAN, silence : Int]

PlanServerRow == [name : Servers, version : Nat \cup {Null}]

PlanServers == [answer : Answers, catalogue : SUBSET PlanServerRow]

\* The tutorial's copy; a negative age is a run in the future.
TutorialCopy == [answer : Answers, synced : BOOLEAN, age : Int, entered : Nat]

Reading ==
  [ overview : [Servers -> Overview], table : [Servers -> PlayersTable],
    users : PlanUsers, catalogue : PlanServers, tutorial : TutorialCopy ]

-----------------------------------------------------------------------------
(* The checks.                                                             *)

Registry ==
  << "plan.collection_alive", "plan.version_divergence", "plan.orphan_instance",
     "platform.offline_account_share", "plan.proxy_registration_alive",
     "funnel.network_to_survival", "funnel.tutorial_entry_rate" >>

AcceptedBlindSpots == {"funnel.network_to_survival"}

Verdicts == {"ok", "breached", "no_data", "error"}

\* ScopedCheckName: a check and the server it is about, or the network.
Network == "network"
CheckName == [check : Range(Registry), target : Servers \cup {Network}]

Backends(servers) == Range(servers) \ {Proxy}

CollectionAlive(overview) ==
  IF overview.answer # "ok" THEN "error"
  ELSE IF Null \in {overview.online, overview.uniqueDay} THEN "no_data"
  ELSE IF overview.online > 0 /\ overview.uniqueDay = 0 THEN "breached"
  ELSE "ok"

VersionDivergence(source) ==
  LET versioned == {row \in source.catalogue : row.version # Null}
  IN  IF source.answer # "ok" \/ source.catalogue = {} THEN "error"
      ELSE IF Cardinality(versioned) < 2 THEN "no_data"
      ELSE IF Cardinality({row.version : row \in versioned}) > 1 THEN "breached"
      ELSE "ok"

\* An empty catalogue is the wrong database; an empty configuration leaves
\* nothing to compare.
OrphanInstance(source, configured) ==
  IF source.answer # "ok" \/ source.catalogue = {} THEN "error"
  ELSE IF configured = {} THEN "no_data"
  ELSE IF {row.name : row \in source.catalogue} = configured THEN "ok"
  ELSE "breached"

CountOf(rows) == MapThenSumSet(LAMBDA row : row.n, rows)

\* Who registered since the window began, be it ahead of the clock.
PlatformOfflineShare(table) ==
  LET arrivals == {row \in table.players : row.dated /\ row.age <= OfflineWindow}
      offline  == {row \in arrivals : row.platform = "java_offline"}
  IN  IF table.answer # "ok" THEN "error"
      ELSE IF CountOf(arrivals) < MinSample THEN "no_data"
      ELSE IF 1000 * CountOf(offline) > MaxOfflineShare * CountOf(arrivals) THEN "breached"
      ELSE "ok"

\* Nobody ever registered is the wrong database too, and a date that cannot be
\* read is no silence.  A last registration ahead of the clock is: for as long
\* as it is ahead nothing can exceed the limit.
ProxyRegistrationAlive(users) ==
  IF users.answer # "ok" \/ users.total \in {Null, 0} \/ ~users.dated THEN "error"
  ELSE IF users.silence > MaxSilence THEN "breached"
  ELSE "ok"

\* tutorialFreshness: never run, run in the future, or too long ago.
TutorialFresh(tutorial) == tutorial.synced /\ tutorial.age \in 0..MaxSyncAge

\* The numerator is of the whole network, the denominator of one server: above
\* 100% the ratio means nothing, and passes.
TutorialEntryRate(tutorial, overview) ==
  IF tutorial.answer # "ok" \/ ~TutorialFresh(tutorial) \/ overview.answer # "ok" THEN "error"
  ELSE IF overview.newPlayers = Null \/ overview.newPlayers < MinSample THEN "no_data"
  ELSE IF 1000 * tutorial.entered < MinEntryRate * overview.newPlayers THEN "breached"
  ELSE "ok"

\* Structurally blind: there is no source for the denominator.
NetworkToSurvival == "no_data"

PerBackend == Range(Registry) \ {"plan.version_divergence", "plan.orphan_instance",
                                 "plan.proxy_registration_alive"}

\* The status one check gives a server, or the network.
Status(check, target, reading, servers) ==
  CASE check = "plan.collection_alive" -> CollectionAlive(reading.overview[target])
    [] check = "plan.version_divergence" -> VersionDivergence(reading.catalogue)
    [] check = "plan.orphan_instance" -> OrphanInstance(reading.catalogue, Range(servers))
    [] check = "platform.offline_account_share" -> PlatformOfflineShare(reading.table[target])
    [] check = "plan.proxy_registration_alive" -> ProxyRegistrationAlive(reading.users)
    [] check = "funnel.network_to_survival" -> NetworkToSurvival
    [] check = "funnel.tutorial_entry_rate" ->
         TutorialEntryRate(reading.tutorial, reading.overview[target])

Targets(check, servers) ==
  IF check \in PerBackend THEN Backends(servers) ELSE {Network}

\* runChecks: what a cycle has a verdict of; a name twice in PLAN_SERVERS gives
\* one observation.
Observed(name, servers) == name.target \in Targets(name.check, servers)

\* What a reading must say of a server, or of the network, for all to be well.
Sound(name, reading, servers) ==
  CASE name.check = "plan.collection_alive" ->
         LET o == reading.overview[name.target]
         IN  /\ o.answer = "ok" /\ {o.online, o.uniqueDay} \subseteq Nat
             /\ o.uniqueDay > 0 \/ o.online = 0
    [] name.check = "plan.version_divergence" ->
         \E a, b \in reading.catalogue.catalogue :
           /\ a # b /\ a.version = b.version /\ a.version \in Nat
           /\ \A row \in reading.catalogue.catalogue : row.version \in {Null, a.version}
    [] name.check = "plan.orphan_instance" ->
         Range(servers) = {row.name : row \in reading.catalogue.catalogue} /\ servers # <<>>
    [] name.check = "platform.offline_account_share" ->
         LET known(f) == CountOf({row \in reading.table[name.target].players :
                                    row.dated /\ OfflineWindow >= row.age /\ row.platform \in f})
         IN  /\ known(PlayerPlatforms) >= MinSample
             /\ known({"java_offline"}) * 1000 <= known(PlayerPlatforms) * MaxOfflineShare
    [] name.check = "plan.proxy_registration_alive" ->
         /\ reading.users.total > 0
         /\ reading.users.dated /\ reading.users.silence \in 0..MaxSilence
    [] name.check = "funnel.network_to_survival" -> FALSE
    [] name.check = "funnel.tutorial_entry_rate" ->
         /\ reading.tutorial.synced /\ reading.tutorial.age \in 0..MaxSyncAge
         /\ reading.overview[name.target].newPlayers >= MinSample
         /\ reading.tutorial.entered * 1000
              >= reading.overview[name.target].newPlayers * MinEntryRate

\* The proxy's check has nothing to tell a silence by.
Ahead(name, reading) ==
  /\ name.check = "plan.proxy_registration_alive"
  /\ reading.users.dated /\ reading.users.silence < 0

\* What the proofs need of the constants.
Settings ==
  /\ IsFiniteSet(Servers)
  /\ {MinEntryRate, MinSample, MaxSyncAge, OfflineWindow, MaxOfflineShare, MaxSilence,
      Interval, MaxMinutes, MaxDeploys} \subseteq Nat
  /\ \A to \in Deployments : to.servers \in Seq(Servers) /\ to.enabled \in BOOLEAN
  /\ \A reading \in Readings :
       /\ reading \in Reading
       /\ IsFiniteSet(reading.catalogue.catalogue)
       /\ \A s \in Servers : IsFiniteSet(reading.table[s].players)

-----------------------------------------------------------------------------
VARIABLES
  minute,      \* the database's clock
  deployment,  \* what the backend runs with
  deploys,     \* restarts so far
  latest       \* the newest row of each persisted name

healthVars == <<minute, deployment, deploys, latest>>

NoRow == [status |-> "none"]

\* A stored verdict, and whether all was well when it was made, or could not be
\* told for a registration ahead of the clock (history).
Row == [status : Verdicts, at : Nat, sound : BOOLEAN, ahead : BOOLEAN]

Records == {name \in CheckName : latest[name].status # "none"}

Init ==
  /\ minute = 0 /\ deploys = 0
  /\ deployment \in Deployments
  /\ latest = [name \in CheckName |-> NoRow]

\* A cycle of the runner stores all its rows at once, or none when it fails.
\* Bound: one of them in a minute.
Cycle(reading) ==
  /\ deployment.enabled
  /\ \A name \in Records : latest[name].at < minute
  /\ latest' =
       [ name \in CheckName |->
           IF Observed(name, deployment.servers)
           THEN [ status |-> Status(name.check, name.target, reading, deployment.servers),
                  at |-> minute, sound |-> Sound(name, reading, deployment.servers),
                  ahead |-> Ahead(name, reading) ]
           ELSE latest[name] ]
  /\ UNCHANGED <<minute, deployment, deploys>>

\* The backend is started with other servers, or with the schedule off.
Deploy(to) ==
  /\ deploys < MaxDeploys
  /\ deployment' = to
  /\ deploys' = deploys + 1
  /\ UNCHANGED <<minute, latest>>

MinutePasses ==
  /\ minute < MaxMinutes
  /\ minute' = minute + 1
  /\ UNCHANGED <<deployment, deploys, latest>>

Next ==
  \/ \E reading \in Readings : Cycle(reading)
  \/ \E to \in Deployments : Deploy(to)
  \/ MinutePasses

Spec == Init /\ [][Next]_healthVars

-----------------------------------------------------------------------------
(* InstrumentationHealthService.summary                                    *)

MissedCyclesBeforeStale == 2

\* staleCutoff, isStale: with the schedule off nothing that is stored is a
\* measurement any more.
IsStale(at) ==
  \/ ~deployment.enabled
  \/ at < minute - Interval * MissedCyclesBeforeStale

IsBlind(name) == name.check \in AcceptedBlindSpots
Measuring == {name \in Records : ~IsBlind(name)}

Tally(status) == Cardinality({name \in Measuring : latest[name].status = status})

Reporting == {name.check : name \in Records}
Missing   == Range(Registry) \ Reporting

\* Faulty variant: one row that arrived lately vouches for the others.
AnyStaleByNewest == Records = {} \/ \A name \in Records : IsStale(latest[name].at)

AnyStale == Records = {} \/ \E name \in Records : IsStale(latest[name].at)

ResolveStatus ==
  IF Measuring = {} THEN "unknown"
  ELSE IF AnyStale \/ Tally("error") > 0 THEN "down"
  ELSE IF Cardinality(Missing) > Cardinality(Reporting) THEN "down"
  ELSE IF Tally("breached") > 0 \/ Tally("no_data") > 0 \/ Missing # {} THEN "degraded"
  ELSE "ok"

Summary ==
  [ status |-> ResolveStatus, stale |-> AnyStale, total |-> Cardinality(Records),
    counts |-> [s \in Verdicts |-> Tally(s)],
    failing |-> {name \in Measuring : latest[name].status # "ok"},
    staleChecks |-> {name \in Records : IsStale(latest[name].at)},
    blindSpots |-> {name \in Records : IsBlind(name)}, missing |-> Missing ]

SummaryDto ==
  [ status : {"unknown", "down", "degraded", "ok"}, stale : BOOLEAN, total : Nat,
    counts : [Verdicts -> Nat], failing : SUBSET CheckName,
    staleChecks : SUBSET CheckName, blindSpots : SUBSET CheckName,
    missing : SUBSET Range(Registry) ]

-----------------------------------------------------------------------------
(* Properties.                                                             *)

\* The rows are verdicts over readings, and the summary is a DTO.
TypeOK ==
  /\ minute \in 0..MaxMinutes /\ deploys \in 0..MaxDeploys
  /\ deployment \in Deployments
  /\ \A name \in Records : latest[name] \in Row /\ latest[name].at <= minute
  /\ Summary \in SummaryDto

\* A green panel is a measurement: the schedule runs, every check that can
\* measure has said something of some server, and each of the newest things
\* said is younger than two cycles and stands on sources that answered, with a
\* base big enough.  Nothing is green because it is absent, frozen, or could
\* not be read; a yellow one is current, too.  There is one exception: the
\* proxy's check takes a last registration ahead of the clock for one that has
\* just come, however long ago collection stopped; tutorialFreshness refuses
\* the like.
\* Code: instrumentation-health.service.ts summary, resolveStatus, staleCutoff,
\* proxy-registration-alive.check.ts
OkMeansMeasured ==
  LET measured == {name \in CheckName : latest[name].status # "none"}
      current  == deployment.enabled /\ \A name \in measured : latest[name].at + 2 * Interval >= minute
  IN  /\ Summary.status \in {"ok", "degraded"} => current /\ measured # {}
      /\ Summary.status = "ok" =>
           /\ {name.check : name \in measured} = Range(Registry)
           /\ \A name \in measured :
                \/ name.check = "funnel.network_to_survival"
                \/ latest[name].sound
                \/ name.check = "plan.proxy_registration_alive" /\ latest[name].ahead
=============================================================================
