---------------------------- MODULE EconomyReports ----------------------------
(***************************************************************************)
(* The reports of the economy layer: revenue and first spend              *)
(* (EconomyService), social contact (SocialService), the payments feed     *)
(* (PaymentsFeedService) and account creations (AccountCreationsService).  *)
(*                                                                         *)
(* Each asks a provenance table whether a copy was ever filled, then reads *)
(* the copies; the nightly jobs write between the two, all at once as far  *)
(* as one statement can see (EconomySync has the jobs).  The sales are the *)
(* backend's own.  Dates are days, money is integer cents, shares are in   *)
(* tenths of a percent.                                                    *)
(***************************************************************************)
EXTENDS Integers, FiniteSets, FiniteSetsExt, Functions

CONSTANTS
  Platforms, Players,
  platformOf,         \* platformOf: the platform of a player's id
  registered,         \* the day Plan first saw each player
  DaysPerMonth,
  Shop,               \* sales that may come in
  Ledger,             \* rows of the payments table that may come in
  Progress,           \* what the tutorial scan may find of the players' positions
  ContactDays,        \* ECONOMY_SOCIAL_CONTACT_MINUTES, in days
  TutorialAmount,     \* ECONOMY_TUTORIAL_PAYMENT_AMOUNT
  RepeatedPair, FundingMany, NewAccountDays, MinWindowForOutlier,
  Clock,              \* bound: days on which something happens
  MaxEvents           \* bound: writes of the tables and reports, together

Month(day) == day \div DaysPerMonth

-----------------------------------------------------------------------------
(* economy-math.ts                                                         *)

Undefined == -1

Sum(v) == MapThenSumSet(LAMBDA x : v[x], DOMAIN v)

\* shareOf: half a tenth rounds up; nothing of nothing is not zero.
ShareOf(part, whole) ==
  IF whole = 0 THEN Undefined ELSE (part * 1000 + whole \div 2) \div whole

\* percentile, nearest rank: the least value that so much of the sample does
\* not exceed.
Percentile(sample, perMille) ==
  IF DOMAIN sample = {} THEN Undefined
  ELSE Min({ v \in Range(sample) :
               1000 * Cardinality({i \in DOMAIN sample : sample[i] <= v})
                 >= perMille * Cardinality(DOMAIN sample) })

-----------------------------------------------------------------------------
(* What is published.                                                      *)

Share == [n : Nat, percent : 0..1000 \cup {Undefined}]

CountShare(part, whole) == [n |-> whole, percent |-> ShareOf(part, whole)]

Failures == {"never_synced", "query_failed"}
SourceState == {"ok"} \cup Failures

UnknownCohort == -1
Cohort == Nat \cup {UnknownCohort}

PlatformRevenue ==
  [platform : Platforms, revenue : Nat, sales : Nat, buyers : Nat, share : Share]

CohortRevenue ==
  [cohort : Cohort, platform : Platforms, revenue : Nat, sales : Nat, buyers : Nat]

\* Why a list is null; nothing stands for a list that is there, be it empty.
Unavailable == {"nothing", "no_source", "no_tutorial_sync", "switch_off"}

RevenueReport ==
  [ report : {"revenue"}, revenue : Nat, sales : Nat, buyers : Nat,
    byPlatform : SUBSET PlatformRevenue,
    byCohort : SUBSET CohortRevenue, unavailable : Unavailable,
    salesWithCohort : Nat, revenueWithCohort : Nat,
    excludedSales : Nat, excludedRevenue : Nat, source : SourceState ]

CohortFirstSpend ==
  [ cohort : Nat, platform : Platforms, cohortSize : Nat, spenders : Nat,
    everSpent : Share, median : Nat \cup {Undefined}, p90 : Nat \cup {Undefined},
    beforeRegistration : Nat ]

FunnelPositions == {"nao_entrou", "entrou_nao_concluiu", "concluiu"}

FunnelPositionSpend ==
  [ position : FunnelPositions, players : Nat, spenders : Nat, everSpent : Share,
    revenue : Nat, medianFurthestStep : Nat \cup {Undefined} ]

FurthestStepSpend ==
  [index : Nat, players : Nat, spenders : Nat, everSpent : Share, revenue : Nat]

FirstSpendReport ==
  [ report : {"first-spend"}, byCohort : SUBSET CohortFirstSpend,
    unavailable : Unavailable, byFunnelPosition : SUBSET FunnelPositionSpend,
    funnelPositionUnavailable : Unavailable, byFurthestStep : SUBSET FurthestStepSpend, source : SourceState ]

ContactGroups == {"spontaneous", "tutorial_only", "none"}

ContactGroupResult ==
  [group : ContactGroups, players : Nat, immature : Nat, d7 : Share]

SocialContactReport ==
  [ report : {"social-contact"}, groups : SUBSET ContactGroupResult,
    unavailable : Unavailable, source : SourceState ]

PaymentFlags ==
  {"amount_outlier", "repeated_pair", "funding_many", "new_account_high_value"}

FlagMark == [flag : PaymentFlags, observed : Nat, threshold : Nat]

FeedPayment == [of : Ledger, flags : SUBSET FlagMark]

PaymentsFeedReport ==
  [ report : {"feed"}, windowSize : Nat, amountP95 : Nat \cup {Undefined},
    payments : SUBSET FeedPayment, unavailable : Unavailable, source : SourceState ]

AccountCreationsReport ==
  [ report : {"account-creations"}, days : SUBSET Nat, unavailable : Unavailable,
    source : SourceState ]

-----------------------------------------------------------------------------
(* The tables.                                                             *)

VARIABLES
  day,         \* the clock
  events,      \* writes and reports so far
  sales,       \* sales
  dimension,   \* player_dimension: the last_seen_at of each player
  payments,    \* player_payments
  creations,   \* account_creations_daily: the days with a row
  positions,   \* tutorial_player_position
  provenance,  \* of each copy, what its newest successful run says
  ranAt,       \* when that of the dimension ran
  wrote,       \* and whom it wrote; nobody if there is none
  asking,      \* a report being made
  answer,      \* the last one made
  asOf         \* whom the run wrote that it is dated by

tables == <<sales, dimension, payments, creations, positions, provenance, ranAt, wrote>>
vars   == <<day, events, tables, asking, answer, asOf>>

Absent == -1    \* no row in a table

Sale     == [id : Nat, buyer : Players, at : Nat, cents : Nat, historical : BOOLEAN]
\* Of the two rows of a payment, the one with the positive amount.
CanonicalPaymentType == "PAY_RECEIVER"

Payment  == [ id : Nat, from : Players, to : Players, at : Nat, amount : Int,
              type : {"PAY_RECEIVER", "PAY_SENDER"} ]
Position == [completed : BOOLEAN, index : Nat \cup {Absent}]

NoProgress == [completed |-> FALSE, index |-> Absent]
Entered(position) == position.index # Absent

Everything == [from |-> 0, to |-> 1000000]

\* What the proofs need of the constants.
Settings ==
  /\ IsFiniteSet(Players) /\ IsFiniteSet(Shop) /\ Shop \subseteq Sale
  /\ registered \in [Players -> Nat] /\ platformOf \in [Players -> Platforms]
  /\ DaysPerMonth \in Nat \ {0}
  /\ Clock # {} /\ Clock \subseteq 0..Everything.to
  /\ Progress \subseteq [Players -> Position]
  /\ IsFiniteSet(Ledger) /\ Ledger \subseteq Payment
  /\ {RepeatedPair, FundingMany, NewAccountDays, MaxEvents} \subseteq Nat
  /\ \A x \in Ledger : x.type = CanonicalPaymentType <=> x.amount > 0

-----------------------------------------------------------------------------
(* EconomyService.revenue                                                  *)

Counted(sold) == {s \in sold : ~s.historical}

Cents(sold) == Sum([s \in sold |-> s.cents])

CohortOf(p) == IF dimension[p] = Absent THEN UnknownCohort ELSE Month(registered[p])

\* windowPredicate: the whole of the last day included.
Within(s, w) == w.from <= s.at /\ s.at < w.to + 1

\* buyerRows: a row for each player who bought in the window.
BuyerRows(w) ==
  { LET sold == {s \in Counted(sales) : s.buyer = p /\ Within(s, w)}
    IN  [ player |-> p, cents |-> Cents(sold), sales |-> Cardinality(sold),
          cohort |-> CohortOf(p) ] :
      p \in {s.buyer : s \in {s \in Counted(sales) : Within(s, w)}} }

TotalCents(rows) == Sum([r \in rows |-> r.cents])
TotalSales(rows) == Sum([r \in rows |-> r.sales])

ByPlatform(rows) ==
  { LET mine == {r \in rows : platformOf[r.player] = f}
    IN  [ platform |-> f, revenue |-> TotalCents(mine), sales |-> TotalSales(mine),
          buyers |-> Cardinality(mine),
          share |-> [ n |-> TotalSales(mine),
                      percent |-> ShareOf(TotalCents(mine), TotalCents(rows)) ] ] :
      f \in {platformOf[r.player] : r \in rows} }

ByCohort(rows) ==
  { LET mine == {r \in rows : r.cohort = g[1] /\ platformOf[r.player] = g[2]}
    IN  [ cohort |-> g[1], platform |-> g[2], revenue |-> TotalCents(mine),
          sales |-> TotalSales(mine), buyers |-> Cardinality(mine) ] :
      g \in {<<r.cohort, platformOf[r.player]>> : r \in rows} }

Revenue(w, source) ==
  LET rows  == BuyerRows(w)
      known == {r \in rows : source = "ok" /\ r.cohort # UnknownCohort}
  IN  [ report |-> "revenue", revenue |-> TotalCents(rows),
        sales |-> TotalSales(rows), buyers |-> Cardinality(rows),
        byPlatform |-> ByPlatform(rows),
        byCohort |-> IF source = "ok" THEN ByCohort(rows) ELSE {},
        unavailable |-> IF source = "ok" THEN "nothing" ELSE "no_source",
        salesWithCohort |-> TotalSales(known), revenueWithCohort |-> TotalCents(known),
        excludedSales |-> Cardinality(sales \ Counted(sales)),
        excludedRevenue |-> Cents(sales \ Counted(sales)), source |-> source ]

-----------------------------------------------------------------------------
(* EconomyService.firstSpend: of the whole cohort, not of its buyers.      *)

PurchasesOf(p) == {s.at : s \in {s \in Counted(sales) : s.buyer = p}}

\* firstSpendRows, with the days to the first purchase; negative when the
\* player bought before Plan first saw them.
FirstSpendRows(from, to) ==
  [ p \in {p \in Players : /\ dimension[p] # Absent
                           /\ from <= Month(registered[p]) /\ Month(registered[p]) <= to} |->
      [ bought |-> PurchasesOf(p) # {},
        days |-> IF PurchasesOf(p) = {} THEN 0 ELSE Min(PurchasesOf(p)) - registered[p] ] ]

\* Faulty variant: who bought before the registration is not a spender.
SpendersInOrder(rows, members) == {p \in members : rows[p].bought /\ rows[p].days >= 0}

\* The percentiles keep the usable intervals; a spender is whoever bought.
Spenders(rows, members) == {p \in members : rows[p].bought}

CohortFirstSpends(rows) ==
  { LET members == { p \in DOMAIN rows :
                       Month(registered[p]) = g[1] /\ platformOf[p] = g[2] }
        before  == {p \in members : rows[p].bought /\ rows[p].days < 0}
        days    == [p \in {p \in members : rows[p].bought} \ before |-> rows[p].days]
        n       == Cardinality(Spenders(rows, members))
    IN  [ cohort |-> g[1], platform |-> g[2], cohortSize |-> Cardinality(members),
          spenders |-> n, everSpent |-> CountShare(n, Cardinality(members)),
          median |-> Percentile(days, 500), p90 |-> Percentile(days, 900),
          beforeRegistration |-> Cardinality(before) ] :
      g \in {<<Month(registered[p]), platformOf[p]>> : p \in DOMAIN rows} }

\* positionRows: everybody Plan knows and everybody with progress.
PositionRows ==
  [ p \in {p \in Players : dimension[p] # Absent \/ Entered(positions[p])} |->
      LET sold == {s \in Counted(sales) : s.buyer = p}
      IN  [at |-> positions[p], sales |-> Cardinality(sold), cents |-> Cents(sold)] ]

PositionOf(row) ==
  CASE ~Entered(row.at) -> "nao_entrou"
    [] Entered(row.at) /\ row.at.completed -> "concluiu"
    [] Entered(row.at) /\ ~row.at.completed -> "entrou_nao_concluiu"

Spend(rows, mine) ==
  LET spenders == Cardinality({p \in mine : rows[p].sales > 0})
  IN  [ players |-> Cardinality(mine), spenders |-> spenders,
        everSpent |-> CountShare(spenders, Cardinality(mine)),
        revenue |-> Sum([p \in mine |-> rows[p].cents]) ]

ByFunnelPosition(rows) ==
  { LET mine  == {p \in DOMAIN rows : PositionOf(rows[p]) = group}
        spend == Spend(rows, mine)
        steps == [p \in {p \in mine : Entered(rows[p].at)} |-> rows[p].at.index]
    IN  [ position |-> group, players |-> spend.players, spenders |-> spend.spenders,
          everSpent |-> spend.everSpent, revenue |-> spend.revenue,
          medianFurthestStep |-> Percentile(steps, 500) ] :
      group \in FunnelPositions }

ByFurthestStep(rows) ==
  { LET spend == Spend(rows, {p \in DOMAIN rows : rows[p].at.index = i})
    IN  [ index |-> i, players |-> spend.players, spenders |-> spend.spenders,
          everSpent |-> spend.everSpent, revenue |-> spend.revenue ] :
      i \in {rows[p].at.index : p \in {p \in DOMAIN rows : Entered(rows[p].at)}} }

\* funnelPosition: no run at all, and a run without positions, are two absences.
FunnelPosition(tutorial, rows) ==
  CASE tutorial = "none" ->
         [by |-> {}, steps |-> {}, unavailable |-> "no_tutorial_sync"]
    [] tutorial = "switch_off" ->
         [by |-> {}, steps |-> {}, unavailable |-> "switch_off"]
    [] tutorial = "ok" ->
         [by |-> ByFunnelPosition(rows), steps |-> ByFurthestStep(rows), unavailable |-> "nothing"]

FirstSpend(from, to, source, position) ==
  [ report |-> "first-spend",
    byCohort |-> IF source = "ok" THEN CohortFirstSpends(FirstSpendRows(from, to))
                 ELSE {},
    unavailable |-> IF source = "ok" THEN "nothing" ELSE "no_source",
    byFunnelPosition |-> position.by, funnelPositionUnavailable |-> position.unavailable,
    byFurthestStep |-> position.steps,
    source |-> source ]

-----------------------------------------------------------------------------
(* SocialService.contact                                                   *)

\* contactRows: the payments of a player's first days, of either side; one of
\* the two rows each payment has.
FirstContacts(p) ==
  { x \in payments :
      /\ x.type = CanonicalPaymentType
      /\ p \in {x.from, x.to}
      /\ registered[p] <= x.at /\ x.at < registered[p] + ContactDays }

Magnitude(x) == IF x.amount < 0 THEN -x.amount ELSE x.amount

ContactGroup(p) ==
  CASE \E x \in FirstContacts(p) : Magnitude(x) # TutorialAmount -> "spontaneous"
    [] FirstContacts(p) # {} /\ \A x \in FirstContacts(p) : Magnitude(x) = TutorialAmount
         -> "tutorial_only"
    [] FirstContacts(p) = {} -> "none"

\* A player too young for a D7 is counted, and not in its base.
Immature(p) == day - registered[p] < 7
Survived(p) == dimension[p] - registered[p] >= 7

Contact(from, to, source) ==
  LET rows == {p \in Players : /\ dimension[p] # Absent
                              /\ from <= Month(registered[p]) /\ Month(registered[p]) <= to}
  IN  [ report |-> "social-contact",
        groups |->
          IF source # "ok" THEN {}
          ELSE { LET mine   == {p \in rows : ContactGroup(p) = group}
                     mature == {p \in mine : ~Immature(p)}
                 IN  [ group |-> group, players |-> Cardinality(mine),
                       immature |-> Cardinality({p \in mine : Immature(p)}),
                       d7 |-> CountShare(Cardinality({p \in mature : Survived(p)}),
                                         Cardinality(mature)) ] :
                 group \in ContactGroups },
        unavailable |-> IF source = "ok" THEN "nothing" ELSE "no_source",
        source |-> source ]

-----------------------------------------------------------------------------
(* PaymentsFeedService.feed                                                *)

\* The newest first; a later row is of a higher id.
Newer(x, y) == x.at > y.at \/ (x.at = y.at /\ x.id > y.id)

Page(window, limit) == {x \in window : Cardinality({y \in window : Newer(y, x)}) < limit}

AmountP95(window) ==
  IF Cardinality(window) >= MinWindowForOutlier
  THEN Percentile([x \in window |-> x.amount], 950) ELSE Undefined

Mark(holds, flag, observed, threshold) ==
  IF holds THEN {[flag |-> flag, observed |-> observed, threshold |-> threshold]} ELSE {}

\* toFeedPayment: the marks of one payment, with what they were held against.
ToFeedPayment(x, window, p95, known) ==
  LET outlier == p95 # Undefined /\ x.amount > p95
      pairs   == Cardinality({y \in window : y.from = x.from /\ y.to = x.to})
      fanOut  == Cardinality({y.to : y \in {y \in window : y.from = x.from}})
      age     == x.at - registered[x.to]
  IN  [ of |-> x,
        flags |->
          Mark(outlier, "amount_outlier", x.amount, p95)
            \cup Mark(pairs >= RepeatedPair, "repeated_pair", pairs, RepeatedPair)
            \cup Mark(fanOut >= FundingMany, "funding_many", fanOut, FundingMany)
            \cup Mark(x.to \in known /\ outlier /\ age \in 0..NewAccountDays,
                      "new_account_high_value", age, NewAccountDays) ]

FeedWindow(days) ==
  {x \in payments : x.type = CanonicalPaymentType /\ x.at >= day - days}

\* Faulty variant: the marks are of the page.
MarkedByPage(window, limit, known) ==
  LET page == Page(window, limit)
  IN  {ToFeedPayment(x, page, AmountP95(page), known) : x \in page}

\* The marks are of the whole window, the page only chooses what is shown.
Marked(window, limit, known) ==
  {ToFeedPayment(x, window, AmountP95(window), known) : x \in Page(window, limit)}

\* registrationDates: none of them when the query fails, and the mark is lost.
RegistrationDates(fails) == {p \in Players : ~fails /\ dimension[p] # Absent}

Feed(days, limit, source, fails) ==
  LET window == FeedWindow(days)
  IN  [ report |-> "feed",
        windowSize |-> IF source = "ok" THEN Cardinality(window) ELSE 0,
        amountP95 |-> IF source = "ok" THEN AmountP95(window) ELSE Undefined,
        payments |-> IF source = "ok" THEN Marked(window, limit, RegistrationDates(fails)) ELSE {},
        unavailable |-> IF source = "ok" THEN "nothing" ELSE "no_source",
        source |-> source ]

\* AccountCreationsService.series.
AccountCreations(from, to, source) ==
  [ report |-> "account-creations",
    days |-> IF source = "ok" THEN {d \in creations : from <= d /\ d <= to} ELSE {},
    unavailable |-> IF source = "ok" THEN "nothing" ELSE "no_source",
    source |-> source ]

-----------------------------------------------------------------------------
(* The tables change.                                                      *)

Copies == {"dimension", "payments", "tutorial"}
States == {"none", "ok", "switch_off"}

Endpoints == {"revenue", "first-spend", "social-contact", "feed", "account-creations"}

Idle == [endpoint |-> "none"]
NoAnswer == [report |-> "none"]

Init ==
  /\ day = Min(Clock) /\ events = 0
  /\ sales = {} /\ payments = {} /\ creations = {}
  /\ dimension = [p \in Players |-> Absent]
  /\ positions = [p \in Players |-> NoProgress]
  /\ provenance = [c \in Copies |-> "none"]
  /\ asking = Idle
  /\ answer = NoAnswer /\ asOf = {}
  /\ ranAt = Absent /\ wrote = {}

Write ==
  /\ events < MaxEvents
  /\ events' = events + 1
  /\ UNCHANGED <<day, asking, answer, asOf>>

\* A sale of the plugin, or one of the import; SaleDelivery has how they come.
Sold(s) ==
  /\ Write
  /\ s \notin sales /\ s.at <= day
  /\ sales' = sales \cup {s}
  /\ UNCHANGED <<dimension, payments, creations, positions, provenance, ranAt, wrote>>

\* A night's run of the player dimension.  Plan tells of players it knows by
\* now, not always of all of them: a row that cannot be read is dropped, and
\* passes the floor (EconomySync).  Those found are written, with who was seen
\* since; the others keep the row they had, or have none.
DimensionSynced(found, seen) ==
  /\ Write
  /\ found # {} /\ \A p \in found : registered[p] <= day
  /\ dimension' = [p \in Players |->
       IF p \notin found THEN dimension[p]
       ELSE IF p \in seen THEN day ELSE Max({dimension[p], registered[p]})]
  /\ provenance' = [provenance EXCEPT !["dimension"] = "ok"]
  /\ ranAt' = day /\ wrote' = found
  /\ UNCHANGED <<sales, payments, creations, positions>>

\* No payments at all are refused.  (Here every account creation has a day.)
PaymentsSynced(rows) ==
  /\ Write
  /\ rows # {} /\ \A x \in rows : x.at <= day
  /\ payments' = payments \cup rows
  /\ creations' = {registered[p] : p \in {p \in Players : registered[p] <= day}}
  /\ provenance' = [provenance EXCEPT !["payments"] = "ok"]
  /\ UNCHANGED <<sales, dimension, positions, ranAt, wrote>>

\* TUTORIAL_POSITION_ENABLED is on: the positions are replaced; off: they stay.
TutorialSynced(found) ==
  /\ Write
  /\ positions' = found
  /\ provenance' = [provenance EXCEPT !["tutorial"] = "ok"]
  /\ UNCHANGED <<sales, dimension, payments, creations, ranAt, wrote>>

TutorialSyncedWithoutPositions ==
  /\ Write
  /\ provenance' = [provenance EXCEPT !["tutorial"] = "switch_off"]
  /\ UNCHANGED <<sales, dimension, payments, creations, positions, ranAt, wrote>>

DayPasses ==
  /\ asking = Idle
  /\ \E d \in Clock : day < d /\ day' = d
  /\ UNCHANGED <<events, tables, asking, answer, asOf>>

-----------------------------------------------------------------------------
(* A report is made: provenance first, then the rows.                      *)

\* Faulty variant: a copy is taken for filled when the query fails.
StateOfTrusting(copies, failing) ==
  IF \E c \in copies \ failing : provenance[c] = "none" THEN "never_synced" ELSE "ok"

\* dimensionState, sourceState: of the copies, whether each was ever filled;
\* a query that fails is told apart from a copy never filled.
StateOf(copies, failing) ==
  IF failing \cap copies # {} THEN "query_failed"
  ELSE IF \E c \in copies : provenance[c] = "none" THEN "never_synced"
  ELSE "ok"

Needs ==
  [ e \in Endpoints |->
      CASE e \in {"revenue", "first-spend"} -> {"dimension"}
        [] e = "social-contact" -> {"dimension", "payments"}
        [] e \in {"feed", "account-creations"} -> {"payments"} ]

\* lastSuccessfulSync of the tutorial; unreadable counts as none.
TutorialState(failing) ==
  IF "tutorial" \in failing THEN "none" ELSE provenance["tutorial"]

NoPosition == [by |-> {}, steps |-> {}, unavailable |-> "no_tutorial_sync"]

Ask(e, failing) ==
  /\ asking = Idle
  /\ events < MaxEvents
  /\ events' = events + 1
  /\ asking' = [ endpoint |-> e, source |-> StateOf(Needs[e], failing),
                 asOf |-> IF "dimension" \in Needs[e] /\ StateOf(Needs[e], failing) = "ok"
                          THEN wrote ELSE {},
                 tutorial |-> TutorialState(failing), position |-> NoPosition ]
  /\ UNCHANGED <<day, tables, answer, asOf>>

\* firstSpend awaits the positions before it reads the cohorts.
ReadPositions ==
  /\ asking.endpoint = "first-spend"
  /\ asking.tutorial # "none"
  /\ asking' = [asking EXCEPT !.tutorial = "none",
                              !.position = FunnelPosition(asking.tutorial, PositionRows)]
  /\ UNCHANGED <<day, events, tables, answer, asOf>>

\* A window, and the page of a feed.
Reply(e, w, limit, fails) ==
  CASE e = "revenue" -> Revenue(w, asking.source)
    [] e = "first-spend" ->
         FirstSpend(Month(w.from), Month(w.to), asking.source, asking.position)
    [] e = "social-contact" -> Contact(Month(w.from), Month(w.to), asking.source)
    [] e = "feed" -> Feed(w.to - w.from, limit, asking.source, fails)
    [] e = "account-creations" -> AccountCreations(w.from, w.to, asking.source)

Answer(w, limit, fails) ==
  /\ asking # Idle
  /\ asking.endpoint = "first-spend" => asking.tutorial = "none"
  /\ answer' = Reply(asking.endpoint, w, limit, fails)
  /\ asOf' = asking.asOf
  /\ asking' = Idle
  /\ UNCHANGED <<day, events, tables>>

\* A query on the rows fails: the request does, and no report is made.
RequestFails ==
  /\ asking # Idle
  /\ asking' = Idle
  /\ UNCHANGED <<day, events, tables, answer, asOf>>

Next ==
  \/ \E s \in Shop : Sold(s)
  \/ \E found \in SUBSET Players, seen \in SUBSET Players :
       seen \subseteq found /\ DimensionSynced(found, seen)
  \/ \E rows \in SUBSET Ledger : PaymentsSynced(rows)
  \/ \E found \in Progress : TutorialSynced(found)
  \/ TutorialSyncedWithoutPositions
  \/ DayPasses
  \/ \E e \in Endpoints, failing \in SUBSET Copies : Cardinality(failing) <= 1 /\ Ask(e, failing)
  \/ ReadPositions
  \/ \E limit \in {1, Cardinality(Ledger)}, fails \in BOOLEAN : Answer(Everything, limit, fails)
  \/ RequestFails

Spec == Init /\ [][Next]_vars

-----------------------------------------------------------------------------
(* Properties.                                                             *)

Answers ==
  RevenueReport \cup FirstSpendReport \cup SocialContactReport
    \cup PaymentsFeedReport \cup AccountCreationsReport

\* Every report is well formed: a share over nothing has no percentage, no
\* amount is negative, and a list that is null says why.
TypeOK ==
  /\ day \in Clock /\ events \in 0..MaxEvents
  /\ \A s \in sales : s \in Sale
  /\ \A x \in payments : x \in Payment
  /\ dimension \in [Players -> Nat \cup {Absent}]
  /\ positions \in [Players -> Position]
  /\ provenance \in [Copies -> States] /\ ranAt \in Clock \cup {Absent}
  /\ wrote \subseteq Players /\ asOf \subseteq Players
  /\ asking = Idle \/ asking.endpoint \in Endpoints
  /\ answer = NoAnswer \/ answer \in Answers

NoneAsked == asking = Idle /\ answer = NoAnswer

\* Asked of the same tables, the endpoints agree with one another and with the
\* sales: each sale that is not of the import is in the totals once, in one
\* platform and in one cohort; of every cohort that registered, the spenders
\* of one report are the buyers of the other, whatever the order of purchase
\* and registration; and the three positions share out everybody known, with
\* their sales.  (It is of the tables only: it is enough to look at it before
\* anything is asked.)
\* Code: economy.service.ts revenue, firstSpend, funnelPosition
ReportsAgree ==
  NoneAsked =>
  LET r == Revenue(Everything, "ok")
      f == CohortFirstSpends(FirstSpendRows(0, Everything.to))
      g == ByFunnelPosition(PositionRows)
      known == {p \in Players : dimension[p] # Absent \/ Entered(positions[p])}
  IN  /\ r.revenue + r.excludedRevenue = Cents(sales)
      /\ \A split \in {r.byPlatform, r.byCohort} :
           /\ r.revenue = Sum([x \in split |-> x.revenue])
           /\ r.sales = Sum([x \in split |-> x.sales])
           /\ r.buyers = Sum([x \in split |-> x.buyers])
      /\ \A x \in f :
           /\ x.spenders =
                Sum([y \in {y \in r.byCohort : y.cohort = x.cohort /\ y.platform = x.platform} |->
                       y.buyers])
           /\ x.beforeRegistration + (IF x.median = Undefined THEN 0 ELSE 1) <= x.spenders
      /\ {y \in r.byCohort : y.cohort # UnknownCohort /\ ~\E x \in f :
             x.cohort = y.cohort /\ x.platform = y.platform} = {}
      /\ Cardinality(known) = Sum([x \in g |-> x.players])
      /\ Sum([x \in g |-> x.revenue]) = Cents({s \in Counted(sales) : s.buyer \in known})

\* A cohort table is never read off a dimension nobody filled: whoever was
\* written by the run the report is dated by has a cohort in it, although the
\* jobs write between the two reads of a report and either read may fail, and a
\* report that is dated by no run has no table: an empty list is never
\* published in its place.  (Whom no run found has none: a run may leave out
\* players Plan knows.)
\* Code: economy.service.ts dimensionState, player-dimension.store.ts upsert
CohortsAreFounded ==
  /\ answer.report = "revenue" /\ answer.unavailable = "nothing" =>
       /\ asOf # {}
       /\ \A f \in Platforms :
            Sum([x \in {x \in answer.byCohort : x.platform = f /\ x.cohort = UnknownCohort} |->
                   x.buyers])
              <= Cardinality({p \in Players \ asOf : platformOf[p] = f})
  /\ answer.report = "first-spend" /\ answer.unavailable = "nothing" =>
       /\ asOf # {}
       /\ \A f \in Platforms :
            Cardinality({p \in asOf : platformOf[p] = f})
              <= Sum([x \in {x \in answer.byCohort : x.platform = f} |-> x.cohortSize])

\* What a payment is marked with counts the payments of the whole window,
\* whatever page it is shown on, and each of them once, although the table has
\* two rows for a payment: whoever paid one friend once has not repeated it.
\* (It is of the tables only, too.)
\* Code: payments-feed.service.ts feed, toFeedPayment; CANONICAL_PAYMENT_TYPE
MarksCountPayments ==
  NoneAsked =>
  LET deals == {x \in payments : x.amount > 0}
      known == RegistrationDates(FALSE)
  IN  \A limit \in 1..Cardinality(Ledger) :
        \A shown \in Marked(FeedWindow(day), limit, known) :
          LET of    == shown.of
              twice == Cardinality({d \in deals : d.from = of.from /\ d.to = of.to})
              many  == Cardinality({d.to : d \in {d \in deals : d.from = of.from}})
          IN  { <<f.flag, f.observed>> : f \in {f \in shown.flags :
                    f.flag \in {"repeated_pair", "funding_many"}} } =
                (IF twice >= RepeatedPair THEN {<<"repeated_pair", twice>>} ELSE {})
                  \cup (IF many >= FundingMany THEN {<<"funding_many", many>>} ELSE {})

\* The base of a D7 counts nobody whose seventh day the copy was made before:
\* such a player cannot have been seen, and 0% of them is the calendar.
\* Code: social.service.ts share, "nenhum jogador deste grupo teve 7 dias de
\* oportunidade ainda - publicar 0% aqui seria o calendario, nao a retencao"
D7HadItsChance ==
  answer.report = "social-contact" =>
    Sum([g \in answer.groups |-> g.d7.n])
      <= Cardinality({p \in Players : registered[p] + 7 <= ranAt})
=============================================================================
