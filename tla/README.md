# TLA+ models of ausTvSales

Models of the sale pipeline, the instrumentation, the synchronisations and the
reports of ausTvSales, with TLC configurations that check them on small instances and
TLAPS proofs of the results that matter most. Paths below are relative to the
repository. `PROJECT.json` lists the runs, the theorems, the code lines every
definition stands for, the hazards the properties are for and the findings.

    tlc -config SaleDelivery.cfg MCSaleDelivery.tla     # one run
    tlapm SaleDeliveryProofs.tla                        # one set of proofs

## The system

| Part | State | Operations | Talks to |
|---|---|---|---|
| Plugin, sale command (`plugin/.../command`) | none | `/austv-sales`: parse, check the item cache, submit the write-ahead insert, answer | item cache, queue |
| Plugin, queue (`queue/SaleQueue.java`) | the SQLite table `sale_queue`; one executor thread `queue-io` | insert, mark, bump, find due rows, clean up | first delivery, worker |
| Plugin, worker (`queue/SaleQueueWorker.java`) | cycle in flight | tick: find, post each row, await its mark, clean up | queue, API |
| Plugin, API client (`api/`) | none | one POST per call, classified ACK / PERMANENT / TRANSIENT | backend |
| Plugin, item cache (`cache/`) | the last catalog copied | periodic sync | backend |
| Plugin, update checker, argument parser | staged update; none | download and verify; parse, normalise a price | GitHub; sender |
| Backend, sales ingest (`sales/`) | tables `sales`, `players` | one transaction per POST | plugin |
| Backend, catalog (`items/`, `categories/`) | tables `items`, `categories` | create, edit, deactivate, delete | plugin sync, sales |
| Backend, suggestions (`suggestions/`) | tables of suggestions and their audit | create, transition under a row lock, vote counts, pages | bot, moderators |
| Backend, instrumentation (`instrumentation/`) | `health_checks`, with `alerted_at` | cycle: record, decide, publish, stamp | Plan database and API, Discord |
| Backend, metrics (`metrics/plan-cache.ts`) | cache of API answers, fetches in flight | read, clear, evict | Plan API |
| Backend, tutorial sync (`tutorial/`) | daily series and positions | scan, floor check, replace | Plan database |
| Backend, economy syncs (`economy/*-sync*`, `*.store.ts`) | copies of payments, creations, players | copy in chunks, floor check, replace | PlayerPoints, Plan API |
| Backend, economy and social reports (`economy/`) | none | revenue, first spend, contact, feed, arrivals | the copies, `sales`, dashboard |
| Backend, retention (`retention/`) | the last body Plan gave | cohorts, stamp days, spans, window | Plan API, dashboard |
| Backend, funnel (`funnel/`) | none | series by day or month, coverage, conversions | Plan database, tutorial tables |
| Backend, weekly report (`report/`) | one row per run | build, persist, publish, mark delivered | funnel, retention, health, Discord |
| Backend, checks and health summary (`instrumentation/*.check.ts`, `health/`) | newest row per check and server | seven verdicts, summary | Plan API and database, tutorial tables |
| Backend, access (`auth/`, `ingest/`, `config/throttling.ts`) | request counters; a signed cookie | guards | every client |
| Backend, analytics and metrics (`analytics/`, `metrics/`) | none | queries over `sales`; Plan's graphs | dashboard |
| Frontend, ops, scripts | none the rest depends on | render, deploy, seed | backend |

What is hard in it:

* **Two clients for one row.** A sale is posted by its first delivery and by the
  worker at once; marks from both are queued, and their answers may differ
  (`SaleCommandExecutor.java:179`, `SaleQueue.java:159`).
* **A network that loses answers.** A sale recorded by the API may look
  unanswered; a request the client gave up on may still be handled.
* **Crashes between two effects**: between the answer to the sender and the
  insert, between the API's answer and the mark, between a Discord post and the
  stamp of its rows.
* **Decisions from stored history.** The alert policy reconstructs what the
  channel knows from `alerted_at`; failures between posting and stamping make
  the two differ.
* **Copies replaced in several transactions** (tutorial, payments), under floors
  that were measured earlier.
* **Numbers made of copies.** A copy may be old, half a run, never made or
  unreadable, and each of those looks like a small number: a report must say
  "unknown" and never "zero". Retention goes further and must tell an import
  from players who stayed.
* **Verdicts that outlive what they were about**: the health summary reads the
  newest row of every check, whoever wrote it and whenever.

Which correctness each part needs: the pipeline must not lose a sale, settle it
without the API's answer, or record it twice, and must settle every row in the
end; the alerts must tell the channel a coherent story, bound repetition and
never hide a new problem; a cache must not serve an older value after a newer
one; a synchronisation must not replace a full copy by a short one; a report
must publish a number only when it stands on a source that covers it; a green
summary must be a measurement.

## SaleDelivery: from the command to the backend

`SaleLedger.tla` is the abstract promise: a sale is announced, stored, then
recorded or refused, and the queue lets go of it only after an answer.
`SaleDelivery.tla` is the code. `MCSaleDelivery.tla` gives it instances.

| In the model | In the code |
|---|---|
| `up`, `Enable`, `Disable`, `InterruptWorker`, `StopIo`, `Disabled`, `Crash` | `AusTvSalesPlugin.onEnable`/`onDisable` with its two executor shutdowns, and the process dying at any point |
| `ioq` and `QueueIo` | the single thread `queue-io`: tasks run in submission order (`SaleQueue.runIo`) |
| `rows` | `sale_queue`; `due` is `next_attempt_at <= now` |
| `wpc`, `batch`, `cur`, `Tick`, `NextRow`, `AwaitTimeout` | `SaleQueueWorker.run`, `runCycle`, `processRow`, `await` |
| `call`, `PostSale`, `Answered`, `Unanswered`, `late`, `PostLate` | `SaleApiClient.deliver`: one request per client, its answer, a time-out, and a request that outlives its client |
| `OnCommand`, `EnqueuePending` | `SaleCommandExecutor.onCommand` and `enqueueThenDeliver` |
| `Handle` | `SalesService.record` behind the guards: catalog gate, then the insert that ignores a conflict |
| `catalog`, `cache`, `SyncItems`, `EditCatalog` | the item table, `ItemCache` and `ItemSyncTask` |

Each action is a step nothing else of the program can be seen in the middle of:
a statement on `queue-io`, a handler on its thread, one request in its
transaction. What an answered call does to its row is `Classify`, `MarkOf`,
`WorkerApplies` and `FirstApplies`.

Abstractions: time (a backoff elapses at any moment, any subset of the settled
rows is past the retention); the guards in front of the service answer any code
of `GuardCodes` at any time; a request is handled atomically. Left out: the
configuration without an API, in which nothing is ever sent;
`SaleQueue.find`, used by tests only; a close of the connection racing a
statement after the second `awaitTermination`. Two steps are coarser than the code:
`SyncItems` fetches and replaces the catalog at once (`ItemSyncTask.java:34`), which is no
matter as the gate that counts is the backend's; and `onDisable` first stages an update
(`AusTvSalesPlugin.java:209`) while the worker's executor still runs, which the
model has before `Disable`, when commands are still taken as well: more than the code does then.

| Run | Shows |
|---|---|
| `sale_delivery` | one sale through crashes or shutdowns, catalog edits, late requests, a 429 and await time-outs: `TypeOK`, `SettledWithCause`, `NothingStoredIsLost`, `WorkerWaitsForATask`, `ImplementsLedger`, `TerminalIsFinal`, and under `FairSpec` `EveryRowSettles` |
| `sale_delivery_stable` | two sales of one item, a batch of one, catalog and guards quiet: `EveryStoredSaleIsRecorded` |
| `sale_replay`, `sale_told` | two claims of comments that the code does not keep, see Findings |

`TerminalIsFinal`: a settled row is rewritten only for a sale of which the API recorded
one delivery and refused another (`Disputed`). The UPDATE of `updateStatus` names the
sale alone, so for such a sale (a 201 and a 429, or an item deactivated in between) the
later mark does overwrite the earlier one, "Terminal" notwithstanding; the property shows
that nothing else does, neither a mark that comes after a time-out or a restart
nor the bump of a delivery that failed while another one arrived.

A 429 is permanent like every 4xx (`SaleDelivery.java:31`, and `SaleDeliveryTest.java:23`
wants it so): a sale the throttler refuses is settled and never recorded. The models
have that; no property is against it.

Bounds. One sale is enough for everything that concerns a row and its two
clients; two sales are the least for a batch, for the order of rows and for a
mark on the wrong row. Two stops allow a crash during recovery from a crash; two
edits allow off and on again; two late requests allow one of each client.
`MaxQueued` only limits how often an await gives up, since each one leaves a
task behind. `BatchLimit` is 1 or 2 where the code has 50 because only "fewer
than the due rows" and "all of them" differ.

Fairness (`Fairness`). Weak for what threads and schedulers do by themselves: the
scheduled tick, the next task of `queue-io`, the end of a shutdown, the restart
of the server, a backoff, and the arrival of an answer (the HTTP client has a
time-out, so a call always ends). Strong for what fails now and then but not for
ever: the read of due rows, a request answered other than 5xx, an answer that
arrives, a mark that is written. Nothing is assumed of the first delivery, which
may fail always: the worker alone must settle the row. `EveryRowSettles` needs no
more; `EveryStoredSaleIsRecorded` is claimed only without edits and guard
refusals because a 4xx settles a sale for good.

Proofs (`SaleDeliveryProofs.tla`). For any sales, items, guard codes and bounds:
`TypeCorrect`, `SettledCorrect`, `NothingLost`, `WorkerNotStuck`, and
`PipelineImplementsLedger`. None of the invariants is inductive: a mark is
justified when it is *submitted* and written later. `IInv` therefore says of
every task on `queue-io` that what it will write is already justified
(`TaskJustified`), of every call on the wire that its sale is stored and that an
answer in hand agrees with the backend (`CallJustified`), that
`recorded`, `refused` and `stored` are nested as they should be (`SetsNested`),
that an insert is queued at most once for a told sale (`InsertsDistinct`), and
that the worker waits for a task that is there (`FutureMatched`). `SettledIsFinal`
is `TerminalIsFinal`, for any guards and edits: a mark on `queue-io` is justified, so one that
changes a settled row has the other answer behind it. The refinement
then maps each step: inserts are `Store`, the backend's answers `Record` and
`Refuse`, marks `Settle`, everything else a stutter.

## HealthAlerts: what the Discord channel is told

One cycle at a time: `Record` stores a verdict per check, `Decide` is
`decideAlerts` on the three queries of the store, `Publish` posts one message,
`MarkAlerted` stamps `alerted_at` on the rows the message carried. `CycleFails`
is an exception or a restart at any point of it, `EmptyCycle` a tick without
observations or while another runs.

| In the model | In the code |
|---|---|
| `log` | `health_checks`, per check and in id order; `alerted` is `alerted_at` |
| `channel` | what a reader of the Discord channel has seen; the program has no such state, the properties compare with it |
| `LastAlert`, `HeardInWindow`, `Confirmed` | `lastAlerts`, `alertsInWindow`, `healthyStreaks` of the store |
| `Verdict`, `Problem`, `Recovery`, `Repeat`, `Deliver`, `Mute` | the branches of `decideAlerts` |
| `Fitting` | the cuts of `DiscordAlerter.buildPayload`: a bucket loses fields only after the ones cut before it have none |
| `Publish` | posted and confirmed; posted and the answer lost; not posted |

Abstractions: instants are the database's and compared exactly, where the policy compares
milliseconds (`alert-policy.ts:405`) and the window of the store microseconds
(`health-check.store.ts:257`); fewer checks
than the 25 a bucket shows, so only the character budget cuts; one backend
instance, as `HealthCheckScheduler` assumes; the retry after a 429 is one more
way to be sent or not; the text of a message is left out.

| Run | Shows |
|---|---|
| `health_alerts` | one check, four cycles, window 2, recovery confirmed by two rows, budget 1: all invariants |
| `health_notice` | a claim the code does not keep, see Findings |

Bounds. The policy looks at one check at a time, so one check shows every
decision, and a message cut short is one that carries nothing of it (`Fitting`
may drop any field). Several checks in one message are covered by the proofs
alone. Four rows and four instants with a window of two are the least in which a problem, its all-clear, a
second problem and the roll of the window all happen, with a row in between that
nobody heard.

Proofs (`HealthAlertsProofs.tla`). For any checks, window, confirmation and
budget: `TypeCorrect`, `StampsAreHeard`, `ConversationsHold`,
`BudgetNeverStarves`, `RepetitionsBounded`, `FlappingUnreachable`. `IInv` adds that no stamp and no row
is in the future (`TimesPast`), that stamps of a check grow with its rows, so
the row stamped last is the latest one stamped (`StampsInOrder`, lemma
`LastAlertIsLatest`), that this cycle's rows are not stamped yet
(`FreshUnstamped`) and that whatever was decided may still follow the last
message when it is stamped, a step or more later (`DecidedMayFollow`,
`DeliveredWasShown`). The last two results rest on
`SilentMeansNothingHeard`: a check silent for a window has an empty window, so
the budget cannot hold it back.

`RepetitionsBounded` counts a set that changes with the clock. A decision to post
is new to the window or within the budget (`DecidedInBudget`); until it is stamped
the window only loses messages, and a part of a set repeats no more than the whole
(`FewerRepetitions`). Of liveness this module has none: a cycle that fails for ever
tells nobody anything.

## SuggestionStates: who may change a suggestion, and what is on record

`SuggestionLifecycle.tla` is the promise to a reader: the first text stands, the
stage only moves forward, the credit is given once. `SuggestionStates.tla` is
`SuggestionsStore` statement by statement, under PostgreSQL's read committed.

| In the model | In the code |
|---|---|
| `rows`, `moves`, `refusals` | `suggestions`; the accepted and the refused rows of `suggestion_audit`, as committed |
| `lock` | who holds a row by `SELECT ... FOR UPDATE` |
| `handler[h]` | one request: its route and DTO, the statement it is at, the status it read, the `now()` of its transaction, the id of its audit row |
| `CreateInsert`, `CreateReadBack` | `create`: `ON CONFLICT DO NOTHING`, then the row that was there |
| `SetVotes` | `setVotesByDiscordMsgId` |
| `LockRow`, `RefuseMove`, `RejectNickname`, `UpdateRow`, `AuditMove`, `CommitMove` | `transition`, inside its transaction; an update shows at the commit |
| `ReadStatus`, `InsertDenied`, `CommitDenied` | `recordAuthDenied`, which has no transaction |
| `Answer`, `Fail`, `Crash` | the answer goes out; a statement, connection or answer fails; the process dies |

Abstractions: a suggestion is known by its Discord message, whose uniqueness the
table enforces; the sanitizers accept or reject a text; the two vote counts are
one tally; guards, listing and single reads change nothing. `clock` numbers the
starts of transactions and the ids of audit rows in one sequence, which is all
the order of either is used for.

| Run | Shows |
|---|---|
| `suggestions` | three requests in two handlers, two texts, two moderators, failures and crashes: `TypeOK`, `TrailIsChain`, `RefusalsAreTruthful`, `AnswersAreRecorded`, `SomebodyCanGoOn`, `ImplementsLifecycle` |

Bounds. One message is enough, since no statement touches two suggestions. Two
handlers are the least that race for a row; three requests let one decision
follow a race of two, and an answer be retried. Handlers, texts and moderators
are interchangeable, so the safety run uses them as symmetric.

No fairness is assumed: `SomebodyCanGoOn` is the safety half of progress. Whoever
waits for a row waits for a handler in the middle of its transaction which itself
waits for nobody (`WaitersWaitForWorkers`), and whoever does not wait has a statement
that can run (`ENABLED`). Waiting therefore never closes a ring.

A note. `suggestions.store.ts:385` and `suggestions.controller.ts:208` promise
the trail newest first; it is ordered by `now()`, which in PostgreSQL is the start of
the transaction, so a move that began first and got the row last is listed before
the one it follows.

Proofs (`SuggestionStatesProofs.tla`). For any handlers, messages, texts,
moderators and number of requests: `TypeCorrect`, `TrailCorrect`,
`RefusalsCorrect`, `AnswersCorrect`, `WaitersHaveWorkers` (the half of
`SomebodyCanGoOn` without `ENABLED`) and `StatesImplementLifecycle`. `IInv` says
what a handler knows by where it is (`HandlerOK`): past its SELECT a transition
alone holds the row and the row still is as it was read (`Holds`); the id of its
audit row is larger than every id on record for that row (`IsLatest`), which
makes the trail ordered and an earlier refusal truthful after a later move; after
the commit the outcome is on record. The trail's entries follow the transition
table (part of `ChainOK`), without which "the first entry approved" would not be
the only approval.

## PlanCache: one question to Plan at a time

`PlanCache.tla` is the read-through cache of `metrics/plan-cache.ts`, of which the
metrics and the retention service each hold one.

| In the model | In the code |
|---|---|
| `entries`, `order` | the `Map` of entries and the order it iterates in |
| `inFlight` | the registry of fetches, one leader per key |
| `reader[r]` | one `read`: the instant it began, the entry it found then, and whether it leads a fetch or joined one; then its result |
| `ReadFresh`, `LeadFetch`, `JoinFetch` | `read` and `fetchOnce` up to their first await |
| `FetchSucceeds`, `FetchFails` | the fetch settles: entry stored or not, registration taken back by its own leader (`Unregister`), everyone who awaited it served |
| `Evicted`, `OrderWith` | `store`: the first key of the `Map` goes when a new one does not fit |
| `Clear` | `clear()`, while fetches are out |
| `forgotten` | not in the program: the keys dropped once, on which two claims are not made |

Node runs one callback at a time, so what a settled promise sets off is one
step. A value is the instant at which Plan read it, some time between the start
of the fetch and its answer; that is all a property needs to know of it.

| Run | Shows |
|---|---|
| `plan_cache` | three readers, two keys with different TTLs, room for one entry, `clear()` at any moment: `TypeOK`, `SingleFlight`, `DatesAreHonest`, `RefetchesAreSpaced`, `FallbackIsCurrent` |

Bounds. Three readers allow two fetches of one key (one from before a `clear()`)
and a third reader joined to either. Two keys and room for one make each store
evict the other. Three instants let one key be refetched twice and the other once,
each at the end of its TTL.

Proofs (`PlanCacheProofs.tla`). For any readers, keys, TTLs and limit:
`TypeCorrect`, `SingleFlightHolds`, `DatesHold`, `SpacingHolds`, `FallbackHolds`.
`IInv` says that the registry holds exactly the fetches begun since the last
`clear()` (`RegistryOK`), that a joiner began after its leader, and that what a
waiter found when it began is still what is held and was out of date then
(`WaiterOK`). The last is true only of keys never dropped: it rests on
`WaitersAwaitRegistered`, whoever waits for such a key waits for the one
registered fetch, so nothing can be stored under a waiter but its own answer.

Two things the model allows and no property forbids. A fetch begun before a
`clear()` may store its older value over a newer one; only tests call `clear()`.
And the age reported with a stale answer is counted from the start of the read,
so it leaves out the wait for the fetch that failed (`plan-cache.ts:132`, `:164`).

## TutorialSync: the nightly copy and who reads it

`TutorialSync.tla` is `TutorialSyncService` with the two transactions of
`TutorialStore`, and the readers of the tables they replace.

| In the model | In the code |
|---|---|
| `running`, `enabled` | the service's flag; `TUTORIAL_POSITION_ENABLED`, read at start |
| `call[c]` | one call of `sync()`, from the schedule or by hand: where it is and what its walk found |
| `syncs` | `tutorial_syncs`, the rows of failures included |
| `series`, `positions` | `tutorial_daily`, `tutorial_player_position`: the run they hold and their number of rows |
| `reader[r]` | one reader: the provenance row it read first, the table it read next |
| `Begin`, `WalkFails`, `WalkEnds` | `sync`; `run` up to the absolute rules of `floorRefusal` |
| `Compare`, `CompareFails` | the relative rules, against `lastSuccessfulSync` |
| `RecordFailure` | `recordFailure`, which may fail as well |
| `ReplacePositions`, `ReplaceAll` and their failures | the two transactions |
| `ReadProvenance`, `ReadTable`, `ReadFails` | the funnel, the entry rate check and the economy's positions |
| `Restart` | the process dies anywhere and is started again, perhaps with the other setting |

Abstractions: a run without its directory or catalogue configured records a
failure and does nothing else, and is left out; `ran_at` and `id` order the rows
alike, as long as the clock of the database does not go back; one backend
process, as the flag assumes; the parsing of a playerdata file, which only
decides what a walk finds.

| Run | Shows |
|---|---|
| `tutorial_sync` | three runs by two callers, one reader: `SeriesIsOfLastRun`, `FloorsHold`, `AnswersAreHonest`, `RunsEnd` |

Bounds. Three runs allow a success, a run that fails or is refused, and one more
compared across it. Two callers race for the flag. The reader's answer stands
until it asks again, so one reader sees every order of runs and reads. The scans
are a full one, one exactly at half of it in all measures, one below each floor
alone and one broken by each absolute rule alone.

Fairness. Weak for the statements of each call: a file read, a query or a
transaction ends or fails, since all of them have an await that settles. Neither
success nor a restart is assumed, and no run has to begin.

Proofs (`TutorialSyncProofs.tla`). For any callers, readers, scans and number of
runs: `TypeCorrect`, `SeriesCorrect`, `FloorsCorrect`, `AnswersCorrect`. `IInv`
says of the tables that the series is the last successful run's and that the
positions are no older than any row that claims to have written them (`TablesOK`,
`Backed`); of a call, that its run is newer than every successful row and that
past the floors its scan cleared them against the row that still is the last one
(`CallOK`, `Cleared`), which needs the flag: nobody else can have written in
between; of a reader, that what it read first was backed and stays so
(`ReaderOK`). `RunsEnd` is liveness and only model-checked.

A note. `tutorial-sync.service.ts:479` has the two tables "not disagree about
which run produced them". They do when the series fails after the positions
committed, until the next success: the positions are then of a run with no
provenance row, and published as of the one before. `AnswersAreHonest` states
what remains true, that data is never older than its date.

## EconomySync: two copies for the economy

`EconomySync.tla` is `PaymentsSyncService` and `PlayerDimensionSyncService`, two
jobs of one shape: begin, read, judge against the floors, write, record.

| In the model | In the code |
|---|---|
| `job[j]` | one `sync()`: where it is, its run, the keyed payments it still has to write |
| `read[n]` | what the source answered to run `n` (history: the code keeps the counts in the provenance row) |
| `syncs` | `player_payment_syncs`, `player_dimension_syncs`, error rows included |
| `payments`, `dimension` | `player_payments`, `player_dimension`: the run that wrote each row last, as `synced_at` tells |
| `creations` | `account_creations_daily`: the run it is of, and the SET rows it counts |
| `DailySeries` | `toDailySeries`: the SET rows that `toSaoPauloDay` has a day for (`dated`), the others dropped |
| `Keyed` | `assignOrdinals`: identical payments get 0, 1, ... |
| `UpsertChunk`, `ReplaceCreations`, `UpsertDimension` | the chunks of `upsertPayments`, each a transaction; two replaced whole |
| `Throw`, `WriteFails`, `Restart` | a query outside every `try`; a failed statement; the process dying |

A job awaits its own run and its timer is the only caller, so two runs of one job
never overlap. `CopyHoldsWhatWasRead`: each of several identical payments a
successful run read is there, and no row is there that its run had not read.
`SeriesStands`: the arrivals series is of one log that passed the floors, whichever of the
two counts of a log collapses, and counts every dated SET row of it. `DimensionIsWhole`: no player's row is older than
that of one who was read with it.

Bounds: three runs allow a success, a run that fails halfway and one compared
across it; two payments, one of them twice, in chunks of two; three players. The
answers are whole, half, below half by either count, unreadable, and empty; one log
has SET rows of which none has a day, and one has them but for one.

The floors do not protect the series from rows without a day. `floorRefusal` is given
`creations.length` (`payments-sync.service.ts:95`), and `toDailySeries` drops what
`toSaoPauloDay` cannot place, a date of zero for one, only afterwards (`:275`).
A log of such rows passes both floors, and the series is replaced by an empty one, which
is what the comment of the floor is there to prevent (`:194`: "gravar uma leitura vazia
apagaria 26 meses de historico"). `SeriesStands` therefore counts the undated rows
in: it shows that what a success takes from the series beyond half are such rows.

Notes. A failed run leaves the chunks it committed, although
`payments-sync.service.ts:62` has the previous copy stay exactly as it was: the rows
are true, but newer than the last successful run. `playerpoints.database.ts:196`
has edits and deletions in the source show up; the store only upserts. The
dimension's floor counts unreadable rows (`player-dimension.sync.service.ts:160`).
A source that was legitimately pruned by more than half is refused every night
from then on.

Proofs (`EconomySyncProofs.tla`). For any log, payload, chunk size and number of
runs: `TypeCorrect`, `CopyIsFaithful`, `ArrivalsStand`, `DimensionWhole`. The
invariant adds that a run is answered once and no two jobs are of one run
(`RunsOK`); that no row is newer than the run its job is in (`AgesOK`), so a write
makes nothing older; that what is no longer left of a run being written is written
(`CopyOK`); and that what is being written passed both floors against the row that
is still the last success, so it may stand even if it never gets a row of its own
(`SeriesOK`). `TypeOK` carries what a job may hold at each place.

## Retention: from Plan's list to a published table

`Retention.tla` is `retention-math.ts` as operators over a body, and
`RetentionService` as the states a request may find: a body fetched, held past its
time, or none.

| In the model | In the code |
|---|---|
| `body`, `held` (`read`, `held` in the module) | what the request got, fresh or from the cache, and since when |
| `known`, `lists`, `torn` | Plan's players; whether its envelope still has them; rows that cannot be read |
| `StampRuns`, `StampDays` | `detectStampDays`: up to two adjacent days on which too many were last seen |
| `ContaminationOf`, `MeasureOf` | the share of a cohort seen on such days; a horizon's base, which only players the *data* reaches are in |
| `SuppressImplausible`, `DetectContaminatedSpans`, `ApplyContaminatedSpans` | a cohort that stays whole at all horizons; the months between two such; small cohorts inside |
| `Report` | the table, its source and its state, windowed last (`ReportOf`) |

`CohortsAreEvidence`: a number is withheld exactly when there is evidence against
it (its base, a stamp, its own implausibility, or an inherited span with proof on
both sides and no clean month between), whatever window is asked for.
`StalledSourceKeepsNumbers`: of one body the numbers are the same on every later
day, so a Plan that has stopped collecting makes nobody look lost.

Values (`RetentionValues.tla`): a population is a few batches, each so many players of
one platform registered on one day and last seen on another; they are imports,
stamps of one and two days, young cohorts and ordinary ones. Thresholds are those
of the code where they are constants, and given where they are configured.
Taking away `Clean` from `Confirmed` in `Walled` would change nothing for two
neighbours; it is written as the code has it.

Proofs (`ReadModelsProofs.tla`). `NumbersOutliveTheSource` is `StalledSourceKeepsNumbers`
for any payloads, however they overlap, any thresholds and any days: the invariant
says that a report with a source is `ReportOf` the body read on some day of the
`Clock`, and the lemmas follow that day through the horizons, the implausible, the
spans and the window to where only the reason depends on it.

`CohortsStandOnEvidence` is `CohortsAreEvidence`, for any batches, however they
overlap. Of the constants it assumes `Settings`: finitely many batches, each of finitely
many kinds of players and so many of each, months that are not empty, and some day and
window to ask on and for. The invariant is
that of the other theorem, with what was read being a body (`BodiesOK`); the rest is
about one report and follows the code's detectors:

* a day is a stamp day if and only if it is of a pile (`StampsArePiles`);
* a raw measure counts its base and those who were kept, and the data reach as far
  as anybody was seen (`RawMeasure`, `ThroughIsLast`);
* a percentage rounds to 99.0 exactly when 2000 times the kept are 1979 times the base
  (`PercentKeeps`);
* so what the detectors see of a cohort is `Weighed`, `KeptEverybody`, `Stamped`
  (`CohortSays`), and what they confirm and clear are the months `Proven` and `Sound`
  (`MonthsAreJudged`);
* a month lies in a span if and only if it is `Touched`. One way, a wall between neighbours
  would have begun another span (`SpanIsJoined`); the other, no span begins between two
  proven months with no wall between them (`JoinedIsSpan`).

## HealthChecks: the seven checks and the summary

`HealthChecks.tla` gives each check of `instrumentation/` its verdict over a
reading, has a cycle store one row per check and server, and makes the summary of
`InstrumentationHealthService` of the newest rows. `HealthAlerts` takes any
verdict; this module says which ones there are.

`OkMeansMeasured`: a green summary is a measurement. The schedule runs, every
check that can measure has a row, every row is younger than two cycles and stands
on sources that answered with a base big enough; that is stated from the sources
(`Sound`) and not by running the checks again.

It has one exception (`Ahead`). Instants are the game's and the clock is the backend's, so an
age may be below zero. `proxy-registration-alive.check.ts:171` subtracts and compares with
the limit only, so a last registration ahead of the clock is `ok` for as long as it
is ahead, whether or not collection has stopped since. `tutorial-entry-rate.check.ts:266` refuses
the same of its copy ("switches the freshness gate off entirely"); this check does not. TLC
reaches a green summary over such a row, and without the exception the property fails.

Readings (`HealthReadings.tla`) are a calm one and ones that differ from it in a
single way: a source that fails or is unreadable, a sentinel, an empty catalogue, two
versions, an orphan, an old or future tutorial copy, registrations ahead of the clock, a ratio under and exactly at
its floor. Deployments differ in servers and in the schedule.

Notes. A server taken off `PLAN_SERVERS` keeps its last rows, `latestAll` has no
end, so the summary is `down` for ever after a rename. `missing` is by check and not
by server. A check that throws gives an unscoped error row
(`health-check.runner.ts:302`); no check of today throws, so none does in the model.

Proofs (`ReadModelsProofs.tla`). `OkIsMeasured` is `OkMeansMeasured` for any
deployments, readings, thresholds and order of cycles. The invariant (`HealthIInv`)
says of the newest row of every check that, if it is `ok`, the check is not the one
that cannot measure and what it read was sound, or ahead of the clock for the proxy's
(`HealthRowOK`); that is a lemma per
check (`OkIsSound`), of which the platform share has a sum. It assumes `Settings`:
finitely many servers, catalogues and lists of players, and thresholds that are
numbers, as the validation of the environment has them.

## Funnel and WeeklyReport

`Funnel.tla` has the series: which buckets a source covers (`CoversFrom`), what a bucket
counts, why it has no number, and the conversions. `WeeklyReport.tla` runs the
report: the funnel's two sources are read in either order, while the clock and the
nightly copy go on; then build, persist, post and mark.

| In the model | In the code |
|---|---|
| `runs[r]` | one `run()`: `building` with what it has read, `built`, `persisted`, `posted`, `ended` |
| `reports`, `channel` | `weekly_reports`; what the channel has |
| `Total`, `FunnelSectionOf` | `rollUp` and `funnelSection` of the builder |
| `RenderWeeklyReport`, `Clamp` | the renderer, as the lines there are; what does not fit is cut and says so |
| `BuildFails`, `PersistFails`, `Publish(r, FALSE)`, `PublishFails`, `EndUnmarked`, `Crash` | each step failing alone, a lost answer, and a process that dies |

`TotalsAreWhole`: a bucket is the number of those who came in it or none, never a
part, although Plan began to collect within a day and within a month.
`DeliveredIsInTheChannel`: a row marked delivered is in the channel with the same words
and status, also when two runs of one week are under way. Two runs, a window of two days and half-day instants are the
least for both; the clock ends a day after the first report is due.

Values (`WeeklyValues.tla`): five newcomers, known by `who`, who enter and complete
the tutorial on the day they came, later or never. `MaxWindow` is two days where the code
has a year: a series asked from the first day is clamped, and the week is not.

Proofs (`ReadModelsProofs.tla`), for any number of runs, lines and newcomers, any
tables, month and window, and any order of reads, copies and failures. They assume
`Settings`: the bounds are numbers, a window is no longer than the clamp, the clock
starts after the first window, a player is one newcomer (the key of both tables), and
nobody enters the tutorial before he came.

`DeliveredIsTrue` is `DeliveredIsInTheChannel`. `WeeklyIInv` says of a run that its row
holds what it is about to post, and of a delivered row that a run ended with it and
posted it, so the message names the run and the run the row (`OneMessageEach`). That
the text in the channel is the text in the table rests on what is cut once not being
cut again (`ClampTwice`).

`WholeTotals` is `TotalsAreWhole`. `FunnelIInv` says of a run what each of its two
reads left with it: of every day of its window the number of arrivals or none
(`SurvivalOK`); of the copy, every day's entries and completions if it is dated after
the window ended (`TutorialOK`), which needs that the date was read no later than the
rows and dates only go up. A bucket that is covered counts all who came in its days
(`SeriesIsWhole`), the rows of a copy are one to one with the players who had entered
by its date (`CopyCounts`), and the week's number is that of the players of its days because
each is of one day (`DaysAdd`, by `SplitCounts` of the sums below).

Notes. The buckets at the edges of a monthly window, asked or clamped, are of part of their
month, against `funnel.service.ts:313`; `TotalsAreWhole` looks at those that lie within. When the
table cannot be written the result carries a made-up id and says the notice was
published even if it was not (`weekly-report.service.ts:96`), and
`weekly-report.store.ts:27` ("every run writes a row") does not hold.

## EconomyReports: what the dashboard is told of money

`EconomyReports.tla` has the five reports, `Revenue`, `FirstSpend`, `Contact`,
`Feed` and `AccountCreations`. A request reads the provenance first (`Ask`), the positions
(`ReadPositions`) and the rows last (`Reply`, `Answer`), while the nightly jobs and the
ingest write in between (`DimensionSynced`, `PaymentsSynced`, `TutorialSynced`, `Sold`).

`ReportsAgree`: two reports over the same tables agree on buyers, sales and money.
`CohortsAreFounded`: a cohort table is published only when it is dated by a run of the
players' copy that found somebody, and everybody that run wrote has a cohort in it; a failed
read is never an empty table. `wrote` is whom the newest run wrote and `asOf` (history) whom
the one wrote that the last answer is dated by. A run need not find everybody Plan knows:
`DimensionSynced` takes any players who are not empty (`found`), as unreadable rows are dropped and
the floor counts rows (`player-dimension.sync.service.ts:111`, `:160`); whom no run has found has no
cohort, in a table that is published as `ok`. The floors against earlier runs are
`EconomySync`'s, and here any such run may follow any other.
`MarksCountPayments`: a mark on the feed counts payments, once each although the ledger
has two rows, over the window and not over the page.

Values (`EconomyValues.tla`): three buyers on two platforms, one of them a
purchaser before the registration on record; sales with a historical import; a
ledger with both sides of a payment, a repeated pair, an outlier and the
tutorial's own gift. Account creations are simplified: a day for every account
(`EconomySync` has those without).

Proofs (`ReadModelsProofs.tla`). `AgreeingReports`, `FoundedCohorts` and `CountedMarks`
are the three properties for any shop, ledger and players and any order of syncs, sales
and reads. `EconomyIInv` keeps what the reads rest on: no sale is of a later day,
once the dimension's provenance says `ok` the newest run found somebody, and everybody
it wrote has a row (`Found`), and so for whom a request is dated by that read the provenance
before: a later run leaves nobody without the row they had. The
agreement itself is of sums: revenue is the sum by platform, by cohort and by position
because each buyer is in one class (`SplitTotals`), and a report of the money and one of the
buyers count the same ones. Assumed are `Settings`: finitely many sales, payments and players, days and
thresholds that are numbers, and a ledger whose canonical rows are those with a positive amount.

Note. Tutorial positions over a player dimension that was never copied are
published as nobody having entered (`economy.service.ts:432`).

## MCReadModels: five topics in one run

`read_models` checks the six modules above. They share no state, so `ReadModels.tla`
has a behaviour be of one of them (`topic`) and keeps the variables of the others
at `Off`; each property is looked at in its topic. `Rest` lets the topics that
stop at their bounds stay where they are; the copies may always go on as long as there
are runs. `MCReadModels.tla` gives the constants their values. One run of five
disjoint parts checks what five runs would, as the state space is their sum and not
their product.

| Run | Shows |
|---|---|
| `read_models` | the twelve properties named above, `ReadTypeOK` being the type invariants of the five |
| `social_d7`, `weekly_gap` | two claims of comments that the code does not keep, see Findings |

Bounds of that run: three nightly runs of the copies (`MaxRuns`), four rows and two
requests for retention (`MaxRows`, `MaxAsks`, and `MaxLate` days after the last row),
three minutes and a redeployment for the checks (`MaxMinutes`, `MaxDeploys`), two weekly
runs and one copy until instant 6 (`LastInstant`, `MaxSyncs`), three events between two
reports (`MaxEvents`).

Proofs (`ReadTypesProofs.tla`). `ReadTyped` is `ReadTypeOK` for any values of the constants
that satisfy the `Settings` of each module: whatever the tables hold, the answer that is
computed of them is one its type describes. That is more than that variables keep their
types, as a report is made by folds, medians and shares over any data. `TypesHold` joins
the invariant of each topic with what its types need besides: a stored check row is whole
and not of the future (`HealthTypes`); a run's row is in the table and its text has a line and
no more than fit (`WeeklyTypes`, by `ClampFits`); the table kept is a report and its day one of
the `Clock` (`TableTypes`); what was answered is of the type of its endpoint (`EconomyTypes`, by a
lemma per report, `ReplyTyped` in the end), where a share is of a whole that its part does not
exceed (`ShareTyped`) and a percentile of finitely many numbers is a number (`PercentileTyped`).
Of the copies it is the invariant of `EconomySyncProofs`.

## Findings

Comments and tests of the repository that a run shows the code does not keep.
None of them is repaired in the models.

| Run | What |
|---|---|
| `sale_replay` | `sales.service.ts:27` says re-sending a sale is a no-op that answers 2xx; the catalog gate (`:49`) comes first, so it answers 422 once the item is inactive |
| `sale_told` | `SaleCommandExecutor.java:123` says a crash cannot lose a parsed sale; the insert is only submitted when the sender is told (`:127`) |
| `health_notice` | `env.validation.ts:208` and `alert-policy.ts:283` promise a notice for a check muted a whole window; the case is never reached |
| `social_d7` | `social.service.ts:304` says a base without seven days of opportunity gets no share; `contact()` (`:157`) takes maturity from the wall clock and survival from a copy that may be days old, so players it could not have seen count as lost |
| `weekly_gap` | `weekly-report.types.ts:45` says a step is summed only when every day of the window carries a number; `funnel.service.ts:466` gives every day without a row a zero once the tutorial was ever copied, so a week the copy has not seen whole is summed |

Seen in the models and kept as notes: the budget can withhold a confirmed
recovery (`alert-policy.ts:445`, against `:273`), and after a lost answer
(`discord-alerter.ts:296`) the last *stamped* row, which the policy takes for the
last verdict heard (`alert-policy.ts:227`), is an older one, so a failure the
channel saw may get no all-clear. Two more are told with their models: SET rows
without a day empty the arrivals series past both floors (`EconomySync`), and a registration ahead
of the clock keeps the proxy's check green (`HealthChecks`).

## Sums

What the reports compute are sums, and `FiniteSetsExt` and `Functions` define a sum by a
recursive function over the subsets, which takes whatever element `CHOOSE` gives. The
library's induction theorems take an operator, which the provers cannot
instantiate. `ReadModelsProofs.tla` therefore begins with induction of sets: of the sets for
which a claim fails one is smallest (`Least`, `SubsetsByInduction`). From it
a fold exists and is unique (`FoldExists`, `FoldsAgree`), a sum is a
number, does not depend on the order (`TotalWithout`), is additive
(`TotalOfUnion`), may be taken class by class (`TotalByClass`) or renamed (`TotalRenamed`),
and counting is a sum of ones (`CardinalityIsTotal`); `Min` and `Max` are what they should be of
finite sets.

## Out of the provers' reach

Liveness under fairness (`EveryRowSettles`, `EveryStoredSaleIsRecorded`, `RunsEnd`) and
anything about ENABLED stay with TLC: of `SomebodyCanGoOn`, that a handler which does not
wait has a step it can take. Every other property the runs check is proved.

## Plan

Done: `SaleDelivery`, `HealthAlerts`, `SuggestionStates`, `PlanCache`,
`TutorialSync`, `EconomySync` with their proofs; `Retention`, `EconomyReports`,
`HealthChecks`, `Funnel`, `WeeklyReport`, checked together, with the proofs of
`ReadModelsProofs` and `ReadTypesProofs`.

1. `SaleIngest`: `SalesService.record` statement by statement, with the player's
   nickname, refining the atomic `Handle`; `Catalog`; `Throttler`; sessions.
2. The plugin's pure functions (price normalisation, backoff) against reference
   definitions; the update checker's staging.
3. Retention and reports over larger payloads, one run each.

## Not modelled

The frontend, the operations and seed scripts, configuration and headers: no state
the system depends on. The Plan, Plan database and PlayerPoints clients beyond
what they answer: reads of foreign services, which appear in every model as
answers from a small set, failures included. Analytics and metrics: single
queries over one table and numbers passed on. The text of messages, summaries
and evidence: wording, except where a property is about what a message carries.
