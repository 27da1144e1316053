---------------------------- MODULE SaleDelivery ----------------------------
(***************************************************************************)
(* Delivery of a sale from the console command to the backend:             *)
(*                                                                         *)
(*   - /austv-sales checks the item cache, submits the write-ahead insert  *)
(*     and answers the sender (SaleCommandExecutor);                       *)
(*   - queue-io, one thread, runs every SQL statement in submission order  *)
(*     on the durable table sale_queue (SaleQueue);                        *)
(*   - the insert's callback posts the sale once (attemptDelivery), while  *)
(*     the worker thread posts every due pending row (SaleQueueWorker);    *)
(*   - the API answers after the guards, the catalog gate and one          *)
(*     transaction (SalesService.record); requests and answers can be      *)
(*     lost, and a request its client gave up on can still be handled;     *)
(*   - an admin edits the catalog, the plugin copies it now and then       *)
(*     (ItemSyncTask), and the server stops, crashes and starts again.     *)
(*                                                                         *)
(* Time is abstracted: a backoff elapses at any moment (BackoffElapses),   *)
(* and which settled rows are past the retention is any subset of them.    *)
(***************************************************************************)
EXTENDS Naturals, Sequences, FiniteSets

CONSTANTS
  Sales,        \* sale_ids; each command draws a fresh one (UUID.randomUUID)
  Items,        \* item_ids of the catalog
  itemOf,       \* the item each sale is of
  Worker,       \* the worker thread, as a client of the API
  GuardCodes,   \* 4xx the guards and the DTO validation may answer
  BatchLimit,   \* rows one worker cycle takes (DEFAULT_BATCH_LIMIT)
  MaxEdits,     \* bound: catalog edits
  MaxStops,     \* bound: crashes and shutdowns
  MaxLate,      \* bound: requests of one sale abandoned and still travelling
  MaxQueued     \* bound: tasks on queue-io when an await times out

ASSUME SaleDeliveryAssumption ==
  /\ itemOf \in [Sales -> Items]
  /\ Worker \notin Sales
  /\ GuardCodes \subseteq {400, 401, 403, 429}
  /\ BatchLimit \in Nat \ {0}
  /\ MaxEdits \in Nat /\ MaxStops \in Nat
  /\ MaxLate \in Nat /\ MaxQueued \in Nat

VARIABLES
  up,           \* the plugin: "off", "on", "stopWorker", "stopIo"
  told,         \* sales whose sender was told "Venda registrada"
  ioq,          \* tasks submitted to queue-io, in order
  rows,         \* sale_queue, durable: [status, due]; status "none" is no row
  stored,       \* sales ever inserted, with
  older,        \*   the sales inserted before each (ORDER BY created_at)
  wpc,          \* the worker thread: "idle", "finding", "sending",
                \*   "marking", "cleaning"
  batch,        \* rows of this cycle not finished yet, cur included
  cur,          \* the row being processed, Worker when there is none
  call,         \* the HTTP call of each client
  late,         \* abandoned requests per sale that may still reach the API
  recorded,     \* the backend's sales table
  refused,      \* sales some delivery of which was answered 4xx
  catalog,      \* active items in the backend
  cache,        \* the plugin's ItemCache
  edits, stops  \* counters behind MaxEdits and MaxStops

pluginVars == <<up, told, cache>>
tableVars  == <<rows, stored, older>>
workerVars == <<wpc, batch, cur>>
apiVars    == <<late, recorded, refused, catalog>>
bounds     == <<edits, stops>>
vars == <<pluginVars, ioq, tableVars, workerVars, call, apiVars, bounds>>

-----------------------------------------------------------------------------
(* Values.                                                                 *)

Clients   == Sales \cup {Worker}   \* a sale's first delivery has its own task
Idle      == 0                     \* no call
OnWire    == 1                     \* request sent, unanswered
Codes     == {200, 201, 400, 401, 403, 422, 429, 500}
Terminal  == {"sent", "failed_permanent"}
Statuses  == {"none", "pending"} \cup Terminal
Marks     == Terminal \cup {"bump"}
Task      == [op : {"insert", "find", "cleanup"} \cup Marks,
              sale : Clients,
              who : {"worker", "nobody"}]   \* whose thread awaits the future

\* Faulty variant: the upper bound of 4xx is missing.
ClassifyNoUpperBound(code) ==
  CASE code >= 200 /\ code < 300 -> "ACK"
    [] code >= 400 -> "PERMANENT"
    [] OTHER -> "TRANSIENT"

\* SaleDelivery.classify: 2xx, 4xx, everything else.
Classify(code) ==
  CASE code >= 200 /\ code < 300 -> "ACK"
    [] code >= 400 /\ code < 500 -> "PERMANENT"
    [] OTHER -> "TRANSIENT"

SaleOf(c) == IF c = Worker THEN cur ELSE c

Submit(q, op, s, who) == Append(q, [op |-> op, sale |-> s, who |-> who])

\* A future nobody waits for any more: its task stays on the queue.
Abandoned(q) == [i \in DOMAIN q |-> [q[i] EXCEPT !.who = "nobody"]]

\* How many requests for s the clients in C have on the wire.
OnTheWire(C, s) ==
  (IF s \in C /\ call[s] = OnWire THEN 1 ELSE 0)
  + (IF Worker \in C /\ call[Worker] = OnWire /\ cur = s THEN 1 ELSE 0)

\* Clients C go away: each request they had on the wire is lost or arrives
\* later.
LateAfter(C) ==
  { l \in [Sales -> 0..MaxLate] :
      \A s \in Sales : l[s] \in late[s]..(late[s] + OnTheWire(C, s)) }

-----------------------------------------------------------------------------
TypeOK ==
  /\ up \in {"off", "on", "stopWorker", "stopIo"}
  /\ told \subseteq Sales
  /\ cache \subseteq Items
  /\ ioq \in Seq(Task)
  /\ rows \in [Sales -> [status : Statuses, due : BOOLEAN]]
  /\ stored \subseteq Sales
  /\ older \in [Sales -> SUBSET Sales]
  /\ wpc \in {"idle", "finding", "sending", "marking", "cleaning"}
  /\ batch \subseteq Sales
  /\ cur \in Clients
  /\ wpc \in {"sending", "marking"} => cur \in batch
  /\ call \in [Clients -> {Idle, OnWire} \cup Codes]
  /\ call[Worker] # Idle => wpc = "sending"
  /\ late \in [Sales -> 0..MaxLate]
  /\ recorded \subseteq Sales
  /\ refused \subseteq Sales
  /\ catalog \subseteq Items
  /\ edits \in 0..MaxEdits
  /\ stops \in 0..MaxStops

Init ==
  /\ up = "off" /\ told = {} /\ cache = {}
  /\ ioq = <<>>
  /\ rows = [s \in Sales |-> [status |-> "none", due |-> TRUE]]
  /\ stored = {} /\ older = [s \in Sales |-> {}]
  /\ wpc = "idle" /\ batch = {} /\ cur = Worker
  /\ call = [c \in Clients |-> Idle]
  /\ late = [s \in Sales |-> 0]
  /\ recorded = {} /\ refused = {}
  /\ catalog = Items
  /\ edits = 0 /\ stops = 0

-----------------------------------------------------------------------------
(* Plugin life cycle.                                                      *)

\* onEnable: the table is there, the cache starts empty.
Enable ==
  /\ up = "off"
  /\ up' = "on"
  /\ UNCHANGED <<told, cache, ioq, tableVars, workerVars, call, apiVars, bounds>>

\* onDisable, first half: no new cycle, no new async task, no command.
Disable ==
  /\ up = "on" /\ stops < MaxStops
  /\ up' = "stopWorker"
  /\ stops' = stops + 1
  /\ UNCHANGED <<told, cache, ioq, tableVars, workerVars, call, apiVars, edits>>

\* shutdownNow on the worker: an interrupted delivery counts as TRANSIENT and
\* its bump is submitted, but the interrupted await ends the cycle.
InterruptWorker ==
  /\ up = "stopWorker" /\ wpc # "idle"
  /\ ioq' = IF wpc = "sending" THEN Submit(ioq, "bump", cur, "nobody")
                               ELSE Abandoned(ioq)
  /\ late' \in LateAfter({Worker})
  /\ call' = [call EXCEPT ![Worker] = Idle]
  /\ wpc' = "idle" /\ batch' = {} /\ cur' = Worker
  /\ UNCHANGED <<pluginVars, tableVars, recorded, refused, catalog, bounds>>

\* The worker executor has terminated; queue-io stops taking tasks.
StopIo ==
  /\ up = "stopWorker" /\ wpc = "idle"
  /\ up' = "stopIo"
  /\ UNCHANGED <<told, cache, ioq, tableVars, workerVars, call, apiVars, bounds>>

\* The process is gone: only the table and what is on the wire remain.
Gone ==
  /\ up' = "off" /\ cache' = {}
  /\ ioq' = <<>>
  /\ late' \in LateAfter(Clients)
  /\ call' = [c \in Clients |-> Idle]
  /\ wpc' = "idle" /\ batch' = {} /\ cur' = Worker
  /\ UNCHANGED <<told, tableVars, recorded, refused, catalog, edits>>

\* queue-io drained, or forced by shutdownNow with tasks still on it.
Disabled ==
  /\ up = "stopIo"
  /\ Gone
  /\ UNCHANGED stops

Crash ==
  /\ up # "off" /\ stops < MaxStops
  /\ Gone
  /\ stops' = stops + 1

-----------------------------------------------------------------------------
(* The command.                                                            *)

\* Faulty variant: the delivery does not wait for the insert.
OnCommandPostsAtOnce(s) ==
  /\ up = "on"
  /\ s \notin told
  /\ itemOf[s] \in cache
  /\ ioq' = Submit(ioq, "insert", s, "nobody")
  /\ told' = told \cup {s}
  /\ call' = [call EXCEPT ![s] = OnWire]
  /\ UNCHANGED <<up, cache, tableVars, workerVars, apiVars, bounds>>

\* onCommand past its checks: submit the insert and answer at once.
OnCommand(s) ==
  /\ up = "on"
  /\ s \notin told
  /\ itemOf[s] \in cache
  /\ ioq' = Submit(ioq, "insert", s, "nobody")
  /\ told' = told \cup {s}
  /\ UNCHANGED <<up, cache, tableVars, workerVars, call, apiVars, bounds>>

\* ItemSyncTask.run: the active items replace the cache; a failed fetch keeps it.
SyncItems ==
  /\ up = "on"
  /\ cache # catalog
  /\ cache' = catalog
  /\ UNCHANGED <<up, told, ioq, tableVars, workerVars, call, apiVars, bounds>>

-----------------------------------------------------------------------------
(* The worker's control flow.                                              *)

\* The cycle ends.
EndCycle == wpc' = "idle" /\ batch' = {} /\ cur' = Worker /\ UNCHANGED call

\* Faulty variant: the row leaves the batch before it is processed.
NextRowForgetsCurrent(left, q) ==
  \/ /\ left = {}
     /\ ioq' = Submit(q, "cleanup", Worker, "worker")
     /\ wpc' = "cleaning" /\ batch' = {} /\ cur' = Worker
     /\ UNCHANGED call
  \/ \E s \in left :
     /\ cur' = s /\ batch' = left \ {s} /\ wpc' = "sending"
     /\ call' = [call EXCEPT ![Worker] = OnWire]
     /\ ioq' = q

\* runCycle's loop: post the oldest row left, or clean up when none is.
\* q is the queue the step leaves before its own submission.
NextRow(left, q) ==
  \/ /\ left = {}
     /\ ioq' = Submit(q, "cleanup", Worker, "worker")
     /\ wpc' = "cleaning" /\ batch' = {} /\ cur' = Worker
     /\ UNCHANGED call
  \/ \E s \in left :
     /\ older[s] \cap left = {}
     /\ cur' = s /\ batch' = left /\ wpc' = "sending"
     /\ call' = [call EXCEPT ![Worker] = OnWire]
     /\ ioq' = q

\* The scheduled tick starts a cycle unless one is in flight.
Tick ==
  /\ up = "on" /\ wpc = "idle"
  /\ wpc' = "finding"
  /\ ioq' = Submit(ioq, "find", Worker, "worker")
  /\ UNCHANGED <<pluginVars, tableVars, batch, cur, call, apiVars, bounds>>

\* await gave up after IO_TIMEOUT: the read and the cleanup end the cycle, a
\* mark only its row.  The task itself still runs later.
AwaitTimeout ==
  /\ wpc \in {"finding", "marking", "cleaning"}
  /\ Len(ioq) <= MaxQueued
  /\ IF wpc = "marking" THEN NextRow(batch \ {cur}, Abandoned(ioq))
                        ELSE EndCycle /\ ioq' = Abandoned(ioq)
  /\ UNCHANGED <<pluginVars, tableVars, apiVars, bounds>>

-----------------------------------------------------------------------------
(* queue-io: the task at the head runs, its future completes, and whoever  *)
(* waits for it goes on.                                                   *)

Running(op) == up # "off" /\ ioq # <<>> /\ Head(ioq).op = op

\* What a completed future does to the worker, when it is the worker's.
Completed(left) ==
  IF Head(ioq).who = "worker"
    THEN NextRow(left, Tail(ioq))
    ELSE ioq' = Tail(ioq) /\ UNCHANGED <<workerVars, call>>

\* enqueuePending, and its callback: the first delivery starts only once the
\* row is durable, and only while the plugin may schedule tasks.
EnqueuePending ==
  /\ Running("insert")
  /\ LET s == Head(ioq).sale IN
     /\ rows' = [rows EXCEPT ![s] = [status |-> "pending", due |-> TRUE]]
     /\ stored' = stored \cup {s}
     /\ older' = [older EXCEPT ![s] = stored]
     /\ call' = [call EXCEPT ![s] = IF up = "on" THEN OnWire ELSE @]
  /\ ioq' = Tail(ioq)
  /\ UNCHANGED <<pluginVars, workerVars, apiVars, bounds>>

\* markSent and markFailedPermanent: an UPDATE by sale_id, whatever the
\* status was; a deleted row stays deleted.
UpdateStatus(status) ==
  /\ Running(status)
  /\ LET s == Head(ioq).sale IN
     rows' = [rows EXCEPT ![s].status = IF @ = "none" THEN @ ELSE status]
  /\ Completed(batch \ {cur})
  /\ UNCHANGED <<pluginVars, stored, older, apiVars, bounds>>

\* Faulty variant: the bump also resets the status.
BumpTransientReopens ==
  /\ Running("bump")
  /\ rows' = [rows EXCEPT ![Head(ioq).sale] = [status |-> "pending", due |-> FALSE]]
  /\ Completed(batch \ {cur})
  /\ UNCHANGED <<pluginVars, stored, older, apiVars, bounds>>

\* bumpTransient: the row waits for its backoff; its status is left alone.
BumpTransient ==
  /\ Running("bump")
  /\ rows' = [rows EXCEPT ![Head(ioq).sale].due = FALSE]
  /\ Completed(batch \ {cur})
  /\ UNCHANGED <<pluginVars, stored, older, apiVars, bounds>>

\* Faulty variant: one row too few.
PendingDueOffByOne ==
  LET due == { s \in Sales : rows[s].status = "pending" /\ rows[s].due }
  IN  { s \in due : Cardinality(older[s] \cap due) + 1 < BatchLimit }

\* The rows findPendingDue returns: pending and due, oldest first, at most
\* BatchLimit of them.
PendingDue ==
  LET due == { s \in Sales : rows[s].status = "pending" /\ rows[s].due }
  IN  { s \in due : Cardinality(older[s] \cap due) < BatchLimit }

FindPendingDue ==
  /\ Running("find")
  /\ Completed(PendingDue)
  /\ UNCHANGED <<pluginVars, tableVars, apiVars, bounds>>

\* Faulty variant: the DELETE looks at the age alone.
DeletableAnyStatus == { s \in Sales : rows[s].status # "none" }

\* The rows the cleanup's DELETE may take; which of them are past the
\* retention is any subset.
Deletable == { s \in Sales : rows[s].status \in Terminal }

\* cleanupTerminal: deletes the settled rows that are past the retention.
CleanupTerminal ==
  /\ Running("cleanup")
  /\ \E expired \in SUBSET Deletable :
       rows' = [s \in Sales |->
                  IF s \in expired THEN [rows[s] EXCEPT !.status = "none"]
                                   ELSE rows[s]]
  /\ ioq' = Tail(ioq)
  /\ IF Head(ioq).who = "worker" THEN EndCycle ELSE UNCHANGED <<workerVars, call>>
  /\ UNCHANGED <<pluginVars, stored, older, apiVars, bounds>>

\* Faulty variant: the future of a failed statement never completes.
TaskFailsHangs ==
  /\ up # "off" /\ ioq # <<>>
  /\ ioq' = Tail(ioq)
  /\ UNCHANGED <<pluginVars, tableVars, workerVars, call, apiVars, bounds>>

\* Any statement may fail: logged, its future fails, the table is unchanged.
\* A failed insert is a sale nobody delivers; a failed read or cleanup ends
\* the cycle, a failed mark only its row.
TaskFails ==
  /\ up # "off" /\ ioq # <<>>
  /\ IF Head(ioq).op \in Marks
       THEN Completed(batch \ {cur})
       ELSE /\ ioq' = Tail(ioq)
            /\ IF Head(ioq).who = "worker"
                 THEN EndCycle ELSE UNCHANGED <<workerVars, call>>
  /\ UNCHANGED <<pluginVars, tableVars, apiVars, bounds>>

\* next_attempt_at <= now becomes true.
BackoffElapses(s) ==
  /\ ~rows[s].due
  /\ rows' = [rows EXCEPT ![s].due = TRUE]
  /\ UNCHANGED <<pluginVars, ioq, stored, older, workerVars, call, apiVars, bounds>>

-----------------------------------------------------------------------------
(* The backend: POST /sales.                                               *)

\* SalesService.record in one transaction, behind the guards: the catalog
\* gate comes first, then the insert that ignores a conflict.  500 is a
\* transaction that rolled back.  reply is what the controller answers.
Handle(s, reply) ==
  \/ reply \in GuardCodes \cup {500} /\ UNCHANGED recorded
  \/ itemOf[s] \notin catalog /\ reply = 422 /\ UNCHANGED recorded
  \/ /\ itemOf[s] \in catalog
     /\ reply = IF s \in recorded THEN 200 ELSE 201
     /\ recorded' = recorded \cup {s}

PostSale(c) ==
  /\ call[c] = OnWire
  /\ \E reply \in Codes :
       /\ Handle(SaleOf(c), reply)
       /\ call' = [call EXCEPT ![c] = reply]
       /\ refused' = IF reply \in 400..499
                       THEN refused \cup {SaleOf(c)} ELSE refused
  /\ UNCHANGED <<pluginVars, ioq, tableVars, workerVars, late, catalog, bounds>>

\* A request whose client is gone is handled all the same.
PostLate(s) ==
  /\ late[s] > 0
  /\ late' = [late EXCEPT ![s] = @ - 1]
  /\ \E reply \in Codes : Handle(s, reply)
  /\ UNCHANGED <<pluginVars, ioq, tableVars, workerVars, call, refused, catalog, bounds>>

\* An admin activates or deactivates an item.
EditCatalog(i) ==
  /\ edits < MaxEdits
  /\ edits' = edits + 1
  /\ catalog' = IF i \in catalog THEN catalog \ {i} ELSE catalog \cup {i}
  /\ UNCHANGED <<pluginVars, ioq, tableVars, workerVars, call, late, recorded,
                 refused, stops>>

-----------------------------------------------------------------------------
(* The clients: what a call that ended does to its row.                    *)

MarkOf(outcome) ==
  CASE outcome = "ACK" -> "sent"
    [] outcome = "PERMANENT" -> "failed_permanent"
    [] outcome = "TRANSIENT" -> "bump"

\* processRow: the worker submits the row's new state and awaits it.
WorkerApplies(outcome) ==
  /\ ioq' = Submit(ioq, MarkOf(outcome), cur, "worker")
  /\ wpc' = "marking"
  /\ UNCHANGED <<batch, cur>>

\* Faulty variant: a transient failure closes the row.
FirstAppliesAlways(s, outcome) ==
  /\ ioq' = IF up = "stopIo" THEN ioq
            ELSE Submit(ioq, IF outcome = "ACK" THEN "sent"
                                                ELSE "failed_permanent", s, "nobody")
  /\ UNCHANGED workerVars

\* attemptDelivery: the mark is submitted and not awaited; TRANSIENT leaves
\* the row to the worker; a queue-io that stopped rejects the task.
FirstApplies(s, outcome) ==
  /\ ioq' = IF outcome = "TRANSIENT" \/ up = "stopIo"
              THEN ioq ELSE Submit(ioq, MarkOf(outcome), s, "nobody")
  /\ UNCHANGED workerVars

Applies(c, outcome) ==
  IF c = Worker THEN WorkerApplies(outcome) ELSE FirstApplies(c, outcome)

\* The answer reaches its client.
Answered(c) ==
  /\ call[c] \in Codes
  /\ Applies(c, Classify(call[c]))
  /\ call' = [call EXCEPT ![c] = Idle]
  /\ UNCHANGED <<pluginVars, tableVars, apiVars, bounds>>

\* Time-out or broken connection, before or after the API handled the
\* request: the client only knows it got no answer.
Unanswered(c) ==
  /\ call[c] # Idle
  /\ Applies(c, "TRANSIENT")
  /\ late' \in LateAfter({c})
  /\ call' = [call EXCEPT ![c] = Idle]
  /\ UNCHANGED <<pluginVars, tableVars, recorded, refused, catalog, bounds>>

-----------------------------------------------------------------------------
QueueIo ==
  \/ EnqueuePending
  \/ \E status \in Terminal : UpdateStatus(status)
  \/ BumpTransient
  \/ FindPendingDue
  \/ CleanupTerminal

Next ==
  \/ Enable \/ Disable \/ InterruptWorker \/ StopIo \/ Disabled \/ Crash
  \/ \E s \in Sales : OnCommand(s)
  \/ SyncItems
  \/ Tick \/ AwaitTimeout
  \/ QueueIo \/ TaskFails
  \/ \E s \in Sales : BackoffElapses(s) \/ PostLate(s)
  \/ \E c \in Clients : PostSale(c) \/ Answered(c) \/ Unanswered(c)
  \/ \E i \in Items : EditCatalog(i)

Spec == Init /\ [][Next]_vars
-----------------------------------------------------------------------------
(* Safety.                                                                 *)

\* A queue row is settled only by an answer that settles it: "sent" means the
\* backend holds the sale, "failed_permanent" that the API refused it.  The
\* answer travels through classify, a task and queue-io, and two clients may
\* be delivering the same row (SaleQueue.markSent, markFailedPermanent).
SettledWithCause ==
  \A s \in Sales :
    /\ rows[s].status = "sent" => s \in recorded
    /\ rows[s].status = "failed_permanent" => s \in refused

\* The write-ahead promise (SaleQueue, class comment): a sale the queue ever
\* held is still pending there, or the API has answered for it - through
\* crashes, forced shutdowns, failed statements and the retention cleanup.
NothingStoredIsLost ==
  \A s \in stored :
    rows[s].status = "pending" \/ s \in recorded \/ s \in refused

\* While the worker blocks on a future, the task that completes it is on
\* queue-io, so the worker is never left waiting for nothing
\* (SaleQueueWorker.await; the self-deadlock its class comment describes).
WorkerWaitsForATask ==
  wpc \in {"finding", "marking", "cleaning"} =>
    \E i \in DOMAIN ioq : ioq[i].who = "worker"

\* The pipeline implements the ledger: write-ahead order, at most one record
\* per sale, nothing settled without an answer.
Settled == { s \in stored : rows[s].status # "pending" }
Ledger == INSTANCE SaleLedger WITH settled <- Settled
ImplementsLedger == Ledger!Spec

\* Sales of which the API recorded one delivery and refused another: by a guard
\* in front of the service, or because the item was deactivated in between.
Disputed == recorded \cap refused

\* A settled row is final ("Terminal - the worker stops here", "Terminal - never
\* retried": SaleQueue.markSent, markFailedPermanent), but for a sale the API
\* itself answered both ways.  The UPDATE does not look at the status, so
\* nothing else keeps the late mark of one client, or one queued before a
\* restart of the cycle, from undoing that of the other.
TerminalIsFinal ==
  [][\A s \in Sales \ Disputed : rows[s].status \in Terminal =>
       rows'[s].status \in {rows[s].status, "none"}]_vars

\* Re-sending a recorded sale answers 2xx, whatever happened to its item since
\* (SalesService, class comment), the guards and a failing database aside.
ReplayIsAcknowledged ==
  [][\A c \in Clients :
       call[c] = OnWire /\ SaleOf(c) \in recorded =>
         call'[c] \notin {422}]_vars

\* A sale the sender was told about survives the process (onCommand: "so a
\* crash between parsed and sent can never lose the sale").
ToldSurvives == up = "off" => told \subseteq stored

-----------------------------------------------------------------------------
(* Liveness.                                                               *)

\* The threads run: queue-io takes its next task, the schedule ticks while the
\* plugin is up, the server restarts the plugin, a backoff elapses, and a call
\* ends (the HTTP client has a time-out).  The network and SQLite fail now and
\* then, not for ever: a worker's request for s is answered other than by 5xx
\* infinitely often if it is posted infinitely often, the answer arrives, the
\* statement succeeds.
Fairness ==
  /\ WF_vars(Enable) /\ WF_vars(StopIo) /\ WF_vars(Disabled)
  /\ WF_vars(Tick) /\ WF_vars(QueueIo)
  /\ WF_vars(Answered(Worker))
  /\ SF_vars(wpc = "finding" /\ FindPendingDue /\ wpc' # "finding")
  /\ \A s \in Sales :
       /\ WF_vars(BackoffElapses(s))
       /\ SF_vars(cur = s /\ PostSale(Worker) /\ call'[Worker] # 500)
       /\ SF_vars(cur = s /\ Answered(Worker)
                          /\ Classify(call[Worker]) # "TRANSIENT")
       /\ SF_vars(ioq # <<>> /\ Head(ioq).sale = s
                  /\ \E status \in Terminal : UpdateStatus(status))

FairSpec == Spec /\ Fairness

\* Every row leaves "pending" in the end: no crash, time-out, batch limit or
\* lost answer leaves a sale in the queue for ever.
EveryRowSettles ==
  \A s \in Sales : (rows[s].status = "pending") ~> (rows[s].status # "pending")

\* With the catalog left alone and no guard in the way, a stored sale is
\* recorded.
EveryStoredSaleIsRecorded ==
  \A s \in Sales : (s \in stored) ~> (s \in recorded)
=============================================================================
