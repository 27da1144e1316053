----------------------------- MODULE EconomySync -----------------------------
(***************************************************************************)
(* The two nightly copies of the economy layer.  PaymentsSyncService       *)
(* copies the payments of the game's log, upserted in chunks, and recounts *)
(* its account creations, replaced in a transaction.                       *)
(* PlayerDimensionSyncService upserts the players Plan knows, in one       *)
(* transaction.  A row of a table is known by the run that wrote it last   *)
(* (synced_at).                                                            *)
(*                                                                         *)
(* The reports check for a successful run, then read the tables.  Neither  *)
(* the row of a run nor a row of a copy ever goes away, so what holds of   *)
(* every successful row and the tables at all times holds of their answers.*)
(***************************************************************************)
EXTENDS Naturals, Sequences, FiniteSets, Functions

CONSTANTS
  Keys,       \* the five fields of a payment; numbers, in the order read
  MaxCopies,  \* bound: identical payments
  Players,
  ChunkSize,  \* rows in one statement
  Logs,       \* what the game's log may answer
  Payloads,   \* what Plan may answer
  MaxRuns     \* bound: runs, of both jobs

Ordinals == 0..(MaxCopies - 1)

\* paid: how often each payment is in the log; created: its SET rows; dated:
\* those of them that toSaoPauloDay has a day for (a zero date has none).
Log == [paid : [Keys -> 0..MaxCopies], created : Nat, dated : Nat]

\* players: the readable rows; rows: all of them.
Payload == [players : SUBSET Players, rows : Nat]

ASSUME EconomyAssumption ==
  /\ Keys \subseteq Nat /\ IsFiniteSet(Keys)
  /\ MaxCopies \in Nat /\ MaxRuns \in Nat /\ ChunkSize \in Nat \ {0}
  /\ Logs \subseteq Log
  /\ \A log \in Logs : log.dated <= log.created
  /\ Payloads \subseteq Payload
  /\ \A p \in Payloads : Cardinality(p.players) <= p.rows

VARIABLES
  runs,       \* runs begun so far
  job,        \* what each job is doing
  read,       \* what the source answered to each run
  syncs,      \* player_payment_syncs and player_dimension_syncs
  payments,   \* player_payments: the run that wrote each row, 0 if none did
  creations,  \* account_creations_daily: the run it is of, the SET rows it counts
  dimension   \* player_dimension: the run that wrote each row, 0 if none did

vars == <<runs, job, read, syncs, payments, creations, dimension>>

-----------------------------------------------------------------------------
Jobs   == {"payments", "dimension"}

\* The tables.
Payments  == [Keys \X Ordinals -> 0..MaxRuns]
Creations == [run : 0..MaxRuns, rows : Nat]
Dimension == [Players -> 0..MaxRuns]

Unread == [unread |-> TRUE]
Status == {"ok", "error"}
Row    == [status : Status, run : 1..MaxRuns]
Empty  == [run |-> 0, rows |-> 0]

\* left: the keyed payments still to be written.
Job == [pc : {"idle", "reading", "read", "writing", "written", "refused"},
        run : 0..MaxRuns, left : SUBSET (Keys \X Ordinals)]
NoJob == [pc |-> "idle", run |-> 0, left |-> {}]

\* Faulty variant: identical payments are one.
KeyedOnce(paid) == {<<k, 0>> : k \in {k \in Keys : paid[k] > 0}}

\* assignOrdinals: the rows identical to one another are numbered from 0, in
\* whatever order they come.
Keyed(paid) == {row \in Keys \X Ordinals : row[2] < paid[row[1]]}

Before(a, b) == a[1] < b[1] \/ (a[1] = b[1] /\ a[2] < b[2])

\* The next slice of the rows left.
IsChunk(chunk, left) ==
  /\ chunk \subseteq left /\ chunk # {}
  /\ Cardinality(chunk) <= ChunkSize
  /\ chunk # left => Cardinality(chunk) = ChunkSize
  /\ \A a \in chunk, b \in left \ chunk : Before(a, b)

\* A job has rows left only while it writes, never more than its own read has,
\* and writes only what it has read.
TypeOK ==
  /\ runs \in 0..MaxRuns
  /\ job \in [Jobs -> Job]
  /\ read \in [1..MaxRuns -> Log \cup Payload \cup {Unread}]
  /\ syncs \in [Jobs -> Seq(Row)]
  /\ payments \in Payments /\ creations \in Creations /\ dimension \in Dimension
  /\ \A j \in Jobs :
       /\ job[j].pc = "idle" => job[j] = NoJob
       /\ job[j].pc # "idle" => job[j].run \in 1..runs
       /\ job[j].pc # "writing" => job[j].left = {}
  /\ job["payments"].pc \in {"read", "writing", "written"} =>
       /\ read[job["payments"].run] \in Log
       /\ job["payments"].left \subseteq Keyed(read[job["payments"].run].paid)
  /\ job["dimension"].pc \in {"read", "writing", "written"} =>
       read[job["dimension"].run] \in Payload /\ job["dimension"].left = {}

Init ==
  /\ runs = 0
  /\ job = [j \in Jobs |-> NoJob]
  /\ read = [n \in 1..MaxRuns |-> Unread]
  /\ syncs = [j \in Jobs |-> <<>>]
  /\ payments = [row \in Keys \X Ordinals |-> 0]
  /\ creations = Empty
  /\ dimension = [u \in Players |-> 0]

-----------------------------------------------------------------------------
(* The floors.                                                             *)

\* payments.length: the identical ones too.
Total(paid) == FoldFunction(+, 0, paid)

LogDegenerate(log) == Total(log.paid) = 0 \/ log.created = 0

PayloadDegenerate(p) == p.rows = 0

Degenerate(j, found) ==
  IF j = "payments" THEN LogDegenerate(found) ELSE PayloadDegenerate(found)

\* Less than half of what the last successful run had read; a count of 0 is no
\* baseline.
Fell(now, before) == before > 0 /\ 2 * now < before

\* Faulty variant: the recount has no floor of its own.
LogBelowByPayments(log, last) == Fell(Total(log.paid), Total(last.paid))

LogBelow(log, last) ==
  \/ Fell(Total(log.paid), Total(last.paid))
  \/ Fell(log.created, last.created)

\* Unreadable rows count: the floor is on what Plan sent.
PayloadBelow(p, last) == Fell(p.rows, last.rows)

Below(j, found, last) ==
  IF j = "payments" THEN LogBelow(found, last) ELSE PayloadBelow(found, last)

\* lastSuccessfulSync.
IsLastOk(j, i) ==
  /\ i \in DOMAIN syncs[j] /\ syncs[j][i].status = "ok"
  /\ \A h \in DOMAIN syncs[j] : syncs[j][h].status = "ok" => h <= i

-----------------------------------------------------------------------------
(* Both jobs.  A job is a timer of its own and awaits its own run.         *)

Goto(j, pc) == job' = [job EXCEPT ![j].pc = pc]

Begin(j) ==
  /\ job[j].pc = "idle" /\ runs < MaxRuns
  /\ runs' = runs + 1
  /\ job' = [job EXCEPT ![j] = [pc |-> "reading", run |-> runs + 1, left |-> {}]]
  /\ UNCHANGED <<read, syncs, payments, creations, dimension>>

\* PaymentsSyncScheduler and PlayerDimensionScheduler.
PaymentsTick  == Begin("payments")
DimensionTick == Begin("dimension")

ReadFails(j) ==
  /\ job[j].pc = "reading"
  /\ Goto(j, "refused")
  /\ UNCHANGED <<runs, read, syncs, payments, creations, dimension>>

\* A query fails, or there is no connection.
LogFails == ReadFails("payments")

\* The request fails, or the payload is not what Plan used to send.
PayloadFails == ReadFails("dimension")

Read(j, found) ==
  /\ job[j].pc = "reading"
  /\ read' = [read EXCEPT ![job[j].run] = found]
  /\ Goto(j, "read")
  /\ UNCHANGED <<runs, syncs, payments, creations, dimension>>

\* Two queries: the payments, then the instants of the SET rows.
ReadLog(log) == Read("payments", log)

\* parseRetention refuses a payload none of whose rows is readable.
Readable(p) == p.rows > 0 => p.players # {}

ReadPayload(p) == Readable(p) /\ Read("dimension", p)

\* floorRefusal; what passes it is written.
Judge(j) ==
  /\ job[j].pc = "read"
  /\ LET found == read[job[j].run]
         refused == \/ Degenerate(j, found)
                    \/ \E i \in DOMAIN syncs[j] :
                         IsLastOk(j, i) /\ Below(j, found, read[syncs[j][i].run])
     IN job' = [job EXCEPT
          ![j] = [pc |-> IF refused THEN "refused" ELSE "writing",
                  run |-> job[j].run,
                  left |-> IF refused \/ j = "dimension"
                           THEN {} ELSE Keyed(found.paid)]]
  /\ UNCHANGED <<runs, read, syncs, payments, creations, dimension>>

\* A statement outside every try fails: sync throws and leaves no row.
Throw(j) ==
  /\ \/ job[j].pc = "read" /\ ~Degenerate(j, read[job[j].run])
     \/ job[j].pc \in {"written", "refused"}
  /\ job' = [job EXCEPT ![j] = NoJob]
  /\ UNCHANGED <<runs, read, syncs, payments, creations, dimension>>

\* A statement of the write fails; a transaction is rolled back.
WriteFails(j) ==
  /\ job[j].pc = "writing"
  /\ job' = [job EXCEPT ![j] = [pc |-> "refused", run |-> job[j].run, left |-> {}]]
  /\ UNCHANGED <<runs, read, syncs, payments, creations, dimension>>

Record(j, status) ==
  /\ syncs' = [syncs EXCEPT ![j] =
       Append(syncs[j], [status |-> status, run |-> job[j].run])]
  /\ job' = [job EXCEPT ![j] = NoJob]
  /\ UNCHANGED <<runs, read, payments, creations, dimension>>

RecordSuccess(j) == job[j].pc = "written" /\ Record(j, "ok")
RecordFailure(j) == job[j].pc = "refused" /\ Record(j, "error")

\* What either sync does once it has read.
PaymentsSync ==
  LET j == "payments" IN
  Judge(j) \/ WriteFails(j) \/ RecordSuccess(j) \/ Throw(j)
DimensionSync ==
  LET j == "dimension" IN
  Judge(j) \/ WriteFails(j) \/ RecordSuccess(j) \/ Throw(j)

\* Their fail.
PaymentsFail  == RecordFailure("payments")
DimensionFail == RecordFailure("dimension")

\* The process dies and is started again.
Restart ==
  /\ job' = [j \in Jobs |-> NoJob]
  /\ UNCHANGED <<runs, read, syncs, payments, creations, dimension>>

-----------------------------------------------------------------------------
(* The writes.                                                             *)

\* upsertPayments: each chunk is a transaction of its own.
UpsertChunk ==
  /\ job["payments"].pc = "writing"
  /\ \E chunk \in SUBSET job["payments"].left :
       /\ IsChunk(chunk, job["payments"].left)
       /\ payments' = [row \in Keys \X Ordinals |->
            IF row \in chunk THEN job["payments"].run ELSE payments[row]]
       /\ job' = [job EXCEPT !["payments"].left = job["payments"].left \ chunk]
  /\ UNCHANGED <<runs, read, syncs, creations, dimension>>

\* toDailySeries: a SET row that no day can be told of is in none.  The floors
\* have counted it.
DailySeries(n) == [run |-> n, rows |-> read[n].dated]

\* replaceCreations.
ReplaceCreations ==
  /\ job["payments"].pc = "writing" /\ job["payments"].left = {}
  /\ creations' = DailySeries(job["payments"].run)
  /\ Goto("payments", "written")
  /\ UNCHANGED <<runs, read, syncs, payments, dimension>>

\* Faulty variant: a transaction per chunk, the second of which fails.
UpsertHalf ==
  /\ job["dimension"].pc = "writing"
  /\ \E half \in SUBSET read[job["dimension"].run].players :
       dimension' = [u \in Players |->
         IF u \in half THEN job["dimension"].run ELSE dimension[u]]
  /\ Goto("dimension", "written")
  /\ UNCHANGED <<runs, read, syncs, payments, creations>>

\* PlayerDimensionStore.upsert.
UpsertDimension ==
  /\ job["dimension"].pc = "writing"
  /\ dimension' = [u \in Players |->
       IF u \in read[job["dimension"].run].players
       THEN job["dimension"].run ELSE dimension[u]]
  /\ Goto("dimension", "written")
  /\ UNCHANGED <<runs, read, syncs, payments, creations>>

-----------------------------------------------------------------------------
Next ==
  \/ PaymentsTick \/ DimensionTick
  \/ LogFails \/ PayloadFails
  \/ \E log \in Logs : ReadLog(log)
  \/ \E p \in Payloads : ReadPayload(p)
  \/ PaymentsSync \/ DimensionSync
  \/ UpsertChunk \/ ReplaceCreations \/ UpsertDimension
  \/ PaymentsFail \/ DimensionFail
  \/ Restart

Spec == Init /\ [][Next]_vars

-----------------------------------------------------------------------------
(* Properties.                                                             *)

Ok(j) == {syncs[j][i].run : i \in {i \in DOMAIN syncs[j] : syncs[j][i].status = "ok"}}

\* The feed is never short: every payment a successful run read, each of
\* several identical ones included, is in the copy, as fresh as that run.  And
\* no row is in it that the run which wrote it had not read, whatever failed
\* between two chunks (assignOrdinals, upsertPayments).
CopyHoldsWhatWasRead ==
  /\ \A n \in Ok("payments") : \A k \in Keys, o \in Ordinals :
       o < read[n].paid[k] => payments[<<k, o>>] >= n
  /\ \A k \in Keys, o \in Ordinals : payments[<<k, o>>] > 0 =>
       /\ read[payments[<<k, o>>]] \in Log
       /\ o < read[payments[<<k, o>>]].paid[k]

\* The arrivals series is replaced whole, by a read that passed the floors: it
\* is no older than any successful run, it counts every dated SET row of the
\* one run it is of, and that run had counted at least half of what the last
\* successful run had, even when a run that replaced it is not on record.  So
\* what it may lose beyond half are rows no day can be told of: these pass the
\* floors, and a log that has no others empties it (floorRefusal,
\* toDailySeries, replaceCreations).
SeriesStands ==
  /\ \A n \in Ok("payments") : creations.run >= n
  /\ creations.run > 0 =>
       LET log     == read[creations.run]
           undated == log.created - log.dated
       IN  /\ log \in Log /\ creations.rows = log.dated
           /\ creations.rows + undated > 0
           /\ \A i \in DOMAIN syncs["payments"] :
                IsLastOk("payments", i) =>
                  2 * (creations.rows + undated) >= read[syncs["payments"][i].run].created

\* The dimension is never half refreshed: if one row is of a run, so is every
\* other player that run read, unless a later run wrote it.  A successful run
\* wrote all it had read (upsert).
DimensionIsWhole ==
  /\ \A u \in Players : dimension[u] > 0 =>
       \A v \in read[dimension[u]].players : dimension[v] >= dimension[u]
  /\ \A n \in Ok("dimension") : \A v \in read[n].players : dimension[v] >= n

=============================================================================
