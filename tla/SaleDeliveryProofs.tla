------------------------- MODULE SaleDeliveryProofs -------------------------
(***************************************************************************)
(* Proofs about SaleDelivery, for any sales, items and bounds.             *)
(***************************************************************************)
EXTENDS SaleDelivery, TLAPS

-----------------------------------------------------------------------------
(* Lemmas about the queue of tasks.                                        *)

Tasks(q) == { q[i] : i \in DOMAIN q }

\* At most one task of q is awaited by the worker.
OneAwaited(q) ==
  \A i, j \in DOMAIN q : q[i].who = "worker" /\ q[j].who = "worker" => i = j

Awaited(q) == \E t \in Tasks(q) : t.who = "worker"

\* A sale has at most one insert on q.
InsertsDistinct(q) ==
  \A i, j \in DOMAIN q :
    q[i].op = "insert" /\ q[j].op = "insert" /\ q[i].sale = q[j].sale => i = j

\* Submitting a task adds that task at the end.
LEMMA SubmitLemma ==
  ASSUME NEW q \in Seq(Task), NEW op, NEW s, NEW who,
         [op |-> op, sale |-> s, who |-> who] \in Task
  PROVE  /\ Submit(q, op, s, who) \in Seq(Task)
         /\ Tasks(Submit(q, op, s, who))
              = Tasks(q) \cup {[op |-> op, sale |-> s, who |-> who]}
         /\ who # "worker" \/ ~Awaited(q) =>
              (OneAwaited(q) => OneAwaited(Submit(q, op, s, who)))
         /\ Awaited(Submit(q, op, s, who)) <=> Awaited(q) \/ who = "worker"
         /\ InsertsDistinct(q)
            /\ (op = "insert" => \A t \in Tasks(q) : t.op = "insert" => t.sale # s)
              => InsertsDistinct(Submit(q, op, s, who))
<1> DEFINE t == [op |-> op, sale |-> s, who |-> who]
<1> DEFINE r == Submit(q, op, s, who)
<1>1. /\ r \in Seq(Task)
      /\ Len(r) = Len(q) + 1
      /\ DOMAIN r = 1..(Len(q) + 1)
      /\ DOMAIN q = 1..Len(q)
      /\ Len(q) \in Nat
      /\ \A i \in DOMAIN q : r[i] = q[i]
      /\ r[Len(q) + 1] = t
  BY DEF Submit
<1> HIDE DEF r
<1>2. Tasks(r) = Tasks(q) \cup {t}
  <2>1. \A x \in Tasks(r) : x \in Tasks(q) \cup {t}
    BY <1>1 DEF Tasks
  <2>2. \A x \in Tasks(q) \cup {t} : x \in Tasks(r)
    BY <1>1 DEF Tasks
  <2> QED BY <2>1, <2>2
<1>3. ASSUME OneAwaited(q), who # "worker" \/ ~Awaited(q)
      PROVE  OneAwaited(r)
  BY <1>1, <1>3 DEF OneAwaited, Awaited, Tasks
<1>4. Awaited(r) <=> Awaited(q) \/ who = "worker"
  BY <1>2 DEF Awaited
<1>5. ASSUME InsertsDistinct(q),
             op = "insert" => \A x \in Tasks(q) : x.op = "insert" => x.sale # s
      PROVE  InsertsDistinct(r)
  BY <1>1, <1>5 DEF InsertsDistinct, Tasks
<1> QED BY <1>1, <1>2, <1>3, <1>4, <1>5 DEF r

\* Running a task removes the first one.
LEMMA TailLemma ==
  ASSUME NEW q \in Seq(Task), q # <<>>
  PROVE  /\ Head(q) \in Task
         /\ Head(q) \in Tasks(q)
         /\ Tail(q) \in Seq(Task)
         /\ Tasks(Tail(q)) \subseteq Tasks(q)
         /\ OneAwaited(q) => OneAwaited(Tail(q))
         /\ OneAwaited(q) /\ Head(q).who = "worker" => ~Awaited(Tail(q))
         /\ Head(q).who # "worker" => (Awaited(Tail(q)) <=> Awaited(q))
         /\ InsertsDistinct(q) =>
              /\ InsertsDistinct(Tail(q))
              /\ Head(q).op = "insert" =>
                   \A t \in Tasks(Tail(q)) : t.op = "insert" => t.sale # Head(q).sale
<1>1. /\ Len(q) \in Nat /\ Len(q) > 0
      /\ DOMAIN q = 1..Len(q)
      /\ Tail(q) \in Seq(Task)
      /\ DOMAIN Tail(q) = 1..(Len(q) - 1)
      /\ Head(q) = q[1] /\ Head(q) \in Task
      /\ \A i \in 1..(Len(q) - 1) : Tail(q)[i] = q[i + 1]
  OBVIOUS
<1>2. /\ Head(q) \in Tasks(q)
      /\ Tasks(Tail(q)) \subseteq Tasks(q)
  BY <1>1 DEF Tasks
<1>3. OneAwaited(q) => OneAwaited(Tail(q))
  BY <1>1 DEF OneAwaited
<1>4. ASSUME OneAwaited(q), Head(q).who = "worker"
      PROVE  ~Awaited(Tail(q))
  BY <1>1, <1>4 DEF OneAwaited, Awaited, Tasks
<1>5. ASSUME Head(q).who # "worker"
      PROVE  Awaited(Tail(q)) <=> Awaited(q)
  <2>1. ASSUME NEW i \in DOMAIN q, q[i].who = "worker"
        PROVE  i - 1 \in DOMAIN Tail(q) /\ Tail(q)[i - 1] = q[i]
    BY <1>1, <1>5, <2>1
  <2> QED BY <1>2, <2>1 DEF Awaited, Tasks
<1>6. ASSUME InsertsDistinct(q)
      PROVE  /\ InsertsDistinct(Tail(q))
             /\ Head(q).op = "insert" =>
                  \A t \in Tasks(Tail(q)) : t.op = "insert" => t.sale # Head(q).sale
  BY <1>1, <1>6 DEF InsertsDistinct, Tasks
<1> QED BY <1>1, <1>2, <1>3, <1>4, <1>5, <1>6

\* Abandoning the awaited future changes nothing else on the queue.
LEMMA AbandonedLemma ==
  ASSUME NEW q \in Seq(Task)
  PROVE  /\ Abandoned(q) \in Seq(Task)
         /\ ~Awaited(Abandoned(q))
         /\ OneAwaited(Abandoned(q))
         /\ InsertsDistinct(q) => InsertsDistinct(Abandoned(q))
         /\ \A t \in Tasks(Abandoned(q)) :
              \E u \in Tasks(q) : t.op = u.op /\ t.sale = u.sale /\ t.who = "nobody"
<1>1. /\ Len(q) \in Nat
      /\ DOMAIN q = 1..Len(q)
      /\ DOMAIN Abandoned(q) = DOMAIN q
      /\ \A i \in DOMAIN q : q[i] \in Task
  BY DEF Abandoned
<1>2. \A i \in DOMAIN q : /\ Abandoned(q)[i] \in Task
                          /\ Abandoned(q)[i].op = q[i].op
                          /\ Abandoned(q)[i].sale = q[i].sale
                          /\ Abandoned(q)[i].who = "nobody"
  BY <1>1 DEF Abandoned, Task
<1>3. Abandoned(q) \in Seq(Task)
  <2>1. Abandoned(q) \in [1..Len(q) -> Task]
    BY <1>1, <1>2 DEF Abandoned
  <2> QED BY <1>1, <2>1
<1> QED BY <1>1, <1>2, <1>3 DEF Awaited, OneAwaited, InsertsDistinct, Tasks
-----------------------------------------------------------------------------
(* The inductive invariant.                                                *)

\* What a task on queue-io may claim: a mark is justified by an answer, an
\* insert is of an announced sale not stored yet.
TaskJustified(t) ==
  /\ t.op \in Marks => t.sale \in stored
  /\ t.op = "sent" => t.sale \in recorded
  /\ t.op = "failed_permanent" => t.sale \in refused
  /\ t.op = "insert" => t.sale \in told \ stored /\ t.who = "nobody"

\* A call is of a stored sale, and its answer says what the API did.
CallJustified(c) ==
  /\ call[c] # Idle => SaleOf(c) \in stored
  /\ call[c] \in {200, 201} => SaleOf(c) \in recorded
  /\ call[c] \in 400..499 => SaleOf(c) \in refused

\* A row exists only for a stored sale, and is not pending only with an answer.
RowJustified(s) ==
  /\ rows[s].status # "none" => s \in stored
  /\ rows[s].status = "sent" => s \in recorded
  /\ rows[s].status = "failed_permanent" => s \in refused
  /\ s \in stored /\ rows[s].status = "none" => s \in recorded \cup refused

\* The sets are nested in the order a sale moves through them.
SetsNested ==
  /\ stored \subseteq told
  /\ recorded \subseteq stored
  /\ refused \subseteq stored
  /\ batch \subseteq stored
  /\ \A s \in Sales : late[s] > 0 => s \in stored

\* The worker awaits a future exactly when one task on the queue is its own.
FutureMatched ==
  /\ OneAwaited(ioq)
  /\ Awaited(ioq) <=> wpc \in {"finding", "marking", "cleaning"}

IInv ==
  /\ TypeOK
  /\ \A t \in Tasks(ioq) : TaskJustified(t)
  /\ InsertsDistinct(ioq)
  /\ FutureMatched
  /\ \A c \in Clients : CallJustified(c)
  /\ \A s \in Sales : RowJustified(s)
  /\ SetsNested

-----------------------------------------------------------------------------
(* What the worker's control flow does to the shared state, in one formula *)
(* for NextRow, EndCycle and a completed future.                           *)

CallType == [Clients -> {Idle, OnWire} \cup Codes]

\* Every task of r is one of q, possibly abandoned, or a cleanup.
FromQueue(r, q) ==
  \A t \in Tasks(r) :
    \/ t.op = "cleanup"
    \/ \E u \in Tasks(q) : /\ t.op = u.op /\ t.sale = u.sale
                           /\ t.who \in {u.who, "nobody"}

\* The worker's variables, its call and the queue after a step that may have
\* started to work on a row of left.
WorkerMoved(left) ==
  /\ ioq' \in Seq(Task)
  /\ FutureMatched'
  /\ InsertsDistinct(ioq')
  /\ FromQueue(ioq', ioq)
  /\ wpc' \in {"idle", "finding", "sending", "marking", "cleaning"}
  /\ batch' \subseteq batch \cup left
  /\ cur' \in Clients
  /\ wpc' \in {"sending", "marking"} => cur' \in batch'
  /\ call' \in CallType
  /\ \A s \in Sales : call'[s] = call[s]
  /\ call'[Worker] # Idle => wpc' = "sending"
  /\ \/ call'[Worker] = call[Worker] /\ cur' = cur
     \/ call'[Worker] = Idle
     \/ call'[Worker] = OnWire /\ cur' \in left

\* Going on to the next row, or to the cleanup, is a worker move.
LEMMA NextRowLemma ==
  ASSUME IInv, NEW left \in SUBSET Sales, NEW q \in Seq(Task),
         ~Awaited(q), OneAwaited(q), InsertsDistinct(q), FromQueue(q, ioq),
         call[Worker] = Idle, NextRow(left, q)
  PROVE  WorkerMoved(left)
<1> USE SaleDeliveryAssumption DEF Clients, IInv, TypeOK, Idle, OnWire
<1>1. CASE /\ left = {}
           /\ ioq' = Submit(q, "cleanup", Worker, "worker")
           /\ wpc' = "cleaning" /\ batch' = {} /\ cur' = Worker
           /\ UNCHANGED call
  <2> DEFINE t == [op |-> "cleanup", sale |-> Worker, who |-> "worker"]
  <2>1. t \in Task
    BY DEF Task
  <2>2. /\ ioq' \in Seq(Task)
        /\ Tasks(ioq') = Tasks(q) \cup {t}
        /\ OneAwaited(ioq')
        /\ Awaited(ioq')
        /\ InsertsDistinct(ioq')
    BY <1>1, <2>1, SubmitLemma
  <2>3. FromQueue(ioq', ioq)
    BY <2>2 DEF FromQueue
  <2>4. FutureMatched'
    BY <1>1, <2>2 DEF FutureMatched, OneAwaited, Awaited, Tasks
  <2> QED BY <1>1, <2>2, <2>3, <2>4 DEF WorkerMoved, CallType
<1>2. CASE \E s \in left :
             /\ older[s] \cap left = {}
             /\ cur' = s /\ batch' = left /\ wpc' = "sending"
             /\ call' = [call EXCEPT ![Worker] = OnWire]
             /\ ioq' = q
  <2>1. FutureMatched'
    BY <1>2 DEF FutureMatched, OneAwaited, Awaited, Tasks
  <2>2. FromQueue(ioq', ioq)
    BY <1>2
  <2> QED BY <1>2, <2>1, <2>2 DEF WorkerMoved, CallType
<1> QED BY <1>1, <1>2 DEF NextRow

\* Ending the cycle once the queue holds no awaited task is a worker move.
LEMMA EndCycleLemma ==
  ASSUME IInv, NEW q \in Seq(Task),
         ~Awaited(q), OneAwaited(q), InsertsDistinct(q), FromQueue(q, ioq),
         call[Worker] = Idle, EndCycle, ioq' = q
  PROVE  WorkerMoved({})
<1> USE SaleDeliveryAssumption DEF Clients, IInv, TypeOK, Idle, OnWire
<1>1. FutureMatched'
  BY DEF FutureMatched, EndCycle, OneAwaited, Awaited, Tasks
<1> QED BY <1>1 DEF WorkerMoved, EndCycle, CallType

\* The facts about the queue that remains once its head has run.
LEMMA RunHead ==
  ASSUME IInv, ioq # <<>>
  PROVE  /\ Head(ioq) \in Task
         /\ Head(ioq) \in Tasks(ioq)
         /\ TaskJustified(Head(ioq))
         /\ Tail(ioq) \in Seq(Task)
         /\ OneAwaited(Tail(ioq))
         /\ InsertsDistinct(Tail(ioq))
         /\ FromQueue(Tail(ioq), ioq)
         /\ Head(ioq).who = "worker" => ~Awaited(Tail(ioq)) /\ call[Worker] = Idle
         /\ Head(ioq).who # "worker" => (Awaited(Tail(ioq)) <=> Awaited(ioq))
<1>1. ioq \in Seq(Task) /\ OneAwaited(ioq) /\ InsertsDistinct(ioq)
  BY DEF IInv, TypeOK, FutureMatched
<1>2. FromQueue(Tail(ioq), ioq)
  BY <1>1, TailLemma DEF FromQueue
<1>3. Head(ioq).who = "worker" => call[Worker] = Idle
  BY <1>1, TailLemma DEF IInv, TypeOK, FutureMatched, Awaited
<1> QED BY <1>1, <1>2, <1>3, TailLemma DEF IInv

\* A completed future moves the worker when it is the worker's own.
LEMMA CompletedLemma ==
  ASSUME IInv, ioq # <<>>, NEW left \in SUBSET Sales, Completed(left)
  PROVE  WorkerMoved(left)
<1>1. CASE Head(ioq).who = "worker"
  BY <1>1, RunHead, NextRowLemma DEF Completed
<1>2. CASE Head(ioq).who # "worker"
  <2>1. ioq' = Tail(ioq) /\ UNCHANGED <<wpc, batch, cur, call>>
    BY <1>2 DEF Completed, workerVars
  <2>2. FutureMatched'
    BY <1>2, <2>1, RunHead DEF IInv, FutureMatched, OneAwaited, Awaited, Tasks
  <2> QED
    BY <2>1, <2>2, RunHead DEF WorkerMoved, IInv, TypeOK, CallType
<1> QED BY <1>1, <1>2

\* A failed or finished read or cleanup ends the cycle that awaits it.
LEMMA EndedLemma ==
  ASSUME IInv, ioq # <<>>, ioq' = Tail(ioq),
         IF Head(ioq).who = "worker" THEN EndCycle
                                     ELSE UNCHANGED <<workerVars, call>>
  PROVE  WorkerMoved({})
<1>1. CASE Head(ioq).who = "worker"
  BY <1>1, RunHead, EndCycleLemma
<1>2. CASE Head(ioq).who # "worker"
  <2>1. ioq' = Tail(ioq) /\ UNCHANGED <<wpc, batch, cur, call>>
    BY <1>2 DEF workerVars
  <2>2. FutureMatched'
    BY <1>2, <2>1, RunHead DEF IInv, FutureMatched, OneAwaited, Awaited, Tasks
  <2> QED
    BY <2>1, <2>2, RunHead DEF WorkerMoved, IInv, TypeOK, CallType
<1> QED BY <1>1, <1>2

\* A step of queue-io or of a time-out that moves the worker and touches at
\* most the rows keeps the invariant when the rows stay justified.
LEMMA WorkerMovedKeeps ==
  ASSUME IInv, NEW left \in SUBSET stored, WorkerMoved(left),
         UNCHANGED <<up, told, cache, stored, older, apiVars, bounds>>,
         rows' \in [Sales -> [status : Statuses, due : BOOLEAN]],
         \A s \in Sales : RowJustified(s)'
  PROVE  IInv'
<1> USE SaleDeliveryAssumption
<1>1. UNCHANGED <<up, told, cache, stored, older, late, recorded, refused,
                  catalog, edits, stops>>
  BY DEF apiVars, bounds
<1>2. TypeOK'
  BY <1>1 DEF IInv, TypeOK, WorkerMoved, CallType
<1>3. \A t \in Tasks(ioq') : TaskJustified(t)'
  BY <1>1 DEF IInv, TaskJustified, WorkerMoved, FromQueue, Marks, Terminal
<1>4. ASSUME NEW c \in Clients
      PROVE  CallJustified(c)'
  <2>1. CASE c = Worker
    <3>1. SaleOf(Worker) = cur /\ SaleOf(Worker)' = cur' /\ CallJustified(Worker)
      BY DEF SaleOf, IInv, Clients
    <3>2. CASE call'[Worker] = call[Worker] /\ cur' = cur
      BY <1>1, <2>1, <3>1, <3>2 DEF CallJustified
    <3>3. CASE call'[Worker] = Idle \/ (call'[Worker] = OnWire /\ cur' \in left)
      BY <1>1, <2>1, <3>1, <3>3 DEF CallJustified, Idle, OnWire
    <3> QED BY <3>2, <3>3 DEF WorkerMoved
  <2>2. CASE c # Worker
    <3>1. c \in Sales /\ call'[c] = call[c]
      BY <2>2 DEF Clients, WorkerMoved
    <3> QED BY <1>1, <2>2, <3>1 DEF IInv, CallJustified, SaleOf, Clients
  <2> QED BY <2>1, <2>2
<1>5. SetsNested'
  BY <1>1 DEF IInv, SetsNested, WorkerMoved
<1>6. FutureMatched' /\ InsertsDistinct(ioq)'
  BY DEF WorkerMoved, InsertsDistinct
<1>7. (\A t \in Tasks(ioq) : TaskJustified(t))'
  BY <1>3 DEF Tasks, TaskJustified
<1> QED BY <1>2, <1>4, <1>5, <1>6, <1>7 DEF IInv

-----------------------------------------------------------------------------
(* queue-io.                                                               *)

\* markSent and markFailedPermanent.
LEMMA UpdateStatusKeeps ==
  ASSUME IInv, NEW status \in Terminal, UpdateStatus(status)
  PROVE  IInv'
<1> DEFINE t == Head(ioq)
<1>1. /\ t \in Task /\ t.op = status /\ TaskJustified(t)
      /\ t.sale \in stored /\ t.sale \in Sales
      /\ ioq # <<>>
  BY RunHead DEF UpdateStatus, Running, TaskJustified, Marks, IInv, TypeOK
<1>2. rows' = [rows EXCEPT ![t.sale].status = IF @ = "none" THEN @ ELSE status]
  BY DEF UpdateStatus
<1>3. UNCHANGED <<up, told, cache, stored, older, apiVars, bounds>>
  BY DEF UpdateStatus, pluginVars
<1>4. batch \ {cur} \in SUBSET stored /\ batch \ {cur} \in SUBSET Sales
  BY DEF IInv, SetsNested, TypeOK
<1>5. WorkerMoved(batch \ {cur})
  BY <1>1, <1>4, CompletedLemma DEF UpdateStatus
<1>6. rows' \in [Sales -> [status : Statuses, due : BOOLEAN]]
  BY <1>1, <1>2 DEF IInv, TypeOK, Statuses
<1>7. ASSUME NEW s \in Sales
      PROVE  RowJustified(s)'
  <2>1. CASE s = t.sale
    <3>1. rows'[s].status = IF rows[s].status = "none" THEN "none" ELSE status
      BY <1>1, <1>2, <2>1 DEF IInv, TypeOK
    <3> QED
      BY <1>1, <1>3, <2>1, <3>1 DEF IInv, RowJustified, TaskJustified, Terminal, apiVars
  <2>2. CASE s # t.sale
    BY <1>2, <1>3, <2>2 DEF IInv, TypeOK, RowJustified, apiVars
  <2> QED BY <2>1, <2>2
<1> HIDE DEF t
<1> QED BY <1>3, <1>4, <1>5, <1>6, <1>7, WorkerMovedKeeps

\* bumpTransient.
LEMMA BumpTransientKeeps ==
  ASSUME IInv, BumpTransient
  PROVE  IInv'
<1>1. Head(ioq).sale \in Sales /\ ioq # <<>>
  BY RunHead DEF BumpTransient, Running, TaskJustified, Marks, IInv, TypeOK
<1>2. UNCHANGED <<up, told, cache, stored, older, apiVars, bounds>>
  BY DEF BumpTransient, pluginVars
<1>3. batch \ {cur} \in SUBSET stored /\ batch \ {cur} \in SUBSET Sales
  BY DEF IInv, SetsNested, TypeOK
<1>4. WorkerMoved(batch \ {cur})
  BY <1>1, <1>3, CompletedLemma DEF BumpTransient
<1>5. /\ rows' \in [Sales -> [status : Statuses, due : BOOLEAN]]
      /\ \A s \in Sales : rows'[s].status = rows[s].status
  BY <1>1 DEF BumpTransient, IInv, TypeOK
<1>6. \A s \in Sales : RowJustified(s)'
  BY <1>2, <1>5 DEF IInv, RowJustified, apiVars
<1> QED BY <1>2, <1>3, <1>4, <1>5, <1>6, WorkerMovedKeeps

\* findPendingDue.
LEMMA FindPendingDueKeeps ==
  ASSUME IInv, FindPendingDue
  PROVE  IInv'
<1>1. UNCHANGED <<up, told, cache, stored, older, rows, apiVars, bounds>> /\ ioq # <<>>
  BY DEF FindPendingDue, Running, pluginVars, tableVars
<1>2. PendingDue \in SUBSET stored /\ PendingDue \in SUBSET Sales
  BY DEF PendingDue, IInv, RowJustified
<1>3. WorkerMoved(PendingDue)
  BY <1>1, <1>2, CompletedLemma DEF FindPendingDue
<1>4. /\ rows' \in [Sales -> [status : Statuses, due : BOOLEAN]]
      /\ \A s \in Sales : RowJustified(s)'
  BY <1>1 DEF IInv, TypeOK, RowJustified, apiVars
<1> QED BY <1>1, <1>2, <1>3, <1>4, WorkerMovedKeeps

\* cleanupTerminal: what it deletes was answered for.
LEMMA CleanupTerminalKeeps ==
  ASSUME IInv, CleanupTerminal
  PROVE  IInv'
<1>1. UNCHANGED <<up, told, cache, stored, older, apiVars, bounds>> /\ ioq # <<>>
  BY DEF CleanupTerminal, Running, pluginVars
<1>2. WorkerMoved({})
  BY <1>1, EndedLemma DEF CleanupTerminal
<1>3. PICK expired \in SUBSET Deletable :
        rows' = [s \in Sales |->
                   IF s \in expired THEN [rows[s] EXCEPT !.status = "none"]
                                    ELSE rows[s]]
  BY DEF CleanupTerminal
<1>4. rows' \in [Sales -> [status : Statuses, due : BOOLEAN]]
  BY <1>3 DEF IInv, TypeOK, Statuses
<1>5. ASSUME NEW s \in Sales
      PROVE  RowJustified(s)'
  <2>1. CASE s \in expired
    <3>1. rows'[s].status = "none" /\ rows[s].status \in Terminal
      BY <1>3, <2>1 DEF Deletable, IInv, TypeOK
    <3> QED BY <1>1, <3>1 DEF IInv, RowJustified, Terminal, apiVars
  <2>2. CASE s \notin expired
    BY <1>1, <1>3, <2>2 DEF IInv, RowJustified, apiVars
  <2> QED BY <2>1, <2>2
<1> QED BY <1>1, <1>2, <1>4, <1>5, WorkerMovedKeeps

\* A statement that fails.
LEMMA TaskFailsKeeps ==
  ASSUME IInv, TaskFails
  PROVE  IInv'
<1>1. UNCHANGED <<up, told, cache, stored, older, rows, apiVars, bounds>> /\ ioq # <<>>
  BY DEF TaskFails, pluginVars, tableVars
<1>2. /\ batch \ {cur} \in SUBSET stored /\ batch \ {cur} \in SUBSET Sales
      /\ {} \in SUBSET stored
  BY DEF IInv, SetsNested, TypeOK
<1>3. /\ rows' \in [Sales -> [status : Statuses, due : BOOLEAN]]
      /\ \A s \in Sales : RowJustified(s)'
  BY <1>1 DEF IInv, TypeOK, RowJustified, apiVars
<1>4. CASE Head(ioq).op \in Marks
  <2>1. WorkerMoved(batch \ {cur})
    BY <1>1, <1>2, <1>4, CompletedLemma DEF TaskFails
  <2> QED BY <1>1, <1>2, <1>3, <2>1, WorkerMovedKeeps
<1>5. CASE Head(ioq).op \notin Marks
  <2>1. WorkerMoved({})
    BY <1>1, <1>5, EndedLemma DEF TaskFails
  <2> QED BY <1>1, <1>2, <1>3, <2>1, WorkerMovedKeeps
<1> QED BY <1>4, <1>5

\* The worker gives up on a future; its task stays on the queue.
LEMMA AwaitTimeoutKeeps ==
  ASSUME IInv, AwaitTimeout
  PROVE  IInv'
<1> DEFINE q == Abandoned(ioq)
<1>1. UNCHANGED <<up, told, cache, stored, older, rows, apiVars, bounds>>
  BY DEF AwaitTimeout, pluginVars, tableVars
<1>2. /\ batch \ {cur} \in SUBSET stored /\ batch \ {cur} \in SUBSET Sales
      /\ {} \in SUBSET stored
  BY DEF IInv, SetsNested, TypeOK
<1>3. /\ rows' \in [Sales -> [status : Statuses, due : BOOLEAN]]
      /\ \A s \in Sales : RowJustified(s)'
  BY <1>1 DEF IInv, TypeOK, RowJustified, apiVars
<1>4. /\ q \in Seq(Task) /\ ~Awaited(q) /\ OneAwaited(q) /\ InsertsDistinct(q)
      /\ FromQueue(q, ioq)
  BY AbandonedLemma DEF IInv, TypeOK, FromQueue
<1>5. call[Worker] = Idle
  BY DEF AwaitTimeout, IInv, TypeOK
<1> HIDE DEF q
<1>6. CASE wpc = "marking"
  <2>1. NextRow(batch \ {cur}, q)
    BY <1>6 DEF AwaitTimeout, q
  <2>2. WorkerMoved(batch \ {cur})
    BY <1>2, <1>4, <1>5, <2>1, NextRowLemma
  <2> QED BY <1>1, <1>2, <1>3, <2>2, WorkerMovedKeeps
<1>7. CASE wpc # "marking"
  <2>1. EndCycle /\ ioq' = q
    BY <1>7 DEF AwaitTimeout, q
  <2>2. WorkerMoved({})
    BY <1>4, <1>5, <2>1, EndCycleLemma
  <2> QED BY <1>1, <1>2, <1>3, <2>2, WorkerMovedKeeps
<1> QED BY <1>6, <1>7

\* The write-ahead insert and the first delivery it starts.
LEMMA EnqueuePendingKeeps ==
  ASSUME IInv, EnqueuePending
  PROVE  IInv'
<1> USE SaleDeliveryAssumption
<1> DEFINE s == Head(ioq).sale
<1>1. /\ ioq # <<>> /\ Head(ioq).op = "insert" /\ Head(ioq).who = "nobody"
      /\ s \in told \ stored /\ s \in Sales
  BY RunHead DEF EnqueuePending, Running, TaskJustified, IInv, TypeOK
<1>2. /\ UNCHANGED <<up, told, cache, wpc, batch, cur, late, recorded, refused,
                     catalog, edits, stops>>
      /\ ioq' = Tail(ioq)
      /\ stored' = stored \cup {s}
      /\ rows' = [rows EXCEPT ![s] = [status |-> "pending", due |-> TRUE]]
      /\ older' = [older EXCEPT ![s] = stored]
      /\ call' = [call EXCEPT ![s] = IF up = "on" THEN OnWire ELSE @]
  BY DEF EnqueuePending, pluginVars, workerVars, apiVars, bounds
<1>3. \A t \in Tasks(Tail(ioq)) : t.op = "insert" => t.sale # s
  BY <1>1, TailLemma DEF IInv, TypeOK
<1> HIDE DEF s
<1>4. TypeOK'
  BY <1>1, <1>2, RunHead DEF IInv, TypeOK, Statuses, Clients, OnWire
<1>5. (\A t \in Tasks(ioq) : TaskJustified(t))'
  <2>1. Tasks(ioq') \subseteq Tasks(ioq)
    BY <1>1, <1>2, TailLemma DEF IInv, TypeOK
  <2>2. \A t \in Tasks(ioq') : TaskJustified(t)'
    BY <1>2, <1>3, <2>1 DEF IInv, TaskJustified
  <2> QED BY <2>2 DEF Tasks, TaskJustified
<1>6. FutureMatched' /\ InsertsDistinct(ioq)'
  <2>1. /\ OneAwaited(ioq') /\ InsertsDistinct(ioq')
        /\ Awaited(ioq') <=> Awaited(ioq)
    BY <1>1, <1>2, RunHead
  <2> QED
    BY <1>2, <2>1 DEF IInv, FutureMatched, OneAwaited, InsertsDistinct, Awaited, Tasks
<1>7. ASSUME NEW c \in Clients
      PROVE  CallJustified(c)'
  <2> stored \subseteq stored' /\ s \in stored' /\ recorded' = recorded /\ refused' = refused
    BY <1>2
  <2>1. CASE c = s
    <3>1. SaleOf(c) = s /\ SaleOf(c)' = s /\ CallJustified(c)
      BY <1>1, <2>1 DEF SaleOf, IInv
    <3>2. call'[c] \in {OnWire, call[c]}
      BY <1>2, <2>1 DEF IInv, TypeOK
    <3> QED BY <3>1, <3>2 DEF CallJustified, OnWire
  <2>2. CASE c # s
    <3>1. SaleOf(c)' = SaleOf(c) /\ call'[c] = call[c] /\ CallJustified(c)
      BY <1>2, <2>2 DEF SaleOf, IInv, TypeOK
    <3> QED BY <3>1 DEF CallJustified
  <2> QED BY <2>1, <2>2
<1>8. ASSUME NEW r \in Sales
      PROVE  RowJustified(r)'
  <2>1. CASE r = s
    BY <1>1, <1>2, <2>1 DEF IInv, TypeOK, RowJustified
  <2>2. CASE r # s
    BY <1>1, <1>2, <2>2 DEF IInv, TypeOK, RowJustified
  <2> QED BY <2>1, <2>2
<1>9. SetsNested'
  BY <1>1, <1>2 DEF IInv, SetsNested
<1> QED BY <1>4, <1>5, <1>6, <1>7, <1>8, <1>9 DEF IInv

\* A backoff that elapses changes no status.
LEMMA BackoffElapsesKeeps ==
  ASSUME IInv, NEW s \in Sales, BackoffElapses(s)
  PROVE  IInv'
<1>1. /\ UNCHANGED <<up, told, cache, ioq, stored, older, wpc, batch, cur, call,
                     late, recorded, refused, catalog, edits, stops>>
      /\ rows' = [rows EXCEPT ![s].due = TRUE]
  BY DEF BackoffElapses, pluginVars, workerVars, apiVars, bounds
<1>2. TypeOK'
  BY <1>1 DEF IInv, TypeOK
<1>3. \A r \in Sales : rows'[r].status = rows[r].status
  BY <1>1 DEF IInv, TypeOK
<1>4. (\A r \in Sales : RowJustified(r))'
  BY <1>1, <1>3 DEF IInv, RowJustified
<1>5. /\ (\A t \in Tasks(ioq) : TaskJustified(t))'
      /\ FutureMatched' /\ InsertsDistinct(ioq)'
      /\ (\A c \in Clients : CallJustified(c))'
      /\ SetsNested'
  BY <1>1 DEF IInv, TaskJustified, FutureMatched, InsertsDistinct, OneAwaited,
              Awaited, Tasks, CallJustified, SaleOf, SetsNested
<1> QED BY <1>2, <1>4, <1>5 DEF IInv

-----------------------------------------------------------------------------
(* The command, the schedule and the life cycle.                           *)

\* A step that leaves the queue, the worker, the calls and the backend's
\* answers alone keeps all but the type invariant.
LEMMA QuietStepKeeps ==
  ASSUME IInv, TypeOK',
         UNCHANGED <<told, ioq, rows, stored, wpc, batch, cur, call, late,
                     recorded, refused>>
  PROVE  IInv'
<1>1. /\ (\A t \in Tasks(ioq) : TaskJustified(t))'
      /\ FutureMatched' /\ InsertsDistinct(ioq)'
  BY DEF IInv, TaskJustified, FutureMatched, InsertsDistinct, OneAwaited, Awaited,
         Tasks
<1>2. /\ (\A c \in Clients : CallJustified(c))'
      /\ (\A r \in Sales : RowJustified(r))'
      /\ SetsNested'
  BY DEF IInv, CallJustified, RowJustified, SaleOf, SetsNested
<1> QED BY <1>1, <1>2 DEF IInv

\* Life cycle, item sync and catalog edits.
LEMMA QuietKeeps ==
  ASSUME IInv, \/ Enable \/ Disable \/ StopIo \/ SyncItems
               \/ \E i \in Items : EditCatalog(i)
  PROVE  IInv'
<1> USE SaleDeliveryAssumption DEF pluginVars, tableVars, workerVars, apiVars, bounds
<1>1. UNCHANGED <<told, ioq, rows, stored, older, wpc, batch, cur, call, late,
                  recorded, refused>>
  BY DEF Enable, Disable, StopIo, SyncItems, EditCatalog
<1>2. /\ up' \in {"off", "on", "stopWorker", "stopIo"}
      /\ cache' \subseteq Items /\ catalog' \subseteq Items
      /\ edits' \in 0..MaxEdits /\ stops' \in 0..MaxStops
  BY DEF IInv, TypeOK, Enable, Disable, StopIo, SyncItems, EditCatalog
<1>3. TypeOK'
  BY <1>1, <1>2 DEF IInv, TypeOK
<1> QED BY <1>1, <1>3, QuietStepKeeps

\* The command announces a sale nobody has stored.
LEMMA OnCommandKeeps ==
  ASSUME IInv, NEW s \in Sales, OnCommand(s)
  PROVE  IInv'
<1> DEFINE t == [op |-> "insert", sale |-> s, who |-> "nobody"]
<1>1. /\ UNCHANGED <<up, cache, rows, stored, older, wpc, batch, cur, call, late,
                     recorded, refused, catalog, edits, stops>>
      /\ ioq' = Submit(ioq, "insert", s, "nobody")
      /\ told' = told \cup {s}
      /\ s \notin told
  BY DEF OnCommand, tableVars, workerVars, apiVars, bounds
<1>2. t \in Task
  BY DEF Task, Clients
<1>3. \A u \in Tasks(ioq) : u.op = "insert" => u.sale # s
  BY <1>1 DEF IInv, TaskJustified
<1>4. /\ ioq' \in Seq(Task)
      /\ Tasks(ioq') = Tasks(ioq) \cup {t}
      /\ OneAwaited(ioq')
      /\ Awaited(ioq') <=> Awaited(ioq)
      /\ InsertsDistinct(ioq')
  <2>1. ioq \in Seq(Task) /\ OneAwaited(ioq) /\ InsertsDistinct(ioq)
    BY DEF IInv, TypeOK, FutureMatched
  <2> QED BY <1>1, <1>2, <1>3, <2>1, SubmitLemma
<1>5. TypeOK'
  BY <1>1, <1>4 DEF IInv, TypeOK
<1>6. \A u \in Tasks(ioq') : TaskJustified(u)'
  BY <1>1, <1>4 DEF IInv, TaskJustified, SetsNested, Marks, Terminal
<1>7. (\A u \in Tasks(ioq) : TaskJustified(u))'
  BY <1>6 DEF Tasks, TaskJustified
<1>8. FutureMatched' /\ InsertsDistinct(ioq)'
  BY <1>1, <1>4 DEF IInv, FutureMatched, OneAwaited, Awaited, Tasks, InsertsDistinct
<1>9. /\ (\A c \in Clients : CallJustified(c))'
      /\ (\A r \in Sales : RowJustified(r))'
      /\ SetsNested'
  BY <1>1 DEF IInv, CallJustified, RowJustified, SaleOf, SetsNested
<1> QED BY <1>5, <1>7, <1>8, <1>9 DEF IInv

\* A cycle starts with one awaited task.
LEMMA TickKeeps ==
  ASSUME IInv, Tick
  PROVE  IInv'
<1> USE SaleDeliveryAssumption
<1> DEFINE t == [op |-> "find", sale |-> Worker, who |-> "worker"]
<1>1. /\ UNCHANGED <<up, told, cache, rows, stored, older, batch, cur, call, late,
                     recorded, refused, catalog, edits, stops>>
      /\ ioq' = Submit(ioq, "find", Worker, "worker")
      /\ wpc = "idle" /\ wpc' = "finding"
  BY DEF Tick, pluginVars, tableVars, apiVars, bounds
<1>2. t \in Task /\ ~Awaited(ioq)
  BY <1>1 DEF Task, Clients, IInv, FutureMatched
<1>3. /\ ioq' \in Seq(Task)
      /\ Tasks(ioq') = Tasks(ioq) \cup {t}
      /\ OneAwaited(ioq')
      /\ Awaited(ioq')
      /\ InsertsDistinct(ioq')
  BY <1>1, <1>2, SubmitLemma DEF IInv, TypeOK, FutureMatched
<1>4. TypeOK'
  BY <1>1, <1>3 DEF IInv, TypeOK
<1>5. \A u \in Tasks(ioq') : TaskJustified(u)'
  BY <1>1, <1>3 DEF IInv, TaskJustified, Marks, Terminal
<1>6. (\A u \in Tasks(ioq) : TaskJustified(u))'
  BY <1>5 DEF Tasks, TaskJustified
<1>7. FutureMatched' /\ InsertsDistinct(ioq)'
  BY <1>1, <1>3 DEF IInv, FutureMatched, OneAwaited, Awaited, Tasks, InsertsDistinct
<1>8. /\ (\A c \in Clients : CallJustified(c))'
      /\ (\A r \in Sales : RowJustified(r))'
      /\ SetsNested'
  BY <1>1 DEF IInv, CallJustified, RowJustified, SaleOf, SetsNested
<1> QED BY <1>4, <1>6, <1>7, <1>8 DEF IInv

-----------------------------------------------------------------------------
(* Clients that go away, with their requests.                              *)

\* A request that arrives late was posted for a stored sale.
LEMMA LateLemma ==
  ASSUME IInv, NEW C \in SUBSET Clients, NEW l \in LateAfter(C)
  PROVE  /\ l \in [Sales -> 0..MaxLate]
         /\ \A s \in Sales : l[s] > 0 => s \in stored
<1> USE SaleDeliveryAssumption
<1>1. ASSUME NEW s \in Sales, s \notin stored
      PROVE  OnTheWire(C, s) = 0 /\ late[s] = 0
  <2>1. call[s] = Idle
    BY <1>1 DEF IInv, CallJustified, SaleOf, Clients
  <2>2. call[Worker] = OnWire => cur # s
    BY <1>1 DEF IInv, CallJustified, SaleOf, Clients, Idle, OnWire
  <2>3. late[s] = 0
    BY <1>1 DEF IInv, TypeOK, SetsNested
  <2> QED BY <2>1, <2>2, <2>3 DEF OnTheWire, Idle, OnWire
<1>2. ASSUME NEW s \in Sales, l[s] > 0
      PROVE  s \in stored
  BY <1>1, <1>2 DEF LateAfter
<1> QED BY <1>2 DEF LateAfter

\* The process ends: the queue and the calls are empty again.
LEMMA GoneKeeps ==
  ASSUME IInv, Gone, stops' \in 0..MaxStops
  PROVE  IInv'
<1> USE SaleDeliveryAssumption
<1>1. /\ up' = "off" /\ cache' = {} /\ ioq' = <<>>
      /\ wpc' = "idle" /\ batch' = {} /\ cur' = Worker
      /\ call' = [c \in Clients |-> Idle]
      /\ UNCHANGED <<told, rows, stored, older, recorded, refused, catalog, edits>>
      /\ late' \in LateAfter(Clients)
  BY DEF Gone, tableVars
<1>2. /\ late' \in [Sales -> 0..MaxLate]
      /\ \A s \in Sales : late'[s] > 0 => s \in stored
  BY <1>1, LateLemma
<1>3. TypeOK'
  BY <1>1, <1>2 DEF IInv, TypeOK, Clients
<1>4. /\ (\A t \in Tasks(ioq) : TaskJustified(t))'
      /\ FutureMatched' /\ InsertsDistinct(ioq)'
  BY <1>1 DEF Tasks, FutureMatched, OneAwaited, Awaited, InsertsDistinct
<1>5. (\A c \in Clients : CallJustified(c))'
  BY <1>1 DEF CallJustified, Idle
<1>6. (\A r \in Sales : RowJustified(r))'
  BY <1>1 DEF IInv, RowJustified
<1>7. SetsNested'
  BY <1>1, <1>2 DEF IInv, SetsNested
<1> QED BY <1>3, <1>4, <1>5, <1>6, <1>7 DEF IInv

\* The interrupted worker awaits nothing any more.
LEMMA InterruptWorkerKeeps ==
  ASSUME IInv, InterruptWorker
  PROVE  IInv'
<1> USE SaleDeliveryAssumption
<1>1. /\ UNCHANGED <<up, told, cache, rows, stored, older, recorded, refused,
                     catalog, edits, stops>>
      /\ wpc' = "idle" /\ batch' = {} /\ cur' = Worker
      /\ call' = [call EXCEPT ![Worker] = Idle]
      /\ late' \in LateAfter({Worker})
  BY DEF InterruptWorker, pluginVars, tableVars, bounds
<1>2. /\ late' \in [Sales -> 0..MaxLate]
      /\ \A s \in Sales : late'[s] > 0 => s \in stored
  BY <1>1, LateLemma DEF Clients
<1>3. /\ ioq' \in Seq(Task)
      /\ OneAwaited(ioq') /\ ~Awaited(ioq')
      /\ InsertsDistinct(ioq')
      /\ \A t \in Tasks(ioq') : TaskJustified(t)
  <2>1. ioq \in Seq(Task) /\ OneAwaited(ioq) /\ InsertsDistinct(ioq)
    BY DEF IInv, TypeOK, FutureMatched
  <2>2. CASE wpc = "sending"
    <3> DEFINE t == [op |-> "bump", sale |-> cur, who |-> "nobody"]
    <3>1. cur \in stored /\ t \in Task /\ ~Awaited(ioq)
      BY <2>2 DEF IInv, TypeOK, SetsNested, Task, Marks, FutureMatched
    <3>2. ioq' = Submit(ioq, "bump", cur, "nobody")
      BY <2>2 DEF InterruptWorker
    <3>3. /\ ioq' \in Seq(Task)
          /\ Tasks(ioq') = Tasks(ioq) \cup {t}
          /\ OneAwaited(ioq') /\ ~Awaited(ioq') /\ InsertsDistinct(ioq')
      BY <2>1, <3>1, <3>2, SubmitLemma
    <3>4. TaskJustified(t)
      BY <3>1 DEF TaskJustified, Marks
    <3> QED BY <3>3, <3>4 DEF IInv
  <2>3. CASE wpc # "sending"
    <3>1. ioq' = Abandoned(ioq)
      BY <2>3 DEF InterruptWorker
    <3>2. \A t \in Tasks(ioq') : TaskJustified(t)
      BY <2>1, <3>1, AbandonedLemma DEF IInv, TaskJustified
    <3> QED BY <2>1, <3>1, <3>2, AbandonedLemma
  <2> QED BY <2>2, <2>3
<1>4. TypeOK'
  BY <1>1, <1>2, <1>3 DEF IInv, TypeOK, Clients
<1>5. \A t \in Tasks(ioq') : TaskJustified(t)'
  BY <1>1, <1>3 DEF TaskJustified
<1>6. /\ (\A t \in Tasks(ioq) : TaskJustified(t))'
      /\ FutureMatched' /\ InsertsDistinct(ioq)'
  BY <1>1, <1>3, <1>5 DEF Tasks, TaskJustified, FutureMatched, OneAwaited, Awaited,
                          InsertsDistinct
<1>7. ASSUME NEW c \in Clients
      PROVE  CallJustified(c)'
  <2>1. CASE c = Worker
    <3>1. call'[c] = Idle
      BY <1>1, <2>1 DEF IInv, TypeOK
    <3> QED BY <3>1 DEF CallJustified, Idle
  <2>2. CASE c # Worker
    <3>1. SaleOf(c)' = SaleOf(c) /\ call'[c] = call[c] /\ CallJustified(c)
      BY <1>1, <2>2 DEF SaleOf, IInv, TypeOK
    <3> QED BY <1>1, <3>1 DEF CallJustified
  <2> QED BY <2>1, <2>2
<1>8. (\A r \in Sales : RowJustified(r))'
  BY <1>1 DEF IInv, RowJustified
<1>9. SetsNested'
  BY <1>1, <1>2 DEF IInv, SetsNested
<1> QED BY <1>4, <1>6, <1>7, <1>8, <1>9 DEF IInv

-----------------------------------------------------------------------------
(* The API and its answers.                                                *)

\* The API's answer to any request for a stored sale keeps the sets nested and
\* says what happened: 2xx is a recorded sale.
LEMMA HandleLemma ==
  ASSUME NEW s \in Sales, NEW reply \in Codes, s \in stored,
         recorded \subseteq stored, recorded \subseteq Sales, Handle(s, reply)
  PROVE  /\ recorded \subseteq recorded'
         /\ recorded' \subseteq stored /\ recorded' \subseteq Sales
         /\ reply \in {200, 201} => s \in recorded'
         /\ \/ recorded' = recorded
            \/ recorded' = recorded \cup {s}
<1> USE SaleDeliveryAssumption
<1> QED BY DEF Handle, Codes

\* A step that only lets recorded and refused grow keeps every task and row
\* justified.
LEMMA AnswersGrow ==
  ASSUME IInv, UNCHANGED <<ioq, rows, stored, told, wpc>>,
         recorded \subseteq recorded', refused \subseteq refused'
  PROVE  /\ (\A t \in Tasks(ioq) : TaskJustified(t))'
         /\ FutureMatched' /\ InsertsDistinct(ioq)'
         /\ (\A r \in Sales : RowJustified(r))'
<1>1. \A t \in Tasks(ioq) : TaskJustified(t)'
  BY DEF IInv, TaskJustified
<1>2. Tasks(ioq)' = Tasks(ioq)
  BY DEF Tasks
<1>3. FutureMatched' /\ InsertsDistinct(ioq)'
  BY DEF IInv, FutureMatched, InsertsDistinct, OneAwaited, Awaited, Tasks
<1>4. (\A r \in Sales : RowJustified(r))'
  BY DEF IInv, RowJustified
<1>5. (\A t \in Tasks(ioq) : TaskJustified(t))'
  BY <1>1 DEF Tasks, TaskJustified
<1> QED BY <1>3, <1>4, <1>5

\* PostSale: the API handles a request whose client is waiting.
LEMMA PostSaleKeeps ==
  ASSUME IInv, NEW c \in Clients, PostSale(c)
  PROVE  IInv'
<1> USE SaleDeliveryAssumption
<1>1. UNCHANGED <<up, told, cache, ioq, rows, stored, older, wpc, batch, cur, late,
                  catalog, edits, stops>>
  BY DEF PostSale, pluginVars, tableVars, workerVars, bounds
<1>2. call[c] = OnWire /\ CallJustified(c)
  BY DEF PostSale, IInv
<1>3. PICK s \in Sales : s = SaleOf(c) /\ s \in stored
  BY <1>2 DEF CallJustified, OnWire, Idle, IInv, TypeOK
<1>4. PICK reply \in Codes :
        /\ Handle(s, reply)
        /\ call' = [call EXCEPT ![c] = reply]
        /\ refused' = IF reply \in 400..499 THEN refused \cup {s} ELSE refused
  <2>1. PICK reply \in Codes :
          /\ Handle(SaleOf(c), reply)
          /\ call' = [call EXCEPT ![c] = reply]
          /\ refused' = IF reply \in 400..499
                          THEN refused \cup {SaleOf(c)} ELSE refused
    BY DEF PostSale
  <2>2. s = SaleOf(c)
    BY <1>3
  <2>3. Handle(s, reply)
    BY <2>1, <2>2 DEF Handle
  <2>4. refused' = IF reply \in 400..499 THEN refused \cup {s} ELSE refused
    BY <2>1, <2>2
  <2> QED BY <2>1, <2>3, <2>4
<1>5. /\ recorded \subseteq recorded'
      /\ recorded' \subseteq stored /\ recorded' \subseteq Sales
      /\ reply \in {200, 201} => s \in recorded'
  <2>1. recorded \subseteq stored /\ recorded \subseteq Sales
    BY DEF IInv, TypeOK, SetsNested
  <2>2. Handle(s, reply)
    BY <1>4
  <2> QED BY <1>3, <2>1, <2>2, HandleLemma
<1>6. /\ refused \subseteq refused'
      /\ refused' \subseteq stored /\ refused' \subseteq Sales
      /\ reply \in 400..499 => s \in refused'
  <2>1. refused \subseteq stored /\ refused \subseteq Sales
    BY DEF IInv, TypeOK, SetsNested
  <2>2. refused' = IF reply \in 400..499 THEN refused \cup {s} ELSE refused
    BY <1>4
  <2>3. CASE reply \in 400..499
    BY <1>3, <2>1, <2>2, <2>3
  <2>4. CASE reply \notin 400..499
    BY <1>3, <2>1, <2>2, <2>4
  <2> QED BY <2>3, <2>4
<1>7. call' \in CallType /\ call'[c] = reply
      /\ \A d \in Clients \ {c} : call'[d] = call[d]
  BY <1>4 DEF IInv, TypeOK, CallType
<1>8. TypeOK'
  <2>1. call[Worker] # Idle => wpc = "sending"
    BY DEF IInv, TypeOK
  <2>2. call'[Worker] # Idle => wpc' = "sending"
    BY <1>1, <1>2, <1>7, <2>1 DEF Clients, OnWire, Idle
  <2> QED BY <1>1, <1>5, <1>6, <1>7, <2>2 DEF IInv, TypeOK, CallType
<1>9. /\ (\A t \in Tasks(ioq) : TaskJustified(t))'
      /\ FutureMatched' /\ InsertsDistinct(ioq)'
      /\ (\A r \in Sales : RowJustified(r))'
  BY <1>1, <1>5, <1>6, AnswersGrow
<1>10. ASSUME NEW d \in Clients
       PROVE  CallJustified(d)'
  <2>1. SaleOf(d)' = SaleOf(d) /\ CallJustified(d)
    BY <1>1 DEF SaleOf, IInv
  <2>2. CASE d = c
    <3>1. SaleOf(d)' = s /\ call'[d] = reply
      BY <1>3, <1>7, <2>1, <2>2
    <3> QED BY <1>1, <1>3, <1>5, <1>6, <3>1 DEF CallJustified
  <2>3. CASE d # c
    <3>1. call'[d] = call[d]
      BY <1>7, <2>3
    <3> QED BY <1>1, <1>5, <1>6, <2>1, <3>1 DEF CallJustified
  <2> QED BY <2>2, <2>3
<1>11. SetsNested'
  BY <1>1, <1>5, <1>6 DEF IInv, SetsNested
<1> QED BY <1>8, <1>9, <1>10, <1>11 DEF IInv

\* PostLate: the API handles a request nobody waits for any more.
LEMMA PostLateKeeps ==
  ASSUME IInv, NEW s \in Sales, PostLate(s)
  PROVE  IInv'
<1> USE SaleDeliveryAssumption
<1>1. /\ UNCHANGED <<up, told, cache, ioq, rows, stored, older, wpc, batch, cur,
                     call, refused, catalog, edits, stops>>
      /\ late[s] > 0 /\ late' = [late EXCEPT ![s] = @ - 1]
  BY DEF PostLate, pluginVars, tableVars, workerVars, bounds
<1>2. s \in stored
  BY <1>1 DEF IInv, SetsNested
<1>3. PICK reply \in Codes : Handle(s, reply)
  BY DEF PostLate
<1>4. /\ recorded \subseteq recorded'
      /\ recorded' \subseteq stored /\ recorded' \subseteq Sales
  BY <1>2, <1>3, HandleLemma DEF IInv, TypeOK, SetsNested
<1>5. /\ late' \in [Sales -> 0..MaxLate]
      /\ \A r \in Sales : late'[r] > 0 => r \in stored
  BY <1>1, <1>2 DEF IInv, TypeOK, SetsNested
<1>6. TypeOK'
  BY <1>1, <1>4, <1>5 DEF IInv, TypeOK
<1>7. /\ (\A t \in Tasks(ioq) : TaskJustified(t))'
      /\ FutureMatched' /\ InsertsDistinct(ioq)'
      /\ (\A r \in Sales : RowJustified(r))'
  BY <1>1, <1>4, AnswersGrow
<1>8. (\A c \in Clients : CallJustified(c))'
  BY <1>1, <1>4 DEF IInv, CallJustified, SaleOf
<1>9. SetsNested'
  BY <1>1, <1>4, <1>5 DEF IInv, SetsNested
<1> QED BY <1>6, <1>7, <1>8, <1>9 DEF IInv

-----------------------------------------------------------------------------
(* The clients.                                                            *)

\* The queue and the worker after a client acted on the outcome of its call.
LEMMA AppliesLemma ==
  ASSUME IInv, NEW c \in Clients, call[c] # Idle,
         NEW outcome \in {"ACK", "PERMANENT", "TRANSIENT"},
         outcome = "ACK" => SaleOf(c) \in recorded,
         outcome = "PERMANENT" => SaleOf(c) \in refused,
         Applies(c, outcome)
  PROVE  /\ ioq' \in Seq(Task)
         /\ \A t \in Tasks(ioq') : TaskJustified(t)
         /\ InsertsDistinct(ioq')
         /\ FutureMatched'
         /\ wpc' = IF c = Worker THEN "marking" ELSE wpc
         /\ wpc' \in {"sending", "marking"} => cur \in batch
         /\ UNCHANGED <<batch, cur>>
<1> USE SaleDeliveryAssumption
<1>1. PICK s \in Sales : s = SaleOf(c) /\ s \in stored
  BY DEF CallJustified, IInv, TypeOK
<1>2. ioq \in Seq(Task) /\ OneAwaited(ioq) /\ InsertsDistinct(ioq)
  BY DEF IInv, TypeOK, FutureMatched
<1>3. /\ MarkOf(outcome) \in Marks
      /\ MarkOf(outcome) = "sent" => s \in recorded
      /\ MarkOf(outcome) = "failed_permanent" => s \in refused
  BY <1>1 DEF MarkOf, Marks, Terminal
<1> DEFINE t(who) == [op |-> MarkOf(outcome), sale |-> s, who |-> who]
<1>4. ASSUME NEW who \in {"worker", "nobody"}
      PROVE  t(who) \in Task /\ TaskJustified(t(who)) /\ t(who).op # "insert"
  BY <1>1, <1>3 DEF Task, TaskJustified, Marks, Terminal, Clients
<1>5. CASE c = Worker
  <2>1. /\ ioq' = Submit(ioq, MarkOf(outcome), s, "worker")
        /\ wpc' = "marking" /\ UNCHANGED <<batch, cur>>
    BY <1>1, <1>5 DEF Applies, WorkerApplies, SaleOf
  <2>2. wpc = "sending" /\ ~Awaited(ioq) /\ cur \in batch
    BY <1>5 DEF IInv, TypeOK, FutureMatched
  <2>3. t("worker") \in Task /\ TaskJustified(t("worker")) /\ t("worker").op # "insert"
    BY <1>4
  <2>4. /\ ioq' \in Seq(Task)
        /\ Tasks(ioq') = Tasks(ioq) \cup {t("worker")}
        /\ OneAwaited(ioq') /\ Awaited(ioq') /\ InsertsDistinct(ioq')
    BY <1>2, <2>1, <2>2, <2>3, SubmitLemma
  <2>5. FutureMatched'
    BY <2>1, <2>4 DEF FutureMatched, OneAwaited, Awaited, Tasks
  <2>6. \A u \in Tasks(ioq') : TaskJustified(u)
    BY <2>3, <2>4 DEF IInv
  <2> QED BY <1>5, <2>1, <2>2, <2>4, <2>5, <2>6
<1>6. CASE c # Worker
  <2>1. UNCHANGED <<wpc, batch, cur>>
    BY <1>6 DEF Applies, FirstApplies, workerVars
  <2>2. wpc \in {"sending", "marking"} => cur \in batch
    BY DEF IInv, TypeOK
  <2>3. CASE ioq' = ioq
    <3>1. FutureMatched'
      BY <2>1, <2>3 DEF IInv, FutureMatched, OneAwaited, Awaited, Tasks
    <3> QED BY <1>2, <1>6, <2>1, <2>2, <2>3, <3>1 DEF IInv
  <2>4. CASE ioq' = Submit(ioq, MarkOf(outcome), s, "nobody")
    <3>1. t("nobody") \in Task /\ TaskJustified(t("nobody")) /\ t("nobody").op # "insert"
      BY <1>4
    <3>2. /\ ioq' \in Seq(Task)
          /\ Tasks(ioq') = Tasks(ioq) \cup {t("nobody")}
          /\ OneAwaited(ioq') /\ InsertsDistinct(ioq')
          /\ Awaited(ioq') <=> Awaited(ioq)
      BY <1>2, <2>4, <3>1, SubmitLemma
    <3>3. FutureMatched'
      BY <2>1, <3>2 DEF IInv, FutureMatched, OneAwaited, Awaited, Tasks
    <3>4. \A u \in Tasks(ioq') : TaskJustified(u)
      BY <3>1, <3>2 DEF IInv
    <3> QED BY <1>6, <2>1, <2>2, <3>2, <3>3, <3>4
  <2> QED BY <1>1, <1>6, <2>3, <2>4 DEF Applies, FirstApplies, SaleOf
<1> QED BY <1>5, <1>6

\* A call that ended keeps the invariant, answered or not.
LEMMA CallEndedKeeps ==
  ASSUME IInv, NEW c \in Clients, call[c] # Idle,
         NEW outcome \in {"ACK", "PERMANENT", "TRANSIENT"},
         outcome = "ACK" => SaleOf(c) \in recorded,
         outcome = "PERMANENT" => SaleOf(c) \in refused,
         Applies(c, outcome),
         call' = [call EXCEPT ![c] = Idle],
         late' \in [Sales -> 0..MaxLate],
         \A s \in Sales : late'[s] > 0 => s \in stored,
         UNCHANGED <<up, told, cache, rows, stored, older, recorded, refused,
                     catalog, edits, stops>>
  PROVE  IInv'
<1> USE SaleDeliveryAssumption
<1>1. /\ ioq' \in Seq(Task)
      /\ \A t \in Tasks(ioq') : TaskJustified(t)
      /\ InsertsDistinct(ioq')
      /\ FutureMatched'
      /\ wpc' = IF c = Worker THEN "marking" ELSE wpc
      /\ wpc' \in {"sending", "marking"} => cur \in batch
      /\ UNCHANGED <<batch, cur>>
  BY AppliesLemma
<1>2. call' \in CallType /\ call'[c] = Idle
      /\ \A d \in Clients \ {c} : call'[d] = call[d]
  BY DEF IInv, TypeOK, CallType
<1>3. TypeOK'
  <2>1. call[Worker] # Idle => wpc = "sending"
    BY DEF IInv, TypeOK
  <2>2. call'[Worker] # Idle => wpc' = "sending"
    BY <1>1, <1>2, <2>1 DEF Clients
  <2>3. wpc' \in {"idle", "finding", "sending", "marking", "cleaning"}
    BY <1>1 DEF IInv, TypeOK
  <2> QED BY <1>1, <1>2, <2>2, <2>3 DEF IInv, TypeOK, CallType
<1>4. (\A t \in Tasks(ioq) : TaskJustified(t))'
  <2>1. \A t \in Tasks(ioq') : TaskJustified(t)'
    BY <1>1 DEF TaskJustified
  <2> QED BY <2>1 DEF Tasks, TaskJustified
<1>5. FutureMatched' /\ InsertsDistinct(ioq)'
  BY <1>1 DEF InsertsDistinct
<1>6. ASSUME NEW d \in Clients
      PROVE  CallJustified(d)'
  <2>1. CASE d = c
    BY <1>2, <2>1 DEF CallJustified, Idle
  <2>2. CASE d # c
    <3>1. SaleOf(d)' = SaleOf(d) /\ call'[d] = call[d] /\ CallJustified(d)
      BY <1>1, <1>2, <2>2 DEF SaleOf, IInv
    <3> QED BY <3>1 DEF CallJustified
  <2> QED BY <2>1, <2>2
<1>7. (\A r \in Sales : RowJustified(r))'
  BY DEF IInv, RowJustified
<1>8. SetsNested'
  BY <1>1 DEF IInv, SetsNested
<1> QED BY <1>3, <1>4, <1>5, <1>6, <1>7, <1>8 DEF IInv

\* classify maps an answer to an outcome the API's work justifies.
LEMMA ClassifyLemma ==
  ASSUME NEW code \in Codes
  PROVE  /\ Classify(code) \in {"ACK", "PERMANENT", "TRANSIENT"}
         /\ Classify(code) = "ACK" => code \in {200, 201}
         /\ Classify(code) = "PERMANENT" => code \in 400..499
BY DEF Classify, Codes

\* Answered: the answer reaches its client.
LEMMA AnsweredKeeps ==
  ASSUME IInv, NEW c \in Clients, Answered(c)
  PROVE  IInv'
<1>1. /\ UNCHANGED <<up, told, cache, rows, stored, older, late, recorded, refused,
                     catalog, edits, stops>>
      /\ call[c] \in Codes /\ Applies(c, Classify(call[c]))
      /\ call' = [call EXCEPT ![c] = Idle]
  BY DEF Answered, pluginVars, tableVars, apiVars, bounds
<1>2. CallJustified(c) /\ call[c] # Idle
  BY <1>1 DEF IInv, Codes, Idle
<1>3. /\ Classify(call[c]) \in {"ACK", "PERMANENT", "TRANSIENT"}
      /\ Classify(call[c]) = "ACK" => SaleOf(c) \in recorded
      /\ Classify(call[c]) = "PERMANENT" => SaleOf(c) \in refused
  BY <1>1, <1>2, ClassifyLemma DEF CallJustified
<1>4. /\ late' \in [Sales -> 0..MaxLate]
      /\ \A s \in Sales : late'[s] > 0 => s \in stored
  BY <1>1 DEF IInv, TypeOK, SetsNested
<1> QED BY <1>1, <1>2, <1>3, <1>4, CallEndedKeeps

\* Unanswered: the client gives up on its call.
LEMMA UnansweredKeeps ==
  ASSUME IInv, NEW c \in Clients, Unanswered(c)
  PROVE  IInv'
<1>1. /\ UNCHANGED <<up, told, cache, rows, stored, older, recorded, refused,
                     catalog, edits, stops>>
      /\ call[c] # Idle /\ Applies(c, "TRANSIENT")
      /\ call' = [call EXCEPT ![c] = Idle]
      /\ late' \in LateAfter({c})
  BY DEF Unanswered, pluginVars, tableVars, bounds
<1>2. /\ late' \in [Sales -> 0..MaxLate]
      /\ \A s \in Sales : late'[s] > 0 => s \in stored
  BY <1>1, LateLemma
<1> QED BY <1>1, <1>2, CallEndedKeeps

-----------------------------------------------------------------------------
(* The theorems.                                                           *)

\* The initial states satisfy the invariant.
LEMMA InitEstablishes == Init => IInv
<1> SUFFICES ASSUME Init PROVE IInv
  OBVIOUS
<1> USE SaleDeliveryAssumption
<1>1. TypeOK
  BY DEF Init, TypeOK, Statuses, Clients
<1>2. /\ Tasks(ioq) = {} /\ FutureMatched /\ InsertsDistinct(ioq)
  BY DEF Init, Tasks, FutureMatched, OneAwaited, Awaited, InsertsDistinct
<1>3. /\ \A c \in Clients : CallJustified(c)
      /\ \A s \in Sales : RowJustified(s)
      /\ SetsNested
  BY DEF Init, CallJustified, RowJustified, SetsNested, Idle
<1> QED BY <1>1, <1>2, <1>3 DEF IInv

\* Every step keeps the invariant.
LEMMA NextKeeps == IInv /\ [Next]_vars => IInv'
<1> SUFFICES ASSUME IInv, [Next]_vars PROVE IInv'
  OBVIOUS
<1> USE SaleDeliveryAssumption
<1>1. CASE Enable \/ Disable \/ StopIo \/ SyncItems \/ \E i \in Items : EditCatalog(i)
  BY <1>1, QuietKeeps
<1>2. CASE InterruptWorker
  BY <1>2, InterruptWorkerKeeps
<1>3. CASE Disabled
  <2>1. stops' \in 0..MaxStops
    BY <1>3 DEF Disabled, IInv, TypeOK
  <2> QED BY <1>3, <2>1, GoneKeeps DEF Disabled
<1>4. CASE Crash
  <2>1. stops' \in 0..MaxStops
    BY <1>4 DEF Crash, IInv, TypeOK
  <2> QED BY <1>4, <2>1, GoneKeeps DEF Crash
<1>5. CASE \E s \in Sales : OnCommand(s)
  BY <1>5, OnCommandKeeps
<1>6. CASE Tick
  BY <1>6, TickKeeps
<1>7. CASE AwaitTimeout
  BY <1>7, AwaitTimeoutKeeps
<1>8. CASE QueueIo
  BY <1>8, EnqueuePendingKeeps, UpdateStatusKeeps, BumpTransientKeeps,
     FindPendingDueKeeps, CleanupTerminalKeeps DEF QueueIo
<1>9. CASE TaskFails
  BY <1>9, TaskFailsKeeps
<1>10. CASE \E s \in Sales : BackoffElapses(s) \/ PostLate(s)
  BY <1>10, BackoffElapsesKeeps, PostLateKeeps
<1>11. CASE \E c \in Clients : PostSale(c) \/ Answered(c) \/ Unanswered(c)
  BY <1>11, PostSaleKeeps, AnsweredKeeps, UnansweredKeeps
<1>12. CASE UNCHANGED vars
  <2>1. UNCHANGED <<up, told, cache, ioq, rows, stored, older, wpc, batch, cur,
                    call, late, recorded, refused, catalog, edits, stops>>
    BY <1>12 DEF vars, pluginVars, tableVars, workerVars, apiVars, bounds
  <2>2. TypeOK'
    BY <2>1 DEF IInv, TypeOK
  <2> QED BY <2>1, <2>2, QuietStepKeeps
<1> QED
  BY <1>1, <1>2, <1>3, <1>4, <1>5, <1>6, <1>7, <1>8, <1>9, <1>10, <1>11, <1>12
  DEF Next

\* The inductive invariant holds in every reachable state.
THEOREM Invariant == Spec => []IInv
BY InitEstablishes, NextKeeps, PTL DEF Spec

\* Every variable keeps its type: queue, table, worker, calls (SaleQueue,
\* SaleQueueWorker, SaleCommandExecutor).
THEOREM TypeCorrect == Spec => []TypeOK
<1>1. IInv => TypeOK
  BY DEF IInv
<1> QED BY <1>1, Invariant, PTL

\* A queue row is settled only by an answer of the API that settles it,
\* however many sales, clients, restarts and lost requests there are.
THEOREM SettledCorrect == Spec => []SettledWithCause
<1>1. IInv => SettledWithCause
  BY DEF IInv, RowJustified, SettledWithCause
<1> QED BY <1>1, Invariant, PTL

\* The write-ahead promise: a sale the queue ever held is pending or answered.
THEOREM NothingLost == Spec => []NothingStoredIsLost
<1>1. IInv => NothingStoredIsLost
  BY DEF IInv, TypeOK, RowJustified, NothingStoredIsLost, Statuses, Terminal
<1> QED BY <1>1, Invariant, PTL

\* The worker never waits for a future no task of queue-io completes.
THEOREM WorkerNotStuck == Spec => []WorkerWaitsForATask
<1>1. IInv => WorkerWaitsForATask
  BY DEF IInv, FutureMatched, Awaited, Tasks, WorkerWaitsForATask
<1> QED BY <1>1, Invariant, PTL

-----------------------------------------------------------------------------
(* The pipeline implements the ledger.                                     *)

\* The ledger's view of a step.
LedgerStep == [Ledger!Next]_<<told, stored, recorded, refused, Settled>>

\* A step that changes no row's status, nor the other sets, is a stutter.
LEMMA LedgerStutter ==
  ASSUME UNCHANGED <<told, stored, recorded, refused>>, stored \subseteq Sales,
         \A s \in Sales : (rows'[s].status = "pending") <=> (rows[s].status = "pending")
  PROVE  LedgerStep
<1>1. Settled' = Settled
  BY DEF Settled
<1> QED BY <1>1 DEF LedgerStep

\* A step of queue-io maps to Store, Settle or a stutter.
LEMMA QueueIoImplements ==
  ASSUME IInv, IInv', QueueIo
  PROVE  LedgerStep
<1> USE DEF pluginVars, apiVars
<1>0. stored \subseteq Sales
  BY DEF IInv, TypeOK
<1>1. CASE EnqueuePending
  <2>1. PICK s \in told \ stored :
          /\ s \in Sales
          /\ rows' = [rows EXCEPT ![s] = [status |-> "pending", due |-> TRUE]]
          /\ stored' = stored \cup {s}
    BY <1>1, RunHead DEF EnqueuePending, Running, TaskJustified, IInv, TypeOK
  <2>2. UNCHANGED <<told, recorded, refused>>
    BY <1>1 DEF EnqueuePending
  <2>3. Settled' = Settled
    BY <1>0, <2>1 DEF Settled, IInv, TypeOK
  <2>4. Ledger!Store(s)
    BY <2>1, <2>2, <2>3 DEF Ledger!Store
  <2> QED BY <2>1, <2>4 DEF LedgerStep, Ledger!Next
<1>2. ASSUME NEW status \in Terminal, UpdateStatus(status)
      PROVE  LedgerStep
  <2>1. PICK s \in stored :
          /\ s \in Sales
          /\ rows' = [rows EXCEPT ![s].status = IF @ = "none" THEN @ ELSE status]
    BY <1>2, RunHead DEF UpdateStatus, Running, TaskJustified, Marks, IInv, TypeOK
  <2>2. UNCHANGED <<told, stored, recorded, refused>>
    BY <1>2 DEF UpdateStatus
  <2>3. CASE rows[s].status = "pending"
    <3>1. rows'[s].status = status
      BY <2>1, <2>3 DEF IInv, TypeOK
    <3>2. s \in recorded \cup refused
      BY <2>1, <2>2, <3>1 DEF IInv, RowJustified, Terminal
    <3>3. Settled' = Settled \cup {s} /\ s \in stored \ Settled
      BY <1>0, <2>1, <2>2, <2>3, <3>1 DEF Settled, IInv, TypeOK, Terminal
    <3>4. Ledger!Settle(s)
      BY <2>2, <3>2, <3>3 DEF Ledger!Settle
    <3> QED BY <2>1, <3>4 DEF LedgerStep, Ledger!Next
  <2>4. CASE rows[s].status # "pending"
    <3>1. \A r \in Sales : (rows'[r].status = "pending") <=> (rows[r].status = "pending")
      BY <2>1, <2>4 DEF IInv, TypeOK, Terminal
    <3> QED BY <1>0, <2>2, <3>1, LedgerStutter
  <2> QED BY <2>3, <2>4
<1>3. CASE BumpTransient
  <2>1. Head(ioq).sale \in Sales
    BY <1>3, RunHead DEF BumpTransient, Running, TaskJustified, Marks, IInv, TypeOK
  <2>2. \A r \in Sales : rows'[r].status = rows[r].status
    BY <1>3, <2>1 DEF BumpTransient, IInv, TypeOK
  <2> QED BY <1>0, <1>3, <2>2, LedgerStutter DEF BumpTransient
<1>4. CASE FindPendingDue
  BY <1>0, <1>4, LedgerStutter DEF FindPendingDue, tableVars
<1>5. CASE CleanupTerminal
  <2>1. \A r \in Sales : (rows'[r].status = "pending") <=> (rows[r].status = "pending")
    <3>1. PICK expired \in SUBSET Deletable :
            rows' = [s \in Sales |->
                       IF s \in expired THEN [rows[s] EXCEPT !.status = "none"]
                                        ELSE rows[s]]
      BY <1>5 DEF CleanupTerminal
    <3>2. ASSUME NEW r \in Sales
          PROVE  (rows'[r].status = "pending") <=> (rows[r].status = "pending")
      <4>1. rows[r] \in [status : Statuses, due : BOOLEAN]
        BY DEF IInv, TypeOK
      <4>2. CASE r \in expired
        BY <3>1, <4>1, <4>2 DEF Deletable, Terminal
      <4>3. CASE r \notin expired
        BY <3>1, <4>3
      <4> QED BY <4>2, <4>3
    <3> QED BY <3>2
  <2> QED BY <1>0, <1>5, <2>1, LedgerStutter DEF CleanupTerminal
<1> QED BY <1>1, <1>2, <1>3, <1>4, <1>5 DEF QueueIo

\* A step of the API maps to Record, Refuse or a stutter.
LEMMA ApiImplements ==
  ASSUME IInv, \/ \E c \in Clients : PostSale(c)
               \/ \E s \in Sales : PostLate(s)
  PROVE  LedgerStep
<1> USE SaleDeliveryAssumption
<1>1. PICK s \in Sales, reply \in Codes :
        /\ s \in stored
        /\ Handle(s, reply)
        /\ \/ refused' = refused
           \/ refused' = refused \cup {s} /\ reply \in 400..499
        /\ UNCHANGED <<told, rows, stored>>
  <2>1. ASSUME NEW c \in Clients, PostSale(c)
        PROVE  \E s \in Sales, reply \in Codes :
                 /\ s \in stored
                 /\ Handle(s, reply)
                 /\ \/ refused' = refused
                    \/ refused' = refused \cup {s} /\ reply \in 400..499
                 /\ UNCHANGED <<told, rows, stored>>
    <3>1. SaleOf(c) \in stored /\ SaleOf(c) \in Sales
      <4>1. call[c] = OnWire /\ CallJustified(c) /\ stored \subseteq Sales
        BY <2>1 DEF PostSale, IInv, TypeOK
      <4> QED BY <4>1 DEF CallJustified, OnWire, Idle
    <3>2. PICK reply \in Codes :
            /\ Handle(SaleOf(c), reply)
            /\ refused' = IF reply \in 400..499
                            THEN refused \cup {SaleOf(c)} ELSE refused
      BY <2>1 DEF PostSale
    <3>3. UNCHANGED <<told, rows, stored>>
      BY <2>1 DEF PostSale, pluginVars, tableVars
    <3>4. \/ refused' = refused
          \/ refused' = refused \cup {SaleOf(c)} /\ reply \in 400..499
      BY <3>2
    <3> QED BY <3>1, <3>2, <3>3, <3>4
  <2>2. ASSUME NEW s \in Sales, PostLate(s)
        PROVE  \E reply \in Codes :
                 /\ s \in stored
                 /\ Handle(s, reply)
                 /\ refused' = refused
                 /\ UNCHANGED <<told, rows, stored>>
    BY <2>2 DEF PostLate, pluginVars, tableVars, IInv, SetsNested
  <2> QED BY <2>1, <2>2
<1>2. Settled' = Settled
  BY <1>1 DEF Settled
<1>3. \/ recorded' = recorded
      \/ recorded' = recorded \cup {s} /\ reply \notin 400..499
  BY <1>1 DEF Handle
<1>4. CASE recorded' = recorded /\ refused' = refused
  BY <1>1, <1>2, <1>4 DEF LedgerStep
<1>5. CASE s \notin recorded /\ recorded' = recorded \cup {s} /\ refused' = refused
  <2>1. Ledger!Record(s)
    BY <1>1, <1>2, <1>5 DEF Ledger!Record
  <2> QED BY <1>1, <2>1 DEF LedgerStep, Ledger!Next
<1>6. CASE s \notin refused /\ refused' = refused \cup {s} /\ recorded' = recorded
  <2>1. Ledger!Refuse(s)
    BY <1>1, <1>2, <1>6 DEF Ledger!Refuse
  <2> QED BY <1>1, <2>1 DEF LedgerStep, Ledger!Next
<1>7. (s \in recorded => recorded \cup {s} = recorded)
      /\ (s \in refused => refused \cup {s} = refused)
  OBVIOUS
<1> QED BY <1>1, <1>3, <1>4, <1>5, <1>6, <1>7

\* Every step of the pipeline is a step of the ledger or changes nothing of it.
LEMMA StepImplements ==
  ASSUME IInv, IInv', [Next]_vars
  PROVE  LedgerStep
<1>0. stored \subseteq Sales
  BY DEF IInv, TypeOK
<1>1. CASE \/ Enable \/ Disable \/ InterruptWorker \/ StopIo \/ Disabled \/ Crash
           \/ SyncItems \/ Tick \/ AwaitTimeout
           \/ \E i \in Items : EditCatalog(i)
           \/ \E c \in Clients : Answered(c) \/ Unanswered(c)
           \/ UNCHANGED vars
  <2>1. UNCHANGED <<told, stored, recorded, refused, rows>>
    BY <1>1 DEF Enable, Disable, InterruptWorker, StopIo, Disabled, Crash, Gone,
                SyncItems, Tick, AwaitTimeout, EditCatalog, Answered, Unanswered,
                vars, pluginVars, tableVars, apiVars
  <2> QED BY <1>0, <2>1, LedgerStutter
<1>2. CASE TaskFails
  <2>1. UNCHANGED <<told, stored, recorded, refused, rows>>
    BY <1>2 DEF TaskFails, pluginVars, tableVars, apiVars
  <2> QED BY <1>0, <2>1, LedgerStutter
<1>3. ASSUME NEW s \in Sales, OnCommand(s)
      PROVE  LedgerStep
  <2>1. Ledger!Announce(s)
    BY <1>3 DEF OnCommand, Ledger!Announce, tableVars, apiVars, Settled
  <2> QED BY <2>1 DEF LedgerStep, Ledger!Next
<1>4. ASSUME NEW s \in Sales, BackoffElapses(s)
      PROVE  LedgerStep
  <2>1. UNCHANGED <<told, stored, recorded, refused>>
    BY <1>4 DEF BackoffElapses, pluginVars, apiVars
  <2>2. \A r \in Sales : rows'[r].status = rows[r].status
    BY <1>4 DEF BackoffElapses, IInv, TypeOK
  <2> QED BY <1>0, <2>1, <2>2, LedgerStutter
<1> QED
  BY <1>1, <1>2, <1>3, <1>4, QueueIoImplements, ApiImplements DEF Next

\* The pipeline implements the ledger: write-ahead order, one record per sale,
\* nothing settled without an answer - for any number of sales and crashes.
THEOREM PipelineImplementsLedger == Spec => ImplementsLedger
<1>1. Init => Ledger!Init
  BY DEF Init, Ledger!Init, Settled
<1>2. IInv /\ IInv' /\ [Next]_vars => LedgerStep
  BY StepImplements
<1> QED BY <1>1, <1>2, Invariant, PTL
  DEF Spec, ImplementsLedger, Ledger!Spec, Ledger!ledgerVars, LedgerStep

-----------------------------------------------------------------------------
(* Settled rows.                                                           *)

\* What TerminalIsFinal says of a step.
FinalUnlessDisputed ==
  \A s \in Sales \ Disputed : rows[s].status \in Terminal =>
    rows'[s].status \in {rows[s].status, "none"}

LEMMA UnlessDisputedStep ==
  ASSUME IInv, [Next]_vars PROVE FinalUnlessDisputed
<1> SUFFICES ASSUME NEW s \in Sales, rows[s].status \in Terminal
             PROVE  rows'[s].status \in {rows[s].status, "none"} \/ s \in Disputed
  BY DEF FinalUnlessDisputed
<1>1. rows \in [Sales -> [status : Statuses, due : BOOLEAN]] BY DEF IInv, TypeOK
<1>2. /\ s \in stored
      /\ rows[s].status = "sent" => s \in recorded
      /\ rows[s].status = "failed_permanent" => s \in refused
  BY DEF IInv, RowJustified, Terminal
<1>3. CASE UNCHANGED rows BY <1>3
<1>4. CASE EnqueuePending
  <2>1. TaskJustified(Head(ioq)) BY <1>4, RunHead DEF EnqueuePending, Running
  <2>2. Head(ioq).sale # s BY <1>2, <1>4, <2>1 DEF TaskJustified, EnqueuePending, Running
  <2> QED BY <1>1, <1>4, <2>2 DEF EnqueuePending
<1>5. ASSUME NEW status \in Terminal, UpdateStatus(status)
      PROVE  rows'[s].status \in {rows[s].status, "none"} \/ s \in Disputed
  <2>1. /\ TaskJustified(Head(ioq)) /\ Head(ioq).op = status
        /\ rows' = [rows EXCEPT ![Head(ioq).sale].status = IF @ = "none" THEN @ ELSE status]
    BY <1>5, RunHead DEF UpdateStatus, Running
  <2>2. CASE Head(ioq).sale # s BY <1>1, <2>1, <2>2
  <2>3. CASE Head(ioq).sale = s
    <3>1. rows'[s].status = status BY <1>1, <2>1, <2>3 DEF Terminal
    <3>2. status = "sent" => s \in recorded BY <2>1, <2>3 DEF TaskJustified
    <3>3. status = "failed_permanent" => s \in refused BY <2>1, <2>3 DEF TaskJustified
    <3> QED BY <1>2, <3>1, <3>2, <3>3 DEF Terminal, Disputed
  <2> QED BY <2>2, <2>3
<1>6. CASE BumpTransient
  <2>1. rows' = [rows EXCEPT ![Head(ioq).sale].due = FALSE] BY <1>6 DEF BumpTransient
  <2> QED BY <1>1, <2>1
<1>7. CASE CleanupTerminal
  <2>1. PICK expired \in SUBSET Deletable :
          rows' = [r \in Sales |-> IF r \in expired THEN [rows[r] EXCEPT !.status = "none"]
                                                   ELSE rows[r]]
    BY <1>7 DEF CleanupTerminal
  <2> QED BY <1>1, <2>1
<1>8. CASE \E r \in Sales : BackoffElapses(r)
  <2>1. PICK r \in Sales : rows' = [rows EXCEPT ![r].due = TRUE] BY <1>8 DEF BackoffElapses
  <2> QED BY <1>1, <2>1
<1>9. FindPendingDue => UNCHANGED rows BY DEF FindPendingDue, tableVars
<1>10. Enable \/ Disable \/ StopIo \/ SyncItems \/ Tick \/ AwaitTimeout \/ TaskFails => UNCHANGED rows
  BY DEF Enable, Disable, StopIo, SyncItems, Tick, AwaitTimeout, TaskFails, tableVars
<1>11. InterruptWorker \/ Disabled \/ Crash => UNCHANGED rows
  BY DEF InterruptWorker, Disabled, Crash, Gone, tableVars
<1>12. (\E r \in Sales : OnCommand(r) \/ PostLate(r)) => UNCHANGED rows
  BY DEF OnCommand, PostLate, tableVars
<1>13. (\E c \in Clients : PostSale(c) \/ Answered(c) \/ Unanswered(c)) => UNCHANGED rows
  BY DEF PostSale, Answered, Unanswered, tableVars
<1>14. (\E i \in Items : EditCatalog(i)) => UNCHANGED rows BY DEF EditCatalog, tableVars
<1>15. UNCHANGED vars => UNCHANGED rows BY DEF vars, tableVars
<1> QED BY <1>3, <1>4, <1>5, <1>6, <1>7, <1>8, <1>9, <1>10, <1>11, <1>12, <1>13, <1>14, <1>15
        DEF Next, QueueIo

\* A settled row is final unless the API both acknowledged and refused its sale:
\* the UPDATE of markSent and markFailedPermanent does not look at the status,
\* and nothing else shows it - for any edits of the catalog, guards, crashes and
\* lost answers.
\* Code: SaleQueue.markSent, markFailedPermanent; SaleQueueWorker.processRow
THEOREM SettledIsFinal == Spec => TerminalIsFinal
<1>1. IInv /\ [Next]_vars => [FinalUnlessDisputed]_vars BY UnlessDisputedStep
<1>2. Spec => [][FinalUnlessDisputed]_vars BY <1>1, Invariant, PTL DEF Spec
<1> QED BY <1>2 DEF TerminalIsFinal, FinalUnlessDisputed
=============================================================================
