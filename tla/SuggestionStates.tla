-------------------------- MODULE SuggestionStates --------------------------
(***************************************************************************)
(* The write path of player suggestions (SuggestionsStore): handlers of    *)
(* requests from the Discord bot and the rows and locks they share in      *)
(* PostgreSQL, one statement at a time.                                    *)
(*                                                                         *)
(* READ COMMITTED: a statement sees what is committed.  FOR UPDATE holds   *)
(* the row until the transaction ends, and whoever must write the row, or  *)
(* insert a row that references it, waits.  A transaction's now() is the   *)
(* instant it began; ids are handed out when a row is inserted.  Any       *)
(* statement can fail, any answer can be lost, the process can die.        *)
(***************************************************************************)
EXTENDS Naturals, Sequences

CONSTANTS
  Handlers,     \* requests the API serves at once
  Messages,     \* Discord messages: the natural key, and here the id
  Texts,        \* bodies that survive sanitizeSuggestionText
  BadText,      \* a body it rejects
  Tallies,      \* vote counts
  Actors,       \* staff members
  Nobody,       \* assignee IS NULL
  MaxRequests   \* bound: requests served

ASSUME SuggestionAssumption ==
  /\ BadText \notin Texts
  /\ Nobody \notin Actors
  /\ MaxRequests \in Nat

VARIABLES
  rows,      \* suggestions, by message
  moves,     \* suggestion_audit of each message: the committed transitions
  refusals,  \* suggestion_audit: the committed attempts that were refused
  lock,      \* handlers holding a row FOR UPDATE (at most one)
  handler,   \* what each handler is doing
  clock,     \* numbers the instants of BEGINs and inserts: now() and ids
  begun      \* requests so far

vars == <<rows, moves, refusals, lock, handler, clock, begun>>

-----------------------------------------------------------------------------
Statuses == {"enviada", "aprovada", "em_andamento", "concluida", "recusada"}

\* ALLOWED_TRANSITIONS
AllowedTransitions ==
  [enviada      |-> {"aprovada", "recusada"},
   aprovada     |-> {"em_andamento", "recusada"},
   em_andamento |-> {"concluida", "recusada"},
   concluida    |-> {},
   recusada     |-> {}]

\* Faulty variant: a refused suggestion may be approved after all.
CanTransitionReopening(from, to) ==
  \/ to \in AllowedTransitions[from]
  \/ from = "recusada" /\ to = "aprovada"

CanTransition(from, to) == to \in AllowedTransitions[from]

Row     == [text : Texts, votes : Tallies \cup {0}, status : Statuses,
            assignee : Actors \cup {Nobody}]
Move    == [id : Nat, at : Nat, from : Statuses, to : Statuses, actor : Actors]
Refusal == [msg : Messages, action : {"transition_denied", "auth_denied"},
            id : Nat, from : Statuses, to : Statuses \cup {"none"},
            actor : Actors]

\* What the bot may ask.  nick: the nickname survives sanitizeNickname.
Creates == [kind : {"create"}, msg : Messages, text : Texts \cup {BadText}]
Votes   == [kind : {"votes"}, msg : Messages, votes : Tallies]
Moves   == [kind : {"move"}, msg : Messages, to : Statuses, actor : Actors,
            nick : BOOLEAN]
Denials == [kind : {"denied"}, msg : Messages, actor : Actors]
Requests == Creates \cup Votes \cup Moves \cup Denials

\* sanitizeSuggestionText and sanitizeNickname: what they reject, they throw.
StorableText(q)     == q.text # BadText
StorableNickname(q) == q.nick

Pcs == {"begin", "readback", "locked", "updated", "written", "read",
        "inserted", "committed"}
\* 201/200 of create and votes, 200 of a move, 204 of a denial, 404, 409, 422,
\* and 500 or no answer at all.
Answers == {"ok", "moved", "noted", "missing", "conflict", "unprocessable",
            "error"}

\* from, at and id: the state a handler read, its transaction's now(), the id
\* of its audit row (0: none).
Working == [pc : Pcs, req : Requests, from : Statuses, at : Nat, id : Nat]
Done    == [pc : {"answered"}, ans : Answers, id : Nat]
Idle    == [pc |-> "idle"]

TypeOK ==
  /\ DOMAIN rows \subseteq Messages
  /\ rows \in [DOMAIN rows -> Row]
  /\ moves \in [Messages -> Seq(Move)]
  /\ refusals \subseteq Refusal
  /\ lock \in [Messages -> SUBSET Handlers]
  /\ handler \in [Handlers -> Working \cup Done \cup {Idle}]
  /\ \A m \in Messages : \A h \in lock[m] :
       /\ handler[h].pc \in {"locked", "updated", "written"}
       /\ handler[h].req.msg = m
  /\ clock \in Nat
  /\ begun \in Nat

\* A suggestion as create leaves it.
Fresh(t) == [text |-> t, votes |-> 0, status |-> "enviada", assignee |-> Nobody]

\* Some suggestions were posted before and nothing was decided about them.
Init ==
  /\ \E posted \in SUBSET Messages : rows \in [posted -> {Fresh(t) : t \in Texts}]
  /\ moves = [m \in Messages |-> <<>>]
  /\ refusals = {}
  /\ lock = [m \in Messages |-> {}]
  /\ handler = [h \in Handlers |-> Idle]
  /\ clock = 1 /\ begun = 0

-----------------------------------------------------------------------------
(* Steps common to the requests.                                           *)

Busy(h)    == handler[h].pc \notin {"idle", "answered"}
At(h, k, p) == /\ handler[h].pc = p
               /\ handler[h].req.kind = k
Exists(h)  == handler[h].req.msg \in DOMAIN rows
Read(h)    == rows[handler[h].req.msg]
Unlocked(h) == lock[handler[h].req.msg] = {}

\* The row a handler's transaction holds is let go.
Release(h) == lock' = [m \in Messages |-> lock[m] \ {h}]

\* The handler answers a; nothing it did is undone.
Reply(h, a) ==
  handler' = [handler EXCEPT
    ![h] = [pc |-> "answered", ans |-> a, id |-> handler[h].id]]
Goto(h, p)  == handler' = [handler EXCEPT ![h].pc = p]

\* Faulty variant: the lock outlives the transaction.
RollbackKeepsLock(h, a) ==
  /\ handler' = [handler EXCEPT
       ![h] = [pc |-> "answered", ans |-> a, id |-> 0]]
  /\ UNCHANGED <<rows, moves, refusals, lock, clock, begun>>

\* The transaction of h, if any, is rolled back and its answer is a.
Rollback(h, a) ==
  /\ Release(h)
  /\ handler' = [handler EXCEPT
       ![h] = [pc |-> "answered", ans |-> a, id |-> 0]]
  /\ UNCHANGED <<rows, moves, refusals, clock, begun>>

\* A request has passed the guards and its DTO: approving takes a nickname,
\* every other move ignores it.  A move begins its transaction.
Begin(h, q) ==
  /\ ~Busy(h)
  /\ begun < MaxRequests
  /\ q.kind = "move" => (q.to = "aprovada" \/ q.nick)
  /\ handler' = [handler EXCEPT
       ![h] = [pc |-> "begin", req |-> q, from |-> "enviada", at |-> clock,
               id |-> 0]]
  /\ clock' = clock + 1
  /\ begun' = begun + 1
  /\ UNCHANGED <<rows, moves, refusals, lock>>

-----------------------------------------------------------------------------
(* create                                                                  *)

\* INSERT ... ON CONFLICT DO NOTHING, after the text is sanitized.
CreateInsert(h) ==
  /\ At(h, "create", "begin")
  /\ LET q == handler[h].req IN
     \/ /\ ~StorableText(q)
        /\ Reply(h, "unprocessable")
        /\ UNCHANGED rows
     \/ /\ StorableText(q) /\ ~Exists(h)
        /\ rows' = [m \in DOMAIN rows \cup {q.msg} |->
                      IF m = q.msg THEN Fresh(q.text) ELSE rows[m]]
        /\ Reply(h, "ok")
     \/ /\ StorableText(q) /\ Exists(h)
        /\ Goto(h, "readback")
        /\ UNCHANGED rows
  /\ UNCHANGED <<moves, refusals, lock, clock, begun>>

\* The row of the earlier post is read back.
CreateReadBack(h) ==
  /\ At(h, "create", "readback")
  /\ Reply(h, IF Exists(h) THEN "ok" ELSE "error")
  /\ UNCHANGED <<rows, moves, refusals, lock, clock, begun>>

(* setVotesByDiscordMsgId: one UPDATE of the two counts, which waits for   *)
(* whoever holds the row and then changes its newest version.              *)
SetVotes(h) ==
  /\ At(h, "votes", "begin")
  /\ \/ /\ ~Exists(h)
        /\ Reply(h, "missing")
        /\ UNCHANGED rows
     \/ /\ Exists(h) /\ Unlocked(h)
        /\ rows' = [rows EXCEPT ![handler[h].req.msg].votes = handler[h].req.votes]
        /\ Reply(h, "ok")
  /\ UNCHANGED <<moves, refusals, lock, clock, begun>>

-----------------------------------------------------------------------------
(* transition                                                              *)

\* Faulty variant: a plain SELECT, without FOR UPDATE.
LockRowUnlocked(h) ==
  /\ At(h, "move", "begin")
  /\ \/ /\ ~Exists(h)
        /\ Reply(h, "missing")
     \/ /\ Exists(h)
        /\ handler' = [handler EXCEPT
               ![h] = [@ EXCEPT !.pc = "locked", !.from = Read(h).status]]
  /\ UNCHANGED <<rows, moves, refusals, lock, clock, begun>>

\* SELECT ... FOR UPDATE: waits for the holder, then reads the newest version.
LockRow(h) ==
  /\ At(h, "move", "begin")
  /\ \/ /\ ~Exists(h)
        /\ Reply(h, "missing")
        /\ UNCHANGED lock
     \/ /\ Exists(h) /\ Unlocked(h)
        /\ lock' = [lock EXCEPT ![handler[h].req.msg] = {h}]
        /\ handler' = [handler EXCEPT
               ![h] = [@ EXCEPT !.pc = "locked", !.from = Read(h).status]]
  /\ UNCHANGED <<rows, moves, refusals, clock, begun>>

Allowed(h) == CanTransition(handler[h].from, handler[h].req.to)

\* The audit row's id is handed out; the row shows when h commits.
InsertAudit(h, p) ==
  /\ handler' = [handler EXCEPT ![h] = [@ EXCEPT !.pc = p, !.id = clock]]
  /\ clock' = clock + 1
  /\ UNCHANGED <<rows, moves, refusals, lock, begun>>

\* Faulty variant: the refusal is thrown, and its audit row with it.
RefuseMoveThrows(h) ==
  /\ At(h, "move", "locked")
  /\ ~Allowed(h)
  /\ Rollback(h, "conflict")

RefuseMove(h) ==
  /\ At(h, "move", "locked")
  /\ ~Allowed(h)
  /\ InsertAudit(h, "written")

\* sanitizeNickname throws inside the transaction.
RejectNickname(h) ==
  /\ At(h, "move", "locked")
  /\ Allowed(h)
  /\ handler[h].req.to = "aprovada" /\ ~StorableNickname(handler[h].req)
  /\ Rollback(h, "unprocessable")

UpdateRow(h) ==
  /\ At(h, "move", "locked")
  /\ Allowed(h)
  /\ handler[h].req.to = "aprovada" => StorableNickname(handler[h].req)
  /\ Goto(h, "updated")
  /\ UNCHANGED <<rows, moves, refusals, lock, clock, begun>>

AuditMove(h) ==
  /\ At(h, "move", "updated")
  /\ InsertAudit(h, "written")

\* Faulty variant: whoever moves the suggestion becomes its assignee.
MovedByLast(row, q) == [row EXCEPT !.status = q.to, !.assignee = q.actor]

\* The UPDATE of a move q on the newest version of its row.
Moved(row, q) ==
  [row EXCEPT !.status = q.to,
              !.assignee = IF q.to = "aprovada" THEN q.actor ELSE @]

\* COMMIT: the UPDATE and the audit row, or the refusal, show at once.
CommitMove(h) ==
  /\ At(h, "move", "written")
  /\ LET w == handler[h]  q == handler[h].req IN
     \/ /\ Allowed(h)
        /\ rows' = [rows EXCEPT ![q.msg] = Moved(@, q)]
        /\ moves' = [moves EXCEPT ![q.msg] = Append(@,
             [id |-> w.id, at |-> w.at, from |-> w.from, to |-> q.to,
              actor |-> q.actor])]
        /\ UNCHANGED refusals
     \/ /\ ~Allowed(h)
        /\ refusals' = refusals \cup
             {[msg |-> q.msg, action |-> "transition_denied", id |-> w.id,
               from |-> w.from, to |-> q.to, actor |-> q.actor]}
        /\ UNCHANGED <<rows, moves>>
  /\ Goto(h, "committed")
  /\ Release(h)
  /\ UNCHANGED <<clock, begun>>

-----------------------------------------------------------------------------
(* recordAuthDenied: a read, then an insert, in no transaction together.   *)

ReadStatus(h) ==
  /\ At(h, "denied", "begin")
  /\ \/ ~Exists(h) /\ Reply(h, "missing")
     \/ /\ Exists(h)
        /\ handler' = [handler EXCEPT
               ![h] = [@ EXCEPT !.pc = "read", !.from = Read(h).status]]
  /\ UNCHANGED <<rows, moves, refusals, lock, clock, begun>>

InsertDenied(h) ==
  /\ At(h, "denied", "read")
  /\ InsertAudit(h, "inserted")

\* The foreign key waits for whoever holds the row FOR UPDATE.
CommitDenied(h) ==
  /\ At(h, "denied", "inserted")
  /\ Unlocked(h)
  /\ refusals' = refusals \cup
       {[msg |-> handler[h].req.msg, action |-> "auth_denied",
         id |-> handler[h].id, from |-> handler[h].from, to |-> "none",
         actor |-> handler[h].req.actor]}
  /\ Goto(h, "committed")
  /\ UNCHANGED <<rows, moves, lock, clock, begun>>

-----------------------------------------------------------------------------
Outcome(h) == CASE handler[h].req.kind = "denied" -> "noted"
                [] handler[h].req.kind = "move" ->
                     IF Allowed(h) THEN "moved" ELSE "conflict"

\* The answer of what was committed goes out.
Answer(h) ==
  /\ handler[h].pc = "committed"
  /\ Reply(h, Outcome(h))
  /\ UNCHANGED <<rows, moves, refusals, lock, clock, begun>>

\* A statement, the connection or the answer fails: what was not committed is
\* rolled back, and the bot hears of an error.
Fail(h) ==
  /\ Busy(h)
  /\ Rollback(h, "error")

\* The process dies: every connection is closed and rolled back.
Crash ==
  /\ \E h \in Handlers : Busy(h)
  /\ lock' = [m \in Messages |-> {}]
  /\ handler' = [h \in Handlers |-> Idle]
  /\ UNCHANGED <<rows, moves, refusals, clock, begun>>

Work(h) ==
  \/ CreateInsert(h) \/ CreateReadBack(h)
  \/ SetVotes(h)
  \/ LockRow(h) \/ RefuseMove(h) \/ RejectNickname(h) \/ UpdateRow(h)
  \/ AuditMove(h) \/ CommitMove(h)
  \/ ReadStatus(h) \/ InsertDenied(h) \/ CommitDenied(h)
  \/ Answer(h)

Next ==
  \/ \E h \in Handlers :
       \/ \E q \in Requests : Begin(h, q)
       \/ Work(h)
       \/ Fail(h)
  \/ Crash

Spec == Init /\ [][Next]_vars

-----------------------------------------------------------------------------
(* Properties.                                                             *)

\* The status the first n transitions of m lead to.
StatusAfter(m, n) == IF n = 0 THEN "enviada" ELSE moves[m][n].to

\* Whoever approved, according to the trail.
Approver(m) ==
  IF Len(moves[m]) > 0 /\ moves[m][1].to = "aprovada"
  THEN moves[m][1].actor ELSE Nobody

\* The trail explains the row: read by id, the transitions of a suggestion
\* form one chain from enviada to the status in its row, each starting where
\* the one before it ended, and the assignee is whoever approved.  This is
\* what FOR UPDATE is for (transition).
TrailIsChain ==
  \A m \in DOMAIN rows :
    /\ rows[m].status = StatusAfter(m, Len(moves[m]))
    /\ rows[m].assignee = Approver(m)
    /\ \A i \in 1..Len(moves[m]) :
         /\ moves[m][i].from = StatusAfter(m, i - 1)
         /\ \A j \in 1..(i - 1) : moves[m][j].id < moves[m][i].id

\* A refused move was refused rightly: the status its audit row gives is the
\* one the transitions with smaller ids had led to, and it does not lead to
\* the status asked for (transition).
RefusalsAreTruthful ==
  \A d \in refusals : d.action = "transition_denied" =>
    /\ d.to \notin AllowedTransitions[d.from]
    /\ \E n \in 0..Len(moves[d.msg]) :
         /\ d.from = StatusAfter(d.msg, n)
         /\ \A i \in 1..Len(moves[d.msg]) :
              moves[d.msg][i].id < d.id <=> i <= n

\* What the bot was told of a staff action is on record: an accepted move as
\* a transition, a conflict as a refusal, a denial as a denial; and what it
\* was told is missing or unprocessable left no trace.
AnswersAreRecorded ==
  \A h \in Handlers : handler[h].pc = "answered" =>
    LET i == handler[h].id  a == handler[h].ans IN
    /\ a = "moved" =>
         \E m \in Messages : \E k \in DOMAIN moves[m] : moves[m][k].id = i
    /\ a = "conflict" =>
         \E d \in refusals : d.id = i /\ d.action = "transition_denied"
    /\ a = "noted" =>
         \E d \in refusals : d.id = i /\ d.action = "auth_denied"
    /\ a \in {"missing", "unprocessable"} => i = 0

\* The card a reader sees keeps the promise of SuggestionLifecycle.
Lifecycle == INSTANCE SuggestionLifecycle WITH
  card <- [m \in DOMAIN rows |->
             [text |-> rows[m].text, status |-> rows[m].status,
              credit |-> rows[m].assignee]]

\* The first text stands, stages only move forward, the credit is given once:
\* whatever the interleaving of creates, votes, moves and failures.
ImplementsLifecycle == Lifecycle!Spec

\* A handler whose next statement waits for whoever holds its row.
Waits(h) ==
  /\ ~Unlocked(h)
  /\ At(h, "votes", "begin") \/ At(h, "move", "begin") \/ At(h, "denied", "inserted")

\* Whoever waits for a row waits for someone at work: the holder is in the
\* middle of its transaction and waits for nobody, so no ring of waits can form
\* (transition, recordAuthDenied, setVotesByDiscordMsgId).
WaitersWaitForWorkers ==
  \A h \in Handlers : Busy(h) /\ Waits(h) =>
    \E g \in lock[handler[h].req.msg] : Busy(g) /\ ~Waits(g)

\* While a request is unanswered one of them has a statement that can run, and
\* each of them has a handful of statements left, so none waits for ever:
\* waiting is for workers, and whoever does not wait has a statement to send.
SomebodyCanGoOn ==
  /\ WaitersWaitForWorkers
  /\ \A h \in Handlers : Busy(h) /\ ~Waits(h) => ENABLED Work(h)
=============================================================================
