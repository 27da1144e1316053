----------------------- MODULE SuggestionStatesProofs -----------------------
(* Proofs about SuggestionStates, for any handlers, messages, texts,       *)
(* moderators and bound.                                                   *)
EXTENDS SuggestionStates, SequenceTheorems, TLAPS

\* What an answer says is on record under the id the handler was given.
Recorded(a, i) ==
  /\ a = "moved" =>
       \E m \in Messages : \E k \in DOMAIN moves[m] : moves[m][k].id = i
  /\ a = "conflict" =>
       \E d \in refusals : d.id = i /\ d.action = "transition_denied"
  /\ a = "noted" =>
       \E d \in refusals : d.id = i /\ d.action = "auth_denied"
  /\ a \in {"missing", "unprocessable"} => i = 0

\* A transition past its SELECT holds its row, and the row is as it read it.
Holds(h) ==
  /\ handler[h].req \in Moves
  /\ handler[h].req.msg \in DOMAIN rows
  /\ lock[handler[h].req.msg] = {h}
  /\ rows[handler[h].req.msg].status = handler[h].from

\* Nothing on record about the row comes after the id a transition was given.
IsLatest(m, i) ==
  /\ i < clock
  /\ \A k \in DOMAIN moves[m] : moves[m][k].id < i
  /\ \A d \in refusals : d.msg = m /\ d.action = "transition_denied" => d.id < i

\* What each handler knows about the tables, by where it is.
HandlerOK(h) ==
  /\ handler[h].pc \in {"locked", "updated", "written"} => Holds(h)
  /\ handler[h].pc = "updated" => Allowed(h)
  /\ handler[h].pc = "written" => IsLatest(handler[h].req.msg, handler[h].id)
  /\ handler[h].pc \in {"begin", "readback", "locked", "updated", "read"} =>
       handler[h].id = 0
  /\ handler[h].pc \in {"read", "inserted"} => handler[h].req \in Denials
  /\ handler[h].pc = "inserted" => handler[h].id < clock
  /\ handler[h].pc = "committed" =>
       /\ handler[h].req \in Moves \cup Denials
       /\ Recorded(Outcome(h), handler[h].id)
  /\ handler[h].pc = "answered" => Recorded(handler[h].ans, handler[h].id)

\* The trail of a suggestion explains its row, and is in the past.
ChainOK(m) ==
  /\ m \in DOMAIN rows =>
       /\ rows[m].status = StatusAfter(m, Len(moves[m]))
       /\ rows[m].assignee = Approver(m)
  /\ m \notin DOMAIN rows => moves[m] = <<>>
  /\ \A i \in 1..Len(moves[m]) :
       /\ moves[m][i].from = StatusAfter(m, i - 1)
       /\ moves[m][i].to \in AllowedTransitions[moves[m][i].from]
       /\ moves[m][i].id < clock
       /\ \A j \in 1..(i - 1) : moves[m][j].id < moves[m][i].id

RefusalOK(d) ==
  /\ d.id < clock
  /\ d.action = "transition_denied" =>
       /\ d.to \notin AllowedTransitions[d.from]
       /\ \E n \in 0..Len(moves[d.msg]) :
            /\ d.from = StatusAfter(d.msg, n)
            /\ \A i \in 1..Len(moves[d.msg]) :
                 moves[d.msg][i].id < d.id <=> i <= n

IInv ==
  /\ TypeOK
  /\ \A h \in Handlers : HandlerOK(h)
  /\ \A m \in Messages : ChainOK(m)
  /\ \A d \in refusals : RefusalOK(d)

-----------------------------------------------------------------------------
(* Types.                                                                  *)

\* The kind of a request says which route it came by.
LEMMA KindOfRequest ==
  ASSUME NEW q \in Requests
  PROVE  /\ q.kind = "create" => q \in Creates
         /\ q.kind = "votes" => q \in Votes
         /\ q.kind = "move" => q \in Moves
         /\ q.kind = "denied" => q \in Denials
         /\ q.msg \in Messages
BY DEF Requests, Creates, Votes, Moves, Denials

\* A handler that is busy has a request and its working fields.
LEMMA BusyIsWorking ==
  ASSUME TypeOK, NEW h \in Handlers, Busy(h)
  PROVE  /\ handler[h] \in Working
         /\ handler[h].req \in Requests
         /\ handler[h].req.msg \in Messages
         /\ handler[h].from \in Statuses
         /\ handler[h].at \in Nat /\ handler[h].id \in Nat
<1>1. handler[h] \in Working
  BY DEF TypeOK, Busy, Done, Idle
<1>2. handler[h].req \in Requests
  BY <1>1 DEF Working
<1>3. handler[h].req.msg \in Messages
  BY <1>2, KindOfRequest
<1>q. QED BY <1>1, <1>2, <1>3 DEF Working

\* The ways a handler's fields change keep their types, and the request.
LEMMA SetPc ==
  ASSUME NEW w \in Working, NEW p \in Pcs
  PROVE  /\ [w EXCEPT !.pc = p] \in Working
         /\ [w EXCEPT !.pc = p].pc = p
         /\ [w EXCEPT !.pc = p].req = w.req
         /\ [w EXCEPT !.pc = p].id = w.id
         /\ [w EXCEPT !.pc = p].from = w.from
BY DEF Working

LEMMA SetPcId ==
  ASSUME NEW w \in Working, NEW p \in Pcs, NEW i \in Nat
  PROVE  /\ [w EXCEPT !.pc = p, !.id = i] \in Working
         /\ [w EXCEPT !.pc = p, !.id = i].pc = p
         /\ [w EXCEPT !.pc = p, !.id = i].req = w.req
         /\ [w EXCEPT !.pc = p, !.id = i].id = i
         /\ [w EXCEPT !.pc = p, !.id = i].from = w.from
BY DEF Working

LEMMA SetPcFrom ==
  ASSUME NEW w \in Working, NEW p \in Pcs, NEW s \in Statuses
  PROVE  /\ [w EXCEPT !.pc = p, !.from = s] \in Working
         /\ [w EXCEPT !.pc = p, !.from = s].pc = p
         /\ [w EXCEPT !.pc = p, !.from = s].req = w.req
         /\ [w EXCEPT !.pc = p, !.from = s].id = w.id
         /\ [w EXCEPT !.pc = p, !.from = s].from = s
BY DEF Working

\* A request's message holds no lock of a handler outside its transaction.
LEMMA LockHolders ==
  ASSUME TypeOK, NEW h \in Handlers, NEW m \in Messages, h \in lock[m]
  PROVE  /\ handler[h].pc \in {"locked", "updated", "written"}
         /\ handler[h].req.msg = m
BY DEF TypeOK

\* One handler moves on; the locks it keeps are those of its transaction.
LEMMA HandlerMoves ==
  ASSUME TypeOK, NEW h \in Handlers, NEW v \in Working \cup Done \cup {Idle},
         handler' = [handler EXCEPT ![h] = v],
         lock' \in [Messages -> SUBSET Handlers],
         \A m \in Messages : lock'[m] \subseteq lock[m] \cup {h},
         \A m \in Messages : h \in lock'[m] =>
           v.pc \in {"locked", "updated", "written"} /\ v.req.msg = m
  PROVE  /\ handler' \in [Handlers -> Working \cup Done \cup {Idle}]
         /\ \A m \in Messages : \A g \in lock'[m] :
              /\ handler'[g].pc \in {"locked", "updated", "written"}
              /\ handler'[g].req.msg = m
<1>1. /\ handler' \in [Handlers -> Working \cup Done \cup {Idle}]
      /\ handler'[h] = v
      /\ \A g \in Handlers \ {h} : handler'[g] = handler[g]
  BY DEF TypeOK
<1>2. ASSUME NEW m \in Messages, NEW g \in lock'[m]
      PROVE  /\ handler'[g].pc \in {"locked", "updated", "written"}
             /\ handler'[g].req.msg = m
  <2>1. g \in Handlers OBVIOUS
  <2>2. CASE g = h BY <1>1, <2>2
  <2>3. CASE g # h
    <3>1. g \in lock[m] BY <2>3
    <3>q. QED BY <1>1, <2>1, <2>3, <3>1, LockHolders
  <2>q. QED BY <2>2, <2>3
<1>q. QED BY <1>1, <1>2

\* What an action of one handler that changes no table must show for the types.
LEMMA QuietTypes ==
  ASSUME TypeOK, NEW h \in Handlers, NEW v \in Working \cup Done \cup {Idle},
         handler' = [handler EXCEPT ![h] = v],
         lock' \in [Messages -> SUBSET Handlers],
         \A m \in Messages : lock'[m] \subseteq lock[m] \cup {h},
         \A m \in Messages : h \in lock'[m] =>
           v.pc \in {"locked", "updated", "written"} /\ v.req.msg = m,
         clock' \in Nat, begun' \in Nat,
         UNCHANGED <<rows, moves, refusals>>
  PROVE  TypeOK'
<1>1. /\ handler' \in [Handlers -> Working \cup Done \cup {Idle}]
      /\ \A m \in Messages : \A g \in lock'[m] :
           /\ handler'[g].pc \in {"locked", "updated", "written"}
           /\ handler'[g].req.msg = m
  BY HandlerMoves
<1>q. QED BY <1>1 DEF TypeOK

\* A reply ends a request that holds no row.
LEMMA ReplyTypes ==
  ASSUME TypeOK, NEW h \in Handlers, NEW a \in Answers, Busy(h), Reply(h, a),
         \A m \in Messages : h \notin lock[m],
         UNCHANGED <<rows, moves, refusals, lock, clock, begun>>
  PROVE  TypeOK'
<1> DEFINE v == [pc |-> "answered", ans |-> a, id |-> handler[h].id]
<1>1. v \in Done BY BusyIsWorking DEF Done
<1>2. handler' = [handler EXCEPT ![h] = v] BY DEF Reply
<1>3. lock' \in [Messages -> SUBSET Handlers] /\ clock' \in Nat /\ begun' \in Nat
  BY DEF TypeOK
<1> HIDE DEF v
<1>q. QED BY <1>1, <1>2, <1>3, QuietTypes

LEMMA RollbackTypes ==
  ASSUME TypeOK, NEW h \in Handlers, NEW a \in Answers, Rollback(h, a)
  PROVE  TypeOK'
<1> DEFINE v == [pc |-> "answered", ans |-> a, id |-> 0]
<1>1. v \in Done BY DEF Done
<1>2. /\ handler' = [handler EXCEPT ![h] = v]
      /\ UNCHANGED <<rows, moves, refusals, clock, begun>>
      /\ lock' = [m \in Messages |-> lock[m] \ {h}]
  BY DEF Rollback, Release
<1>3. /\ lock' \in [Messages -> SUBSET Handlers] /\ clock' \in Nat /\ begun' \in Nat
      /\ \A m \in Messages : lock'[m] \subseteq lock[m] \cup {h}
      /\ \A m \in Messages : h \notin lock'[m]
  BY <1>2 DEF TypeOK
<1> HIDE DEF v
<1>q. QED BY <1>1, <1>2, <1>3, QuietTypes

\* A step to another point of the same transaction, or out of none.
LEMMA GotoTypes ==
  ASSUME TypeOK, NEW h \in Handlers, NEW w \in Working, Busy(h),
         w.req = handler[h].req,
         handler' = [handler EXCEPT ![h] = w],
         UNCHANGED <<rows, moves, refusals, lock, begun>>, clock' \in Nat,
         \/ w.pc \in {"locked", "updated", "written"}
         \/ \A m \in Messages : h \notin lock[m]
  PROVE  TypeOK'
<1>1. /\ lock' \in [Messages -> SUBSET Handlers] /\ begun' \in Nat
      /\ \A m \in Messages : lock'[m] \subseteq lock[m] \cup {h}
  BY DEF TypeOK
<1>2. \A m \in Messages : h \in lock'[m] =>
           w.pc \in {"locked", "updated", "written"} /\ w.req.msg = m
  BY LockHolders
<1>q. QED BY <1>1, <1>2, QuietTypes

\* A handler outside its transaction holds nothing.
LEMMA HoldsNothing ==
  ASSUME TypeOK, NEW h \in Handlers,
         handler[h].pc \notin {"locked", "updated", "written"}
  PROVE  \A m \in Messages : h \notin lock[m]
BY LockHolders

LEMMA InitTypes == Init => TypeOK
<1> SUFFICES ASSUME Init PROVE TypeOK OBVIOUS
<1> USE DEF Init
<1>1. PICK posted \in SUBSET Messages :
        rows \in [posted -> {Fresh(t) : t \in Texts}]
  OBVIOUS
<1>2. \A t \in Texts : Fresh(t) \in Row
  BY DEF Fresh, Row, Statuses
<1>3. DOMAIN rows \subseteq Messages /\ rows \in [DOMAIN rows -> Row]
  BY <1>1, <1>2
<1>q. QED BY <1>3 DEF TypeOK

LEMMA BeginTypes ==
  ASSUME TypeOK, NEW h \in Handlers, NEW q \in Requests, Begin(h, q)
  PROVE  TypeOK'
<1> DEFINE w == [pc |-> "begin", req |-> q, from |-> "enviada", at |-> clock,
                 id |-> 0]
<1>1. w \in Working BY DEF Working, Pcs, Statuses, TypeOK
<1>2. \A m \in Messages : h \notin lock[m]
  BY HoldsNothing DEF Begin, Busy
<1>3. /\ lock' \in [Messages -> SUBSET Handlers] /\ clock' \in Nat /\ begun' \in Nat
      /\ handler' = [handler EXCEPT ![h] = w]
      /\ UNCHANGED <<rows, moves, refusals, lock>>
  BY DEF TypeOK, Begin
<1> HIDE DEF w
<1>q. QED BY <1>1, <1>2, <1>3, QuietTypes

LEMMA CreateInsertTypes ==
  ASSUME TypeOK, NEW h \in Handlers, CreateInsert(h)
  PROVE  TypeOK'
<1>1. Busy(h) /\ handler[h].pc = "begin" /\ handler[h].req.kind = "create"
  BY DEF CreateInsert, At, Busy
<1>2. handler[h] \in Working /\ handler[h].req \in Creates
  BY <1>1, BusyIsWorking, KindOfRequest
<1>3. \A m \in Messages : h \notin lock[m]
  BY <1>1, HoldsNothing
<1>4. UNCHANGED <<moves, refusals, lock, clock, begun>> BY DEF CreateInsert
<1>5. CASE Reply(h, "unprocessable") /\ UNCHANGED rows
  BY <1>1, <1>3, <1>4, <1>5, ReplyTypes DEF Answers
<1>6. CASE Goto(h, "readback") /\ UNCHANGED rows
  <2> DEFINE w == [handler[h] EXCEPT !.pc = "readback"]
  <2>1. "readback" \in Pcs BY DEF Pcs
  <2>2. w \in Working /\ w.req = handler[h].req
    BY <1>2, <2>1, SetPc
  <2>3. handler' = [handler EXCEPT ![h] = w]
    BY <1>6 DEF Goto
  <2>4. clock' \in Nat BY <1>4 DEF TypeOK
  <2> HIDE DEF w
  <2>q. QED BY <1>1, <1>3, <1>4, <1>6, <2>2, <2>3, <2>4, GotoTypes
<1>7. CASE /\ StorableText(handler[h].req) /\ ~Exists(h) /\ Reply(h, "ok")
           /\ rows' = [m \in DOMAIN rows \cup {handler[h].req.msg} |->
                         IF m = handler[h].req.msg THEN Fresh(handler[h].req.text)
                         ELSE rows[m]]
  <2>1. handler[h].req.msg \in Messages /\ handler[h].req.text \in Texts
    BY <1>2, <1>7 DEF Creates, StorableText
  <2>2. Fresh(handler[h].req.text) \in Row
    BY <2>1 DEF Fresh, Row, Statuses
  <2>3. DOMAIN rows' \subseteq Messages /\ rows' \in [DOMAIN rows' -> Row]
    BY <1>7, <2>1, <2>2 DEF TypeOK
  <2> DEFINE v == [pc |-> "answered", ans |-> "ok", id |-> handler[h].id]
  <2>4. v \in Done BY <1>2 DEF Done, Answers, Working
  <2>5. handler' = [handler EXCEPT ![h] = v] BY <1>7 DEF Reply
  <2>6. lock' \in [Messages -> SUBSET Handlers] BY <1>4 DEF TypeOK
  <2>7. /\ handler' \in [Handlers -> Working \cup Done \cup {Idle}]
        /\ \A m \in Messages : \A g \in lock'[m] :
             /\ handler'[g].pc \in {"locked", "updated", "written"}
             /\ handler'[g].req.msg = m
    <3> HIDE DEF v
    <3>q. QED BY <1>3, <1>4, <2>4, <2>5, <2>6, HandlerMoves
  <2>q. QED BY <1>4, <2>3, <2>7 DEF TypeOK
<1>q. QED BY <1>5, <1>6, <1>7 DEF CreateInsert

LEMMA SetVotesTypes ==
  ASSUME TypeOK, NEW h \in Handlers, SetVotes(h)
  PROVE  TypeOK'
<1>1. Busy(h) /\ handler[h].pc = "begin" /\ handler[h].req.kind = "votes"
  BY DEF SetVotes, At, Busy
<1>2. handler[h] \in Working /\ handler[h].req \in Votes
  BY <1>1, BusyIsWorking, KindOfRequest
<1>3. \A m \in Messages : h \notin lock[m]
  BY <1>1, HoldsNothing
<1>4. UNCHANGED <<moves, refusals, lock, clock, begun>> BY DEF SetVotes
<1>5. CASE Reply(h, "missing") /\ UNCHANGED rows
  BY <1>1, <1>3, <1>4, <1>5, ReplyTypes DEF Answers
<1>6. CASE /\ Exists(h) /\ Reply(h, "ok")
           /\ rows' = [rows EXCEPT ![handler[h].req.msg].votes = handler[h].req.votes]
  <2>1. handler[h].req.msg \in DOMAIN rows /\ handler[h].req.votes \in Tallies
    BY <1>2, <1>6 DEF Exists, Votes
  <2>2. [rows[handler[h].req.msg] EXCEPT !.votes = handler[h].req.votes] \in Row
    <3>1. rows[handler[h].req.msg] \in Row BY <2>1 DEF TypeOK
    <3>q. QED BY <2>1, <3>1 DEF Row
  <2>3. DOMAIN rows' \subseteq Messages /\ rows' \in [DOMAIN rows' -> Row]
    BY <1>6, <2>1, <2>2 DEF TypeOK
  <2> DEFINE v == [pc |-> "answered", ans |-> "ok", id |-> handler[h].id]
  <2>4. v \in Done BY <1>2 DEF Done, Answers, Working
  <2>5. handler' = [handler EXCEPT ![h] = v] BY <1>6 DEF Reply
  <2>6. lock' \in [Messages -> SUBSET Handlers] BY <1>4 DEF TypeOK
  <2>7. /\ handler' \in [Handlers -> Working \cup Done \cup {Idle}]
        /\ \A m \in Messages : \A g \in lock'[m] :
             /\ handler'[g].pc \in {"locked", "updated", "written"}
             /\ handler'[g].req.msg = m
    <3> HIDE DEF v
    <3>q. QED BY <1>3, <1>4, <2>4, <2>5, <2>6, HandlerMoves
  <2>q. QED BY <1>4, <2>3, <2>7 DEF TypeOK
<1>q. QED BY <1>5, <1>6 DEF SetVotes

LEMMA CreateReadBackTypes ==
  ASSUME TypeOK, NEW h \in Handlers, CreateReadBack(h)
  PROVE  TypeOK'
<1>1. Busy(h) /\ handler[h].pc = "readback"
  BY DEF CreateReadBack, At, Busy
<1>2. PICK a \in Answers : Reply(h, a)
  BY DEF CreateReadBack, Answers
<1>3. UNCHANGED <<rows, moves, refusals, lock, clock, begun>> BY DEF CreateReadBack
<1>q. QED BY <1>1, <1>2, <1>3, HoldsNothing, ReplyTypes

LEMMA LockRowTypes ==
  ASSUME TypeOK, NEW h \in Handlers, LockRow(h)
  PROVE  TypeOK'
<1>1. /\ Busy(h) /\ handler[h].pc = "begin" /\ handler[h].req.kind = "move"
      /\ UNCHANGED <<rows, moves, refusals, clock, begun>>
  BY DEF LockRow, At, Busy
<1>2. \A m \in Messages : h \notin lock[m]
  BY <1>1, HoldsNothing
<1>3. CASE Reply(h, "missing") /\ UNCHANGED lock
  BY <1>1, <1>2, <1>3, ReplyTypes DEF Answers
<1>4. CASE /\ Exists(h)
           /\ lock' = [lock EXCEPT ![handler[h].req.msg] = {h}]
           /\ handler' = [handler EXCEPT
               ![h] = [@ EXCEPT !.pc = "locked", !.from = Read(h).status]]
  <2> DEFINE w == [handler[h] EXCEPT !.pc = "locked", !.from = Read(h).status]
  <2>1. handler[h] \in Working /\ handler[h].req.msg \in Messages
    BY <1>1, BusyIsWorking
  <2>2. Read(h).status \in Statuses
    BY <1>4 DEF Read, Exists, TypeOK, Row
  <2>3. w \in Working /\ w.pc = "locked" /\ w.req = handler[h].req
    <3>1. "locked" \in Pcs BY DEF Pcs
    <3>2. PICK u \in Working : u = handler[h] BY <2>1
    <3>3. PICK f \in Statuses : f = Read(h).status BY <2>2
    <3>4. w = [u EXCEPT !.pc = "locked", !.from = f] BY <3>2, <3>3
    <3>5. [u EXCEPT !.pc = "locked", !.from = f] \in Working BY <3>1, SetPcFrom
    <3>7. [u EXCEPT !.pc = "locked", !.from = f].req = u.req BY DEF Working
    <3>6. w.pc = "locked" BY <3>4 DEF Working
    <3> HIDE DEF w
    <3>q. QED BY <3>2, <3>4, <3>5, <3>6, <3>7
  <2>4. /\ lock' \in [Messages -> SUBSET Handlers] /\ clock' \in Nat /\ begun' \in Nat
        /\ \A m \in Messages : lock'[m] \subseteq lock[m] \cup {h}
        /\ \A m \in Messages : h \in lock'[m] => m = handler[h].req.msg
    BY <1>1, <1>2, <1>4, <2>1 DEF TypeOK
  <2>5. handler' = [handler EXCEPT ![h] = w] BY <1>4
  <2> HIDE DEF w
  <2>q. QED BY <1>1, <2>3, <2>4, <2>5, QuietTypes
<1>q. QED BY <1>3, <1>4 DEF LockRow

LEMMA InsertAuditTypes ==
  ASSUME TypeOK, NEW h \in Handlers, Busy(h), NEW p \in Pcs, InsertAudit(h, p),
         \/ p \in {"locked", "updated", "written"}
         \/ \A m \in Messages : h \notin lock[m]
  PROVE  TypeOK'
<1> DEFINE w == [handler[h] EXCEPT !.pc = p, !.id = clock]
<1>1. handler[h] \in Working BY BusyIsWorking
<1>2. clock \in Nat BY DEF TypeOK
<1>3. w \in Working /\ w.pc = p /\ w.req = handler[h].req
  <2>1. PICK u \in Working : u = handler[h] BY <1>1
  <2>2. PICK c \in Nat : c = clock BY <1>2
  <2>3. w = [u EXCEPT !.pc = p, !.id = c] BY <2>1, <2>2
  <2>4. [u EXCEPT !.pc = p, !.id = c] \in Working BY SetPcId
  <2>6. [u EXCEPT !.pc = p, !.id = c].req = u.req BY DEF Working
  <2>5. w.pc = p BY <2>3 DEF Working
  <2> HIDE DEF w
  <2>q. QED BY <2>1, <2>3, <2>4, <2>5, <2>6
<1>4. /\ handler' = [handler EXCEPT ![h] = w] /\ clock' \in Nat
      /\ UNCHANGED <<rows, moves, refusals, lock, begun>>
  BY <1>2 DEF InsertAudit
<1> HIDE DEF w
<1>q. QED BY <1>3, <1>4, GotoTypes

LEMMA UpdateRowTypes ==
  ASSUME TypeOK, NEW h \in Handlers, UpdateRow(h)
  PROVE  TypeOK'
<1> DEFINE w == [handler[h] EXCEPT !.pc = "updated"]
<1>1. Busy(h) /\ UNCHANGED <<rows, moves, refusals, lock, begun>> /\ clock' \in Nat
  BY DEF UpdateRow, At, Busy, TypeOK
<1>2. w \in Working /\ w.pc = "updated" /\ w.req = handler[h].req
  <2>1. "updated" \in Pcs BY DEF Pcs
  <2>q. QED BY <1>1, <2>1, BusyIsWorking, SetPc
<1>3. handler' = [handler EXCEPT ![h] = w] BY DEF UpdateRow, Goto
<1> HIDE DEF w
<1>q. QED BY <1>1, <1>2, <1>3, GotoTypes

LEMMA ReadStatusTypes ==
  ASSUME TypeOK, NEW h \in Handlers, ReadStatus(h)
  PROVE  TypeOK'
<1>1. /\ Busy(h) /\ handler[h].pc = "begin"
      /\ UNCHANGED <<rows, moves, refusals, lock, clock, begun>>
  BY DEF ReadStatus, At, Busy
<1>2. \A m \in Messages : h \notin lock[m]
  BY <1>1, HoldsNothing
<1>3. CASE Reply(h, "missing")
  BY <1>1, <1>2, <1>3, ReplyTypes DEF Answers
<1>4. CASE /\ Exists(h)
           /\ handler' = [handler EXCEPT
               ![h] = [@ EXCEPT !.pc = "read", !.from = Read(h).status]]
  <2> DEFINE w == [handler[h] EXCEPT !.pc = "read", !.from = Read(h).status]
  <2>1. Read(h).status \in Statuses
    BY <1>4 DEF Read, Exists, TypeOK, Row
  <2>2. w \in Working /\ w.req = handler[h].req
    <3>1. "read" \in Pcs BY DEF Pcs
    <3>q. QED BY <1>1, <2>1, <3>1, BusyIsWorking, SetPcFrom
  <2>3. handler' = [handler EXCEPT ![h] = w] /\ clock' \in Nat
    BY <1>1, <1>4 DEF TypeOK
  <2> HIDE DEF w
  <2>q. QED BY <1>1, <1>2, <2>2, <2>3, GotoTypes
<1>q. QED BY <1>3, <1>4 DEF ReadStatus

LEMMA CommitDeniedTypes ==
  ASSUME TypeOK, NEW h \in Handlers, CommitDenied(h)
  PROVE  TypeOK'
<1> DEFINE w == [handler[h] EXCEPT !.pc = "committed"]
<1>1. /\ Busy(h) /\ handler[h].pc = "inserted" /\ handler[h].req.kind = "denied"
      /\ UNCHANGED <<rows, moves, lock, clock, begun>>
  BY DEF CommitDenied, At, Busy
<1>2. handler[h] \in Working /\ handler[h].req \in Denials
  BY <1>1, BusyIsWorking, KindOfRequest
<1>3. w \in Working /\ handler' = [handler EXCEPT ![h] = w]
  <2>1. "committed" \in Pcs BY DEF Pcs
  <2>q. QED BY <1>2, <2>1, SetPc DEF CommitDenied, Goto
<1>4. refusals' \subseteq Refusal
  BY <1>2 DEF CommitDenied, Refusal, Working, Denials, TypeOK
<1>5. \A m \in Messages : h \notin lock[m]
  BY <1>1, HoldsNothing
<1>6. lock' \in [Messages -> SUBSET Handlers] BY <1>1 DEF TypeOK
<1>7. /\ handler' \in [Handlers -> Working \cup Done \cup {Idle}]
      /\ \A m \in Messages : \A g \in lock'[m] :
           /\ handler'[g].pc \in {"locked", "updated", "written"}
           /\ handler'[g].req.msg = m
  <2> HIDE DEF w
  <2>q. QED BY <1>1, <1>3, <1>5, <1>6, HandlerMoves
<1>q. QED BY <1>1, <1>4, <1>7 DEF TypeOK

LEMMA CommitMoveTypes ==
  ASSUME TypeOK, NEW h \in Handlers, CommitMove(h), Holds(h)
  PROVE  TypeOK'
<1> DEFINE w == [handler[h] EXCEPT !.pc = "committed"]
           q == handler[h].req
<1>1. /\ Busy(h) /\ handler[h].pc = "written"
      /\ lock' = [m \in Messages |-> lock[m] \ {h}]
      /\ UNCHANGED <<clock, begun>>
  BY DEF CommitMove, At, Busy, Release
<1>2. handler[h] \in Working /\ q \in Moves /\ q.msg \in DOMAIN rows
  BY <1>1, BusyIsWorking DEF Holds
<1>3. w \in Working /\ handler' = [handler EXCEPT ![h] = w]
  <2>1. "committed" \in Pcs BY DEF Pcs
  <2>q. QED BY <1>2, <2>1, SetPc DEF CommitMove, Goto
<1>4. /\ lock' \in [Messages -> SUBSET Handlers]
      /\ \A m \in Messages : lock'[m] \subseteq lock[m] \cup {h}
      /\ \A m \in Messages : h \notin lock'[m]
  BY <1>1 DEF TypeOK
<1>5. /\ handler' \in [Handlers -> Working \cup Done \cup {Idle}]
      /\ \A m \in Messages : \A g \in lock'[m] :
           /\ handler'[g].pc \in {"locked", "updated", "written"}
           /\ handler'[g].req.msg = m
  <2> HIDE DEF w
  <2>q. QED BY <1>3, <1>4, HandlerMoves
<1>6. CASE Allowed(h)
  <2> DEFINE e == [id |-> handler[h].id, at |-> handler[h].at,
                   from |-> handler[h].from, to |-> q.to, actor |-> q.actor]
  <2>1. /\ rows' = [rows EXCEPT ![q.msg] = Moved(@, q)]
        /\ moves' = [moves EXCEPT ![q.msg] = Append(@, e)]
        /\ UNCHANGED refusals
    BY <1>6 DEF CommitMove
  <2>2. Moved(rows[q.msg], q) \in Row
    <3>1. rows[q.msg] \in Row BY <1>2 DEF TypeOK
    <3>2. q.to \in Statuses /\ q.actor \in Actors BY <1>2 DEF Moves
    <3> HIDE DEF q
    <3>q. QED BY <3>1, <3>2 DEF Moved, Row
  <2>3. DOMAIN rows' \subseteq Messages /\ rows' \in [DOMAIN rows' -> Row]
    <3> HIDE DEF q
    <3>q. QED BY <2>1, <1>2, <2>2 DEF TypeOK
  <2>4. e \in Move BY <1>2 DEF Move, Working, Moves
  <2>5. moves' \in [Messages -> Seq(Move)]
    <3>1. moves[q.msg] \in Seq(Move) /\ q.msg \in Messages
      BY <1>2 DEF TypeOK, Moves
    <3> HIDE DEF q, e
    <3>2. Append(moves[q.msg], e) \in Seq(Move) BY <2>4, <3>1, AppendProperties
    <3>q. QED BY <2>1, <3>1, <3>2 DEF TypeOK
  <2>q. QED BY <1>1, <1>5, <2>1, <2>3, <2>5, <1>4 DEF TypeOK
<1>7. CASE ~Allowed(h)
  <2>1. UNCHANGED <<rows, moves>> BY <1>7 DEF CommitMove
  <2>2. refusals' = refusals \cup
             {[msg |-> q.msg, action |-> "transition_denied", id |-> handler[h].id,
               from |-> handler[h].from, to |-> q.to, actor |-> q.actor]}
    BY <1>7 DEF CommitMove
  <2>3. refusals' \subseteq Refusal
    BY <1>2, <2>2 DEF Refusal, Working, Moves, TypeOK
  <2>q. QED BY <1>1, <1>4, <1>5, <2>1, <2>3 DEF TypeOK
<1>q. QED BY <1>6, <1>7

LEMMA CrashTypes == TypeOK /\ Crash => TypeOK'
<1> SUFFICES ASSUME TypeOK, Crash PROVE TypeOK' OBVIOUS
<1>1. handler' \in [Handlers -> {Idle}] /\ lock' \in [Messages -> {{}}]
  BY DEF Crash
<1>q. QED BY <1>1 DEF TypeOK, Crash

-----------------------------------------------------------------------------
(* What a step leaves alone.                                               *)

\* A record once made stays.
LEMMA RecordedStays ==
  ASSUME NEW a, NEW i, Recorded(a, i), refusals \subseteq refusals',
         \A m \in Messages : \A k \in DOMAIN moves[m] :
           k \in DOMAIN moves'[m] /\ moves'[m][k].id = moves[m][k].id
  PROVE  Recorded(a, i)'
<1>1. a = "moved" =>
        \E m \in Messages : \E k \in DOMAIN moves'[m] : moves'[m][k].id = i
  BY DEF Recorded
<1>2. /\ a = "conflict" =>
            \E d \in refusals' : d.id = i /\ d.action = "transition_denied"
      /\ a = "noted" =>
            \E d \in refusals' : d.id = i /\ d.action = "auth_denied"
      /\ a \in {"missing", "unprocessable"} => i = 0
  BY DEF Recorded
<1>q. QED BY <1>1, <1>2 DEF Recorded

\* A handler that does not move stays right, if the row it holds is let be and
\* records only grow.
LEMMA OthersKeep ==
  ASSUME TypeOK, NEW g \in Handlers, HandlerOK(g), handler'[g] = handler[g],
         clock' \in Nat, clock' >= clock, DOMAIN rows \subseteq DOMAIN rows',
         refusals \subseteq refusals',
         \A m \in Messages : \A k \in DOMAIN moves[m] :
           k \in DOMAIN moves'[m] /\ moves'[m][k].id = moves[m][k].id,
         \A m \in DOMAIN rows : lock[m] = {g} =>
           /\ lock'[m] = {g}
           /\ moves'[m] = moves[m]
           /\ rows'[m].status = rows[m].status
           /\ \A d \in refusals' \ refusals :
                d.msg = m => d.action # "transition_denied"
  PROVE  HandlerOK(g)'
<1>1. handler[g].pc \in {"locked", "updated", "written"} => Holds(g)'
  BY DEF HandlerOK, Holds
<1>2. handler[g].pc = "updated" => Allowed(g)'
  BY DEF HandlerOK, Allowed
<1>3. ASSUME handler[g].pc = "written"
      PROVE  IsLatest(handler[g].req.msg, handler[g].id)'
  <2> DEFINE m == handler[g].req.msg  i == handler[g].id
  <2>1. /\ m \in DOMAIN rows /\ lock[m] = {g} /\ m \in Messages
        /\ IsLatest(m, i) /\ i \in Nat /\ clock \in Nat
    BY <1>3, BusyIsWorking DEF HandlerOK, Holds, Busy, TypeOK
  <2>2. i < clock' BY <2>1 DEF IsLatest
  <2>3. \A k \in DOMAIN moves'[m] : moves'[m][k].id < i
    BY <2>1 DEF IsLatest
  <2>4. \A d \in refusals' : d.msg = m /\ d.action = "transition_denied" => d.id < i
    BY <2>1 DEF IsLatest
  <2>5. handler'[g].req.msg = m /\ handler'[g].id = i OBVIOUS
  <2> HIDE DEF m, i
  <2>q. QED BY <2>2, <2>3, <2>4, <2>5 DEF IsLatest
<1>4. /\ handler[g].pc \in {"begin", "readback", "locked", "updated", "read"} =>
           handler'[g].id = 0
      /\ handler[g].pc \in {"read", "inserted"} => handler'[g].req \in Denials
  BY DEF HandlerOK
<1>5. handler[g].pc = "inserted" => handler'[g].id < clock'
  <2> SUFFICES ASSUME handler[g].pc = "inserted" PROVE handler'[g].id < clock'
    OBVIOUS
  <2>1. handler[g].id \in Nat /\ clock \in Nat
    BY BusyIsWorking DEF Busy, TypeOK
  <2>2. handler[g].id < clock BY DEF HandlerOK
  <2>q. QED BY <2>1, <2>2
<1>6. ASSUME handler[g].pc = "committed"
      PROVE  handler'[g].req \in Moves \cup Denials /\ Recorded(Outcome(g), handler[g].id)'
  <2>1. handler[g].req \in Moves \cup Denials /\ Recorded(Outcome(g), handler[g].id)
    BY <1>6 DEF HandlerOK
  <2>2. Outcome(g)' = Outcome(g) BY DEF Outcome, Allowed
  <2>3. PICK a, i : a = Outcome(g) /\ i = handler[g].id OBVIOUS
  <2>4. Recorded(a, i) BY <2>1, <2>3
  <2>5. Recorded(a, i)' BY <2>4, RecordedStays
  <2>6. a = Outcome(g)' /\ i = handler'[g].id BY <2>2, <2>3
  <2>q. QED BY <2>1, <2>5, <2>6 DEF Recorded
<1>7. ASSUME handler[g].pc = "answered"
      PROVE  Recorded(handler[g].ans, handler[g].id)'
  <2>1. PICK a, i : a = handler[g].ans /\ i = handler[g].id OBVIOUS
  <2>2. Recorded(a, i) BY <1>7, <2>1 DEF HandlerOK
  <2>3. Recorded(a, i)' BY <2>2, RecordedStays
  <2>q. QED BY <2>1, <2>3 DEF Recorded
<1>q. QED BY <1>1, <1>2, <1>3, <1>4, <1>5, <1>6, <1>7 DEF HandlerOK

\* A trail that is not added to still explains its row, if its status and
\* assignee are let be.
LEMMA ChainKept ==
  ASSUME TypeOK, NEW m \in Messages, ChainOK(m), moves'[m] = moves[m],
         clock' \in Nat, clock' >= clock,
         m \in DOMAIN rows' <=> m \in DOMAIN rows,
         m \in DOMAIN rows => /\ rows'[m].status = rows[m].status
                             /\ rows'[m].assignee = rows[m].assignee
  PROVE  ChainOK(m)'
<1>1. m \in DOMAIN rows' =>
       /\ rows'[m].status = StatusAfter(m, Len(moves[m]))'
       /\ rows'[m].assignee = Approver(m)'
  BY DEF ChainOK, StatusAfter, Approver
<1>2. m \notin DOMAIN rows' => moves'[m] = <<>> BY DEF ChainOK
<1>3. ASSUME NEW i \in 1..Len(moves[m])
      PROVE  /\ moves[m][i].from = StatusAfter(m, i - 1)'
             /\ moves[m][i].to \in AllowedTransitions[moves[m][i].from]
             /\ moves[m][i].id < clock'
             /\ \A j \in 1..(i - 1) : moves[m][j].id < moves[m][i].id
  <2>1. moves[m][i].id \in Nat /\ clock \in Nat
    <3>1. moves[m] \in Seq(Move) BY DEF TypeOK
    <3>2. moves[m][i] \in Move BY <3>1, ElementOfSeq
    <3>q. QED BY <3>2 DEF TypeOK, Move
  <2>2. moves[m][i].id < clock BY DEF ChainOK
  <2>3. moves[m][i].id < clock' BY <2>1, <2>2
  <2>q. QED BY <2>3 DEF ChainOK, StatusAfter
<1>q. QED BY <1>1, <1>2, <1>3 DEF ChainOK

\* A refusal stays truthful while its suggestion's trail is let be.
LEMMA RefusalKept ==
  ASSUME TypeOK, NEW d \in refusals, RefusalOK(d),
         moves'[d.msg] = moves[d.msg], clock' \in Nat, clock' >= clock
  PROVE  RefusalOK(d)'
<1>1. d.id < clock'
  BY DEF RefusalOK, TypeOK, Refusal
<1>q. QED BY <1>1 DEF RefusalOK, StatusAfter

\* A step of one handler that changes no table needs only be right for itself.
LEMMA QuietStep ==
  ASSUME IInv, TypeOK', NEW h \in Handlers, HandlerOK(h)',
         \A g \in Handlers \ {h} : handler'[g] = handler[g],
         UNCHANGED <<rows, moves, refusals>>, clock' >= clock,
         \A m \in Messages : \A g \in Handlers \ {h} :
           lock[m] = {g} => lock'[m] = {g}
  PROVE  IInv'
<1>1. clock' \in Nat BY DEF TypeOK
<1>2. ASSUME NEW g \in Handlers PROVE HandlerOK(g)'
  <2>1. CASE g = h BY <2>1
  <2>2. CASE g # h
    <3>1. TypeOK /\ HandlerOK(g) BY DEF IInv
    <3>2. DOMAIN rows \subseteq Messages BY <3>1 DEF TypeOK
    <3>q. QED BY <1>1, <2>2, <3>1, <3>2, OthersKeep
  <2>q. QED BY <2>1, <2>2
<1>3. ASSUME NEW m \in Messages PROVE ChainOK(m)'
  BY <1>1, ChainKept DEF IInv
<1>4. ASSUME NEW d \in refusals' PROVE RefusalOK(d)'
  BY <1>1, RefusalKept DEF IInv
<1>q. QED BY <1>2, <1>3, <1>4 DEF IInv

\* An answer that claims nothing, or what is on record, is right.
LEMMA ReplyStep ==
  ASSUME IInv, TypeOK', NEW h \in Handlers, NEW a \in Answers, NEW i \in Nat,
         handler' = [handler EXCEPT ![h] = [pc |-> "answered", ans |-> a, id |-> i]],
         Recorded(a, i), UNCHANGED <<rows, moves, refusals, clock>>,
         \A m \in Messages : \A g \in Handlers \ {h} :
           lock[m] = {g} => lock'[m] = {g}
  PROVE  IInv'
<1>1. handler'[h] = [pc |-> "answered", ans |-> a, id |-> i]
  BY DEF IInv, TypeOK
<1>2. \A g \in Handlers \ {h} : handler'[g] = handler[g]
  BY DEF IInv, TypeOK
<1>3. Recorded(a, i)' BY RecordedStays
<1>4. HandlerOK(h)' BY <1>1, <1>3 DEF HandlerOK, Recorded
<1>5. clock' >= clock BY DEF IInv, TypeOK
<1>q. QED BY <1>2, <1>4, <1>5, QuietStep

LEMMA InitInvariant == Init => IInv
<1> SUFFICES ASSUME Init PROVE IInv OBVIOUS
<1>1. TypeOK BY InitTypes
<1>2. ASSUME NEW h \in Handlers PROVE HandlerOK(h)
  BY DEF Init, HandlerOK, Idle
<1>3. ASSUME NEW m \in Messages PROVE ChainOK(m)
  <2>1. moves[m] = <<>> /\ Len(moves[m]) = 0 BY DEF Init
  <2>2. m \in DOMAIN rows => rows[m].status = "enviada" /\ rows[m].assignee = Nobody
    BY DEF Init, Fresh
  <2>q. QED BY <2>1, <2>2 DEF ChainOK, StatusAfter, Approver
<1>4. refusals = {} BY DEF Init
<1>q. QED BY <1>1, <1>2, <1>3, <1>4 DEF IInv

LEMMA BeginStep ==
  ASSUME IInv, NEW h \in Handlers, NEW q \in Requests, Begin(h, q)
  PROVE  IInv'
<1>1. TypeOK /\ TypeOK' BY BeginTypes DEF IInv
<1>2. /\ handler'[h] = [pc |-> "begin", req |-> q, from |-> "enviada",
                        at |-> clock, id |-> 0]
      /\ \A g \in Handlers \ {h} : handler'[g] = handler[g]
      /\ UNCHANGED <<rows, moves, refusals, lock>>
      /\ clock' >= clock
  BY <1>1 DEF Begin, TypeOK
<1>3. HandlerOK(h)' BY <1>2 DEF HandlerOK
<1>q. QED BY <1>1, <1>2, <1>3, QuietStep

LEMMA CreateReadBackStep ==
  ASSUME IInv, NEW h \in Handlers, CreateReadBack(h)
  PROVE  IInv'
<1>1. TypeOK /\ TypeOK' BY CreateReadBackTypes DEF IInv
<1>2. PICK a \in {"ok", "error"} : Reply(h, a)
  BY DEF CreateReadBack
<1>3. handler[h].id \in Nat
  BY <1>1, BusyIsWorking DEF CreateReadBack, At, Busy
<1>4. Recorded(a, handler[h].id) /\ a \in Answers BY DEF Recorded, Answers
<1>5. UNCHANGED <<rows, moves, refusals, lock, clock>> BY DEF CreateReadBack
<1>q. QED BY <1>1, <1>2, <1>3, <1>4, <1>5, ReplyStep DEF Reply

\* What a read that finds no row answers.
LEMMA MissingStep ==
  ASSUME IInv, TypeOK', NEW h \in Handlers, handler[h].pc = "begin",
         NEW a \in {"ok", "missing", "unprocessable"}, Reply(h, a),
         UNCHANGED <<rows, moves, refusals, lock, clock>>
  PROVE  IInv'
<1>1. handler[h].id = 0 BY DEF IInv, HandlerOK
<1>2. PICK i \in Nat : i = handler[h].id BY <1>1
<1>3. Recorded(a, i) /\ a \in Answers
  BY <1>1, <1>2 DEF Recorded, Answers
<1>4. handler' = [handler EXCEPT ![h] = [pc |-> "answered", ans |-> a, id |-> i]]
  BY <1>2 DEF Reply
<1>5. UNCHANGED <<rows, moves, refusals, lock, clock>> OBVIOUS
<1> HIDE DEF Recorded
<1>q. QED BY <1>3, <1>4, <1>5, ReplyStep

LEMMA LockRowStep ==
  ASSUME IInv, NEW h \in Handlers, LockRow(h)
  PROVE  IInv'
<1>1. TypeOK /\ TypeOK' BY LockRowTypes DEF IInv
<1>2. /\ Busy(h) /\ handler[h].pc = "begin" /\ handler[h].req.kind = "move"
      /\ UNCHANGED <<rows, moves, refusals, clock, begun>>
  BY DEF LockRow, At, Busy
<1>3. CASE Reply(h, "missing") /\ UNCHANGED lock
  BY <1>1, <1>2, <1>3, MissingStep
<1>4. CASE /\ Exists(h) /\ Unlocked(h)
           /\ lock' = [lock EXCEPT ![handler[h].req.msg] = {h}]
           /\ handler' = [handler EXCEPT
               ![h] = [@ EXCEPT !.pc = "locked", !.from = Read(h).status]]
  <2>1. /\ handler[h] \in Working /\ handler[h].req \in Moves
        /\ handler[h].req.msg \in Messages /\ handler[h].id = 0
    BY <1>1, <1>2, BusyIsWorking, KindOfRequest DEF IInv, HandlerOK
  <2>2. /\ handler'[h].pc = "locked" /\ handler'[h].req = handler[h].req
        /\ handler'[h].from = Read(h).status /\ handler'[h].id = 0
    BY <1>1, <1>4, <2>1 DEF TypeOK, Working
  <2>3. lock'[handler[h].req.msg] = {h}
    BY <1>1, <1>4, <2>1 DEF TypeOK
  <2>4. HandlerOK(h)'
    BY <1>2, <1>4, <2>1, <2>2, <2>3 DEF HandlerOK, Holds, Exists, Read
  <2>5. \A g \in Handlers \ {h} : handler'[g] = handler[g]
    BY <1>1, <1>4 DEF TypeOK
  <2>6. \A m \in Messages : \A g \in Handlers \ {h} :
          lock[m] = {g} => lock'[m] = {g}
    BY <1>1, <1>4 DEF TypeOK, Unlocked
  <2>7. clock' >= clock BY <1>1, <1>2 DEF TypeOK
  <2>q. QED BY <1>1, <1>2, <2>4, <2>5, <2>6, <2>7, QuietStep
<1>q. QED BY <1>3, <1>4 DEF LockRow

\* An id handed out now is the latest on record.
LEMMA FreshIsLatest ==
  ASSUME IInv, NEW m \in Messages
  PROVE  /\ \A k \in DOMAIN moves[m] : moves[m][k].id < clock
         /\ \A d \in refusals : d.id < clock
<1>1. moves[m] \in Seq(Move) BY DEF IInv, TypeOK
<1>2. DOMAIN moves[m] = 1..Len(moves[m]) BY <1>1, LenProperties
<1>q. QED BY <1>2 DEF IInv, ChainOK, RefusalOK

\* One handler's entry is replaced.
LEMMA HandlerSet ==
  ASSUME TypeOK, NEW h \in Handlers, NEW v, handler' = [handler EXCEPT ![h] = v]
  PROVE  /\ handler'[h] = v
         /\ \A g \in Handlers \ {h} : handler'[g] = handler[g]
BY DEF TypeOK

\* What Goto and InsertAudit leave of a handler.
LEMMA GotoSets ==
  ASSUME TypeOK, NEW h \in Handlers, Busy(h), NEW p \in Pcs, Goto(h, p)
  PROVE  /\ handler'[h].pc = p
         /\ handler'[h].req = handler[h].req
         /\ handler'[h].id = handler[h].id
         /\ handler'[h].from = handler[h].from
         /\ \A g \in Handlers \ {h} : handler'[g] = handler[g]
<1>1. PICK u \in Working : u = handler[h] BY BusyIsWorking
<1>2. PICK v : v = [u EXCEPT !.pc = p] OBVIOUS
<1>3. handler' = [handler EXCEPT ![h] = v] BY <1>1, <1>2 DEF Goto
<1>4. v.pc = p /\ v.req = u.req /\ v.id = u.id /\ v.from = u.from
  BY <1>2, SetPc
<1>q. QED BY <1>1, <1>3, <1>4, HandlerSet

LEMMA InsertAuditSets ==
  ASSUME TypeOK, NEW h \in Handlers, Busy(h), NEW p \in Pcs, InsertAudit(h, p)
  PROVE  /\ handler'[h].pc = p
         /\ handler'[h].req = handler[h].req
         /\ handler'[h].id = clock
         /\ handler'[h].from = handler[h].from
         /\ \A g \in Handlers \ {h} : handler'[g] = handler[g]
<1>1. PICK u \in Working : u = handler[h] BY BusyIsWorking
<1>2. PICK c \in Nat : c = clock BY DEF TypeOK
<1>3. PICK v : v = [u EXCEPT !.pc = p, !.id = c] OBVIOUS
<1>4. handler' = [handler EXCEPT ![h] = v] BY <1>1, <1>2, <1>3 DEF InsertAudit
<1>5. v.pc = p /\ v.req = u.req /\ v.id = c /\ v.from = u.from
  BY <1>3 DEF Working
<1>q. QED BY <1>1, <1>2, <1>4, <1>5, HandlerSet

LEMMA InsertAuditMoveStep ==
  ASSUME IInv, NEW h \in Handlers, handler[h].pc \in {"locked", "updated"},
         InsertAudit(h, "written")
  PROVE  IInv'
<1>1. TypeOK /\ Busy(h) BY DEF IInv, Busy
<1>2. TypeOK'
  <2>1. "written" \in Pcs BY DEF Pcs
  <2>q. QED BY <1>1, <2>1, InsertAuditTypes
<1>3. /\ handler[h] \in Working /\ clock \in Nat
      /\ Holds(h) /\ handler[h].req.msg \in Messages
  BY <1>1, BusyIsWorking DEF IInv, HandlerOK, TypeOK
<1>4. /\ handler'[h].pc = "written" /\ handler'[h].req = handler[h].req
      /\ handler'[h].from = handler[h].from /\ handler'[h].id = clock
      /\ \A g \in Handlers \ {h} : handler'[g] = handler[g]
      /\ UNCHANGED <<rows, moves, refusals, lock>>
      /\ clock' = clock + 1
  <2>1. "written" \in Pcs BY DEF Pcs
  <2>2. UNCHANGED <<rows, moves, refusals, lock>> /\ clock' = clock + 1
    BY DEF InsertAudit
  <2>q. QED BY <1>1, <2>1, <2>2, InsertAuditSets
<1>5. Holds(h)' BY <1>3, <1>4 DEF Holds
<1>6. IsLatest(handler[h].req.msg, handler[h].id)'
  <2>1. PICK m \in Messages : m = handler[h].req.msg BY <1>3
  <2>2. /\ \A k \in DOMAIN moves[m] : moves[m][k].id < clock
        /\ \A d \in refusals : d.id < clock
    BY FreshIsLatest
  <2>q. QED BY <1>3, <1>4, <2>1, <2>2 DEF IsLatest
<1>7. HandlerOK(h)' BY <1>4, <1>5, <1>6 DEF HandlerOK
<1>8. clock' >= clock BY <1>3, <1>4
<1>q. QED BY <1>2, <1>4, <1>7, <1>8, QuietStep

LEMMA RollbackStep ==
  ASSUME IInv, NEW h \in Handlers, NEW a \in {"unprocessable", "error"},
         Rollback(h, a)
  PROVE  IInv'
<1>1. a \in Answers /\ 0 \in Nat BY DEF Answers
<1>2. TypeOK' BY <1>1, RollbackTypes DEF IInv
<1>3. Recorded(a, 0) BY DEF Recorded
<1>4. /\ handler' = [handler EXCEPT ![h] = [pc |-> "answered", ans |-> a, id |-> 0]]
      /\ UNCHANGED <<rows, moves, refusals, clock>>
      /\ lock' = [m \in Messages |-> lock[m] \ {h}]
  BY DEF Rollback, Release
<1>5. \A m \in Messages : \A g \in Handlers \ {h} :
        lock[m] = {g} => lock'[m] = {g}
  BY <1>4
<1>q. QED BY <1>1, <1>2, <1>3, <1>4, <1>5, ReplyStep

LEMMA UpdateRowStep ==
  ASSUME IInv, NEW h \in Handlers, UpdateRow(h)
  PROVE  IInv'
<1>1. /\ TypeOK /\ TypeOK' /\ Busy(h) /\ handler[h].pc = "locked"
      /\ UNCHANGED <<rows, moves, refusals, lock, clock>> /\ Allowed(h)
  BY UpdateRowTypes DEF IInv, UpdateRow, At, Busy
<1>2. /\ handler'[h].pc = "updated"
      /\ handler'[h].req = handler[h].req
      /\ handler'[h].id = handler[h].id
      /\ handler'[h].from = handler[h].from
      /\ \A g \in Handlers \ {h} : handler'[g] = handler[g]
  <2>1. "updated" \in Pcs /\ Goto(h, "updated") BY DEF Pcs, UpdateRow
  <2>q. QED BY <1>1, <2>1, GotoSets
<1>3. Holds(h) /\ handler[h].id = 0 BY <1>1 DEF IInv, HandlerOK
<1>4. Holds(h)' BY <1>1, <1>2, <1>3 DEF Holds
<1>5. Allowed(h)' BY <1>1, <1>2 DEF Allowed
<1>6. HandlerOK(h)' BY <1>2, <1>3, <1>4, <1>5 DEF HandlerOK
<1>7. clock' >= clock BY <1>1 DEF TypeOK
<1>q. QED BY <1>1, <1>2, <1>6, <1>7, QuietStep

LEMMA ReadStatusStep ==
  ASSUME IInv, NEW h \in Handlers, ReadStatus(h)
  PROVE  IInv'
<1>1. /\ TypeOK /\ TypeOK' /\ Busy(h) /\ handler[h].pc = "begin"
      /\ handler[h].req.kind = "denied"
      /\ UNCHANGED <<rows, moves, refusals, lock, clock>>
  BY ReadStatusTypes DEF IInv, ReadStatus, At, Busy
<1>2. CASE Reply(h, "missing")
  BY <1>1, <1>2, MissingStep
<1>3. CASE /\ Exists(h)
           /\ handler' = [handler EXCEPT
               ![h] = [@ EXCEPT !.pc = "read", !.from = Read(h).status]]
  <2>1. /\ handler[h] \in Working /\ handler[h].req \in Denials
        /\ handler[h].id = 0
    BY <1>1, BusyIsWorking, KindOfRequest DEF IInv, HandlerOK
  <2>2. /\ handler'[h].pc = "read" /\ handler'[h].req = handler[h].req
        /\ handler'[h].id = 0
    BY <1>1, <1>3, <2>1 DEF TypeOK, Working
  <2>3. HandlerOK(h)' BY <2>1, <2>2 DEF HandlerOK
  <2>4. \A g \in Handlers \ {h} : handler'[g] = handler[g]
    BY <1>1, <1>3 DEF TypeOK
  <2>5. clock' >= clock BY <1>1 DEF TypeOK
  <2>q. QED BY <1>1, <2>3, <2>4, <2>5, QuietStep
<1>q. QED BY <1>2, <1>3 DEF ReadStatus

LEMMA InsertDeniedStep ==
  ASSUME IInv, NEW h \in Handlers, InsertDenied(h)
  PROVE  IInv'
<1>1. /\ TypeOK /\ Busy(h) /\ handler[h].pc = "read" /\ "inserted" \in Pcs
      /\ InsertAudit(h, "inserted")
  BY DEF IInv, InsertDenied, At, Busy, Pcs
<1>2. TypeOK' BY <1>1, HoldsNothing, InsertAuditTypes
<1>3. /\ handler'[h].pc = "inserted" /\ handler'[h].req = handler[h].req
      /\ handler'[h].id = clock
      /\ \A g \in Handlers \ {h} : handler'[g] = handler[g]
  BY <1>1, InsertAuditSets
<1>4. /\ UNCHANGED <<rows, moves, refusals, lock>>
      /\ clock \in Nat /\ clock' = clock + 1
  BY <1>1 DEF InsertAudit, TypeOK
<1>5. handler[h].req \in Denials BY <1>1 DEF IInv, HandlerOK
<1>6. HandlerOK(h)' BY <1>3, <1>4, <1>5 DEF HandlerOK
<1>7. clock' >= clock BY <1>4
<1>q. QED BY <1>2, <1>3, <1>4, <1>6, <1>7, QuietStep

LEMMA AnswerStep ==
  ASSUME IInv, NEW h \in Handlers, Answer(h)
  PROVE  IInv'
<1>1. /\ TypeOK /\ Busy(h) /\ handler[h].pc = "committed"
      /\ UNCHANGED <<rows, moves, refusals, lock, clock, begun>>
      /\ Reply(h, Outcome(h))
  BY DEF IInv, Answer, Busy
<1>2. handler[h].req \in Moves \cup Denials /\ Recorded(Outcome(h), handler[h].id)
  BY <1>1 DEF IInv, HandlerOK
<1>3. Outcome(h) \in Answers
  BY <1>2 DEF Outcome, Answers, Moves, Denials
<1>4. PICK a \in Answers : a = Outcome(h) BY <1>3
<1>5. PICK i \in Nat : i = handler[h].id BY <1>1, BusyIsWorking
<1>6. Recorded(a, i) BY <1>2, <1>4, <1>5
<1>7. handler' = [handler EXCEPT ![h] = [pc |-> "answered", ans |-> a, id |-> i]]
  BY <1>1, <1>4, <1>5 DEF Reply
<1>8. TypeOK'
  <2>1. Reply(h, a) BY <1>1, <1>4
  <2>2. \A m \in Messages : h \notin lock[m] BY <1>1, HoldsNothing
  <2>q. QED BY <1>1, <2>1, <2>2, ReplyTypes
<1>q. QED BY <1>1, <1>6, <1>7, <1>8, ReplyStep

LEMMA CrashStep == IInv /\ Crash => IInv'
<1> SUFFICES ASSUME IInv, Crash PROVE IInv' OBVIOUS
<1>1. TypeOK /\ TypeOK' BY CrashTypes DEF IInv
<1>2. /\ UNCHANGED <<rows, moves, refusals, clock>>
      /\ \A h \in Handlers : handler'[h] = Idle
  BY DEF Crash
<1>3. ASSUME NEW h \in Handlers PROVE HandlerOK(h)'
  BY <1>2 DEF HandlerOK, Idle
<1>4. clock' >= clock /\ clock' \in Nat BY <1>1, <1>2 DEF TypeOK
<1>5. ASSUME NEW m \in Messages PROVE ChainOK(m)'
  BY <1>1, <1>2, <1>4, ChainKept DEF IInv
<1>6. ASSUME NEW d \in refusals' PROVE RefusalOK(d)'
  BY <1>1, <1>2, <1>4, RefusalKept DEF IInv
<1>q. QED BY <1>1, <1>3, <1>5, <1>6 DEF IInv

\* A step that posts suggestions or counts votes leaves every decision alone.
LEMMA RowStep ==
  ASSUME IInv, TypeOK', NEW h \in Handlers, HandlerOK(h)',
         \A g \in Handlers \ {h} : handler'[g] = handler[g],
         UNCHANGED <<moves, refusals, lock, clock>>,
         \A m \in DOMAIN rows :
           /\ m \in DOMAIN rows'
           /\ rows'[m].status = rows[m].status
           /\ rows'[m].assignee = rows[m].assignee,
         \A m \in DOMAIN rows' \ DOMAIN rows :
           rows'[m].status = "enviada" /\ rows'[m].assignee = Nobody
  PROVE  IInv'
<1>1. TypeOK /\ clock' \in Nat /\ clock' >= clock
      /\ DOMAIN rows \subseteq DOMAIN rows' /\ DOMAIN rows \subseteq Messages
  BY DEF IInv, TypeOK
<1>2. ASSUME NEW g \in Handlers PROVE HandlerOK(g)'
  <2>1. CASE g = h BY <2>1
  <2>2. CASE g # h
    <3>1. HandlerOK(g) /\ handler'[g] = handler[g] BY <2>2 DEF IInv
    <3>2. \A m \in DOMAIN rows : lock[m] = {g} =>
           /\ lock'[m] = {g}
           /\ moves'[m] = moves[m]
           /\ rows'[m].status = rows[m].status
           /\ \A d \in refusals' \ refusals :
                d.msg = m => d.action # "transition_denied"
      OBVIOUS
    <3>3. /\ refusals \subseteq refusals'
          /\ \A m \in Messages : \A k \in DOMAIN moves[m] :
               k \in DOMAIN moves'[m] /\ moves'[m][k].id = moves[m][k].id
      OBVIOUS
    <3>q. QED BY <1>1, <3>1, <3>2, <3>3, OthersKeep
  <2>q. QED BY <2>1, <2>2
<1>3. ASSUME NEW m \in Messages PROVE ChainOK(m)'
  <2>0. ChainOK(m) BY DEF IInv
  <2>1. CASE m \in DOMAIN rows <=> m \in DOMAIN rows'
    BY <1>1, <2>0, <2>1, ChainKept
  <2>2. CASE m \in DOMAIN rows' \ DOMAIN rows
    <3>1. moves'[m] = <<>> /\ Len(moves'[m]) = 0 BY <2>0, <2>2 DEF ChainOK
    <3>q. QED BY <2>2, <3>1 DEF ChainOK, StatusAfter, Approver
  <2>q. QED BY <1>1, <2>1, <2>2
<1>4. ASSUME NEW d \in refusals' PROVE RefusalOK(d)'
  BY <1>1, RefusalKept DEF IInv
<1>q. QED BY <1>2, <1>3, <1>4 DEF IInv

LEMMA CreateInsertStep ==
  ASSUME IInv, NEW h \in Handlers, CreateInsert(h)
  PROVE  IInv'
<1>1. /\ TypeOK /\ TypeOK' /\ Busy(h) /\ handler[h].pc = "begin"
      /\ handler[h].req.kind = "create" /\ handler[h].id = 0
      /\ UNCHANGED <<moves, refusals, lock, clock>>
  BY CreateInsertTypes DEF IInv, CreateInsert, At, Busy, HandlerOK
<1>2. CASE Reply(h, "unprocessable") /\ UNCHANGED rows
  BY <1>1, <1>2, MissingStep
<1>3. CASE Goto(h, "readback") /\ UNCHANGED rows
  <2>1. "readback" \in Pcs BY DEF Pcs
  <2>2. /\ handler'[h].pc = "readback" /\ handler'[h].id = 0
        /\ \A g \in Handlers \ {h} : handler'[g] = handler[g]
    BY <1>1, <1>3, <2>1, GotoSets
  <2>3. HandlerOK(h)' BY <2>2 DEF HandlerOK
  <2>4. clock' >= clock BY <1>1 DEF TypeOK
  <2>q. QED BY <1>1, <1>3, <2>2, <2>3, <2>4, QuietStep
<1>4. CASE /\ ~Exists(h) /\ Reply(h, "ok")
           /\ rows' = [m \in DOMAIN rows \cup {handler[h].req.msg} |->
                         IF m = handler[h].req.msg THEN Fresh(handler[h].req.text)
                         ELSE rows[m]]
  <2>1. /\ handler'[h] = [pc |-> "answered", ans |-> "ok", id |-> handler[h].id]
        /\ \A g \in Handlers \ {h} : handler'[g] = handler[g]
    BY <1>1, <1>4, HandlerSet DEF Reply
  <2>2. HandlerOK(h)' BY <2>1 DEF HandlerOK, Recorded
  <2>3. \A m \in DOMAIN rows : m \in DOMAIN rows' /\ rows'[m] = rows[m]
    BY <1>4 DEF Exists
  <2>4. \A m \in DOMAIN rows' \ DOMAIN rows :
          rows'[m].status = "enviada" /\ rows'[m].assignee = Nobody
    BY <1>4 DEF Fresh
  <2>q. QED BY <1>1, <2>1, <2>2, <2>3, <2>4, RowStep
<1>q. QED BY <1>2, <1>3, <1>4 DEF CreateInsert

LEMMA SetVotesStep ==
  ASSUME IInv, NEW h \in Handlers, SetVotes(h)
  PROVE  IInv'
<1>1. /\ TypeOK /\ TypeOK' /\ Busy(h) /\ handler[h].pc = "begin"
      /\ UNCHANGED <<moves, refusals, lock, clock>>
  BY SetVotesTypes DEF IInv, SetVotes, At, Busy
<1>2. CASE Reply(h, "missing") /\ UNCHANGED rows
  BY <1>1, <1>2, MissingStep
<1>3. CASE /\ Exists(h) /\ Reply(h, "ok")
           /\ rows' = [rows EXCEPT ![handler[h].req.msg].votes = handler[h].req.votes]
  <2>1. /\ handler'[h] = [pc |-> "answered", ans |-> "ok", id |-> handler[h].id]
        /\ \A g \in Handlers \ {h} : handler'[g] = handler[g]
    BY <1>1, <1>3, HandlerSet DEF Reply
  <2>2. HandlerOK(h)' BY <2>1 DEF HandlerOK, Recorded
  <2>3. \A m \in DOMAIN rows :
          /\ m \in DOMAIN rows'
          /\ rows'[m].status = rows[m].status
          /\ rows'[m].assignee = rows[m].assignee
    BY <1>1, <1>3 DEF TypeOK, Row
  <2>4. DOMAIN rows' = DOMAIN rows BY <1>3
  <2>q. QED BY <1>1, <2>1, <2>2, <2>3, <2>4, RowStep
<1>q. QED BY <1>2, <1>3 DEF SetVotes

LEMMA CommitDeniedStep ==
  ASSUME IInv, NEW h \in Handlers, CommitDenied(h)
  PROVE  IInv'
<1>1. /\ TypeOK /\ TypeOK' /\ Busy(h) /\ handler[h].pc = "inserted"
      /\ UNCHANGED <<rows, moves, lock, clock>> /\ Goto(h, "committed")
  BY CommitDeniedTypes DEF IInv, CommitDenied, At, Busy
<1>2. /\ handler[h].req \in Denials /\ handler[h].id < clock
  BY <1>1 DEF IInv, HandlerOK
<1>3. /\ handler'[h].pc = "committed" /\ handler'[h].req = handler[h].req
      /\ handler'[h].id = handler[h].id
      /\ \A g \in Handlers \ {h} : handler'[g] = handler[g]
  <2>1. "committed" \in Pcs BY DEF Pcs
  <2>q. QED BY <1>1, <2>1, GotoSets
<1>4. PICK r : /\ refusals' = refusals \cup {r}
               /\ r.action = "auth_denied" /\ r.id = handler[h].id
  <2> DEFINE r == [msg |-> handler[h].req.msg, action |-> "auth_denied",
                   id |-> handler[h].id, from |-> handler[h].from, to |-> "none",
                   actor |-> handler[h].req.actor]
  <2>1. refusals' = refusals \cup {r} BY DEF CommitDenied
  <2>2. r.action = "auth_denied" /\ r.id = handler[h].id OBVIOUS
  <2> HIDE DEF r
  <2>q. QED BY <2>1, <2>2
<1>5. HandlerOK(h)'
  <2>1. Outcome(h)' = "noted" BY <1>2, <1>3 DEF Outcome, Denials
  <2>2. r \in refusals' /\ r.id = handler[h].id /\ r.action = "auth_denied"
    BY <1>4
  <2>3. PICK a, i : a = "noted" /\ i = handler[h].id OBVIOUS
  <2>4. Recorded(a, i)'
    <3>1. a = "noted" /\ \E d \in refusals' : d.id = i /\ d.action = "auth_denied"
      BY <2>2, <2>3
    <3>q. QED BY <3>1 DEF Recorded
  <2>5. Recorded(Outcome(h), handler[h].id)'
    BY <1>3, <2>1, <2>3, <2>4 DEF Recorded
  <2>q. QED BY <1>2, <1>3, <2>5 DEF HandlerOK
<1>6. clock' \in Nat /\ clock' >= clock BY <1>1 DEF TypeOK
<1>7. ASSUME NEW g \in Handlers PROVE HandlerOK(g)'
  <2>1. CASE g = h BY <1>5, <2>1
  <2>2. CASE g # h
    <3>1. HandlerOK(g) /\ handler'[g] = handler[g] BY <1>3, <2>2 DEF IInv
    <3>2. \A m \in DOMAIN rows : lock[m] = {g} =>
           /\ lock'[m] = {g}
           /\ moves'[m] = moves[m]
           /\ rows'[m].status = rows[m].status
           /\ \A d \in refusals' \ refusals :
                d.msg = m => d.action # "transition_denied"
      BY <1>1, <1>4
    <3>3. /\ refusals \subseteq refusals' /\ DOMAIN rows \subseteq DOMAIN rows'
          /\ \A m \in Messages : \A k \in DOMAIN moves[m] :
               k \in DOMAIN moves'[m] /\ moves'[m][k].id = moves[m][k].id
      BY <1>1, <1>4
    <3>q. QED BY <1>1, <1>6, <3>1, <3>2, <3>3, OthersKeep
  <2>q. QED BY <2>1, <2>2
<1>8. ASSUME NEW m \in Messages PROVE ChainOK(m)'
  BY <1>1, <1>6, ChainKept DEF IInv
<1>9. ASSUME NEW d \in refusals' PROVE RefusalOK(d)'
  <2>1. CASE d \in refusals
    BY <1>1, <1>6, <2>1, RefusalKept DEF IInv
  <2>2. CASE d = r
    BY <1>1, <1>2, <1>4, <2>2 DEF RefusalOK
  <2>q. QED BY <1>4, <2>1, <2>2
<1>q. QED BY <1>1, <1>7, <1>8, <1>9 DEF IInv

\* Approval happens at most once: only enviada leads to it, and nothing leads
\* back to enviada.
LEMMA ApprovedOnce ==
  ASSUME NEW s \in Statuses, NEW t \in AllowedTransitions[s]
  PROVE  t # "enviada" /\ (s # "enviada" => t # "aprovada")
BY DEF Statuses, AllowedTransitions

\* What the COMMIT of a move or of its refusal starts from.
LEMMA CommitMoveFacts ==
  ASSUME IInv, NEW h \in Handlers, CommitMove(h)
  PROVE  /\ TypeOK /\ TypeOK' /\ Busy(h) /\ handler[h] \in Working
         /\ Holds(h) /\ handler[h].req.msg \in Messages
         /\ IsLatest(handler[h].req.msg, handler[h].id)
         /\ clock' = clock /\ clock \in Nat
         /\ lock' = [m \in Messages |-> lock[m] \ {h}]
         /\ handler'[h].pc = "committed" /\ handler'[h].req = handler[h].req
         /\ handler'[h].id = handler[h].id /\ handler'[h].from = handler[h].from
         /\ \A g \in Handlers \ {h} : handler'[g] = handler[g]
<1>1. /\ TypeOK /\ Busy(h) /\ handler[h].pc = "written" /\ HandlerOK(h)
      /\ clock' = clock /\ lock' = [m \in Messages |-> lock[m] \ {h}]
  BY DEF IInv, CommitMove, At, Busy, Release
<1>2. Holds(h) /\ IsLatest(handler[h].req.msg, handler[h].id)
  BY <1>1 DEF HandlerOK
<1>3. TypeOK' BY <1>1, <1>2, CommitMoveTypes
<1>4. handler[h] \in Working /\ handler[h].req.msg \in Messages /\ clock \in Nat
  BY <1>1, BusyIsWorking DEF TypeOK
<1>5. /\ handler'[h].pc = "committed" /\ handler'[h].req = handler[h].req
      /\ handler'[h].id = handler[h].id /\ handler'[h].from = handler[h].from
      /\ \A g \in Handlers \ {h} : handler'[g] = handler[g]
  <2>1. "committed" \in Pcs /\ Goto(h, "committed") BY DEF Pcs, CommitMove
  <2>q. QED BY <1>1, <2>1, GotoSets
<1>q. QED BY <1>1, <1>2, <1>3, <1>4, <1>5

\* The trail of a suggestion that takes an allowed move still explains its row.
LEMMA TrailGrows ==
  ASSUME IInv, NEW h \in Handlers, CommitMove(h), Allowed(h),
         NEW m \in Messages, m = handler[h].req.msg
  PROVE  ChainOK(m)'
<1> DEFINE q == handler[h].req
           e == [id |-> handler[h].id, at |-> handler[h].at,
                 from |-> handler[h].from, to |-> q.to, actor |-> q.actor]
<1>1. /\ TypeOK /\ Holds(h) /\ IsLatest(m, handler[h].id) /\ clock' = clock
      /\ ChainOK(m) /\ handler[h] \in Working
  BY CommitMoveFacts DEF IInv
<1>2. PICK s \in Seq(Move) : s = moves[m] BY <1>1 DEF TypeOK
<1>3. PICK n \in Nat : n = Len(s) BY <1>2, LenProperties
<1>4. PICK f \in Move : f = e
  BY <1>1 DEF Holds, Move, Moves, Working
<1>5. /\ f.id = handler[h].id /\ f.from = rows[m].status /\ f.to = q.to
      /\ f.actor = q.actor /\ f.to \in AllowedTransitions[f.from]
      /\ f.from \in Statuses
  <2>1. f.from = handler[h].from /\ f.to = q.to BY <1>4
  <2>2. handler[h].from = rows[m].status /\ handler[h].from \in Statuses
    BY <1>1 DEF Holds, Working
  <2>3. q.to \in AllowedTransitions[handler[h].from]
    BY DEF Allowed, CanTransition
  <2>q. QED BY <1>4, <2>1, <2>2, <2>3
<1>6. /\ moves' = [moves EXCEPT ![m] = Append(@, e)]
      /\ rows' = [rows EXCEPT ![m] = Moved(@, q)]
      /\ m \in DOMAIN rows
  BY <1>1 DEF CommitMove, Holds
<1>7. /\ moves'[m] = Append(s, f) /\ m \in DOMAIN rows'
      /\ rows'[m] = Moved(rows[m], q)
  BY <1>1, <1>2, <1>4, <1>6 DEF TypeOK
<1>8. /\ Len(Append(s, f)) = n + 1
      /\ \A i \in 1..n : Append(s, f)[i] = s[i]
      /\ Append(s, f)[n + 1] = f
  <2>1. s \in Seq(Move) /\ f \in Move /\ Len(s) = n BY <1>3
  <2>2. Len(Append(s, f)) = n + 1 BY <2>1, AppendProperties
  <2>3. \A i \in 1..n : Append(s, f)[i] = s[i] BY <2>1, AppendProperties
  <2>4. Append(s, f)[n + 1] = f BY <2>1, AppendProperties
  <2>q. QED BY <2>2, <2>3, <2>4
<1>9. rows'[m].status = f.to
      /\ rows'[m].assignee = IF f.to = "aprovada" THEN f.actor ELSE rows[m].assignee
  <2>1. rows[m] \in Row BY <1>1, <1>6 DEF TypeOK
  <2> HIDE DEF q, e
  <2>q. QED BY <1>5, <1>7, <2>1 DEF Moved, Row
<1> HIDE DEF q, e
<1>10. /\ f.from = IF n = 0 THEN "enviada" ELSE s[n].to
       /\ rows[m].assignee =
            IF n > 0 /\ s[1].to = "aprovada" THEN s[1].actor ELSE Nobody
       /\ \A i \in 1..n :
            /\ s[i].from = IF i - 1 = 0 THEN "enviada" ELSE s[i - 1].to
            /\ s[i].to \in AllowedTransitions[s[i].from]
            /\ s[i].id < clock
            /\ \A j \in 1..(i - 1) : s[j].id < s[i].id
  BY <1>1, <1>2, <1>3, <1>5, <1>6 DEF ChainOK, StatusAfter, Approver
<1>11. /\ f.id < clock'
       /\ \A i \in 1..n : s[i].id < f.id
  <2>1. DOMAIN s = 1..n BY <1>2, <1>3, LenProperties
  <2>q. QED BY <1>1, <1>2, <1>5, <2>1 DEF IsLatest
<1>12. n > 0 => f.to # "aprovada"
  <2> SUFFICES ASSUME n > 0 PROVE f.to # "aprovada" OBVIOUS
  <2>1. n \in 1..n BY <1>3
  <2>2. s[n] \in Move BY <1>2, <1>3, <2>1, ElementOfSeq
  <2>3. s[n].to \in AllowedTransitions[s[n].from] /\ s[n].from \in Statuses
    BY <1>10, <2>1, <2>2 DEF Move
  <2>4. f.from = s[n].to BY <1>10
  <2>q. QED BY <1>5, <2>3, <2>4, ApprovedOnce
<1>13. rows'[m].assignee = Approver(m)'
  <2>1. CASE n = 0
    BY <1>7, <1>8, <1>9, <1>10, <2>1 DEF Approver
  <2>2. CASE n > 0
    <3>1. 1 \in 1..n /\ n + 1 > 0 BY <1>3, <2>2
    <3>2. Append(s, f)[1] = s[1] BY <1>8, <3>1
    <3>q. QED BY <1>7, <1>8, <1>9, <1>10, <1>12, <2>2, <3>1, <3>2 DEF Approver
  <2>q. QED BY <1>3, <2>1, <2>2
<1>14. rows'[m].status = StatusAfter(m, Len(moves[m]))'
  <2>1. n + 1 # 0 BY <1>3
  <2>q. QED BY <1>7, <1>8, <1>9, <2>1 DEF StatusAfter
<1>15. ASSUME NEW i \in 1..(n + 1)
       PROVE  /\ moves'[m][i].from = StatusAfter(m, i - 1)'
              /\ moves'[m][i].to \in AllowedTransitions[moves'[m][i].from]
              /\ moves'[m][i].id < clock'
              /\ \A j \in 1..(i - 1) : moves'[m][j].id < moves'[m][i].id
  <2>1. CASE i \in 1..n
    <3>1. Append(s, f)[i] = s[i] /\ \A j \in 1..(i - 1) : Append(s, f)[j] = s[j]
      BY <1>3, <1>8, <2>1
    <3>2. i - 1 # 0 => i - 1 \in 1..(i - 1) BY <1>3, <2>1
    <3>3. moves'[m][i].from = StatusAfter(m, i - 1)'
      BY <1>7, <1>10, <2>1, <3>1, <3>2 DEF StatusAfter
    <3>q. QED BY <1>1, <1>7, <1>10, <2>1, <3>1, <3>3
  <2>2. CASE i = n + 1
    <3>1. i - 1 = n /\ 1..(i - 1) = 1..n /\ (n # 0 => n \in 1..n) BY <1>3, <2>2
    <3>2. moves'[m][i] = f BY <1>7, <1>8, <2>2
    <3>3. moves'[m][i].from = StatusAfter(m, i - 1)'
      BY <1>7, <1>8, <1>10, <3>1, <3>2 DEF StatusAfter
    <3>4. \A j \in 1..(i - 1) : moves'[m][j].id < moves'[m][i].id
      BY <1>7, <1>8, <1>11, <3>1, <3>2
    <3>q. QED BY <1>5, <1>11, <3>2, <3>3, <3>4
  <2>q. QED BY <1>3, <2>1, <2>2
<1>16. Len(moves'[m]) = n + 1 BY <1>7, <1>8
<1>q. QED BY <1>7, <1>13, <1>14, <1>15, <1>16 DEF ChainOK

\* A refusal on record before a move is accepted stays truthful: the new entry
\* comes after it.
LEMMA RefusalBeforeMove ==
  ASSUME IInv, NEW h \in Handlers, CommitMove(h), Allowed(h),
         NEW d \in refusals, d.msg = handler[h].req.msg
  PROVE  RefusalOK(d)'
<1>1. /\ TypeOK /\ IsLatest(handler[h].req.msg, handler[h].id) /\ clock' = clock
      /\ RefusalOK(d) /\ handler[h].id \in Nat /\ handler[h].req.msg \in Messages
  BY CommitMoveFacts DEF IInv, Working
<1>2. PICK m \in Messages : m = d.msg /\ m = handler[h].req.msg BY <1>1
<1>3. PICK s \in Seq(Move) : s = moves[m] BY <1>1, <1>2 DEF TypeOK
<1>4. PICK n \in Nat : n = Len(s) BY <1>3, LenProperties
<1>5. PICK f \in Move : /\ f.id = handler[h].id
                        /\ moves' = [moves EXCEPT ![m] = Append(s, f)]
  <2> DEFINE e == [id |-> handler[h].id, at |-> handler[h].at,
                   from |-> handler[h].from, to |-> handler[h].req.to,
                   actor |-> handler[h].req.actor]
  <2>1. e \in Move BY CommitMoveFacts DEF Holds, Move, Moves, Working
  <2>2. moves' = [moves EXCEPT ![handler[h].req.msg] = Append(@, e)]
    BY DEF CommitMove
  <2>3. e.id = handler[h].id OBVIOUS
  <2> HIDE DEF e
  <2>4. moves' = [moves EXCEPT ![m] = Append(s, e)] BY <1>2, <1>3, <2>2
  <2>q. QED BY <2>1, <2>3, <2>4
<1>6. moves'[m] = Append(s, f) BY <1>1, <1>5 DEF TypeOK
<1>7. /\ Len(Append(s, f)) = n + 1
      /\ \A i \in 1..n : Append(s, f)[i] = s[i]
      /\ Append(s, f)[n + 1] = f
  <2>1. s \in Seq(Move) /\ f \in Move /\ Len(s) = n BY <1>4
  <2>2. Len(Append(s, f)) = n + 1 BY <2>1, AppendProperties
  <2>3. \A i \in 1..n : Append(s, f)[i] = s[i] BY <2>1, AppendProperties
  <2>4. Append(s, f)[n + 1] = f BY <2>1, AppendProperties
  <2>q. QED BY <2>2, <2>3, <2>4
<1>8. d.id < clock' BY <1>1 DEF RefusalOK
<1>9. ASSUME d.action = "transition_denied"
      PROVE  /\ d.to \notin AllowedTransitions[d.from]
             /\ \E k \in 0..Len(moves'[d.msg]) :
                  /\ d.from = StatusAfter(d.msg, k)'
                  /\ \A i \in 1..Len(moves'[d.msg]) :
                       moves'[d.msg][i].id < d.id <=> i <= k
  <2>1. PICK k \in 0..n :
          /\ d.from = IF k = 0 THEN "enviada" ELSE s[k].to
          /\ \A i \in 1..n : s[i].id < d.id <=> i <= k
    BY <1>1, <1>2, <1>3, <1>4, <1>9 DEF RefusalOK, StatusAfter
  <2>2. k \in 0..(n + 1) /\ (k # 0 => k \in 1..n) BY <1>4, <2>1
  <2>3. d.from = StatusAfter(d.msg, k)'
    BY <1>2, <1>6, <1>7, <2>1, <2>2 DEF StatusAfter
  <2>4. ~(f.id < d.id)
    <3>1. d.id < f.id BY <1>1, <1>2, <1>5, <1>9 DEF IsLatest
    <3>2. d.id \in Nat /\ f.id \in Nat BY <1>1 DEF TypeOK, Refusal, Move
    <3>q. QED BY <3>1, <3>2
  <2>5. ASSUME NEW i \in 1..(n + 1) PROVE Append(s, f)[i].id < d.id <=> i <= k
    <3>1. CASE i \in 1..n BY <1>7, <2>1, <3>1
    <3>2. CASE i = n + 1
      <4>1. ~(i <= k) BY <1>4, <2>1, <3>2
      <4>q. QED BY <1>7, <2>4, <3>2, <4>1
    <3>q. QED BY <1>4, <3>1, <3>2
  <2>6. d.to \notin AllowedTransitions[d.from] BY <1>1, <1>9 DEF RefusalOK
  <2>7. Len(moves'[d.msg]) = n + 1 /\ moves'[d.msg] = Append(s, f)
    BY <1>2, <1>6, <1>7
  <2>q. QED BY <2>2, <2>3, <2>5, <2>6, <2>7
<1>q. QED BY <1>8, <1>9 DEF RefusalOK

LEMMA AcceptStep ==
  ASSUME IInv, NEW h \in Handlers, CommitMove(h), Allowed(h)
  PROVE  IInv'
<1>1. PICK m \in Messages : m = handler[h].req.msg BY CommitMoveFacts
<1>2. /\ TypeOK /\ TypeOK' /\ Holds(h) /\ clock' = clock /\ clock \in Nat
      /\ lock' = [x \in Messages |-> lock[x] \ {h}]
      /\ handler'[h].pc = "committed" /\ handler'[h].req = handler[h].req
      /\ handler'[h].id = handler[h].id /\ handler'[h].from = handler[h].from
      /\ \A g \in Handlers \ {h} : handler'[g] = handler[g]
      /\ handler[h] \in Working
  BY CommitMoveFacts
<1>3. PICK f \in Move : /\ f.id = handler[h].id
                        /\ moves' = [moves EXCEPT ![m] = Append(@, f)]
  <2> DEFINE e == [id |-> handler[h].id, at |-> handler[h].at,
                   from |-> handler[h].from, to |-> handler[h].req.to,
                   actor |-> handler[h].req.actor]
  <2>1. e \in Move BY <1>2 DEF Holds, Move, Moves, Working
  <2>2. moves' = [moves EXCEPT ![m] = Append(@, e)] BY <1>1 DEF CommitMove
  <2>3. e.id = handler[h].id OBVIOUS
  <2> HIDE DEF e
  <2>q. QED BY <2>1, <2>2, <2>3
<1>4. /\ rows' = [rows EXCEPT ![m] = Moved(@, handler[h].req)]
      /\ refusals' = refusals
  BY <1>1 DEF CommitMove
<1>5. /\ DOMAIN rows' = DOMAIN rows /\ DOMAIN rows \subseteq Messages
      /\ \A x \in Messages \ {m} : moves'[x] = moves[x]
      /\ \A x \in DOMAIN rows \ {m} : rows'[x] = rows[x]
  BY <1>2, <1>3, <1>4 DEF TypeOK
<1>6. PICK n \in Nat : /\ n = Len(moves[m]) /\ DOMAIN moves[m] = 1..n
                       /\ DOMAIN moves'[m] = 1..(n + 1)
                       /\ \A i \in 1..n : moves'[m][i] = moves[m][i]
                       /\ moves'[m][n + 1] = f
  <2>1. PICK s \in Seq(Move) : s = moves[m] BY <1>2 DEF TypeOK
  <2>2. moves'[m] = Append(s, f) BY <1>2, <1>3, <2>1 DEF TypeOK
  <2>3. Append(s, f) \in Seq(Move) /\ Len(Append(s, f)) = Len(s) + 1
    BY AppendProperties
  <2>4. \A i \in 1..Len(s) : Append(s, f)[i] = s[i] BY AppendProperties
  <2>5. Append(s, f)[Len(s) + 1] = f BY AppendProperties
  <2>6. Len(s) \in Nat /\ DOMAIN s = 1..Len(s) BY LenProperties
  <2>7. DOMAIN Append(s, f) = 1..(Len(s) + 1) BY <2>3, LenProperties
  <2>q. QED BY <2>1, <2>2, <2>4, <2>5, <2>6, <2>7
<1>7. \A x \in Messages : \A k \in DOMAIN moves[x] :
        k \in DOMAIN moves'[x] /\ moves'[x][k].id = moves[x][k].id
  <2> SUFFICES ASSUME NEW x \in Messages, NEW k \in DOMAIN moves[x]
      PROVE k \in DOMAIN moves'[x] /\ moves'[x][k].id = moves[x][k].id
    OBVIOUS
  <2>1. CASE x = m BY <1>6, <2>1
  <2>2. CASE x # m BY <1>5, <2>2
  <2>q. QED BY <2>1, <2>2
<1>8. HandlerOK(h)'
  <2>1. Outcome(h)' = "moved"
    <3>1. Allowed(h)' BY <1>2 DEF Allowed
    <3>2. handler'[h].req.kind = "move" BY <1>2 DEF Holds, Moves
    <3>q. QED BY <3>1, <3>2 DEF Outcome
  <2>2. n + 1 \in DOMAIN moves'[m] /\ moves'[m][n + 1].id = handler[h].id
    BY <1>3, <1>6
  <2>3. PICK a, i : a = "moved" /\ i = handler[h].id OBVIOUS
  <2>4. Recorded(a, i)'
    <3>1. a = "moved" /\ \E x \in Messages : \E k \in DOMAIN moves'[x] :
            moves'[x][k].id = i
      BY <2>2, <2>3
    <3>q. QED BY <3>1 DEF Recorded
  <2>5. Recorded(Outcome(h), handler[h].id)'
    BY <1>2, <2>1, <2>3, <2>4 DEF Recorded
  <2>6. handler'[h].req \in Moves BY <1>2 DEF Holds
  <2>q. QED BY <1>2, <2>5, <2>6 DEF HandlerOK
<1>9. ASSUME NEW g \in Handlers PROVE HandlerOK(g)'
  <2>1. CASE g = h BY <1>8, <2>1
  <2>2. CASE g # h
    <3>1. HandlerOK(g) /\ handler'[g] = handler[g] BY <1>2, <2>2 DEF IInv
    <3>2. ASSUME NEW x \in DOMAIN rows, lock[x] = {g}
          PROVE  /\ lock'[x] = {g}
                 /\ moves'[x] = moves[x]
                 /\ rows'[x].status = rows[x].status
                 /\ \A d \in refusals' \ refusals :
                      d.msg = x => d.action # "transition_denied"
      <4>1. x # m BY <1>1, <1>2, <2>2, <3>2 DEF Holds
      <4>q. QED BY <1>2, <1>4, <1>5, <2>2, <3>2, <4>1
    <3>3. clock' \in Nat /\ clock' >= clock BY <1>2
    <3>q. QED BY <1>2, <1>4, <1>5, <1>7, <3>1, <3>2, <3>3, OthersKeep
  <2>q. QED BY <2>1, <2>2
<1>10. ASSUME NEW x \in Messages PROVE ChainOK(x)'
  <2>1. CASE x = m BY <1>1, <2>1, TrailGrows
  <2>2. CASE x # m
    <3>1. ChainOK(x) /\ clock' \in Nat /\ clock' >= clock BY <1>2 DEF IInv
    <3>q. QED BY <1>2, <1>5, <2>2, <3>1, ChainKept
  <2>q. QED BY <2>1, <2>2
<1>11. ASSUME NEW d \in refusals' PROVE RefusalOK(d)'
  <2>1. d \in refusals /\ d.msg \in Messages BY <1>2, <1>4 DEF TypeOK, Refusal
  <2>2. CASE d.msg = m BY <1>1, <2>1, <2>2, RefusalBeforeMove
  <2>3. CASE d.msg # m
    <3>1. RefusalOK(d) /\ clock' \in Nat /\ clock' >= clock
      BY <1>2, <2>1 DEF IInv
    <3>q. QED BY <1>2, <1>5, <2>1, <2>3, <3>1, RefusalKept
  <2>q. QED BY <2>2, <2>3
<1>q. QED BY <1>2, <1>9, <1>10, <1>11 DEF IInv

LEMMA RefusalStep ==
  ASSUME IInv, NEW h \in Handlers, CommitMove(h), ~Allowed(h)
  PROVE  IInv'
<1>1. PICK m \in Messages : m = handler[h].req.msg BY CommitMoveFacts
<1>2. /\ TypeOK /\ TypeOK' /\ Holds(h) /\ clock' = clock /\ clock \in Nat
      /\ IsLatest(m, handler[h].id)
      /\ lock' = [x \in Messages |-> lock[x] \ {h}]
      /\ handler'[h].pc = "committed" /\ handler'[h].req = handler[h].req
      /\ handler'[h].id = handler[h].id /\ handler'[h].from = handler[h].from
      /\ \A g \in Handlers \ {h} : handler'[g] = handler[g]
  BY <1>1, CommitMoveFacts
<1>3. PICK r : /\ refusals' = refusals \cup {r} /\ r.action = "transition_denied"
               /\ r.msg = m /\ r.id = handler[h].id /\ r.from = handler[h].from
               /\ r.to = handler[h].req.to
  <2> DEFINE r == [msg |-> handler[h].req.msg, action |-> "transition_denied",
                   id |-> handler[h].id, from |-> handler[h].from,
                   to |-> handler[h].req.to, actor |-> handler[h].req.actor]
  <2>1. refusals' = refusals \cup {r} BY DEF CommitMove
  <2>2. /\ r.action = "transition_denied" /\ r.msg = m /\ r.id = handler[h].id
        /\ r.from = handler[h].from /\ r.to = handler[h].req.to
    BY <1>1
  <2> HIDE DEF r
  <2>q. QED BY <2>1, <2>2
<1>4. UNCHANGED <<rows, moves>> BY DEF CommitMove
<1>5. HandlerOK(h)'
  <2>1. Outcome(h)' = "conflict"
    <3>1. ~Allowed(h)' BY <1>2 DEF Allowed
    <3>2. handler'[h].req.kind = "move" BY <1>2 DEF Holds, Moves
    <3>q. QED BY <3>1, <3>2 DEF Outcome
  <2>2. r \in refusals' /\ r.id = handler[h].id /\ r.action = "transition_denied"
    BY <1>3
  <2>3. PICK a, i : a = "conflict" /\ i = handler[h].id OBVIOUS
  <2>4. Recorded(a, i)'
    <3>1. a = "conflict" /\ \E d \in refusals' :
            d.id = i /\ d.action = "transition_denied"
      BY <2>2, <2>3
    <3>q. QED BY <3>1 DEF Recorded
  <2>5. Recorded(Outcome(h), handler[h].id)'
    BY <1>2, <2>1, <2>3, <2>4 DEF Recorded
  <2>6. handler'[h].req \in Moves BY <1>2 DEF Holds
  <2>q. QED BY <1>2, <2>5, <2>6 DEF HandlerOK
<1>6. clock' \in Nat /\ clock' >= clock BY <1>2
<1>7. ASSUME NEW g \in Handlers PROVE HandlerOK(g)'
  <2>1. CASE g = h BY <1>5, <2>1
  <2>2. CASE g # h
    <3>1. HandlerOK(g) /\ handler'[g] = handler[g] BY <1>2, <2>2 DEF IInv
    <3>2. ASSUME NEW x \in DOMAIN rows, lock[x] = {g}
          PROVE  /\ lock'[x] = {g}
                 /\ moves'[x] = moves[x]
                 /\ rows'[x].status = rows[x].status
                 /\ \A d \in refusals' \ refusals :
                      d.msg = x => d.action # "transition_denied"
      <4>1. x # m BY <1>1, <1>2, <2>2, <3>2 DEF Holds
      <4>2. x \in Messages BY <1>2 DEF TypeOK
      <4>q. QED BY <1>2, <1>3, <1>4, <2>2, <3>2, <4>1, <4>2
    <3>3. /\ refusals \subseteq refusals' /\ DOMAIN rows \subseteq DOMAIN rows'
          /\ \A x \in Messages : \A k \in DOMAIN moves[x] :
               k \in DOMAIN moves'[x] /\ moves'[x][k].id = moves[x][k].id
      BY <1>3, <1>4
    <3>q. QED BY <1>2, <1>6, <3>1, <3>2, <3>3, OthersKeep
  <2>q. QED BY <2>1, <2>2
<1>8. ASSUME NEW x \in Messages PROVE ChainOK(x)'
  BY <1>2, <1>4, <1>6, ChainKept DEF IInv
<1>9. RefusalOK(r)'
  <2>1. PICK n \in Nat : n = Len(moves[m]) /\ DOMAIN moves[m] = 1..n
    <3>1. moves[m] \in Seq(Move) BY <1>2 DEF TypeOK
    <3>q. QED BY <3>1, LenProperties
  <2>2. r.from = StatusAfter(m, n)
    <3>1. ChainOK(m) BY DEF IInv
    <3>q. QED BY <1>1, <1>2, <1>3, <2>1, <3>1 DEF ChainOK, Holds
  <2>3. r.id < clock /\ \A i \in 1..n : moves[m][i].id < r.id
    BY <1>2, <1>3, <2>1 DEF IsLatest
  <2>4. r.to \notin AllowedTransitions[r.from]
    BY <1>3 DEF Allowed, CanTransition
  <2>5. n \in 0..n /\ \A i \in 1..n : moves[m][i].id < r.id <=> i <= n
    BY <2>1, <2>3
  <2>6. r.from = StatusAfter(m, n)' BY <1>4, <2>2 DEF StatusAfter
  <2>7. moves'[r.msg] = moves[m] /\ r.msg = m /\ Len(moves'[m]) = n /\ clock' = clock
    BY <1>2, <1>3, <1>4, <2>1
  <2>q. QED BY <1>3, <2>3, <2>4, <2>5, <2>6, <2>7 DEF RefusalOK
<1>10. ASSUME NEW d \in refusals' PROVE RefusalOK(d)'
  <2>1. CASE d \in refusals
    BY <1>2, <1>4, <1>6, <2>1, RefusalKept DEF IInv
  <2>2. CASE d = r BY <1>9, <2>2
  <2>q. QED BY <1>3, <2>1, <2>2
<1>q. QED BY <1>2, <1>7, <1>8, <1>10 DEF IInv

LEMMA StutterStep == IInv /\ UNCHANGED vars => IInv'
<1> SUFFICES ASSUME IInv, UNCHANGED vars PROVE IInv' OBVIOUS
<1> USE DEF vars
<1>1. TypeOK' BY DEF IInv, TypeOK
<1>2. ASSUME NEW h \in Handlers PROVE HandlerOK(h)'
  BY DEF IInv, HandlerOK, Holds, IsLatest, Allowed, Recorded, Outcome
<1>3. ASSUME NEW m \in Messages PROVE ChainOK(m)'
  BY DEF IInv, ChainOK, StatusAfter, Approver
<1>4. ASSUME NEW d \in refusals' PROVE RefusalOK(d)'
  BY DEF IInv, RefusalOK, StatusAfter
<1>q. QED BY <1>1, <1>2, <1>3, <1>4 DEF IInv

LEMMA NextKeepsInvariant == IInv /\ [Next]_vars => IInv'
<1> SUFFICES ASSUME IInv, [Next]_vars PROVE IInv' OBVIOUS
<1>1. ASSUME NEW h \in Handlers, NEW q \in Requests, Begin(h, q) PROVE IInv'
  BY <1>1, BeginStep
<1>2. ASSUME NEW h \in Handlers, Work(h) PROVE IInv'
  <2>1. CASE CreateInsert(h) BY <2>1, CreateInsertStep
  <2>2. CASE CreateReadBack(h) BY <2>2, CreateReadBackStep
  <2>3. CASE SetVotes(h) BY <2>3, SetVotesStep
  <2>4. CASE LockRow(h) BY <2>4, LockRowStep
  <2>5. CASE RefuseMove(h)
    BY <2>5, InsertAuditMoveStep DEF RefuseMove, At
  <2>6. CASE RejectNickname(h)
    BY <2>6, RollbackStep DEF RejectNickname
  <2>7. CASE UpdateRow(h) BY <2>7, UpdateRowStep
  <2>8. CASE AuditMove(h)
    BY <2>8, InsertAuditMoveStep DEF AuditMove, At
  <2>9. CASE CommitMove(h)
    BY <2>9, AcceptStep, RefusalStep
  <2>10. CASE ReadStatus(h) BY <2>10, ReadStatusStep
  <2>11. CASE InsertDenied(h) BY <2>11, InsertDeniedStep
  <2>12. CASE CommitDenied(h) BY <2>12, CommitDeniedStep
  <2>13. CASE Answer(h) BY <2>13, AnswerStep
  <2>q. QED BY <1>2, <2>1, <2>2, <2>3, <2>4, <2>5, <2>6, <2>7, <2>8, <2>9,
            <2>10, <2>11, <2>12, <2>13 DEF Work
<1>3. ASSUME NEW h \in Handlers, Fail(h) PROVE IInv'
  BY <1>3, RollbackStep DEF Fail
<1>4. CASE Crash BY <1>4, CrashStep
<1>5. CASE UNCHANGED vars BY <1>5, StutterStep
<1>q. QED BY <1>1, <1>2, <1>3, <1>4, <1>5 DEF Next

-----------------------------------------------------------------------------
(* Theorems.                                                               *)

\* In every reachable state handlers, trail and rows agree as IInv says: the
\* invariant SuggestionsStore's transactions keep, statement by statement.
THEOREM Invariant == Spec => []IInv
<1>1. Init => IInv BY InitInvariant
<1>2. IInv /\ [Next]_vars => IInv' BY NextKeepsInvariant
<1>q. QED BY <1>1, <1>2, PTL DEF Spec

\* Every variable keeps its type, and a row is locked only by a handler in the
\* middle of a transaction on it.
THEOREM TypeCorrect == Spec => []TypeOK
<1>1. IInv => TypeOK BY DEF IInv
<1>q. QED BY <1>1, Invariant, PTL

\* The audit trail of a suggestion is one chain that explains its row, for any
\* number of requests at once (SuggestionsStore.transition).
THEOREM TrailCorrect == Spec => []TrailIsChain
<1>1. IInv => TrailIsChain
  <2> SUFFICES ASSUME IInv, NEW m \in DOMAIN rows
      PROVE  /\ rows[m].status = StatusAfter(m, Len(moves[m]))
             /\ rows[m].assignee = Approver(m)
             /\ \A i \in 1..Len(moves[m]) :
                  /\ moves[m][i].from = StatusAfter(m, i - 1)
                  /\ \A j \in 1..(i - 1) : moves[m][j].id < moves[m][i].id
    BY DEF TrailIsChain
  <2>1. ChainOK(m) BY DEF IInv, TypeOK
  <2>q. QED BY <2>1 DEF ChainOK
<1>q. QED BY <1>1, Invariant, PTL

\* A refused move was refused rightly, whatever races with it
\* (SuggestionsStore.transition).
THEOREM RefusalsCorrect == Spec => []RefusalsAreTruthful
<1>1. IInv => RefusalsAreTruthful
  BY DEF IInv, RefusalOK, RefusalsAreTruthful
<1>q. QED BY <1>1, Invariant, PTL

\* What the bot is told of a staff action is on record
\* (SuggestionsController.transition, recordDenied).
THEOREM AnswersCorrect == Spec => []AnswersAreRecorded
<1>1. IInv => AnswersAreRecorded
  BY DEF IInv, HandlerOK, Recorded, AnswersAreRecorded
<1>q. QED BY <1>1, Invariant, PTL

\* Nobody waits in a ring: the holder a request waits for, in any crowd of
\* requests, is at work on its transaction and waits for no row
\* (SuggestionsStore.transition, setVotesByDiscordMsgId, recordAuthDenied).
THEOREM WaitersHaveWorkers == Spec => []WaitersWaitForWorkers
<1>1. ASSUME TypeOK, NEW h \in Handlers, Busy(h), Waits(h)
      PROVE  \E g \in lock[handler[h].req.msg] : Busy(g) /\ ~Waits(g)
  <2>1. handler[h].req.msg \in Messages
    BY <1>1, BusyIsWorking
  <2>2. PICK g \in lock[handler[h].req.msg] : g \in Handlers
    BY <1>1, <2>1 DEF Waits, Unlocked, TypeOK
  <2>3. handler[g].pc \in {"locked", "updated", "written"}
    BY <1>1, <2>1, <2>2, LockHolders
  <2>4. Busy(g) /\ ~Waits(g)
    BY <2>3 DEF Busy, Waits, At
  <2>q. QED BY <2>2, <2>4
<1>2. IInv => WaitersWaitForWorkers
  BY <1>1 DEF IInv, WaitersWaitForWorkers
<1>q. QED BY <1>2, Invariant, PTL

-----------------------------------------------------------------------------
(* The refinement of SuggestionLifecycle.                                  *)

\* The card of a row.
CardOf(r) == [text |-> r.text, status |-> r.status, credit |-> r.assignee]
Cards == [m \in DOMAIN rows |-> CardOf(rows[m])]

\* A row's fields that the card shows decide it.
LEMMA CardsSame ==
  ASSUME DOMAIN rows' = DOMAIN rows,
         \A m \in DOMAIN rows : /\ rows'[m].text = rows[m].text
                                 /\ rows'[m].status = rows[m].status
                                 /\ rows'[m].assignee = rows[m].assignee
  PROVE  Cards' = Cards
BY DEF Cards, CardOf

LEMMA CardOfMoved ==
  ASSUME NEW r \in Row, NEW q \in Moves
  PROVE  /\ CardOf(Moved(r, q)) =
              [text |-> CardOf(r).text, status |-> q.to,
               credit |-> IF q.to = "aprovada" THEN q.actor ELSE CardOf(r).credit]
         /\ q.to = "recusada" =>
              CardOf(Moved(r, q)) = [CardOf(r) EXCEPT !.status = "recusada"]
<1>1. /\ Moved(r, q).text = r.text /\ Moved(r, q).status = q.to
      /\ Moved(r, q).assignee = IF q.to = "aprovada" THEN q.actor ELSE r.assignee
  BY DEF Moved, Row
<1>q. QED BY <1>1 DEF CardOf

\* An allowed move goes one rank up, or turns an open suggestion down.
LEMMA MovesGoForward ==
  ASSUME NEW s \in Statuses, NEW t \in AllowedTransitions[s]
  PROVE  \/ /\ t = "recusada" /\ s \notin {"concluida", "recusada"}
         \/ /\ t \in DOMAIN Lifecycle!Rank \ {"recusada"}
            /\ Lifecycle!Rank[t] = Lifecycle!Rank[s] + 1
BY DEF Statuses, AllowedTransitions, Lifecycle!Rank

LEMMA CreateIsPost ==
  ASSUME IInv, NEW h \in Handlers, CreateInsert(h)
  PROVE  \/ Cards' = Cards
         \/ \E m \in Messages, t \in Texts :
              /\ m \in Messages \ DOMAIN Cards
              /\ Cards' = [x \in DOMAIN Cards \cup {m} |->
                             IF x = m THEN Lifecycle!New(t) ELSE Cards[x]]
<1>1. /\ TypeOK /\ Busy(h) /\ handler[h].req.kind = "create"
  BY DEF IInv, CreateInsert, At, Busy
<1>2. handler[h].req \in Creates
  BY <1>1, BusyIsWorking, KindOfRequest
<1>3. CASE UNCHANGED rows
  BY <1>3 DEF Cards
<1>4. CASE /\ StorableText(handler[h].req) /\ ~Exists(h)
           /\ rows' = [m \in DOMAIN rows \cup {handler[h].req.msg} |->
                         IF m = handler[h].req.msg THEN Fresh(handler[h].req.text)
                         ELSE rows[m]]
  <2>1. PICK m \in Messages, t \in Texts :
          m = handler[h].req.msg /\ t = handler[h].req.text
    BY <1>2, <1>4 DEF Creates, StorableText
  <2>2. m \in Messages \ DOMAIN Cards BY <1>4, <2>1 DEF Exists, Cards
  <2>3. CardOf(Fresh(t)) = Lifecycle!New(t)
    BY DEF CardOf, Fresh, Lifecycle!New
  <2>4. rows' = [x \in DOMAIN rows \cup {m} |-> IF x = m THEN Fresh(t) ELSE rows[x]]
    BY <1>4, <2>1
  <2>5. Cards' = [x \in DOMAIN Cards \cup {m} |->
                    IF x = m THEN Lifecycle!New(t) ELSE Cards[x]]
    BY <2>3, <2>4 DEF Cards
  <2>q. QED BY <2>1, <2>2, <2>5
<1>q. QED BY <1>3, <1>4 DEF CreateInsert

LEMMA CommitIsAdvance ==
  ASSUME IInv, NEW h \in Handlers, CommitMove(h)
  PROVE  \/ Cards' = Cards
         \/ \E m \in Messages :
              \/ \E a \in Actors :
                   /\ m \in DOMAIN Cards
                   /\ \E s \in DOMAIN Lifecycle!Rank \ {"recusada"} :
                        /\ Lifecycle!Rank[s] = Lifecycle!Rank[Cards[m].status] + 1
                        /\ Cards' = [Cards EXCEPT ![m] =
                             [text |-> Cards[m].text, status |-> s,
                              credit |-> IF s = "aprovada" THEN a
                                         ELSE Cards[m].credit]]
              \/ /\ m \in DOMAIN Cards
                 /\ Cards[m].status \notin {"concluida", "recusada"}
                 /\ Cards' = [Cards EXCEPT ![m] = [@ EXCEPT !.status = "recusada"]]
<1>1. CASE ~Allowed(h)
  <2>1. UNCHANGED rows BY <1>1 DEF CommitMove
  <2>q. QED BY <2>1 DEF Cards
<1>2. CASE Allowed(h)
  <2>1. PICK m \in Messages, q \in Moves :
          /\ q = handler[h].req /\ m = q.msg /\ m \in DOMAIN rows
          /\ rows[m].status = handler[h].from
          /\ rows[m].status \in Statuses /\ rows[m] \in Row
    BY CommitMoveFacts DEF Holds, TypeOK, Row
  <2>2. rows' = [rows EXCEPT ![m] = Moved(@, q)]
    BY <1>2, <2>1 DEF CommitMove
  <2>3. q.to \in AllowedTransitions[rows[m].status]
    BY <1>2, <2>1 DEF Allowed, CanTransition
  <2>4. Cards' = [Cards EXCEPT ![m] = CardOf(Moved(rows[m], q))]
    BY <2>1, <2>2 DEF Cards
  <2>0. PICK r \in Row : r = rows[m] BY <2>1
  <2>5. m \in DOMAIN Cards /\ Cards[m] = CardOf(rows[m])
        /\ Cards[m].status = rows[m].status
    BY <2>1 DEF Cards, CardOf
  <2>6. CASE q.to = "recusada" /\ rows[m].status \notin {"concluida", "recusada"}
    <3>1. CardOf(Moved(rows[m], q)) = [Cards[m] EXCEPT !.status = "recusada"]
      <4>1. CardOf(Moved(r, q)) = [CardOf(r) EXCEPT !.status = "recusada"]
        BY <2>6, CardOfMoved
      <4>q. QED BY <2>0, <2>5, <4>1
    <3>2. Cards' = [Cards EXCEPT ![m] = [@ EXCEPT !.status = "recusada"]]
      BY <2>4, <2>5, <3>1
    <3>q. QED BY <2>5, <2>6, <3>2
  <2>7. CASE /\ q.to \in DOMAIN Lifecycle!Rank \ {"recusada"}
             /\ Lifecycle!Rank[q.to] = Lifecycle!Rank[rows[m].status] + 1
    <3>1. CardOf(Moved(rows[m], q)) =
            [text |-> Cards[m].text, status |-> q.to,
             credit |-> IF q.to = "aprovada" THEN q.actor ELSE Cards[m].credit]
      <4>1. CardOf(Moved(r, q)) =
              [text |-> CardOf(r).text, status |-> q.to,
               credit |-> IF q.to = "aprovada" THEN q.actor ELSE CardOf(r).credit]
        BY CardOfMoved
      <4>q. QED BY <2>0, <2>5, <4>1
    <3>2. Cards' = [Cards EXCEPT ![m] =
            [text |-> Cards[m].text, status |-> q.to,
             credit |-> IF q.to = "aprovada" THEN q.actor ELSE Cards[m].credit]]
      BY <2>4, <2>5, <3>1
    <3>3. q.actor \in Actors BY DEF Moves
    <3>q. QED BY <2>5, <2>7, <3>2, <3>3
  <2>q. QED BY <2>1, <2>3, <2>6, <2>7, MovesGoForward
<1>q. QED BY <1>1, <1>2

LEMMA VotesKeepCards ==
  ASSUME IInv, NEW h \in Handlers, SetVotes(h)
  PROVE  Cards' = Cards
<1>1. CASE UNCHANGED rows BY <1>1 DEF Cards
<1>2. CASE /\ Exists(h)
           /\ rows' = [rows EXCEPT ![handler[h].req.msg].votes = handler[h].req.votes]
  BY <1>2, CardsSame DEF IInv, TypeOK, Row
<1>q. QED BY <1>1, <1>2 DEF SetVotes

\* What readers see of the suggestions follows SuggestionLifecycle: texts stand,
\* stages only move forward, the credit is given once.
THEOREM StatesImplementLifecycle == Spec => ImplementsLifecycle
<1>1. Init => Lifecycle!Init
  <2> SUFFICES ASSUME Init PROVE Lifecycle!Init OBVIOUS
  <2>1. PICK posted \in SUBSET Messages :
          rows \in [posted -> {Fresh(t) : t \in Texts}]
    BY DEF Init
  <2>2. \A t \in Texts : CardOf(Fresh(t)) = Lifecycle!New(t)
    BY DEF CardOf, Fresh, Lifecycle!New
  <2>3. Cards \in [posted -> {Lifecycle!New(t) : t \in Texts}]
    BY <2>1, <2>2 DEF Cards
  <2>q. QED BY <2>3 DEF Lifecycle!Init, Cards, CardOf
<1>2. IInv /\ [Next]_vars => Lifecycle!Next \/ Cards' = Cards
  <2> SUFFICES ASSUME IInv, [Next]_vars PROVE Lifecycle!Next \/ Cards' = Cards
    OBVIOUS
  <2>1. CASE \E h \in Handlers : CreateInsert(h)
    BY <2>1, CreateIsPost DEF Lifecycle!Next, Lifecycle!Post, Cards, CardOf
  <2>2. CASE \E h \in Handlers : CommitMove(h)
    BY <2>2, CommitIsAdvance
       DEF Lifecycle!Next, Lifecycle!Advance, Lifecycle!TurnDown, Cards, CardOf
  <2>3. CASE \E h \in Handlers : SetVotes(h)
    BY <2>3, VotesKeepCards
  <2>4. CASE UNCHANGED rows
    BY <2>4 DEF Cards
  <2>5. ASSUME NEW h \in Handlers, Work(h),
               ~CreateInsert(h), ~CommitMove(h), ~SetVotes(h)
        PROVE  UNCHANGED rows
    BY <2>5 DEF Work, CreateReadBack, LockRow, RefuseMove, RejectNickname, UpdateRow,
                AuditMove, InsertAudit, ReadStatus, InsertDenied, CommitDenied,
                Answer, Rollback
  <2>6. ASSUME NEW h \in Handlers,
               Fail(h) \/ (\E q \in Requests : Begin(h, q))
        PROVE  UNCHANGED rows
    BY <2>6 DEF Fail, Rollback, Begin
  <2>7. Crash \/ UNCHANGED vars => UNCHANGED rows
    BY DEF Crash, vars
  <2>q. QED BY <2>1, <2>2, <2>3, <2>4, <2>5, <2>6, <2>7 DEF Next
<1>3. IInv /\ [Next]_vars =>
        [Lifecycle!Next]_([m \in DOMAIN rows |->
             [text |-> rows[m].text, status |-> rows[m].status,
              credit |-> rows[m].assignee]])
  BY <1>2 DEF Cards, CardOf
<1>q. QED BY <1>1, <1>3, Invariant, PTL DEF Spec, ImplementsLifecycle, Lifecycle!Spec
=============================================================================
