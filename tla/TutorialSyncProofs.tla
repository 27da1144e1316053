------------------------- MODULE TutorialSyncProofs -------------------------
(* Proofs about TutorialSync, for any callers, readers, scans and bound.   *)
EXTENDS TutorialSync, SequenceTheorems, TLAPS

\* A row of a successful run: the tables are from that run or a later one.
Backed(row) ==
  /\ row.run <= series.run /\ series.rows > 0
  /\ row.positioned => row.run <= positions.run

TablesOK ==
  /\ SeriesIsOfLastRun /\ FloorsHold
  /\ series.run <= runs /\ positions.run <= runs
  /\ \A i \in DOMAIN syncs : syncs[i].status = "ok" => Backed(syncs[i])

\* A scan that may replace the series as the log stands.
Cleared(s) == \A i \in DOMAIN syncs : IsLastOk(i) => ~Below(s, syncs[i].scan)

\* A run is newer than the tables, and as far as it has got it has passed the
\* rules and replaced the positions.
CallOK(c) ==
  Active(c) =>
    /\ series.run < call[c].run /\ positions.run <= call[c].run
    /\ call[c].run <= runs
    /\ call[c].pc \in {"walked", "cleared", "positioned"} =>
         ~Degenerate(call[c].scan)
    /\ call[c].pc \in {"cleared", "positioned"} => Cleared(call[c].scan)
    /\ call[c].pc = "positioned" =>
         enabled /\ positions.run = call[c].run

ReaderOK(r) ==
  /\ reader[r].pc = "asked" =>
       /\ Backed(reader[r].row)
       /\ reader[r].of = "positions" => reader[r].row.positioned
  /\ reader[r].pc = "answered" =>
       /\ reader[r].got.run >= reader[r].row.run
       /\ reader[r].of = "series" => reader[r].got.rows > 0

IInv ==
  /\ TypeOK
  /\ TablesOK
  /\ \A c \in Calls : CallOK(c)
  /\ \A r \in Readers : ReaderOK(r)

-----------------------------------------------------------------------------
(* Calls.                                                                  *)

\* One call moves on, and stays the only one.
LEMMA GoesOn ==
  ASSUME TypeOK, NEW c \in Calls, Active(c), NEW v \in Call, v.pc # "idle",
         call' = [call EXCEPT ![c] = v],
         UNCHANGED <<running, enabled, runs, syncs, series, positions, reader>>
  PROVE  TypeOK'
<1>1. call' \in [Calls -> Call] BY DEF TypeOK
<1>2. \A d \in Calls : Active(d)' <=> Active(d) BY DEF TypeOK, Active
<1>q. QED BY <1>1, <1>2 DEF TypeOK

LEMMA GotoIsSet ==
  ASSUME TypeOK, NEW c \in Calls, NEW pc \in CallPcs, Goto(c, pc)
  PROVE  LET v == [pc |-> pc, run |-> call[c].run, scan |-> call[c].scan] IN
         v \in Call /\ call' = [call EXCEPT ![c] = v]
<1>1. PICK u \in Call : u = call[c] BY DEF TypeOK
<1>2. [u EXCEPT !.pc = pc] = [pc |-> pc, run |-> u.run, scan |-> u.scan]
  BY DEF Call
<1>3. call' = [call EXCEPT ![c] = [u EXCEPT !.pc = pc]] BY <1>1 DEF Goto
<1>4. u.run \in 0..MaxRuns /\ u.scan \in Scan BY DEF Call
<1>q. QED BY <1>1, <1>2, <1>3, <1>4 DEF Call

\* A call returns: none is left.
LEMMA Returns ==
  ASSUME TypeOK, NEW c \in Calls, Active(c), Return(c)
  PROVE  /\ call' \in [Calls -> Call] /\ running' = FALSE
         /\ \A d \in Calls : ~Active(d)'
<1>1. 0 \in 0..MaxRuns /\ NoCall \in Call
  BY SyncAssumption DEF NoCall, Call, CallPcs, Nothing, Scan
<1>2. call' \in [Calls -> Call] BY <1>1 DEF TypeOK, Return
<1>3. \A d \in Calls : ~Active(d)' BY DEF TypeOK, Return, Active, NoCall
<1>q. QED BY <1>2, <1>3 DEF Return

\* The tables, the log and the readers are left alone.
Aside == UNCHANGED <<enabled, syncs, series, positions, reader>>

LEMMA AsideKeeps ==
  ASSUME TypeOK, TablesOK, \A r \in Readers : ReaderOK(r), Aside,
         runs' \in Nat, runs' >= runs
  PROVE  TablesOK' /\ \A r \in Readers : ReaderOK(r)'
<1>1. series.run \in Nat /\ positions.run \in Nat /\ runs \in Nat
  BY DEF TypeOK, Table
<1>2. SeriesIsOfLastRun' BY DEF TablesOK, Aside, SeriesIsOfLastRun, IsLastOk
<1>3. FloorsHold' BY DEF TablesOK, Aside, FloorsHold
<1>4. series'.run <= runs' /\ positions'.run <= runs'
  BY <1>1 DEF TablesOK, Aside
<1>5. TablesOK' BY <1>2, <1>3, <1>4 DEF TablesOK, Aside, Backed
<1>6. \A r \in Readers : ReaderOK(r)' BY DEF ReaderOK, Aside, Backed
<1>q. QED BY <1>5, <1>6

\* A step of one call that leaves the tables alone.
LEMMA CallStep ==
  ASSUME IInv, NEW c \in Calls, Active(c), NEW v \in Call, v.pc # "idle",
         call' = [call EXCEPT ![c] = v], v.run = call[c].run,
         UNCHANGED <<running, enabled, runs, syncs, series, positions, reader>>,
         v.pc \in {"walked", "cleared", "positioned"} => ~Degenerate(v.scan),
         v.pc \in {"cleared", "positioned"} => Cleared(v.scan),
         v.pc # "positioned"
  PROVE  IInv'
<1>1. TypeOK /\ TablesOK /\ CallOK(c) /\ \A r \in Readers : ReaderOK(r)
  BY DEF IInv
<1>2. TypeOK' BY <1>1, GoesOn
<1>3. TablesOK' /\ \A r \in Readers : ReaderOK(r)'
  <2>1. Aside /\ runs' = runs /\ runs \in Nat BY <1>1 DEF Aside, TypeOK
  <2>q. QED BY <1>1, <2>1, AsideKeeps
<1>4. ASSUME NEW d \in Calls PROVE CallOK(d)'
  <2>1. CASE d = c
    <3>1. call'[d] = v BY <1>1, <2>1 DEF TypeOK
    <3>2. Cleared(v.scan)' <=> Cleared(v.scan) BY DEF Cleared, IsLastOk
    <3>3. PICK s : s = v.scan OBVIOUS
    <3>q. QED BY <1>1, <2>1, <3>1, <3>2 DEF CallOK, Active
  <2>2. CASE d # c
    <3>1. ~Active(d)' BY <1>1, <2>2 DEF TypeOK, Active
    <3>q. QED BY <3>1 DEF CallOK
  <2>q. QED BY <2>1, <2>2
<1>q. QED BY <1>2, <1>3, <1>4 DEF IInv

LEMMA WalkSteps ==
  ASSUME IInv, NEW c \in Calls,
         \/ WalkFails(c) \/ \E s \in Scans : WalkEnds(c, s)
         \/ Compare(c) \/ CompareFails(c)
  PROVE  IInv'
<1>1. TypeOK /\ CallOK(c) BY DEF IInv
<1>2. ASSUME Goto(c, "refused"), Active(c),
             UNCHANGED <<running, enabled, runs, syncs, series, positions, reader>>
      PROVE  IInv'
  <2> DEFINE v == [pc |-> "refused", run |-> call[c].run, scan |-> call[c].scan]
  <2>1. v \in Call /\ call' = [call EXCEPT ![c] = v]
    BY <1>1, <1>2, GotoIsSet DEF CallPcs
  <2>2. v.pc = "refused" /\ v.run = call[c].run OBVIOUS
  <2> HIDE DEF v
  <2>q. QED BY <1>2, <2>1, <2>2, CallStep
<1>3. CASE WalkFails(c) BY <1>2, <1>3 DEF WalkFails, Active
<1>4. CASE CompareFails(c) BY <1>2, <1>4 DEF CompareFails, Active
<1>5. ASSUME NEW s \in Scans, WalkEnds(c, s) PROVE IInv'
  <2> DEFINE v == [pc |-> IF Degenerate(s) THEN "refused" ELSE "walked",
                   run |-> call[c].run, scan |-> s]
  <2>1. call[c].run \in 0..MaxRuns /\ s \in Scan
    BY <1>1, SyncAssumption DEF TypeOK, Call
  <2>2. v \in Call BY <2>1 DEF Call, CallPcs
  <2>3. /\ v.pc \in {"refused", "walked"} /\ v.run = call[c].run /\ v.scan = s
        /\ v.pc = "walked" => ~Degenerate(s)
    OBVIOUS
  <2>4. call' = [call EXCEPT ![c] = v] BY <1>5 DEF WalkEnds
  <2>5. Active(c) BY <1>5 DEF WalkEnds, Active
  <2>6. UNCHANGED <<running, enabled, runs, syncs, series, positions, reader>>
    BY <1>5 DEF WalkEnds
  <2> HIDE DEF v
  <2>q. QED BY <2>2, <2>3, <2>4, <2>5, <2>6, CallStep
<1>6. CASE Compare(c)
  <2>1. Active(c) /\ call[c].pc = "walked" BY <1>6 DEF Compare, Active
  <2>2. UNCHANGED <<running, enabled, runs, syncs, series, positions, reader>>
    BY <1>6 DEF Compare
  <2>3. CASE Goto(c, "refused") BY <1>2, <2>1, <2>2, <2>3
  <2>4. CASE Goto(c, "cleared") /\ Cleared(call[c].scan)
    <3> DEFINE v == [pc |-> "cleared", run |-> call[c].run, scan |-> call[c].scan]
    <3>1. v \in Call /\ call' = [call EXCEPT ![c] = v]
      BY <1>1, <2>4, GotoIsSet DEF CallPcs
    <3>2. v.pc = "cleared" /\ v.run = call[c].run /\ v.scan = call[c].scan
      OBVIOUS
    <3>3. ~Degenerate(call[c].scan) BY <1>1, <2>1 DEF CallOK
    <3> HIDE DEF v
    <3>q. QED BY <2>1, <2>2, <2>4, <3>1, <3>2, <3>3, CallStep
  <2>5. Goto(c, "refused") \/ (Goto(c, "cleared") /\ Cleared(call[c].scan))
    BY <1>6 DEF Compare, Cleared
  <2>q. QED BY <2>3, <2>4, <2>5
<1>q. QED BY <1>3, <1>4, <1>5, <1>6

LEMMA BeginStep ==
  ASSUME IInv, NEW c \in Calls, Begin(c)
  PROVE  IInv'
<1>1. TypeOK /\ TablesOK /\ \A r \in Readers : ReaderOK(r) BY DEF IInv
<1>2. runs \in Nat /\ runs + 1 \in 0..MaxRuns
  BY <1>1, SyncAssumption DEF TypeOK, Begin
<1> DEFINE v == [pc |-> "walking", run |-> runs + 1, scan |-> Nothing]
<1>3. v \in Call BY <1>2 DEF Call, CallPcs, Nothing, Scan
<1>4. v.pc = "walking" /\ v.run = runs + 1 OBVIOUS
<1>5. /\ call' = [call EXCEPT ![c] = v] /\ running' = TRUE /\ runs' = runs + 1
      /\ ~running /\ Aside
  BY DEF Begin, Aside
<1> HIDE DEF v
<1>6. \A d \in Calls : ~Active(d) BY <1>1, <1>5 DEF TypeOK
<1>7. Active(c)' /\ \A d \in Calls \ {c} : ~Active(d)'
  BY <1>1, <1>4, <1>5, <1>6 DEF TypeOK, Active
<1>8. call' \in [Calls -> Call] BY <1>1, <1>3, <1>5 DEF TypeOK
<1>9. TypeOK' BY <1>1, <1>2, <1>5, <1>7, <1>8 DEF TypeOK, Aside
<1>10. TablesOK' /\ \A r \in Readers : ReaderOK(r)'
  BY <1>1, <1>2, <1>5, AsideKeeps
<1>11. ASSUME NEW d \in Calls PROVE CallOK(d)'
  <2>1. CASE d = c
    <3>1. call'[d].pc = "walking" /\ call'[d].run = runs + 1
      BY <1>1, <1>4, <1>5, <2>1 DEF TypeOK
    <3>2. series.run \in Nat /\ positions.run \in Nat BY <1>1 DEF TypeOK, Table
    <3>q. QED BY <1>1, <1>2, <1>5, <3>1, <3>2 DEF CallOK, TablesOK, Aside
  <2>2. CASE d # c BY <1>7, <2>2 DEF CallOK
  <2>q. QED BY <2>1, <2>2
<1>q. QED BY <1>9, <1>10, <1>11 DEF IInv

-----------------------------------------------------------------------------
(* The log grows.                                                          *)

LEMMA LogGrows ==
  ASSUME TypeOK, NEW row \in Row, syncs' = Append(syncs, row)
  PROVE  /\ syncs' \in Seq(Row)
         /\ \E n \in Nat :
              /\ DOMAIN syncs = 1..n /\ DOMAIN syncs' = 1..(n + 1)
              /\ \A i \in 1..n : syncs'[i] = syncs[i]
              /\ syncs'[n + 1] = row
<1>1. syncs \in Seq(Row) BY DEF TypeOK
<1>2. PICK n \in Nat : n = Len(syncs) /\ DOMAIN syncs = 1..n
  BY <1>1, LenProperties
<1>3. syncs' \in Seq(Row) /\ Len(syncs') = n + 1
  BY <1>1, <1>2, AppendProperties
<1>4. DOMAIN syncs' = 1..(n + 1) BY <1>3, LenProperties
<1>5. \A i \in 1..n : syncs'[i] = syncs[i] BY <1>1, <1>2, AppendProperties
<1>6. syncs'[n + 1] = row BY <1>1, <1>2, AppendProperties
<1>q. QED BY <1>2, <1>3, <1>4, <1>5, <1>6

\* A failed run leaves a row that nothing looks at.
LEMMA ErrorKeepsTables ==
  ASSUME TypeOK, TablesOK, NEW row \in Row, row.status = "error",
         syncs' = Append(syncs, row), UNCHANGED <<runs, series, positions>>
  PROVE  TablesOK'
<1>1. PICK n \in Nat :
        /\ DOMAIN syncs = 1..n /\ DOMAIN syncs' = 1..(n + 1)
        /\ \A i \in 1..n : syncs'[i] = syncs[i]
        /\ syncs'[n + 1] = row
  BY LogGrows
<1>2. \A i \in 1..(n + 1) : i \in 1..n \/ i = n + 1 BY <1>1
<1>3. \A i \in 1..(n + 1) : syncs'[i].status = "ok" => i \in 1..n
  BY <1>1, <1>2
<1>4. 1..n \subseteq 1..(n + 1) BY <1>1
<1>5. \A i \in DOMAIN syncs' : IsLastOk(i)' => i \in 1..n /\ IsLastOk(i)
  BY <1>1, <1>3, <1>4 DEF IsLastOk
<1>6. SeriesIsOfLastRun'
  <2>1. ASSUME NEW i \in DOMAIN syncs', IsLastOk(i)'
        PROVE  series' = [run |-> syncs'[i].run, rows |-> syncs'[i].scan.days]
    BY <1>1, <1>5, <2>1 DEF TablesOK, SeriesIsOfLastRun
  <2>2. ASSUME \A i \in DOMAIN syncs' : syncs'[i].status # "ok"
        PROVE  series' = Empty
    BY <1>1, <1>4, <2>2 DEF TablesOK, SeriesIsOfLastRun
  <2>q. QED BY <2>1, <2>2 DEF SeriesIsOfLastRun
<1>7. FloorsHold'
  <2> SUFFICES ASSUME NEW i \in DOMAIN syncs', syncs'[i].status = "ok"
               PROVE  /\ ~Degenerate(syncs'[i].scan)
                      /\ \A j \in DOMAIN syncs' :
                           /\ j < i /\ syncs'[j].status = "ok"
                           /\ \A k \in DOMAIN syncs' :
                                j < k /\ k < i => syncs'[k].status # "ok"
                           => ~Below(syncs'[i].scan, syncs'[j].scan)
    BY DEF FloorsHold
  <2>1. i \in 1..n /\ syncs'[i] = syncs[i] BY <1>1, <1>3
  <2>2. \A j \in DOMAIN syncs' : syncs'[j].status = "ok" =>
          j \in 1..n /\ syncs'[j] = syncs[j]
    BY <1>1, <1>3
  <2>q. QED BY <1>1, <1>4, <2>1, <2>2 DEF TablesOK, FloorsHold
<1>8. \A i \in DOMAIN syncs' : syncs'[i].status = "ok" => Backed(syncs'[i])
  BY <1>1, <1>3 DEF TablesOK
<1>9. \A i \in DOMAIN syncs' : syncs'[i].status = "ok" => Backed(syncs[i])'
  <2> SUFFICES ASSUME NEW i \in DOMAIN syncs', syncs'[i].status = "ok"
               PROVE  Backed(syncs[i])'
    OBVIOUS
  <2>q. QED BY <1>8 DEF Backed
<1>q. QED BY <1>6, <1>7, <1>9 DEF TablesOK

\* A successful run leaves the row of what the series now holds.
LEMMA OkKeepsTables ==
  ASSUME TypeOK, TablesOK, NEW row \in Row, row.status = "ok",
         ~Degenerate(row.scan), Cleared(row.scan),
         syncs' = Append(syncs, row), UNCHANGED <<runs, positions>>,
         series' = [run |-> row.run, rows |-> row.scan.days],
         series.run < row.run, row.run <= runs,
         row.positioned => positions.run = row.run
  PROVE  TablesOK'
<1>1. PICK n \in Nat :
        /\ DOMAIN syncs = 1..n /\ DOMAIN syncs' = 1..(n + 1)
        /\ \A i \in 1..n : syncs'[i] = syncs[i]
        /\ syncs'[n + 1] = row
  BY LogGrows
<1>2. \A i \in 1..(n + 1) : i \in 1..n \/ i = n + 1 BY <1>1
<1>3. n + 1 \in 1..(n + 1) /\ \A i \in 1..n : i < n + 1 BY <1>1
<1>4. 1..n \subseteq 1..(n + 1) BY <1>1
<1>5. row.run \in Nat /\ row.scan \in Scan /\ row.scan.days \in Nat
  BY DEF Row, Scan
<1>6. SeriesIsOfLastRun'
  <2>1. ASSUME NEW i \in DOMAIN syncs', IsLastOk(i)' PROVE i = n + 1
    <3>1. n + 1 <= i BY <1>1, <1>3, <2>1 DEF IsLastOk
    <3>q. QED BY <1>1, <3>1
  <2>q. QED BY <1>1, <1>3, <2>1 DEF SeriesIsOfLastRun
<1>7. FloorsHold'
  <2> SUFFICES ASSUME NEW i \in DOMAIN syncs', syncs'[i].status = "ok"
               PROVE  /\ ~Degenerate(syncs'[i].scan)
                      /\ \A j \in DOMAIN syncs' :
                           /\ j < i /\ syncs'[j].status = "ok"
                           /\ \A k \in DOMAIN syncs' :
                                j < k /\ k < i => syncs'[k].status # "ok"
                           => ~Below(syncs'[i].scan, syncs'[j].scan)
    BY DEF FloorsHold
  <2>1. CASE i \in 1..n
    <3>1. \A j \in DOMAIN syncs' : j < i => j \in 1..n BY <1>1, <2>1
    <3>2. \A j \in DOMAIN syncs' : j < i => syncs'[j] = syncs[j]
      BY <1>1, <3>1
    <3>3. syncs'[i] = syncs[i] BY <1>1, <2>1
    <3>q. QED BY <1>1, <1>4, <2>1, <3>1, <3>2, <3>3 DEF TablesOK, FloorsHold
  <2>2. CASE i = n + 1
    <3>1. ASSUME NEW j \in DOMAIN syncs', j < i, syncs'[j].status = "ok",
                 \A k \in DOMAIN syncs' :
                   j < k /\ k < i => syncs'[k].status # "ok"
          PROVE  ~Below(syncs'[i].scan, syncs'[j].scan)
      <4>1. j \in 1..n /\ syncs'[j] = syncs[j] BY <1>1, <2>2, <3>1
      <4>2. ASSUME NEW k \in 1..n, syncs[k].status = "ok" PROVE k <= j
        <5>1. syncs'[k].status = "ok" /\ k < i /\ k \in DOMAIN syncs'
          BY <1>1, <1>3, <1>4, <2>2, <4>2
        <5>2. ~(j < k) BY <3>1, <5>1
        <5>q. QED BY <1>1, <4>1, <5>2
      <4>3. IsLastOk(j) BY <1>1, <3>1, <4>1, <4>2 DEF IsLastOk
      <4>q. QED BY <1>1, <2>2, <4>1, <4>3 DEF Cleared
    <3>q. QED BY <1>1, <2>2, <3>1
  <2>q. QED BY <1>1, <1>2, <2>1, <2>2
<1>8. ASSUME NEW i \in DOMAIN syncs', syncs'[i].status = "ok"
      PROVE  Backed(syncs[i])'
  <2>1. series'.run = row.run /\ series'.rows > 0
    BY <1>5 DEF Degenerate
  <2>2. CASE i = n + 1
    <3>1. syncs'[i] = row BY <1>1, <2>2
    <3>q. QED BY <1>5, <2>1, <3>1 DEF Backed
  <2>3. CASE i \in 1..n
    <3>1. syncs'[i] = syncs[i] /\ Backed(syncs[i])
      BY <1>1, <1>8, <2>3 DEF TablesOK
    <3>2. syncs[i] \in Row BY <1>1, <2>3, ElementOfSeq DEF TypeOK
    <3>3. syncs[i].run \in Nat /\ series.run \in Nat
      BY <3>2 DEF Row, TypeOK, Table
    <3>4. syncs[i].run <= series'.run BY <1>5, <2>1, <3>1, <3>3 DEF Backed
    <3>q. QED BY <2>1, <3>1, <3>4 DEF Backed
  <2>q. QED BY <1>1, <1>2, <2>2, <2>3
<1>9. series'.run <= runs' /\ positions'.run <= runs' BY DEF TablesOK
<1>q. QED BY <1>6, <1>7, <1>8, <1>9 DEF TablesOK

-----------------------------------------------------------------------------
(* The ends of a run.                                                      *)

\* After a return there is nothing to show of any call.
LEMMA ReturnKeeps ==
  ASSUME TypeOK, NEW c \in Calls, Active(c), Return(c),
         UNCHANGED <<enabled, runs, positions, reader>>,
         syncs' \in Seq(Row), series' \in Table
  PROVE  TypeOK' /\ \A d \in Calls : CallOK(d)'
<1>1. /\ call' \in [Calls -> Call] /\ running' = FALSE
      /\ \A d \in Calls : ~Active(d)'
  BY Returns
<1>2. TypeOK' BY <1>1 DEF TypeOK
<1>q. QED BY <1>1, <1>2 DEF CallOK

LEMMA RecordFailureStep ==
  ASSUME IInv, NEW c \in Calls, RecordFailure(c)
  PROVE  IInv'
<1>1. TypeOK /\ TablesOK /\ \A r \in Readers : ReaderOK(r) BY DEF IInv
<1>2. /\ Active(c) /\ Return(c)
      /\ UNCHANGED <<enabled, runs, series, positions, reader>>
  BY DEF RecordFailure, Active
<1> DEFINE row == [status |-> "error", run |-> call[c].run,
                   scan |-> call[c].scan, positioned |-> FALSE]
<1>3. row \in Row /\ row.status = "error"
  <2>1. call[c].run \in 0..MaxRuns /\ call[c].scan \in Scan
    BY <1>1 DEF TypeOK, Call
  <2>q. QED BY <2>1 DEF Row
<1>4. syncs' = Append(syncs, row) \/ syncs' = syncs BY DEF RecordFailure
<1> HIDE DEF row
<1>5. syncs' \in Seq(Row) BY <1>1, <1>3, <1>4, LogGrows DEF TypeOK
<1>6. series' \in Table BY <1>1, <1>2 DEF TypeOK
<1>7. TypeOK' /\ \A d \in Calls : CallOK(d)' BY <1>1, <1>2, <1>5, <1>6, ReturnKeeps
<1>8. TablesOK'
  <2>1. CASE syncs' = Append(syncs, row)
    BY <1>1, <1>2, <1>3, <2>1, ErrorKeepsTables
  <2>2. CASE syncs' = syncs
    <3>1. Aside /\ runs' = runs /\ runs \in Nat
      BY <1>1, <1>2, <2>2 DEF Aside, TypeOK
    <3>q. QED BY <1>1, <3>1, AsideKeeps
  <2>q. QED BY <1>4, <2>1, <2>2
<1>9. \A r \in Readers : ReaderOK(r)' BY <1>1, <1>2 DEF ReaderOK, Backed
<1>q. QED BY <1>7, <1>8, <1>9 DEF IInv

LEMMA FailsStep ==
  ASSUME IInv, NEW c \in Calls, PositionsFail(c) \/ ReplaceFails(c)
  PROVE  IInv'
<1>1. TypeOK /\ TablesOK /\ \A r \in Readers : ReaderOK(r) BY DEF IInv
<1>2. Active(c) /\ Return(c) /\ Aside /\ UNCHANGED runs
  BY DEF PositionsFail, ReplaceFails, MayReplaceAll, Active, Aside
<1>3. runs' \in Nat /\ runs' >= runs BY <1>1, <1>2 DEF TypeOK
<1>4. TablesOK' /\ \A r \in Readers : ReaderOK(r)' BY <1>1, <1>2, <1>3, AsideKeeps
<1>5. syncs' \in Seq(Row) /\ series' \in Table BY <1>1, <1>2 DEF TypeOK, Aside
<1>6. TypeOK' /\ \A d \in Calls : CallOK(d)'
  BY <1>1, <1>2, <1>5, ReturnKeeps DEF Aside
<1>q. QED BY <1>4, <1>6 DEF IInv

LEMMA ReplacePositionsStep ==
  ASSUME IInv, NEW c \in Calls, ReplacePositions(c)
  PROVE  IInv'
<1>1. TypeOK /\ TablesOK /\ CallOK(c) /\ \A r \in Readers : ReaderOK(r)
  BY DEF IInv
<1>2. /\ call[c].pc = "cleared" /\ Active(c) /\ enabled
      /\ positions' = [run |-> call[c].run, rows |-> call[c].scan.players]
      /\ Goto(c, "positioned")
      /\ UNCHANGED <<running, enabled, runs, syncs, series, reader>>
  BY DEF ReplacePositions, Active
<1> DEFINE v == [pc |-> "positioned", run |-> call[c].run, scan |-> call[c].scan]
<1>3. v \in Call /\ call' = [call EXCEPT ![c] = v]
  BY <1>1, <1>2, GotoIsSet DEF CallPcs
<1>4. v.pc = "positioned" /\ v.run = call[c].run /\ v.scan = call[c].scan
  OBVIOUS
<1> HIDE DEF v
<1>5. /\ call[c].run \in Nat /\ positions.run \in Nat /\ positions' \in Table
      /\ positions'.run = call[c].run
  BY <1>1, <1>2 DEF TypeOK, Call, Table, Scan
<1>6. /\ call' \in [Calls -> Call] /\ call'[c] = v
      /\ \A d \in Calls \ {c} : call'[d] = call[d]
  BY <1>1, <1>3 DEF TypeOK
<1>7. \A d \in Calls : Active(d)' <=> Active(d)
  BY <1>2, <1>4, <1>6 DEF Active
<1>8. TypeOK' BY <1>1, <1>2, <1>5, <1>6, <1>7 DEF TypeOK
<1>9. positions.run <= positions'.run /\ positions'.run <= runs
  BY <1>1, <1>2, <1>5 DEF CallOK
<1>10. ASSUME NEW row \in Row, Backed(row) PROVE Backed(row)'
  <2>1. row.run \in Nat BY DEF Row
  <2>2. row.positioned => row.run <= positions'.run
    BY <1>5, <1>9, <1>10, <2>1 DEF Backed
  <2>q. QED BY <1>2, <1>10, <2>2 DEF Backed
<1>11. TablesOK'
  <2>1. SeriesIsOfLastRun' /\ FloorsHold'
    BY <1>1, <1>2 DEF TablesOK, SeriesIsOfLastRun, FloorsHold, IsLastOk
  <2>2. ASSUME NEW i \in DOMAIN syncs, syncs[i].status = "ok"
        PROVE  Backed(syncs[i])'
    <3>1. PICK row \in Row : row = syncs[i]
      BY <1>1, <2>2, ElementOfSeq, LenProperties DEF TypeOK
    <3>2. Backed(row) BY <1>1, <2>2, <3>1 DEF TablesOK
    <3>3. Backed(row)' BY <1>10, <3>2
    <3>4. syncs'[i] = row BY <1>2, <3>1
    <3>q. QED BY <3>3, <3>4 DEF Backed
  <2>q. QED BY <1>1, <1>2, <1>9, <2>1, <2>2 DEF TablesOK
<1>12. ASSUME NEW r \in Readers PROVE ReaderOK(r)'
  <2>1. CASE reader[r].pc = "asked"
    <3>1. PICK row \in Row : row = reader[r].row
      BY <1>1, <2>1 DEF TypeOK, Answers, Waits
    <3>2. Backed(row) BY <1>1, <2>1, <3>1 DEF ReaderOK
    <3>3. Backed(row)' BY <1>10, <3>2
    <3>4. reader'[r] = reader[r] BY <1>2
    <3>q. QED BY <1>1, <2>1, <3>1, <3>3, <3>4 DEF ReaderOK, Backed
  <2>2. CASE reader[r].pc # "asked" BY <1>1, <1>2, <2>2 DEF ReaderOK
  <2>q. QED BY <2>1, <2>2
<1>13. ASSUME NEW d \in Calls PROVE CallOK(d)'
  <2>1. CASE d = c
    <3>1. Cleared(call[c].scan) /\ ~Degenerate(call[c].scan)
      BY <1>1, <1>2 DEF CallOK
    <3>2. PICK scan : scan = call[c].scan OBVIOUS
    <3>3. Cleared(scan)' BY <1>2, <3>1, <3>2 DEF Cleared, IsLastOk
    <3>4. /\ call'[c].pc = "positioned" /\ call'[c].run = call[c].run
          /\ call'[c].scan = scan
      BY <1>4, <1>6, <3>2
    <3>5. Cleared(call[c].scan)' BY <3>3, <3>4 DEF Cleared
    <3>6. series.run < call[c].run /\ call[c].run <= runs
      BY <1>1, <1>2 DEF CallOK
    <3>q. QED BY <1>2, <1>5, <2>1, <3>1, <3>2, <3>4, <3>5, <3>6 DEF CallOK
  <2>2. CASE d # c
    <3>1. ~Active(d)' BY <1>1, <1>2, <1>7, <2>2 DEF TypeOK
    <3>q. QED BY <3>1 DEF CallOK
  <2>q. QED BY <2>1, <2>2
<1>q. QED BY <1>8, <1>11, <1>12, <1>13 DEF IInv

LEMMA ReplaceAllStep ==
  ASSUME IInv, NEW c \in Calls, ReplaceAll(c)
  PROVE  IInv'
<1>1. TypeOK /\ TablesOK /\ CallOK(c) /\ \A r \in Readers : ReaderOK(r)
  BY DEF IInv
<1>2. /\ call[c].pc \in {"cleared", "positioned"} /\ Active(c) /\ Return(c)
      /\ call[c].pc = "positioned" \/ ~enabled
      /\ series' = [run |-> call[c].run, rows |-> call[c].scan.days]
      /\ UNCHANGED <<enabled, runs, positions, reader>>
  BY DEF ReplaceAll, MayReplaceAll, Active
<1> DEFINE row == [status |-> "ok", run |-> call[c].run,
                   scan |-> call[c].scan, positioned |-> enabled]
<1>3. syncs' = Append(syncs, row) BY DEF ReplaceAll
<1>4. call[c].run \in 0..MaxRuns /\ call[c].scan \in Scan
  BY <1>1 DEF TypeOK, Call
<1>5. row \in Row BY <1>1, <1>4 DEF Row, TypeOK
<1>6. /\ row.status = "ok" /\ row.run = call[c].run /\ row.scan = call[c].scan
      /\ row.positioned = enabled
  OBVIOUS
<1> HIDE DEF row
<1>7. /\ ~Degenerate(call[c].scan) /\ Cleared(call[c].scan)
      /\ series.run < call[c].run /\ call[c].run <= runs
      /\ call[c].pc = "positioned" => enabled /\ positions.run = call[c].run
  BY <1>1, <1>2 DEF CallOK
<1>8. ~Degenerate(row.scan) /\ Cleared(row.scan) BY <1>6, <1>7
<1>9. row.positioned => positions.run = row.run BY <1>2, <1>6, <1>7
<1>10. series' = [run |-> row.run, rows |-> row.scan.days] BY <1>2, <1>6
<1>11. TablesOK'
  BY <1>1, <1>2, <1>3, <1>5, <1>6, <1>7, <1>8, <1>9, <1>10, OkKeepsTables
<1>12. syncs' \in Seq(Row) BY <1>1, <1>3, <1>5, LogGrows
<1>13. series' \in Table BY <1>2, <1>4 DEF Table, Scan
<1>14. TypeOK' /\ \A d \in Calls : CallOK(d)'
  BY <1>1, <1>2, <1>12, <1>13, ReturnKeeps
<1>15. ASSUME NEW r \in Readers PROVE ReaderOK(r)'
  <2>1. CASE reader[r].pc = "asked"
    <3>1. PICK asked \in Row : asked = reader[r].row
      BY <1>1, <2>1 DEF TypeOK, Answers, Waits
    <3>2. Backed(asked) BY <1>1, <2>1, <3>1 DEF ReaderOK
    <3>3. asked.run \in Nat /\ series.run \in Nat /\ call[c].run \in Nat
      BY <1>1, <1>4 DEF Row, TypeOK, Table
    <3>4. asked.run <= series'.run BY <1>2, <1>7, <3>2, <3>3 DEF Backed
    <3>5. series'.rows > 0 BY <1>2, <1>4, <1>7 DEF Degenerate, Scan
    <3>6. Backed(asked)' BY <1>2, <3>2, <3>4, <3>5 DEF Backed
    <3>7. reader'[r] = reader[r] BY <1>2
    <3>q. QED BY <1>1, <2>1, <3>1, <3>6, <3>7 DEF ReaderOK, Backed
  <2>2. CASE reader[r].pc # "asked" BY <1>1, <1>2, <2>2 DEF ReaderOK
  <2>q. QED BY <2>1, <2>2
<1>q. QED BY <1>11, <1>14, <1>15 DEF IInv

LEMMA RestartStep == IInv /\ Restart => IInv'
<1> SUFFICES ASSUME IInv, Restart PROVE IInv' OBVIOUS
<1>1. TypeOK /\ TablesOK BY DEF IInv
<1>2. /\ running' = FALSE /\ enabled' \in BOOLEAN
      /\ call' = [c \in Calls |-> NoCall] /\ reader' = [r \in Readers |-> Waits]
      /\ UNCHANGED <<runs, syncs, series, positions>>
  BY DEF Restart
<1>3. NoCall \in Call
  BY SyncAssumption DEF NoCall, Call, CallPcs, Nothing, Scan
<1>4. call' \in [Calls -> Call] /\ \A c \in Calls : ~Active(c)'
  BY <1>2, <1>3 DEF Active, NoCall
<1>5. \A r \in Readers : reader'[r].pc = "idle" BY <1>2 DEF Waits
<1>6. TypeOK' BY <1>1, <1>2, <1>4 DEF TypeOK
<1>7. TablesOK'
  BY <1>1, <1>2 DEF TablesOK, SeriesIsOfLastRun, FloorsHold, IsLastOk, Backed
<1>8. \A c \in Calls : CallOK(c)' BY <1>4 DEF CallOK
<1>9. \A r \in Readers : ReaderOK(r)' BY <1>5 DEF ReaderOK
<1>q. QED BY <1>6, <1>7, <1>8, <1>9 DEF IInv

-----------------------------------------------------------------------------
(* Readers.                                                                *)

\* One reader moves on.
LEMMA ReaderMoves ==
  ASSUME IInv, NEW r \in Readers, NEW v \in Answers \cup {Waits},
         reader' = [reader EXCEPT ![r] = v],
         UNCHANGED <<running, enabled, runs, call, syncs, series, positions>>,
         ReaderOK(r)'
  PROVE  IInv'
<1>1. TypeOK /\ TablesOK /\ \A c \in Calls : CallOK(c) BY DEF IInv
<1>2. reader' \in [Readers -> Answers \cup {Waits}] BY <1>1 DEF TypeOK
<1>3. TypeOK' BY <1>1, <1>2 DEF TypeOK, Active
<1>4. TablesOK' BY <1>1 DEF TablesOK, SeriesIsOfLastRun, FloorsHold, IsLastOk, Backed
<1>5. \A c \in Calls : CallOK(c)' BY <1>1 DEF CallOK, Active, Cleared, IsLastOk
<1>6. ASSUME NEW w \in Readers, w # r PROVE ReaderOK(w)'
  <2>1. reader'[w] = reader[w] /\ ReaderOK(w) BY <1>1, <1>6 DEF IInv, TypeOK
  <2>q. QED BY <2>1 DEF ReaderOK, Backed
<1>q. QED BY <1>3, <1>4, <1>5, <1>6 DEF IInv

LEMMA ReadSteps ==
  ASSUME IInv, NEW r \in Readers, Reading(r)
  PROVE  IInv'
<1>1. TypeOK /\ TablesOK /\ ReaderOK(r) BY DEF IInv
<1>2. ASSUME NEW t \in Targets, ReadProvenance(r, t) PROVE IInv'
  <2>1. PICK i \in DOMAIN syncs :
          /\ IsLastOk(i) /\ (t = "positions" => syncs[i].positioned)
          /\ reader' = [reader EXCEPT
               ![r] = [pc |-> "asked", of |-> t, row |-> syncs[i], got |-> Empty]]
    BY <1>2 DEF ReadProvenance
  <2>2. PICK row \in Row : row = syncs[i]
    BY <1>1, ElementOfSeq, LenProperties DEF TypeOK
  <2> DEFINE v == [pc |-> "asked", of |-> t, row |-> row, got |-> Empty]
  <2>3. v \in Answers
    BY SyncAssumption DEF Answers, Empty, Table
  <2>4. reader' = [reader EXCEPT ![r] = v] BY <2>1, <2>2
  <2>5. v.pc = "asked" /\ v.of = t /\ v.row = row OBVIOUS
  <2> HIDE DEF v
  <2>6. reader'[r] = v BY <1>1, <2>4 DEF TypeOK
  <2>7. UNCHANGED <<running, enabled, runs, call, syncs, series, positions>>
    BY <1>2 DEF ReadProvenance
  <2>8. Backed(row) BY <1>1, <2>1, <2>2 DEF TablesOK, IsLastOk
  <2>9. ReaderOK(r)'
    BY <2>1, <2>2, <2>5, <2>6, <2>7, <2>8 DEF ReaderOK, Backed
  <2>q. QED BY <2>3, <2>4, <2>7, <2>9, ReaderMoves
<1>3. CASE ReadTable(r)
  <2>1. reader[r].pc = "asked" BY <1>3 DEF ReadTable
  <2>2. PICK u \in Answers : u = reader[r] BY <1>1, <2>1 DEF TypeOK, Waits
  <2>3. PICK got \in Table :
          got = IF reader[r].of = "series" THEN series ELSE positions
    BY <1>1 DEF TypeOK
  <2> DEFINE v == [pc |-> "answered", of |-> u.of, row |-> u.row, got |-> got]
  <2>4. v \in Answers BY DEF Answers
  <2>5. reader' = [reader EXCEPT ![r] = v] BY <1>3, <2>2, <2>3 DEF ReadTable
  <2>6. v.pc = "answered" /\ v.of = u.of /\ v.row = u.row /\ v.got = got OBVIOUS
  <2> HIDE DEF v
  <2>7. reader'[r] = v BY <1>1, <2>5 DEF TypeOK
  <2>8. UNCHANGED <<running, enabled, runs, call, syncs, series, positions>>
    BY <1>3 DEF ReadTable
  <2>9. Backed(u.row) /\ (u.of = "positions" => u.row.positioned)
    BY <1>1, <2>1, <2>2 DEF ReaderOK
  <2>10. u.of = "series" \/ u.of = "positions" BY DEF Answers, Targets
  <2>11. /\ got.run >= u.row.run
         /\ u.of = "series" => got.rows > 0
    <3>1. u.row.run \in Nat /\ series.run \in Nat /\ positions.run \in Nat
      BY <1>1 DEF Answers, Row, TypeOK, Table
    <3>2. CASE u.of = "series"
      <4>1. got = series BY <2>2, <2>3, <3>2
      <4>q. QED BY <2>9, <3>1, <4>1 DEF Backed
    <3>3. CASE u.of = "positions"
      <4>1. got = positions /\ u.of # "series" BY <2>2, <2>3, <3>3
      <4>q. QED BY <2>9, <3>1, <3>3, <4>1 DEF Backed
    <3>q. QED BY <2>10, <3>2, <3>3
  <2>12. ReaderOK(r)' BY <2>6, <2>7, <2>11 DEF ReaderOK
  <2>q. QED BY <2>4, <2>5, <2>8, <2>12, ReaderMoves
<1>4. CASE ReadFails(r)
  <2>1. reader' = [reader EXCEPT ![r] = Waits] BY <1>4 DEF ReadFails
  <2>2. reader'[r].pc = "idle" BY <1>1, <2>1 DEF TypeOK, Waits
  <2>3. ReaderOK(r)' BY <2>2 DEF ReaderOK
  <2>4. UNCHANGED <<running, enabled, runs, call, syncs, series, positions>>
    BY <1>4 DEF ReadFails
  <2>q. QED BY <2>1, <2>3, <2>4, ReaderMoves
<1>q. QED BY <1>2, <1>3, <1>4 DEF Reading

-----------------------------------------------------------------------------
(* The invariant and the theorems.                                         *)

LEMMA InitInvariant == Init => IInv
<1> SUFFICES ASSUME Init PROVE IInv OBVIOUS
<1>1. /\ running = FALSE /\ enabled \in BOOLEAN /\ runs = 0 /\ syncs = <<>>
      /\ call = [c \in Calls |-> NoCall] /\ reader = [r \in Readers |-> Waits]
      /\ series = Empty /\ positions = Empty
  BY DEF Init
<1>2. 0 \in 0..MaxRuns BY SyncAssumption
<1>3. NoCall \in Call BY <1>2 DEF NoCall, Call, CallPcs, Nothing, Scan
<1>4. Empty \in Table /\ Empty.run = 0 BY <1>2 DEF Empty, Table
<1>5. \A c \in Calls : ~Active(c) BY <1>1 DEF Active, NoCall
<1>6. syncs \in Seq(Row) /\ DOMAIN syncs = {} BY <1>1, EmptySeq
<1>7. TypeOK BY <1>1, <1>2, <1>3, <1>4, <1>5, <1>6 DEF TypeOK
<1>8. TablesOK
  BY <1>1, <1>4, <1>6 DEF TablesOK, SeriesIsOfLastRun, FloorsHold
<1>9. \A c \in Calls : CallOK(c) BY <1>5 DEF CallOK
<1>10. \A r \in Readers : ReaderOK(r) BY <1>1 DEF ReaderOK, Waits
<1>q. QED BY <1>7, <1>8, <1>9, <1>10 DEF IInv

LEMMA NextInvariant == IInv /\ [Next]_vars => IInv'
<1> SUFFICES ASSUME IInv, [Next]_vars PROVE IInv' OBVIOUS
<1>1. ASSUME NEW c \in Calls, Begin(c) PROVE IInv' BY <1>1, BeginStep
<1>2. ASSUME NEW c \in Calls, Progress(c) PROVE IInv'
  BY <1>2, WalkSteps, RecordFailureStep, ReplacePositionsStep, FailsStep,
     ReplaceAllStep
     DEF Progress
<1>3. CASE Restart BY <1>3, RestartStep
<1>4. ASSUME NEW r \in Readers, Reading(r) PROVE IInv' BY <1>4, ReadSteps
<1>5. CASE UNCHANGED vars
  BY <1>5 DEF vars, IInv, TypeOK, Active, TablesOK, SeriesIsOfLastRun, FloorsHold,
     IsLastOk, Backed, CallOK, Cleared, ReaderOK
<1>q. QED BY <1>1, <1>2, <1>3, <1>4, <1>5 DEF Next

THEOREM Invariant == Spec => []IInv
BY InitInvariant, NextInvariant, PTL DEF Spec

\* At most one run is in progress, and the flag is up exactly then (sync).
THEOREM TypeCorrect == Spec => []TypeOK
BY Invariant, PTL DEF IInv

\* The series is that of the last successful run (replaceAll, recordFailure).
THEOREM SeriesCorrect == Spec => []SeriesIsOfLastRun
<1>1. IInv => SeriesIsOfLastRun BY DEF IInv, TablesOK
<1>q. QED BY <1>1, Invariant, PTL

\* No sequence of runs, refusals, failures and restarts lets the numbers
\* collapse (floorRefusal).
THEOREM FloorsCorrect == Spec => []FloorsHold
<1>1. IInv => FloorsHold BY DEF IInv, TablesOK
<1>q. QED BY <1>1, Invariant, PTL

\* What is published is at least as new as its date, and a series not empty
\* (tutorialByBucket, tutorialFreshness, funnelPosition).
THEOREM AnswersCorrect == Spec => []AnswersAreHonest
<1>1. IInv => AnswersAreHonest BY DEF IInv, ReaderOK, AnswersAreHonest
<1>q. QED BY <1>1, Invariant, PTL

=============================================================================
