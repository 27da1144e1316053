-------------------------- MODULE EconomySyncProofs --------------------------
(* Proofs about EconomySync, for any payments, players, answers and bounds.  *)
EXTENDS EconomySync, SequenceTheorems, TLAPS

\* The run of the last successful row, if there is one.
LastRun(j) == {syncs[j][i].run : i \in {i \in DOMAIN syncs[j] : IsLastOk(j, i)}}

Answered == [1..MaxRuns -> Log \cup Payload \cup {Unread}]

\* What a job may hold, of a run whose answer is found.
Has(j, v, found) ==
  IF j = "payments" THEN found \in Log /\ v.left \subseteq Keyed(found.paid)
                    ELSE found \in Payload /\ v.left = {}

JobOK(j) ==
  /\ job[j].pc = "idle" => job[j] = NoJob
  /\ job[j].pc # "idle" => job[j].run \in 1..runs
  /\ job[j].pc # "writing" => job[j].left = {}
  /\ job[j].pc \in {"read", "writing", "written"} =>
       Has(j, job[j], read[job[j].run])

TablesTyped ==
  /\ syncs \in [Jobs -> Seq(Row)]
  /\ payments \in Payments /\ creations \in Creations /\ dimension \in Dimension

\* A run has its own number, and is answered once.
RunsOK ==
  /\ \A n \in 1..MaxRuns : n > runs => read[n] = Unread
  /\ \A j \in Jobs : job[j].pc = "reading" => read[job[j].run] = Unread
  /\ \A j, k \in Jobs : j # k /\ job[j].pc # "idle" /\ job[k].pc # "idle" =>
       job[j].run # job[k].run

\* No row of a job is newer than the run it is in, or than the last run.
Limit(j) == IF job[j].pc = "idle" THEN runs ELSE job[j].run

AgesOK ==
  /\ \A j \in Jobs : \A n \in Ok(j) : n \in 1..MaxRuns /\ n <= Limit(j)
  /\ \A row \in Keys \X Ordinals : payments[row] <= Limit("payments")
  /\ creations.run <= Limit("payments")
  /\ \A u \in Players : dimension[u] <= Limit("dimension")

\* Between two chunks, what is no longer left has been written.
CopyOK ==
  LET run == job["payments"].run IN
  /\ CopyHoldsWhatWasRead
  /\ \A n \in Ok("payments") : read[n] \in Log
  /\ job["payments"].pc \in {"writing", "written"} =>
       \A row \in Keyed(read[run].paid) \ job["payments"].left : payments[row] >= run

\* The series is of one log, whose count passed the floors.
SeriesWhole ==
  creations.run > 0 =>
    /\ read[creations.run] \in Log
    /\ creations.rows = read[creations.run].dated
    /\ read[creations.run].created > 0
    /\ \A n \in LastRun("payments") :
         2 * read[creations.run].created >= read[n].created

\* What is being written passed the floor; what is written is not yet on record.
SeriesOK ==
  LET run == job["payments"].run IN
  /\ \A n \in Ok("payments") : creations.run >= n
  /\ SeriesWhole
  /\ job["payments"].pc = "writing" =>
       /\ read[run].created > 0
       /\ \A n \in LastRun("payments") : 2 * read[run].created >= read[n].created
  /\ job["payments"].pc = "written" => creations.run = run

DimensionOK ==
  LET run == job["dimension"].run IN
  /\ DimensionIsWhole
  /\ \A n \in Ok("dimension") : read[n] \in Payload
  /\ \A u \in Players : dimension[u] > 0 => read[dimension[u]] \in Payload
  /\ job["dimension"].pc = "written" =>
       \A u \in read[run].players : dimension[u] >= run

IInv == TypeOK /\ RunsOK /\ AgesOK /\ CopyOK /\ SeriesOK /\ DimensionOK

-----------------------------------------------------------------------------
(* Types.                                                                  *)

LEMMA Distinct ==
  Unread \notin Log /\ Unread \notin Payload
<1>1. ASSUME NEW l \in Log PROVE l # Unread
  <2>1. DOMAIN l = {"paid", "created", "dated"} BY DEF Log
  <2>2. DOMAIN Unread = {"unread"} BY DEF Unread
  <2>q. QED BY <2>1, <2>2
<1>2. ASSUME NEW p \in Payload PROVE p # Unread
  <2>1. DOMAIN p = {"players", "rows"} BY DEF Payload
  <2>2. DOMAIN Unread = {"unread"} BY DEF Unread
  <2>q. QED BY <2>1, <2>2
<1>q. QED BY <1>1, <1>2

LEMMA TypeParts ==
  TypeOK <=> /\ runs \in 0..MaxRuns /\ job \in [Jobs -> Job] /\ read \in Answered
             /\ TablesTyped /\ \A j \in Jobs : JobOK(j)
<1>1. Jobs = {"payments", "dimension"} BY DEF Jobs
<1>q. QED BY <1>1 DEF TypeOK, Answered, TablesTyped, JobOK, Has

LEMMA GotoIsSet ==
  ASSUME TypeOK, NEW j \in Jobs, NEW pc, Goto(j, pc)
  PROVE  job' = [job EXCEPT ![j] =
           [pc |-> pc, run |-> job[j].run, left |-> job[j].left]]
<1>1. PICK u \in Job : u = job[j] BY DEF TypeOK
<1>2. [u EXCEPT !.pc = pc] = [pc |-> pc, run |-> u.run, left |-> u.left]
  BY DEF Job
<1>3. job' = [job EXCEPT ![j] = [u EXCEPT !.pc = pc]] BY <1>1 DEF Goto
<1>q. QED BY <1>1, <1>2, <1>3

\* What a step may do to the answers: add that of the run it is of.
Answers(n) ==
  /\ read' \in Answered
  /\ \A m \in 1..MaxRuns : m # n \/ read[m] # Unread => read'[m] = read[m]

\* A step of one job keeps the types and the runs apart.
LEMMA StepKeeps ==
  ASSUME TypeOK, RunsOK, NEW j \in Jobs, NEW v \in Job,
         job' = [job EXCEPT ![j] = v],
         runs' \in 0..MaxRuns, runs' >= runs, Answers(v.run), TablesTyped',
         v.pc = "idle" => v = NoJob,
         v.pc # "idle" => \/ v.run = job[j].run /\ job[j].pc # "idle"
                          \/ v.run = runs + 1 /\ runs' = runs + 1,
         v.pc # "writing" => v.left = {},
         v.pc = "reading" => read'[v.run] = Unread,
         v.pc \in {"read", "writing", "written"} => Has(j, v, read'[v.run])
  PROVE  /\ TypeOK' /\ RunsOK'
         /\ \A k \in Jobs : /\ Limit(k) \in Nat /\ Limit(k)' \in Nat
                            /\ Limit(k) <= Limit(k)'
<1>a. MaxRuns \in Nat BY EconomyAssumption
<1>0. /\ runs \in 0..MaxRuns /\ job \in [Jobs -> Job] /\ read \in Answered
      /\ \A k \in Jobs : JobOK(k)
  BY TypeParts
<1>1. job' \in [Jobs -> Job] /\ job'[j] = v BY <1>0
<1>2. \A k \in Jobs : k # j => job'[k] = job[k] BY <1>0
<1>3. \A k \in Jobs : job[k].pc \in {"idle", "reading", "read", "writing",
                                     "written", "refused"}
                      /\ job[k].run \in 0..MaxRuns
  BY <1>0 DEF Job
<1>4. v.run \in 0..MaxRuns BY DEF Job
<1>5. v.pc # "idle" => v.run \in 1..runs' BY <1>0, <1>a DEF JobOK
<1>6. ASSUME NEW k \in Jobs, k # j, job[k].pc # "idle"
      PROVE  job[k].run \in 1..runs /\ job[k].run \in 1..MaxRuns /\ job[k].run # v.run
  <2>1. job[k].run \in 1..runs BY <1>0, <1>6 DEF JobOK
  <2>2. CASE v.pc = "idle"
    <3>1. v.run = 0 BY <2>2 DEF NoJob
    <3>q. QED BY <2>1, <3>1, <1>0, <1>a
  <2>3. CASE v.pc # "idle"
    <3>1. CASE v.run = job[j].run /\ job[j].pc # "idle"
      BY <2>1, <3>1, <1>0, <1>6, <1>a DEF RunsOK
    <3>2. CASE v.run = runs + 1 BY <2>1, <3>2, <1>0, <1>a
    <3>q. QED BY <2>3, <3>1, <3>2
  <2>q. QED BY <2>2, <2>3
<1>7. ASSUME NEW k \in Jobs PROVE JobOK(k)'
  <2>1. CASE k = j BY <1>1, <1>5, <2>1 DEF JobOK
  <2>2. CASE k # j
    <3>1. job'[k] = job[k] BY <1>2, <2>2
    <3>2. job[k].pc # "idle" => read'[job[k].run] = read[job[k].run]
      BY <1>6, <2>2 DEF Answers
    <3>3. job[k].pc # "idle" => job[k].run \in 1..runs'
      BY <1>6, <2>2, <1>0, <1>a
    <3>4. JobOK(k) BY <1>0
    <3>q. QED BY <3>1, <3>2, <3>3, <3>4 DEF JobOK
  <2>q. QED BY <2>1, <2>2
<1>8. read' \in Answered BY DEF Answers
<1>9. TypeOK' <=> /\ runs' \in 0..MaxRuns /\ job' \in [Jobs -> Job]
                  /\ read' \in Answered /\ TablesTyped' /\ \A k \in Jobs : JobOK(k)'
  <2>1. Jobs = {"payments", "dimension"} BY DEF Jobs
  <2>q. QED BY <2>1 DEF TypeOK, Answered, TablesTyped, JobOK, Has
<1>10. TypeOK' BY <1>1, <1>7, <1>8, <1>9
<1>11. ASSUME NEW n \in 1..MaxRuns, n > runs' PROVE read'[n] = Unread
  <2>1. n > runs /\ read[n] = Unread BY <1>11, <1>0, <1>a DEF RunsOK
  <2>2. n # v.run
    <3>1. CASE v.pc = "idle" BY <3>1, <1>a DEF NoJob
    <3>2. CASE v.pc # "idle" BY <3>2, <1>5, <1>11, <1>0, <1>a
    <3>q. QED BY <3>1, <3>2
  <2>q. QED BY <2>1, <2>2 DEF Answers
<1>12. ASSUME NEW k \in Jobs, job'[k].pc = "reading"
       PROVE  read'[job'[k].run] = Unread
  <2>1. CASE k = j BY <1>1, <1>12, <2>1
  <2>2. CASE k # j
    <3>1. job'[k] = job[k] /\ job[k].pc = "reading" BY <1>2, <1>12, <2>2
    <3>2. read[job[k].run] = Unread BY <3>1 DEF RunsOK
    <3>q. QED BY <1>6, <2>2, <3>1, <3>2 DEF Answers
  <2>q. QED BY <2>1, <2>2
<1>13. ASSUME NEW k \in Jobs, NEW l \in Jobs, k # l,
              job'[k].pc # "idle", job'[l].pc # "idle"
       PROVE  job'[k].run # job'[l].run
  <2>1. k = j \/ l = j BY <1>13 DEF Jobs
  <2>2. CASE k = j
    <3>1. job'[l] = job[l] BY <1>2, <1>13, <2>2
    <3>q. QED BY <1>1, <1>6, <1>13, <2>2, <3>1
  <2>3. CASE l = j
    <3>1. job'[k] = job[k] BY <1>2, <1>13, <2>3
    <3>q. QED BY <1>1, <1>6, <1>13, <2>3, <3>1
  <2>q. QED BY <2>1, <2>2, <2>3
<1>14. RunsOK' BY <1>11, <1>12, <1>13 DEF RunsOK
<1>15. ASSUME NEW k \in Jobs
       PROVE  /\ Limit(k) \in Nat /\ Limit(k)' \in Nat
              /\ Limit(k) <= Limit(k)'
  <2>1. JobOK(k) /\ Limit(k) \in Nat /\ Limit(k)' \in Nat
    BY <1>0, <1>1, <1>a DEF Limit, JobOK, Job
  <2>2. job[k].pc # "idle" => job[k].run <= runs
    BY <2>1, <1>0, <1>a DEF JobOK
  <2>3. CASE k = j
    BY <1>1, <2>1, <2>2, <2>3, <1>0, <1>a, <1>3 DEF Limit
  <2>4. CASE k # j
    <3>1. job'[k] = job[k] BY <1>2, <2>4
    <3>q. QED BY <3>1, <2>1, <1>0, <1>a DEF Limit
  <2>q. QED BY <2>1, <2>3, <2>4
<1>q. QED BY <1>10, <1>14, <1>15

-----------------------------------------------------------------------------
(* What a step that leaves a table alone keeps of it.                      *)

\* The rows of a job's runs stand for what they stood for.
RowsAsBefore(j) == Ok(j)' = Ok(j) /\ LastRun(j)' = LastRun(j)

LEMMA LastIsOk ==
  ASSUME NEW j \in Jobs
  PROVE  LastRun(j) \subseteq Ok(j)
BY DEF LastRun, Ok, IsLastOk

LEMMA OkInRange ==
  ASSUME TypeOK, NEW j \in Jobs
  PROVE  Ok(j) \subseteq 1..MaxRuns
<1>1. syncs[j] \in Seq(Row) BY DEF TypeOK
<1>2. \A i \in DOMAIN syncs[j] : syncs[j][i] \in Row
  <2>1. PICK n \in Nat : n = Len(syncs[j]) /\ DOMAIN syncs[j] = 1..n
    BY <1>1, LenProperties
  <2>q. QED BY <1>1, <2>1, ElementOfSeq
<1>q. QED BY <1>2 DEF Ok, Row

\* The answer to a run that has one stays.
LEMMA AnswersStay ==
  ASSUME NEW m, Answers(m), NEW n \in 1..MaxRuns, read[n] \in Log \cup Payload
  PROVE  read'[n] = read[n]
BY Distinct DEF Answers

LEMMA CopyKept ==
  ASSUME TypeOK, CopyOK, NEW m, Answers(m), payments' = payments,
         RowsAsBefore("payments"),
         \/ job'["payments"] = job["payments"]
         \/ job'["payments"].pc \notin {"writing", "written"}
  PROVE  CopyOK'
<1>a. MaxRuns \in Nat BY EconomyAssumption
<1>1. "payments" \in Jobs /\ Ok("payments") \subseteq 1..MaxRuns
  BY OkInRange DEF Jobs
<1>2. \A n \in Ok("payments") : read[n] \in Log /\ read'[n] = read[n]
  BY <1>1, AnswersStay DEF CopyOK
<1>3. ASSUME NEW k \in Keys, NEW o \in Ordinals, payments[<<k, o>>] > 0
      PROVE  /\ read[payments[<<k, o>>]] \in Log
             /\ read'[payments[<<k, o>>]] = read[payments[<<k, o>>]]
  <2>1. payments[<<k, o>>] \in 0..MaxRuns BY DEF TypeOK, Payments
  <2>2. payments[<<k, o>>] \in 1..MaxRuns BY <1>3, <2>1, <1>a
  <2>3. read[payments[<<k, o>>]] \in Log BY <1>3 DEF CopyOK, CopyHoldsWhatWasRead
  <2>q. QED BY <2>2, <2>3, AnswersStay
<1>4. CopyHoldsWhatWasRead'
  BY <1>2, <1>3 DEF CopyOK, CopyHoldsWhatWasRead, RowsAsBefore
<1>5. ASSUME job'["payments"].pc \in {"writing", "written"}
      PROVE  \A row \in Keyed(read'[job'["payments"].run].paid)
                         \ job'["payments"].left :
               payments'[row] >= job'["payments"].run
  <2>1. job'["payments"] = job["payments"] BY <1>5
  <2>2. /\ job["payments"].run \in 1..runs /\ runs \in 0..MaxRuns
        /\ read[job["payments"].run] \in Log
    BY <1>1, <1>5, <2>1 DEF TypeOK
  <2>3. read'[job["payments"].run] = read[job["payments"].run]
    BY <2>2, <1>a, AnswersStay
  <2>q. QED BY <1>5, <2>1, <2>3 DEF CopyOK
<1>q. QED BY <1>2, <1>4, <1>5 DEF CopyOK, RowsAsBefore

LEMMA SeriesKept ==
  ASSUME TypeOK, CopyOK, SeriesOK, NEW m, Answers(m), creations' = creations,
         RowsAsBefore("payments"),
         \/ job'["payments"] = job["payments"]
         \/ job'["payments"].pc \notin {"writing", "written"}
  PROVE  SeriesOK'
<1>a. MaxRuns \in Nat BY EconomyAssumption
<1>1. /\ "payments" \in Jobs /\ Ok("payments") \subseteq 1..MaxRuns
      /\ LastRun("payments") \subseteq Ok("payments")
  BY OkInRange, LastIsOk DEF Jobs
<1>2. \A n \in LastRun("payments") : read'[n] = read[n]
  BY <1>1, AnswersStay DEF CopyOK
<1>3. ASSUME job'["payments"].pc \in {"writing", "written"}
      PROVE  /\ job'["payments"] = job["payments"]
             /\ read'[job["payments"].run] = read[job["payments"].run]
  <2>1. job'["payments"] = job["payments"] BY <1>3
  <2>2. /\ job["payments"].run \in 1..runs /\ runs \in 0..MaxRuns
        /\ read[job["payments"].run] \in Log
    BY <1>1, <1>3, <2>1 DEF TypeOK
  <2>q. QED BY <2>1, <2>2, <1>a, AnswersStay
<1>4. SeriesWhole'
  <2>1. creations.run \in 0..MaxRuns BY DEF TypeOK, Creations
  <2>2. creations.run > 0 => /\ read[creations.run] \in Log
                             /\ read'[creations.run] = read[creations.run]
    BY <2>1, <1>a, AnswersStay DEF SeriesOK, SeriesWhole
  <2>q. QED BY <1>2, <2>2 DEF SeriesOK, SeriesWhole, RowsAsBefore
<1>q. QED BY <1>2, <1>3, <1>4 DEF SeriesOK, RowsAsBefore

LEMMA DimensionKept ==
  ASSUME TypeOK, DimensionOK, NEW m, Answers(m), dimension' = dimension,
         RowsAsBefore("dimension"),
         \/ job'["dimension"] = job["dimension"]
         \/ job'["dimension"].pc # "written"
  PROVE  DimensionOK'
<1>a. MaxRuns \in Nat BY EconomyAssumption
<1>1. "dimension" \in Jobs /\ Ok("dimension") \subseteq 1..MaxRuns
  BY OkInRange DEF Jobs
<1>2. \A n \in Ok("dimension") : read[n] \in Payload /\ read'[n] = read[n]
  BY <1>1, AnswersStay DEF DimensionOK
<1>3. ASSUME NEW u \in Players, dimension[u] > 0
      PROVE  /\ read[dimension[u]] \in Payload
             /\ read'[dimension[u]] = read[dimension[u]]
  <2>1. dimension[u] \in 0..MaxRuns BY DEF TypeOK, Dimension
  <2>2. dimension[u] \in 1..MaxRuns BY <1>3, <2>1, <1>a
  <2>3. read[dimension[u]] \in Payload BY <1>3 DEF DimensionOK
  <2>q. QED BY <2>2, <2>3, AnswersStay
<1>4. DimensionIsWhole'
  BY <1>2, <1>3 DEF DimensionOK, DimensionIsWhole, RowsAsBefore
<1>5. ASSUME job'["dimension"].pc = "written"
      PROVE  \A u \in read'[job'["dimension"].run].players :
               dimension'[u] >= job'["dimension"].run
  <2>1. job'["dimension"] = job["dimension"] BY <1>5
  <2>2. /\ job["dimension"].run \in 1..runs /\ runs \in 0..MaxRuns
        /\ read[job["dimension"].run] \in Payload
    BY <1>1, <1>5, <2>1 DEF TypeOK
  <2>3. read'[job["dimension"].run] = read[job["dimension"].run]
    BY <2>2, <1>a, AnswersStay
  <2>q. QED BY <1>5, <2>1, <2>3 DEF DimensionOK
<1>q. QED BY <1>2, <1>3, <1>4, <1>5 DEF DimensionOK, RowsAsBefore

\* What is written is of a run no newer than the limit, which never gets lower.
LEMMA AgesKept ==
  ASSUME AgesOK, TypeOK,
         \A row \in Keys \X Ordinals :
           payments'[row] = payments[row] \/ payments'[row] <= Limit("payments")',
         creations'.run = creations.run \/ creations'.run <= Limit("payments")',
         \A u \in Players :
           dimension'[u] = dimension[u] \/ dimension'[u] <= Limit("dimension")',
         \A j \in Jobs : /\ Limit(j) \in Nat /\ Limit(j)' \in Nat
                         /\ Limit(j) <= Limit(j)'
                         /\ \A n \in Ok(j)' :
                              n \in Ok(j) \/ (n \in 1..MaxRuns /\ n <= Limit(j)')
  PROVE  AgesOK'
<1>a. MaxRuns \in Nat BY EconomyAssumption
<1>1. "payments" \in Jobs /\ "dimension" \in Jobs BY DEF Jobs
<1>2. \A j \in Jobs : \A n \in Ok(j)' : n \in 1..MaxRuns /\ n <= Limit(j)'
  BY <1>a DEF AgesOK
<1>3. \A row \in Keys \X Ordinals : payments'[row] <= Limit("payments")'
  <2>1. \A row \in Keys \X Ordinals : payments[row] \in 0..MaxRuns
    BY DEF TypeOK, Payments
  <2>q. QED BY <1>1, <1>a, <2>1 DEF AgesOK
<1>4. creations'.run <= Limit("payments")'
  BY <1>1, <1>a DEF AgesOK, TypeOK, Creations
<1>5. \A u \in Players : dimension'[u] <= Limit("dimension")'
  <2>1. \A u \in Players : dimension[u] \in 0..MaxRuns
    BY DEF TypeOK, Dimension
  <2>q. QED BY <1>1, <1>a, <2>1 DEF AgesOK
<1>q. QED BY <1>2, <1>3, <1>4, <1>5 DEF AgesOK

-----------------------------------------------------------------------------
(* The steps.                                                              *)

\* A step of one job that leaves the tables alone, and has not the payments
\* written nor about to be.
LEMMA QuietStep ==
  ASSUME IInv, NEW j \in Jobs, NEW v \in Job,
         job' = [job EXCEPT ![j] = v],
         runs' \in 0..MaxRuns, runs' >= runs, Answers(v.run),
         UNCHANGED <<payments, creations, dimension>>,
         syncs' \in [Jobs -> Seq(Row)], \A k \in Jobs : RowsAsBefore(k),
         v.pc = "idle" => v = NoJob,
         v.pc # "idle" => \/ v.run = job[j].run /\ job[j].pc # "idle"
                          \/ v.run = runs + 1 /\ runs' = runs + 1,
         v.pc # "writing" => v.left = {},
         v.pc = "reading" => read'[v.run] = Unread,
         v.pc \in {"read", "writing"} => Has(j, v, read'[v.run]),
         v.pc # "written", v.pc = "writing" => j = "dimension"
  PROVE  IInv'
<1>0. TypeOK /\ RunsOK /\ AgesOK /\ CopyOK /\ SeriesOK /\ DimensionOK
  BY DEF IInv
<1>1. TablesTyped' BY <1>0 DEF TypeOK, TablesTyped, Payments, Creations, Dimension
<1>2. /\ TypeOK' /\ RunsOK'
      /\ \A k \in Jobs : /\ Limit(k) \in Nat /\ Limit(k)' \in Nat
                         /\ Limit(k) <= Limit(k)'
  BY <1>0, <1>1, StepKeeps
<1>3. AgesOK' BY <1>0, <1>2, AgesKept DEF RowsAsBefore
<1>4. job'[j] = v /\ \A k \in Jobs : k # j => job'[k] = job[k]
  BY <1>0 DEF TypeOK
<1>5. /\ "payments" \in Jobs /\ "dimension" \in Jobs
      /\ j = "payments" \/ j = "dimension"
  BY DEF Jobs
<1>6. \/ job'["payments"] = job["payments"]
      \/ job'["payments"].pc \notin {"writing", "written"}
  BY <1>4, <1>5
<1>7. \/ job'["dimension"] = job["dimension"]
      \/ job'["dimension"].pc # "written"
  BY <1>4, <1>5
<1>8. CopyOK' BY <1>0, <1>5, <1>6, CopyKept
<1>9. SeriesOK' BY <1>0, <1>5, <1>6, SeriesKept
<1>10. DimensionOK' BY <1>0, <1>5, <1>7, DimensionKept
<1>q. QED BY <1>2, <1>3, <1>8, <1>9, <1>10 DEF IInv

LEMMA SameAnswers ==
  ASSUME TypeOK, read' = read, NEW m
  PROVE  Answers(m)
BY DEF TypeOK, Answers, Answered

LEMMA SameRows ==
  ASSUME syncs' = syncs, NEW k
  PROVE  RowsAsBefore(k)
BY DEF RowsAsBefore, Ok, LastRun, IsLastOk

LEMMA NoJobIsJob == NoJob \in Job /\ NoJob.pc = "idle" /\ NoJob.run = 0
BY EconomyAssumption DEF NoJob, Job

\* What a job holds, with its numbers.
LEMMA JobHolds ==
  ASSUME TypeOK, NEW j \in Jobs, job[j].pc # "idle"
  PROVE  /\ job[j] \in Job /\ runs \in 0..MaxRuns /\ runs \in Nat
         /\ job[j].run \in 1..runs /\ job[j].run \in 1..MaxRuns
         /\ job[j].pc # "writing" => job[j].left = {}
         /\ job[j].pc \in {"read", "writing", "written"} =>
              Has(j, job[j], read[job[j].run])
<1>a. MaxRuns \in Nat BY EconomyAssumption
<1>1. JobOK(j) /\ job[j] \in Job /\ runs \in 0..MaxRuns BY TypeParts
<1>q. QED BY <1>a, <1>1 DEF JobOK

LEMMA BeginStep ==
  ASSUME IInv, NEW j \in Jobs, Begin(j)
  PROVE  IInv'
<1> DEFINE v == [pc |-> "reading", run |-> runs + 1, left |-> {}]
<1>a. MaxRuns \in Nat BY EconomyAssumption
<1>0. TypeOK /\ RunsOK BY DEF IInv
<1>1. runs \in 0..MaxRuns /\ runs < MaxRuns /\ runs' = runs + 1
      /\ job' = [job EXCEPT ![j] = v]
  BY <1>0 DEF TypeOK, Begin
<1>2. runs' \in 0..MaxRuns /\ runs' >= runs /\ runs + 1 \in 1..MaxRuns
  BY <1>a, <1>1
<1>3. v \in Job /\ v.pc = "reading" /\ v.run = runs + 1 /\ v.left = {}
  BY <1>2 DEF Job
<1> HIDE DEF v
<1>4. UNCHANGED <<payments, creations, dimension>> /\ read' = read /\ syncs' = syncs
  BY DEF Begin
<1>5. syncs' \in [Jobs -> Seq(Row)] /\ \A k \in Jobs : RowsAsBefore(k)
  BY <1>0, <1>4, SameRows DEF TypeOK
<1>6. Answers(v.run) BY <1>0, <1>4, SameAnswers
<1>7. read'[v.run] = Unread
  <2>1. v.run > runs BY <1>1, <1>3
  <2>q. QED BY <1>0, <1>2, <1>3, <1>4, <2>1 DEF RunsOK
<1>q. QED BY <1>1, <1>2, <1>3, <1>4, <1>5, <1>6, <1>7, QuietStep

\* A job gives up, or comes to its end.
LEMMA StopStep ==
  ASSUME IInv, NEW j \in Jobs, NEW v \in Job,
         job' = [job EXCEPT ![j] = v],
         UNCHANGED <<runs, read, payments, creations, dimension>>,
         syncs' \in [Jobs -> Seq(Row)], \A k \in Jobs : RowsAsBefore(k),
         \/ v = NoJob
         \/ /\ job[j].pc # "idle"
            /\ v = [pc |-> "refused", run |-> job[j].run, left |-> {}]
  PROVE  IInv'
<1>a. MaxRuns \in Nat BY EconomyAssumption
<1>0. TypeOK BY DEF IInv
<1>1. runs \in 0..MaxRuns /\ runs' = runs /\ runs' >= runs
  BY <1>0, <1>a DEF TypeOK
<1>2. Answers(v.run) BY <1>0, SameAnswers
<1>3. /\ v.left = {}
      /\ \/ v.pc = "idle" /\ v = NoJob
         \/ v.pc = "refused" /\ v.run = job[j].run /\ job[j].pc # "idle"
  BY DEF NoJob
<1>4. v.pc \notin {"writing", "written", "read", "reading"} BY <1>3
<1>q. QED BY <1>1, <1>2, <1>3, <1>4, QuietStep

LEMMA ReadFailsStep ==
  ASSUME IInv, NEW j \in Jobs, ReadFails(j)
  PROVE  IInv'
<1> DEFINE v == [pc |-> "refused", run |-> job[j].run, left |-> {}]
<1>0. TypeOK BY DEF IInv
<1>1. job[j].pc = "reading" BY DEF ReadFails
<1>2. job[j] \in Job /\ job[j].left = {} BY <1>0, <1>1, JobHolds
<1>3. v \in Job BY <1>2 DEF Job
<1>4. job' = [job EXCEPT ![j] = v] BY <1>0, <1>2, GotoIsSet DEF ReadFails
<1>5. v = [pc |-> "refused", run |-> job[j].run, left |-> {}] OBVIOUS
<1> HIDE DEF v
<1>6. UNCHANGED <<runs, read, syncs, payments, creations, dimension>>
  BY DEF ReadFails
<1>7. syncs' \in [Jobs -> Seq(Row)] /\ \A k \in Jobs : RowsAsBefore(k)
  BY <1>0, <1>6, SameRows DEF TypeOK
<1>q. QED BY <1>1, <1>3, <1>4, <1>5, <1>6, <1>7, StopStep

LEMMA ThrowStep ==
  ASSUME IInv, NEW j \in Jobs, Throw(j)
  PROVE  IInv'
<1>0. TypeOK BY DEF IInv
<1>1. job' = [job EXCEPT ![j] = NoJob] BY DEF Throw
<1>2. UNCHANGED <<runs, read, syncs, payments, creations, dimension>> BY DEF Throw
<1>3. syncs' \in [Jobs -> Seq(Row)] /\ \A k \in Jobs : RowsAsBefore(k)
  BY <1>0, <1>2, SameRows DEF TypeOK
<1>q. QED BY <1>1, <1>2, <1>3, NoJobIsJob, StopStep

LEMMA WriteFailsStep ==
  ASSUME IInv, NEW j \in Jobs, WriteFails(j)
  PROVE  IInv'
<1> DEFINE v == [pc |-> "refused", run |-> job[j].run, left |-> {}]
<1>0. TypeOK BY DEF IInv
<1>1. job[j].pc = "writing" BY DEF WriteFails
<1>2. job[j] \in Job BY <1>0, <1>1, JobHolds
<1>3. v \in Job BY <1>2 DEF Job
<1>4. job' = [job EXCEPT ![j] = v] BY DEF WriteFails
<1>5. v = [pc |-> "refused", run |-> job[j].run, left |-> {}] OBVIOUS
<1> HIDE DEF v
<1>6. UNCHANGED <<runs, read, syncs, payments, creations, dimension>>
  BY DEF WriteFails
<1>7. syncs' \in [Jobs -> Seq(Row)] /\ \A k \in Jobs : RowsAsBefore(k)
  BY <1>0, <1>6, SameRows DEF TypeOK
<1>q. QED BY <1>1, <1>3, <1>4, <1>5, <1>6, <1>7, StopStep

LEMMA RunReads ==
  ASSUME IInv, NEW j \in Jobs, NEW found, Read(j, found),
         IF j = "payments" THEN found \in Log ELSE found \in Payload
  PROVE  IInv'
<1> DEFINE v == [pc |-> "read", run |-> job[j].run, left |-> {}]
<1>a. MaxRuns \in Nat BY EconomyAssumption
<1>0. TypeOK /\ RunsOK BY DEF IInv
<1>1. job[j].pc = "reading" BY DEF Read
<1>2. /\ job[j] \in Job /\ job[j].left = {}
      /\ job[j].run \in 1..MaxRuns /\ runs \in 0..MaxRuns
  BY <1>0, <1>1, JobHolds
<1>3. v \in Job /\ v.pc = "read" /\ v.run = job[j].run /\ v.left = {}
  BY <1>2 DEF Job
<1>4. job' = [job EXCEPT ![j] = v] BY <1>0, <1>2, GotoIsSet DEF Read
<1> HIDE DEF v
<1>5. read' = [read EXCEPT ![job[j].run] = found] BY DEF Read
<1>6. read' \in Answered /\ read'[job[j].run] = found
  BY <1>0, <1>2, <1>5 DEF TypeOK, Answered
<1>7. read[job[j].run] = Unread BY <1>0, <1>1 DEF RunsOK
<1>8. \A m \in 1..MaxRuns : m # job[j].run => read'[m] = read[m]
  BY <1>0, <1>5 DEF TypeOK
<1>9. Answers(v.run) BY <1>3, <1>6, <1>7, <1>8 DEF Answers
<1>10. UNCHANGED <<runs, syncs, payments, creations, dimension>> BY DEF Read
<1>11. syncs' \in [Jobs -> Seq(Row)] /\ \A k \in Jobs : RowsAsBefore(k)
  BY <1>0, <1>10, SameRows DEF TypeOK
<1>12. Has(j, v, read'[v.run]) BY <1>3, <1>6 DEF Has
<1>13. runs' \in 0..MaxRuns /\ runs' >= runs BY <1>2, <1>10, <1>a
<1>q. QED
  BY <1>1, <1>3, <1>4, <1>9, <1>10, <1>11, <1>12, <1>13, QuietStep

\* What passes the floor fills the series with something, and keeps half of it.
LEMMA Passed ==
  ASSUME IInv, job["payments"].pc = "read",
         LET found == read[job["payments"].run] IN
         /\ ~Degenerate("payments", found)
         /\ ~\E i \in DOMAIN syncs["payments"] :
               /\ IsLastOk("payments", i)
               /\ Below("payments", found, read[syncs["payments"][i].run])
  PROVE  LET run == job["payments"].run IN
         /\ read[run].created > 0
         /\ \A n \in LastRun("payments") : 2 * read[run].created >= read[n].created
<1>a. MaxRuns \in Nat BY EconomyAssumption
<1>0. TypeOK /\ CopyOK BY DEF IInv
<1>1. "payments" \in Jobs BY DEF Jobs
<1>2. read[job["payments"].run] \in Log
  BY <1>0, <1>1, JobHolds DEF Has
<1>3. read[job["payments"].run].created \in Nat BY <1>2 DEF Log
<1>4. read[job["payments"].run].created # 0
  BY DEF Degenerate, LogDegenerate
<1>5. ASSUME NEW n \in LastRun("payments")
      PROVE  2 * read[job["payments"].run].created >= read[n].created
  <2>1. read[n] \in Log BY <1>0, <1>1, LastIsOk DEF CopyOK
  <2>2. read[n].created \in Nat BY <2>1 DEF Log
  <2>3. PICK i \in DOMAIN syncs["payments"] :
          IsLastOk("payments", i) /\ syncs["payments"][i].run = n
    BY <1>5 DEF LastRun
  <2>4. ~LogBelow(read[job["payments"].run], read[n])
    BY <2>3 DEF Below
  <2>5. ~Fell(read[job["payments"].run].created, read[n].created)
    BY <2>4 DEF LogBelow
  <2>q. QED BY <1>3, <2>2, <2>5 DEF Fell
<1>q. QED BY <1>3, <1>4, <1>5

LEMMA JudgeStep ==
  ASSUME IInv, NEW j \in Jobs, Judge(j)
  PROVE  IInv'
<1>a. MaxRuns \in Nat BY EconomyAssumption
<1>0. TypeOK /\ RunsOK /\ AgesOK /\ CopyOK /\ SeriesOK /\ DimensionOK
  BY DEF IInv
<1>1. job[j].pc = "read" BY DEF Judge
<1>2. /\ job[j] \in Job /\ job[j].run \in 1..MaxRuns /\ runs \in 0..MaxRuns
      /\ Has(j, job[j], read[job[j].run])
  BY <1>0, <1>1, JobHolds
<1>3. UNCHANGED <<runs, read, syncs, payments, creations, dimension>> BY DEF Judge
<1>4. syncs' \in [Jobs -> Seq(Row)] /\ \A k \in Jobs : RowsAsBefore(k)
  BY <1>0, <1>3, SameRows DEF TypeOK
<1>5. PICK refused \in BOOLEAN :
        /\ refused <=> \/ Degenerate(j, read[job[j].run])
                       \/ \E i \in DOMAIN syncs[j] :
                            /\ IsLastOk(j, i)
                            /\ Below(j, read[job[j].run], read[syncs[j][i].run])
        /\ job' = [job EXCEPT
             ![j] = [pc |-> IF refused THEN "refused" ELSE "writing",
                     run |-> job[j].run,
                     left |-> IF refused \/ j = "dimension"
                              THEN {} ELSE Keyed(read[job[j].run].paid)]]
  BY DEF Judge
<1>6. CASE refused
  <2> DEFINE v == [pc |-> "refused", run |-> job[j].run, left |-> {}]
  <2>1. v \in Job BY <1>2 DEF Job
  <2>2. job' = [job EXCEPT ![j] = v] BY <1>5, <1>6
  <2>3. v = [pc |-> "refused", run |-> job[j].run, left |-> {}] OBVIOUS
  <2> HIDE DEF v
  <2>q. QED BY <1>1, <1>3, <1>4, <2>1, <2>2, <2>3, StopStep
<1>7. CASE ~refused /\ j = "dimension"
  <2> DEFINE v == [pc |-> "writing", run |-> job[j].run, left |-> {}]
  <2>1. v \in Job /\ v.pc = "writing" /\ v.run = job[j].run /\ v.left = {}
    BY <1>2 DEF Job
  <2>2. job' = [job EXCEPT ![j] = v] BY <1>5, <1>7
  <2> HIDE DEF v
  <2>3. Answers(v.run) BY <1>0, <1>3, SameAnswers
  <2>4. runs' \in 0..MaxRuns /\ runs' >= runs BY <1>2, <1>3, <1>a
  <2>5. Has(j, v, read'[v.run]) BY <1>2, <1>3, <1>7, <2>1 DEF Has
  <2>q. QED BY <1>1, <1>3, <1>4, <1>7, <2>1, <2>2, <2>3, <2>4, <2>5, QuietStep
<1>8. CASE ~refused /\ j = "payments"
  <2> DEFINE all == Keyed(read[job[j].run].paid)
             v == [pc |-> "writing", run |-> job[j].run, left |-> all]
  <2>1. all \subseteq Keys \X Ordinals BY DEF Keyed
  <2>2. v \in Job /\ v.pc = "writing" /\ v.run = job[j].run /\ v.left = all
    BY <1>2, <2>1 DEF Job
  <2>3. job' = [job EXCEPT ![j] = v] BY <1>5, <1>8
  <2>4. all = Keyed(read[job[j].run].paid) OBVIOUS
  <2> HIDE DEF v, all
  <2>5. Answers(v.run) BY <1>0, <1>3, SameAnswers
  <2>6. runs' \in 0..MaxRuns /\ runs' >= runs BY <1>2, <1>3, <1>a
  <2>7. Has(j, v, read'[v.run]) BY <1>2, <1>3, <1>8, <2>2, <2>4 DEF Has
  <2>8. TablesTyped'
    BY <1>0, <1>3 DEF TypeOK, TablesTyped, Payments, Creations, Dimension
  <2>9. /\ TypeOK' /\ RunsOK'
        /\ \A k \in Jobs : /\ Limit(k) \in Nat /\ Limit(k)' \in Nat
                           /\ Limit(k) <= Limit(k)'
    BY <1>0, <1>1, <2>2, <2>3, <2>5, <2>6, <2>7, <2>8, StepKeeps
  <2>10. AgesOK' BY <1>0, <1>3, <1>4, <2>9, AgesKept DEF RowsAsBefore
  <2>11. job'["payments"] = v /\ job'["dimension"] = job["dimension"]
    BY <1>0, <1>8, <2>3 DEF TypeOK, Jobs
  <2>12. "dimension" \in Jobs /\ "payments" \in Jobs BY DEF Jobs
  <2>13. DimensionOK'
    BY <1>0, <1>3, <1>4, <2>5, <2>11, <2>12, DimensionKept
  <2>14. CopyOK'
    <3>1. CopyHoldsWhatWasRead'
      BY <1>0, <1>3, <1>4, <2>12 DEF CopyOK, CopyHoldsWhatWasRead, RowsAsBefore
    <3>2. \A n \in Ok("payments")' : read'[n] \in Log
      BY <1>0, <1>3, <1>4, <2>12 DEF CopyOK, RowsAsBefore
    <3>3. Keyed(read'[job'["payments"].run].paid) \ job'["payments"].left = {}
      BY <1>3, <1>8, <2>2, <2>4, <2>11
    <3>q. QED BY <3>1, <3>2, <3>3 DEF CopyOK
  <2>15. SeriesOK'
    <3>1. job["payments"].pc = "read" BY <1>1, <1>8
    <3>2. /\ ~Degenerate("payments", read[job["payments"].run])
          /\ ~\E i \in DOMAIN syncs["payments"] :
               /\ IsLastOk("payments", i)
               /\ Below("payments", read[job["payments"].run],
                                    read[syncs["payments"][i].run])
      BY <1>5, <1>8
    <3>3. /\ read[job["payments"].run].created > 0
          /\ \A n \in LastRun("payments") :
               2 * read[job["payments"].run].created >= read[n].created
      BY <3>1, <3>2, Passed
    <3>4. job'["payments"].run = job["payments"].run /\ job'["payments"].pc = "writing"
      BY <1>8, <2>2, <2>11
    <3>q. QED
      BY <1>0, <1>3, <1>4, <2>12, <3>3, <3>4 DEF SeriesOK, SeriesWhole, RowsAsBefore
  <2>q. QED BY <2>9, <2>10, <2>13, <2>14, <2>15 DEF IInv
<1>9. j = "payments" \/ j = "dimension" BY DEF Jobs
<1>q. QED BY <1>5, <1>6, <1>7, <1>8, <1>9

\* A row more.
LEMMA RowAppended ==
  ASSUME TypeOK, NEW j \in Jobs, NEW row \in Row,
         syncs' = [syncs EXCEPT ![j] = Append(syncs[j], row)]
  PROVE  /\ syncs' \in [Jobs -> Seq(Row)]
         /\ \A k \in Jobs : k # j => RowsAsBefore(k)
         /\ row.status = "error" => RowsAsBefore(j)
         /\ row.status = "ok" => /\ Ok(j)' = Ok(j) \cup {row.run}
                                /\ LastRun(j)' = {row.run}
<1>1. syncs[j] \in Seq(Row) BY DEF TypeOK
<1>2. PICK n \in Nat : n = Len(syncs[j]) /\ DOMAIN syncs[j] = 1..n
  BY <1>1, LenProperties
<1>3. /\ Append(syncs[j], row) \in Seq(Row)
      /\ Len(Append(syncs[j], row)) = n + 1
      /\ \A i \in 1..n : Append(syncs[j], row)[i] = syncs[j][i]
      /\ Append(syncs[j], row)[n + 1] = row
  BY <1>1, <1>2, AppendProperties
<1>4. DOMAIN Append(syncs[j], row) = 1..(n + 1) BY <1>3, LenProperties
<1>5. syncs' \in [Jobs -> Seq(Row)] BY <1>3 DEF TypeOK
<1>6. \A k \in Jobs : k # j => syncs'[k] = syncs[k] BY DEF TypeOK
<1>7. syncs'[j] = Append(syncs[j], row) BY DEF TypeOK
<1>8. ASSUME NEW k \in Jobs, k # j PROVE RowsAsBefore(k)
  BY <1>6, <1>8 DEF RowsAsBefore, Ok, LastRun, IsLastOk
<1>9. /\ DOMAIN syncs'[j] = 1..(n + 1) /\ syncs'[j][n + 1] = row
      /\ \A i \in 1..n : syncs'[j][i] = syncs[j][i]
  BY <1>3, <1>4, <1>7
<1>10. 1..(n + 1) = (1..n) \cup {n + 1} BY <1>2
<1>11. ASSUME row.status = "error" PROVE RowsAsBefore(j)
  <2>1. row.status # "ok" BY <1>11
  <2>2. Ok(j)' = Ok(j) BY <1>2, <1>9, <1>10, <2>1 DEF Ok
  <2>3. \A i \in 1..n : IsLastOk(j, i)' <=> IsLastOk(j, i)
    BY <1>2, <1>9, <1>10, <2>1 DEF IsLastOk
  <2>4. ~IsLastOk(j, n + 1)' BY <1>9, <2>1 DEF IsLastOk
  <2>5. LastRun(j)' = LastRun(j) BY <1>2, <1>9, <1>10, <2>3, <2>4 DEF LastRun
  <2>q. QED BY <2>2, <2>5 DEF RowsAsBefore
<1>12. ASSUME row.status = "ok"
       PROVE  Ok(j)' = Ok(j) \cup {row.run} /\ LastRun(j)' = {row.run}
  <2>1. Ok(j)' = Ok(j) \cup {row.run} BY <1>2, <1>9, <1>10, <1>12 DEF Ok
  <2>2. \A i \in 1..(n + 1) : IsLastOk(j, i)' => i = n + 1
    <3>1. ASSUME NEW i \in 1..(n + 1), IsLastOk(j, i)' PROVE i = n + 1
      <4>1. n + 1 <= i BY <1>2, <1>9, <1>10, <1>12, <3>1 DEF IsLastOk
      <4>q. QED BY <1>2, <4>1
    <3>q. QED BY <3>1
  <2>3. IsLastOk(j, n + 1)'
    <3>1. \A h \in 1..(n + 1) : h <= n + 1 BY <1>2
    <3>q. QED BY <1>2, <1>9, <1>10, <1>12, <3>1 DEF IsLastOk
  <2>4. LastRun(j)' = {row.run} BY <1>2, <1>9, <1>10, <2>2, <2>3 DEF LastRun
  <2>q. QED BY <2>1, <2>4
<1>q. QED BY <1>5, <1>8, <1>11, <1>12

LEMMA FailStep ==
  ASSUME IInv, NEW j \in Jobs, RecordFailure(j)
  PROVE  IInv'
<1> DEFINE row == [status |-> "error", run |-> job[j].run]
<1>0. TypeOK BY DEF IInv
<1>1. job[j].pc = "refused" BY DEF RecordFailure
<1>2. job[j].run \in 1..MaxRuns BY <1>0, <1>1, JobHolds
<1>3. row \in Row /\ row.status = "error" BY <1>2 DEF Row, Status
<1>4. syncs' = [syncs EXCEPT ![j] = Append(syncs[j], row)]
  BY DEF RecordFailure, Record
<1> HIDE DEF row
<1>5. job' = [job EXCEPT ![j] = NoJob]
      /\ UNCHANGED <<runs, read, payments, creations, dimension>>
  BY DEF RecordFailure, Record
<1>6. syncs' \in [Jobs -> Seq(Row)] /\ \A k \in Jobs : RowsAsBefore(k)
  BY <1>0, <1>3, <1>4, RowAppended
<1>q. QED BY <1>5, <1>6, NoJobIsJob, StopStep

\* What recording a success of one job leaves of everything but its own table.
LEMMA Recorded ==
  ASSUME IInv, NEW j \in Jobs, RecordSuccess(j)
  PROVE  /\ job[j].pc = "written" /\ job[j].run \in 1..MaxRuns /\ job[j].left = {}
         /\ Has(j, job[j], read[job[j].run])
         /\ TypeOK' /\ RunsOK' /\ AgesOK'
         /\ Ok(j)' = Ok(j) \cup {job[j].run} /\ LastRun(j)' = {job[j].run}
         /\ \A k \in Jobs : k # j => RowsAsBefore(k) /\ job'[k] = job[k]
         /\ job'[j].pc = "idle" /\ Answers(0)
         /\ UNCHANGED <<read, payments, creations, dimension>>
<1> DEFINE row == [status |-> "ok", run |-> job[j].run]
<1>a. MaxRuns \in Nat BY EconomyAssumption
<1>0. TypeOK /\ RunsOK /\ AgesOK BY DEF IInv
<1>1. job[j].pc = "written" BY DEF RecordSuccess
<1>2. /\ job[j].run \in 1..MaxRuns /\ job[j].run \in 1..runs
      /\ runs \in 0..MaxRuns /\ job[j].left = {}
      /\ Has(j, job[j], read[job[j].run])
  BY <1>0, <1>1, JobHolds
<1>3. row \in Row /\ row.status = "ok" /\ row.run = job[j].run
  BY <1>2 DEF Row, Status
<1>4. syncs' = [syncs EXCEPT ![j] = Append(syncs[j], row)]
  BY DEF RecordSuccess, Record
<1> HIDE DEF row
<1>5. job' = [job EXCEPT ![j] = NoJob]
      /\ UNCHANGED <<runs, read, payments, creations, dimension>>
  BY DEF RecordSuccess, Record
<1>6. /\ syncs' \in [Jobs -> Seq(Row)]
      /\ \A k \in Jobs : k # j => RowsAsBefore(k)
      /\ Ok(j)' = Ok(j) \cup {job[j].run} /\ LastRun(j)' = {job[j].run}
  BY <1>0, <1>3, <1>4, RowAppended
<1>7. TablesTyped'
  BY <1>0, <1>5, <1>6 DEF TypeOK, TablesTyped, Payments, Creations, Dimension
<1>8. Answers(0) /\ Answers(NoJob.run) BY <1>0, <1>5, SameAnswers
<1>9. runs' \in 0..MaxRuns /\ runs' >= runs BY <1>2, <1>5, <1>a
<1>10. NoJob \in Job /\ NoJob.pc = "idle" /\ NoJob.run = 0 /\ NoJob.left = {}
  BY NoJobIsJob DEF NoJob
<1>11. /\ TypeOK' /\ RunsOK'
       /\ \A k \in Jobs : /\ Limit(k) \in Nat /\ Limit(k)' \in Nat
                          /\ Limit(k) <= Limit(k)'
  BY <1>0, <1>5, <1>7, <1>8, <1>9, <1>10, StepKeeps
<1>12. job'[j] = NoJob /\ \A k \in Jobs : k # j => job'[k] = job[k]
  BY <1>0, <1>5 DEF TypeOK
<1>13. job[j].run <= Limit(j)'
  <2>1. Limit(j)' = runs BY <1>5, <1>10, <1>12 DEF Limit
  <2>q. QED BY <1>2, <1>a, <2>1
<1>14. ASSUME NEW k \in Jobs, NEW n \in Ok(k)'
       PROVE  n \in Ok(k) \/ (n \in 1..MaxRuns /\ n <= Limit(k)')
  <2>1. CASE k = j BY <1>2, <1>6, <1>13, <1>14, <2>1
  <2>2. CASE k # j BY <1>6, <1>14, <2>2 DEF RowsAsBefore
  <2>q. QED BY <2>1, <2>2
<1>15. AgesOK' BY <1>0, <1>5, <1>11, <1>14, AgesKept
<1>q. QED BY <1>1, <1>2, <1>5, <1>6, <1>8, <1>10, <1>11, <1>12, <1>15

LEMMA PaymentsRecorded ==
  ASSUME IInv, RecordSuccess("payments")
  PROVE  IInv'
<1> DEFINE run == job["payments"].run
<1>a. MaxRuns \in Nat BY EconomyAssumption
<1>b. "payments" \in Jobs /\ "dimension" \in Jobs /\ "payments" # "dimension"
  BY DEF Jobs
<1>0. TypeOK /\ AgesOK /\ CopyOK /\ SeriesOK /\ DimensionOK BY DEF IInv
<1>1. /\ job["payments"].pc = "written" /\ job["payments"].run \in 1..MaxRuns
      /\ job["payments"].left = {} /\ read[job["payments"].run] \in Log
      /\ TypeOK' /\ RunsOK' /\ AgesOK'
      /\ Ok("payments")' = Ok("payments") \cup {job["payments"].run}
      /\ LastRun("payments")' = {job["payments"].run}
      /\ RowsAsBefore("dimension") /\ job'["dimension"] = job["dimension"]
      /\ job'["payments"].pc = "idle" /\ Answers(0)
      /\ UNCHANGED <<read, payments, creations, dimension>>
  BY <1>b, Recorded DEF Has
<1>2. DimensionOK' BY <1>0, <1>1, <1>b, DimensionKept
<1>3. CopyOK'
  <2>1. ASSUME NEW k \in Keys, NEW o \in Ordinals, o < read[run].paid[k]
        PROVE  payments[<<k, o>>] >= run
    <3>1. <<k, o>> \in Keyed(read[run].paid) \ job["payments"].left
      BY <1>1, <2>1 DEF Keyed
    <3>q. QED BY <1>0, <1>1, <3>1 DEF CopyOK
  <2>2. CopyHoldsWhatWasRead'
    BY <1>0, <1>1, <2>1 DEF CopyOK, CopyHoldsWhatWasRead
  <2>3. \A n \in Ok("payments")' : read'[n] \in Log BY <1>0, <1>1 DEF CopyOK
  <2>q. QED BY <1>1, <2>2, <2>3 DEF CopyOK
<1>4. SeriesOK'
  <2>1. creations.run = run BY <1>0, <1>1 DEF SeriesOK
  <2>2. \A n \in Ok("payments") : n \in 1..MaxRuns /\ n <= run
    BY <1>0, <1>1, <1>b DEF AgesOK, Limit
  <2>3. \A n \in Ok("payments")' : creations'.run >= n
    BY <1>1, <1>a, <2>1, <2>2
  <2>4. read[run].created \in Nat BY <1>1 DEF Log
  <2>5. SeriesWhole' BY <1>0, <1>1, <2>1, <2>4 DEF SeriesOK, SeriesWhole
  <2>q. QED BY <1>0, <1>1, <2>3, <2>5 DEF SeriesOK
<1>q. QED BY <1>1, <1>2, <1>3, <1>4 DEF IInv

LEMMA DimensionRecorded ==
  ASSUME IInv, RecordSuccess("dimension")
  PROVE  IInv'
<1>b. "payments" \in Jobs /\ "dimension" \in Jobs /\ "payments" # "dimension"
  BY DEF Jobs
<1>0. TypeOK /\ AgesOK /\ CopyOK /\ SeriesOK /\ DimensionOK BY DEF IInv
<1>1. /\ job["dimension"].pc = "written"
      /\ read[job["dimension"].run] \in Payload
      /\ TypeOK' /\ RunsOK' /\ AgesOK'
      /\ Ok("dimension")' = Ok("dimension") \cup {job["dimension"].run}
      /\ RowsAsBefore("payments") /\ job'["payments"] = job["payments"]
      /\ job'["dimension"].pc = "idle" /\ Answers(0)
      /\ UNCHANGED <<read, payments, creations, dimension>>
  BY <1>b, Recorded DEF Has
<1>2. CopyOK' BY <1>0, <1>1, <1>b, CopyKept
<1>3. SeriesOK' BY <1>0, <1>1, <1>b, SeriesKept
<1>4. DimensionOK'
  <2>1. \A v \in read[job["dimension"].run].players :
          dimension[v] >= job["dimension"].run
    BY <1>0, <1>1 DEF DimensionOK
  <2>2. DimensionIsWhole'
    BY <1>0, <1>1, <2>1 DEF DimensionOK, DimensionIsWhole
  <2>3. \A n \in Ok("dimension")' : read'[n] \in Payload
    BY <1>0, <1>1 DEF DimensionOK
  <2>q. QED BY <1>0, <1>1, <2>2, <2>3 DEF DimensionOK
<1>q. QED BY <1>1, <1>2, <1>3, <1>4 DEF IInv

\* What a write leaves of everything but its own table.
LEMMA WriteKeeps ==
  ASSUME IInv, NEW j \in Jobs, NEW v \in Job, job[j].pc = "writing",
         job' = [job EXCEPT ![j] = v],
         UNCHANGED <<runs, read, syncs>>,
         payments' \in Payments, creations' \in Creations, dimension' \in Dimension,
         \A row \in Keys \X Ordinals :
           payments'[row] = payments[row] \/ (j = "payments" /\ payments'[row] = v.run),
         creations' = creations \/ (j = "payments" /\ creations'.run = v.run),
         \A u \in Players :
           dimension'[u] = dimension[u] \/ (j = "dimension" /\ dimension'[u] = v.run),
         v.run = job[j].run, v.pc \in {"writing", "written"},
         v.left \subseteq job[j].left, v.pc = "written" => v.left = {}
  PROVE  /\ TypeOK' /\ RunsOK' /\ AgesOK'
         /\ job'[j] = v /\ \A k \in Jobs : k # j => job'[k] = job[k]
         /\ \A k \in Jobs : RowsAsBefore(k)
         /\ job[j].run \in 1..MaxRuns /\ Has(j, job[j], read[job[j].run])
         /\ Answers(0)
<1>a. MaxRuns \in Nat BY EconomyAssumption
<1>0. TypeOK /\ RunsOK /\ AgesOK BY DEF IInv
<1>1. /\ job[j].run \in 1..MaxRuns /\ runs \in 0..MaxRuns
      /\ Has(j, job[j], read[job[j].run])
  BY <1>0, JobHolds
<1>2. runs' \in 0..MaxRuns /\ runs' >= runs BY <1>1, <1>a
<1>3. Answers(v.run) /\ Answers(0) BY <1>0, SameAnswers
<1>4. Has(j, v, read'[v.run]) BY <1>1 DEF Has
<1>5. TablesTyped' BY <1>0 DEF TypeOK, TablesTyped
<1>6. v.pc # "idle" /\ v.pc # "reading" /\ job[j].pc # "idle"
      /\ (v.pc # "writing" => v.left = {})
  OBVIOUS
<1>7. /\ TypeOK' /\ RunsOK'
      /\ \A k \in Jobs : /\ Limit(k) \in Nat /\ Limit(k)' \in Nat
                         /\ Limit(k) <= Limit(k)'
  BY <1>0, <1>2, <1>3, <1>4, <1>5, <1>6, StepKeeps
<1>8. job'[j] = v /\ \A k \in Jobs : k # j => job'[k] = job[k]
  BY <1>0 DEF TypeOK
<1>9. Limit(j)' = v.run /\ v.run <= Limit(j)' BY <1>1, <1>6, <1>8 DEF Limit
<1>10. \A k \in Jobs : RowsAsBefore(k) BY SameRows
<1>11. \A row \in Keys \X Ordinals :
         payments'[row] = payments[row] \/ payments'[row] <= Limit("payments")'
  BY <1>9
<1>12. creations'.run = creations.run \/ creations'.run <= Limit("payments")'
  BY <1>9
<1>13. \A u \in Players :
         dimension'[u] = dimension[u] \/ dimension'[u] <= Limit("dimension")'
  BY <1>9
<1>14. AgesOK' BY <1>0, <1>7, <1>10, <1>11, <1>12, <1>13, AgesKept DEF RowsAsBefore
<1>q. QED BY <1>1, <1>3, <1>7, <1>8, <1>10, <1>14

LEMMA UpsertChunkStep ==
  ASSUME IInv, UpsertChunk
  PROVE  IInv'
<1> DEFINE run == job["payments"].run
           before == job["payments"].left
<1>a. MaxRuns \in Nat BY EconomyAssumption
<1>b. "payments" \in Jobs /\ "dimension" \in Jobs /\ "payments" # "dimension"
  BY DEF Jobs
<1>0. TypeOK /\ AgesOK /\ CopyOK /\ SeriesOK /\ DimensionOK BY DEF IInv
<1>1. job["payments"].pc = "writing" BY DEF UpsertChunk
<1>2. PICK chunk \in SUBSET before :
        /\ payments' = [row \in Keys \X Ordinals |->
             IF row \in chunk THEN run ELSE payments[row]]
        /\ job' = [job EXCEPT !["payments"].left = before \ chunk]
  BY DEF UpsertChunk
<1>3. UNCHANGED <<runs, read, syncs, creations, dimension>> BY DEF UpsertChunk
<1>4. /\ job["payments"] \in Job /\ run \in 1..MaxRuns
      /\ read[run] \in Log /\ before \subseteq Keyed(read[run].paid)
  BY <1>0, <1>1, <1>b, JobHolds DEF Has
<1> DEFINE v == [pc |-> "writing", run |-> run, left |-> before \ chunk]
<1>5. v \in Job BY <1>4 DEF Job
<1>6. job' = [job EXCEPT !["payments"] = v]
  <2>1. PICK u \in Job : u = job["payments"] BY <1>4
  <2>2. [u EXCEPT !.left = before \ chunk]
          = [pc |-> u.pc, run |-> u.run, left |-> before \ chunk]
    BY DEF Job
  <2>q. QED BY <1>1, <1>2, <2>1, <2>2
<1>7. v.pc = "writing" /\ v.run = run /\ v.left = before \ chunk OBVIOUS
<1> HIDE DEF v
<1>8. payments' \in Payments
  <2>1. \A row \in Keys \X Ordinals : payments[row] \in 0..MaxRuns /\ run \in 0..MaxRuns
    BY <1>0, <1>4, <1>a DEF TypeOK, Payments
  <2>q. QED BY <1>2, <2>1 DEF Payments
<1>9. creations' \in Creations /\ dimension' \in Dimension
  BY <1>0, <1>3 DEF TypeOK, Creations, Dimension
<1>10. \A row \in Keys \X Ordinals :
         /\ row \in chunk => payments'[row] = run
         /\ row \notin chunk => payments'[row] = payments[row]
  BY <1>2
<1>11. /\ TypeOK' /\ RunsOK' /\ AgesOK' /\ job'["payments"] = v
       /\ job'["dimension"] = job["dimension"]
       /\ RowsAsBefore("payments") /\ RowsAsBefore("dimension") /\ Answers(0)
  <2>1. \A row \in Keys \X Ordinals :
          payments'[row] = payments[row] \/ payments'[row] = v.run
    BY <1>7, <1>10
  <2>2. creations' = creations /\ \A u \in Players : dimension'[u] = dimension[u]
    BY <1>3
  <2>3. UNCHANGED <<runs, read, syncs>> BY <1>3
  <2>4. v.run = run /\ v.pc = "writing" /\ v.left \subseteq before BY <1>7
  <2> HIDE DEF run, before
  <2>5. /\ TypeOK' /\ RunsOK' /\ AgesOK' /\ job'["payments"] = v
        /\ \A k \in Jobs : k # "payments" => job'[k] = job[k]
        /\ \A k \in Jobs : RowsAsBefore(k)
        /\ Answers(0)
    BY <1>b, <1>1, <1>5, <1>6, <1>8, <1>9, <2>1, <2>2, <2>3, <2>4, WriteKeeps DEF run, before
  <2>q. QED BY <1>b, <2>5
<1>12. DimensionOK' BY <1>0, <1>3, <1>11, DimensionKept
<1>13. SeriesOK'
  <2>1. job'["payments"].pc = "writing" /\ job'["payments"].run = run
    BY <1>7, <1>11
  <2>2. /\ Ok("payments")' = Ok("payments")
        /\ LastRun("payments")' = LastRun("payments")
    BY <1>11 DEF RowsAsBefore
  <2>q. QED BY <1>0, <1>1, <1>3, <2>1, <2>2 DEF SeriesOK, SeriesWhole
<1>14. CopyOK'
  <2>1. Ok("payments")' = Ok("payments") BY <1>11 DEF RowsAsBefore
  <2>2. \A n \in Ok("payments") : n \in 1..MaxRuns /\ n <= run
    BY <1>0, <1>1, <1>b DEF AgesOK, Limit
  <2>3. ASSUME NEW n \in Ok("payments"), NEW k \in Keys, NEW o \in Ordinals,
               o < read[n].paid[k]
        PROVE  payments'[<<k, o>>] >= n
    <3>1. payments[<<k, o>>] >= n
      BY <1>0, <2>3 DEF CopyOK, CopyHoldsWhatWasRead
    <3>q. QED BY <1>4, <1>10, <1>a, <2>2, <3>1
  <2>4. ASSUME NEW k \in Keys, NEW o \in Ordinals, payments'[<<k, o>>] > 0
        PROVE  /\ read[payments'[<<k, o>>]] \in Log
               /\ o < read[payments'[<<k, o>>]].paid[k]
    <3>1. CASE <<k, o>> \in chunk
      <4>1. payments'[<<k, o>>] = run BY <1>10, <3>1
      <4>2. <<k, o>> \in Keyed(read[run].paid) BY <1>4, <3>1
      <4>q. QED BY <1>4, <4>1, <4>2 DEF Keyed
    <3>2. CASE <<k, o>> \notin chunk
      <4>1. payments'[<<k, o>>] = payments[<<k, o>>] BY <1>10, <3>2
      <4>q. QED BY <1>0, <2>4, <4>1 DEF CopyOK, CopyHoldsWhatWasRead
    <3>q. QED BY <3>1, <3>2
  <2>5. CopyHoldsWhatWasRead'
    BY <1>3, <2>1, <2>3, <2>4 DEF CopyHoldsWhatWasRead
  <2>6. ASSUME NEW row \in Keyed(read[run].paid) \ v.left
        PROVE  payments'[row] >= run
    <3>1. row \in Keys \X Ordinals BY DEF Keyed
    <3>2. CASE row \in chunk BY <1>4, <1>10, <3>1, <3>2
    <3>3. CASE row \notin chunk
      <4>1. row \in Keyed(read[run].paid) \ before BY <1>7, <2>6, <3>3
      <4>2. payments[row] >= run BY <1>0, <1>1, <4>1 DEF CopyOK
      <4>q. QED BY <1>10, <3>1, <3>3, <4>2
    <3>q. QED BY <3>2, <3>3
  <2>7. \A n \in Ok("payments")' : read'[n] \in Log
    BY <1>0, <1>3, <2>1 DEF CopyOK
  <2>8. job'["payments"].run = run /\ job'["payments"].left = v.left
    BY <1>7, <1>11
  <2>q. QED BY <1>3, <2>5, <2>6, <2>7, <2>8 DEF CopyOK
<1>q. QED BY <1>11, <1>12, <1>13, <1>14 DEF IInv

LEMMA ReplaceCreationsStep ==
  ASSUME IInv, ReplaceCreations
  PROVE  IInv'
<1> DEFINE run == job["payments"].run
           v == [pc |-> "written", run |-> run, left |-> {}]
<1>a. MaxRuns \in Nat BY EconomyAssumption
<1>b. "payments" \in Jobs /\ "dimension" \in Jobs /\ "payments" # "dimension"
  BY DEF Jobs
<1>0. TypeOK /\ AgesOK /\ CopyOK /\ SeriesOK /\ DimensionOK BY DEF IInv
<1>1. job["payments"].pc = "writing" /\ job["payments"].left = {}
  BY DEF ReplaceCreations
<1>2. /\ job["payments"] \in Job /\ run \in 1..MaxRuns /\ read[run] \in Log
  BY <1>0, <1>1, <1>b, JobHolds DEF Has
<1>3. UNCHANGED <<runs, read, syncs, payments, dimension>> BY DEF ReplaceCreations
<1>4. v \in Job BY <1>2 DEF Job
<1>5. job' = [job EXCEPT !["payments"] = v]
  BY <1>0, <1>1, <1>b, GotoIsSet DEF ReplaceCreations
<1>6. v.pc = "written" /\ v.run = run /\ v.left = {} OBVIOUS
<1> HIDE DEF v
<1>7. creations' = [run |-> run, rows |-> read[run].dated]
  BY DEF ReplaceCreations, DailySeries
<1>8. creations'.run = run /\ creations'.rows = read[run].dated BY <1>7
<1>9. read[run].dated \in Nat BY <1>2 DEF Log
<1>10. creations' \in Creations BY <1>2, <1>7, <1>9, <1>a DEF Creations
<1>11. payments' \in Payments /\ dimension' \in Dimension
  BY <1>0, <1>3 DEF TypeOK, Payments, Dimension
<1>12. /\ TypeOK' /\ RunsOK' /\ AgesOK' /\ job'["payments"] = v
       /\ job'["dimension"] = job["dimension"]
       /\ RowsAsBefore("payments") /\ RowsAsBefore("dimension") /\ Answers(0)
  BY <1>b, <1>1, <1>3, <1>4, <1>5, <1>6, <1>8, <1>10, <1>11, WriteKeeps
<1>13. DimensionOK' BY <1>0, <1>3, <1>12, DimensionKept
<1>14. /\ Ok("payments")' = Ok("payments")
       /\ LastRun("payments")' = LastRun("payments")
  BY <1>12 DEF RowsAsBefore
<1>15. /\ job'["payments"].pc = "written" /\ job'["payments"].run = run
       /\ job'["payments"].left = {}
  BY <1>6, <1>12
<1>16. CopyOK'
  <2>1. CopyHoldsWhatWasRead' BY <1>0, <1>3, <1>14 DEF CopyOK, CopyHoldsWhatWasRead
  <2>2. \A n \in Ok("payments")' : read'[n] \in Log
    BY <1>0, <1>3, <1>14 DEF CopyOK
  <2>3. \A row \in Keyed(read[run].paid) \ {} : payments[row] >= run
    BY <1>0, <1>1 DEF CopyOK
  <2>q. QED BY <1>3, <1>15, <2>1, <2>2, <2>3 DEF CopyOK
<1>17. SeriesOK'
  <2>1. \A n \in Ok("payments") : n \in 1..MaxRuns /\ n <= run
    BY <1>0, <1>1, <1>b DEF AgesOK, Limit
  <2>2. /\ read[run].created > 0
        /\ \A n \in LastRun("payments") : 2 * read[run].created >= read[n].created
    BY <1>0, <1>1 DEF SeriesOK
  <2>3. \A n \in Ok("payments") : run >= n BY <1>2, <1>a, <2>1
  <2>4. SeriesWhole' BY <1>2, <1>3, <1>8, <1>14, <2>2 DEF SeriesWhole
  <2>q. QED BY <1>3, <1>8, <1>14, <1>15, <2>3, <2>4 DEF SeriesOK
<1>q. QED BY <1>12, <1>13, <1>16, <1>17 DEF IInv

LEMMA UpsertDimensionStep ==
  ASSUME IInv, UpsertDimension
  PROVE  IInv'
<1> DEFINE run == job["dimension"].run
           v == [pc |-> "written", run |-> run, left |-> {}]
<1>a. MaxRuns \in Nat BY EconomyAssumption
<1>b. "payments" \in Jobs /\ "dimension" \in Jobs /\ "payments" # "dimension"
  BY DEF Jobs
<1>0. TypeOK /\ AgesOK /\ CopyOK /\ SeriesOK /\ DimensionOK BY DEF IInv
<1>1. job["dimension"].pc = "writing" BY DEF UpsertDimension
<1>2. /\ job["dimension"] \in Job /\ run \in 1..MaxRuns /\ read[run] \in Payload
      /\ job["dimension"].left = {}
  BY <1>0, <1>1, <1>b, JobHolds DEF Has
<1>3. UNCHANGED <<runs, read, syncs, payments, creations>> BY DEF UpsertDimension
<1>4. v \in Job BY <1>2 DEF Job
<1>5. job' = [job EXCEPT !["dimension"] = v]
  BY <1>0, <1>2, <1>b, GotoIsSet DEF UpsertDimension
<1>6. v.pc = "written" /\ v.run = run /\ v.left = {} OBVIOUS
<1> HIDE DEF v
<1>7. dimension' = [u \in Players |->
        IF u \in read[run].players THEN run ELSE dimension[u]]
  BY DEF UpsertDimension
<1>8. \A u \in Players : /\ u \in read[run].players => dimension'[u] = run
                         /\ u \notin read[run].players => dimension'[u] = dimension[u]
  BY <1>7
<1>9. dimension' \in Dimension
  <2>1. \A u \in Players : dimension[u] \in 0..MaxRuns /\ run \in 0..MaxRuns
    BY <1>0, <1>2, <1>a DEF TypeOK, Dimension
  <2>q. QED BY <1>7, <2>1 DEF Dimension
<1>10. payments' \in Payments /\ creations' \in Creations
  BY <1>0, <1>3 DEF TypeOK, Payments, Creations
<1>11. /\ TypeOK' /\ RunsOK' /\ AgesOK' /\ job'["dimension"] = v
       /\ job'["payments"] = job["payments"]
       /\ RowsAsBefore("payments") /\ RowsAsBefore("dimension") /\ Answers(0)
  BY <1>b, <1>1, <1>3, <1>4, <1>5, <1>6, <1>8, <1>9, <1>10, WriteKeeps
<1>12. CopyOK' /\ SeriesOK' BY <1>0, <1>3, <1>11, CopyKept, SeriesKept
<1>13. DimensionOK'
  <2>1. Ok("dimension")' = Ok("dimension") BY <1>11 DEF RowsAsBefore
  <2>2. read[run].players \subseteq Players BY <1>2 DEF Payload
  <2>3. \A u \in Players : dimension[u] \in Nat /\ dimension[u] <= run
    BY <1>0, <1>1, <1>b, <1>a DEF AgesOK, Limit, TypeOK, Dimension
  <2>4. \A n \in Ok("dimension") : n \in Nat /\ n <= run
    BY <1>0, <1>1, <1>b, <1>a DEF AgesOK, Limit
  <2>5. \A u \in Players : dimension'[u] >= dimension[u]
    BY <1>2, <1>8, <2>3
  <2>6. \A u \in read[run].players : dimension'[u] >= run BY <1>2, <1>8, <2>2
  <2>7. ASSUME NEW u \in Players, dimension'[u] > 0
        PROVE  /\ read[dimension'[u]] \in Payload
               /\ \A w \in read[dimension'[u]].players :
                    dimension'[w] >= dimension'[u]
    <3>1. CASE u \in read[run].players BY <1>2, <1>8, <2>6, <3>1
    <3>2. CASE u \notin read[run].players
      <4>1. dimension'[u] = dimension[u] BY <1>8, <3>2
      <4>2. read[dimension[u]] \in Payload
        BY <1>0, <2>7, <4>1 DEF DimensionOK
      <4>3. ASSUME NEW w \in read[dimension[u]].players
            PROVE  dimension'[w] >= dimension'[u]
        <5>1. w \in Players BY <4>2 DEF Payload
        <5>2. dimension[w] >= dimension[u]
          BY <1>0, <2>7, <4>1 DEF DimensionOK, DimensionIsWhole
        <5>3. dimension'[w] \in Nat BY <1>9, <1>a, <5>1 DEF Dimension
        <5>q. QED BY <2>3, <2>5, <4>1, <5>1, <5>2, <5>3
      <4>q. QED BY <4>1, <4>2, <4>3
    <3>q. QED BY <3>1, <3>2
  <2>8. ASSUME NEW n \in Ok("dimension"), NEW w \in read[n].players
        PROVE  dimension'[w] >= n
    <3>1. read[n] \in Payload BY <1>0 DEF DimensionOK
    <3>2. w \in Players BY <3>1 DEF Payload
    <3>3. dimension[w] >= n BY <1>0 DEF DimensionOK, DimensionIsWhole
    <3>4. dimension'[w] \in Nat BY <1>9, <1>a, <3>2 DEF Dimension
    <3>q. QED BY <2>3, <2>4, <2>5, <3>2, <3>3, <3>4
  <2>9. DimensionIsWhole' BY <1>3, <2>1, <2>7, <2>8 DEF DimensionIsWhole
  <2>10. \A n \in Ok("dimension")' : read'[n] \in Payload
    BY <1>0, <1>3, <2>1 DEF DimensionOK
  <2>11. job'["dimension"].run = run BY <1>6, <1>11
  <2>q. QED BY <1>3, <2>6, <2>7, <2>9, <2>10, <2>11 DEF DimensionOK
<1>q. QED BY <1>11, <1>12, <1>13 DEF IInv

LEMMA RestartStep ==
  ASSUME IInv, Restart
  PROVE  IInv'
<1>a. MaxRuns \in Nat BY EconomyAssumption
<1>b. "payments" \in Jobs /\ "dimension" \in Jobs BY DEF Jobs
<1>0. TypeOK /\ RunsOK /\ AgesOK /\ CopyOK /\ SeriesOK /\ DimensionOK
  BY DEF IInv
<1>1. job' = [j \in Jobs |-> NoJob] BY DEF Restart
<1>2. UNCHANGED <<runs, read, syncs, payments, creations, dimension>> BY DEF Restart
<1>3. NoJob \in Job /\ NoJob.pc = "idle" /\ NoJob.left = {}
  BY NoJobIsJob DEF NoJob
<1>4. \A j \in Jobs : job'[j] = NoJob /\ job'[j].pc = "idle" BY <1>1, <1>3
<1>5. TypeOK'
  <2>1. job' \in [Jobs -> Job] BY <1>1, <1>3
  <2>q. QED
    BY <1>0, <1>b, <1>2, <1>3, <1>4, <2>1 DEF TypeOK, Payments, Creations, Dimension
<1>6. RunsOK' BY <1>0, <1>2, <1>4 DEF RunsOK
<1>7. \A j \in Jobs : RowsAsBefore(j) BY <1>2, SameRows
<1>8. \A j \in Jobs : /\ Limit(j) \in Nat /\ Limit(j)' \in Nat
                      /\ Limit(j) <= Limit(j)'
  <2>1. ASSUME NEW j \in Jobs
        PROVE  /\ Limit(j) \in Nat /\ Limit(j)' \in Nat /\ Limit(j) <= Limit(j)'
    <3>1. runs \in 0..MaxRuns /\ Limit(j)' = runs
      BY <1>0, <1>2, <1>4 DEF TypeOK, Limit
    <3>2. job[j].pc # "idle" => job[j].run \in 1..runs BY <1>0 DEF TypeOK
    <3>q. QED BY <1>a, <3>1, <3>2 DEF Limit
  <2>q. QED BY <2>1
<1>9. AgesOK' BY <1>0, <1>2, <1>7, <1>8, AgesKept DEF RowsAsBefore
<1>10. Answers(0) BY <1>0, <1>2, SameAnswers
<1>11. CopyOK' /\ SeriesOK' /\ DimensionOK'
  BY <1>0, <1>b, <1>2, <1>4, <1>7, <1>10, CopyKept, SeriesKept, DimensionKept
<1>q. QED BY <1>5, <1>6, <1>9, <1>11 DEF IInv

-----------------------------------------------------------------------------
(* The theorems.                                                           *)

LEMMA InitOK == Init => IInv
<1> SUFFICES ASSUME Init PROVE IInv OBVIOUS
<1>a. MaxRuns \in Nat BY EconomyAssumption
<1>b. "payments" \in Jobs /\ "dimension" \in Jobs BY DEF Jobs
<1>1. NoJob \in Job /\ NoJob.pc = "idle" /\ NoJob.left = {}
  BY NoJobIsJob DEF NoJob
<1>2. \A j \in Jobs : job[j] = NoJob /\ job[j].pc = "idle" /\ syncs[j] = <<>>
  BY <1>1 DEF Init
<1>3. 0 \in 0..MaxRuns BY <1>a
<1>4. TypeOK
  <2>1. job \in [Jobs -> Job] /\ runs \in 0..MaxRuns BY <1>1, <1>3 DEF Init
  <2>2. read \in [1..MaxRuns -> Log \cup Payload \cup {Unread}] BY DEF Init
  <2>3. <<>> \in Seq(Row) BY EmptySeq
  <2>4. syncs \in [Jobs -> Seq(Row)] BY <2>3 DEF Init
  <2>5. payments \in Payments /\ dimension \in Dimension
    BY <1>3 DEF Init, Payments, Dimension
  <2>6. creations \in Creations BY <1>3 DEF Init, Creations, Empty
  <2>q. QED BY <1>1, <1>2, <1>b, <2>1, <2>2, <2>4, <2>5, <2>6 DEF TypeOK
<1>5. \A j \in Jobs : Ok(j) = {} /\ LastRun(j) = {}
  <2>1. DOMAIN <<>> = {} OBVIOUS
  <2>q. QED BY <1>2, <2>1 DEF Ok, LastRun
<1>6. RunsOK BY <1>2 DEF Init, RunsOK
<1>7. \A row \in Keys \X Ordinals : payments[row] = 0 BY DEF Init
<1>8. \A u \in Players : dimension[u] = 0 BY DEF Init
<1>9. creations.run = 0 BY DEF Init, Empty
<1>10. AgesOK
  <2>1. Limit("payments") = 0 /\ Limit("dimension") = 0
    BY <1>2, <1>b DEF Init, Limit
  <2>q. QED BY <1>5, <1>7, <1>8, <1>9, <2>1 DEF AgesOK
<1>11. CopyOK
  <2>1. \A k \in Keys, o \in Ordinals : payments[<<k, o>>] = 0 BY <1>7
  <2>q. QED BY <1>2, <1>5, <1>b, <2>1 DEF CopyOK, CopyHoldsWhatWasRead
<1>12. SeriesOK BY <1>2, <1>5, <1>9, <1>b DEF SeriesOK, SeriesWhole
<1>13. DimensionOK BY <1>2, <1>5, <1>8, <1>b DEF DimensionOK, DimensionIsWhole
<1>q. QED BY <1>4, <1>6, <1>10, <1>11, <1>12, <1>13 DEF IInv

LEMMA NextOK == IInv /\ [Next]_vars => IInv'
<1> SUFFICES ASSUME IInv, [Next]_vars PROVE IInv' OBVIOUS
<1>b. "payments" \in Jobs /\ "dimension" \in Jobs BY DEF Jobs
<1>1. CASE PaymentsTick \/ DimensionTick
  BY <1>1, <1>b, BeginStep DEF PaymentsTick, DimensionTick
<1>2. CASE LogFails \/ PayloadFails
  BY <1>2, <1>b, ReadFailsStep DEF LogFails, PayloadFails
<1>3. ASSUME NEW log \in Logs, ReadLog(log) PROVE IInv'
  <2>1. log \in Log BY EconomyAssumption
  <2>q. QED BY <1>3, <1>b, <2>1, RunReads DEF ReadLog
<1>4. ASSUME NEW p \in Payloads, ReadPayload(p) PROVE IInv'
  <2>1. p \in Payload BY EconomyAssumption
  <2>2. "dimension" # "payments" OBVIOUS
  <2>q. QED BY <1>4, <1>b, <2>1, <2>2, RunReads DEF ReadPayload
<1>5. CASE PaymentsSync
  BY <1>5, <1>b, JudgeStep, WriteFailsStep, PaymentsRecorded, ThrowStep
  DEF PaymentsSync
<1>6. CASE DimensionSync
  BY <1>6, <1>b, JudgeStep, WriteFailsStep, DimensionRecorded, ThrowStep
  DEF DimensionSync
<1>7. CASE UpsertChunk BY <1>7, UpsertChunkStep
<1>8. CASE ReplaceCreations BY <1>8, ReplaceCreationsStep
<1>9. CASE UpsertDimension BY <1>9, UpsertDimensionStep
<1>10. CASE PaymentsFail \/ DimensionFail
  BY <1>10, <1>b, FailStep DEF PaymentsFail, DimensionFail
<1>11. CASE Restart BY <1>11, RestartStep
<1>12. CASE UNCHANGED vars
  <2>1. UNCHANGED <<runs, job, read, syncs, payments, creations, dimension>>
    BY <1>12 DEF vars
  <2>2. TypeOK /\ RunsOK /\ AgesOK /\ CopyOK /\ SeriesOK /\ DimensionOK
    BY DEF IInv
  <2>3. \A j \in Jobs : RowsAsBefore(j) /\ Limit(j)' = Limit(j)
    BY <2>1, SameRows DEF Limit
  <2>4. Answers(0) BY <2>1, <2>2, SameAnswers
  <2>5. TypeOK' BY <2>1, <2>2 DEF TypeOK, Payments, Creations, Dimension
  <2>6. RunsOK' BY <2>1, <2>2 DEF RunsOK
  <2>7. AgesOK' BY <2>1, <2>2, <2>3, <1>b DEF AgesOK, RowsAsBefore
  <2>8. CopyOK' /\ SeriesOK' /\ DimensionOK'
    BY <1>b, <2>1, <2>2, <2>3, <2>4, CopyKept, SeriesKept, DimensionKept
  <2>q. QED BY <2>5, <2>6, <2>7, <2>8 DEF IInv
<1>q. QED
  BY <1>1, <1>2, <1>3, <1>4, <1>5, <1>6, <1>7, <1>8, <1>9, <1>10, <1>11, <1>12
  DEF Next

LEMMA Invariant == Spec => []IInv
<1>q. QED BY InitOK, NextOK, PTL DEF Spec

\* Every variable keeps its type; a job holds rows to write only while it
\* writes, and only rows that its own run read (assignOrdinals).
THEOREM TypeCorrect == Spec => []TypeOK
<1>1. IInv => TypeOK BY DEF IInv
<1>q. QED BY <1>1, Invariant, PTL

\* Every payment a successful run read is in the copy, and the copy has nothing
\* that the run which wrote it had not read, whatever failed between two chunks
\* (upsertPayments).
THEOREM CopyIsFaithful == Spec => []CopyHoldsWhatWasRead
<1>1. IInv => CopyHoldsWhatWasRead BY DEF IInv, CopyOK
<1>q. QED BY <1>1, Invariant, PTL

\* The arrivals series is of one log that passed the floors by its own count,
\* and holds each of its SET rows that has a day: with no undated row in it, it
\* is never emptied nor halved (floorRefusal, toDailySeries, replaceCreations).
THEOREM ArrivalsStand == Spec => []SeriesStands
<1>1. ASSUME IInv PROVE SeriesStands
  <2>1. SeriesOK /\ creations \in Creations BY <1>1 DEF IInv, TypeOK
  <2>2. ASSUME creations.run > 0
        PROVE  /\ read[creations.run] \in Log
               /\ creations.rows = read[creations.run].dated
               /\ creations.rows
                    + (read[creations.run].created - read[creations.run].dated)
                    = read[creations.run].created
               /\ read[creations.run].created > 0
    <3>1. /\ read[creations.run] \in Log /\ read[creations.run].created > 0
          /\ creations.rows = read[creations.run].dated
      BY <2>1, <2>2 DEF SeriesOK, SeriesWhole
    <3>2. read[creations.run].created \in Nat /\ read[creations.run].dated \in Nat
      BY <3>1 DEF Log
    <3>q. QED BY <3>1, <3>2
  <2>3. ASSUME creations.run > 0, NEW i \in DOMAIN syncs["payments"],
               IsLastOk("payments", i)
        PROVE  2 * read[creations.run].created >= read[syncs["payments"][i].run].created
    BY <2>1, <2>3 DEF SeriesOK, SeriesWhole, LastRun
  <2>q. QED BY <2>1, <2>2, <2>3 DEF SeriesOK, SeriesStands
<1>q. QED BY <1>1, Invariant, PTL

\* Nobody's row is older than that of a player read with them (upsert).
THEOREM DimensionWhole == Spec => []DimensionIsWhole
<1>1. IInv => DimensionIsWhole BY DEF IInv, DimensionOK
<1>q. QED BY <1>1, Invariant, PTL

=============================================================================
