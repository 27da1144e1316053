---------------------------- MODULE TutorialSync ----------------------------
(***************************************************************************)
(* The nightly rebuild of the tutorial funnel (TutorialSyncService,        *)
(* TutorialStore) and those who read what it wrote: the funnel, the entry  *)
(* rate check and the economy's positions.                                 *)
(*                                                                         *)
(* A run walks the playerdata directory, compares what it found with the   *)
(* last successful run, and replaces two tables in two transactions.  A    *)
(* step is what happens between two awaits, or a transaction.  A table is  *)
(* known by the run whose scan it holds and by its number of rows.         *)
(***************************************************************************)
EXTENDS Naturals, Sequences

CONSTANTS
  Calls,     \* calls of sync() that may be in progress: schedule, by hand
  Readers,
  Scans,     \* what a walk of the directory may find
  MaxRuns    \* bound: runs

\* files: playerdata files; failed: unreadable or unparseable ones; players:
\* those who touched the tutorial; days: rows of the day x platform series.
Scan == [files : Nat, failed : Nat, players : Nat, days : Nat]

ASSUME SyncAssumption ==
  /\ MaxRuns \in Nat
  /\ Scans \subseteq Scan
  /\ \A s \in Scans :
       /\ s.failed + s.players <= s.files
       /\ s.days <= 2 * s.players   \* the day entered and the day completed

VARIABLES
  running,    \* the service's flag
  enabled,    \* TUTORIAL_POSITION_ENABLED, read when the process starts
  runs,       \* runs begun so far
  call,       \* what each call of sync() is doing
  syncs,      \* tutorial_syncs, in the order of ran_at and id
  series,     \* tutorial_daily
  positions,  \* tutorial_player_position
  reader      \* what each reader is doing

vars == <<running, enabled, runs, call, syncs, series, positions, reader>>

-----------------------------------------------------------------------------
Nothing == [files |-> 0, failed |-> 0, players |-> 0, days |-> 0]
Empty   == [run |-> 0, rows |-> 0]
Table   == [run : 0..MaxRuns, rows : Nat]

\* positioned: positions_written is not null.
Row == [status : {"ok", "error"}, run : 0..MaxRuns, scan : Scan,
        positioned : BOOLEAN]

\* walking; walked: the walk ended and passed the absolute rules; cleared: it
\* passed all of them; positioned: the positions are replaced; refused: the
\* run failed and is to be recorded.
CallPcs == {"idle", "walking", "walked", "cleared", "positioned", "refused"}
Call    == [pc : CallPcs, run : 0..MaxRuns, scan : Scan]
NoCall  == [pc |-> "idle", run |-> 0, scan |-> Nothing]

\* of: which table; row: the provenance read; got: the table read after it.
Targets == {"series", "positions"}
Answers == [pc : {"asked", "answered"}, of : Targets, row : Row, got : Table]
Waits   == [pc |-> "idle"]

Active(c) == call[c].pc # "idle"

\* No two runs at once, and the flag is up exactly during a run (sync).
TypeOK ==
  /\ running \in BOOLEAN /\ enabled \in BOOLEAN
  /\ runs \in 0..MaxRuns
  /\ call \in [Calls -> Call]
  /\ syncs \in Seq(Row)
  /\ series \in Table /\ positions \in Table
  /\ reader \in [Readers -> Answers \cup {Waits}]
  /\ running <=> \E c \in Calls : Active(c)
  /\ \A c, d \in Calls : Active(c) /\ Active(d) => c = d

Init ==
  /\ running = FALSE /\ enabled \in BOOLEAN /\ runs = 0
  /\ call = [c \in Calls |-> NoCall]
  /\ syncs = <<>>
  /\ series = Empty /\ positions = Empty
  /\ reader = [r \in Readers |-> Waits]

-----------------------------------------------------------------------------
(* The floors a scan has to clear.                                         *)

\* The absolute rules: no file, half of them unreadable, nothing to write.
Degenerate(s) == s.files = 0 \/ 2 * s.failed >= s.files \/ s.days = 0

Half(n) == n \div 2   \* MIN_SCAN_FRACTION_OF_LAST

\* The relative rules, against the last successful run.
Below(s, last) ==
  \/ s.files < Half(last.files)
  \/ s.players < Half(last.players)
  \/ s.days < Half(last.days)

\* Faulty variant: the last run of any status.
IsLastOfAny(i) == i \in DOMAIN syncs /\ \A j \in DOMAIN syncs : j <= i

\* lastSuccessfulSync: the row of the last successful run.
IsLastOk(i) ==
  /\ i \in DOMAIN syncs /\ syncs[i].status = "ok"
  /\ \A j \in DOMAIN syncs : syncs[j].status = "ok" => j <= i

-----------------------------------------------------------------------------
(* One run.                                                                *)

Goto(c, pc) == call' = [call EXCEPT ![c].pc = pc]

\* The finally of sync.
Return(c) ==
  /\ call' = [call EXCEPT ![c] = NoCall]
  /\ running' = FALSE

\* A call while another runs returns at once and changes nothing.
Begin(c) ==
  /\ call[c].pc = "idle" /\ ~running /\ runs < MaxRuns
  /\ running' = TRUE /\ runs' = runs + 1
  /\ call' = [call EXCEPT
       ![c] = [pc |-> "walking", run |-> runs + 1, scan |-> Nothing]]
  /\ UNCHANGED <<enabled, syncs, series, positions, reader>>

\* The catalogue or the directory cannot be read, or holds too many files; the
\* files counted so far go into the row, where nothing reads them.
WalkFails(c) ==
  /\ call[c].pc = "walking"
  /\ Goto(c, "refused")
  /\ UNCHANGED <<running, enabled, runs, syncs, series, positions, reader>>

\* The walk ends, and the absolute rules are applied.
WalkEnds(c, s) ==
  /\ call[c].pc = "walking"
  /\ call' = [call EXCEPT
       ![c] = [pc |-> IF Degenerate(s) THEN "refused" ELSE "walked",
               run |-> call[c].run, scan |-> s]]
  /\ UNCHANGED <<running, enabled, runs, syncs, series, positions, reader>>

\* The relative rules; a first run has nothing to be compared with.
Compare(c) ==
  /\ call[c].pc = "walked"
  /\ Goto(c, IF \E i \in DOMAIN syncs :
                  IsLastOk(i) /\ Below(call[c].scan, syncs[i].scan)
             THEN "refused" ELSE "cleared")
  /\ UNCHANGED <<running, enabled, runs, syncs, series, positions, reader>>

\* The last run cannot be read: the write is not made unchecked.
CompareFails(c) ==
  /\ call[c].pc = "walked"
  /\ Goto(c, "refused")
  /\ UNCHANGED <<running, enabled, runs, syncs, series, positions, reader>>

\* recordFailure: with what the run would have written, and not the tables;
\* the statement itself may fail.
RecordFailure(c) ==
  /\ call[c].pc = "refused"
  /\ \/ syncs' = Append(syncs, [status |-> "error", run |-> call[c].run,
                                scan |-> call[c].scan, positioned |-> FALSE])
     \/ UNCHANGED syncs
  /\ Return(c)
  /\ UNCHANGED <<enabled, runs, series, positions, reader>>

\* One transaction, one row for each player of the scan.
ReplacePositions(c) ==
  /\ call[c].pc = "cleared" /\ enabled
  /\ positions' = [run |-> call[c].run, rows |-> call[c].scan.players]
  /\ Goto(c, "positioned")
  /\ UNCHANGED <<running, enabled, runs, syncs, series, reader>>

\* Faulty variant: a failure to write the positions is swallowed.
PositionsFailQuietly(c) ==
  /\ call[c].pc = "cleared" /\ enabled
  /\ Goto(c, "positioned")
  /\ UNCHANGED <<running, enabled, runs, syncs, series, positions, reader>>

\* Faulty variant: who throws does not lower the flag.
PositionsFailWithoutFinally(c) ==
  /\ call[c].pc = "cleared" /\ enabled
  /\ call' = [call EXCEPT ![c] = NoCall]
  /\ UNCHANGED <<running, enabled, runs, syncs, series, positions, reader>>

\* The transaction is rolled back and sync throws; no row records it.
PositionsFail(c) ==
  /\ call[c].pc = "cleared" /\ enabled
  /\ Return(c)
  /\ UNCHANGED <<enabled, runs, syncs, series, positions, reader>>

MayReplaceAll(c) ==
  call[c].pc = "positioned" \/ (call[c].pc = "cleared" /\ ~enabled)

\* The series and the row of the run, in one transaction.
ReplaceAll(c) ==
  /\ MayReplaceAll(c)
  /\ series' = [run |-> call[c].run, rows |-> call[c].scan.days]
  /\ syncs' = Append(syncs, [status |-> "ok", run |-> call[c].run,
                             scan |-> call[c].scan, positioned |-> enabled])
  /\ Return(c)
  /\ UNCHANGED <<enabled, runs, positions, reader>>

\* Faulty variant: the delete is a transaction of its own.
ReplaceFailsHalfway(c) ==
  /\ MayReplaceAll(c)
  /\ series' = Empty
  /\ Return(c)
  /\ UNCHANGED <<enabled, runs, syncs, positions, reader>>

\* The transaction is rolled back, the positions stay replaced.
ReplaceFails(c) ==
  /\ MayReplaceAll(c)
  /\ Return(c)
  /\ UNCHANGED <<enabled, runs, syncs, series, positions, reader>>

\* The process dies and is started again, perhaps with the other setting.
Restart ==
  /\ running' = FALSE
  /\ enabled' \in BOOLEAN
  /\ call' = [c \in Calls |-> NoCall]
  /\ reader' = [r \in Readers |-> Waits]
  /\ UNCHANGED <<runs, syncs, series, positions>>

-----------------------------------------------------------------------------
(* Those who read the tables.                                              *)

\* The last successful run is read first.  Without one, and for the positions
\* when that run wrote none, or if the query fails, nothing is published.
ReadProvenance(r, t) ==
  /\ reader[r].pc # "asked"
  /\ \E i \in DOMAIN syncs :
       /\ IsLastOk(i)
       /\ t = "positions" => syncs[i].positioned
       /\ reader' = [reader EXCEPT
            ![r] = [pc |-> "asked", of |-> t, row |-> syncs[i], got |-> Empty]]
  /\ UNCHANGED <<running, enabled, runs, call, syncs, series, positions>>

\* Then the table, which is published as of that run.
ReadTable(r) ==
  /\ reader[r].pc = "asked"
  /\ reader' = [reader EXCEPT
       ![r] = [pc |-> "answered", of |-> reader[r].of, row |-> reader[r].row,
               got |-> IF reader[r].of = "series" THEN series ELSE positions]]
  /\ UNCHANGED <<running, enabled, runs, call, syncs, series, positions>>

\* The table cannot be read: nothing is published.
ReadFails(r) ==
  /\ reader[r].pc = "asked"
  /\ reader' = [reader EXCEPT ![r] = Waits]
  /\ UNCHANGED <<running, enabled, runs, call, syncs, series, positions>>

-----------------------------------------------------------------------------
Progress(c) ==
  \/ WalkFails(c) \/ \E s \in Scans : WalkEnds(c, s)
  \/ Compare(c) \/ CompareFails(c) \/ RecordFailure(c)
  \/ ReplacePositions(c) \/ PositionsFail(c)
  \/ ReplaceAll(c) \/ ReplaceFails(c)

Reading(r) ==
  \/ \E t \in Targets : ReadProvenance(r, t)
  \/ ReadTable(r) \/ ReadFails(r)

Next ==
  \/ \E c \in Calls : Begin(c) \/ Progress(c)
  \/ Restart
  \/ \E r \in Readers : Reading(r)

Spec == Init /\ [][Next]_vars

\* A file, a directory or a statement is read or fails: an await ends.
FairSpec == Spec /\ \A c \in Calls : WF_vars(Progress(c))

-----------------------------------------------------------------------------
(* Properties.                                                             *)

\* The series is the one its provenance row describes, whatever failed and
\* whoever was refused since; it is empty only before the first success
\* (replaceAll, recordFailure).
SeriesIsOfLastRun ==
  /\ \A i \in DOMAIN syncs : IsLastOk(i) =>
       series = [run |-> syncs[i].run, rows |-> syncs[i].scan.days]
  /\ (\A i \in DOMAIN syncs : syncs[i].status # "ok") => series = Empty

\* The numbers never collapse: each successful run found at least half of what
\* the one before it had found, by all three measures, and none is degenerate.
\* Neither failures, refusals nor restarts in between soften the comparison
\* (floorRefusal).
FloorsHold ==
  \A i \in DOMAIN syncs : syncs[i].status = "ok" =>
    /\ ~Degenerate(syncs[i].scan)
    /\ \A j \in DOMAIN syncs :
         /\ j < i /\ syncs[j].status = "ok"
         /\ \A k \in DOMAIN syncs : j < k /\ k < i => syncs[k].status # "ok"
         => ~Below(syncs[i].scan, syncs[j].scan)

\* What is published as of a run is from that run or a later one, never older
\* than claimed, and a published series is never empty (tutorialByBucket,
\* tutorialFreshness, funnelPosition).
AnswersAreHonest ==
  \A r \in Readers : reader[r].pc = "answered" =>
    /\ reader[r].got.run >= reader[r].row.run
    /\ reader[r].of = "series" => reader[r].got.rows > 0

\* A run ends, whatever fails in it, and the next one may begin (sync).
RunsEnd == running ~> ~running

=============================================================================
