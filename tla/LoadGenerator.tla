---------------------------- MODULE LoadGenerator ----------------------------
(***************************************************************************)
(* The first version of the client (clients/postgres/load_generator.go, its   *)
(* main.go and metrics/metrics.go), which the upgrade guide keeps for write   *)
(* tests.  It has no reads and no count of the rows: an update first asks the *)
(* table for a random id and then updates that row, in two statements.  Its   *)
(* batchInsert, seeding, Stop, check and cleanup are those of the second      *)
(* version, and so are their actions here.                                    *)
(***************************************************************************)
EXTENDS DataLossCheck

VARIABLES chosen,     \* per worker: performUpdate's id
          hollow      \* history: updates that were counted and met no row

updateVars == <<chosen, hollow>>

FirstInit ==
    /\ CheckInit
    /\ chosen = [w \in Workers |-> 0]
    /\ hollow = 0

-----------------------------------------------------------------------------
(* Initialize.                                                              *)

\* SELECT COUNT: an empty table is seeded; the count is not kept.
CountRecords ==
    /\ phase = "init"
    /\ ~ctxDone
    /\ phase' = IF Table = {} THEN "seeding" ELSE "running"
    /\ GoTo(Main, "loop")
    /\ UNCHANGED <<pgVars, ctxDone, stopClosed, wg, seeded, started, attempts, metricsVars>>

Seeded ==
    /\ phase = "seeding"
    /\ pc[Main] = "loop"
    /\ seeded >= SeedRows
    /\ phase' = "running"
    /\ UNCHANGED <<pgVars, ctxDone, stopClosed, wg, seeded, started, pc, attempts, metricsVars>>

SeedInitialData == SeedNext \/ SeedInserted \/ SeedFails \/ Seeded

FirstInitialize == (CountRecords \/ InitializeFails \/ SeedInitialData) /\ UNCHANGED updateVars

-----------------------------------------------------------------------------
(* worker: what is not an insert is an update.                              *)

ChooseInsert(w) ==
    /\ Begin(w, 0, InsertPercent)
    /\ StartInsert(w)
    /\ UNCHANGED updateVars

ChooseUpdate(w) ==
    /\ Begin(w, InsertPercent, 100)
    /\ GoTo(w, "read")
    /\ UNCHANGED <<pgVars, attempts, updateVars>>

\* performInsert, after its batch: RecordInsert or RecordError.
InsertReturns(w) ==
    /\ Recorded(w, "count", "inserts") \/ RecordError(w)
    /\ UNCHANGED updateVars

\* Mutant: the id is drawn below the sequence, as a generator that counts would.
SelectIdDrawn(w) ==
    /\ pc[w] = "read"
    /\ \E i \in 1..seq : chosen' = [chosen EXCEPT ![w] = i]
    /\ GoTo(w, "update")
    /\ UNCHANGED <<pgVars, mainVars, started, attempts, metricsVars, hollow>>

\* performUpdate's SELECT id ORDER BY RANDOM() LIMIT 1.
SelectId(w) ==
    /\ pc[w] = "read"
    /\ \E r \in Table : chosen' = [chosen EXCEPT ![w] = r.id]
    /\ GoTo(w, "update")
    /\ UNCHANGED <<pgVars, mainVars, started, attempts, metricsVars, hollow>>

\* sql.ErrNoRows: performUpdate returns and counts nothing.
NoRows(w) ==
    /\ pc[w] = "read"
    /\ Table = {}
    /\ GoTo(w, "loop")
    /\ UNCHANGED <<pgVars, mainVars, started, attempts, metricsVars, updateVars>>

\* Mutant: every error of the SELECT is taken for sql.ErrNoRows.
StatementFailsSilently(w) ==
    /\ pc[w] \in {"read", "update"}
    /\ Fault \/ (ctxDone /\ UNCHANGED faults)
    /\ GoTo(w, IF pc[w] = "read" THEN "loop" ELSE "error")
    /\ UNCHANGED <<dbVars, xact, rows, unread, orphans, mainVars, started, attempts,
                   metricsVars, updateVars>>

\* SELECT or UPDATE fails, by a fault or by the deadline.
StatementFails(w) ==
    /\ pc[w] \in {"read", "update"}
    /\ Fault \/ (ctxDone /\ UNCHANGED faults)
    /\ GoTo(w, "error")
    /\ UNCHANGED <<dbVars, xact, rows, unread, orphans, mainVars, started, attempts,
                   metricsVars, updateVars>>

\* UPDATE WHERE id: RowsAffected is not looked at, RecordUpdate follows.
UpdateRow(w) ==
    /\ Recorded(w, "update", "updates")
    /\ hollow' = IF chosen[w] \in Ids(Table) THEN hollow ELSE hollow + 1
    /\ UNCHANGED chosen

PerformUpdate(w) == SelectId(w) \/ NoRows(w) \/ StatementFails(w) \/ UpdateRow(w)

FirstWorker(w) ==
    \/ ChooseInsert(w) \/ ChooseUpdate(w)
    \/ InsertReturns(w)
    \/ PerformUpdate(w)
    \/ WorkerExits(w) /\ UNCHANGED updateVars

-----------------------------------------------------------------------------
(* What both versions share, and main.                                      *)

FirstBatchInsert == (\E s \in Sessions : BatchInsert(s)) /\ UNCHANGED updateVars
FirstStart == Start /\ UNCHANGED updateVars

\* Mutant: Stop closes the channel and does not wait.
FirstStopAtOnce ==
    /\ Stop \/ StopWithoutWait
    /\ UNCHANGED updateVars

FirstStop == (Stop \/ WaitDone) /\ UNCHANGED updateVars
OutsideClient == (Server \/ ContextExpires) /\ UNCHANGED updateVars

\* main until Stop has returned; server and deadline go on beyond it.
FirstRun ==
    /\ check # "exited"
    /\ \/ OutsideClient \/ FirstInitialize \/ FirstStart \/ FirstBatchInsert
       \/ \E w \in Workers : FirstWorker(w)
       \/ FirstStop
    /\ Watch
    /\ UNCHANGED <<check, unchecked, found, resultVars, dropped>>

FirstCheckDataLoss == CheckDataLoss /\ UNCHANGED updateVars
FirstCleanup == (Cleanup \/ CleanupFails) /\ UNCHANGED updateVars

FirstNext == FirstRun \/ FirstCheckDataLoss \/ FirstCleanup

FirstSpec == FirstInit /\ [][FirstNext]_<<allVars, updateVars>>

-----------------------------------------------------------------------------
\* SELECT and UPDATE are two statements, and rows come and transactions abort
\* between them.  While the primary has not changed every update that is counted
\* met the row it had chosen; after a failover that row may be gone, and the update
\* is counted all the same.
UpdatesMeetRows == tl = 1 => hollow = 0

\* performUpdate counts nothing when it finds no row.  While the primary has not
\* changed that never happens: Initialize has left rows, whoever put them there, so
\* each operation is counted once, as a success or as an error.
AttemptsCounted ==
    tl = 1 => started = total["inserts"] + total["updates"] + total["errors"]
                        + Cardinality({w \in Workers : pc[w] \notin {"none", "loop", "exited"}})
=============================================================================
