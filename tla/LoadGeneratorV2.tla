--------------------------- MODULE LoadGeneratorV2 ---------------------------
(***************************************************************************)
(* clients/postgres/load_generator_v2.go with the part of main that drives  *)
(* it (main_v2.go) up to the return of Stop: Initialize and the seeding,    *)
(* Start, the workers with their reads, inserts and updates, the test       *)
(* timer, the context deadline, Stop.                                       *)
(*                                                                         *)
(* Main is the goroutine of main(), Workers are the goroutines Start makes. *)
(* Every database call and every atomic update of a counter is a step.      *)
(***************************************************************************)
EXTENDS Postgres

CONSTANTS Workers,        \* ConcurrentWriters worker goroutines
          Main,           \* main()'s own session, used by Initialize
          SeedRows,       \* rows Initialize seeds (50000 in the code)
          SeedBatch,      \* rows of one seeding INSERT (1000 in the code)
          BatchSize,      \* BATCH_SIZE: rows of one INSERT of the test
          ReadPercent, InsertPercent,
          Rolls,          \* bound: the values of rng.Intn(100) that are tried
          MaxOps          \* bound: operations the workers start in one run

ASSUME GeneratorAssumption ==
       /\ Main \notin Workers
       /\ Sessions = Workers \cup {Main}
       /\ IsFiniteSet(Workers)
       /\ SeedRows \in Nat \ {0}
       /\ SeedBatch \in Nat \ {0}
       /\ BatchSize \in Nat \ {0}
       /\ ReadPercent \in 0..100
       /\ InsertPercent \in 0..100
       /\ ReadPercent + InsertPercent <= 100
       /\ Rolls \subseteq 0..99
       /\ MaxOps \in Nat

\* database/sql tries a statement twice more after driver.ErrBadConn.
MaxAttempts == 3

VARIABLES phase,        \* where main() is
          ctxDone,      \* the context of the run has expired
          stopClosed,   \* stopChan is closed
          wg,           \* the WaitGroup's counter
          seeded,       \* rows seedInitialData has inserted: its loop variable
          pc,           \* per session: where its goroutine is
          attempts,     \* per session: attempts of the statement in flight
          started,      \* operations the workers have started (bounded)
          insertedIDs,  \* MetricsV2: the sync.Map of tracked ids
          total,        \* MetricsV2: operations and errors counted, per kind
          totalRows,    \* LoadGeneratorV2.totalRows
          received,     \* history: the rows whose id RecordInsertedID was given
          confirmed     \* history: the rows of batches batchInsert returned nil for

trackingVars == <<insertedIDs, received>>
metricsVars == <<trackingVars, total, totalRows, confirmed>>
mainVars == <<phase, ctxDone, stopClosed, wg, seeded>>
genVars == <<mainVars, started, pc, attempts, metricsVars>>
vars == <<pgVars, genVars>>

\* The part of the server's state only the server itself changes.
dbVars == <<log, seq, tl, pre, ever>>

Phase == {"init", "seeding", "running", "stopping", "stopped", "failed"}
Location == {"none", "loop", "exec", "rows", "count", "record", "error",
             "read", "update", "exited"}
Kind == {"reads", "inserts", "updates", "errors"}

GenTypeOK ==
    /\ phase \in Phase
    /\ ctxDone \in BOOLEAN
    /\ stopClosed \in BOOLEAN
    /\ wg \in Nat
    /\ seeded \in Nat
    /\ started \in Nat
    /\ pc \in [Sessions -> Location]
    /\ attempts \in [Sessions -> 0..MaxAttempts]
    /\ insertedIDs \in SUBSET Nat
    /\ total \in [Kind -> Nat]
    /\ totalRows \in Nat
    /\ received \in SUBSET Row
    /\ confirmed \in SUBSET Row

Init ==
    /\ PgInit
    /\ phase = "init"
    /\ ctxDone = FALSE
    /\ stopClosed = FALSE
    /\ wg = 0
    /\ seeded = 0
    /\ started = 0
    /\ pc = [s \in Sessions |-> "none"]
    /\ attempts = [s \in Sessions |-> 0]
    /\ insertedIDs = {}
    /\ total = [k \in Kind |-> 0]
    /\ totalRows = 0
    /\ received = {}
    /\ confirmed = {}

\* seedInitialData's last batch takes what remains.
Smaller(a, b) == IF a < b THEN a ELSE b
BatchOf(s) == IF s = Main THEN Smaller(SeedRows - seeded, SeedBatch) ELSE BatchSize

GoTo(s, l) == pc' = [pc EXCEPT ![s] = l]
CountOne(k) == total' = [total EXCEPT ![k] = @ + 1]

-----------------------------------------------------------------------------
(* batchInsert: QueryContext with RETURNING id, rows.Next, rows.Err.        *)

\* QueryContext sends its first attempt; a conjunct of the actions that call it.
StartInsert(s) ==
    /\ Send(s)
    /\ GoTo(s, "exec")
    /\ attempts' = [attempts EXCEPT ![s] = 1]
    /\ UNCHANGED <<dbVars, orphans, faults>>

\* QueryContext returns when the first DataRow is there.
QueryOk(s) ==
    /\ pc[s] = "exec"
    /\ Readable(s) # {}
    /\ GoTo(s, "rows")
    /\ UNCHANGED <<pgVars, mainVars, started, attempts, metricsVars>>

\* A dead connection is driver.ErrBadConn: database/sql sends the INSERT again,
\* whatever became of the first.
Retry(s) ==
    /\ pc[s] = "exec"
    /\ xact[s] = "killed"
    /\ attempts[s] < MaxAttempts
    /\ ~ctxDone
    /\ Send(s)
    /\ attempts' = [attempts EXCEPT ![s] = @ + 1]
    /\ UNCHANGED <<dbVars, orphans, faults, mainVars, started, pc, metricsVars>>

\* The server's error, or the connection's.  Of the context's alone batchInsert knows
\* where no answer is waited for: before the statement is on its way ("sent"), and in
\* rows.Next, that looks at cn.err first.  A read that waits is not ended by the context.
Fails(s) ==
    /\ pc[s] \in {"exec", "rows"}
    /\ \/ xact[s] \in {"aborted", "killed"}
       \/ ctxDone /\ (xact[s] = "sent" \/ pc[s] = "rows")

\* Mutants: the error is swallowed; the ids of the whole batch are tracked first.
InsertFailsSilently(s) ==
    /\ Fails(s)
    /\ Leave(s)
    /\ GoTo(s, "count")
    /\ UNCHANGED <<dbVars, faults, mainVars, started, attempts, metricsVars>>

InsertFailsTracked(s) ==
    /\ Fails(s)
    /\ received' = received \cup rows[s]
    /\ insertedIDs' = insertedIDs \cup Ids(rows[s])
    /\ Leave(s)
    /\ GoTo(s, "error")
    /\ UNCHANGED <<dbVars, faults, mainVars, started, attempts, total, totalRows,
                   confirmed>>

\* QueryContext or rows.Err returns the error.
InsertFails(s) ==
    /\ Fails(s)
    /\ Leave(s)
    /\ GoTo(s, "error")
    /\ UNCHANGED <<dbVars, faults, mainVars, started, attempts, metricsVars>>

\* The Store into the sync.Map.  The counter that is added to after it
\* (totalInsertedIDs) is read nowhere, and left out.
RecordInsertedID(r) ==
    /\ insertedIDs' = insertedIDs \cup {r.id}
    /\ received' = received \cup {r}

\* One turn of the rows.Next loop, in the order the server sent the rows.
NextRow(s) ==
    /\ pc[s] = "rows"
    /\ \E r \in Readable(s) :
          /\ \A q \in unread[s] : r.id <= q.id
          /\ RecordInsertedID(r)
          /\ unread' = [unread EXCEPT ![s] = @ \ {r}]
    /\ UNCHANGED <<dbVars, xact, rows, orphans, faults, mainVars, started, pc, attempts,
                   total, totalRows, confirmed>>

\* Mutants: rows.Err() is not looked at; the loop ends after some of the rows.
RowsDoneWithoutErr(s) ==
    /\ pc[s] = "rows"
    /\ unread[s] = {}
    /\ confirmed' = confirmed \cup rows[s]
    /\ Leave(s)
    /\ GoTo(s, "count")
    /\ UNCHANGED <<dbVars, faults, mainVars, started, attempts, trackingVars, total, totalRows>>

RowsDoneEarly(s) ==
    /\ pc[s] = "rows"
    /\ xact[s] = "committed"
    /\ confirmed' = confirmed \cup rows[s]
    /\ Leave(s)
    /\ GoTo(s, "count")
    /\ UNCHANGED <<dbVars, faults, mainVars, started, attempts, trackingVars, total, totalRows>>

\* ReadyForQuery ends the loop with rows.Err() = nil; the server sends it after
\* the commit.
RowsDone(s) ==
    /\ pc[s] = "rows"
    /\ unread[s] = {}
    /\ xact[s] = "committed"
    /\ confirmed' = confirmed \cup rows[s]
    /\ Leave(s)
    /\ GoTo(s, "count")
    /\ UNCHANGED <<dbVars, faults, mainVars, started, attempts, trackingVars, total, totalRows>>

-----------------------------------------------------------------------------
(* Initialize, in the goroutine of main().                                  *)

\* Mutant: a table with fewer rows than the seeding would give is seeded.
CountRowsTopUp ==
    /\ phase = "init"
    /\ ~ctxDone
    /\ IF Cardinality(Table) < SeedRows
       THEN phase' = "seeding" /\ UNCHANGED totalRows
       ELSE phase' = "running" /\ totalRows' = Cardinality(Table)
    /\ GoTo(Main, "loop")
    /\ UNCHANGED <<pgVars, ctxDone, stopClosed, wg, seeded, started, attempts, trackingVars,
                   total, confirmed>>

\* Mutant: a table that is not empty is taken for one that was seeded to the end.
CountRowsAsSeeded ==
    /\ phase = "init"
    /\ ~ctxDone
    /\ IF Table = {}
       THEN phase' = "seeding" /\ UNCHANGED totalRows
       ELSE phase' = "running" /\ totalRows' = SeedRows
    /\ GoTo(Main, "loop")
    /\ UNCHANGED <<pgVars, ctxDone, stopClosed, wg, seeded, started, attempts, trackingVars,
                   total, confirmed>>

\* CREATE TABLE and CREATE INDEX IF NOT EXISTS, then SELECT COUNT: an empty
\* table is seeded, any other is taken as it is.
CountRows ==
    /\ phase = "init"
    /\ ~ctxDone
    /\ IF Table = {}
       THEN phase' = "seeding" /\ UNCHANGED totalRows
       ELSE phase' = "running" /\ totalRows' = Cardinality(Table)
    /\ GoTo(Main, "loop")
    /\ UNCHANGED <<pgVars, ctxDone, stopClosed, wg, seeded, started, attempts, trackingVars,
                   total, confirmed>>

\* A statement of Initialize fails and main exits with status 1.
InitializeFails ==
    /\ phase = "init"
    /\ Fault \/ (ctxDone /\ UNCHANGED faults)
    /\ phase' = "failed"
    /\ UNCHANGED <<dbVars, xact, rows, unread, orphans, ctxDone, stopClosed, wg, seeded,
                   started, pc, attempts, metricsVars>>

SeedNext ==
    /\ phase = "seeding"
    /\ pc[Main] = "loop"
    /\ seeded < SeedRows
    /\ StartInsert(Main)
    /\ UNCHANGED <<mainVars, started, metricsVars>>

SeedInserted ==
    /\ pc[Main] = "count"
    /\ seeded' = seeded + BatchOf(Main)
    /\ GoTo(Main, "loop")
    /\ UNCHANGED <<pgVars, phase, ctxDone, stopClosed, wg, started, attempts, metricsVars>>

\* seedInitialData returns the error, Initialize wraps it, main exits.
SeedFails ==
    /\ pc[Main] = "error"
    /\ phase' = "failed"
    /\ GoTo(Main, "none")
    /\ UNCHANGED <<pgVars, ctxDone, stopClosed, wg, seeded, started, attempts, metricsVars>>

\* count = 50000 and totalRows.Store(count).
SeedDone ==
    /\ phase = "seeding"
    /\ pc[Main] = "loop"
    /\ seeded >= SeedRows
    /\ phase' = "running"
    /\ totalRows' = SeedRows
    /\ UNCHANGED <<pgVars, ctxDone, stopClosed, wg, seeded, started, pc, attempts,
                   trackingVars, total, confirmed>>

\* Start: wg.Add(1) and go worker, for every worker.
Start ==
    /\ phase = "running"
    /\ pc[Main] = "loop"
    /\ wg' = wg + Cardinality(Workers)
    /\ pc' = [s \in Sessions |-> IF s \in Workers THEN "loop" ELSE "none"]
    /\ UNCHANGED <<pgVars, phase, ctxDone, stopClosed, seeded, started, attempts, metricsVars>>

-----------------------------------------------------------------------------
(* worker: the select over ctx.Done and stopChan, and the operations.       *)

\* Nothing is ready in the select: an operation is chosen by a roll.
Begin(w, low, high) ==
    /\ pc[w] = "loop"
    /\ ~ctxDone
    /\ ~stopClosed
    /\ started < MaxOps
    /\ \E roll \in Rolls : low <= roll /\ roll < high
    /\ started' = started + 1
    /\ UNCHANGED <<mainVars, metricsVars>>

BeginRead(w) ==
    /\ Begin(w, 0, ReadPercent)
    /\ GoTo(w, "read")
    /\ UNCHANGED <<pgVars, attempts>>

BeginInsert(w) ==
    /\ Begin(w, ReadPercent, ReadPercent + InsertPercent)
    /\ StartInsert(w)

\* performUpdate returns at once, counting nothing, when it knows of no rows.
BeginUpdate(w) ==
    /\ Begin(w, ReadPercent + InsertPercent, 100)
    /\ GoTo(w, IF totalRows = 0 THEN "loop" ELSE "update")
    /\ UNCHANGED <<pgVars, attempts>>

\* Mutants: wg.Done is called twice, or never.
WorkerExitsWith(w, done) ==
    /\ pc[w] = "loop"
    /\ ctxDone \/ stopClosed
    /\ GoTo(w, "exited")
    /\ wg' = wg - done
    /\ UNCHANGED <<pgVars, phase, ctxDone, stopClosed, seeded, started, attempts, metricsVars>>

WorkerExitsTwice(w) == WorkerExitsWith(w, 2)
WorkerExitsSilently(w) == WorkerExitsWith(w, 0)

\* ctx.Done or stopChan is ready: the worker returns and defers wg.Done.
WorkerExits(w) ==
    /\ pc[w] = "loop"
    /\ ctxDone \/ stopClosed
    /\ GoTo(w, "exited")
    /\ wg' = wg - 1
    /\ UNCHANGED <<pgVars, phase, ctxDone, stopClosed, seeded, started, attempts, metricsVars>>

\* The end of an operation: one more of its kind is counted.
Recorded(w, from, kind) ==
    /\ pc[w] = from
    /\ CountOne(kind)
    /\ GoTo(w, "loop")
    /\ UNCHANGED <<pgVars, mainVars, started, attempts, trackingVars, totalRows, confirmed>>

ReadOk(w) == Recorded(w, "read", "reads")

\* RowsAffected is not looked at: an UPDATE that met no row counts as well.
UpdateOk(w) == Recorded(w, "update", "updates")

\* The query fails, by a fault or for the context (it was not sent yet, or the server
\* has cancelled it), or readByIDRange finds totalRows = 0.
ReadOrUpdateFails(w) ==
    /\ pc[w] \in {"read", "update"}
    /\ Fault \/ ((ctxDone \/ totalRows = 0) /\ UNCHANGED faults)
    /\ GoTo(w, "error")
    /\ UNCHANGED <<dbVars, xact, rows, unread, orphans, mainVars, started, attempts, metricsVars>>

\* performInsert after a batch that succeeded: totalRows first, then RecordInsert.
AddTotalRows(w) ==
    /\ pc[w] = "count"
    /\ totalRows' = totalRows + BatchSize
    /\ GoTo(w, "record")
    /\ UNCHANGED <<pgVars, mainVars, started, attempts, trackingVars, total, confirmed>>

RecordInsert(w) == Recorded(w, "record", "inserts")
\* Mutant: the failed operation returns without RecordError.
ErrorUncounted(w) ==
    /\ pc[w] = "error"
    /\ GoTo(w, "loop")
    /\ UNCHANGED <<pgVars, mainVars, started, attempts, metricsVars>>

RecordError(w) == Recorded(w, "error", "errors")

-----------------------------------------------------------------------------
(* main: the end of the test.                                               *)

\* The deadline, Duration + 30s after main made the context, may come at any
\* time: it also covers connecting and Initialize.
ContextExpires ==
    /\ ~ctxDone
    /\ phase \in {"init", "seeding", "running", "stopping"}
    /\ ctxDone' = TRUE
    /\ UNCHANGED <<pgVars, phase, stopClosed, wg, seeded, started, pc, attempts, metricsVars>>

\* testTimer, a signal or ctx.Done ends main's select; Stop closes stopChan.
Stop ==
    /\ phase = "running"
    /\ pc[Main] = "none"
    /\ phase' = "stopping"
    /\ stopClosed' = TRUE
    /\ UNCHANGED <<pgVars, ctxDone, wg, seeded, started, pc, attempts, metricsVars>>

\* Mutant: Stop does not wait.
StopWithoutWait ==
    /\ phase = "stopping"
    /\ phase' = "stopped"
    /\ UNCHANGED <<pgVars, ctxDone, stopClosed, wg, seeded, started, pc, attempts, metricsVars>>

\* wg.Wait returns, and so does Stop.
WaitDone ==
    /\ phase = "stopping"
    /\ wg = 0
    /\ phase' = "stopped"
    /\ UNCHANGED <<pgVars, ctxDone, stopClosed, wg, seeded, started, pc, attempts, metricsVars>>

-----------------------------------------------------------------------------
\* lib/pq's watchCancel: the context has expired, and the cancel request that it sends
\* on a second connection is honoured.  It need not be: the request may be lost.
CancelHonoured(s) ==
    /\ ctxDone
    /\ Abort(s)
    /\ UNCHANGED <<faults, genVars>>

Server ==
    \/ \E s \in Sessions :
          \/ Execute(s, BatchOf(s)) /\ UNCHANGED genVars
          \/ Commit(s) /\ UNCHANGED genVars
          \/ Fault /\ Abort(s) /\ UNCHANGED genVars
          \/ CancelHonoured(s)
          \/ LoseConnection(s) /\ UNCHANGED genVars
    \/ OrphanCommits /\ UNCHANGED genVars
    \/ OrphanAborts /\ UNCHANGED genVars
    \/ Failover /\ UNCHANGED genVars

BatchInsert(s) == QueryOk(s) \/ Retry(s) \/ InsertFails(s) \/ NextRow(s) \/ RowsDone(s)

Initialize == CountRows \/ InitializeFails \/ SeedNext \/ SeedInserted \/ SeedFails \/ SeedDone

Worker(w) ==
    \/ BeginRead(w) \/ BeginInsert(w) \/ BeginUpdate(w) \/ WorkerExits(w)
    \/ ReadOk(w) \/ UpdateOk(w) \/ ReadOrUpdateFails(w)
    \/ AddTotalRows(w) \/ RecordInsert(w) \/ RecordError(w)

Next ==
    \/ Server
    \/ Initialize
    \/ Start
    \/ \E s \in Sessions : BatchInsert(s)
    \/ \E w \in Workers : Worker(w)
    \/ ContextExpires
    \/ Stop
    \/ WaitDone

Spec == Init /\ [][Next]_vars

-----------------------------------------------------------------------------
(* What the generator promises.                                             *)

\* Type invariant: every variable of server and generator holds a value of its
\* kind.
TypeOK == PgTypeOK /\ GenTypeOK

\* A batch batchInsert returned nil for had been committed, and every row of it
\* is tracked: rows.Err() is read after ReadyForQuery and after the last
\* RecordInsertedID.  What AddTotalRows and RecordInsert count rests on this.
ConfirmedWereCommitted == confirmed \subseteq ever /\ confirmed \subseteq received

\* Every success the report counts is in the ledger its loss is computed from: the rows
\* of the batches counted by RecordInsert, and of those seeded, are all tracked.  As
\* the sync.Map holds ids, and after each failover an id may come again, one id stands
\* for at most one row of each timeline; on the first there are as many ids as rows.
SuccessesTracked ==
    seeded + BatchSize * total["inserts"] <= tl * Cardinality(insertedIDs)

\* totalRows, from which reads and updates draw their ids, never counts a row
\* that no transaction committed, and is positive when the workers run: none of
\* their reads and updates is turned away for want of rows.  Also when the client
\* meets a table whose seeding an earlier one has left half-way.
TotalRowsBacked ==
    /\ totalRows <= Cardinality(ever)
    /\ phase \in {"running", "stopping", "stopped"} => totalRows > 0

\* Without a fault and before the deadline the ledger of tracked ids is exact:
\* the rows given to RecordInsertedID or on their way are those committed since
\* the start, and those of transactions still open.
FaultFreeLedgerExact ==
    faults = 0 /\ ~ctxDone =>
       /\ Table = ever
       /\ received \cup UNION {unread[s] : s \in Sessions}
             = (ever \ pre) \cup UNION {rows[s] : s \in {x \in Sessions : xact[x] = "open"}}

\* When Stop has returned, wg.Wait has seen every worker out, so the totals the
\* final report and CheckDataLoss read no longer change.
QuietAfterStop == [][phase = "stopped" => UNCHANGED metricsVars]_vars

\* An operation is counted exactly once, when it ends: as a success of its kind
\* or as an error (only an update that knows of no rows would go uncounted, and
\* TotalRowsBacked excludes it).
EveryOperationCounted ==
    started = total["reads"] + total["inserts"] + total["updates"] + total["errors"]
              + Cardinality({w \in Workers : pc[w] \notin {"none", "loop", "exited"}})

-----------------------------------------------------------------------------
(* Liveness.  The clock runs (the deadline and the timer come), goroutines   *)
(* are scheduled, and a cancel request is honoured in the end, or else the   *)
(* connection breaks.  That much is assumed of the server, and no more: it   *)
(* need neither run nor commit a statement, nor answer one before.           *)

\* batchInsert acts on what has arrived: a row, the end of the rows, an error.
ActsOnAnswer(s) ==
    \/ QueryOk(s) \/ Retry(s) \/ NextRow(s) \/ RowsDone(s)
    \/ InsertFails(s) /\ xact[s] \in {"aborted", "killed"}

\* main and the workers where they do not wait for the server.
MainActs == SeedNext \/ SeedInserted \/ SeedFails \/ SeedDone \/ Start \/ Stop \/ WaitDone
WorkerActs(w) == WorkerExits(w) \/ AddTotalRows(w) \/ RecordInsert(w) \/ RecordError(w)

FairSpec ==
    /\ Spec
    /\ WF_vars(ContextExpires)
    /\ WF_vars(MainActs)
    /\ WF_vars(InitializeFails /\ ctxDone)
    /\ \A s \in Sessions : WF_vars(ActsOnAnswer(s)) /\ WF_vars(CancelHonoured(s))
    /\ \A w \in Workers : WF_vars(WorkerActs(w)) /\ WF_vars(ReadOrUpdateFails(w) /\ ctxDone)

\* The run comes to an end although Stop waits without a timeout for workers that wait
\* for the database, and although the server may finish no statement: at the deadline
\* each of them is cancelled.  Where the cancel request is lost and the connection
\* stays, a read that waits for the answer goes on waiting, and so does Stop.
RunEnds == <>(phase \in {"stopped", "failed"})

\* What DATA_LOSS_TRACKING.md:43 says of the number the report is based on, "All
\* records successfully inserted during test": a tracked row was committed.  It
\* holds as long as the answer to a batch fits the server's output buffer; a larger
\* batch is tracked before its commit is known, and may still fail.
TrackedWereInserted == phase = "stopped" => received \subseteq ever

-----------------------------------------------------------------------------
(* The generator, its server and its network implement the abstract ledger:   *)
(* seeding, retries, lost answers, the deadline and Stop are stutters of it or *)
(* one of its steps.                                                         *)

OpenRows == UNION ({rows[s] : s \in {x \in Sessions : xact[x] = "open"}} \cup orphans)
ComingRows == UNION {unread[s] : s \in Sessions}

L == INSTANCE Ledger WITH
        pending <- OpenRows,
        coming <- ComingRows,
        present <- Table,
        tracked <- received,
        closed <- (phase = "stopped")

\* The promise of Ledger.tla, kept step by step: no row is entered twice or out of
\* nowhere, none is confirmed that was not committed, a row the database has lost
\* does not come back, and nothing is entered once Stop has returned.
ImplementsLedger == L!Spec
=============================================================================
