# A verified model of the PostgreSQL load-test client

The program is a Go client that puts a PostgreSQL server under load with many
worker goroutines, reports throughput and latencies while it runs, and at the end
checks which of the rows it inserted are still in the database. It is run against
clusters that crash, fail over and `pg_rewind` during the test, so its own verdict
("N records lost") is what must be right. This directory holds TLA+ models of it,
TLC configurations that check them, and TLAPS proofs.

The executable is `main_v2.go` and what it calls. `main.go` renames its `main` to
`_main`, which nothing in the tree calls; `UPGRADE_GUIDE.md:305` ("Use V1 When") keeps
that first version for write tests, so it is modelled too, after the second.

## 1. Inventory

| Component | Source | State | Operations | Hard behaviour |
|---|---|---|---|---|
| Load generator | `clients/postgres/load_generator_v2.go`, `main_v2.go:67-147` | `totalRows`, `stopChan`, `WaitGroup`, one goroutine per worker | `Initialize` + seeding, `Start`, `worker`, `performRead/Insert/Update`, `batchInsert`, `Stop` | ids are tracked while an answer streams in; lost answers; `database/sql` retries; a deadline in any state; Stop waits for calls in flight |
| Data loss check, cleanup | `load_generator_v2.go:507-646`, `main_v2.go:174-219` | the tracked ids, `found` | `CheckDataLoss`, `checkDataLossOptimized`, `Cleanup` | several queries without a snapshot; a count instead of a set; id reuse after a failover; restarts on a used table |
| Metrics | `metrics/metrics_v2.go` | atomic counters and gauges, `sync.Map` of ids, latency buffers under a lock, unprotected `last*` fields | `Record*`, `RecordInsertedID`, `UpdateConnectionMetrics`, `GetSnapshot` | two goroutines take snapshots, workers and the monitor store between any two loads |
| Percentiles and averages | `metrics/metrics.go:255-290` | a copy of the buffer | `calculateAvg`, `calculatePercentile` | index at the ends, truncation, a sort under a lock |
| Connection manager | `clients/postgres/connection_manager.go` | the `*sql.DB` pool | `NewConnectionManager`, `GetConnectionStats`, `MonitorConnections`, `HealthCheck`, `Close` | check and use are apart; two queries; other clients come and go; the pool closes under its users |
| Configuration | `config/config.go` and its readers in `main_v2.go` | the `Config` | `LoadFromEnv`, `Validate` | sums and durations that overflow; ranges that are not checked |
| First version | `main.go`, `load_generator.go`, `metrics/metrics.go` | as the generator, with an id chosen by each update | `Initialize`, `worker`, `performInsert/Update`, `Stop`, check, cleanup | an update is two statements; an empty table |
| PostgreSQL, `database/sql`, `lib/pq` | external | log, sequence, open transactions, pool | – | aborts, broken connections, failovers |
| KubeDB builder, xorm client | `kubedb_client_builder.go`, `client.go` | none | – | never called |
| Scripts, manifests, `vendor/` | – | – | – | third party, or no behaviour |

How they interact: `main` loads the configuration, makes a context with the deadline
`Duration + 30s`, connects (connection manager), initializes and seeds (generator),
starts the monitor, the reporter and the workers, waits for the timer, a signal or the
deadline, stops the workers, takes the final snapshot, checks for data loss on a fresh
context of five minutes, drops the table and exits. Workers share the pool, the
counters, the ledger of ids and `totalRows`.

What makes each component correct: the ledger of ids agrees with what was committed as
far as the client can know, and each operation is counted once (generator); a loss is
not reported where there is none, nor missed where there is one (check); a snapshot is
consistent with what was recorded (metrics); limits of server and pool are kept,
everyone who asks for a connection is answered and all are given back (connection
manager); what `Validate` accepts means what it says (configuration). `PROJECT.json` lists
the hazards one by one, each at its line.

## 2. Modules

An arrow means EXTENDS; the proof modules extend what they prove about.

```
 Postgres  <--  LoadGeneratorV2  <--  DataLossCheck  <--  Rerun            killed and restarted
    |               |    \                |      \
    |               |     INSTANCE        |       LoadGenerator            first version
    |               |     Ledger          |
 LoadGeneratorV2Proofs  <--  DataLossCheckProofs  <--  RerunProofs
                                                  <--  LoadGeneratorProofs

 ConnectionManager <- ConnectionManagerProofs    GoIntegers <- Config <- ConfigProofs
 MetricsV2         <- MetricsV2Proofs            GoIntegers <- LatencyStats <- LatencyStatsProofs
```

The `MC*` modules instantiate them for TLC.

**Postgres** is the environment. The primary is a `log` of committed transactions; a
session's INSERT is `sent`, `open` (executed, its rows being sent), `committed`,
`aborted` or `killed`. `Flushed` says which DataRows leave the server before the
commit: full output buffers of `BufferRows` rows (8 kB, about 500 ids); the rest goes
out with ReadyForQuery, after the commit. A client that goes away leaves an *orphan*
transaction that may still commit. `Failover` keeps any prefix of the log (all of it: a
crash and restart) and sets the sequence anywhere between the largest surviving id and
the old value. Rows carry the timeline they were inserted on, so that a reused id is not
the same row.

**LoadGeneratorV2** has one session per worker and one for `main`. `pc[s]` is where the
goroutine stands:

| `pc` | in the code |
|---|---|
| `loop` | the `select` of `worker`; for `main`, between two seeding batches |
| `exec` | inside `QueryContext`, `attempts[s]` of at most three tries after `driver.ErrBadConn` |
| `rows` | in the `rows.Next` loop of `batchInsert` |
| `count`, `record`, `error` | after `batchInsert` returned: `totalRows.Add`, `RecordInsert`, `RecordError` |
| `read`, `update` | inside one of the four SELECTs, or the UPDATE |

`NextRow` is one turn of the loop with its `RecordInsertedID`; `RowsDone` is the end of
the loop with `rows.Err() == nil`; `InsertFails` is every way to return an error, and
`Fails` says when there is one: the server's, the connection's, or the context's. The last
alone is seen only where no answer is awaited, before the statement is on its way and at
the next `rows.Next`. A read that waits is ended from the server's side, by
`CancelHonoured`: the cancel request that `lib/pq` sends on a second connection
(`conn_go18.go:102`) is obeyed, or lost and never obeyed. `phase` is where `main` is.
`received` and `confirmed` are history variables: rows given to `RecordInsertedID`, rows of
batches that returned nil. `RecordInsertedID` stores the id in the `sync.Map`; the counter
it adds to after that, `totalInsertedIDs`, is read nowhere, and is left out.

**Ledger** is what the generator promises, without workers, statements or retries: rows
are entered as their ids arrive and at most once, a batch is confirmed only if it was
committed and is entered to its last row, rows the database has lost do not return, and
a closed ledger stands. `ImplementsLedger` in LoadGeneratorV2 instantiates it with the
refinement mapping *pending* = rows of open transactions and orphans, *coming* = unread
rows, *present* = the table, *tracked* = `received`, *closed* = Stop has returned. The
first version is checked against the same specification.

**DataLossCheck** extends the generator with what `main` does after `Stop`. The server
and its orphans keep moving between the queries. `BeginCheck` chooses the way as the code
does: batches of IN queries, or one COUNT over the range above `RangeThreshold` ids. The
histories `missedEver` and `missedAlways` record which tracked ids were absent at some
time, or all the time, of the check; the properties compare the reported number with them.

**Rerun** starts the client again on the same database after it failed, was killed in any
state, or has ended, as a Kubernetes job or deployment does. All memory is gone; table,
sequence and the transactions the killed client left open are not.

**LoadGenerator** is the first version. Its `batchInsert`, seeding, Stop, check and
cleanup have the same control as the second version's, and so the same actions; its own
are a choice of inserts and updates without reads, the SELECT of a random id and the
UPDATE as two steps (`SelectId`, `UpdateRow`), and `NoRows`, which counts nothing.

**ConnectionManager** counts connections: of the pool in use (`use`), idle in it
(`idle`), of other clients active and idle. `CurrentConnections` is what the query on
`pg_stat_activity` may return: the asking connection and the server's own processes are in
it, idle connections are not, and any number of the pool's others is, because one that is in
use is idle to the server before its query arrives and while its rows are read. SHOW
max_connections and that query are two steps on two connections. Main, the monitor and
callers of `HealthCheck` ask, workers and `main`'s later statements use, and `Close` comes
while the monitor may still hold or await a connection.

**MetricsV2** splits `Record*`, `UpdateConnectionMetrics` and `GetSnapshot` into their
single atomic or unprotected accesses. `told` sums the growth the finished snapshots
reported.

**LatencyStats** has one step per addition of `calculateAvg`, one per comparison of
`calculatePercentile`'s sort, and one copy per percentile. **Config** has `LoadFromEnv`,
`Validate` and the uses of the values that decide whether the test runs. Both compute with
**GoIntegers**: `Wrap` is Go's two's-complement overflow, `Quotient` its truncating
division.

## 3. Runs

| Run | Question | Bounds and why they are enough |
|---|---|---|
| tracking | Do the ledger, the counted successes and the commits agree at all times, stand still after Stop, and implement Ledger? | 2 workers and main; 2 operations; batches of 2 with `BufferRows = 1`, so that every cut through a streamed answer occurs; 1 fault of any kind at any time; an empty table (seeding, 2 batches) and a table with a row; rolls at both sides of each border |
| liveness | Does every run end? Are only committed rows tracked when batches fit the buffer? | 2 workers, 2 operations; batches of 2 with `BufferRows = 3`; 1 fault; an empty table and 1 seeding batch; rolls of a read and of an insert (an update waits as a read does) |
| check | Is the reported number between *always missing* and *ever missing*, whichever way is taken? | 1 worker, 2 batches of 2, 2 faults: lose an answer or rows, then fail over during the check; queries of 2 ids, range threshold 3, so that both ways and a short last batch occur |
| rerun | Is a report about its own run, seeding not repeated, and `totalRows` backed by rows also on a table that is half seeded? | 3 starts, 1 fault; 3 seed rows in batches of 2, so that a client dies with a batch committed, open, and short |
| pool | Are slots and limits kept, is everyone answered, and everything given back? | 2 workers, main, monitor and one caller of `HealthCheck` on a pool of 2; servers of 3 slots (tight) and 4 (fitting); 1 other client |
| metrics | Are the final snapshot, the intervals, the gauges and the buffer right, and does a recorder get the lock? | 2 workers with 2 operations and 1 report, 1 operation with 2 reports, 2 updates with 1 report; a buffer of 1 sample |
| latency | Does the sort end and keep its samples, do percentiles and average mean what they say? | all buffers of up to 4 of the durations 0, 1, 2, 5; percentiles 50, 75, 100, whose index falls on and between places; sums of 5 bits |
| config | Do accepted percentages add up, and does the context outlive the timer? | values at both sides of every limit; 20-bit ints, 8-bit int32, seconds of 100 units, so that sum, product and conversion wrap |
| first_version | Do the first version's updates meet their rows, and are all counted? Does it implement Ledger? | 2 workers, 2 operations, 1 fault |
| find_tracked | `DATA_LOSS_TRACKING.md:43`: tracked rows were inserted successfully | a batch of 3 with a buffer of 2 |
| find_range_masks | `main_v2.go:207`: no loss means that all ids are present | 2 faults, range check |
| find_rates | `README.md:299`: throughput of the last interval | 1 operation, 1 report |

The first nine pass. The three `find_` runs end in counterexamples to a sentence of the
repository's documents or messages; `PROJECT.json` lists them as findings:

- a batch whose answer is larger than the server's output buffer is tracked in part before
  it commits, and may fail after that: rows that never existed are later reported lost;
- above the threshold, rows in the range that are not tracked (an INSERT whose answer was
  lost) hide as many lost ones, and "all inserted records are present" is printed;
- the reporter's snapshot and main's final one share the `last*` fields without a lock, and
  a rate comes out negative.

All bounds are CONSTANTS: `MaxFaults`, `MaxOps`, `MaxRuns`, `Bounds`, `OthersLimit`, the
sizes of batches and buffers, and `Rolls` (values of `rng.Intn(100)`).

`CHECK_DEADLOCK FALSE` because the program ends: after `stopped`, `exited` or `closed` there
is no further step. That nobody waits forever is `RunEnds`, `WantIsServed`,
`RecorderIsServed` and `SortEnds`.

Every property is paired with a mutant in `PROJECT.json`, a small change of the modelled
code that TLC reports as a violation of the property. The mutants are defined next to the
operators they change.

### Fairness

`FairSpec` of LoadGeneratorV2 assumes weak fairness of the deadline and the timer (clocks
run), of every goroutine where it does not wait for the server (`MainActs`, `WorkerActs`, and
`ActsOnAnswer`: what has arrived is read), and of `CancelHonoured`: once the deadline has
passed, the cancel request of `lib/pq` is obeyed, or the connection breaks. Reads and
updates are one step each, so the same assumption is in the fairness of their failure after
the deadline (`ReadOrUpdateFails`, `InitializeFails`). No statement has to be run,
committed or answered. The code does not guarantee the assumption: `watchCancel` sets no
read deadline and does not repeat its request, so where the request is lost and the
connection stays up with a silent server, a worker waits, `Stop` waits for it without a
timeout, and the run does not end until TCP gives up. `RunEnds` says nothing of such runs.

`FairSpec` of ConnectionManager uses strong fairness for taking a connection
(`database/sql` hands a connection that comes back to a waiting request drawn at random,
so none is passed over for ever) and weak fairness of the server's answers. A statement
need not fail for the run to go on, except when the server refuses it for want of a slot:
`Refused` is the only failure that is fair. `FairSpec` of MetricsV2 has weak fairness of
the goroutines and strong fairness of `Lock`, because `sync.RWMutex` lets no new reader
pass a waiting writer. `FairSpec` of LatencyStats is weak fairness of the one goroutine
that sorts.

## 4. Proofs

Every theorem holds for all values of the constants that the named assumptions allow:
finitely many workers, positive batch sizes, percentages as `Validate` grants them, and
main's session apart from the workers'. TLC evaluates these assumptions on every run.

**LoadGeneratorV2Proofs** comes in six parts.

1. What each step of server and driver keeps
   (`PgInv == PgTypeOK /\ PgFinite /\ CommittedInEver`).
2. `TypeCorrect`, `ConfirmedBatchesCommitted`, `QuietAfterStopHolds`. The inductive
   invariant is `IInv == PgInv /\ GenTypeOK /\ Control /\ ConfirmedWereCommitted /\
   RowsTrackedOrUnread`. The types are not inductive: `wg \in Nat` needs that `wg` is the
   number of running workers (`Control`), and `totalRows \in Nat` that the table is finite.
   That a confirmed batch is tracked needs that a row the server has created is tracked or
   still to be read.
3. `LedgerInvariance` and `LedgerImplemented` (`Spec => ImplementsLedger`). Both rest on
   `LInv == RowsInTime /\ TransactionsApart /\ AnswersApart /\ LedgerCounts`: a row's
   timeline has begun and its id was drawn from the sequence, so the rows of an INSERT are
   new, and open transactions, answers under way and the ledger never share a row.
4. `OperationsCounted` (`EveryOperationCounted`), `RowsBacked` (`TotalRowsBacked`) and
   `SuccessesAccounted` (`SuccessesTracked`). The first needs `Positive`, that `totalRows`
   is never 0 while workers run: an update would otherwise return uncounted. The second
   counts sets: `Batches` says that a statement creates exactly one batch of rows that
   nobody else has, `Backed` that `totalRows` and the batches known to be committed but
   not yet added never exceed the rows from before the run and the confirmed ones;
   `CountInvariance` has both. The third, `Credited`, is that what `RecordInsert` and the
   seeding have counted, or are about to, is no more than the confirmed rows. These are
   tracked, and a row is known by its id and its timeline, so an id stands for at most one
   row of each timeline (`RowsPerId`).
5. `FaultFreeExact` (`FaultFreeLedgerExact`). `Undisturbed`: no statement has failed, a
   tracked row belongs to a confirmed batch or to one that is being read, and both are in
   the table; `Alone`: there are no orphans, and a committed row is from before the run, in
   a confirmed batch, or in one being read. Together they are the two halves of the equation.
6. `TrackedInserted` (`TrackedWereInserted`), for `BatchSize < BufferRows`: a batch that is
   smaller than the buffer is not flushed before its commit, so a statement that failed has
   been read only as far as it committed (`FailuresReadCommitted`). Only seeding may be
   flushed early, and when it fails main exits (`SettledRows`).

**DataLossCheckProofs**: `LossSound`, `BatchedComplete`, `RangeExact`, `PrimaryKey`,
`CleanReport` (`FaultFreeReportIsClean`), and `CheckIsQuiet`, that under the check the
generator is the one of LoadGeneratorV2. `IdsApart` (two rows of the primary never have the
same id, across any number of failovers) makes a COUNT of rows a count of ids. `CheckInv`
then bounds `found`, after each query, by the ids asked for that were never missing and
those that were not always missing (`Watching`, `BatchesCount`, `Reported`). In a run that
nothing disturbs `missedEver` stays empty (`NothingMissed`).

**RerunProofs**: `RerunInvariance` carries the invariants of a single run over every
restart (`AnyRun`): the transactions a killed client leaves open become orphans, which
keeps them apart and keeps every id below the sequence, and a table is dropped only when
nothing is open (`DroppedQuietly`). `EveryRunSound` draws the promises of generator and
check from it. `OwnReport` (`ReportIsOwn`) counts faults from the start of the run on
(`CalmRun`), and does not need that the run is alone. `SeededOnce` (`SeedingNotRepeated`)
counts rows: `Quota` is what the killed clients and the faults so far may have added,
`SlotRows` what the statement under way adds and `GivenRows` what one that was given up may,
and `SeedBounds` keeps the rows the primary holds, and among them those of orphans, within
these.

**LoadGeneratorProofs**: most steps of the first version are steps of the second
(`SharedStepIsNext`) and need no new proof; the others leave the server alone or send an
INSERT. So `BothInv` (`IInv`, `LInv` and `Engaged`) is an invariant of it as well, and with
it `FirstImplementsLedger`, `FirstTracksSoundly` (types, confirmed batches, silence after
Stop) and `FirstReportSound` (both bounds of the report). Its own properties
hold until the primary changes, because the table then only grows (`OneTimeline`):
`UpdatesMeet` (`UpdatesMeetRows`) from `ChosenThere`, and `AttemptsAccounted`
(`AttemptsCounted`) from `SeedingLeavesRows`: a batch of the seeding is never empty, so
there is a row to choose.

**ConnectionManagerProofs**: `ConnectionTypes`, `SlotsKept`, `FittingPoolLeavesRoom`,
`RejectedLeavesNothing`, from `CInv == TypeOK /\ Limits /\ Starting /\ MainLoads`: slots are
never overdrawn, and before the check main alone has a connection, and one at most.

**MetricsV2Proofs**: `SnapshotTypes` (`TInv`: types, begun updates, loop indices);
`BufferTrimmed` (`Locks`: the writer is alone, and a buffer above its limit is the one the
writer is about to trim); `GaugesNeverStale` (`Stores`, `Fresh`: the three stores of an update
come in order, so each gauge is of the present update or the one before); `FinalExact`
(`FInv`: main starts its snapshot after Stop, when every started operation is counted and no
counter moves); `IntervalsTile` (`TileInv`: for each counter, the growth told so far and
that of the report under way add up to what this report has loaded, and outside it to `last`).

**LatencyStatsProofs**: `SamplesKept`, `PercentilesRanked`, `AverageBetween`. The sort is
proved at its own steps, comparison by comparison: `SortInv` says that the copy is a
permutation of the buffer, that the places before `i` are in order and none of them is above
a later one, and that place `i` is the least of those compared. The rank of a percentile is
then a count of places, carried over to the buffer by the permutation. The average follows from
a bound on the partial sums (`SumBounds`), each of which fits if the last does.

**ConfigProofs**: that the percentages add up (`PercentagesSound`) and that the deadline
outlives the timer (`ContextOutlives`), for every width of int, from `ConfigInv` and from
`Wrap` leaving alone the numbers that fit.

Every safety property of the passing runs, and the refinement by both versions, is so a
theorem of its component's specification. Only model-checked are `TotalRowsBacked` under
restarts (it is proved for a single run, on a table with any number of rows), and liveness
(`RunEnds`, `WantIsServed`, `ClosedReturnsAll`, `RecorderIsServed`, `SortEnds`), which rests on
fairness and ENABLED, out of the prover's reach. `FirstTracksSoundly`, `FirstReportSound` and `EveryRunSound` state properties of
other runs' specifications for the first version and for restarts.

## 5. Divergences seen without a run

Places where the documents say something else than the code does, that follow from one
line of code and need no model:

- `DATA_LOSS_TRACKING.md:139` calls the loss exact; after a failover a reused id stands
  in for the lost row it belonged to, since the ledger holds ids.
- `README.md:278` says the table is not dropped; `main_v2.go:215` drops it after every check.
- `README.md:309` promises N free connections; the check is made once, before the pool
  opens its own connections, and leaves out the idle ones of everybody. Nothing can be said
  of its verdict beyond its own comparison, so no property is about it; the promise is kept
  where `max_connections` has room for the others, the whole pool and the free ones
  (`FittingPoolKeepsFree`).
- `ARCHITECTURE.md:25`, "Validation logic to ensure configuration correctness":
  `REPORT_INTERVAL = 0` is accepted and makes `NewTicker` panic; `BATCH_SIZE > 7281` is
  accepted and needs more than the 65535 parameters of a statement, so that every INSERT
  fails; `DB_MIN_FREE_CONNS` above 2^31 - 1 is accepted and wraps in `int32`, so that the
  check of the free connections passes. Config takes all three steps as the code does; a
  property that excluded these values would only repeat the guards they break.
- `README.md:303` calls the active connections those of the client; the query counts every
  client of the server.
- `KUBERNETES_QUICKSTART.md:160` names `MAX_OPEN_CONNS`; the code reads `DB_MAX_OPEN_CONNS`.
- The first version's worker takes every roll that is no insert for an update, while
  `main.go:49` prints an update percentage of its own.
- A table the first version has left lacks the columns `status` and `score`, and the second
  version's CREATE INDEX fails on it at every start.

## 6. Not modelled

- The rows' contents and columns, the SQL of the reads, all printing and its wording.
- Which rows an UPDATE of the second version meets: `RowsAffected` is not looked at by the
  code, and an UPDATE is an operation that succeeds or fails. In the first version it is
  modelled, because the id was selected from the table.
- A statement that was sent and whose client left before the server ran it is taken not
  to run; one that ran is an orphan and may commit.
- The first version's snapshots (`metrics/metrics.go`): they are those of MetricsV2 without
  the reads.
- `GetDBStats` only reads.
- The KubeDB builder and the xorm client: nothing calls them. (The builder leaks its engine
  when its first query fails.)
- Scripts, manifests and vendored libraries, apart from what Postgres and ConnectionManager
  say of `lib/pq` and `database/sql`.

## 7. Plan

1. (done) Postgres, LoadGeneratorV2, DataLossCheck, ConnectionManager, MetricsV2, Ledger,
   LatencyStats, Config, Rerun and the first version, with their runs.
2. (done) The safety properties of generator, check, connection manager, metrics and
   configuration as theorems, and the refinement of Ledger.
3. (done) The properties of undisturbed runs, of restarts, of the first version and of the
   latencies as theorems.
4. Prove next: the promises of the report under restarts for the range check,
   `TotalRowsBacked` under restarts, and an
   abstract specification of the check that DataLossCheck implements.
5. Model next: the first version's snapshots, should it be called again.
