------------------------- MODULE LoadGeneratorProofs -------------------------
(***************************************************************************)
(* Proofs about the first version of the client, for every number of          *)
(* workers, batch size, fault and operation: it implements the same ledger as   *)
(* the second, and as long as the primary does not change its updates meet the  *)
(* rows they have chosen, and each operation is counted once.                  *)
(***************************************************************************)
EXTENDS LoadGenerator, DataLossCheckProofs

firstVars == <<allVars, updateVars>>

\* What the two versions share of their invariants.
BothInv == IInv /\ LInv /\ Engaged

\* Until the primary changes, the table only grows.
OneTimeline == tl = 1 => Table = ever

\* The seeding, or whoever was there before, has left a row when the workers start.
SeedingLeavesRows ==
    /\ pc[Main] \in {"exec", "rows"} => seeded < SeedRows
    /\ xact[Main] \in {"open", "committed"} => rows[Main] # {}
    /\ seeded > 0 \/ pc[Main] = "count" => ever # {}
    /\ phase \in {"running", "stopping", "stopped"} => ever # {}

\* The row a worker is about to update is there.
ChosenThere ==
    /\ chosen \in [Workers -> Nat]
    /\ tl = 1 => /\ hollow = 0
                 /\ \A w \in Workers : pc[w] = "update" => chosen[w] \in Ids(Table)

-----------------------------------------------------------------------------
(* The steps of the first version: most are steps of the second.             *)

\* A worker that goes on with its operation, or begins one that is no insert.
GoesOn(w, l) ==
    /\ pc[w] \notin {"none", "exited", "exec", "rows"}
    /\ l \in {"loop", "read", "update"}
    /\ GoTo(w, l)
    /\ started' \in Nat
    /\ total' \in [Kind -> Nat]
    /\ UNCHANGED <<pgVars, mainVars, attempts, trackingVars, totalRows, confirmed>>

SharedStep ==
    \/ Server \/ ContextExpires \/ Start \/ Stop \/ WaitDone
    \/ InitializeFails \/ SeedNext \/ SeedInserted \/ SeedFails
    \/ \E s \in Sessions : BatchInsert(s)
    \/ \E w \in Workers : WorkerExits(w) \/ RecordError(w) \/ StatementFails(w)

LEMMA SharedStepIsNext == SharedStep => Next
<1>1. ASSUME NEW w \in Workers, StatementFails(w) PROVE ReadOrUpdateFails(w)
  BY <1>1 DEF StatementFails, ReadOrUpdateFails
<1> QED BY <1>1 DEF SharedStep, Next, Initialize, Worker

LEMMA FirstStepKinds ==
    ASSUME [FirstNext]_firstVars
    PROVE  \/ (SharedStep \/ CountRecords \/ Seeded) /\ UNCHANGED updateVars
           \/ \E w \in Workers :
                 \/ ChooseInsert(w) \/ ChooseUpdate(w) \/ NoRows(w)
                 \/ SelectId(w) \/ UpdateRow(w)
                 \/ Recorded(w, "count", "inserts") /\ UNCHANGED updateVars
           \/ UNCHANGED <<vars, updateVars>>
<1>1. CASE UNCHANGED firstVars
  BY <1>1 DEF firstVars, allVars
<1>2. CASE FirstCheckDataLoss \/ FirstCleanup
  BY <1>2 DEF FirstCheckDataLoss, CheckDataLoss, BeginCheck, CheckOneBatch, BatchesDone,
              CheckRange, CheckFails, FirstCleanup, Cleanup, CleanupFails
<1>3. CASE FirstRun
  <2>1. CASE OutsideClient \/ FirstStart \/ FirstBatchInsert \/ FirstStop
    BY <2>1 DEF OutsideClient, FirstStart, FirstBatchInsert, FirstStop, SharedStep
  <2>2. CASE FirstInitialize
    BY <2>2 DEF FirstInitialize, SeedInitialData, SharedStep
  <2>3. ASSUME NEW w \in Workers, FirstWorker(w)
        PROVE  \/ SharedStep /\ UNCHANGED updateVars
               \/ ChooseInsert(w) \/ ChooseUpdate(w) \/ NoRows(w)
               \/ SelectId(w) \/ UpdateRow(w)
               \/ Recorded(w, "count", "inserts") /\ UNCHANGED updateVars
    BY <2>3 DEF FirstWorker, InsertReturns, PerformUpdate, StatementFails, SharedStep
  <2> QED BY <1>3, <2>1, <2>2, <2>3 DEF FirstRun
<1> QED BY <1>1, <1>2, <1>3 DEF FirstNext

LEMMA WorkerGoesOn ==
    ASSUME GenTypeOK, NEW w \in Workers
    PROVE  /\ ChooseUpdate(w) => GoesOn(w, "read")
           /\ SelectId(w) => GoesOn(w, "update")
           /\ NoRows(w) => GoesOn(w, "loop")
           /\ UpdateRow(w) => GoesOn(w, "loop")
           /\ Recorded(w, "count", "inserts") => GoesOn(w, "loop")
<1>1. ChooseUpdate(w) => GoesOn(w, "read")
  BY DEF ChooseUpdate, Begin, GoesOn, GenTypeOK, metricsVars
<1>2. SelectId(w) => GoesOn(w, "update")
  BY DEF SelectId, GoesOn, GenTypeOK, metricsVars
<1>3. NoRows(w) => GoesOn(w, "loop")
  BY DEF NoRows, GoesOn, GenTypeOK, metricsVars
<1>4. ASSUME NEW from \in {"count", "update"}, NEW kind \in Kind, Recorded(w, from, kind)
      PROVE  GoesOn(w, "loop")
  <2>1. total' \in [Kind -> Nat] /\ started' \in Nat
    BY <1>4, RecordedKeepsGenTypeOK DEF GenTypeOK
  <2> QED BY <1>4, <2>1 DEF Recorded, GoesOn
<1>5. UpdateRow(w) => GoesOn(w, "loop")
  BY <1>4 DEF UpdateRow, Kind
<1>6. Recorded(w, "count", "inserts") => GoesOn(w, "loop")
  BY <1>4 DEF Kind
<1> QED BY <1>1, <1>2, <1>3, <1>5, <1>6

-----------------------------------------------------------------------------
(* The first version keeps the invariants of the second, and implements the    *)
(* ledger.                                                                   *)

LEMMA SharedStepKeepsBoth ==
    ASSUME BothInv, [Next]_vars
    PROVE  BothInv' /\ [L!Next]_(L!vars)
<1>1. IInv' /\ LInv' /\ [L!Next]_(L!vars)
  BY NextIInv, NextImplements DEF BothInv
<1>2. Engaged'
  BY NextKeepsEngaged DEF BothInv, IInv
<1> QED BY <1>1, <1>2 DEF BothInv

LEMMA GoesOnKeepsBoth ==
    ASSUME BothInv, NEW w \in Workers, NEW l, GoesOn(w, l)
    PROVE  BothInv' /\ [L!Next]_(L!vars)
<1> USE GeneratorAssumption
<1>1. PgInv'
  BY DEF BothInv, IInv, GoesOn, pgVars, PgInv, PgTypeOK, PgFinite, CommittedInEver
<1>2. GenTypeOK'
  BY DEF BothInv, IInv, GoesOn, GoTo, GenTypeOK, Location, mainVars, trackingVars
<1>3. Control'
  BY MovesOn DEF BothInv, IInv, GoesOn, mainVars, Control
<1>4. Tracking'
  BY DEF BothInv, IInv, GoesOn, Tracking, ConfirmedWereCommitted, RowsTrackedOrUnread, pgVars,
         trackingVars
<1>5. LInv' /\ [L!Next]_(L!vars)
  BY OtherStepImplements DEF BothInv, GoesOn, apartVars, pgVars, mainVars, trackingVars
<1>6. Engaged'
  <2>1. w \in Sessions /\ w # Main /\ xact[w] = "idle"
    BY DEF BothInv, Engaged, GoesOn
  <2> QED BY <2>1, EngagedStands DEF BothInv, IInv, GoesOn, pgVars, mainVars
<1> QED BY <1>1, <1>2, <1>3, <1>4, <1>5, <1>6 DEF BothInv, IInv, Tracking

LEMMA ChooseInsertKeepsBoth ==
    ASSUME BothInv, NEW w \in Workers, ChooseInsert(w)
    PROVE  BothInv' /\ [L!Next]_(L!vars)
<1> USE GeneratorAssumption
<1>1. /\ pc[w] = "loop" /\ started' = started + 1 /\ UNCHANGED <<mainVars, metricsVars>>
      /\ StartInsert(w)
  BY DEF ChooseInsert, Begin
<1>2. PgInv'
  BY <1>1, SendKeepsPgInv DEF StartInsert, dbVars, BothInv, IInv
<1>3. GenTypeOK'
  BY <1>1 DEF BothInv, IInv, StartInsert, GoTo, GenTypeOK, Location, MaxAttempts, mainVars,
              metricsVars, trackingVars
<1>4. Control'
  BY <1>1, MovesOn DEF BothInv, IInv, StartInsert, mainVars, Control
<1>5. Tracking'
  BY <1>1 DEF BothInv, IInv, PgInv, PgTypeOK, StartInsert, Send, dbVars, Tracking,
              ConfirmedWereCommitted, RowsTrackedOrUnread, metricsVars, trackingVars
<1>6. LInv' /\ [L!Next]_(L!vars)
  BY <1>1, StartInsertImplements DEF BothInv, mainVars
<1>7. Engaged'
  <2>1. w \in Sessions /\ w # Main /\ phase # "init"
    BY <1>1, WorkerInRun DEF BothInv, IInv
  <2>2. Send(w) /\ GoTo(w, "exec") /\ UNCHANGED phase
    BY <1>1 DEF StartInsert, mainVars
  <2>3. pc'[w] = "exec" /\ \A x \in Sessions : x # w => pc'[x] = pc[x]
    BY <2>1, <2>2 DEF GoTo, GenTypeOK, BothInv, IInv
  <2> QED BY <2>1, <2>2, <2>3, SendKeepsEngaged DEF BothInv, IInv
<1> QED BY <1>2, <1>3, <1>4, <1>5, <1>6, <1>7 DEF BothInv, IInv, Tracking

LEMMA CountOrSeededKeepsBoth ==
    ASSUME BothInv, CountRecords \/ Seeded
    PROVE  BothInv' /\ [L!Next]_(L!vars)
<1> USE GeneratorAssumption
<1>1. /\ phase \in {"init", "seeding"} /\ phase' \in {"seeding", "running"}
      /\ UNCHANGED <<pgVars, ctxDone, stopClosed, wg, seeded, started, attempts, metricsVars>>
      /\ UNCHANGED pc \/ GoTo(Main, "loop")
  BY DEF CountRecords, Seeded
<1>2. PgInv'
  BY <1>1 DEF BothInv, IInv, pgVars, PgInv, PgTypeOK, PgFinite, CommittedInEver
<1>3. GenTypeOK'
  BY <1>1 DEF BothInv, IInv, GoTo, GenTypeOK, Location, Phase, metricsVars, trackingVars
<1>4. pc'[Main] = "loop" /\ \A w \in Workers : pc'[w] = "none" /\ pc[w] = "none"
  BY <1>1 DEF CountRecords, Seeded, GoTo, GenTypeOK, BothInv, IInv, Control
<1>5. Control'
  <2>1. Running' = Running
    BY <1>4 DEF Running
  <2> QED BY <1>1, <1>4, <2>1 DEF Control, BothInv, IInv
<1>6. Tracking'
  BY <1>1 DEF BothInv, IInv, Tracking, ConfirmedWereCommitted, RowsTrackedOrUnread, pgVars,
              metricsVars, trackingVars
<1>7. LInv' /\ [L!Next]_(L!vars)
  BY <1>1, OtherStepImplements DEF BothInv, apartVars, pgVars, metricsVars, trackingVars
<1>8. Engaged'
  <2>1. \A s \in Sessions : xact[s] = "idle"
    BY <1>1, <1>4 DEF CountRecords, Seeded, BothInv, Engaged
  <2> QED BY <1>1, <1>4, <2>1 DEF Engaged, pgVars
<1> QED BY <1>2, <1>3, <1>5, <1>6, <1>7, <1>8 DEF BothInv, IInv, Tracking

LEMMA FirstKeepsBoth == BothInv /\ [FirstNext]_firstVars => BothInv' /\ [L!Next]_(L!vars)
<1> SUFFICES ASSUME BothInv, [FirstNext]_firstVars PROVE BothInv' /\ [L!Next]_(L!vars)
  OBVIOUS
<1>1. CASE SharedStep \/ UNCHANGED vars
  BY <1>1, SharedStepIsNext, SharedStepKeepsBoth
<1>2. CASE CountRecords \/ Seeded
  BY <1>2, CountOrSeededKeepsBoth
<1>3. ASSUME NEW w \in Workers,
             \/ ChooseInsert(w) \/ ChooseUpdate(w) \/ NoRows(w) \/ SelectId(w) \/ UpdateRow(w)
             \/ Recorded(w, "count", "inserts")
      PROVE  BothInv' /\ [L!Next]_(L!vars)
  <2>1. ChooseInsert(w) \/ \E l \in {"loop", "read", "update"} : GoesOn(w, l)
    BY <1>3, WorkerGoesOn DEF BothInv, IInv
  <2> QED BY <2>1, ChooseInsertKeepsBoth, GoesOnKeepsBoth
<1> QED BY <1>1, <1>2, <1>3, FirstStepKinds

LEMMA FirstInitBoth == FirstInit => BothInv /\ L!Init
<1>1. FirstInit => Init
  BY DEF FirstInit, CheckInit
<1>2. Init => Engaged
  BY GeneratorAssumption DEF Init, PgInit, Engaged
<1> QED BY <1>1, <1>2, InitIInv, InitImplements DEF BothInv

\* Types, tracking and the apartness of transactions, as in the second version.
THEOREM FirstInvariance == FirstSpec => []BothInv
<1>1. FirstInit => BothInv
  BY FirstInitBoth
<1>2. BothInv /\ [FirstNext]_firstVars => BothInv'
  BY FirstKeepsBoth
<1> QED BY <1>1, <1>2, PTL DEF FirstSpec, firstVars

\* Every step of the first version is a step of the ledger or leaves it alone: no row is
\* entered twice, none is confirmed that was not committed, a lost one does not return.
THEOREM FirstImplementsLedger == FirstSpec => ImplementsLedger
<1>1. FirstInit => L!Init
  BY FirstInitBoth
<1>2. BothInv /\ [FirstNext]_firstVars => [L!Next]_(L!vars)
  BY FirstKeepsBoth
<1>3. FirstSpec => L!Spec
  BY <1>1, <1>2, FirstInvariance, PTL DEF FirstSpec, firstVars, L!Spec
<1> QED BY <1>3 DEF ImplementsLedger

-----------------------------------------------------------------------------
(* While the primary has not changed, the table only grows.                  *)

\* What a step does to the database.
LEMMA DatabaseChanges ==
    ASSUME [FirstNext]_firstVars
    PROVE  UNCHANGED dbVars \/ Server
<1>1. SharedStep /\ ~Server => UNCHANGED dbVars
  BY DEF SharedStep, ContextExpires, Start, Stop, WaitDone, InitializeFails, SeedNext, SeedInserted,
         SeedFails, BatchInsert, StartInsert, QueryOk, Retry, InsertFails, NextRow, RowsDone,
         WorkerExits, RecordError, Recorded, StatementFails, pgVars, dbVars
<1>2. CountRecords \/ Seeded => UNCHANGED dbVars
  BY DEF CountRecords, Seeded, pgVars, dbVars
<1>3. ASSUME NEW w \in Workers,
             \/ ChooseInsert(w) \/ ChooseUpdate(w) \/ NoRows(w) \/ SelectId(w) \/ UpdateRow(w)
             \/ Recorded(w, "count", "inserts")
      PROVE  UNCHANGED dbVars
  BY <1>3 DEF ChooseInsert, StartInsert, ChooseUpdate, NoRows, SelectId, UpdateRow, Recorded,
              pgVars, dbVars
<1>4. UNCHANGED vars => UNCHANGED dbVars
  BY DEF vars, pgVars, dbVars
<1> QED BY <1>1, <1>2, <1>3, <1>4, FirstStepKinds

LEMMA TableOnlyGrows ==
    ASSUME BothInv, OneTimeline, [FirstNext]_firstVars
    PROVE  /\ ever \subseteq ever'
           /\ tl' = 1 => tl = 1 /\ Table' = ever' /\ Table \subseteq Table'
<1> USE DEF BothInv, IInv, PgInv, PgTypeOK
<1>1. CASE UNCHANGED dbVars
  <2>1. Table' = Table /\ ever' = ever /\ tl' = tl
    BY <1>1 DEF Table, dbVars
  <2> QED BY <2>1 DEF OneTimeline
<1>2. ASSUME NEW b \in SUBSET Row, log' = Append(log, b), ever' = ever \cup b, tl' = tl
      PROVE  /\ ever \subseteq ever'
             /\ tl' = 1 => tl = 1 /\ Table' = ever' /\ Table \subseteq Table'
  <2>1. Table' = Table \cup b
    BY <1>2, TableGrows
  <2> QED BY <1>2, <2>1 DEF OneTimeline
<1>3. ASSUME NEW s \in Sessions, Commit(s)
      PROVE  log' = Append(log, rows[s]) /\ ever' = ever \cup rows[s] /\ tl' = tl
  BY <1>3 DEF Commit
<1>4. ASSUME OrphanCommits
      PROVE  \E o \in orphans : log' = Append(log, o) /\ ever' = ever \cup o /\ tl' = tl
  BY <1>4 DEF OrphanCommits
<1>5. CASE Failover
  <2>1. tl \in Nat \ {0} /\ tl' = tl + 1 /\ ever' = ever
    BY <1>5 DEF Failover, LInv, RowsInTime
  <2> QED BY <2>1
<1>6. ASSUME NEW s \in Sessions, Execute(s, BatchOf(s)) \/ Abort(s) \/ LoseConnection(s)
      PROVE  UNCHANGED <<log, tl, ever>>
  BY <1>6 DEF Execute, Abort, LoseConnection
<1>7. OrphanAborts => UNCHANGED <<log, tl, ever>>
  BY DEF OrphanAborts
<1>8. CASE UNCHANGED <<log, tl, ever>>
  <2>1. Table' = Table
    BY <1>8 DEF Table
  <2> QED BY <1>8, <2>1 DEF OneTimeline
<1>9. CASE Server
  <2>1. \/ \E s \in Sessions : Commit(s)
        \/ OrphanCommits \/ Failover \/ UNCHANGED <<log, tl, ever>>
    BY <1>6, <1>7, <1>9 DEF Server, CancelHonoured
  <2>2. ASSUME NEW s \in Sessions, Commit(s)
        PROVE  \E b \in SUBSET Row : log' = Append(log, b) /\ ever' = ever \cup b /\ tl' = tl
    BY <1>3, <2>2
  <2>3. (\E s \in Sessions : Commit(s)) \/ OrphanCommits
           => \E b \in SUBSET Row : log' = Append(log, b) /\ ever' = ever \cup b /\ tl' = tl
    BY <1>4, <2>2
  <2> QED BY <1>2, <1>5, <1>8, <2>1, <2>3
<1> QED BY <1>1, <1>9, DatabaseChanges

LEMMA FirstInitTimeline == FirstInit => OneTimeline
<1> SUFFICES ASSUME FirstInit PROVE Table = ever
  BY DEF OneTimeline
<1>1. (log = <<>> /\ pre = {}) \/ log = <<pre>>
  <2>1. PICK n \in PreRows : /\ pre = {[id |-> i, tl |-> 1] : i \in 1..n}
                             /\ log = IF n = 0 THEN <<>> ELSE <<pre>>
    BY DEF FirstInit, CheckInit, Init, PgInit
  <2>2. n = 0 => pre = {}
    BY <2>1
  <2> QED BY <2>1, <2>2
<1>2. Table = pre
  <2>1. CASE log = <<>> /\ pre = {}
    BY <2>1 DEF Table
  <2>2. CASE log = <<pre>>
    <3>1. DOMAIN log = {1} /\ log[1] = pre
      BY <2>2
    <3> QED BY <3>1 DEF Table
  <2> QED BY <1>1, <2>1, <2>2
<1> QED BY <1>2 DEF FirstInit, CheckInit, Init, PgInit

-----------------------------------------------------------------------------
(* Initialize leaves a row behind.                                           *)

LEMMA MainStands ==
    ASSUME SeedingLeavesRows, ever \subseteq ever', UNCHANGED seeded,
           pc'[Main] = pc[Main] \/ pc'[Main] = "none",
           phase' \in {"running", "stopping", "stopped"}
              => phase \in {"running", "stopping", "stopped"},
           xact'[Main] \in {"open", "committed"}
              => xact[Main] \in {"open", "committed"} /\ rows'[Main] = rows[Main]
    PROVE  SeedingLeavesRows'
BY DEF SeedingLeavesRows

LEMMA ServerLeavesRows ==
    ASSUME BothInv, SeedingLeavesRows, ever \subseteq ever', Server
    PROVE  SeedingLeavesRows'
<1> USE GeneratorAssumption DEF BothInv, IInv, PgInv, PgTypeOK
<1>1. UNCHANGED <<phase, pc, seeded>>
  BY DEF Server, CancelHonoured, genVars, mainVars
<1>2. CASE Execute(Main, BatchOf(Main))
  <2>1. seeded \in Nat /\ seeded < SeedRows
    BY <1>2 DEF Execute, Engaged, SeedingLeavesRows, GenTypeOK
  <2>2. BatchOf(Main) \in Nat /\ BatchOf(Main) >= 1
    BY <2>1 DEF BatchOf, Smaller
  <2>3. [id |-> seq + 1, tl |-> tl] \in NewRows(BatchOf(Main))
    BY <2>2 DEF NewRows
  <2>4. rows'[Main] # {}
    BY <1>2, <2>3 DEF Execute
  <2> QED BY <1>1, <2>4 DEF SeedingLeavesRows
<1>3. ASSUME ~Execute(Main, BatchOf(Main)), xact'[Main] \in {"open", "committed"}
      PROVE  xact[Main] \in {"open", "committed"} /\ rows'[Main] = rows[Main]
  <2>1. ASSUME NEW s \in Sessions, Execute(s, BatchOf(s)), s # Main
        PROVE  xact'[Main] = xact[Main] /\ rows'[Main] = rows[Main]
    BY <2>1 DEF Execute
  <2>2. ASSUME NEW s \in Sessions, Commit(s) \/ Abort(s) \/ LoseConnection(s)
        PROVE  xact[Main] \in {"open", "committed"} /\ rows'[Main] = rows[Main]
    BY <1>3, <2>2 DEF Commit, Abort, LoseConnection
  <2>3. OrphanCommits \/ OrphanAborts => xact' = xact /\ rows' = rows
    BY DEF OrphanCommits, OrphanAborts
  <2>4. Failover => xact[Main] = xact'[Main] /\ rows' = rows
    BY <1>3 DEF Failover, Live
  <2> QED BY <1>3, <2>1, <2>2, <2>3, <2>4 DEF Server, CancelHonoured
<1> QED BY <1>1, <1>2, <1>3, MainStands

LEMMA BatchInsertLeavesRows ==
    ASSUME BothInv, SeedingLeavesRows, NEW s \in Sessions, BatchInsert(s)
    PROVE  SeedingLeavesRows'
<1> USE GeneratorAssumption DEF BothInv, IInv, PgInv, PgTypeOK, GenTypeOK
<1>1. UNCHANGED <<phase, seeded, ever>>
  BY DEF BatchInsert, QueryOk, Retry, InsertFails, NextRow, RowsDone, mainVars, pgVars, dbVars
<1>2. CASE s # Main
  <2>1. pc'[Main] = pc[Main] /\ xact'[Main] = xact[Main] /\ rows'[Main] = rows[Main]
    BY <1>2 DEF BatchInsert, QueryOk, Retry, Send, InsertFails, Leave, NextRow, RowsDone, GoTo,
                pgVars
  <2> QED BY <1>1, <2>1, MainStands
<1>3. CASE QueryOk(Main)
  BY <1>3 DEF QueryOk, GoTo, pgVars, mainVars, SeedingLeavesRows
<1>4. CASE Retry(Main)
  <2>1. xact'[Main] = "sent" /\ pc' = pc
    BY <1>4 DEF Retry, Send
  <2> QED BY <1>1, <2>1, MainStands
<1>5. CASE InsertFails(Main)
  <2>1. xact'[Main] = "idle" /\ pc'[Main] = "error"
    BY <1>5 DEF InsertFails, Leave, GoTo
  <2> QED BY <1>1, <2>1 DEF SeedingLeavesRows
<1>6. CASE NextRow(Main)
  <2>1. UNCHANGED <<pc, xact, rows>>
    BY <1>6 DEF NextRow
  <2> QED BY <1>1, <2>1, MainStands
<1>7. CASE RowsDone(Main)
  <2>1. rows[Main] # {} /\ rows[Main] \subseteq ever
    BY <1>7 DEF RowsDone, SeedingLeavesRows, CommittedInEver
  <2>2. xact'[Main] = "idle" /\ pc'[Main] = "count"
    BY <1>7 DEF RowsDone, Leave, GoTo
  <2> QED BY <1>1, <2>1, <2>2 DEF SeedingLeavesRows
<1> QED BY <1>2, <1>3, <1>4, <1>5, <1>6, <1>7 DEF BatchInsert

LEMMA WorkerLeavesRows ==
    ASSUME BothInv, SeedingLeavesRows, NEW w \in Workers, NEW l, GoTo(w, l),
           UNCHANGED <<phase, seeded, ever>>,
           \/ UNCHANGED <<xact, rows>>
           \/ Send(w)
    PROVE  SeedingLeavesRows'
<1>1. pc'[Main] = pc[Main] /\ xact'[Main] = xact[Main] /\ rows'[Main] = rows[Main]
  BY GeneratorAssumption DEF GoTo, Send, BothInv, IInv, PgInv, PgTypeOK, GenTypeOK
<1> QED BY <1>1, MainStands

LEMMA MainLeavesRows ==
    ASSUME BothInv, SeedingLeavesRows,
           \/ ContextExpires \/ Start \/ Stop \/ WaitDone
           \/ InitializeFails \/ SeedNext \/ SeedInserted \/ SeedFails \/ CountRecords \/ Seeded
    PROVE  SeedingLeavesRows'
<1> USE GeneratorAssumption DEF BothInv, IInv, PgInv, PgTypeOK, GenTypeOK
<1>1. CASE ContextExpires \/ Start \/ Stop \/ WaitDone \/ InitializeFails
  <2>1. UNCHANGED <<seeded, ever, xact, rows>>
    BY <1>1 DEF ContextExpires, Start, Stop, WaitDone, InitializeFails, pgVars, dbVars
  <2>2. pc'[Main] = pc[Main] \/ pc'[Main] = "none"
    BY <1>1 DEF ContextExpires, Start, Stop, WaitDone, InitializeFails
  <2>3. phase' \in {"running", "stopping", "stopped"}
           => phase \in {"running", "stopping", "stopped"}
    BY <1>1 DEF ContextExpires, Start, Stop, WaitDone, InitializeFails
  <2> QED BY <2>1, <2>2, <2>3, MainStands
<1>2. CASE SeedNext
  BY <1>2 DEF SeedNext, StartInsert, Send, GoTo, mainVars, dbVars, SeedingLeavesRows
<1>3. CASE SeedInserted
  <2>1. ever # {} /\ pc'[Main] = "loop" /\ UNCHANGED <<xact, rows, ever, phase>>
    BY <1>3 DEF SeedInserted, SeedingLeavesRows, GoTo, pgVars
  <2> QED BY <2>1 DEF SeedingLeavesRows
<1>4. CASE SeedFails
  <2>1. pc'[Main] = "none" /\ phase' = "failed" /\ UNCHANGED <<xact, rows, ever, seeded>>
    BY <1>4 DEF SeedFails, GoTo, pgVars
  <2> QED BY <2>1, MainStands
<1>5. CASE CountRecords
  <2>1. pc'[Main] = "loop" /\ UNCHANGED <<xact, rows, ever, seeded>>
    BY <1>5 DEF CountRecords, GoTo, pgVars
  <2>2. phase' \in {"running", "stopping", "stopped"} => ever # {}
    BY <1>5, TableInEver DEF CountRecords
  <2> QED BY <2>1, <2>2 DEF SeedingLeavesRows
<1>6. CASE Seeded
  <2>1. seeded > 0 /\ UNCHANGED <<xact, rows, ever, seeded, pc>>
    BY <1>6 DEF Seeded, pgVars
  <2> QED BY <2>1 DEF SeedingLeavesRows
<1> QED BY <1>1, <1>2, <1>3, <1>4, <1>5, <1>6

LEMMA FirstLeavesRows ==
    ASSUME BothInv, OneTimeline, SeedingLeavesRows, [FirstNext]_firstVars
    PROVE  SeedingLeavesRows'
<1>1. ever \subseteq ever'
  BY TableOnlyGrows
<1>2. ASSUME NEW w \in Workers,
             \/ WorkerExits(w) \/ RecordError(w) \/ StatementFails(w)
             \/ ChooseInsert(w) \/ ChooseUpdate(w) \/ NoRows(w) \/ SelectId(w) \/ UpdateRow(w)
             \/ Recorded(w, "count", "inserts")
      PROVE  SeedingLeavesRows'
  <2>1. UNCHANGED <<phase, seeded, ever>> /\ (UNCHANGED <<xact, rows>> \/ Send(w))
    BY <1>2 DEF WorkerExits, RecordError, StatementFails, ChooseInsert, ChooseUpdate, Begin,
                StartInsert, NoRows, SelectId, UpdateRow, Recorded, mainVars, pgVars, dbVars
  <2>2. \E l \in {"exited", "loop", "error", "exec", "read", "update"} : GoTo(w, l)
    BY <1>2 DEF WorkerExits, RecordError, StatementFails, ChooseInsert, ChooseUpdate,
                StartInsert, NoRows, SelectId, UpdateRow, Recorded
  <2> QED BY <2>1, <2>2, WorkerLeavesRows
<1>3. CASE UNCHANGED vars
  BY <1>3, MainStands DEF vars, genVars, mainVars, pgVars
<1> QED BY <1>1, <1>2, <1>3, ServerLeavesRows, BatchInsertLeavesRows, MainLeavesRows,
           FirstStepKinds DEF SharedStep

LEMMA FirstInitLeavesRows == FirstInit => SeedingLeavesRows
BY GeneratorAssumption DEF FirstInit, CheckInit, Init, PgInit, SeedingLeavesRows

-----------------------------------------------------------------------------
(* Updates meet their rows.                                                  *)

\* Who begins an update has chosen a row for it.
LEMMA UpdatesChosen ==
    ASSUME BothInv, chosen \in [Workers -> Nat], [FirstNext]_firstVars
    PROVE  /\ chosen' \in [Workers -> Nat]
           /\ \A w \in Workers : pc'[w] = "update" =>
                 \/ pc[w] = "update" /\ chosen'[w] = chosen[w]
                 \/ chosen'[w] \in Ids(Table)
<1> USE GeneratorAssumption DEF BothInv, IInv, GenTypeOK
<1>1. ASSUME UNCHANGED updateVars, \A w \in Workers : pc'[w] = "update" => pc[w] = "update"
      PROVE  /\ chosen' \in [Workers -> Nat]
             /\ \A w \in Workers : pc'[w] = "update" =>
                   pc[w] = "update" /\ chosen'[w] = chosen[w]
  BY <1>1 DEF updateVars
<1>2. ASSUME NEW s \in Sessions, NEW l \in Location \ {"update"}, GoTo(s, l)
      PROVE  \A w \in Workers : pc'[w] = "update" => pc[w] = "update"
  BY <1>2 DEF GoTo
<1>3. Server \/ ContextExpires \/ Stop \/ WaitDone \/ InitializeFails \/ Seeded \/ UNCHANGED vars
         => pc' = pc
  BY DEF Server, CancelHonoured, ContextExpires, Stop, WaitDone, InitializeFails, Seeded,
         vars, genVars
<1>4. ASSUME SeedNext \/ SeedInserted \/ SeedFails \/ CountRecords
      PROVE  \E l \in {"exec", "loop", "none"} : GoTo(Main, l)
  BY <1>4 DEF SeedNext, StartInsert, SeedInserted, SeedFails, CountRecords
<1>5. ASSUME NEW s \in Sessions, BatchInsert(s)
      PROVE  UNCHANGED pc \/ \E l \in {"rows", "error", "count"} : GoTo(s, l)
  BY <1>5 DEF BatchInsert, QueryOk, Retry, InsertFails, NextRow, RowsDone
<1>6. ASSUME NEW w \in Workers, \/ WorkerExits(w) \/ RecordError(w) \/ StatementFails(w)
                                \/ Recorded(w, "count", "inserts")
      PROVE  \E l \in {"exited", "loop", "error"} : GoTo(w, l)
  BY <1>6 DEF WorkerExits, RecordError, StatementFails, Recorded
<1>7. ASSUME SharedStep \/ CountRecords \/ Seeded \/ UNCHANGED vars
      PROVE  \A w \in Workers : pc'[w] = "update" => pc[w] = "update"
  <2>1. CASE pc' = pc
    BY <2>1
  <2>2. CASE Start
    BY <2>2 DEF Start
  <2>3. CASE \E s \in Sessions : \E l \in Location \ {"update"} : GoTo(s, l)
    BY <1>2, <2>3
  <2>4. {"exec", "loop", "none", "rows", "error", "count", "exited"}
           \subseteq Location \ {"update"}
    BY DEF Location
  <2> QED BY <1>3, <1>4, <1>5, <1>6, <1>7, <2>1, <2>2, <2>3, <2>4 DEF SharedStep
<1>8. ASSUME NEW w \in Workers,
             \/ ChooseInsert(w) \/ ChooseUpdate(w) \/ NoRows(w) \/ UpdateRow(w)
             \/ Recorded(w, "count", "inserts") /\ UNCHANGED updateVars
      PROVE  /\ \E l \in Location \ {"update"} : GoTo(w, l)
             /\ UNCHANGED chosen
  BY <1>8 DEF ChooseInsert, StartInsert, ChooseUpdate, NoRows, UpdateRow, Recorded, Location,
              updateVars
<1>9. ASSUME NEW w \in Workers, SelectId(w)
       PROVE  /\ chosen' \in [Workers -> Nat]
              /\ \A x \in Workers : pc'[x] = "update" =>
                    \/ pc[x] = "update" /\ chosen'[x] = chosen[x]
                    \/ chosen'[x] \in Ids(Table)
  <2>1. PICK r \in Table : chosen' = [chosen EXCEPT ![w] = r.id]
    BY <1>9 DEF SelectId
  <2>2. r.id \in Nat /\ r.id \in Ids(Table)
    BY <2>1, TableInEver DEF PgInv, PgTypeOK, Row, Ids
  <2>3. pc' = [pc EXCEPT ![w] = "update"]
    BY <1>9 DEF SelectId, GoTo
  <2> QED BY <2>1, <2>2, <2>3
<1>10. ASSUME NEW w \in Workers, UNCHANGED chosen, \E l \in Location \ {"update"} : GoTo(w, l)
       PROVE  \A x \in Workers : pc'[x] = "update" => pc[x] = "update" /\ chosen'[x] = chosen[x]
  BY <1>2, <1>10
<1>11. CASE (SharedStep \/ CountRecords \/ Seeded \/ UNCHANGED vars) /\ UNCHANGED updateVars
  <2>1. UNCHANGED updateVars /\ \A w \in Workers : pc'[w] = "update" => pc[w] = "update"
    BY <1>7, <1>11
  <2> QED BY <1>1, <2>1
<1>12. ASSUME NEW w \in Workers,
              \/ ChooseInsert(w) \/ ChooseUpdate(w) \/ NoRows(w) \/ UpdateRow(w)
              \/ Recorded(w, "count", "inserts") /\ UNCHANGED updateVars
       PROVE  /\ chosen' \in [Workers -> Nat]
              /\ \A x \in Workers : pc'[x] = "update" =>
                    pc[x] = "update" /\ chosen'[x] = chosen[x]
  <2>1. (\E l \in Location \ {"update"} : GoTo(w, l)) /\ UNCHANGED chosen
    BY <1>8, <1>12
  <2> QED BY <1>10, <2>1
<1> DEFINE Goal == /\ chosen' \in [Workers -> Nat]
                   /\ \A w \in Workers : pc'[w] = "update" =>
                         \/ pc[w] = "update" /\ chosen'[w] = chosen[w]
                         \/ chosen'[w] \in Ids(Table)
<1>13. (SharedStep \/ CountRecords \/ Seeded \/ UNCHANGED vars) /\ UNCHANGED updateVars => Goal
  BY <1>11
<1>14. \A w \in Workers :
          \/ ChooseInsert(w) \/ ChooseUpdate(w) \/ NoRows(w) \/ SelectId(w) \/ UpdateRow(w)
          \/ Recorded(w, "count", "inserts") /\ UNCHANGED updateVars
          => Goal
  BY <1>9, <1>12
<1> HIDE DEF Goal
<1>15. Goal
  BY <1>13, <1>14, FirstStepKinds
<1> QED BY <1>15 DEF Goal

LEMMA FirstKeepsChosen ==
    ASSUME BothInv, OneTimeline, ChosenThere, [FirstNext]_firstVars
    PROVE  ChosenThere'
<1>1. chosen' \in [Workers -> Nat]
  BY UpdatesChosen DEF ChosenThere
<1>2. ASSUME tl' = 1
      PROVE  /\ hollow' = 0
             /\ \A w \in Workers : pc'[w] = "update" => chosen'[w] \in Ids(Table')
  <2>1. tl = 1 /\ Table \subseteq Table'
    BY <1>2, TableOnlyGrows
  <2>2. \A i \in Ids(Table) : i \in Ids(Table')
    BY <2>1 DEF Ids
  <2>3. hollow' = 0
    <3>1. ASSUME NEW w \in Workers, UpdateRow(w) PROVE hollow' = hollow
      BY <2>1, <3>1 DEF UpdateRow, Recorded, ChosenThere
    <3>2. ASSUME NEW w \in Workers,
                 \/ ChooseInsert(w) \/ ChooseUpdate(w) \/ NoRows(w) \/ SelectId(w)
          PROVE  hollow' = hollow
      BY <3>2 DEF ChooseInsert, ChooseUpdate, NoRows, SelectId, updateVars
    <3>3. UNCHANGED updateVars => hollow' = hollow
      BY DEF updateVars
    <3> QED BY <2>1, <3>1, <3>2, <3>3, FirstStepKinds DEF ChosenThere
  <2>4. \A w \in Workers : pc'[w] = "update" => chosen'[w] \in Ids(Table)
    BY <2>1, UpdatesChosen DEF ChosenThere
  <2> QED BY <2>2, <2>3, <2>4
<1>3. Ids(Table)' = Ids(Table')
  BY DEF Ids
<1> QED BY <1>1, <1>2, <1>3 DEF ChosenThere

-----------------------------------------------------------------------------
(* Operations are counted once.                                              *)

\* The first version has no reads, and uncounted are only updates that find no row.
CountedOnTimeline == total["reads"] = 0 /\ (tl = 1 => EveryOperationCounted)

LEMMA FirstReadsNothing ==
    ASSUME GenTypeOK, [FirstNext]_firstVars
    PROVE  total'["reads"] = total["reads"]
<1>1. ASSUME NEW k \in {"inserts", "updates", "errors"}, CountOne(k)
      PROVE  total'["reads"] = total["reads"]
  BY <1>1 DEF CountOne, GenTypeOK, Kind
<1>2. ASSUME NEW w \in Workers, RecordError(w) \/ UpdateRow(w) \/ Recorded(w, "count", "inserts")
      PROVE  total'["reads"] = total["reads"]
  <2>1. \E k \in {"inserts", "updates", "errors"} : CountOne(k)
    BY <1>2 DEF RecordError, UpdateRow, Recorded
  <2> QED BY <1>1, <2>1
<1>3. ASSUME NEW w \in Workers, \/ WorkerExits(w) \/ StatementFails(w) \/ ChooseInsert(w)
                                \/ ChooseUpdate(w) \/ NoRows(w) \/ SelectId(w)
      PROVE  total' = total
  BY <1>3 DEF WorkerExits, StatementFails, ChooseInsert, ChooseUpdate, Begin, NoRows, SelectId,
              metricsVars
<1>4. (\E s \in Sessions : BatchInsert(s)) => total' = total
  BY DEF BatchInsert, QueryOk, Retry, InsertFails, NextRow, RowsDone, metricsVars
<1>5. Server \/ ContextExpires \/ Start \/ Stop \/ WaitDone \/ UNCHANGED vars => total' = total
  BY DEF Server, CancelHonoured, ContextExpires, Start, Stop, WaitDone, vars, genVars,
         metricsVars
<1>6. InitializeFails \/ SeedNext \/ SeedInserted \/ SeedFails \/ CountRecords \/ Seeded
         => total' = total
  BY DEF InitializeFails, SeedNext, SeedInserted, SeedFails, CountRecords, Seeded, metricsVars
<1> QED BY <1>2, <1>3, <1>4, <1>5, <1>6, FirstStepKinds DEF SharedStep

\* Apart from the update that finds no row, every step keeps the count.
LEMMA FirstCounts ==
    ASSUME BothInv, EveryOperationCounted, [FirstNext]_firstVars, \A w \in Workers : ~NoRows(w)
    PROVE  EveryOperationCounted'
<1> USE GeneratorAssumption DEF BothInv, IInv
<1>1. CASE UNCHANGED <<started, total, pc>>
  <2>1. Busy' = Busy
    BY <1>1 DEF Busy
  <2> QED BY <1>1, <2>1, CountStands
<1>2. CASE Start
  <2>1. Busy = {}
    BY <1>2 DEF Start, Control, Busy
  <2>2. Busy' = {}
    BY <1>2 DEF Start, Busy
  <2> QED BY <1>2, <2>1, <2>2, CountStands DEF Start, metricsVars
<1>3. Server \/ ContextExpires \/ Stop \/ WaitDone \/ UNCHANGED vars \/ Seeded
         => UNCHANGED <<started, total, pc>>
  BY DEF Server, CancelHonoured, ContextExpires, Stop, WaitDone, Seeded, vars, genVars,
         metricsVars
<1>4. InitializeFails \/ SeedNext \/ SeedInserted \/ SeedFails => EveryOperationCounted'
  BY InitializeCounts DEF Initialize
<1>5. CASE CountRecords
  <2>1. GoTo(Main, "loop") /\ UNCHANGED <<started, total>>
    BY <1>5 DEF CountRecords, metricsVars
  <2>2. Busy' = Busy
    BY <2>1, BusyChanges
  <2> QED BY <2>1, <2>2, CountStands
<1>6. ASSUME NEW w \in Workers, WorkerExits(w) PROVE EveryOperationCounted'
  <2>1. Busy' = Busy
    BY <1>6, BusyChanges DEF WorkerExits, Busy
  <2> QED BY <1>6, <2>1, CountStands DEF WorkerExits, metricsVars
<1>7. ASSUME NEW w \in Workers, StatementFails(w) \/ SelectId(w) PROVE EveryOperationCounted'
  <2>1. (GoTo(w, "error") \/ GoTo(w, "update")) /\ w \in Busy /\ UNCHANGED <<started, total>>
    BY <1>7 DEF StatementFails, SelectId, Busy, metricsVars
  <2>2. Busy' = Busy
    BY <2>1, BusyChanges
  <2> QED BY <2>1, <2>2, CountStands
<1>8. ASSUME NEW w \in Workers, ChooseInsert(w) \/ ChooseUpdate(w) PROVE EveryOperationCounted'
  <2>1. pc[w] = "loop" /\ (GoTo(w, "exec") \/ GoTo(w, "read"))
        /\ started' = started + 1 /\ total' = total
    BY <1>8 DEF ChooseInsert, ChooseUpdate, Begin, StartInsert, metricsVars
  <2> QED BY <2>1, BeginCounts
<1>9. ASSUME NEW w \in Workers, RecordError(w) PROVE EveryOperationCounted'
  BY <1>9, RecordedCounts DEF RecordError, Kind
<1>10. ASSUME NEW w \in Workers, UpdateRow(w) PROVE EveryOperationCounted'
  BY <1>10, RecordedCounts DEF UpdateRow, Kind
<1>11. ASSUME NEW w \in Workers, Recorded(w, "count", "inserts") PROVE EveryOperationCounted'
  BY <1>11, RecordedCounts DEF Kind
<1> QED BY <1>1, <1>2, <1>3, <1>4, <1>5, <1>6, <1>7, <1>8, <1>9, <1>10, <1>11,
           BatchInsertCounts, FirstStepKinds DEF SharedStep

LEMMA FirstKeepsCounted ==
    ASSUME BothInv, OneTimeline, SeedingLeavesRows, CountedOnTimeline, [FirstNext]_firstVars
    PROVE  CountedOnTimeline'
<1>1. ASSUME tl' = 1 PROVE EveryOperationCounted'
  <2>1. tl = 1 /\ Table = ever
    BY <1>1, TableOnlyGrows DEF OneTimeline
  <2>2. ASSUME NEW w \in Workers PROVE ~NoRows(w)
    <3>1. pc[w] = "read" => ever # {}
      BY WorkerInRun DEF BothInv, IInv, SeedingLeavesRows
    <3> QED BY <2>1, <3>1 DEF NoRows
  <2> QED BY <2>1, <2>2, FirstCounts DEF CountedOnTimeline
<1>2. total'["reads"] = 0
  BY FirstReadsNothing DEF BothInv, IInv, CountedOnTimeline
<1> QED BY <1>1, <1>2 DEF CountedOnTimeline

LEMMA FirstInitCounted == FirstInit => CountedOnTimeline /\ ChosenThere
<1> SUFFICES ASSUME FirstInit PROVE CountedOnTimeline /\ ChosenThere
  OBVIOUS
<1>1. /\ pc = [s \in Sessions |-> "none"] /\ started = 0 /\ total = [k \in Kind |-> 0]
      /\ chosen = [w \in Workers |-> 0] /\ hollow = 0
  BY DEF FirstInit, CheckInit, Init
<1>2. Busy = {} /\ \A w \in Workers : pc[w] # "update"
  BY <1>1, GeneratorAssumption DEF Busy
<1>3. Cardinality(Busy) = 0
  BY <1>2, FS_EmptySet
<1>4. EveryOperationCounted
  BY <1>1, <1>3 DEF EveryOperationCounted, Busy, Kind
<1> QED BY <1>1, <1>2, <1>4 DEF CountedOnTimeline, ChosenThere, Kind

\* The table is as the transactions have left it, there is a row to choose, and each
\* worker between its two statements has one.
THEOREM TimelineInvariance ==
    FirstSpec => [](OneTimeline /\ SeedingLeavesRows /\ ChosenThere /\ CountedOnTimeline)
<1> DEFINE J == OneTimeline /\ SeedingLeavesRows /\ ChosenThere /\ CountedOnTimeline
<1>1. FirstInit => J
  BY FirstInitTimeline, FirstInitLeavesRows, FirstInitCounted
<1>2. BothInv /\ J /\ [FirstNext]_firstVars => J'
  <2> SUFFICES ASSUME BothInv, J, [FirstNext]_firstVars PROVE J'
    OBVIOUS
  <2>1. OneTimeline'
    <3>1. tl' = 1 => Table' = ever'
      BY TableOnlyGrows
    <3> QED BY <3>1 DEF OneTimeline
  <2> QED BY <2>1, FirstLeavesRows, FirstKeepsChosen, FirstKeepsCounted
<1> QED BY <1>1, <1>2, FirstInvariance, PTL DEF FirstSpec, firstVars

\* performUpdate's two statements: while the primary has not changed, an update that
\* is counted met the row its SELECT had chosen, whatever ran between the two.
THEOREM UpdatesMeet == FirstSpec => []UpdatesMeetRows
<1>1. ChosenThere => UpdatesMeetRows
  BY DEF ChosenThere, UpdatesMeetRows
<1> QED BY <1>1, TimelineInvariance, PTL

\* Until the primary changes, no operation of the first version goes uncounted.
THEOREM AttemptsAccounted == FirstSpec => []AttemptsCounted
<1>1. BothInv /\ CountedOnTimeline => AttemptsCounted
  <2> SUFFICES ASSUME BothInv, CountedOnTimeline, tl = 1
               PROVE  started = total["inserts"] + total["updates"] + total["errors"]
                         + Cardinality({w \in Workers : pc[w] \notin {"none", "loop", "exited"}})
    BY DEF AttemptsCounted
  <2>1. total["reads"] = 0 /\ total["inserts"] \in Nat
    BY DEF CountedOnTimeline, BothInv, IInv, GenTypeOK, Kind
  <2> QED BY <2>1 DEF CountedOnTimeline, EveryOperationCounted
<1> QED BY <1>1, FirstInvariance, TimelineInvariance, PTL

-----------------------------------------------------------------------------
(* The check, which is that of the second version.                           *)

LEMMA FirstOutsideOrOwn ==
    ASSUME BothInv, [FirstNext]_firstVars
    PROVE  \/ [Next]_vars
           \/ CountRecords \/ Seeded
           \/ \E w \in Workers : ChooseInsert(w)
           \/ \E w \in Workers : \E l \in {"loop", "read", "update"} : GoesOn(w, l)
BY SharedStepIsNext, FirstStepKinds, WorkerGoesOn DEF BothInv, IInv

\* Nothing is counted or tracked when Stop has returned.
LEMMA FirstQuietStep ==
    ASSUME BothInv, [FirstNext]_firstVars, phase = "stopped"
    PROVE  UNCHANGED metricsVars
<1>1. \A s \in Sessions : pc[s] \in {"none", "exited"}
  BY NoStatementWhenStopped DEF BothInv
<1>2. ~CountRecords /\ ~Seeded
  BY DEF CountRecords, Seeded
<1>3. ASSUME NEW w \in Workers
      PROVE  ~ChooseInsert(w) /\ ~(\E l \in {"loop", "read", "update"} : GoesOn(w, l))
  BY <1>1, GeneratorAssumption DEF ChooseInsert, Begin, GoesOn
<1>4. [Next]_vars
  BY <1>2, <1>3, FirstOutsideOrOwn
<1> QED BY <1>4, QuietStep DEF BothInv

LEMMA FirstStoppedStays ==
    ASSUME BothInv, [FirstNext]_firstVars, phase = "stopped"
    PROVE  phase' = "stopped" /\ insertedIDs' = insertedIDs
<1>1. [L!Next]_(L!vars)
  BY FirstKeepsBoth
<1>2. phase' = "stopped"
  BY <1>1 DEF L!Next, L!Insert, L!Commit, L!Lose, L!Track, L!Confirm, L!Close, L!vars,
              L!ledgerVars
<1> QED BY <1>2, FirstQuietStep DEF metricsVars, trackingVars

LEMMA FirstKeepsIdsApart ==
    ASSUME BothInv, IdsApart, [FirstNext]_firstVars
    PROVE  IdsApart'
<1>1. CASE [Next]_vars
  BY <1>1, NextKeepsIdsApart DEF BothInv
<1>2. ASSUME NEW s \in Sessions, ClientSide(s) PROVE IdsApart'
  BY <1>2, ClientHolds DEF BothInv, IdsApart
<1>3. ASSUME NEW w \in Workers, ChooseInsert(w) PROVE ClientSide(w)
  BY <1>3 DEF ChooseInsert, StartInsert, ClientSide, dbVars
<1>4. ASSUME CountRecords \/ Seeded
             \/ \E w \in Workers : \E l \in {"loop", "read", "update"} : GoesOn(w, l)
      PROVE  ClientSide(Main)
  BY <1>4 DEF CountRecords, Seeded, GoesOn, ClientSide, pgVars
<1> QED BY <1>1, <1>2, <1>3, <1>4, FirstOutsideOrOwn, GeneratorAssumption

LEMMA FirstKeepsCheckInv ==
    ASSUME BothInv, IdsApart, CheckInv, [FirstNext]_firstVars
    PROVE  CheckInv'
<1>1. CASE UNCHANGED firstVars
  <2>1. UNCHANGED allVars
    BY <1>1 DEF firstVars
  <2> QED BY <2>1, CheckNextKeepsCheckInv DEF BothInv
<1>2. CASE FirstCheckDataLoss \/ FirstCleanup
  <2>1. [CheckNext]_allVars
    BY <1>2 DEF FirstCheckDataLoss, FirstCleanup, CheckNext
  <2> QED BY <2>1, CheckNextKeepsCheckInv DEF BothInv
<1>3. CASE FirstRun
  <2>1. Watch /\ UNCHANGED <<check, unchecked, found, totalInserted, lost, dropped>>
    BY <1>3 DEF FirstRun, resultVars
  <2> QED BY <2>1, FirstStoppedStays, WatchKeepsCheckInv DEF BothInv
<1> QED BY <1>1, <1>2, <1>3 DEF FirstNext

\* The generator's promises, in the first version: types, that a batch counted as
\* inserted was committed and is tracked, and that nothing is tracked after Stop.
THEOREM FirstTracksSoundly ==
    FirstSpec => /\ [](TypeOK /\ ConfirmedWereCommitted)
                 /\ QuietAfterStop
<1>1. BothInv => TypeOK /\ ConfirmedWereCommitted
  BY DEF BothInv, IInv, PgInv, TypeOK
<1>2. FirstSpec => QuietAfterStop
  <2>1. BothInv /\ [FirstNext]_firstVars => [phase = "stopped" => UNCHANGED metricsVars]_vars
    BY FirstQuietStep
  <2>2. FirstSpec => [][phase = "stopped" => UNCHANGED metricsVars]_vars
    BY <2>1, FirstInvariance, PTL DEF FirstSpec, firstVars
  <2> QED BY <2>2 DEF QuietAfterStop
<1> QED BY <1>1, <1>2, FirstInvariance, PTL

\* The first version's report, made by the same two ways of checking: it counts no more
\* losses than ids that were absent at some moment of the check, and by batches no fewer
\* than were absent throughout.
THEOREM FirstReportSound ==
    FirstSpec => [](LossNeverOverReported /\ BatchedLossNeverUnderReported)
<1>1. FirstInit => IdsApart /\ CheckInv
  BY InitIdsApart, InitCheckInv DEF FirstInit, CheckInit
<1>2. BothInv /\ IdsApart /\ CheckInv /\ [FirstNext]_firstVars => IdsApart' /\ CheckInv'
  BY FirstKeepsIdsApart, FirstKeepsCheckInv
<1>3. CheckInv => LossNeverOverReported /\ BatchedLossNeverUnderReported
  BY DEF CheckInv, Reported, LossNeverOverReported, BatchedLossNeverUnderReported
<1> QED BY <1>1, <1>2, <1>3, FirstInvariance, PTL DEF FirstSpec, firstVars
=============================================================================
