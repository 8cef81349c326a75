------------------------- MODULE LoadGeneratorV2Proofs -------------------------
(***************************************************************************)
(* Proofs about LoadGeneratorV2 for every number of workers, batch size,     *)
(* seeding, number of faults and operations: what the steps of the server    *)
(* and the driver keep (Postgres), type correctness, that a batch that       *)
(* batchInsert returned nil for is committed and tracked, that the totals    *)
(* stand still when Stop has returned, that the generator implements Ledger, *)
(* that each operation and no row too many is counted, that what is counted  *)
(* as a success is tracked, that an undisturbed run has an exact ledger, and *)
(* that tracked rows were inserted when a batch's answer fits the server's   *)
(* buffer.                                                                   *)
(***************************************************************************)
EXTENDS LoadGeneratorV2, FiniteSetTheorems, SequenceTheorems, TLAPS

-----------------------------------------------------------------------------
(* PART 1.  The server and the driver (Postgres): what each of their steps  *)
(* keeps.  The actions of the generator contain these steps.                *)

\* Rows come in finite batches, so Cardinality counts them.
PgFinite ==
    /\ IsFiniteSet(ever)
    /\ \A s \in Sessions : IsFiniteSet(rows[s])
    /\ \A o \in orphans : IsFiniteSet(o)

\* What the primary holds, or has answered as committed, was committed.
CommittedInEver ==
    /\ \A i \in 1..Len(log) : log[i] \subseteq ever
    /\ \A s \in Sessions : xact[s] = "committed" => rows[s] \subseteq ever

PgInv == PgTypeOK /\ PgFinite /\ CommittedInEver

-----------------------------------------------------------------------------
\* One INSERT creates finitely many rows, as many as it was given, each with an id
\* above the sequence's value.
LEMMA NewRowsFinite ==
    ASSUME seq \in Nat, tl \in Nat, NEW n \in Nat
    PROVE  /\ NewRows(n) \subseteq Row
           /\ IsFiniteSet(NewRows(n))
           /\ Cardinality(NewRows(n)) = n
<1> DEFINE I == (seq + 1)..(seq + n)
           f == [i \in I |-> [id |-> i, tl |-> tl]]
<1>1. NewRows(n) \subseteq Row
  BY DEF NewRows, Row
<1>2. IsFiniteSet(I) /\ Cardinality(I) = n
  BY FS_Interval
<1>3. f \in [I -> NewRows(n)] /\ \A r \in NewRows(n) : \E i \in I : f[i] = r
  BY DEF NewRows
<1>4. f \in Surjection(I, NewRows(n))
  BY <1>3 DEF Surjection
<1>5. \A i, j \in I : f[i] = f[j] => i = j
  <2> SUFFICES ASSUME NEW i \in I, NEW j \in I, f[i] = f[j] PROVE i = j
    OBVIOUS
  <2>1. [id |-> i, tl |-> tl].id = [id |-> j, tl |-> tl].id
    BY Zenon
  <2> QED BY <2>1
<1>6. f \in Injection(I, NewRows(n))
  BY <1>3, <1>5 DEF Injection, IsInjective
<1> HIDE DEF f, I
<1> QED BY <1>1, <1>2, <1>4, <1>6, FS_Surjection

\* The client never reads more than what the statement has still to give.
LEMMA ReadableUnread ==
    ASSUME NEW s
    PROVE  Readable(s) \subseteq unread[s]
BY DEF Readable

\* A row of the table was committed at some time.
LEMMA TableInEver ==
    ASSUME PgInv
    PROVE  Table \subseteq ever /\ IsFiniteSet(Table)
<1>1. Table \subseteq ever
  BY DEF PgInv, PgTypeOK, CommittedInEver, Table
<1> QED BY <1>1, FS_Subset DEF PgInv, PgFinite

-----------------------------------------------------------------------------
\* The server starts with the rows of an earlier run, all of them committed.
LEMMA PgInitInv ==
    ASSUME PgInit
    PROVE  PgInv
<1>1. PICK n \in PreRows : /\ pre = {[id |-> i, tl |-> 1] : i \in 1..n}
                           /\ log = IF n = 0 THEN <<>> ELSE <<pre>>
                           /\ seq = n
  BY DEF PgInit
<1>2. n \in Nat
  BY PostgresAssumption
<1>3. pre \subseteq Row
  BY <1>1, <1>2 DEF Row
<1> DEFINE f == [i \in 1..n |-> [id |-> i, tl |-> 1]]
<1>4. f \in Surjection(1..n, pre)
  BY <1>1 DEF Surjection
<1>5. IsFiniteSet(1..n)
  BY <1>2, FS_Interval
<1>6. IsFiniteSet(pre)
  BY <1>4, <1>5, FS_Surjection
<1>7. log \in Seq(SUBSET Row) /\ \A i \in 1..Len(log) : log[i] \subseteq pre
  <2>1. CASE n = 0
    BY <1>1, <2>1
  <2>2. CASE n # 0
    <3>1. log = <<pre>> /\ pre \in SUBSET Row
      BY <1>1, <1>3, <2>2
    <3> QED BY <3>1
  <2> QED BY <2>1, <2>2
<1>8. PgTypeOK
  BY <1>1, <1>2, <1>3, <1>7 DEF PgInit, PgTypeOK, XactState
<1>9. PgFinite
  BY <1>6, FS_EmptySet DEF PgInit, PgFinite
<1>10. CommittedInEver
  BY <1>7 DEF PgInit, CommittedInEver
<1> QED BY <1>8, <1>9, <1>10 DEF PgInv

-----------------------------------------------------------------------------
(* The driver's calls.                                                      *)

\* Sending a statement forgets the last one and leaves the server alone.
LEMMA SendKeepsPgInv ==
    ASSUME PgInv, NEW s \in Sessions, Send(s),
           UNCHANGED <<log, seq, tl, orphans, faults, pre, ever>>
    PROVE  PgInv'
<1>1. PgTypeOK'
  BY DEF PgInv, PgTypeOK, Send, XactState
<1>2. PgFinite'
  BY FS_EmptySet DEF PgInv, PgTypeOK, PgFinite, Send
<1>3. CommittedInEver'
  BY DEF PgInv, PgTypeOK, CommittedInEver, Send
<1> QED BY <1>1, <1>2, <1>3 DEF PgInv

\* An orphan is a batch that is still open.
LEMMA AbandonedFinite ==
    ASSUME PgInv, NEW s \in Sessions
    PROVE  Abandoned(s) \in SUBSET SUBSET Row /\ \A o \in Abandoned(s) : IsFiniteSet(o)
BY DEF PgInv, PgTypeOK, PgFinite, Abandoned

LEMMA LeaveKeepsPgInv ==
    ASSUME PgInv, NEW s \in Sessions, Leave(s),
           UNCHANGED <<log, seq, tl, faults, pre, ever>>
    PROVE  PgInv'
<1>1. PgTypeOK'
  BY AbandonedFinite DEF PgInv, PgTypeOK, Leave, XactState
<1>2. PgFinite'
  BY AbandonedFinite, FS_EmptySet DEF PgInv, PgTypeOK, PgFinite, Leave
<1>3. CommittedInEver'
  BY DEF PgInv, PgTypeOK, CommittedInEver, Leave
<1> QED BY <1>1, <1>2, <1>3 DEF PgInv

\* Reading a row, or a fault that only the client notices.
LEMMA ReadKeepsPgInv ==
    ASSUME PgInv, faults' \in Nat, unread' \in [Sessions -> SUBSET Row],
           UNCHANGED <<log, seq, tl, xact, rows, orphans, pre, ever>>
    PROVE  PgInv'
BY DEF PgInv, PgTypeOK, PgFinite, CommittedInEver

-----------------------------------------------------------------------------
(* The server's steps.                                                      *)

LEMMA ExecuteKeepsPgInv ==
    ASSUME PgInv, NEW s \in Sessions, NEW n \in Nat, Execute(s, n)
    PROVE  PgInv'
<1>1. NewRows(n) \subseteq Row /\ IsFiniteSet(NewRows(n))
  BY NewRowsFinite DEF PgInv, PgTypeOK
<1>2. PgTypeOK'
  BY <1>1 DEF PgInv, PgTypeOK, Execute, XactState
<1>3. PgFinite'
  BY <1>1 DEF PgInv, PgTypeOK, PgFinite, Execute
<1>4. CommittedInEver'
  BY DEF PgInv, PgTypeOK, CommittedInEver, Execute
<1> QED BY <1>2, <1>3, <1>4 DEF PgInv

\* A transaction joins the log, whoever still waits for it.
LEMMA AppendKeepsLog ==
    ASSUME PgInv, NEW b \in SUBSET Row, IsFiniteSet(b),
           log' = Append(log, b), ever' = ever \cup b
    PROVE  /\ log' \in Seq(SUBSET Row)
           /\ ever' \in SUBSET Row
           /\ IsFiniteSet(ever')
           /\ \A i \in 1..Len(log') : log'[i] \subseteq ever'
<1>1. log \in Seq(SUBSET Row) /\ ever \in SUBSET Row /\ IsFiniteSet(ever)
  BY DEF PgInv, PgTypeOK, PgFinite
<1>2. /\ log' \in Seq(SUBSET Row)
      /\ Len(log') = Len(log) + 1
      /\ \A i \in 1..Len(log) : log'[i] = log[i]
      /\ log'[Len(log) + 1] = b
  BY <1>1, AppendProperties
<1>3. IsFiniteSet(ever')
  BY <1>1, FS_Union
<1>4. ASSUME NEW i \in 1..Len(log') PROVE log'[i] \subseteq ever'
  <2>1. CASE i \in 1..Len(log)
    BY <1>2, <2>1 DEF PgInv, CommittedInEver
  <2>2. CASE i = Len(log) + 1
    BY <1>2, <2>2
  <2>3. Len(log) \in Nat
    BY <1>1
  <2> QED BY <1>2, <2>1, <2>2, <2>3
<1> QED BY <1>1, <1>2, <1>3, <1>4

LEMMA CommitKeepsPgInv ==
    ASSUME PgInv, NEW s \in Sessions, Commit(s)
    PROVE  PgInv'
<1>1. rows[s] \in SUBSET Row /\ IsFiniteSet(rows[s])
  BY DEF PgInv, PgTypeOK, PgFinite
<1>2. /\ log' \in Seq(SUBSET Row)
      /\ ever' \in SUBSET Row
      /\ IsFiniteSet(ever')
      /\ \A i \in 1..Len(log') : log'[i] \subseteq ever'
  BY <1>1, AppendKeepsLog DEF Commit
<1>3. PgTypeOK'
  BY <1>2 DEF PgInv, PgTypeOK, Commit, XactState
<1>4. PgFinite'
  BY <1>2 DEF PgInv, PgFinite, Commit
<1>5. CommittedInEver'
  BY <1>2 DEF PgInv, PgTypeOK, CommittedInEver, Commit
<1> QED BY <1>3, <1>4, <1>5 DEF PgInv

LEMMA AbortKeepsPgInv ==
    ASSUME PgInv, NEW s \in Sessions, Abort(s), faults' \in Nat
    PROVE  PgInv'
<1>1. Readable(s) \subseteq Row
  BY ReadableUnread DEF PgInv, PgTypeOK
<1>2. PgTypeOK'
  BY <1>1 DEF PgInv, PgTypeOK, Abort, XactState
<1>3. PgFinite'
  BY DEF PgInv, PgFinite, Abort
<1>4. CommittedInEver'
  BY DEF PgInv, PgTypeOK, CommittedInEver, Abort
<1> QED BY <1>2, <1>3, <1>4 DEF PgInv

LEMMA LoseConnectionKeepsPgInv ==
    ASSUME PgInv, NEW s \in Sessions, LoseConnection(s)
    PROVE  PgInv'
<1>1. Readable(s) \subseteq Row
  BY ReadableUnread DEF PgInv, PgTypeOK
<1>2. PgTypeOK'
  BY <1>1, AbandonedFinite DEF PgInv, PgTypeOK, LoseConnection, Fault, XactState
<1>3. PgFinite'
  BY AbandonedFinite DEF PgInv, PgFinite, LoseConnection
<1>4. CommittedInEver'
  BY DEF PgInv, PgTypeOK, CommittedInEver, LoseConnection
<1> QED BY <1>2, <1>3, <1>4 DEF PgInv

LEMMA OrphanKeepsPgInv ==
    ASSUME PgInv, OrphanCommits \/ OrphanAborts
    PROVE  PgInv'
<1>1. CASE OrphanCommits
  <2>1. PICK o \in orphans :
           /\ orphans' = orphans \ {o}
           /\ log' = Append(log, o)
           /\ ever' = ever \cup o
           /\ UNCHANGED <<seq, tl, xact, rows, unread, faults, pre>>
    BY <1>1 DEF OrphanCommits
  <2>2. o \in SUBSET Row /\ IsFiniteSet(o)
    BY DEF PgInv, PgTypeOK, PgFinite
  <2>3. /\ log' \in Seq(SUBSET Row)
        /\ ever' \in SUBSET Row
        /\ IsFiniteSet(ever')
        /\ \A i \in 1..Len(log') : log'[i] \subseteq ever'
    BY <2>1, <2>2, AppendKeepsLog
  <2>4. PgTypeOK'
    BY <2>1, <2>3 DEF PgInv, PgTypeOK
  <2>5. PgFinite'
    BY <2>1, <2>3 DEF PgInv, PgFinite
  <2>6. CommittedInEver'
    BY <2>1, <2>3 DEF PgInv, CommittedInEver
  <2> QED BY <2>4, <2>5, <2>6 DEF PgInv
<1>2. CASE OrphanAborts
  BY <1>2 DEF OrphanAborts, PgInv, PgTypeOK, PgFinite, CommittedInEver
<1> QED BY <1>1, <1>2

\* The new primary has a prefix of the log: nothing that was never committed.
LEMMA FailoverKeepsPgInv ==
    ASSUME PgInv, Failover
    PROVE  PgInv'
<1>1. PICK k \in 0..Len(log) : log' = SubSeq(log, 1, k)
  BY DEF Failover
<1>2. log \in Seq(SUBSET Row) /\ Len(log) \in Nat
  BY DEF PgInv, PgTypeOK
<1>3. \A i \in 1..k : log[i] \in SUBSET Row
  BY <1>2
<1>4. /\ log' \in Seq(SUBSET Row)
      /\ Len(log') = k
      /\ \A i \in 1..k : log'[i] = log[i]
  <2>1. /\ SubSeq(log, 1, k) \in Seq(SUBSET Row)
        /\ Len(SubSeq(log, 1, k)) = IF 1 <= k THEN k - 1 + 1 ELSE 0
        /\ \A i \in 1..(k - 1 + 1) : SubSeq(log, 1, k)[i] = log[1 + i - 1]
    BY <1>3, SubSeqProperties
  <2> QED BY <1>1, <2>1
<1>5. seq' \in Nat /\ faults' \in Nat /\ tl' \in Nat
  BY DEF Failover, Fault, PgInv, PgTypeOK
<1>6. unread' \in [Sessions -> SUBSET Row]
  BY ReadableUnread DEF Failover, PgInv, PgTypeOK
<1>7. /\ xact' \in [Sessions -> XactState]
      /\ \A s \in Sessions : xact'[s] # "committed"
  BY DEF Failover, PgInv, PgTypeOK, XactState, Live
<1>8. PgTypeOK'
  BY <1>4, <1>5, <1>6, <1>7 DEF Failover, PgInv, PgTypeOK
<1>9. PgFinite'
  BY DEF Failover, PgInv, PgFinite
<1>10. CommittedInEver'
  BY <1>4, <1>7 DEF Failover, PgInv, CommittedInEver
<1> QED BY <1>8, <1>9, <1>10 DEF PgInv

-----------------------------------------------------------------------------
(* PART 2.  The generator: types, where its goroutines are, what it has     *)
(* tracked, and Stop.                                                       *)

\* Workers whose goroutine runs: what wg.Add and wg.Done count.
Running == {w \in Workers : pc[w] \notin {"none", "exited"}}

\* Main leaves the database before it starts the workers, and Stop returns after
\* the last of them.
Control ==
    /\ seeded \in 0..SeedRows
    /\ wg = Cardinality(Running)
    /\ phase \in {"init", "seeding", "failed"} \/ pc[Main] # "none"
          => \A w \in Workers : pc[w] = "none"
    /\ phase \in {"stopping", "stopped"} => pc[Main] = "none"
    /\ phase = "stopped" => wg = 0

\* A row of a statement the server has run is tracked, or still to be read.
RowsTrackedOrUnread ==
    \A s \in Sessions :
       xact[s] \in {"open", "committed"} => rows[s] \subseteq received \cup unread[s]

IInv ==
    /\ PgInv
    /\ GenTypeOK
    /\ Control
    /\ ConfirmedWereCommitted
    /\ RowsTrackedOrUnread

-----------------------------------------------------------------------------
(* Type correctness of the generator's own variables.                       *)

\* A batch has a size, also the last one of the seeding.
LEMMA BatchOfNat ==
    ASSUME GenTypeOK, Control, NEW s \in Sessions
    PROVE  BatchOf(s) \in Nat /\ seeded + BatchOf(Main) \in 0..SeedRows
BY GeneratorAssumption DEF BatchOf, Smaller, Control

\* A step of batchInsert keeps the types.
LEMMA BatchInsertKeepsGenTypeOK ==
    ASSUME PgInv, GenTypeOK, NEW s \in Sessions, BatchInsert(s)
    PROVE  GenTypeOK'
<1> USE DEF GenTypeOK
<1>1. CASE QueryOk(s)
  BY <1>1 DEF QueryOk, GoTo, Location, mainVars, metricsVars, trackingVars
<1>2. CASE Retry(s)
  BY <1>2 DEF Retry, MaxAttempts, mainVars, metricsVars, trackingVars
<1>3. CASE InsertFails(s)
  BY <1>3 DEF InsertFails, GoTo, Location, mainVars, metricsVars, trackingVars
<1>4. CASE NextRow(s)
  <2>1. PICK r \in Readable(s) : RecordInsertedID(r)
    BY <1>4 DEF NextRow
  <2>2. r \in Row /\ r.id \in Nat
    BY ReadableUnread DEF PgInv, PgTypeOK, Row
  <2>3. insertedIDs' \in SUBSET Nat /\ received' \in SUBSET Row
    <3>1. received' = received \cup {r} /\ insertedIDs' = insertedIDs \cup {r.id}
      BY <2>1 DEF RecordInsertedID
    <3>2. {r.id} \subseteq Nat /\ {r} \subseteq Row
      BY <2>2
    <3> QED BY <3>1, <3>2
  <2> QED BY <1>4, <2>3 DEF NextRow, mainVars
<1>5. CASE RowsDone(s)
  <2>1. rows[s] \subseteq Row
    BY DEF PgInv, PgTypeOK
  <2> QED BY <1>5, <2>1 DEF RowsDone, GoTo, Location, mainVars, trackingVars
<1> QED BY <1>1, <1>2, <1>3, <1>4, <1>5 DEF BatchInsert

\* So does a step of Initialize; what it counts is a number because the table is
\* finite.
LEMMA InitializeKeepsGenTypeOK ==
    ASSUME PgInv, GenTypeOK, Control, Initialize
    PROVE  GenTypeOK'
<1> USE GeneratorAssumption DEF GenTypeOK
<1>1. CASE CountRows
  <2>1. Cardinality(Table) \in Nat
    BY TableInEver, FS_CardinalityType
  <2> QED BY <1>1, <2>1 DEF CountRows, GoTo, Location, Phase, trackingVars
<1>2. CASE InitializeFails
  BY <1>2 DEF InitializeFails, Phase, metricsVars, trackingVars
<1>3. CASE SeedNext
  BY <1>3 DEF SeedNext, StartInsert, GoTo, Location, MaxAttempts, mainVars, metricsVars,
              trackingVars
<1>4. CASE SeedInserted
  BY <1>4, BatchOfNat DEF SeedInserted, GoTo, Location, metricsVars, trackingVars
<1>5. CASE SeedFails
  BY <1>5 DEF SeedFails, GoTo, Location, Phase, metricsVars, trackingVars
<1>6. CASE SeedDone
  BY <1>6 DEF SeedDone, Phase, trackingVars
<1> QED BY <1>1, <1>2, <1>3, <1>4, <1>5, <1>6 DEF Initialize

\* The number of workers that run, which wg counts, can be counted.
LEMMA RunningFinite ==
    IsFiniteSet(Workers) /\ IsFiniteSet(Running) /\ Cardinality(Running) \in Nat
<1>1. IsFiniteSet(Workers) /\ Running \subseteq Workers
  BY GeneratorAssumption DEF Running
<1>2. IsFiniteSet(Running)
  BY <1>1, FS_Subset
<1> QED BY <1>1, <1>2, FS_CardinalityType

\* A worker that returns is one that ran, so that wg stays a number.
LEMMA WorkerExitsFromRunning ==
    ASSUME GenTypeOK, Control, NEW w \in Workers, WorkerExits(w)
    PROVE  /\ Running' = Running \ {w}
           /\ wg' = Cardinality(Running')
           /\ wg' \in Nat
<1>1. w \in Running /\ w \in Sessions
  BY GeneratorAssumption DEF WorkerExits, Running
<1>2. Running' = Running \ {w}
  BY <1>1, GeneratorAssumption DEF WorkerExits, GoTo, Running, GenTypeOK
<1>3. /\ IsFiniteSet(Running \ {w})
      /\ Cardinality(Running \ {w}) = Cardinality(Running) - 1
  BY <1>1, RunningFinite, FS_RemoveElement
<1>4. Cardinality(Running \ {w}) \in Nat
  BY <1>3, FS_CardinalityType
<1> QED BY <1>2, <1>3, <1>4 DEF WorkerExits, Control

LEMMA RecordedKeepsGenTypeOK ==
    ASSUME GenTypeOK, NEW w \in Workers, NEW from, NEW kind \in Kind, Recorded(w, from, kind)
    PROVE  GenTypeOK'
<1>1. total' \in [Kind -> Nat]
  BY DEF GenTypeOK, Recorded, CountOne
<1>2. pc' \in [Sessions -> Location]
  BY DEF GenTypeOK, Recorded, GoTo, Location
<1> QED BY <1>1, <1>2 DEF GenTypeOK, Recorded, mainVars, trackingVars

LEMMA WorkerKeepsGenTypeOK ==
    ASSUME PgInv, GenTypeOK, Control, NEW w \in Workers, Worker(w)
    PROVE  GenTypeOK'
<1> USE GeneratorAssumption DEF GenTypeOK
<1>1. CASE BeginRead(w)
  BY <1>1 DEF BeginRead, Begin, GoTo, Location, mainVars, metricsVars, trackingVars
<1>2. CASE BeginInsert(w)
  BY <1>2 DEF BeginInsert, Begin, StartInsert, GoTo, Location, MaxAttempts, mainVars,
              metricsVars, trackingVars
<1>3. CASE BeginUpdate(w)
  BY <1>3 DEF BeginUpdate, Begin, GoTo, Location, mainVars, metricsVars, trackingVars
<1>4. CASE WorkerExits(w)
  BY <1>4, WorkerExitsFromRunning DEF WorkerExits, GoTo, Location, metricsVars,
                                      trackingVars
<1>5. CASE ReadOk(w)
  BY <1>5, RecordedKeepsGenTypeOK DEF ReadOk, Kind
<1>6. CASE UpdateOk(w)
  BY <1>6, RecordedKeepsGenTypeOK DEF UpdateOk, Kind
<1>7. CASE ReadOrUpdateFails(w)
  BY <1>7 DEF ReadOrUpdateFails, GoTo, Location, mainVars, metricsVars, trackingVars
<1>8. CASE AddTotalRows(w)
  BY <1>8 DEF AddTotalRows, GoTo, Location, mainVars, trackingVars
<1>9. CASE RecordInsert(w)
  BY <1>9, RecordedKeepsGenTypeOK DEF RecordInsert, Kind
<1>10. CASE RecordError(w)
  BY <1>10, RecordedKeepsGenTypeOK DEF RecordError, Kind
<1> QED BY <1>1, <1>2, <1>3, <1>4, <1>5, <1>6, <1>7, <1>8, <1>9, <1>10 DEF Worker

LEMMA NextKeepsGenTypeOK ==
    ASSUME PgInv, GenTypeOK, Control, [Next]_vars
    PROVE  GenTypeOK'
<1>1. CASE UNCHANGED genVars
  BY <1>1 DEF GenTypeOK, genVars, mainVars, metricsVars, trackingVars
<1>2. CASE Initialize
  BY <1>2, InitializeKeepsGenTypeOK
<1>3. CASE Start
  BY <1>3, RunningFinite, FS_CardinalityType
     DEF Start, GenTypeOK, Location, metricsVars, trackingVars
<1>4. CASE \E s \in Sessions : BatchInsert(s)
  BY <1>4, BatchInsertKeepsGenTypeOK
<1>5. CASE \E w \in Workers : Worker(w)
  BY <1>5, WorkerKeepsGenTypeOK
<1>6. CASE ContextExpires
  BY <1>6 DEF ContextExpires, GenTypeOK, metricsVars, trackingVars
<1>7. CASE Stop
  BY <1>7 DEF Stop, GenTypeOK, Phase, metricsVars, trackingVars
<1>8. CASE WaitDone
  BY <1>8 DEF WaitDone, GenTypeOK, Phase, metricsVars, trackingVars
<1>9. Server \/ UNCHANGED vars => UNCHANGED genVars
  BY DEF Server, CancelHonoured, vars
<1> QED BY <1>1, <1>2, <1>3, <1>4, <1>5, <1>6, <1>7, <1>8, <1>9 DEF Next

-----------------------------------------------------------------------------
(* The server's state under a step of the generator.                        *)

LEMMA BatchInsertKeepsPgInv ==
    ASSUME PgInv, NEW s \in Sessions, BatchInsert(s)
    PROVE  PgInv'
<1>1. CASE QueryOk(s)
  BY <1>1 DEF QueryOk, pgVars, PgInv, PgTypeOK, PgFinite, CommittedInEver
<1>2. CASE Retry(s)
  BY <1>2, SendKeepsPgInv DEF Retry, dbVars
<1>3. CASE InsertFails(s)
  BY <1>3, LeaveKeepsPgInv DEF InsertFails, dbVars
<1>4. CASE NextRow(s)
  <2>1. unread' \in [Sessions -> SUBSET Row] /\ faults' \in Nat
    BY <1>4 DEF NextRow, PgInv, PgTypeOK
  <2> QED BY <1>4, <2>1, ReadKeepsPgInv DEF NextRow, dbVars
<1>5. CASE RowsDone(s)
  BY <1>5, LeaveKeepsPgInv DEF RowsDone, dbVars
<1> QED BY <1>1, <1>2, <1>3, <1>4, <1>5 DEF BatchInsert

\* The steps of the generator that touch the server only to send a statement, to
\* notice a fault, or not at all.
LEMMA OthersKeepPgInv ==
    ASSUME PgInv,
           \/ Initialize \/ Start \/ ContextExpires \/ Stop \/ WaitDone
           \/ \E w \in Workers : Worker(w)
    PROVE  PgInv'
<1>1. CASE UNCHANGED pgVars
  BY <1>1 DEF pgVars, PgInv, PgTypeOK, PgFinite, CommittedInEver
<1>2. CASE SeedNext
  BY <1>2, SendKeepsPgInv, GeneratorAssumption DEF SeedNext, StartInsert, dbVars
<1>3. CASE \E w \in Workers : BeginInsert(w)
  BY <1>3, SendKeepsPgInv, GeneratorAssumption DEF BeginInsert, StartInsert, dbVars
<1>4. CASE InitializeFails \/ \E w \in Workers : ReadOrUpdateFails(w)
  <2>1. faults' \in Nat /\ unread' = unread
    BY <1>4 DEF InitializeFails, ReadOrUpdateFails, Fault, PgInv, PgTypeOK
  <2>2. unread' \in [Sessions -> SUBSET Row]
    BY <2>1 DEF PgInv, PgTypeOK
  <2> QED BY <1>4, <2>1, <2>2, ReadKeepsPgInv DEF InitializeFails, ReadOrUpdateFails,
     dbVars
<1>5. Start \/ ContextExpires \/ Stop \/ WaitDone => UNCHANGED pgVars
  BY DEF Start, ContextExpires, Stop, WaitDone
<1>6. CountRows \/ SeedInserted \/ SeedFails \/ SeedDone => UNCHANGED pgVars
  BY DEF CountRows, SeedInserted, SeedFails, SeedDone
<1>7. ASSUME NEW w \in Workers, Worker(w), ~BeginInsert(w), ~ReadOrUpdateFails(w)
      PROVE  UNCHANGED pgVars
  BY <1>7 DEF Worker, BeginRead, BeginUpdate, WorkerExits, ReadOk, UpdateOk, AddTotalRows,
              RecordInsert, RecordError, Recorded
<1> QED BY <1>1, <1>2, <1>3, <1>4, <1>5, <1>6, <1>7 DEF Initialize

LEMMA ServerKeepsPgInv ==
    ASSUME PgInv, GenTypeOK, Control, Server
    PROVE  PgInv'
<1>1. ASSUME NEW s \in Sessions,
             Execute(s, BatchOf(s)) \/ Commit(s) \/ LoseConnection(s)
      PROVE  PgInv'
  BY <1>1, BatchOfNat, ExecuteKeepsPgInv, CommitKeepsPgInv, LoseConnectionKeepsPgInv
<1>2. ASSUME NEW s \in Sessions, (Fault /\ Abort(s)) \/ CancelHonoured(s) PROVE PgInv'
  <2>1. Abort(s) /\ faults' \in Nat
    BY <1>2 DEF Fault, CancelHonoured, PgInv, PgTypeOK
  <2> QED BY <2>1, AbortKeepsPgInv
<1>3. CASE OrphanCommits \/ OrphanAborts
  BY <1>3, OrphanKeepsPgInv
<1>4. CASE Failover
  BY <1>4, FailoverKeepsPgInv
<1> QED BY <1>1, <1>2, <1>3, <1>4 DEF Server

LEMMA NextKeepsPgInv ==
    ASSUME PgInv, GenTypeOK, Control, [Next]_vars
    PROVE  PgInv'
<1>1. CASE UNCHANGED vars
  BY <1>1 DEF vars, pgVars, PgInv, PgTypeOK, PgFinite, CommittedInEver
<1> QED BY <1>1, ServerKeepsPgInv, BatchInsertKeepsPgInv, OthersKeepPgInv DEF Next

-----------------------------------------------------------------------------
(* Control.                                                                 *)

\* A goroutine that goes on neither starts nor ends.
LEMMA MovesOn ==
    ASSUME GenTypeOK, Control, NEW s \in Sessions, NEW l,
           pc[s] \notin {"none", "exited"}, l \notin {"none", "exited"},
           GoTo(s, l) \/ UNCHANGED pc,
           UNCHANGED <<phase, wg>>, seeded' \in 0..SeedRows
    PROVE  Control'
<1>1. CASE UNCHANGED pc
  BY <1>1 DEF Control, Running
<1>2. CASE GoTo(s, l)
  <2>1. Running' = Running
    BY <1>2, GeneratorAssumption DEF GenTypeOK, GoTo, Running
  <2>2. pc'[Main] # "none" <=> pc[Main] # "none"
    BY <1>2, GeneratorAssumption DEF GenTypeOK, GoTo
  <2>3. \A w \in Workers : pc[w] = "none" => w # s
    OBVIOUS
  <2>4. \A w \in Workers : pc[w] = "none" => pc'[w] = "none"
    BY <1>2, <2>3, GeneratorAssumption DEF GenTypeOK, GoTo
  <2> QED BY <2>1, <2>2, <2>4 DEF Control
<1> QED BY <1>1, <1>2

LEMMA InitializeKeepsControl ==
    ASSUME GenTypeOK, Control, Initialize
    PROVE  Control'
<1> USE GeneratorAssumption
<1>1. CASE CountRows
  <2>1. Running' = Running /\ \A w \in Workers : pc'[w] = "none"
    BY <1>1 DEF CountRows, GoTo, GenTypeOK, Control, Running
  <2> QED BY <1>1, <2>1 DEF CountRows, Control
<1>2. CASE InitializeFails
  BY <1>2 DEF InitializeFails, Control, Running
<1>3. CASE SeedNext
  BY <1>3, MovesOn DEF SeedNext, StartInsert, mainVars, Control
<1>4. CASE SeedInserted
  BY <1>4, MovesOn, BatchOfNat DEF SeedInserted
<1>5. CASE SeedFails
  <2>1. \A w \in Workers : pc[w] = "none"
    BY <1>5 DEF SeedFails, Control
  <2>2. Running' = Running /\ \A w \in Workers : pc'[w] = "none"
    BY <1>5, <2>1 DEF SeedFails, GoTo, GenTypeOK, Running
  <2> QED BY <1>5, <2>2 DEF SeedFails, Control
<1>6. CASE SeedDone
  BY <1>6 DEF SeedDone, Control, Running
<1> QED BY <1>1, <1>2, <1>3, <1>4, <1>5, <1>6 DEF Initialize

\* No worker ran before, and all of them do now.
LEMMA StartKeepsControl ==
    ASSUME GenTypeOK, Control, Start
    PROVE  Control'
<1> USE GeneratorAssumption
<1>1. Running = {}
  BY DEF Start, Control, Running
<1>2. wg = 0
  BY <1>1, FS_EmptySet DEF Control
<1>3. Running' = Workers /\ pc'[Main] = "none"
  BY DEF Start, Running
<1>4. wg' = Cardinality(Running')
  BY <1>2, <1>3, RunningFinite, FS_CardinalityType DEF Start
<1> QED BY <1>3, <1>4 DEF Start, Control

LEMMA WorkerKeepsControl ==
    ASSUME GenTypeOK, Control, NEW w \in Workers, Worker(w)
    PROVE  Control'
<1> USE GeneratorAssumption
<1>1. CASE WorkerExits(w)
  <2>1. pc'[Main] = pc[Main] /\ wg # 0 /\ pc[w] # "none"
    <3>1. w \in Running
      BY <1>1 DEF WorkerExits, Running
    <3>2. wg # 0
      BY <3>1, RunningFinite, FS_EmptySet DEF Control
    <3> QED BY <1>1, <3>2 DEF WorkerExits, GoTo, GenTypeOK
  <2> QED BY <1>1, <2>1, WorkerExitsFromRunning DEF WorkerExits, Control
<1>2. CASE ~WorkerExits(w)
  <2>1. PICK l : GoTo(w, l) /\ l \notin {"none", "exited"}
    BY <1>2 DEF Worker, BeginRead, BeginInsert, StartInsert, BeginUpdate, ReadOk,
                UpdateOk, ReadOrUpdateFails, AddTotalRows, RecordInsert, RecordError,
                Recorded
  <2>2. pc[w] \notin {"none", "exited"}
    BY <1>2 DEF Worker, BeginRead, BeginInsert, BeginUpdate, Begin, ReadOk, UpdateOk,
                ReadOrUpdateFails, AddTotalRows, RecordInsert, RecordError, Recorded
  <2>3. UNCHANGED mainVars
    BY <1>2 DEF Worker, BeginRead, BeginInsert, BeginUpdate, Begin, ReadOk, UpdateOk,
                ReadOrUpdateFails, AddTotalRows, RecordInsert, RecordError, Recorded
  <2> QED BY <2>1, <2>2, <2>3, MovesOn DEF mainVars, Control
<1> QED BY <1>1, <1>2

LEMMA NextKeepsControl ==
    ASSUME GenTypeOK, Control, [Next]_vars
    PROVE  Control'
<1>1. CASE UNCHANGED genVars
  BY <1>1 DEF Control, Running, genVars, mainVars
<1>2. CASE Initialize
  BY <1>2, InitializeKeepsControl
<1>3. CASE Start
  BY <1>3, StartKeepsControl
<1>4. ASSUME NEW s \in Sessions, BatchInsert(s) PROVE Control'
  <2>1. pc[s] \notin {"none", "exited"} /\ UNCHANGED mainVars
    BY <1>4 DEF BatchInsert, QueryOk, Retry, InsertFails, Fails, NextRow, RowsDone
  <2>2. \E l \in {"rows", "error", "count"} : GoTo(s, l) \/ UNCHANGED pc
    BY <1>4 DEF BatchInsert, QueryOk, Retry, InsertFails, NextRow, RowsDone
  <2> QED BY <2>1, <2>2, MovesOn DEF mainVars, Control
<1>5. CASE \E w \in Workers : Worker(w)
  BY <1>5, WorkerKeepsControl
<1>6. CASE ContextExpires
  BY <1>6 DEF ContextExpires, Control, Running
<1>7. CASE Stop
  BY <1>7 DEF Stop, Control, Running
<1>8. CASE WaitDone
  BY <1>8 DEF WaitDone, Control, Running
<1>9. Server \/ UNCHANGED vars => UNCHANGED genVars
  BY DEF Server, CancelHonoured, vars
<1> QED BY <1>1, <1>2, <1>3, <1>4, <1>5, <1>6, <1>7, <1>8, <1>9 DEF Next

-----------------------------------------------------------------------------
(* Tracking.                                                                *)

Tracking == ConfirmedWereCommitted /\ RowsTrackedOrUnread

\* What the server does on its own only adds committed rows, and a statement it ends
\* with an error promises nothing any more.
LEMMA ServerKeepsTracking ==
    ASSUME PgInv, Tracking, Server
    PROVE  Tracking'
<1> USE DEF PgInv, PgTypeOK, Tracking, ConfirmedWereCommitted, RowsTrackedOrUnread
<1>1. UNCHANGED <<received, confirmed>>
  BY DEF Server, CancelHonoured, genVars, metricsVars, trackingVars
<1>2. ASSUME NEW s \in Sessions, Execute(s, BatchOf(s)) PROVE Tracking'
  BY <1>1, <1>2 DEF Execute
<1>3. ASSUME NEW s \in Sessions, Commit(s) PROVE Tracking'
  BY <1>1, <1>3 DEF Commit
<1>4. ASSUME NEW s \in Sessions, Abort(s) PROVE Tracking'
  BY <1>1, <1>4 DEF Abort
<1>5. ASSUME NEW s \in Sessions, LoseConnection(s) PROVE Tracking'
  BY <1>1, <1>5 DEF LoseConnection
<1>6. CASE OrphanCommits \/ OrphanAborts
  BY <1>1, <1>6 DEF OrphanCommits, OrphanAborts
<1>7. CASE Failover
  <2>1. \A s \in Sessions : xact'[s] \notin {"open", "committed"} /\ ever' = ever
    BY <1>7 DEF Failover, Live
  <2> QED BY <1>1, <1>7, <2>1 DEF Failover
<1> QED BY <1>2, <1>3, <1>4, <1>5, <1>6, <1>7 DEF Server, CancelHonoured

\* NextRow hands a row from unread to received; RowsDone meets a committed
\* statement with nothing left to read.
LEMMA BatchInsertKeepsTracking ==
    ASSUME PgInv, Tracking, NEW s \in Sessions, BatchInsert(s)
    PROVE  Tracking'
<1> USE DEF PgInv, PgTypeOK, Tracking, ConfirmedWereCommitted, RowsTrackedOrUnread
<1>1. CASE QueryOk(s)
  BY <1>1 DEF QueryOk, pgVars, metricsVars, trackingVars
<1>2. CASE Retry(s)
  BY <1>2 DEF Retry, Send, dbVars, metricsVars, trackingVars
<1>3. CASE InsertFails(s)
  BY <1>3 DEF InsertFails, Leave, dbVars, metricsVars, trackingVars
<1>4. CASE NextRow(s)
  <2>1. PICK r \in Readable(s) : /\ RecordInsertedID(r)
                                 /\ unread' = [unread EXCEPT ![s] = @ \ {r}]
    BY <1>4 DEF NextRow
  <2>2. /\ received' = received \cup {r}
        /\ UNCHANGED <<ever, xact, rows, confirmed>>
    BY <1>4, <2>1 DEF NextRow, RecordInsertedID, dbVars
  <2>3. ASSUME NEW x \in Sessions PROVE unread[x] \subseteq unread'[x] \cup {r}
    BY <2>1
  <2> QED BY <2>2, <2>3
<1>5. CASE RowsDone(s)
  <2>1. rows[s] \subseteq ever /\ rows[s] \subseteq received
    BY <1>5 DEF RowsDone, CommittedInEver
  <2> QED BY <1>5, <2>1 DEF RowsDone, Leave, dbVars, trackingVars
<1> QED BY <1>1, <1>2, <1>3, <1>4, <1>5 DEF BatchInsert

LEMMA NextKeepsTracking ==
    ASSUME PgInv, GenTypeOK, Control, Tracking, [Next]_vars
    PROVE  Tracking'
<1> USE DEF PgInv, PgTypeOK, Tracking, ConfirmedWereCommitted, RowsTrackedOrUnread
<1>1. CASE UNCHANGED <<ever, xact, rows, unread, received, confirmed>>
  BY <1>1
<1>2. ASSUME NEW s \in Sessions, StartInsert(s), UNCHANGED <<received, confirmed>>
      PROVE  Tracking'
  BY <1>2 DEF StartInsert, Send, dbVars
<1>3. SeedNext \/ (\E w \in Workers : BeginInsert(w)) => Tracking'
  BY <1>2, GeneratorAssumption DEF SeedNext, BeginInsert, Begin, metricsVars, trackingVars
<1>4. Initialize /\ ~SeedNext => UNCHANGED <<ever, xact, rows, unread, received, confirmed>>
  BY DEF Initialize, CountRows, InitializeFails, SeedInserted, SeedFails, SeedDone,
         pgVars, dbVars, metricsVars, trackingVars
<1>5. ASSUME NEW w \in Workers, Worker(w), ~BeginInsert(w)
      PROVE  UNCHANGED <<ever, xact, rows, unread, received, confirmed>>
  BY <1>5 DEF Worker, BeginRead, BeginUpdate, Begin, WorkerExits, ReadOk, UpdateOk,
              ReadOrUpdateFails, AddTotalRows, RecordInsert, RecordError, Recorded, pgVars,
              dbVars, metricsVars, trackingVars
<1>6. Start \/ ContextExpires \/ Stop \/ WaitDone \/ UNCHANGED vars
         => UNCHANGED <<ever, xact, rows, unread, received, confirmed>>
  BY DEF Start, ContextExpires, Stop, WaitDone, vars, genVars, pgVars, metricsVars,
         trackingVars
<1> QED BY <1>1, <1>3, <1>4, <1>5, <1>6, ServerKeepsTracking, BatchInsertKeepsTracking
   DEF Next

-----------------------------------------------------------------------------
(* The theorems.                                                            *)

LEMMA InitIInv == Init => IInv
<1> SUFFICES ASSUME Init PROVE IInv
  OBVIOUS
<1> USE GeneratorAssumption DEF Init
<1>1. PgInv
  BY PgInitInv
<1>2. GenTypeOK
  <2>1. pc \in [Sessions -> Location] /\ attempts \in [Sessions -> 0..MaxAttempts]
    BY DEF Location, MaxAttempts
  <2>2. total \in [Kind -> Nat]
    OBVIOUS
  <2>3. phase \in Phase
    BY DEF Phase
  <2> QED BY <2>1, <2>2, <2>3 DEF GenTypeOK
<1>3. Running = {}
  BY DEF Running
<1>4. Control
  BY <1>3, FS_EmptySet DEF Control
<1>5. ConfirmedWereCommitted /\ RowsTrackedOrUnread
  BY DEF ConfirmedWereCommitted, RowsTrackedOrUnread, PgInit
<1> QED BY <1>1, <1>2, <1>4, <1>5 DEF IInv

LEMMA NextIInv == IInv /\ [Next]_vars => IInv'
<1> SUFFICES ASSUME IInv, [Next]_vars PROVE IInv'
  OBVIOUS
<1>1. PgInv /\ GenTypeOK /\ Control /\ Tracking
  BY DEF IInv, Tracking
<1>2. PgInv'
  BY <1>1, NextKeepsPgInv
<1>3. GenTypeOK'
  BY <1>1, NextKeepsGenTypeOK
<1>4. Control'
  BY <1>1, NextKeepsControl
<1>5. Tracking'
  BY <1>1, NextKeepsTracking
<1> QED BY <1>2, <1>3, <1>4, <1>5 DEF IInv, Tracking

\* The inductive invariant of the generator holds in every reachable state.
THEOREM Invariance == Spec => []IInv
BY InitIInv, NextIInv, PTL DEF Spec

\* Every variable of the server and of the generator keeps its type; in
\* particular the WaitGroup's counter never becomes negative, which would make
\* wg.Done panic.
THEOREM TypeCorrect == Spec => []TypeOK
<1>1. IInv => TypeOK
  BY DEF IInv, PgInv, TypeOK
<1> QED BY <1>1, Invariance, PTL

\* Whatever the server, the network and the deadline do, a batch for which
\* batchInsert returns nil was committed and is tracked to the last row.
THEOREM ConfirmedBatchesCommitted == Spec => []ConfirmedWereCommitted
<1>1. IInv => ConfirmedWereCommitted
  BY DEF IInv
<1> QED BY <1>1, Invariance, PTL

\* When Stop has returned no goroutine is left that could move the totals: no
\* worker runs, and main is not in the database.
LEMMA QuietStep ==
    ASSUME IInv, [Next]_vars, phase = "stopped"
    PROVE  UNCHANGED metricsVars
<1>1. \A s \in Sessions : pc[s] \in {"none", "exited"}
  <2>1. Running = {}
    BY RunningFinite, FS_EmptySet DEF IInv, Control
  <2>2. pc[Main] = "none"
    BY DEF IInv, Control
  <2> QED BY <2>1, <2>2, GeneratorAssumption DEF Running
<1>2. ASSUME NEW s \in Sessions PROVE ~BatchInsert(s)
  BY <1>1 DEF BatchInsert, QueryOk, Retry, InsertFails, Fails, NextRow, RowsDone, IInv
<1>3. ASSUME NEW w \in Workers PROVE ~Worker(w)
  BY <1>1, GeneratorAssumption
     DEF Worker, BeginRead, BeginInsert, BeginUpdate, Begin, WorkerExits, ReadOk,
         UpdateOk, ReadOrUpdateFails, AddTotalRows, RecordInsert, RecordError, Recorded
<1>4. ~Initialize /\ ~Start
  BY <1>1, GeneratorAssumption
     DEF Initialize, CountRows, InitializeFails, SeedNext, SeedInserted, SeedFails,
         SeedDone, Start
<1>5. Server \/ ContextExpires \/ Stop \/ WaitDone \/ UNCHANGED vars => UNCHANGED metricsVars
  BY DEF Server, CancelHonoured, ContextExpires, Stop, WaitDone, vars, genVars
<1> QED BY <1>2, <1>3, <1>4, <1>5 DEF Next

\* The totals of the final report and the ids CheckDataLoss goes through are those
\* the workers left.
THEOREM QuietAfterStopHolds == Spec => QuietAfterStop
<1>1. IInv /\ [Next]_vars => [phase = "stopped" => UNCHANGED metricsVars]_vars
  BY QuietStep
<1>2. Spec => [][phase = "stopped" => UNCHANGED metricsVars]_vars
  BY <1>1, Invariance, PTL DEF Spec
<1> QED BY <1>2 DEF QuietAfterStop

-----------------------------------------------------------------------------
(* PART 3.  The generator implements Ledger.  The refinement rests on this: *)
(* the rows of an INSERT are new, so that open transactions, answers under  *)
(* way and the ledger never overlap.                                        *)

\* Rows the database or the client has seen.
Seen == ever \cup received \cup OpenRows \cup ComingRows

\* A row belongs to a timeline that has begun, and its id was drawn from the
\* sequence: NewRows are new.
RowsInTime ==
    /\ tl \in Nat \ {0}
    /\ \A r \in Seen : r.tl \in 1..tl /\ (r.tl = tl => r.id <= seq)

\* Open transactions share no row with each other or with committed ones.
TransactionsApart ==
    /\ \A s, t \in Sessions :
          s # t /\ xact[s] = "open" /\ xact[t] = "open" => rows[s] \cap rows[t] = {}
    /\ \A s \in Sessions : \A o \in orphans : xact[s] = "open" => rows[s] \cap o = {}
    /\ \A o, p \in orphans : o # p => o \cap p = {}
    /\ OpenRows \cap ever = {}

\* A row is on its way to one session at most, and not when it has arrived.
AnswersApart ==
    /\ \A s, t \in Sessions : s # t => unread[s] \cap unread[t] = {}
    /\ ComingRows \cap received = {}
    /\ \A s \in Sessions : xact[s] = "sent" => unread[s] = {}

\* The ledger can be counted.
LedgerCounts == insertedIDs = Ids(received) /\ IsFiniteSet(received) /\ IsFiniteSet(insertedIDs)

LInv == RowsInTime /\ TransactionsApart /\ AnswersApart /\ LedgerCounts

-----------------------------------------------------------------------------
(* The rows of open transactions, and those under way, one by one.           *)

LEMMA OpenRowsMember ==
    /\ \A r : r \in OpenRows <=> \/ \E s \in Sessions : xact[s] = "open" /\ r \in rows[s]
                                 \/ \E o \in orphans : r \in o
    /\ \A r : r \in OpenRows' <=> \/ \E s \in Sessions : xact'[s] = "open" /\ r \in rows'[s]
                                  \/ \E o \in orphans' : r \in o
BY DEF OpenRows

LEMMA ComingRowsMember ==
    /\ \A r : r \in ComingRows <=> \E s \in Sessions : r \in unread[s]
    /\ \A r : r \in ComingRows' <=> \E s \in Sessions : r \in unread'[s]
BY DEF ComingRows

\* Rows have a numeric id and timeline.
LEMMA SeenRows ==
    ASSUME PgInv, GenTypeOK
    PROVE  Seen \subseteq Row
<1>1. OpenRows \subseteq Row /\ ComingRows \subseteq Row
  BY OpenRowsMember, ComingRowsMember DEF PgInv, PgTypeOK
<1> QED BY <1>1 DEF Seen, PgInv, PgTypeOK, GenTypeOK

\* The ids of NewRows lie above the sequence, on the present timeline.
LEMMA NewRowsAreNew ==
    ASSUME PgInv, GenTypeOK, RowsInTime, NEW n \in Nat
    PROVE  /\ NewRows(n) \cap Seen = {}
           /\ \A r \in NewRows(n) : r.tl = tl /\ r.id <= seq + n
<1>1. seq \in Nat
  BY DEF PgInv, PgTypeOK
<1>2. ASSUME NEW r \in NewRows(n) PROVE r.tl = tl /\ r.id > seq /\ r.id <= seq + n
  BY <1>1, <1>2 DEF NewRows
<1>3. ASSUME NEW r \in NewRows(n), r \in Seen PROVE FALSE
  <2>1. r.id <= seq /\ r.id > seq /\ r.id \in Nat
    BY <1>2, <1>3, SeenRows DEF RowsInTime, Row
  <2> QED BY <2>1, <1>1
<1> QED BY <1>2, <1>3

-----------------------------------------------------------------------------
(* The steps of the ledger, in terms of the generator's variables.           *)

LEMMA LedgerInserts ==
    ASSUME NEW new, new \cap Seen = {},
           OpenRows' = OpenRows \cup new, ComingRows' = ComingRows \cup new,
           UNCHANGED <<Table, ever, received, confirmed, phase>>
    PROVE  [L!Next]_(L!vars)
<1>1. OpenRows' \ OpenRows = new
  BY DEF Seen
<1>2. CASE new = {}
  BY <1>2 DEF L!vars, L!ledgerVars
<1>3. CASE new # {}
  <2>1. L!Insert
    BY <1>1, <1>3 DEF L!Insert, L!ledgerVars, Seen
  <2> QED BY <2>1 DEF L!Next
<1> QED BY <1>2, <1>3

LEMMA LedgerCommits ==
    ASSUME NEW new, new \subseteq OpenRows, new \cap Table = {},
           OpenRows' = OpenRows \ new, Table' = Table \cup new, ever' = ever \cup new,
           UNCHANGED <<ComingRows, received, confirmed, phase>>
    PROVE  [L!Next]_(L!vars)
<1>1. Table' \ Table = new
  OBVIOUS
<1>2. CASE new = {}
  BY <1>2 DEF L!vars, L!ledgerVars
<1>3. CASE new # {}
  <2>1. L!Commit
    BY <1>1, <1>3 DEF L!Commit, L!ledgerVars
  <2> QED BY <2>1 DEF L!Next
<1> QED BY <1>2, <1>3

LEMMA LedgerLoses ==
    ASSUME OpenRows' \subseteq OpenRows, ComingRows' \subseteq ComingRows,
           Table' \subseteq Table, UNCHANGED <<ever, received, confirmed>>,
           phase' = "stopped" <=> phase = "stopped"
    PROVE  [L!Next]_(L!vars)
<1>1. L!Lose
  BY DEF L!Lose, L!ledgerVars
<1> QED BY <1>1 DEF L!Next

-----------------------------------------------------------------------------
(* What a step needs to keep of the invariant.                               *)

\* No row is new, and the timeline and the sequence stand.
LEMMA SeenShrinks ==
    ASSUME RowsInTime, Seen' \subseteq Seen, UNCHANGED <<tl, seq>>
    PROVE  RowsInTime'
BY DEF RowsInTime

LEMMA LedgerStands ==
    ASSUME LedgerCounts, UNCHANGED <<insertedIDs, received>>
    PROVE  LedgerCounts'
BY DEF LedgerCounts, Ids

\* Nothing the invariant speaks of changes.
apartVars == <<log, seq, tl, xact, rows, unread, orphans, ever, insertedIDs, received>>

LEMMA NothingMoves ==
    ASSUME LInv, UNCHANGED apartVars
    PROVE  LInv' /\ UNCHANGED <<OpenRows, ComingRows, Table>>
<1> USE DEF apartVars
<1>1. UNCHANGED <<OpenRows, ComingRows, Table, Seen>>
  BY DEF OpenRows, ComingRows, Table, Seen
<1>2. RowsInTime'
  BY <1>1, SeenShrinks DEF LInv
<1>3. TransactionsApart'
  BY <1>1 DEF LInv, TransactionsApart
<1>4. AnswersApart'
  BY <1>1 DEF LInv, AnswersApart
<1>5. LedgerCounts'
  BY LedgerStands DEF LInv
<1> QED BY <1>1, <1>2, <1>3, <1>4, <1>5 DEF LInv

-----------------------------------------------------------------------------
(* The server's steps.                                                       *)

LEMMA ExecuteImplements ==
    ASSUME PgInv, GenTypeOK, LInv, NEW s \in Sessions, NEW n \in Nat, Execute(s, n),
           UNCHANGED genVars
    PROVE  LInv' /\ [L!Next]_(L!vars)
<1> DEFINE new == NewRows(n)
<1>1. /\ xact[s] = "sent"
      /\ xact' = [xact EXCEPT ![s] = "open"]
      /\ rows' = [rows EXCEPT ![s] = new]
      /\ unread' = [unread EXCEPT ![s] = new]
      /\ seq' = seq + n
      /\ UNCHANGED <<log, tl, orphans, ever, received, confirmed, phase, insertedIDs>>
  BY DEF Execute, genVars, mainVars, metricsVars, trackingVars
<1>2. new \cap Seen = {} /\ \A r \in new : r.tl = tl /\ r.id <= seq + n
  BY NewRowsAreNew DEF LInv
<1>3. /\ xact \in [Sessions -> XactState]
      /\ rows \in [Sessions -> SUBSET Row]
      /\ unread \in [Sessions -> SUBSET Row]
      /\ seq \in Nat /\ tl \in Nat /\ Seen \subseteq Row
  BY SeenRows DEF PgInv, PgTypeOK
<1> HIDE DEF new
<1>4. OpenRows' = OpenRows \cup new
  BY <1>1, <1>3, OpenRowsMember
<1>5. ComingRows' = ComingRows \cup new
  <2>1. unread[s] = {}
    BY <1>1 DEF LInv, AnswersApart
  <2> QED BY <1>1, <1>3, <2>1, ComingRowsMember
<1>6. [L!Next]_(L!vars)
  <2>1. UNCHANGED Table
    BY <1>1 DEF Table
  <2> QED BY <1>1, <1>2, <1>4, <1>5, <2>1, LedgerInserts
<1>7. RowsInTime'
  <2>1. Seen' = Seen \cup new
    BY <1>1, <1>4, <1>5 DEF Seen
  <2>2. ASSUME NEW r \in Seen PROVE r.tl \in 1..tl /\ (r.tl = tl => r.id <= seq + n)
    BY <1>3 DEF LInv, RowsInTime, Row
  <2>3. ASSUME NEW r \in new PROVE r.tl \in 1..tl /\ r.id <= seq + n
    BY <1>2 DEF LInv, RowsInTime
  <2> QED BY <1>1, <2>1, <2>2, <2>3 DEF LInv, RowsInTime
<1>8. TransactionsApart'
  <2>1. \A x \in Sessions \ {s} : /\ xact'[x] = xact[x] /\ rows'[x] = rows[x]
                                  /\ xact'[x] = "open" => rows[x] \cap new = {}
    BY <1>1, <1>2, <1>3, OpenRowsMember DEF Seen
  <2>2. \A o \in orphans : o \cap new = {}
    BY <1>2, OpenRowsMember DEF Seen
  <2>3. OpenRows' \cap ever' = {}
    BY <1>1, <1>2, <1>4 DEF Seen, LInv, TransactionsApart
  <2>4. rows'[s] = new
    BY <1>1, <1>3
  <2>5. \A x, y \in Sessions :
           x # y /\ xact'[x] = "open" /\ xact'[y] = "open" => rows'[x] \cap rows'[y] = {}
    BY <2>1, <2>4 DEF LInv, TransactionsApart
  <2>6. \A x \in Sessions : \A o \in orphans : xact'[x] = "open" => rows'[x] \cap o = {}
    BY <2>1, <2>2, <2>4 DEF LInv, TransactionsApart
  <2> QED BY <1>1, <2>3, <2>5, <2>6 DEF LInv, TransactionsApart
<1>9. AnswersApart'
  <2>1. \A x \in Sessions \ {s} : unread'[x] = unread[x] /\ unread[x] \cap new = {}
    BY <1>1, <1>2, <1>3, ComingRowsMember DEF Seen
  <2>2. unread'[s] = new
    BY <1>1, <1>3
  <2>3. \A x, y \in Sessions : x # y => unread'[x] \cap unread'[y] = {}
    BY <2>1, <2>2 DEF LInv, AnswersApart
  <2>4. ComingRows' \cap received' = {}
    BY <1>1, <1>2, <1>5 DEF Seen, LInv, AnswersApart
  <2>5. \A x \in Sessions : xact'[x] = "sent" => unread'[x] = {}
    BY <1>1, <1>3, <2>1 DEF LInv, AnswersApart
  <2> QED BY <2>3, <2>4, <2>5 DEF AnswersApart
<1>10. LedgerCounts'
  BY <1>1, LedgerStands DEF LInv
<1> QED BY <1>6, <1>7, <1>8, <1>9, <1>10 DEF LInv

\* A transaction commits, of a session or of a client that is gone.
LEMMA TableGrows ==
    ASSUME PgInv, NEW b \in SUBSET Row, log' = Append(log, b)
    PROVE  Table' = Table \cup b
<1>1. log \in Seq(SUBSET Row)
  BY DEF PgInv, PgTypeOK
<1>2. /\ DOMAIN log = 1..Len(log) /\ Len(log) \in Nat
      /\ DOMAIN log' = 1..(Len(log) + 1)
      /\ \A i \in 1..Len(log) : log'[i] = log[i]
      /\ log'[Len(log) + 1] = b
  BY <1>1
<1>3. ASSUME NEW r PROVE r \in Table' <=> r \in Table \/ r \in b
  <2>1. r \in Table <=> \E i \in 1..Len(log) : r \in log[i]
    BY <1>2 DEF Table
  <2>2. r \in Table' <=> \E i \in 1..(Len(log) + 1) : r \in log'[i]
    BY <1>2 DEF Table
  <2>3. (1..(Len(log) + 1)) = (1..Len(log)) \cup {Len(log) + 1}
    BY <1>2
  <2> QED BY <1>2, <2>1, <2>2, <2>3
<1> QED BY <1>3

LEMMA CommitImplements ==
    ASSUME PgInv, GenTypeOK, LInv, NEW s \in Sessions, Commit(s), UNCHANGED genVars
    PROVE  LInv' /\ [L!Next]_(L!vars)
<1>1. /\ xact[s] = "open"
      /\ xact' = [xact EXCEPT ![s] = "committed"]
      /\ log' = Append(log, rows[s])
      /\ ever' = ever \cup rows[s]
      /\ UNCHANGED <<seq, tl, rows, unread, orphans, received, confirmed, phase, insertedIDs>>
  BY DEF Commit, genVars, mainVars, metricsVars, trackingVars
<1>2. xact \in [Sessions -> XactState] /\ rows[s] \in SUBSET Row
  BY DEF PgInv, PgTypeOK
<1>3. \A x \in Sessions : xact'[x] = "open" <=> x # s /\ xact[x] = "open"
  BY <1>1, <1>2
<1>4. OpenRows' = OpenRows \ rows[s] /\ rows[s] \subseteq OpenRows
  BY <1>1, <1>3, OpenRowsMember DEF LInv, TransactionsApart
<1>5. UNCHANGED ComingRows
  BY <1>1 DEF ComingRows
<1>6. [L!Next]_(L!vars)
  <2>1. Table' = Table \cup rows[s]
    BY <1>1, <1>2, TableGrows
  <2>2. rows[s] \cap Table = {}
    BY <1>4, TableInEver DEF LInv, TransactionsApart
  <2> QED BY <1>1, <1>4, <1>5, <2>1, <2>2, LedgerCommits
<1>7. RowsInTime'
  <2>1. Seen' \subseteq Seen
    BY <1>1, <1>4, <1>5 DEF Seen
  <2> QED BY <1>1, <2>1, SeenShrinks DEF LInv
<1>8. TransactionsApart'
  <2>1. OpenRows' \cap ever' = {}
    BY <1>1, <1>4 DEF LInv, TransactionsApart
  <2> QED BY <1>1, <1>3, <2>1 DEF LInv, TransactionsApart
<1>9. AnswersApart'
  <2>1. \A x \in Sessions : xact'[x] = "sent" => xact[x] = "sent"
    BY <1>1, <1>2
  <2> QED BY <1>1, <1>5, <2>1 DEF LInv, AnswersApart
<1>10. LedgerCounts'
  BY <1>1, LedgerStands DEF LInv
<1> QED BY <1>6, <1>7, <1>8, <1>9, <1>10 DEF LInv

LEMMA OrphanCommitsImplements ==
    ASSUME PgInv, GenTypeOK, LInv, OrphanCommits, UNCHANGED genVars
    PROVE  LInv' /\ [L!Next]_(L!vars)
<1>1. PICK o \in orphans :
          /\ orphans' = orphans \ {o}
          /\ log' = Append(log, o)
          /\ ever' = ever \cup o
          /\ UNCHANGED <<seq, tl, xact, rows, unread>>
  BY DEF OrphanCommits
<1>2. UNCHANGED <<received, confirmed, phase, insertedIDs>>
  BY DEF genVars, mainVars, metricsVars, trackingVars
<1>3. o \in SUBSET Row
  BY DEF PgInv, PgTypeOK
<1>4. OpenRows' = OpenRows \ o /\ o \subseteq OpenRows
  BY <1>1, OpenRowsMember DEF LInv, TransactionsApart
<1>5. UNCHANGED ComingRows
  BY <1>1 DEF ComingRows
<1>6. [L!Next]_(L!vars)
  <2>1. Table' = Table \cup o
    BY <1>1, <1>3, TableGrows
  <2>2. o \cap Table = {}
    BY <1>4, TableInEver DEF LInv, TransactionsApart
  <2> QED BY <1>1, <1>2, <1>4, <1>5, <2>1, <2>2, LedgerCommits
<1>7. RowsInTime'
  <2>1. Seen' \subseteq Seen
    BY <1>1, <1>2, <1>4, <1>5 DEF Seen
  <2> QED BY <1>1, <2>1, SeenShrinks DEF LInv
<1>8. TransactionsApart'
  <2>1. OpenRows' \cap ever' = {}
    BY <1>1, <1>4 DEF LInv, TransactionsApart
  <2> QED BY <1>1, <2>1 DEF LInv, TransactionsApart
<1>9. AnswersApart'
  BY <1>1, <1>2, <1>5 DEF LInv, AnswersApart
<1>10. LedgerCounts'
  BY <1>1, <1>2, LedgerStands DEF LInv
<1> QED BY <1>6, <1>7, <1>8, <1>9, <1>10 DEF LInv

\* Statements end, transactions are left behind or lost, answers are cut off: what
\* remains is apart as before.  On the same timeline or on the next.
LEMMA LossKeepsLInv ==
    ASSUME PgInv, GenTypeOK, LInv, NEW s \in Sessions,
           \A x \in Sessions : /\ xact'[x] = "open" => xact[x] = "open" /\ rows'[x] = rows[x]
                               /\ xact'[x] = "sent" => unread'[x] = {}
                               /\ unread'[x] \subseteq unread[x],
           \/ orphans' \subseteq orphans
           \/ /\ xact[s] = "open" /\ xact'[s] # "open"
              /\ orphans' = orphans \cup {rows[s]},
           (tl' = tl /\ seq' = seq) \/ tl' = tl + 1,
           UNCHANGED <<ever, received, insertedIDs>>
    PROVE  LInv' /\ OpenRows' \subseteq OpenRows /\ ComingRows' \subseteq ComingRows
<1>1. OpenRows' \subseteq OpenRows
  BY OpenRowsMember
<1>2. ComingRows' \subseteq ComingRows
  BY ComingRowsMember
<1>3. Seen' \subseteq Seen
  BY <1>1, <1>2 DEF Seen
<1>4. tl \in Nat \ {0} /\ tl' \in Nat \ {0}
  BY DEF LInv, RowsInTime
<1>5. RowsInTime'
  <2>1. CASE tl' = tl /\ seq' = seq
    BY <1>3, <2>1, SeenShrinks DEF LInv
  <2>2. CASE tl' = tl + 1
    <3>1. \A r \in Seen : r.tl \in 1..tl
      BY DEF LInv, RowsInTime
    <3>2. \A r \in Seen' : r.tl \in 1..tl' /\ r.tl # tl'
      BY <1>3, <1>4, <2>2, <3>1
    <3> QED BY <1>4, <3>2 DEF RowsInTime
  <2> QED BY <2>1, <2>2
<1>6. TransactionsApart'
  <2>1. OpenRows' \cap ever' = {}
    BY <1>1 DEF LInv, TransactionsApart
  <2>2. \A x, y \in Sessions :
           x # y /\ xact'[x] = "open" /\ xact'[y] = "open" => rows'[x] \cap rows'[y] = {}
    BY DEF LInv, TransactionsApart
  <2>3. \A x \in Sessions : \A o \in orphans' : xact'[x] = "open" => rows'[x] \cap o = {}
    BY DEF LInv, TransactionsApart
  <2>4. \A o, p \in orphans' : o # p => o \cap p = {}
    BY DEF LInv, TransactionsApart
  <2> QED BY <2>1, <2>2, <2>3, <2>4 DEF TransactionsApart
<1>7. AnswersApart'
  <2>1. \A x, y \in Sessions : x # y => unread'[x] \cap unread'[y] = {}
    BY DEF LInv, AnswersApart
  <2>2. ComingRows' \cap received' = {}
    BY <1>2 DEF LInv, AnswersApart
  <2> QED BY <2>1, <2>2 DEF AnswersApart
<1>8. LedgerCounts'
  BY LedgerStands DEF LInv
<1> QED BY <1>1, <1>2, <1>5, <1>6, <1>7, <1>8 DEF LInv

LEMMA AbortImplements ==
    ASSUME PgInv, GenTypeOK, LInv, NEW s \in Sessions,
           Abort(s) \/ LoseConnection(s) \/ OrphanAborts, UNCHANGED genVars
    PROVE  LInv' /\ [L!Next]_(L!vars)
<1> USE DEF PgInv, PgTypeOK
<1>1. UNCHANGED <<log, ever, tl, seq, rows, received, confirmed, phase, insertedIDs>>
  BY DEF Abort, LoseConnection, OrphanAborts, genVars, mainVars, metricsVars, trackingVars
<1>2. \A x \in Sessions : xact'[x] = "open" => xact[x] = "open"
  BY DEF Abort, LoseConnection, OrphanAborts
<1>3. \A x \in Sessions : unread'[x] \subseteq unread[x]
  BY ReadableUnread DEF Abort, LoseConnection, OrphanAborts
<1>4. \A x \in Sessions : xact'[x] = "sent" => unread'[x] = {}
  <2>1. \A x \in Sessions : xact'[x] = "sent" => xact[x] = "sent"
    BY DEF Abort, LoseConnection, OrphanAborts
  <2> QED BY <1>3, <2>1 DEF LInv, AnswersApart
<1>5. \/ orphans' \subseteq orphans
      \/ /\ xact[s] = "open" /\ xact'[s] # "open"
         /\ orphans' = orphans \cup {rows[s]}
  BY DEF Abort, LoseConnection, OrphanAborts, Abandoned
<1>6. LInv' /\ OpenRows' \subseteq OpenRows /\ ComingRows' \subseteq ComingRows
  BY <1>1, <1>2, <1>3, <1>4, <1>5, LossKeepsLInv
<1>7. UNCHANGED Table
  BY <1>1 DEF Table
<1> QED BY <1>1, <1>6, <1>7, LedgerLoses

LEMMA FailoverImplements ==
    ASSUME PgInv, GenTypeOK, LInv, Failover, UNCHANGED genVars
    PROVE  LInv' /\ [L!Next]_(L!vars)
<1> USE DEF PgInv, PgTypeOK
<1>1. UNCHANGED <<ever, received, confirmed, phase, insertedIDs>>
  BY DEF Failover, genVars, mainVars, metricsVars, trackingVars
<1>2. \A x \in Sessions : xact'[x] \notin {"open", "sent"} /\ unread'[x] \subseteq unread[x]
  BY ReadableUnread DEF Failover, Live
<1>3. orphans' \subseteq orphans /\ tl' = tl + 1
  BY DEF Failover
<1>4. Main \in Sessions
  BY GeneratorAssumption
<1>5. LInv' /\ OpenRows' \subseteq OpenRows /\ ComingRows' \subseteq ComingRows
  BY <1>1, <1>2, <1>3, <1>4, LossKeepsLInv
<1>6. Table' \subseteq Table
  <2>1. PICK k \in 0..Len(log) : log' = SubSeq(log, 1, k)
    BY DEF Failover
  <2>2. log \in Seq(SUBSET Row)
    OBVIOUS
  <2>3. /\ DOMAIN log = 1..Len(log) /\ DOMAIN log' = 1..k
        /\ \A i \in 1..k : log'[i] = log[i] /\ i \in 1..Len(log)
    BY <2>1, <2>2
  <2> QED BY <2>3 DEF Table
<1> QED BY <1>1, <1>5, <1>6, LedgerLoses

LEMMA ServerImplements ==
    ASSUME IInv, LInv, Server
    PROVE  LInv' /\ [L!Next]_(L!vars)
<1>1. PgInv /\ GenTypeOK /\ Control /\ UNCHANGED genVars
  BY DEF IInv, Server, CancelHonoured
<1>2. ASSUME NEW s \in Sessions, Execute(s, BatchOf(s)) PROVE LInv' /\ [L!Next]_(L!vars)
  BY <1>1, <1>2, BatchOfNat, ExecuteImplements
<1>3. ASSUME NEW s \in Sessions, Commit(s) PROVE LInv' /\ [L!Next]_(L!vars)
  BY <1>1, <1>3, CommitImplements
<1>4. ASSUME NEW s \in Sessions, Abort(s) \/ LoseConnection(s)
      PROVE  LInv' /\ [L!Next]_(L!vars)
  BY <1>1, <1>4, AbortImplements
<1>5. CASE OrphanCommits
  BY <1>1, <1>5, OrphanCommitsImplements
<1>6. CASE OrphanAborts
  BY <1>1, <1>6, AbortImplements, GeneratorAssumption
<1>7. CASE Failover
  BY <1>1, <1>7, FailoverImplements
<1> QED BY <1>2, <1>3, <1>4, <1>5, <1>6, <1>7 DEF Server, CancelHonoured

-----------------------------------------------------------------------------
(* The steps of batchInsert.                                                 *)

\* A statement is sent, or given up: at most rows and answers are lost.
LEMMA SendKeepsLInv ==
    ASSUME PgInv, GenTypeOK, LInv, NEW s \in Sessions, Send(s),
           UNCHANGED <<log, seq, tl, orphans, ever, insertedIDs, received>>
    PROVE  LInv' /\ OpenRows' \subseteq OpenRows /\ ComingRows' \subseteq ComingRows
<1>1. \A x \in Sessions : /\ xact'[x] = "open" => xact[x] = "open" /\ rows'[x] = rows[x]
                          /\ unread'[x] \subseteq unread[x]
  BY DEF Send, PgInv, PgTypeOK
<1>2. \A x \in Sessions : xact'[x] = "sent" => unread'[x] = {}
  BY DEF Send, PgInv, PgTypeOK, LInv, AnswersApart
<1> QED BY <1>1, <1>2, LossKeepsLInv

LEMMA LeaveKeepsLInv ==
    ASSUME PgInv, GenTypeOK, LInv, NEW s \in Sessions, Leave(s),
           UNCHANGED <<log, seq, tl, ever, insertedIDs, received>>
    PROVE  LInv' /\ OpenRows' \subseteq OpenRows /\ ComingRows' \subseteq ComingRows
<1>1. \A x \in Sessions : /\ xact'[x] = "open" => xact[x] = "open" /\ rows'[x] = rows[x]
                          /\ unread'[x] \subseteq unread[x]
  BY DEF Leave, PgInv, PgTypeOK
<1>2. \A x \in Sessions : xact'[x] = "sent" => unread'[x] = {}
  BY DEF Leave, PgInv, PgTypeOK, LInv, AnswersApart
<1>3. \/ orphans' \subseteq orphans
      \/ /\ xact[s] = "open" /\ xact'[s] # "open"
         /\ orphans' = orphans \cup {rows[s]}
  BY DEF Leave, Abandoned, PgInv, PgTypeOK
<1> QED BY <1>1, <1>2, <1>3, LossKeepsLInv

\* main is out of the database and the workers are gone when Stop has returned.
LEMMA NoStatementWhenStopped ==
    ASSUME IInv, phase = "stopped"
    PROVE  \A s \in Sessions : pc[s] \in {"none", "exited"}
<1>1. Running = {}
  BY RunningFinite, FS_EmptySet DEF IInv, Control
<1>2. pc[Main] = "none"
  BY DEF IInv, Control
<1> QED BY <1>1, <1>2, GeneratorAssumption DEF Running

\* A row that arrives is not in the ledger yet.
LEMMA NextRowImplements ==
    ASSUME IInv, LInv, NEW s \in Sessions, NextRow(s)
    PROVE  LInv' /\ [L!Next]_(L!vars)
<1>1. PICK r \in Readable(s) : /\ RecordInsertedID(r)
                               /\ unread' = [unread EXCEPT ![s] = @ \ {r}]
  BY DEF NextRow
<1>2. /\ received' = received \cup {r}
      /\ insertedIDs' = insertedIDs \cup {r.id}
      /\ UNCHANGED <<log, seq, tl, ever, xact, rows, orphans, confirmed, phase>>
  BY <1>1 DEF NextRow, RecordInsertedID, dbVars, mainVars
<1>3. r \in unread[s] /\ r \in ComingRows /\ r \in Row /\ unread \in [Sessions -> SUBSET Row]
  BY ReadableUnread, ComingRowsMember DEF IInv, PgInv, PgTypeOK
<1>4. r \notin received
  BY <1>3 DEF LInv, AnswersApart
<1>5. UNCHANGED <<OpenRows, Table>>
  BY <1>2 DEF OpenRows, Table
<1>6. \A x \in Sessions : unread'[x] = unread[x] \ {r}
  BY <1>1, <1>3 DEF LInv, AnswersApart
<1>7. ComingRows' = ComingRows \ {r}
  BY <1>6, ComingRowsMember
<1>8. [L!Next]_(L!vars)
  <2>1. phase # "stopped"
    BY NoStatementWhenStopped DEF NextRow
  <2>2. L!Track
    BY <1>2, <1>3, <1>5, <1>7, <2>1 DEF L!Track
  <2> QED BY <2>2 DEF L!Next
<1>9. RowsInTime'
  <2>1. Seen' \subseteq Seen
    BY <1>2, <1>3, <1>5, <1>7 DEF Seen
  <2> QED BY <1>2, <2>1, SeenShrinks DEF LInv
<1>10. TransactionsApart'
  BY <1>2, <1>5 DEF LInv, TransactionsApart
<1>11. AnswersApart'
  <2>1. ComingRows' \cap received' = {}
    BY <1>2, <1>7 DEF LInv, AnswersApart
  <2> QED BY <1>2, <1>6, <2>1 DEF LInv, AnswersApart
<1>12. LedgerCounts'
  <2>1. IsFiniteSet(received') /\ IsFiniteSet(insertedIDs')
    BY <1>2, FS_AddElement DEF LInv, LedgerCounts
  <2>2. insertedIDs' = Ids(received')
    BY <1>2 DEF LInv, LedgerCounts, Ids
  <2> QED BY <2>1, <2>2 DEF LedgerCounts
<1> QED BY <1>8, <1>9, <1>10, <1>11, <1>12 DEF LInv

LEMMA RowsDoneImplements ==
    ASSUME IInv, LInv, NEW s \in Sessions, RowsDone(s)
    PROVE  LInv' /\ [L!Next]_(L!vars)
<1>1. /\ pc[s] = "rows" /\ unread[s] = {} /\ xact[s] = "committed" /\ Leave(s)
      /\ confirmed' = confirmed \cup rows[s]
      /\ UNCHANGED <<log, seq, tl, ever, received, insertedIDs, phase>>
  BY DEF RowsDone, dbVars, mainVars, trackingVars
<1>2. LInv'
  BY <1>1, LeaveKeepsLInv DEF IInv
<1>3. rows[s] \subseteq received \cap ever
  BY <1>1 DEF IInv, PgInv, CommittedInEver, RowsTrackedOrUnread
<1>4. UNCHANGED <<OpenRows, ComingRows, Table>>
  <2>1. /\ orphans' = orphans
        /\ \A x \in Sessions : /\ xact'[x] = "open" <=> xact[x] = "open"
                               /\ x # s => rows'[x] = rows[x]
                               /\ unread'[x] = unread[x]
    BY <1>1 DEF Leave, Abandoned, IInv, PgInv, PgTypeOK
  <2>2. UNCHANGED OpenRows
    BY <1>1, <2>1, OpenRowsMember
  <2>3. UNCHANGED ComingRows
    BY <2>1, ComingRowsMember
  <2> QED BY <1>1, <2>2, <2>3 DEF Table
<1>5. L!Confirm
  <2>1. phase # "stopped"
    BY <1>1, NoStatementWhenStopped
  <2> QED BY <1>1, <1>3, <1>4, <2>1 DEF L!Confirm
<1> QED BY <1>2, <1>5 DEF L!Next

LEMMA BatchInsertImplements ==
    ASSUME IInv, LInv, NEW s \in Sessions, BatchInsert(s)
    PROVE  LInv' /\ [L!Next]_(L!vars)
<1>1. CASE QueryOk(s)
  <2>1. UNCHANGED apartVars /\ UNCHANGED <<confirmed, phase>>
    BY <1>1 DEF QueryOk, apartVars, pgVars, mainVars, metricsVars, trackingVars
  <2> QED BY <2>1, NothingMoves, LedgerLoses DEF apartVars
<1>2. CASE Retry(s)
  <2>1. /\ Send(s)
        /\ UNCHANGED <<log, seq, tl, orphans, ever, insertedIDs, received,
                       confirmed, phase>>
    BY <1>2 DEF Retry, dbVars, mainVars, metricsVars, trackingVars
  <2>2. UNCHANGED Table
    BY <2>1 DEF Table
  <2> QED BY <2>1, <2>2, SendKeepsLInv, LedgerLoses DEF IInv
<1>3. CASE InsertFails(s)
  <2>1. /\ Leave(s)
        /\ UNCHANGED <<log, seq, tl, ever, insertedIDs, received, confirmed,
                       phase>>
    BY <1>3 DEF InsertFails, dbVars, mainVars, metricsVars, trackingVars
  <2>2. UNCHANGED Table
    BY <2>1 DEF Table
  <2> QED BY <2>1, <2>2, LeaveKeepsLInv, LedgerLoses DEF IInv
<1>4. CASE NextRow(s)
  BY <1>4, NextRowImplements
<1>5. CASE RowsDone(s)
  BY <1>5, RowsDoneImplements
<1> QED BY <1>1, <1>2, <1>3, <1>4, <1>5 DEF BatchInsert

-----------------------------------------------------------------------------
(* The other steps.                                                          *)

\* A seeding batch or a batch of a worker is sent.
LEMMA StartInsertImplements ==
    ASSUME IInv, LInv, NEW s \in Sessions, StartInsert(s), UNCHANGED <<phase, metricsVars>>
    PROVE  LInv' /\ [L!Next]_(L!vars)
<1>1. /\ Send(s)
      /\ UNCHANGED <<log, seq, tl, orphans, ever, insertedIDs, received,
                     confirmed>>
  BY DEF StartInsert, dbVars, metricsVars, trackingVars
<1>2. UNCHANGED Table
  BY <1>1 DEF Table
<1> QED BY <1>1, <1>2, SendKeepsLInv, LedgerLoses DEF IInv

\* Steps that touch neither the server nor the ledger, and do not end Stop.
LEMMA OtherStepImplements ==
    ASSUME LInv, UNCHANGED <<apartVars, confirmed>>, phase' = "stopped" <=> phase = "stopped"
    PROVE  LInv' /\ [L!Next]_(L!vars)
BY NothingMoves, LedgerLoses DEF apartVars

LEMMA InitializeImplements ==
    ASSUME IInv, LInv, Initialize
    PROVE  LInv' /\ [L!Next]_(L!vars)
<1>1. CASE SeedNext
  BY <1>1, StartInsertImplements, GeneratorAssumption DEF SeedNext, mainVars
<1>2. CASE ~SeedNext
  <2>1. UNCHANGED <<apartVars, confirmed>>
    BY <1>2 DEF Initialize, CountRows, InitializeFails, SeedInserted, SeedFails, SeedDone,
                apartVars, pgVars, dbVars, metricsVars, trackingVars
  <2>2. phase # "stopped" /\ phase' # "stopped"
    <3>1. pc[Main] = "count" \/ pc[Main] = "error" => phase # "stopped"
      BY NoStatementWhenStopped, GeneratorAssumption
    <3> QED BY <1>2, <3>1 DEF Initialize, CountRows, InitializeFails, SeedInserted,
                              SeedFails, SeedDone
  <2> QED BY <2>1, <2>2, OtherStepImplements
<1> QED BY <1>1, <1>2

LEMMA WorkerImplements ==
    ASSUME IInv, LInv, NEW w \in Workers, Worker(w)
    PROVE  LInv' /\ [L!Next]_(L!vars)
<1>1. CASE BeginInsert(w)
  BY <1>1, StartInsertImplements, GeneratorAssumption DEF BeginInsert, Begin, mainVars
<1>2. CASE ~BeginInsert(w)
  <2>1. UNCHANGED <<apartVars, confirmed, phase>>
    BY <1>2 DEF Worker, BeginRead, BeginUpdate, Begin, WorkerExits, ReadOk, UpdateOk,
                ReadOrUpdateFails, AddTotalRows, RecordInsert, RecordError, Recorded, pgVars,
                dbVars, mainVars, metricsVars, trackingVars, apartVars
  <2> QED BY <2>1, OtherStepImplements
<1> QED BY <1>1, <1>2

LEMMA MainImplements ==
    ASSUME IInv, LInv, Start \/ ContextExpires \/ Stop \/ WaitDone \/ UNCHANGED vars
    PROVE  LInv' /\ [L!Next]_(L!vars)
<1>1. UNCHANGED <<apartVars, confirmed>>
  BY DEF Start, ContextExpires, Stop, WaitDone, vars, genVars, pgVars, metricsVars,
         trackingVars, apartVars
<1>2. CASE WaitDone
  <2>1. LInv' /\ UNCHANGED <<OpenRows, ComingRows, Table>>
    BY <1>1, NothingMoves
  <2>2. L!Close
    BY <1>1, <1>2, <2>1 DEF L!Close, WaitDone, apartVars
  <2> QED BY <2>1, <2>2 DEF L!Next
<1>3. CASE ~WaitDone
  <2>1. phase' = "stopped" <=> phase = "stopped"
    BY <1>3 DEF Start, ContextExpires, Stop, vars, genVars, mainVars
  <2> QED BY <1>1, <2>1, OtherStepImplements
<1> QED BY <1>2, <1>3

-----------------------------------------------------------------------------
(* The theorems.                                                             *)

LEMMA InitImplements == Init => LInv /\ L!Init
<1> SUFFICES ASSUME Init PROVE LInv /\ L!Init
  OBVIOUS
<1>1. IInv
  BY InitIInv
<1>2. PICK n \in PreRows : /\ pre = {[id |-> i, tl |-> 1] : i \in 1..n}
                           /\ log = IF n = 0 THEN <<>> ELSE <<pre>>
                           /\ seq = n
  BY DEF Init, PgInit
<1>3. /\ n \in Nat /\ tl = 1 /\ ever = pre /\ received = {} /\ confirmed = {}
      /\ insertedIDs = {} /\ orphans = {} /\ phase = "init"
      /\ \A s \in Sessions : xact[s] = "idle" /\ unread[s] = {}
  BY PostgresAssumption DEF Init, PgInit
<1>4. OpenRows = {} /\ ComingRows = {}
  BY <1>3, OpenRowsMember, ComingRowsMember
<1>5. Table = ever
  <2>1. CASE n = 0
    BY <1>2, <1>3, <2>1 DEF Table
  <2>2. CASE n # 0
    BY <1>2, <1>3, <2>2 DEF Table
  <2> QED BY <2>1, <2>2
<1>6. RowsInTime
  <2>1. \A r \in pre : r.tl = 1 /\ r.id <= n
    BY <1>2, <1>3
  <2> QED BY <1>2, <1>3, <1>4, <2>1 DEF RowsInTime, Seen
<1>7. TransactionsApart /\ AnswersApart
  BY <1>3, <1>4 DEF TransactionsApart, AnswersApart
<1>8. LedgerCounts
  BY <1>3, FS_EmptySet DEF LedgerCounts, Ids
<1>9. L!Init
  BY <1>3, <1>4, <1>5 DEF L!Init
<1> QED BY <1>6, <1>7, <1>8, <1>9 DEF LInv

LEMMA NextImplements == IInv /\ LInv /\ [Next]_vars => LInv' /\ [L!Next]_(L!vars)
<1> SUFFICES ASSUME IInv, LInv, [Next]_vars PROVE LInv' /\ [L!Next]_(L!vars)
  OBVIOUS
<1> QED BY ServerImplements, InitializeImplements, BatchInsertImplements,
   WorkerImplements, MainImplements DEF Next

\* The invariant of the refinement holds in every reachable state: rows of an INSERT
\* are new, and open transactions, answers under way and the ledger never overlap.
THEOREM LedgerInvariance == Spec => [](IInv /\ LInv)
<1>1. Spec => []IInv
  BY Invariance
<1>2. Init => LInv
  BY InitImplements
<1>3. IInv /\ LInv /\ [Next]_vars => LInv'
  BY NextImplements
<1> QED BY <1>1, <1>2, <1>3, PTL DEF Spec

\* The generator keeps what Ledger promises: every step of it, of the server and of
\* the network is a step of the abstract ledger or none.
THEOREM LedgerImplemented == Spec => ImplementsLedger
<1>1. Init => L!Init
  BY InitImplements
<1>2. IInv /\ LInv /\ [Next]_vars => [L!Next]_(L!vars)
  BY NextImplements
<1>3. Spec => L!Spec
  BY <1>1, <1>2, LedgerInvariance, PTL DEF Spec, L!Spec
<1> QED BY <1>3 DEF ImplementsLedger

-----------------------------------------------------------------------------
(* PART 4.  What the generator counts: each operation once, in totalRows no   *)
(* row that was not committed, and as inserted no row that is not tracked.   *)

\* The batches that are committed and known to be so, and not yet in totalRows.
Known == {w \in Workers : pc[w] = "count"}

\* The workers in an operation.
Busy == {w \in Workers : pc[w] \notin {"none", "loop", "exited"}}

\* Rows from before the run and rows of successful batches: all of them committed.
Backing == pre \cup confirmed

\* Only a goroutine in batchInsert has a statement at the server, and main is in it
\* while it seeds and not otherwise.
Engaged ==
    /\ \A s \in Sessions : xact[s] # "idle" => pc[s] \in {"exec", "rows"}
    /\ phase = "init" => pc[Main] = "none"
    /\ phase \in {"running", "stopping", "stopped"} => pc[Main] \in {"loop", "none"}

\* Until the rows of the table are counted, the server has nothing to do.
Untouched == phase = "init" => orphans = {} /\ ever = pre

\* Before the seeding is done, nothing is in totalRows; after it something is, and
\* it stays.
Positive ==
    /\ phase \in {"init", "seeding"} => totalRows = 0
    /\ phase \in {"running", "stopping", "stopped"} => totalRows > 0

\* A statement creates a whole batch of rows, that were neither there before the
\* run nor confirmed, and that no other statement creates.
Batches ==
    \A s \in Sessions : xact[s] \in {"open", "committed"} =>
       /\ Cardinality(rows[s]) = BatchOf(s)
       /\ rows[s] \cap Backing = {}
       /\ \A t \in Sessions : t # s /\ xact[t] \in {"open", "committed"} =>
             rows[s] \cap rows[t] = {}

\* What is counted, or will be when the batches known to be committed are added, is
\* covered by rows that were committed.
Backed ==
    /\ pre \subseteq ever
    /\ phase \in {"init", "seeding"} =>
          seeded + (IF pc[Main] = "count" THEN BatchOf(Main) ELSE 0) <= Cardinality(Backing)
    /\ totalRows + BatchSize * Cardinality(Known) <= Cardinality(Backing)

-----------------------------------------------------------------------------
(* Sets of workers.                                                         *)

LEMMA WorkersCount ==
    /\ IsFiniteSet(Busy) /\ Cardinality(Busy) \in Nat
    /\ IsFiniteSet(Busy') /\ Cardinality(Busy') \in Nat
    /\ IsFiniteSet(Known) /\ Cardinality(Known) \in Nat
    /\ IsFiniteSet(Known') /\ Cardinality(Known') \in Nat
<1>1. /\ IsFiniteSet(Workers) /\ Busy \in SUBSET Workers /\ Busy' \in SUBSET Workers
      /\ Known \in SUBSET Workers /\ Known' \in SUBSET Workers
  BY GeneratorAssumption DEF Busy, Known
<1> QED BY <1>1, FS_Subset, FS_CardinalityType

\* A worker begins or ends an operation, or does neither.
LEMMA BusyChanges ==
    ASSUME GenTypeOK, NEW s \in Sessions, NEW l, GoTo(s, l)
    PROVE  /\ s \notin Workers => Busy' = Busy
           /\ s \in Busy /\ l \notin {"none", "loop", "exited"} => Busy' = Busy
           /\ s \notin Busy /\ l \in {"none", "loop", "exited"} => Busy' = Busy
           /\ s \in Busy /\ l \in {"none", "loop", "exited"}
                 => Cardinality(Busy') = Cardinality(Busy) - 1
           /\ s \in Workers \ Busy /\ l \notin {"none", "loop", "exited"}
                 => Cardinality(Busy') = Cardinality(Busy) + 1
<1>1. pc'[s] = l /\ \A x \in Sessions : x # s => pc'[x] = pc[x]
  BY DEF GenTypeOK, GoTo
<1>2. Workers \subseteq Sessions
  BY GeneratorAssumption
<1>3. CASE s \in Busy /\ l \in {"none", "loop", "exited"}
  <2>1. Busy' = Busy \ {s}
    BY <1>1, <1>2, <1>3 DEF Busy
  <2>2. Cardinality(Busy') = Cardinality(Busy) - 1
    BY <1>3, <2>1, WorkersCount, FS_RemoveElement
  <2> QED BY <1>3, <2>2 DEF Busy
<1>4. CASE s \in Workers \ Busy /\ l \notin {"none", "loop", "exited"}
  <2>1. Busy' = Busy \cup {s}
    BY <1>1, <1>2, <1>4 DEF Busy
  <2>2. Cardinality(Busy') = Cardinality(Busy) + 1
    BY <1>4, <2>1, WorkersCount, FS_AddElement
  <2> QED BY <1>4, <2>2
<1>5. CASE ~(s \in Busy /\ l \in {"none", "loop", "exited"})
           /\ ~(s \in Workers \ Busy /\ l \notin {"none", "loop", "exited"})
  <2>1. s \notin Workers => Busy' = Busy
    BY <1>1, <1>2 DEF Busy
  <2>2. s \in Workers => Busy' = Busy
    BY <1>1, <1>2, <1>5 DEF Busy
  <2> QED BY <1>5, <2>1, <2>2
<1> QED BY <1>3, <1>4, <1>5

-----------------------------------------------------------------------------
(* Operations.                                                              *)

\* Where nothing begins and nothing ends.
LEMMA CountStands ==
    ASSUME EveryOperationCounted, UNCHANGED <<started, total>>, Busy' = Busy
    PROVE  EveryOperationCounted'
<1>1. EveryOperationCounted <=>
         started = total["reads"] + total["inserts"] + total["updates"] + total["errors"]
                   + Cardinality(Busy)
  BY DEF EveryOperationCounted, Busy
<1>2. EveryOperationCounted' <=>
         started' = total'["reads"] + total'["inserts"] + total'["updates"] + total'["errors"]
                    + Cardinality(Busy')
  BY DEF EveryOperationCounted, Busy
<1> QED BY <1>1, <1>2

LEMMA BeginCounts ==
    ASSUME GenTypeOK, EveryOperationCounted, NEW w \in Workers, NEW l,
           pc[w] = "loop", GoTo(w, l), l \notin {"none", "loop", "exited"},
           started' = started + 1, total' = total
    PROVE  EveryOperationCounted'
<1> DEFINE Sum == total["reads"] + total["inserts"] + total["updates"] + total["errors"]
           n == Cardinality(Busy)
           m == Cardinality(Busy')
<1>1. started = Sum + n
  BY DEF EveryOperationCounted, Busy
<1>2. m = n + 1 /\ n \in Nat
  BY BusyChanges, WorkersCount, GeneratorAssumption DEF Busy
<1>3. Sum \in Nat
  BY DEF GenTypeOK, Kind
<1> HIDE DEF n, m, Sum
<1>4. started + 1 = Sum + m
  BY <1>1, <1>2, <1>3
<1> QED BY <1>4 DEF EveryOperationCounted, Busy, Sum, m

LEMMA RecordedCounts ==
    ASSUME GenTypeOK, EveryOperationCounted, NEW w \in Workers, NEW from, NEW kind \in Kind,
           from \notin {"none", "loop", "exited"}, Recorded(w, from, kind)
    PROVE  EveryOperationCounted'
<1> DEFINE Sum(t) == t["reads"] + t["inserts"] + t["updates"] + t["errors"]
           n == Cardinality(Busy)
           m == Cardinality(Busy')
           after == [total EXCEPT ![kind] = @ + 1]
<1>1. started = Sum(total) + n
  BY DEF EveryOperationCounted, Busy
<1>2. GoTo(w, "loop") /\ w \in Busy /\ started' = started /\ total' = after
  BY DEF Recorded, CountOne, Busy
<1>3. m = n - 1 /\ n \in Nat
  BY <1>2, BusyChanges, WorkersCount, GeneratorAssumption
<1>4. Sum(total) \in Nat /\ Sum(after) = Sum(total) + 1
  BY DEF GenTypeOK, Kind
<1> HIDE DEF n, m, Sum, after
<1>5. started = Sum(after) + m
  BY <1>1, <1>3, <1>4
<1> QED BY <1>2, <1>5 DEF EveryOperationCounted, Busy, Sum, m

-----------------------------------------------------------------------------
(* The workers find rows.                                                   *)

\* While Initialize is at work, no worker runs.
LEMMA WorkerInRun ==
    ASSUME GenTypeOK, Control, NEW w \in Workers, pc[w] # "none"
    PROVE  phase \in {"running", "stopping", "stopped"} /\ w # Main /\ w \in Sessions
BY GeneratorAssumption DEF GenTypeOK, Phase, Control

LEMMA InitializeKeepsPositive ==
    ASSUME PgInv, GenTypeOK, Control, Positive, Initialize
    PROVE  Positive'
<1> USE GeneratorAssumption
<1>1. CASE CountRows
  <2>1. CASE Table = {}
    BY <1>1, <2>1 DEF CountRows, Positive
  <2>2. CASE Table # {}
    <3>1. IsFiniteSet(Table) /\ Cardinality(Table) \in Nat /\ Cardinality(Table) # 0
      BY <2>2, TableInEver, FS_CardinalityType, FS_EmptySet
    <3>2. phase' = "running" /\ totalRows' = Cardinality(Table)
      BY <1>1, <2>2 DEF CountRows
    <3>3. totalRows' > 0
      BY <3>1, <3>2
    <3> QED BY <3>2, <3>3 DEF Positive
  <2> QED BY <2>1, <2>2
<1>2. CASE InitializeFails
  BY <1>2 DEF InitializeFails, Positive
<1>3. CASE SeedNext
  BY <1>3 DEF SeedNext, Positive, mainVars, metricsVars
<1>4. CASE SeedInserted
  BY <1>4 DEF SeedInserted, Positive, metricsVars
<1>5. CASE SeedFails
  BY <1>5 DEF SeedFails, Positive
<1>6. CASE SeedDone
  BY <1>6 DEF SeedDone, Positive
<1> QED BY <1>1, <1>2, <1>3, <1>4, <1>5, <1>6 DEF Initialize

LEMMA NextKeepsPositive ==
    ASSUME PgInv, GenTypeOK, Control, Positive, [Next]_vars
    PROVE  Positive'
<1>1. CASE Initialize
  BY <1>1, InitializeKeepsPositive
<1>2. ASSUME NEW w \in Workers, AddTotalRows(w) PROVE Positive'
  <2>1. phase \in {"running", "stopping", "stopped"} /\ phase' = phase
    BY <1>2, WorkerInRun DEF AddTotalRows, mainVars
  <2>2. totalRows' = totalRows + BatchSize /\ totalRows \in Nat /\ BatchSize \in Nat \ {0}
    BY <1>2, GeneratorAssumption DEF AddTotalRows, GenTypeOK
  <2>3. totalRows' > 0
    BY <2>2
  <2> QED BY <2>1, <2>3 DEF Positive
<1>3. CASE Stop \/ WaitDone
  BY <1>3 DEF Stop, WaitDone, Positive, metricsVars
<1>4. ASSUME NEW w \in Workers, Worker(w), ~AddTotalRows(w)
      PROVE  UNCHANGED <<phase, totalRows>>
  BY <1>4 DEF Worker, BeginRead, BeginInsert, BeginUpdate, Begin, WorkerExits, ReadOk,
              UpdateOk, ReadOrUpdateFails, RecordInsert, RecordError, Recorded, mainVars,
              metricsVars
<1>5. ASSUME NEW s \in Sessions, BatchInsert(s) PROVE UNCHANGED <<phase, totalRows>>
  BY <1>5 DEF BatchInsert, QueryOk, Retry, InsertFails, NextRow, RowsDone, mainVars,
              metricsVars
<1>6. Server \/ UNCHANGED vars \/ Start \/ ContextExpires => UNCHANGED <<phase, totalRows>>
  BY DEF Server, CancelHonoured, vars, genVars, Start, ContextExpires, mainVars,
         metricsVars
<1>7. CASE UNCHANGED <<phase, totalRows>>
  BY <1>7 DEF Positive
<1> QED BY <1>1, <1>2, <1>3, <1>4, <1>5, <1>6, <1>7 DEF Next

-----------------------------------------------------------------------------
(* Every operation is counted once.                                         *)

LEMMA WorkerCounts ==
    ASSUME GenTypeOK, Control, Positive, EveryOperationCounted, NEW w \in Workers, Worker(w)
    PROVE  EveryOperationCounted'
<1> USE GeneratorAssumption
<1>1. CASE BeginRead(w)
  BY <1>1, BeginCounts DEF BeginRead, Begin, metricsVars
<1>2. CASE BeginInsert(w)
  BY <1>2, BeginCounts DEF BeginInsert, Begin, StartInsert, metricsVars
<1>3. CASE BeginUpdate(w)
  <2>1. totalRows # 0
    <3>1. pc[w] # "none"
      BY <1>3 DEF BeginUpdate, Begin
    <3> QED BY <3>1, WorkerInRun DEF Positive
  <2> QED BY <1>3, <2>1, BeginCounts DEF BeginUpdate, Begin, metricsVars
<1>4. CASE WorkerExits(w)
  <2>1. Busy' = Busy
    BY <1>4, BusyChanges DEF WorkerExits, Busy
  <2> QED BY <1>4, <2>1, CountStands DEF WorkerExits, metricsVars
<1>5. CASE ReadOk(w)
  BY <1>5, RecordedCounts DEF ReadOk, Kind
<1>6. CASE UpdateOk(w)
  BY <1>6, RecordedCounts DEF UpdateOk, Kind
<1>7. CASE ReadOrUpdateFails(w)
  <2>1. GoTo(w, "error") /\ w \in Busy
    BY <1>7 DEF ReadOrUpdateFails, Busy
  <2>2. Busy' = Busy
    BY <2>1, BusyChanges
  <2> QED BY <1>7, <2>2, CountStands DEF ReadOrUpdateFails, metricsVars
<1>8. CASE AddTotalRows(w)
  <2>1. GoTo(w, "record") /\ w \in Busy
    BY <1>8 DEF AddTotalRows, Busy
  <2>2. Busy' = Busy
    BY <2>1, BusyChanges
  <2> QED BY <1>8, <2>2, CountStands DEF AddTotalRows
<1>9. CASE RecordInsert(w)
  BY <1>9, RecordedCounts DEF RecordInsert, Kind
<1>10. CASE RecordError(w)
  BY <1>10, RecordedCounts DEF RecordError, Kind
<1> QED BY <1>1, <1>2, <1>3, <1>4, <1>5, <1>6, <1>7, <1>8, <1>9, <1>10 DEF Worker

\* A step of batchInsert stays inside the operation.
LEMMA BatchInsertCounts ==
    ASSUME GenTypeOK, EveryOperationCounted, NEW s \in Sessions, BatchInsert(s)
    PROVE  EveryOperationCounted'
<1>1. UNCHANGED <<started, total>> /\ pc[s] \in {"exec", "rows"}
  BY DEF BatchInsert, QueryOk, Retry, InsertFails, Fails, NextRow, RowsDone, mainVars,
         metricsVars
<1>2. Busy' = Busy
  <2>1. CASE UNCHANGED pc
    BY <2>1 DEF Busy
  <2>2. ASSUME NEW l \in {"rows", "error", "count"}, GoTo(s, l) PROVE Busy' = Busy
    <3>1. s \in Workers => s \in Busy
      BY <1>1 DEF Busy
    <3> QED BY <2>2, <3>1, BusyChanges
  <2>3. UNCHANGED pc \/ \E l \in {"rows", "error", "count"} : GoTo(s, l)
    BY DEF BatchInsert, QueryOk, Retry, InsertFails, Fails, NextRow, RowsDone
  <2> QED BY <2>1, <2>2, <2>3
<1> QED BY <1>1, <1>2, CountStands

LEMMA InitializeCounts ==
    ASSUME GenTypeOK, EveryOperationCounted, Initialize
    PROVE  EveryOperationCounted'
<1>1. UNCHANGED <<started, total>>
  BY DEF Initialize, CountRows, InitializeFails, SeedNext, SeedInserted, SeedFails,
         SeedDone, mainVars, metricsVars
<1>2. Busy' = Busy
  <2>1. CASE UNCHANGED pc
    BY <2>1 DEF Busy
  <2>2. ASSUME NEW l, GoTo(Main, l) PROVE Busy' = Busy
    BY <2>2, BusyChanges, GeneratorAssumption
  <2>3. UNCHANGED pc \/ \E l \in {"loop", "exec", "none"} : GoTo(Main, l)
    BY DEF Initialize, CountRows, InitializeFails, SeedNext, StartInsert, SeedInserted,
           SeedFails, SeedDone
  <2> QED BY <2>1, <2>2, <2>3
<1> QED BY <1>1, <1>2, CountStands

LEMMA NextCounts ==
    ASSUME GenTypeOK, Control, Positive, EveryOperationCounted, [Next]_vars
    PROVE  EveryOperationCounted'
<1>1. CASE Start
  <2>1. Busy = {}
    BY <1>1 DEF Start, Control, Busy
  <2>2. Busy' = {}
    BY <1>1, GeneratorAssumption DEF Start, Busy
  <2> QED BY <1>1, <2>1, <2>2, CountStands DEF Start, metricsVars
<1>2. CASE UNCHANGED <<started, total, pc>>
  <2>1. Busy' = Busy
    BY <1>2 DEF Busy
  <2> QED BY <1>2, <2>1, CountStands
<1>3. Server \/ ContextExpires \/ Stop \/ WaitDone \/ UNCHANGED vars
         => UNCHANGED <<started, total, pc>>
  BY DEF Server, CancelHonoured, ContextExpires, Stop, WaitDone, vars, genVars,
         metricsVars
<1> QED BY <1>1, <1>2, <1>3, WorkerCounts, BatchInsertCounts, InitializeCounts DEF Next

\* An operation that has begun is counted once when it ends, as a success of its
\* kind or as an error, through every fault and the deadline.
THEOREM OperationsCounted == Spec => []EveryOperationCounted
<1>1. Init => Positive /\ EveryOperationCounted
  <2> SUFFICES ASSUME Init PROVE Positive /\ EveryOperationCounted
    OBVIOUS
  <2>1. Positive
    BY DEF Init, Positive
  <2>2. Busy = {}
    BY GeneratorAssumption DEF Init, Busy
  <2>3. Cardinality(Busy) = 0
    BY <2>2, FS_EmptySet
  <2>4. EveryOperationCounted
    BY <2>3 DEF Init, EveryOperationCounted, Busy, Kind
  <2> QED BY <2>1, <2>4
<1>2. IInv /\ Positive /\ EveryOperationCounted /\ [Next]_vars
         => Positive' /\ EveryOperationCounted'
  BY NextKeepsPositive, NextCounts DEF IInv
<1> QED BY <1>1, <1>2, Invariance, PTL DEF Spec

-----------------------------------------------------------------------------
(* Goroutines and their statements.                                         *)

\* A goroutine that has no statement moves on.
LEMMA EngagedStands ==
    ASSUME GenTypeOK, Engaged, NEW s \in Sessions, NEW l,
           xact[s] = "idle" \/ l \in {"exec", "rows"}, GoTo(s, l),
           s = Main => (phase # "init" /\ l \in {"loop", "none"}) \/ phase = "seeding",
           UNCHANGED <<phase, xact>>
    PROVE  Engaged'
<1>1. pc'[s] = l /\ \A x \in Sessions : x # s => pc'[x] = pc[x]
  BY DEF GenTypeOK, GoTo
<1> QED BY <1>1, GeneratorAssumption DEF Engaged

LEMMA ServerKeepsEngaged ==
    ASSUME PgInv, GenTypeOK, Control, Engaged, Server
    PROVE  Engaged'
<1> USE DEF PgInv, PgTypeOK, Engaged
<1>1. UNCHANGED <<phase, pc>>
  BY DEF Server, CancelHonoured, genVars, mainVars
<1>2. ASSUME phase = "init", NEW s \in Sessions PROVE xact[s] = "idle"
  BY <1>2, GeneratorAssumption DEF Control
<1>3. ASSUME NEW s \in Sessions, Execute(s, BatchOf(s)) PROVE Engaged'
  BY <1>1, <1>2, <1>3 DEF Execute
<1>4. ASSUME NEW s \in Sessions, Commit(s) PROVE Engaged'
  BY <1>1, <1>2, <1>4 DEF Commit
<1>5. ASSUME NEW s \in Sessions, Abort(s) PROVE Engaged'
  BY <1>1, <1>2, <1>5 DEF Abort
<1>6. ASSUME NEW s \in Sessions, LoseConnection(s) PROVE Engaged'
  BY <1>1, <1>2, <1>6 DEF LoseConnection, Live
<1>7. CASE OrphanCommits \/ OrphanAborts
  BY <1>1, <1>7 DEF OrphanCommits, OrphanAborts
<1>8. CASE Failover
  BY <1>1, <1>8 DEF Failover, Live
<1> QED BY <1>3, <1>4, <1>5, <1>6, <1>7, <1>8 DEF Server, CancelHonoured

\* A statement is begun, or begun again.
LEMMA SendKeepsEngaged ==
    ASSUME PgInv, GenTypeOK, Engaged, NEW s \in Sessions, Send(s), pc'[s] = "exec",
           \A x \in Sessions : x # s => pc'[x] = pc[x],
           s = Main => phase = "seeding", phase # "init",
           UNCHANGED phase
    PROVE  Engaged'
<1>1. \A x \in Sessions : x # s => xact'[x] = xact[x]
  BY DEF Send, PgInv, PgTypeOK
<1> QED BY <1>1, GeneratorAssumption DEF Engaged

\* A statement is over.
LEMMA LeaveKeepsEngaged ==
    ASSUME PgInv, GenTypeOK, Engaged, NEW s \in Sessions, Leave(s), NEW l, GoTo(s, l),
           phase # "init", s = Main => phase \notin {"running", "stopping", "stopped"},
           UNCHANGED phase
    PROVE  Engaged'
<1>1. xact'[s] = "idle" /\ \A x \in Sessions : x # s => xact'[x] = xact[x]
  BY DEF Leave, PgInv, PgTypeOK
<1>2. \A x \in Sessions : x # s => pc'[x] = pc[x]
  BY DEF GoTo, GenTypeOK
<1> QED BY <1>1, <1>2, GeneratorAssumption DEF Engaged

\* Where batchInsert is under way, the rows of the table have been counted.
LEMMA InsertInRun ==
    ASSUME GenTypeOK, Control, Engaged, NEW s \in Sessions,
           pc[s] \in {"exec", "rows", "count", "error"}
    PROVE  /\ phase # "init"
           /\ s = Main => phase \notin {"running", "stopping", "stopped"}
BY GeneratorAssumption DEF GenTypeOK, Control, Engaged

LEMMA BatchInsertKeepsEngaged ==
    ASSUME PgInv, GenTypeOK, Control, Engaged, NEW s \in Sessions, BatchInsert(s)
    PROVE  Engaged'
<1>1. pc[s] \in {"exec", "rows"} /\ UNCHANGED phase
  BY DEF BatchInsert, QueryOk, Retry, InsertFails, Fails, NextRow, RowsDone, mainVars
<1>2. phase # "init" /\ (s = Main => phase \notin {"running", "stopping", "stopped"})
  BY <1>1, InsertInRun
<1>3. CASE QueryOk(s)
  <2>1. \A x \in Sessions : pc'[x] \in {"exec", "rows"} <=> pc[x] \in {"exec", "rows"}
    BY <1>1, <1>3 DEF QueryOk, GoTo, GenTypeOK
  <2>2. UNCHANGED xact
    BY <1>3 DEF QueryOk, pgVars
  <2>3. s # Main => pc'[Main] = pc[Main]
    BY <1>3, GeneratorAssumption DEF QueryOk, GoTo, GenTypeOK
  <2> QED BY <1>1, <1>2, <2>1, <2>2, <2>3 DEF Engaged
<1>4. CASE Retry(s)
  <2>1. \A x \in Sessions : x # s => xact'[x] = xact[x]
    BY <1>4 DEF Retry, Send, PgInv, PgTypeOK
  <2> QED BY <1>1, <1>2, <1>4, <2>1 DEF Retry, Engaged
<1>5. CASE InsertFails(s)
  BY <1>1, <1>2, <1>5, LeaveKeepsEngaged DEF InsertFails, Fails
<1>6. CASE NextRow(s)
  BY <1>1, <1>2, <1>6 DEF NextRow, Engaged
<1>7. CASE RowsDone(s)
  BY <1>1, <1>2, <1>7, LeaveKeepsEngaged DEF RowsDone
<1> QED BY <1>3, <1>4, <1>5, <1>6, <1>7 DEF BatchInsert

LEMMA InitializeKeepsEngaged ==
    ASSUME PgInv, GenTypeOK, Control, Engaged, Initialize
    PROVE  Engaged'
<1> USE GeneratorAssumption
<1>1. CASE CountRows
  <2>1. \A s \in Sessions : xact[s] = "idle"
    BY <1>1 DEF CountRows, Control, Engaged
  <2>2. pc'[Main] = "loop" /\ phase' # "init" /\ UNCHANGED xact
    BY <1>1 DEF CountRows, GoTo, GenTypeOK, pgVars
  <2> QED BY <2>1, <2>2 DEF Engaged
<1>2. CASE InitializeFails
  BY <1>2 DEF InitializeFails, Engaged, dbVars
<1>3. CASE SeedNext
  <2>1. /\ Send(Main) /\ phase = "seeding" /\ GoTo(Main, "exec")
        /\ UNCHANGED phase
    BY <1>3 DEF SeedNext, StartInsert, mainVars, dbVars
  <2>2. pc'[Main] = "exec" /\ \A x \in Sessions : x # Main => pc'[x] = pc[x]
    BY <2>1 DEF GoTo, GenTypeOK
  <2> QED BY <2>1, <2>2, SendKeepsEngaged
<1>4. CASE SeedInserted
  <2>1. xact[Main] = "idle" /\ phase # "init" /\ phase \notin {"running", "stopping", "stopped"}
    BY <1>4, InsertInRun DEF SeedInserted, Engaged
  <2> QED BY <1>4, <2>1, EngagedStands DEF SeedInserted, pgVars
<1>5. CASE SeedFails
  <2>1. xact[Main] = "idle" /\ pc' = [pc EXCEPT ![Main] = "none"]
    BY <1>5 DEF SeedFails, Engaged, GoTo
  <2>2. phase' = "failed" /\ UNCHANGED xact
    BY <1>5 DEF SeedFails, pgVars
  <2> QED BY <2>1, <2>2 DEF Engaged, GenTypeOK
<1>6. CASE SeedDone
  BY <1>6 DEF SeedDone, Engaged, pgVars
<1> QED BY <1>1, <1>2, <1>3, <1>4, <1>5, <1>6 DEF Initialize

LEMMA WorkerKeepsEngaged ==
    ASSUME PgInv, GenTypeOK, Control, Engaged, NEW w \in Workers, Worker(w)
    PROVE  Engaged'
<1>1. pc[w] \notin {"none", "exec", "rows"} /\ UNCHANGED phase
  BY DEF Worker, BeginRead, BeginInsert, BeginUpdate, Begin, WorkerExits, ReadOk,
         UpdateOk, ReadOrUpdateFails, AddTotalRows, RecordInsert, RecordError, Recorded,
         mainVars
<1>2. w \in Sessions /\ w # Main /\ phase # "init" /\ xact[w] = "idle"
  BY <1>1, WorkerInRun DEF Engaged
<1>3. CASE BeginInsert(w)
  <2>1. Send(w) /\ GoTo(w, "exec")
    BY <1>3 DEF BeginInsert, StartInsert, dbVars
  <2>2. pc'[w] = "exec" /\ \A x \in Sessions : x # w => pc'[x] = pc[x]
    BY <1>2, <2>1 DEF GoTo, GenTypeOK
  <2> QED BY <1>1, <1>2, <2>1, <2>2, SendKeepsEngaged
<1>4. CASE ~BeginInsert(w)
  <2>1. UNCHANGED <<xact>>
    BY <1>4 DEF Worker, BeginRead, BeginUpdate, WorkerExits, ReadOk, UpdateOk,
                ReadOrUpdateFails, AddTotalRows, RecordInsert, RecordError, Recorded, pgVars,
                dbVars
  <2>2. PICK l : GoTo(w, l)
    BY <1>4 DEF Worker, BeginRead, BeginUpdate, WorkerExits, ReadOk, UpdateOk,
                ReadOrUpdateFails, AddTotalRows, RecordInsert, RecordError, Recorded
  <2> QED BY <1>1, <1>2, <2>1, <2>2, EngagedStands
<1> QED BY <1>3, <1>4

LEMMA NextKeepsEngaged ==
    ASSUME PgInv, GenTypeOK, Control, Engaged, [Next]_vars
    PROVE  Engaged'
<1>1. CASE Start
  <2>1. \A s \in Sessions : xact[s] = "idle"
    BY <1>1, GeneratorAssumption DEF Start, Control, Engaged
  <2> QED BY <1>1, <2>1, GeneratorAssumption DEF Start, Engaged, pgVars
<1>2. CASE Stop \/ WaitDone
  BY <1>2 DEF Stop, WaitDone, Engaged, pgVars
<1>3. CASE ContextExpires \/ UNCHANGED vars
  BY <1>3 DEF ContextExpires, vars, genVars, mainVars, Engaged, pgVars
<1> QED BY <1>1, <1>2, <1>3, ServerKeepsEngaged, InitializeKeepsEngaged,
           BatchInsertKeepsEngaged, WorkerKeepsEngaged DEF Next

\* Before the count there is no statement, and no transaction an earlier one left.
LEMMA NextKeepsUntouched ==
    ASSUME PgInv, GenTypeOK, Control, Engaged, Untouched, [Next]_vars
    PROVE  Untouched'
<1> SUFFICES ASSUME phase' = "init" PROVE orphans' = {} /\ ever' = pre'
  BY DEF Untouched
<1>1. phase = "init"
  BY DEF Next, Server, CancelHonoured, Initialize, CountRows, InitializeFails, SeedNext,
         SeedInserted, SeedFails, SeedDone, Start, BatchInsert, QueryOk, Retry,
         InsertFails, NextRow, RowsDone, Worker, BeginRead, BeginInsert, BeginUpdate,
         Begin, WorkerExits, ReadOk, UpdateOk, ReadOrUpdateFails, AddTotalRows,
         RecordInsert, RecordError, Recorded, ContextExpires, Stop, WaitDone, vars,
         genVars, mainVars
<1>2. \A s \in Sessions : xact[s] = "idle" /\ pc[s] = "none"
  BY <1>1, GeneratorAssumption DEF Control, Engaged
<1>3. CASE Server
  BY <1>1, <1>2, <1>3 DEF Untouched, Server, Execute, Commit, Abort, CancelHonoured,
                          LoseConnection, Live, OrphanCommits, OrphanAborts, Failover
<1>4. CASE InitializeFails \/ CountRows
  BY <1>1, <1>4 DEF Untouched, InitializeFails, CountRows, dbVars, pgVars
<1>5. CASE ContextExpires \/ UNCHANGED vars
  BY <1>1, <1>5 DEF Untouched, ContextExpires, vars, pgVars
<1>6. ~(SeedNext \/ SeedInserted \/ SeedFails \/ SeedDone \/ Start \/ Stop \/ WaitDone)
  BY <1>1, <1>2, GeneratorAssumption
     DEF SeedNext, SeedInserted, SeedFails, SeedDone, Start, Stop, WaitDone
<1>7. \A s \in Sessions : ~BatchInsert(s)
  BY <1>2 DEF BatchInsert, QueryOk, Retry, InsertFails, Fails, NextRow, RowsDone
<1>8. \A w \in Workers : ~Worker(w)
  BY <1>2, GeneratorAssumption
     DEF Worker, BeginRead, BeginInsert, BeginUpdate, Begin, WorkerExits, ReadOk,
         UpdateOk, ReadOrUpdateFails, AddTotalRows, RecordInsert, RecordError, Recorded
<1> QED BY <1>3, <1>4, <1>5, <1>6, <1>7, <1>8 DEF Next, Initialize

-----------------------------------------------------------------------------
(* Batches.                                                                 *)

\* Statements end, and nothing else that matters happens.
LEMMA BatchesStand ==
    ASSUME Batches, UNCHANGED <<pre, confirmed>>,
           \A s \in Sessions : xact'[s] \in {"open", "committed"} =>
              /\ xact[s] \in {"open", "committed"}
              /\ rows'[s] = rows[s]
              /\ s = Main => UNCHANGED seeded
    PROVE  Batches'
<1>1. Backing' = Backing
  BY DEF Backing
<1>2. ASSUME NEW s \in Sessions, xact'[s] \in {"open", "committed"}
      PROVE  BatchOf(s)' = BatchOf(s)
  BY <1>2 DEF BatchOf
<1> QED BY <1>1, <1>2 DEF Batches

LEMMA ExecuteKeepsBatches ==
    ASSUME PgInv, GenTypeOK, Control, ConfirmedWereCommitted, LInv, pre \subseteq ever, Batches,
           NEW s \in Sessions, Execute(s, BatchOf(s)), UNCHANGED genVars
    PROVE  Batches'
<1> DEFINE n == BatchOf(s)
           new == NewRows(n)
<1>1. /\ xact' = [xact EXCEPT ![s] = "open"]
      /\ rows' = [rows EXCEPT ![s] = new]
      /\ UNCHANGED <<pre, confirmed, seeded>>
  BY DEF Execute, genVars, mainVars, metricsVars
<1>2. n \in Nat
  BY BatchOfNat
<1>3. Cardinality(new) = n /\ new \cap Seen = {}
  BY <1>2, NewRowsFinite, NewRowsAreNew DEF PgInv, PgTypeOK, LInv
<1>4. \A x \in Sessions : BatchOf(x)' = BatchOf(x)
  BY <1>1 DEF BatchOf
<1>5. new \cap Backing = {} /\ Backing' = Backing
  BY <1>1, <1>3 DEF Seen, Backing, ConfirmedWereCommitted
<1>6. ASSUME NEW t \in Sessions, xact[t] \in {"open", "committed"}
      PROVE  rows[t] \cap new = {}
  <2>1. rows[t] \subseteq Seen
    BY <1>6, OpenRowsMember DEF PgInv, CommittedInEver, Seen
  <2> QED BY <2>1, <1>3
<1>7. /\ xact'[s] = "open" /\ rows'[s] = new
      /\ \A x \in Sessions : x # s => xact'[x] = xact[x] /\ rows'[x] = rows[x]
  BY <1>1 DEF PgInv, PgTypeOK
<1> HIDE DEF new, n
<1>8. ASSUME NEW x \in Sessions, xact'[x] \in {"open", "committed"}
      PROVE  /\ Cardinality(rows'[x]) = BatchOf(x)'
             /\ rows'[x] \cap Backing' = {}
             /\ \A t \in Sessions : t # x /\ xact'[t] \in {"open", "committed"} =>
                   rows'[x] \cap rows'[t] = {}
  <2>1. CASE x = s
    <3>1. Cardinality(rows'[x]) = BatchOf(x)'
      BY <1>3, <1>4, <1>7, <2>1 DEF n
    <3> QED BY <1>5, <1>6, <1>7, <2>1, <3>1
  <2>2. CASE x # s
    BY <1>4, <1>5, <1>6, <1>7, <1>8, <2>2 DEF Batches
  <2> QED BY <2>1, <2>2
<1> QED BY <1>8 DEF Batches

LEMMA ServerKeepsBatches ==
    ASSUME PgInv, GenTypeOK, Control, ConfirmedWereCommitted, LInv, pre \subseteq ever, Batches,
           Server
    PROVE  Batches'
<1>1. UNCHANGED <<seeded, confirmed, pre>>
  BY DEF Server, genVars, mainVars, metricsVars, Execute, Commit, Abort, CancelHonoured,
         LoseConnection, OrphanCommits, OrphanAborts, Failover
<1>2. ASSUME NEW s \in Sessions, Execute(s, BatchOf(s)), UNCHANGED genVars PROVE Batches'
  BY <1>2, ExecuteKeepsBatches
<1>3. ASSUME NEW s \in Sessions, Commit(s) \/ Abort(s) \/ LoseConnection(s) PROVE Batches'
  BY <1>1, <1>3, BatchesStand DEF Commit, Abort, LoseConnection, PgInv, PgTypeOK
<1>4. CASE OrphanCommits \/ OrphanAborts
  BY <1>1, <1>4, BatchesStand DEF OrphanCommits, OrphanAborts
<1>5. CASE Failover
  BY <1>1, <1>5, BatchesStand DEF Failover, Live
<1> QED BY <1>2, <1>3, <1>4, <1>5 DEF Server, CancelHonoured

\* Leaving a statement, or sending one: it has no rows.
LEMMA NoRowsKeepBatches ==
    ASSUME PgInv, Batches, NEW s \in Sessions, Leave(s) \/ Send(s),
           UNCHANGED <<pre, confirmed, seeded>>
    PROVE  Batches'
BY BatchesStand DEF Leave, Send, PgInv, PgTypeOK

\* The rows of a batch that succeeds are confirmed, and no other statement has them.
LEMMA RowsDoneKeepsBatches ==
    ASSUME PgInv, Batches, NEW s \in Sessions, RowsDone(s)
    PROVE  Batches'
<1>1. /\ xact'[s] = "idle"
      /\ \A x \in Sessions : x # s => xact'[x] = xact[x] /\ rows'[x] = rows[x]
      /\ confirmed' = confirmed \cup rows[s]
      /\ xact[s] = "committed"
      /\ UNCHANGED <<pre, seeded>>
  BY DEF RowsDone, Leave, PgInv, PgTypeOK, dbVars, mainVars
<1>2. Backing' = Backing \cup rows[s]
  BY <1>1 DEF Backing
<1>3. \A x \in Sessions : BatchOf(x)' = BatchOf(x)
  BY <1>1 DEF BatchOf
<1>4. ASSUME NEW x \in Sessions, xact'[x] \in {"open", "committed"}
      PROVE  /\ Cardinality(rows'[x]) = BatchOf(x)'
             /\ rows'[x] \cap Backing' = {}
             /\ \A t \in Sessions : t # x /\ xact'[t] \in {"open", "committed"} =>
                   rows'[x] \cap rows'[t] = {}
  BY <1>1, <1>2, <1>3, <1>4 DEF Batches
<1> QED BY <1>4 DEF Batches

LEMMA NextKeepsBatches ==
    ASSUME IInv, LInv, Engaged, pre \subseteq ever, Batches, [Next]_vars
    PROVE  Batches'
<1> USE GeneratorAssumption DEF IInv
<1>1. CASE Server
  BY <1>1, ServerKeepsBatches
<1>2. ASSUME NEW s \in Sessions, BatchInsert(s) PROVE Batches'
  <2>1. CASE QueryOk(s) \/ NextRow(s)
    BY <2>1, BatchesStand DEF QueryOk, NextRow, pgVars, dbVars, mainVars, metricsVars
  <2>2. CASE Retry(s) \/ InsertFails(s)
    BY <2>2, NoRowsKeepBatches DEF Retry, InsertFails, dbVars, mainVars, metricsVars
  <2> QED BY <1>2, <2>1, <2>2, RowsDoneKeepsBatches DEF BatchInsert
<1>3. CASE SeedNext
  BY <1>3, NoRowsKeepBatches DEF SeedNext, StartInsert, dbVars, mainVars, metricsVars
<1>4. CASE SeedInserted
  <2>1. xact[Main] = "idle"
    BY <1>4 DEF SeedInserted, Engaged
  <2> QED BY <1>4, <2>1, BatchesStand DEF SeedInserted, pgVars, metricsVars
<1>5. ASSUME NEW w \in Workers, BeginInsert(w) PROVE Batches'
  BY <1>5, NoRowsKeepBatches DEF BeginInsert, Begin, StartInsert, dbVars, mainVars,
                                 metricsVars
<1>6. ASSUME NEW w \in Workers, Worker(w), ~BeginInsert(w)
      PROVE  UNCHANGED <<xact, rows, pre, confirmed, seeded>>
  BY <1>6 DEF Worker, BeginRead, BeginUpdate, Begin, WorkerExits, ReadOk, UpdateOk,
              ReadOrUpdateFails, AddTotalRows, RecordInsert, RecordError, Recorded, pgVars,
              dbVars, mainVars, metricsVars
<1>7. CountRows \/ InitializeFails \/ SeedFails \/ SeedDone
         => UNCHANGED <<xact, rows, pre, confirmed, seeded>>
  BY DEF CountRows, InitializeFails, SeedFails, SeedDone, pgVars, dbVars, metricsVars
<1>8. Start \/ ContextExpires \/ Stop \/ WaitDone \/ UNCHANGED vars
         => UNCHANGED <<xact, rows, pre, confirmed, seeded>>
  BY DEF Start, ContextExpires, Stop, WaitDone, vars, genVars, pgVars, mainVars,
         metricsVars
<1>9. CASE UNCHANGED <<xact, rows, pre, confirmed, seeded>>
  BY <1>9, BatchesStand
<1> QED BY <1>1, <1>2, <1>3, <1>4, <1>5, <1>6, <1>7, <1>8, <1>9 DEF Next, Initialize

-----------------------------------------------------------------------------
(* Rows that are counted.                                                   *)

LEMMA KnownChanges ==
    ASSUME GenTypeOK, NEW s \in Sessions, NEW l, GoTo(s, l)
    PROVE  /\ s \notin Workers => Known' = Known
           /\ s \notin Known /\ l # "count" => Known' = Known
           /\ s \in Known /\ l # "count" => Cardinality(Known') = Cardinality(Known) - 1
           /\ s \in Workers \ Known /\ l = "count"
                 => Cardinality(Known') = Cardinality(Known) + 1
<1>1. pc'[s] = l /\ \A x \in Sessions : x # s => pc'[x] = pc[x]
  BY DEF GenTypeOK, GoTo
<1>2. Workers \subseteq Sessions
  BY GeneratorAssumption
<1>3. CASE s \in Known /\ l # "count"
  <2>1. Known' = Known \ {s}
    BY <1>1, <1>2, <1>3 DEF Known
  <2>2. Cardinality(Known') = Cardinality(Known) - 1
    BY <1>3, <2>1, WorkersCount, FS_RemoveElement
  <2> QED BY <1>3, <2>2 DEF Known
<1>4. CASE s \in Workers \ Known /\ l = "count"
  <2>1. Known' = Known \cup {s}
    BY <1>1, <1>2, <1>4 DEF Known
  <2>2. Cardinality(Known') = Cardinality(Known) + 1
    BY <1>4, <2>1, WorkersCount, FS_AddElement
  <2> QED BY <1>4, <2>2
<1>5. CASE ~(s \in Known /\ l # "count") /\ ~(s \in Workers \ Known /\ l = "count")
  <2>1. s \notin Workers => Known' = Known
    BY <1>1, <1>2 DEF Known
  <2>2. s \notin Known /\ l # "count" => Known' = Known
    BY <1>1, <1>2 DEF Known
  <2> QED BY <1>5, <2>1, <2>2
<1> QED BY <1>3, <1>4, <1>5

LEMMA BackingCount ==
    ASSUME PgInv, ConfirmedWereCommitted, pre \subseteq ever
    PROVE  /\ IsFiniteSet(Backing)
           /\ Cardinality(Backing) \in Nat
           /\ Cardinality(ever) \in Nat
           /\ Cardinality(Backing) <= Cardinality(ever)
<1>1. IsFiniteSet(ever) /\ Backing \in SUBSET ever
  BY DEF PgInv, PgFinite, Backing, ConfirmedWereCommitted
<1> QED BY <1>1, FS_Subset, FS_CardinalityType

LEMMA BatchArithmetic ==
    ASSUME NEW t \in Nat, NEW b \in Nat, NEW k \in Nat, NEW c \in Nat, t + b * k <= c
    PROVE  /\ (t + b) + b * (k - 1) <= c
           /\ t + b * (k + 1) <= c + b
<1>1. b * (k - 1) = b * k - b /\ b * (k + 1) = b * k + b /\ b * k \in Nat
  OBVIOUS
<1> QED BY <1>1

\* Neither the rows nor what is counted of them changes.
LEMMA BackedStands ==
    ASSUME IInv, Backed, pre' = pre, confirmed' = confirmed, ever \subseteq ever',
           totalRows' = totalRows, Known' = Known,
           phase' \in {"init", "seeding"} =>
              /\ phase \in {"init", "seeding"}
              /\ seeded' = seeded
              /\ pc'[Main] = "count" => pc[Main] = "count"
    PROVE  Backed'
<1>1. Backing' = Backing /\ pre' \subseteq ever'
  BY DEF Backing, Backed
<1>2. totalRows' + BatchSize * Cardinality(Known') <= Cardinality(Backing')
  BY <1>1 DEF Backed
<1>3. ASSUME phase' \in {"init", "seeding"}
      PROVE  seeded' + (IF pc'[Main] = "count" THEN BatchOf(Main)' ELSE 0)
                <= Cardinality(Backing')
  <2> DEFINE b == BatchOf(Main)
             c == Cardinality(Backing)
  <2>1. BatchOf(Main)' = b /\ seeded' = seeded /\ Cardinality(Backing') = c
    BY <1>1, <1>3 DEF BatchOf
  <2>2. seeded + (IF pc[Main] = "count" THEN b ELSE 0) <= c
    BY <1>3 DEF Backed
  <2>3. b \in Nat /\ c \in Nat /\ seeded \in Nat
    BY BatchOfNat, BackingCount, GeneratorAssumption DEF IInv, GenTypeOK, Backed
  <2> HIDE DEF b, c
  <2>4. seeded + (IF pc'[Main] = "count" THEN b ELSE 0) <= c
    BY <1>3, <2>2, <2>3
  <2> QED BY <2>1, <2>4
<1> QED BY <1>1, <1>2, <1>3 DEF Backed

\* A batch is known to be committed: its rows back it.
LEMMA RowsDoneBacked ==
    ASSUME IInv, Batches, Backed, NEW s \in Sessions, RowsDone(s)
    PROVE  Backed'
<1> DEFINE b == BatchOf(s)
           c == Cardinality(Backing)
           k == Cardinality(Known)
<1>1. /\ GoTo(s, "count") /\ pc[s] = "rows"
      /\ confirmed' = confirmed \cup rows[s]
      /\ xact[s] = "committed"
      /\ UNCHANGED <<pre, ever, seeded, phase, totalRows>>
  BY DEF RowsDone, dbVars, mainVars
<1>2. b \in Nat /\ c \in Nat /\ seeded \in Nat /\ totalRows \in Nat /\ k \in Nat
  BY BatchOfNat, BackingCount, WorkersCount DEF IInv, GenTypeOK, Backed
<1>3. Cardinality(Backing') = c + b
  <2>1. Backing' = Backing \cup rows[s] /\ Backing \cap rows[s] = {}
    BY <1>1 DEF Backing, Batches
  <2>2. IsFiniteSet(Backing) /\ IsFiniteSet(rows[s]) /\ Cardinality(rows[s]) = b
    BY <1>1, BackingCount DEF IInv, PgInv, PgFinite, Backed, Batches
  <2>3. Cardinality(Backing') = Cardinality(Backing) + Cardinality(rows[s])
                                - Cardinality(Backing \cap rows[s])
    BY <2>1, <2>2, FS_Union
  <2>4. Cardinality(Backing \cap rows[s]) = 0
    BY <2>1, FS_EmptySet
  <2> HIDE DEF b, c
  <2> QED BY <1>2, <2>2, <2>3, <2>4 DEF c
<1>4. BatchOf(Main)' = BatchOf(Main)
  BY <1>1 DEF BatchOf
<1>5. pre' \subseteq ever'
  BY <1>1 DEF Backed
<1>6. CASE s = Main
  <2>1. Known' = Known
    BY <1>1, <1>6, KnownChanges, GeneratorAssumption DEF IInv
  <2>2. totalRows + BatchSize * k <= c /\ BatchSize * k \in Nat
    BY <1>2, GeneratorAssumption DEF Backed
  <2>3. phase \in {"init", "seeding"} => seeded + 0 <= c
    BY <1>1, <1>6 DEF Backed
  <2> HIDE DEF b, c, k
  <2>4. totalRows + BatchSize * k <= c + b
    BY <1>2, <2>2
  <2>5. phase \in {"init", "seeding"} => seeded + b <= c + b
    BY <1>2, <2>3
  <2>6. phase \in {"init", "seeding"} =>
           seeded + (IF pc'[Main] = "count" THEN b ELSE 0) <= c + b
    BY <1>2, <2>3, <2>5
  <2>7. totalRows' + BatchSize * Cardinality(Known') <= Cardinality(Backing')
    BY <1>1, <1>3, <2>1, <2>4 DEF k
  <2>8. phase' \in {"init", "seeding"} =>
           seeded' + (IF pc'[Main] = "count" THEN BatchOf(Main)' ELSE 0) <= Cardinality(Backing')
    BY <1>1, <1>3, <1>4, <1>6, <2>6 DEF b
  <2> QED BY <1>5, <2>7, <2>8 DEF Backed
<1>7. CASE s # Main
  <2>1. s \in Workers \ Known /\ b = BatchSize
    BY <1>1, <1>7, GeneratorAssumption DEF Known, BatchOf
  <2>2. Cardinality(Known') = k + 1
    BY <1>1, <2>1, KnownChanges DEF IInv
  <2>3. totalRows + BatchSize * k <= c
    BY DEF Backed
  <2>4. phase \notin {"init", "seeding"}
    BY <1>1, <2>1 DEF IInv, Control
  <2> HIDE DEF b, c, k
  <2>5. totalRows + BatchSize * (k + 1) <= c + b
    BY <1>2, <2>1, <2>3, BatchArithmetic
  <2>6. totalRows' + BatchSize * Cardinality(Known') <= Cardinality(Backing')
    BY <1>1, <1>3, <2>2, <2>5
  <2> QED BY <1>1, <1>5, <2>4, <2>6 DEF Backed
<1> QED BY <1>6, <1>7

\* performInsert adds the batch, and it is no longer outstanding.
LEMMA AddTotalRowsBacked ==
    ASSUME IInv, Backed, NEW w \in Workers, AddTotalRows(w)
    PROVE  Backed'
<1> DEFINE c == Cardinality(Backing)
           k == Cardinality(Known)
           j == Cardinality(Known')
           r == totalRows'
<1>1. /\ GoTo(w, "record") /\ w \in Known
      /\ r = totalRows + BatchSize
      /\ UNCHANGED <<pre, ever, confirmed, phase>>
  BY DEF AddTotalRows, Known, pgVars, mainVars
<1>2. w \in Sessions /\ phase \notin {"init", "seeding"}
  <2>1. pc[w] # "none"
    BY <1>1 DEF Known
  <2> QED BY <2>1, WorkerInRun DEF IInv
<1>3. j = k - 1
  BY <1>1, <1>2, KnownChanges DEF IInv
<1>4. c \in Nat /\ k \in Nat /\ totalRows \in Nat /\ BatchSize \in Nat
  BY BackingCount, WorkersCount, GeneratorAssumption DEF IInv, GenTypeOK, Backed
<1>5. totalRows + BatchSize * k <= c
  BY DEF Backed
<1>6. Cardinality(Backing') = c
  BY <1>1 DEF Backing
<1> HIDE DEF c, k, j, r
<1>7. (totalRows + BatchSize) + BatchSize * (k - 1) <= c
  BY <1>4, <1>5, BatchArithmetic
<1>8. r + BatchSize * j <= c
  BY <1>1, <1>3, <1>7
<1>9. totalRows' + BatchSize * Cardinality(Known') <= Cardinality(Backing')
  BY <1>6, <1>8 DEF r, j
<1> QED BY <1>1, <1>2, <1>9 DEF Backed

\* Before a worker runs nothing is outstanding.
LEMMA NothingKnown ==
    ASSUME GenTypeOK, Control, phase \in {"init", "seeding"} \/ pc[Main] # "none"
    PROVE  Known = {} /\ BatchSize * Cardinality(Known) = 0
<1>1. Known = {}
  BY DEF Control, Known
<1> QED BY <1>1, FS_EmptySet, GeneratorAssumption

LEMMA InitializeBacked ==
    ASSUME IInv, Untouched, Positive, Backed, Initialize
    PROVE  Backed'
<1> USE GeneratorAssumption DEF IInv
<1> DEFINE c == Cardinality(Backing)
<1>1. c \in Nat /\ pre \subseteq ever /\ seeded \in Nat /\ BatchOf(Main) \in Nat
  BY BackingCount, BatchOfNat DEF GenTypeOK, Backed
<1>2. CASE CountRows
  <2>1. Known' = Known /\ Known = {} /\ UNCHANGED <<pre, ever, confirmed>>
    BY <1>2, KnownChanges, NothingKnown DEF CountRows, pgVars
  <2>2. CASE Table = {}
    <3>1. totalRows' = totalRows /\ phase' = "seeding" /\ seeded' = seeded /\ phase = "init"
      BY <1>2, <2>2 DEF CountRows
    <3>2. pc'[Main] = "loop"
      BY <1>2 DEF CountRows, GoTo, GenTypeOK
    <3> QED BY <2>1, <3>1, <3>2, BackedStands
  <2>3. CASE Table # {}
    <3>1. phase' = "running" /\ totalRows' = Cardinality(Table)
      BY <1>2, <2>3 DEF CountRows
    <3>2. Table \in SUBSET Backing
      BY <1>2, TableInEver DEF CountRows, Untouched, Backing
    <3>3. Cardinality(Table) <= c /\ Cardinality(Table) \in Nat
      BY <1>1, <3>2, BackingCount, FS_Subset, FS_CardinalityType
    <3>4. Backing' = Backing /\ BatchSize * Cardinality(Known') = 0
      BY <1>2, <2>1, NothingKnown DEF Backing, CountRows
    <3> HIDE DEF c
    <3>5. Cardinality(Table) + 0 <= c
      BY <1>1, <3>3
    <3>6. totalRows' + BatchSize * Cardinality(Known') <= Cardinality(Backing')
      BY <3>1, <3>4, <3>5 DEF c
    <3> QED BY <1>1, <2>1, <3>1, <3>6 DEF Backed
  <2> QED BY <2>2, <2>3
<1>3. CASE InitializeFails
  <2>1. Known' = Known /\ UNCHANGED <<pre, ever, confirmed, totalRows>> /\ phase' = "failed"
    BY <1>3 DEF InitializeFails, Known, dbVars, metricsVars
  <2> QED BY <2>1, BackedStands
<1>4. CASE SeedNext
  <2>1. /\ GoTo(Main, "exec") /\ pc'[Main] = "exec"
        /\ UNCHANGED <<pre, ever, confirmed, totalRows, seeded, phase>>
    BY <1>4 DEF SeedNext, StartInsert, GoTo, GenTypeOK, dbVars, mainVars, metricsVars
  <2>2. Known' = Known
    BY <2>1, KnownChanges
  <2> QED BY <2>1, <2>2, BackedStands
<1>5. CASE SeedInserted
  <2>1. /\ pc'[Main] = "loop" /\ GoTo(Main, "loop") /\ pc[Main] = "count"
        /\ seeded' = seeded + BatchOf(Main)
        /\ UNCHANGED <<pre, ever, confirmed, totalRows, phase>>
    BY <1>5 DEF SeedInserted, GoTo, GenTypeOK, pgVars, metricsVars
  <2>2. Known' = Known /\ Backing' = Backing
    BY <2>1, KnownChanges DEF Backing
  <2>3. phase \in {"init", "seeding"} => seeded + BatchOf(Main) <= c
    BY <2>1 DEF Backed
  <2>4. seeded' \in Nat /\ seeded' + 0 = seeded'
    BY <1>1, <2>1
  <2>5. phase' \in {"init", "seeding"} =>
           seeded' + (IF pc'[Main] = "count" THEN BatchOf(Main)' ELSE 0) <= Cardinality(Backing')
    BY <2>1, <2>2, <2>3, <2>4
  <2>6. totalRows' + BatchSize * Cardinality(Known') <= Cardinality(Backing')
    BY <2>1, <2>2 DEF Backed
  <2> QED BY <1>1, <2>1, <2>5, <2>6 DEF Backed
<1>6. CASE SeedFails
  <2>1. GoTo(Main, "none") /\ UNCHANGED <<pre, ever, confirmed, totalRows>> /\ phase' = "failed"
    BY <1>6 DEF SeedFails, pgVars, metricsVars
  <2>2. Known' = Known
    BY <2>1, KnownChanges
  <2> QED BY <2>1, <2>2, BackedStands
<1>7. CASE SeedDone
  <2>1. /\ phase = "seeding" /\ pc[Main] = "loop" /\ seeded >= SeedRows /\ phase' = "running"
        /\ totalRows' = SeedRows /\ UNCHANGED <<pc, pre, ever, confirmed>>
    BY <1>7 DEF SeedDone, pgVars
  <2>2. Known' = Known /\ Backing' = Backing /\ BatchSize * Cardinality(Known) = 0
    BY <2>1, NothingKnown DEF Known, Backing
  <2>3. seeded + 0 <= c
    BY <2>1 DEF Backed
  <2> HIDE DEF c
  <2>4. SeedRows + 0 <= c
    BY <1>1, <2>1, <2>3
  <2>5. totalRows' + BatchSize * Cardinality(Known') <= Cardinality(Backing')
    BY <2>1, <2>2, <2>4 DEF c
  <2> QED BY <1>1, <2>1, <2>5 DEF Backed
<1> QED BY <1>2, <1>3, <1>4, <1>5, <1>6, <1>7 DEF Initialize

LEMMA NextBacked ==
    ASSUME IInv, Untouched, Positive, Batches, Backed, [Next]_vars
    PROVE  Backed'
<1> USE GeneratorAssumption DEF IInv
<1>1. ASSUME NEW s \in Sessions, RowsDone(s) PROVE Backed'
  BY <1>1, RowsDoneBacked
<1>2. ASSUME NEW w \in Workers, AddTotalRows(w) PROVE Backed'
  BY <1>2, AddTotalRowsBacked
<1>3. CASE Server
  <2>1. UNCHANGED <<phase, seeded, pc, pre, confirmed, totalRows>>
    BY <1>3 DEF Server, genVars, mainVars, metricsVars, Execute, Commit, Abort,
                CancelHonoured, LoseConnection, OrphanCommits, OrphanAborts, Failover
  <2>2. ever \subseteq ever'
    BY <1>3 DEF Server, Execute, Commit, Abort, CancelHonoured, LoseConnection,
                OrphanCommits, OrphanAborts, Failover
  <2> QED BY <2>1, <2>2, BackedStands DEF Known
<1>4. ASSUME NEW s \in Sessions, BatchInsert(s), ~RowsDone(s) PROVE Backed'
  <2>1. /\ UNCHANGED <<phase, seeded, ever, pre, confirmed, totalRows>>
        /\ pc[s] \in {"exec", "rows"}
    BY <1>4 DEF BatchInsert, QueryOk, Retry, InsertFails, Fails, NextRow, pgVars, dbVars,
                mainVars, metricsVars
  <2>2. UNCHANGED pc \/ \E l \in {"rows", "error"} : GoTo(s, l)
    BY <1>4 DEF BatchInsert, QueryOk, Retry, InsertFails, NextRow
  <2>3. CASE UNCHANGED pc
    BY <2>1, <2>3, BackedStands DEF Known
  <2>4. ASSUME NEW l \in {"rows", "error"}, GoTo(s, l) PROVE Backed'
    <3>1. s \notin Known
      BY <2>1 DEF Known
    <3>2. Known' = Known
      BY <2>4, <3>1, KnownChanges
    <3>3. pc'[Main] = "count" => pc[Main] = "count"
      BY <2>4 DEF GoTo, GenTypeOK
    <3> QED BY <2>1, <3>2, <3>3, BackedStands
  <2> QED BY <2>2, <2>3, <2>4
<1>5. ASSUME NEW w \in Workers, Worker(w), ~AddTotalRows(w) PROVE Backed'
  <2>1. /\ UNCHANGED <<phase, seeded, ever, pre, confirmed, totalRows>>
        /\ pc[w] \notin {"count", "none"}
    BY <1>5 DEF Worker, BeginRead, BeginInsert, BeginUpdate, Begin, StartInsert,
                WorkerExits, ReadOk, UpdateOk, ReadOrUpdateFails, RecordInsert,
                RecordError, Recorded, pgVars, dbVars, mainVars, metricsVars
  <2>2. \E l \in {"loop", "exec", "read", "update", "exited", "error"} : GoTo(w, l)
    BY <1>5 DEF Worker, BeginRead, BeginInsert, BeginUpdate, StartInsert, WorkerExits,
                ReadOk, UpdateOk, ReadOrUpdateFails, RecordInsert, RecordError, Recorded
  <2>3. PICK l : GoTo(w, l) /\ l # "count"
    BY <2>2
  <2>4. Known' = Known
    BY <2>1, <2>3, KnownChanges DEF Known
  <2>5. phase \notin {"init", "seeding"}
    BY <2>1, WorkerInRun
  <2> QED BY <2>1, <2>4, <2>5, BackedStands
<1>6. CASE Start
  <2>1. Known = {} /\ Known' = {}
    BY <1>6, NothingKnown DEF Start, Known
  <2>2. UNCHANGED <<phase, ever, pre, confirmed, totalRows>> /\ phase = "running"
    BY <1>6 DEF Start, pgVars, metricsVars
  <2> QED BY <2>1, <2>2, BackedStands
<1>7. CASE ContextExpires \/ Stop \/ WaitDone \/ UNCHANGED vars
  <2>1. UNCHANGED <<seeded, pc, ever, pre, confirmed, totalRows>>
    BY <1>7 DEF ContextExpires, Stop, WaitDone, vars, genVars, mainVars, pgVars,
                metricsVars
  <2>2. phase' \in {"init", "seeding"} => phase \in {"init", "seeding"}
    BY <1>7 DEF ContextExpires, Stop, WaitDone, vars, genVars, mainVars
  <2> QED BY <2>1, <2>2, BackedStands DEF Known
<1> QED BY <1>1, <1>2, <1>3, <1>4, <1>5, <1>6, <1>7, InitializeBacked DEF Next

\* The invariant of the counts: statements, batches and what is counted of them.
CountInv == Engaged /\ Untouched /\ Positive /\ Batches /\ Backed

LEMMA InitCountInv == Init => CountInv
<1> SUFFICES ASSUME Init PROVE CountInv
  OBVIOUS
<1>1. /\ \A s \in Sessions : xact[s] = "idle" /\ pc[s] = "none"
      /\ phase = "init" /\ orphans = {} /\ ever = pre /\ confirmed = {}
      /\ seeded = 0 /\ totalRows = 0
  BY DEF Init, PgInit
<1>2. Engaged /\ Untouched /\ Positive /\ Batches
  BY <1>1, GeneratorAssumption DEF Engaged, Untouched, Positive, Batches
<1>3. Known = {}
  BY <1>1, GeneratorAssumption DEF Known
<1>4. Cardinality(Known) = 0 /\ BatchSize * Cardinality(Known) = 0
  BY <1>3, FS_EmptySet, GeneratorAssumption
<1>5. Cardinality(Backing) \in Nat
  BY <1>1, InitIInv, BackingCount DEF IInv
<1>6. Backed
  BY <1>1, <1>4, <1>5, GeneratorAssumption DEF Backed
<1> QED BY <1>2, <1>6 DEF CountInv

\* Every statement creates a batch of its own, and every count is covered by rows.
THEOREM CountInvariance == Spec => [](IInv /\ LInv /\ CountInv)
<1> DEFINE I == IInv /\ LInv
<1>1. I /\ CountInv /\ [Next]_vars => CountInv'
  <2> SUFFICES ASSUME I, CountInv, [Next]_vars PROVE CountInv'
    OBVIOUS
  <2>1. Engaged' /\ Untouched' /\ Positive'
    BY NextKeepsEngaged, NextKeepsUntouched, NextKeepsPositive DEF IInv, CountInv
  <2>2. Batches'
    BY NextKeepsBatches DEF Backed, CountInv
  <2>3. Backed'
    BY NextBacked DEF CountInv
  <2> QED BY <2>1, <2>2, <2>3 DEF CountInv
<1>2. Spec => []I
  BY LedgerInvariance
<1> QED BY <1>1, <1>2, InitCountInv, PTL DEF Spec

\* totalRows, from which reads and updates draw their ids, never exceeds the rows
\* that were committed, and no worker ever runs with none.
THEOREM RowsBacked == Spec => []TotalRowsBacked
<1>1. IInv /\ LInv /\ CountInv => TotalRowsBacked
  <2> SUFFICES ASSUME IInv, LInv, CountInv PROVE TotalRowsBacked
    OBVIOUS
  <2> DEFINE c == Cardinality(Backing)
             e == Cardinality(ever)
             k == BatchSize * Cardinality(Known)
  <2>1. c \in Nat /\ e \in Nat /\ c <= e /\ totalRows \in Nat
    BY BackingCount DEF IInv, GenTypeOK, Backed, CountInv
  <2>2. k \in Nat
    BY WorkersCount, GeneratorAssumption
  <2>3. totalRows + k <= c
    BY DEF Backed, CountInv
  <2> HIDE DEF c, e, k
  <2>4. totalRows <= e
    BY <2>1, <2>2, <2>3
  <2> QED BY <2>4 DEF e, TotalRowsBacked, Positive, CountInv
<1> QED BY <1>1, CountInvariance, PTL

-----------------------------------------------------------------------------
(* Successes and the ledger.                                                *)

\* The workers whose batch has succeeded and is not yet counted as an insert.
Crediting == {w \in Workers : pc[w] \in {"count", "record"}}

\* The seeding batch that has succeeded and is not yet in seeded.
SeedCredit == IF pc[Main] = "count" THEN BatchOf(Main) ELSE 0

Credit == seeded + SeedCredit + BatchSize * (total["inserts"] + Cardinality(Crediting))

\* What is counted as inserted, or is about to be, are confirmed rows.
Credited == Credit <= Cardinality(confirmed)

LEMMA CreditingCount ==
    /\ IsFiniteSet(Crediting) /\ Cardinality(Crediting) \in Nat
    /\ IsFiniteSet(Crediting') /\ Cardinality(Crediting') \in Nat
<1>1. IsFiniteSet(Workers) /\ Crediting \in SUBSET Workers /\ Crediting' \in SUBSET Workers
  BY GeneratorAssumption DEF Crediting
<1> QED BY <1>1, FS_Subset, FS_CardinalityType

LEMMA ConfirmedCount ==
    ASSUME IInv
    PROVE  IsFiniteSet(confirmed) /\ Cardinality(confirmed) \in Nat
<1>1. IsFiniteSet(ever) /\ confirmed \in SUBSET ever
  BY DEF IInv, PgInv, PgFinite, ConfirmedWereCommitted
<1> QED BY <1>1, FS_Subset, FS_CardinalityType

LEMMA CreditNumbers ==
    ASSUME GenTypeOK, Control
    PROVE  /\ seeded \in Nat /\ SeedCredit \in Nat /\ BatchOf(Main) \in Nat
           /\ BatchSize \in Nat /\ total["inserts"] \in Nat /\ Cardinality(Crediting) \in Nat
<1>1. BatchOf(Main) \in Nat
  BY BatchOfNat, GeneratorAssumption
<1>2. SeedCredit \in Nat
  BY <1>1 DEF SeedCredit
<1>3. seeded \in Nat /\ total["inserts"] \in Nat
  BY DEF GenTypeOK, Kind
<1> QED BY <1>1, <1>2, <1>3, CreditingCount, GeneratorAssumption

\* Nothing is confirmed, and no batch that was is counted.
LEMMA CreditedStands ==
    ASSUME GenTypeOK, Credited, UNCHANGED <<seeded, confirmed>>,
           total'["inserts"] = total["inserts"],
           pc'[Main] = "count" <=> pc[Main] = "count", Crediting' = Crediting
    PROVE  Credited'
BY DEF Credited, Credit, SeedCredit, BatchOf

\* A goroutine that comes from elsewhere and goes elsewhere.
LEMMA CreditingStands ==
    ASSUME GenTypeOK, NEW s \in Sessions, NEW l, GoTo(s, l),
           pc[s] \notin {"count", "record"} <=> l \notin {"count", "record"}
    PROVE  Crediting' = Crediting
<1>1. pc'[s] = l /\ \A x \in Sessions : x # s => pc'[x] = pc[x]
  BY DEF GenTypeOK, GoTo
<1> QED BY <1>1, GeneratorAssumption DEF Crediting

\* The rows of a batch that succeeds were not confirmed before, and there are as many
\* as are counted for it.
LEMMA RowsDoneCredited ==
    ASSUME IInv, Batches, Credited, NEW s \in Sessions, RowsDone(s)
    PROVE  Credited'
<1> USE GeneratorAssumption DEF IInv
<1> DEFINE b == BatchOf(s)
           c == Cardinality(confirmed)
           d == Cardinality(confirmed')
           k == Cardinality(Crediting)
           n == total["inserts"]
           g == SeedCredit
<1>1. /\ GoTo(s, "count") /\ pc[s] = "rows" /\ pc'[s] = "count"
      /\ \A x \in Sessions : x # s => pc'[x] = pc[x]
      /\ confirmed' = confirmed \cup rows[s]
      /\ xact[s] = "committed"
      /\ UNCHANGED <<seeded, total>>
  BY DEF RowsDone, dbVars, mainVars, GoTo, GenTypeOK
<1>2. /\ b \in Nat /\ c \in Nat /\ k \in Nat /\ n \in Nat /\ g \in Nat
      /\ seeded \in Nat /\ BatchSize \in Nat
  BY BatchOfNat, ConfirmedCount, CreditNumbers
<1>3. d = c + b
  <2>1. confirmed \cap rows[s] = {} /\ Cardinality(rows[s]) = b /\ IsFiniteSet(rows[s])
    BY <1>1 DEF Batches, Backing, PgInv, PgFinite
  <2>2. d = c + Cardinality(rows[s]) - Cardinality(confirmed \cap rows[s])
    BY <1>1, <2>1, ConfirmedCount, FS_Union
  <2>3. Cardinality(confirmed \cap rows[s]) = 0
    BY <2>1, FS_EmptySet
  <2> HIDE DEF b, c, d
  <2> QED BY <1>2, <2>1, <2>2, <2>3
<1>4. seeded + g + BatchSize * (n + k) <= c
  BY DEF Credited, Credit
<1>5. CASE s = Main
  <2>1. Crediting' = Crediting /\ SeedCredit' = b /\ g = 0
    BY <1>1, <1>5 DEF Crediting, SeedCredit, BatchOf
  <2>2. Credit' = seeded + b + BatchSize * (n + k)
    BY <1>1, <2>1 DEF Credit
  <2>3. BatchSize * (n + k) \in Nat
    BY <1>2
  <2> HIDE DEF b, c, d, k, n, g
  <2>4. seeded + b + BatchSize * (n + k) <= d
    BY <1>2, <1>3, <1>4, <2>1, <2>3
  <2> QED BY <2>2, <2>4 DEF Credited, d
<1>6. CASE s # Main
  <2>1. s \in Workers \ Crediting /\ b = BatchSize
    BY <1>1, <1>6 DEF Crediting, BatchOf
  <2>2. Crediting' = Crediting \cup {s} /\ SeedCredit' = g
    BY <1>1, <1>6, <2>1 DEF Crediting, SeedCredit, BatchOf
  <2>3. Cardinality(Crediting') = k + 1
    BY <2>1, <2>2, CreditingCount, FS_AddElement
  <2>4. Credit' = seeded + g + BatchSize * (n + (k + 1))
    BY <1>1, <2>2, <2>3 DEF Credit
  <2> HIDE DEF b, c, d, k, n, g
  <2>5. n + (k + 1) = (n + k) + 1 /\ n + k \in Nat /\ seeded + g \in Nat
    BY <1>2
  <2>6. (seeded + g) + BatchSize * ((n + k) + 1) <= c + BatchSize
    BY <1>2, <1>4, <2>5, BatchArithmetic
  <2> QED BY <1>3, <2>1, <2>4, <2>5, <2>6 DEF Credited, d
<1> QED BY <1>5, <1>6

\* RecordInsert counts a batch of those that are to be counted.
LEMMA RecordInsertCredited ==
    ASSUME GenTypeOK, Control, Credited, NEW w \in Workers, RecordInsert(w)
    PROVE  Credited'
<1> USE GeneratorAssumption
<1> DEFINE k == Cardinality(Crediting)
           j == Cardinality(Crediting')
           n == total["inserts"]
<1>1. /\ pc[w] = "record" /\ pc'[w] = "loop" /\ w \in Sessions /\ w # Main
      /\ \A x \in Sessions : x # w => pc'[x] = pc[x]
      /\ total'["inserts"] = n + 1
      /\ UNCHANGED <<seeded, confirmed>>
  BY DEF RecordInsert, Recorded, CountOne, GoTo, mainVars, GenTypeOK, Kind
<1>2. Crediting' = Crediting \ {w} /\ w \in Crediting /\ SeedCredit' = SeedCredit
  BY <1>1 DEF Crediting, SeedCredit, BatchOf
<1>3. j = k - 1
  BY <1>2, CreditingCount, FS_RemoveElement
<1>4. k \in Nat /\ n \in Nat
  BY CreditNumbers
<1> HIDE DEF k, j, n
<1>5. (n + 1) + j = n + k
  BY <1>3, <1>4
<1>6. total'["inserts"] + Cardinality(Crediting') = total["inserts"] + Cardinality(Crediting)
  BY <1>1, <1>5 DEF k, j, n
<1>7. Credit' = Credit
  BY <1>1, <1>2, <1>6 DEF Credit
<1> QED BY <1>1, <1>7 DEF Credited

\* seedInitialData adds the batch to its loop variable.
LEMMA SeedInsertedCredited ==
    ASSUME GenTypeOK, Control, Credited, SeedInserted
    PROVE  Credited'
<1> USE GeneratorAssumption
<1>1. /\ pc[Main] = "count" /\ pc'[Main] = "loop"
      /\ \A x \in Sessions : x # Main => pc'[x] = pc[x]
      /\ seeded' = seeded + BatchOf(Main)
      /\ UNCHANGED <<total, confirmed>>
  BY DEF SeedInserted, GoTo, metricsVars, GenTypeOK
<1>2. Crediting' = Crediting /\ SeedCredit = BatchOf(Main) /\ SeedCredit' = 0
  BY <1>1 DEF Crediting, SeedCredit
<1>3. seeded \in Nat /\ BatchOf(Main) \in Nat
  BY CreditNumbers
<1>4. seeded' + SeedCredit' = seeded + SeedCredit
  BY <1>1, <1>2, <1>3
<1>5. Credit' = Credit
  BY <1>1, <1>2, <1>4 DEF Credit
<1> QED BY <1>1, <1>5 DEF Credited

LEMMA InitializeCredited ==
    ASSUME GenTypeOK, Control, Engaged, Credited, Initialize
    PROVE  Credited'
<1> USE GeneratorAssumption
<1>1. CASE SeedInserted
  BY <1>1, SeedInsertedCredited
<1>2. CASE CountRows
  <2>1. UNCHANGED <<seeded, confirmed, total>> /\ GoTo(Main, "loop")
    BY <1>2 DEF CountRows
  <2>2. pc'[Main] = "loop" /\ \A x \in Sessions : x # Main => pc'[x] = pc[x]
    BY <2>1 DEF GoTo, GenTypeOK
  <2>3. pc[Main] # "count"
    BY <1>2 DEF CountRows, Engaged
  <2> QED BY <2>1, <2>2, <2>3, CreditedStands DEF Crediting
<1>3. CASE SeedNext
  <2>1. /\ UNCHANGED <<seeded, confirmed, total>> /\ GoTo(Main, "exec") /\ pc[Main] = "loop"
    BY <1>3 DEF SeedNext, StartInsert, mainVars, metricsVars
  <2>2. pc'[Main] = "exec" /\ \A x \in Sessions : x # Main => pc'[x] = pc[x]
    BY <2>1 DEF GoTo, GenTypeOK
  <2> QED BY <2>1, <2>2, CreditedStands DEF Crediting
<1>4. CASE SeedFails
  <2>1. /\ UNCHANGED <<seeded, confirmed, total>> /\ GoTo(Main, "none") /\ pc[Main] = "error"
    BY <1>4 DEF SeedFails, metricsVars
  <2>2. pc'[Main] = "none" /\ \A x \in Sessions : x # Main => pc'[x] = pc[x]
    BY <2>1 DEF GoTo, GenTypeOK
  <2> QED BY <2>1, <2>2, CreditedStands DEF Crediting
<1>5. CASE InitializeFails \/ SeedDone
  <2>1. UNCHANGED <<seeded, confirmed, total, pc>>
    BY <1>5 DEF InitializeFails, SeedDone, metricsVars
  <2> QED BY <2>1, CreditedStands DEF Crediting
<1> QED BY <1>1, <1>2, <1>3, <1>4, <1>5 DEF Initialize

LEMMA NextCredited ==
    ASSUME IInv, Engaged, Batches, Credited, [Next]_vars
    PROVE  Credited'
<1> USE GeneratorAssumption DEF IInv
<1>1. CASE Initialize
  BY <1>1, InitializeCredited
<1>2. ASSUME NEW s \in Sessions, BatchInsert(s), ~RowsDone(s) PROVE Credited'
  <2>1. UNCHANGED <<seeded, confirmed, total>> /\ pc[s] \in {"exec", "rows"}
    BY <1>2 DEF BatchInsert, QueryOk, Retry, InsertFails, Fails, NextRow, mainVars,
                metricsVars
  <2>2. UNCHANGED pc \/ \E l \in {"rows", "error"} : GoTo(s, l)
    BY <1>2 DEF BatchInsert, QueryOk, Retry, InsertFails, NextRow
  <2>3. CASE UNCHANGED pc
    BY <2>1, <2>3, CreditedStands DEF Crediting
  <2>4. ASSUME NEW l \in {"rows", "error"}, GoTo(s, l) PROVE Credited'
    <3>1. Crediting' = Crediting
      BY <2>1, <2>4, CreditingStands
    <3>2. pc'[Main] = "count" <=> pc[Main] = "count"
      BY <2>1, <2>4 DEF GoTo, GenTypeOK
    <3> QED BY <2>1, <3>1, <3>2, CreditedStands
  <2> QED BY <2>2, <2>3, <2>4
<1>3. ASSUME NEW w \in Workers, AddTotalRows(w) PROVE Credited'
  <2>1. UNCHANGED <<seeded, confirmed, total>> /\ GoTo(w, "record") /\ pc[w] = "count"
    BY <1>3 DEF AddTotalRows, mainVars
  <2>2. Crediting' = Crediting
    BY <2>1, CreditingStands
  <2>3. pc'[Main] = pc[Main]
    BY <2>1 DEF GoTo, GenTypeOK
  <2> QED BY <2>1, <2>2, <2>3, CreditedStands
<1>4. ASSUME NEW w \in Workers, Worker(w), ~AddTotalRows(w), ~RecordInsert(w) PROVE Credited'
  <2>1. UNCHANGED <<seeded, confirmed>> /\ pc[w] \notin {"count", "record"}
    BY <1>4 DEF Worker, BeginRead, BeginInsert, BeginUpdate, Begin, StartInsert,
                WorkerExits, ReadOk, UpdateOk, ReadOrUpdateFails, RecordError, Recorded,
                mainVars, metricsVars
  <2>2. \E l \in {"loop", "exec", "read", "update", "exited", "error"} : GoTo(w, l)
    BY <1>4 DEF Worker, BeginRead, BeginInsert, BeginUpdate, StartInsert, WorkerExits,
                ReadOk, UpdateOk, ReadOrUpdateFails, RecordError, Recorded
  <2>3. UNCHANGED total \/ \E k \in {"reads", "updates", "errors"} : CountOne(k)
    BY <1>4 DEF Worker, BeginRead, BeginInsert, BeginUpdate, Begin, WorkerExits, ReadOk,
                UpdateOk, ReadOrUpdateFails, RecordError, Recorded, metricsVars
  <2>4. total'["inserts"] = total["inserts"]
    BY <2>3 DEF CountOne, GenTypeOK, Kind
  <2>5. PICK l : GoTo(w, l) /\ l \notin {"count", "record"}
    BY <2>2
  <2>6. Crediting' = Crediting
    BY <2>1, <2>5, CreditingStands
  <2>7. pc'[Main] = pc[Main]
    BY <2>5 DEF GoTo, GenTypeOK
  <2> QED BY <2>1, <2>4, <2>6, <2>7, CreditedStands
<1>5. CASE Start
  <2>1. UNCHANGED <<seeded, confirmed, total>> /\ pc[Main] = "loop"
    BY <1>5 DEF Start, metricsVars
  <2>2. \A w \in Workers : pc[w] = "none" /\ pc'[w] = "loop"
    BY <1>5, <2>1 DEF Start, Control
  <2>3. pc'[Main] = "none"
    BY <1>5 DEF Start
  <2> QED BY <2>1, <2>2, <2>3, CreditedStands DEF Crediting
<1>6. CASE Server \/ ContextExpires \/ Stop \/ WaitDone \/ UNCHANGED vars
  <2>1. UNCHANGED <<seeded, confirmed, total, pc>>
    BY <1>6 DEF Server, CancelHonoured, ContextExpires, Stop, WaitDone, vars, genVars,
                mainVars, metricsVars
  <2> QED BY <2>1, CreditedStands DEF Crediting
<1> QED BY <1>1, <1>2, <1>3, <1>4, <1>5, <1>6, RowsDoneCredited, RecordInsertCredited DEF
   Next

LEMMA NothingCredited ==
    ASSUME seeded = 0, total["inserts"] = 0, confirmed = {},
           \A s \in Sessions : pc[s] = "none"
    PROVE  Credited
<1>1. Crediting = {} /\ SeedCredit = 0
  BY GeneratorAssumption DEF Crediting, SeedCredit
<1>2. Cardinality(Crediting) = 0 /\ Cardinality(confirmed) = 0
  BY <1>1, FS_EmptySet
<1> QED BY <1>1, <1>2, GeneratorAssumption DEF Credited, Credit

\* One id stands for one row of each timeline at most.
LEMMA RowsPerId ==
    ASSUME GenTypeOK, RowsInTime, LedgerCounts
    PROVE  /\ Cardinality(received) \in Nat
           /\ Cardinality(received) <= tl * Cardinality(insertedIDs)
<1> DEFINE T == insertedIDs \X (1..tl)
           f == [r \in received |-> <<r.id, r.tl>>]
<1>1. IsFiniteSet(received) /\ IsFiniteSet(insertedIDs) /\ tl \in Nat \ {0}
  BY DEF LedgerCounts, RowsInTime
<1>2. IsFiniteSet(1..tl) /\ Cardinality(1..tl) = tl
  BY <1>1, FS_Interval
<1>3. IsFiniteSet(T) /\ Cardinality(T) = Cardinality(insertedIDs) * tl
  BY <1>1, <1>2, FS_Product
<1>4. \A r \in received : r \in Row /\ r.id \in insertedIDs /\ r.tl \in 1..tl
  BY DEF GenTypeOK, LedgerCounts, Ids, RowsInTime, Seen
<1>5. f \in [received -> T]
  BY <1>4
<1>6. \A q, r \in received : f[q] = f[r] => q = r
  BY <1>4 DEF Row
<1>7. f \in Injection(received, T)
  BY <1>5, <1>6 DEF Injection, IsInjective
<1> HIDE DEF f, T
<1>8. Cardinality(received) <= Cardinality(T)
  BY <1>3, <1>7, FS_Injection
<1>9. Cardinality(received) \in Nat /\ Cardinality(insertedIDs) \in Nat
  BY <1>1, FS_CardinalityType
<1> QED BY <1>1, <1>3, <1>8, <1>9

\* What is counted as inserted was confirmed, what was confirmed is tracked, and what is
\* tracked has its id in the map.
LEMMA CreditedTracked ==
    ASSUME IInv, LInv, Credited
    PROVE  SuccessesTracked
<1> USE DEF IInv, LInv
<1> DEFINE c == Cardinality(confirmed)
           r == Cardinality(received)
           i == tl * Cardinality(insertedIDs)
           k == Cardinality(Crediting)
           n == total["inserts"]
           g == SeedCredit
<1>1. /\ seeded \in Nat /\ g \in Nat /\ n \in Nat /\ k \in Nat /\ BatchSize \in Nat
      /\ c \in Nat
  BY CreditNumbers, ConfirmedCount
<1>2. seeded + g + BatchSize * (n + k) <= c
  BY DEF Credited, Credit
<1>3. c <= r
  BY FS_Subset DEF ConfirmedWereCommitted, LedgerCounts
<1>4. r \in Nat /\ r <= i /\ i \in Nat
  <2>1. tl \in Nat /\ Cardinality(insertedIDs) \in Nat
    BY FS_CardinalityType DEF RowsInTime, LedgerCounts
  <2> QED BY <2>1, RowsPerId
<1> HIDE DEF c, r, i, k, n, g
<1>5. BatchSize * (n + k) = BatchSize * n + BatchSize * k
  BY <1>1
<1>6. BatchSize * n \in Nat /\ BatchSize * k \in Nat
  BY <1>1
<1>7. seeded + BatchSize * n <= c
  BY <1>1, <1>2, <1>5, <1>6
<1>8. seeded + BatchSize * n <= i
  BY <1>1, <1>3, <1>4, <1>6, <1>7
<1> QED BY <1>8 DEF SuccessesTracked, i, n

\* Every success the report counts is in the ledger its loss is computed from: the rows
\* that were seeded, and those of the batches RecordInsert has counted, are all tracked.
THEOREM SuccessesAccounted == Spec => []SuccessesTracked
<1>1. Init => Credited
  BY NothingCredited DEF Init, Kind
<1>2. IInv /\ LInv /\ CountInv /\ Credited /\ [Next]_vars => Credited'
  BY NextCredited DEF CountInv
<1>3. IInv /\ LInv /\ Credited => SuccessesTracked
  BY CreditedTracked
<1> QED BY <1>1, <1>2, <1>3, CountInvariance, PTL DEF Spec

-----------------------------------------------------------------------------
(* PART 5.  A run that nothing disturbs: its ledger is exact.                *)

\* The rows of sessions, of the table and of the ledger.
rowVars == <<log, seq, tl, xact, rows, unread, orphans, pre, ever, received, confirmed>>

\* Whatever happens is a step of the server, a step of batchInsert, the beginning of a
\* batch, or touches no row.
LEMMA StepKinds ==
    ASSUME [Next]_vars
    PROVE  \/ Server
           \/ \E s \in Sessions : BatchInsert(s)
           \/ \E s \in Sessions : /\ pc[s] = "loop" /\ StartInsert(s)
                                  /\ UNCHANGED <<received, confirmed>>
           \/ UNCHANGED rowVars
<1> USE GeneratorAssumption DEF rowVars, metricsVars, trackingVars
<1>1. CASE Initialize
  BY <1>1 DEF Initialize, CountRows, InitializeFails, SeedNext, SeedInserted, SeedFails,
              SeedDone, pgVars, dbVars
<1>2. ASSUME NEW w \in Workers, Worker(w)
      PROVE  \/ UNCHANGED rowVars
             \/ /\ pc[w] = "loop" /\ StartInsert(w) /\ UNCHANGED <<received, confirmed>>
  <2>1. CASE BeginInsert(w)
    BY <2>1 DEF BeginInsert, Begin
  <2>2. CASE ~BeginInsert(w)
    BY <1>2, <2>2 DEF Worker, BeginRead, BeginUpdate, Begin, WorkerExits, ReadOk,
                      UpdateOk, ReadOrUpdateFails, AddTotalRows, RecordInsert,
                      RecordError, Recorded, pgVars, dbVars
  <2> QED BY <2>1, <2>2
<1>3. CASE Start \/ ContextExpires \/ Stop \/ WaitDone \/ UNCHANGED vars
  BY <1>3 DEF Start, ContextExpires, Stop, WaitDone, vars, genVars, pgVars
<1> QED BY <1>1, <1>2, <1>3 DEF Next

\* Faults are counted, and a context that has expired stays so.
LEMMA FaultsGrow ==
    ASSUME PgTypeOK, GenTypeOK, [Next]_vars
    PROVE  faults' \in Nat /\ faults <= faults' /\ (ctxDone => ctxDone')
<1> USE DEF PgTypeOK, GenTypeOK
<1>1. CASE Server
  BY <1>1 DEF Server, genVars, mainVars, Execute, Commit, Abort, CancelHonoured,
              LoseConnection, OrphanCommits, OrphanAborts, Failover, Fault
<1>2. CASE Initialize
  BY <1>2 DEF Initialize, CountRows, InitializeFails, Fault, SeedNext, StartInsert,
              SeedInserted, SeedFails, SeedDone, pgVars, mainVars
<1>3. ASSUME NEW s \in Sessions, BatchInsert(s) PROVE UNCHANGED <<faults, ctxDone>>
  BY <1>3 DEF BatchInsert, QueryOk, Retry, InsertFails, NextRow, RowsDone, pgVars,
              mainVars
<1>4. ASSUME NEW w \in Workers, Worker(w)
      PROVE  (faults' = faults \/ faults' = faults + 1) /\ ctxDone' = ctxDone
  BY <1>4 DEF Worker, BeginRead, BeginInsert, BeginUpdate, Begin, StartInsert,
              WorkerExits, ReadOk, UpdateOk, ReadOrUpdateFails, Fault, AddTotalRows,
              RecordInsert, RecordError, Recorded, pgVars, mainVars
<1>5. CASE Start \/ ContextExpires \/ Stop \/ WaitDone \/ UNCHANGED vars
  BY <1>5 DEF Start, ContextExpires, Stop, WaitDone, vars, genVars, mainVars, pgVars
<1> QED BY <1>1, <1>2, <1>3, <1>4, <1>5 DEF Next

\* A goroutine that runs no statement has no answer to read.
NothingUnread == \A s \in Sessions : xact[s] = "idle" => unread[s] = {}

LEMMA NextKeepsNothingUnread ==
    ASSUME PgInv, NothingUnread, [Next]_vars
    PROVE  NothingUnread'
<1> USE DEF PgInv, PgTypeOK, NothingUnread
<1>1. CASE Server
  <2>1. ASSUME NEW s \in Sessions, xact'[s] = "idle" PROVE xact[s] = "idle"
    BY <1>1, <2>1 DEF Server, Execute, Commit, Abort, CancelHonoured, LoseConnection,
                      OrphanCommits, OrphanAborts, Failover
  <2>2. ASSUME NEW s \in Sessions, xact[s] = "idle" PROVE unread'[s] \subseteq unread[s]
    BY <1>1, <2>2, ReadableUnread
       DEF Server, Execute, Commit, Abort, CancelHonoured, LoseConnection, Live,
           OrphanCommits, OrphanAborts, Failover
  <2> QED BY <2>1, <2>2
<1>2. ASSUME NEW s \in Sessions, BatchInsert(s) PROVE NothingUnread'
  BY <1>2 DEF BatchInsert, QueryOk, Retry, Send, InsertFails, Leave, NextRow, RowsDone,
              pgVars
<1>3. ASSUME NEW s \in Sessions, StartInsert(s) PROVE NothingUnread'
  BY <1>3 DEF StartInsert, Send
<1>4. CASE UNCHANGED rowVars
  BY <1>4 DEF rowVars
<1> QED BY <1>1, <1>2, <1>3, <1>4, StepKinds

\* No statement has failed, what the client was given belongs to a batch that is
\* confirmed or still on its way there, and the table has what was answered.
Undisturbed ==
    /\ \A s \in Sessions : xact[s] \in {"idle", "sent", "open", "committed"}
    /\ \A r \in received \cup ComingRows :
          \/ r \in confirmed
          \/ \E s \in Sessions : xact[s] \in {"open", "committed"} /\ r \in rows[s]
    /\ confirmed \subseteq Table
    /\ \A s \in Sessions : xact[s] = "committed" => rows[s] \subseteq Table

\* Nobody else inserts, and the table loses nothing.
Alone ==
    /\ orphans = {}
    /\ Table = ever
    /\ \A r \in ever \ pre :
          \/ r \in confirmed
          \/ \E s \in Sessions : xact[s] = "committed" /\ r \in rows[s]

\* Steps that neither count a fault nor end the context, where no statement failed.
LEMMA SmoothSteps ==
    ASSUME PgInv, Undisturbed, faults' = faults, ~ctxDone', [Next]_vars
    PROVE  \/ \E s \in Sessions : (\/ Execute(s, BatchOf(s))
                                   \/ Commit(s)) /\ UNCHANGED genVars
           \/ (OrphanCommits \/ OrphanAborts) /\ UNCHANGED genVars
           \/ \E s \in Sessions : NextRow(s) \/ RowsDone(s)
           \/ \E s \in Sessions : /\ pc[s] = "loop" /\ StartInsert(s)
                                  /\ UNCHANGED <<received, confirmed>>
           \/ UNCHANGED rowVars
<1>1. ~Fault
  BY DEF Fault, PgInv, PgTypeOK
<1>2. ASSUME NEW s \in Sessions
      PROVE  ~(Fault /\ Abort(s)) /\ ~LoseConnection(s) /\ ~CancelHonoured(s)
  BY <1>1 DEF LoseConnection, CancelHonoured, genVars, mainVars
<1>3. ~Failover
  BY <1>1 DEF Failover
<1>4. ASSUME NEW s \in Sessions PROVE ~Retry(s) /\ ~InsertFails(s)
  BY DEF Undisturbed, Retry, InsertFails, Fails, mainVars
<1>5. ASSUME NEW s \in Sessions, QueryOk(s) PROVE UNCHANGED rowVars
  BY <1>5 DEF QueryOk, pgVars, metricsVars, trackingVars, rowVars
<1>6. CASE Server
  BY <1>2, <1>3, <1>6 DEF Server
<1>7. CASE \E s \in Sessions : BatchInsert(s)
  BY <1>4, <1>5, <1>7 DEF BatchInsert
<1> QED BY <1>6, <1>7, StepKinds

\* What the session in question, and every other one, has after such a step.
LEMMA SessionChanges ==
    ASSUME PgInv, NEW s \in Sessions
    PROVE  /\ \A n : Execute(s, n) =>
                 /\ xact[s] = "sent" /\ xact'[s] = "open"
                 /\ rows'[s] = unread'[s]
                 /\ UNCHANGED <<log, orphans, pre, ever>>
           /\ Commit(s) =>
                 /\ xact[s] = "open" /\ xact'[s] = "committed"
                 /\ rows'[s] = rows[s] /\ unread'[s] = unread[s]
                 /\ UNCHANGED <<orphans, pre>>
           /\ StartInsert(s) =>
                 /\ xact'[s] = "sent" /\ unread'[s] = {}
                 /\ UNCHANGED <<log, orphans, pre, ever>>
           /\ RowsDone(s) =>
                 /\ xact[s] = "committed" /\ xact'[s] = "idle" /\ unread'[s] = {}
                 /\ confirmed' = confirmed \cup rows[s]
                 /\ UNCHANGED <<log, orphans, pre, ever, received>>
           /\ NextRow(s) =>
                 /\ UNCHANGED <<xact, rows, log, orphans, pre, ever, confirmed>>
                 /\ \E r \in unread[s] : /\ received' = received \cup {r}
                                         /\ unread'[s] = unread[s] \ {r}
           /\ (\/ (\E n : Execute(s, n)) \/ Commit(s) \/ StartInsert(s) \/ RowsDone(s)
               \/ NextRow(s)) =>
                 \A x \in Sessions : x # s => /\ xact'[x] = xact[x] /\ rows'[x] = rows[x]
                                              /\ unread'[x] = unread[x]
<1> USE DEF PgInv, PgTypeOK
<1>1. \A n : Execute(s, n) =>
         /\ xact[s] = "sent" /\ xact'[s] = "open"
         /\ rows'[s] = unread'[s]
         /\ UNCHANGED <<log, orphans, pre, ever>>
  BY DEF Execute
<1>2. Commit(s) =>
         /\ xact[s] = "open" /\ xact'[s] = "committed"
         /\ rows'[s] = rows[s] /\ unread'[s] = unread[s]
         /\ UNCHANGED <<orphans, pre>>
  BY DEF Commit
<1>3. StartInsert(s) =>
         /\ xact'[s] = "sent" /\ unread'[s] = {}
         /\ UNCHANGED <<log, orphans, pre, ever>>
  BY DEF StartInsert, Send, dbVars
<1>4. RowsDone(s) =>
         /\ xact[s] = "committed" /\ xact'[s] = "idle" /\ unread'[s] = {}
         /\ confirmed' = confirmed \cup rows[s]
         /\ UNCHANGED <<log, orphans, pre, ever, received>>
  BY DEF RowsDone, Leave, Abandoned, dbVars, trackingVars
<1>5. NextRow(s) =>
         /\ UNCHANGED <<xact, rows, log, orphans, pre, ever, confirmed>>
         /\ \E r \in unread[s] : /\ received' = received \cup {r}
                                 /\ unread'[s] = unread[s] \ {r}
  BY ReadableUnread DEF NextRow, RecordInsertedID, dbVars
<1>6. (\/ (\E n : Execute(s, n)) \/ Commit(s) \/ StartInsert(s) \/ RowsDone(s)
       \/ NextRow(s)) =>
         \A x \in Sessions : x # s => /\ xact'[x] = xact[x] /\ rows'[x] = rows[x]
                                      /\ unread'[x] = unread[x]
  BY DEF Execute, Commit, StartInsert, Send, RowsDone, Leave, NextRow
<1> QED BY <1>1, <1>2, <1>3, <1>4, <1>5, <1>6

LEMMA StaysUndisturbed ==
    ASSUME PgInv, AnswersApart, Engaged, NothingUnread, Undisturbed, faults' = faults,
           ~ctxDone', [Next]_vars
    PROVE  Undisturbed'
<1> USE DEF Undisturbed
<1>1. ASSUME NEW s \in Sessions, Execute(s, BatchOf(s)), UNCHANGED genVars
      PROVE  Undisturbed'
  <2>1. Table' = Table /\ UNCHANGED <<received, confirmed>>
    BY <1>1, SessionChanges DEF Table, genVars, metricsVars, trackingVars
  <2>2. unread[s] = {}
    BY <1>1, SessionChanges DEF AnswersApart
  <2> QED BY <1>1, <2>1, <2>2, SessionChanges, ComingRowsMember
<1>2. ASSUME NEW s \in Sessions, Commit(s), UNCHANGED genVars
      PROVE  Undisturbed'
  <2>1. Table' = Table \cup rows[s] /\ UNCHANGED <<received, confirmed>>
    BY <1>2, TableGrows DEF Commit, PgInv, PgTypeOK, genVars, metricsVars, trackingVars
  <2> QED BY <1>2, <2>1, SessionChanges, ComingRowsMember
<1>3. ASSUME OrphanCommits \/ OrphanAborts, UNCHANGED genVars PROVE Undisturbed'
  <2>1. Table \subseteq Table'
    <3>1. ASSUME NEW o \in orphans, log' = Append(log, o) PROVE Table' = Table \cup o
      BY <3>1, TableGrows DEF PgInv, PgTypeOK
    <3> QED BY <1>3, <3>1 DEF OrphanCommits, OrphanAborts, Table
  <2> QED BY <1>3, <2>1, ComingRowsMember
          DEF OrphanCommits, OrphanAborts, genVars, metricsVars, trackingVars
<1>4. ASSUME NEW s \in Sessions, NextRow(s) PROVE Undisturbed'
  BY <1>4, SessionChanges, ComingRowsMember DEF Table
<1>5. ASSUME NEW s \in Sessions, RowsDone(s) PROVE Undisturbed'
  <2>1. Table' = Table
    BY <1>5, SessionChanges DEF Table
  <2>2. ComingRows' \subseteq ComingRows
    BY <1>5, SessionChanges, ComingRowsMember
  <2> QED BY <1>5, <2>1, <2>2, SessionChanges
<1>6. ASSUME NEW s \in Sessions, pc[s] = "loop", StartInsert(s),
             UNCHANGED <<received, confirmed>>
      PROVE  Undisturbed'
  <2>1. xact[s] = "idle" /\ Table' = Table
    BY <1>6, SessionChanges DEF Engaged, Table
  <2>2. ComingRows' \subseteq ComingRows
    BY <1>6, SessionChanges, ComingRowsMember
  <2> QED BY <1>6, <2>1, <2>2, SessionChanges
<1>7. CASE UNCHANGED rowVars
  BY <1>7 DEF rowVars, Table, ComingRows
<1> QED BY <1>1, <1>2, <1>3, <1>4, <1>5, <1>6, <1>7, SmoothSteps

LEMMA StaysAlone ==
    ASSUME PgInv, Engaged, Undisturbed, Alone, faults' = faults, ~ctxDone', [Next]_vars
    PROVE  Alone'
<1> USE DEF Alone
<1>1. ASSUME NEW s \in Sessions, Execute(s, BatchOf(s)), UNCHANGED genVars PROVE Alone'
  BY <1>1, SessionChanges DEF Table, genVars, metricsVars
<1>2. ASSUME NEW s \in Sessions, Commit(s), UNCHANGED genVars PROVE Alone'
  <2>1. Table' = Table \cup rows[s] /\ ever' = ever \cup rows[s] /\ confirmed' = confirmed
    BY <1>2, TableGrows DEF Commit, PgInv, PgTypeOK, genVars, metricsVars
  <2> QED BY <1>2, <2>1, SessionChanges
<1>3. ~(OrphanCommits \/ OrphanAborts)
  BY DEF OrphanCommits, OrphanAborts
<1>4. ASSUME NEW s \in Sessions, NextRow(s) \/ RowsDone(s) PROVE Alone'
  BY <1>4, SessionChanges DEF Table
<1>5. ASSUME NEW s \in Sessions, pc[s] = "loop", StartInsert(s),
             UNCHANGED <<received, confirmed>>
      PROVE  Alone'
  <2>1. xact[s] = "idle"
    BY <1>5 DEF Engaged
  <2> QED BY <1>5, <2>1, SessionChanges DEF Table
<1>6. CASE UNCHANGED rowVars
  BY <1>6 DEF rowVars, Table
<1> QED BY <1>1, <1>2, <1>3, <1>4, <1>5, <1>6, SmoothSteps

\* No row that was there before the run is ever confirmed to it.
LEMMA NextKeepsConfirmedNew ==
    ASSUME PgInv, Batches, pre \cap confirmed = {}, [Next]_vars
    PROVE  pre' \cap confirmed' = {}
<1>1. CASE Server
  BY <1>1 DEF Server, genVars, metricsVars, Execute, Commit, Abort, CancelHonoured,
              LoseConnection, OrphanCommits, OrphanAborts, Failover
<1>2. ASSUME NEW s \in Sessions, BatchInsert(s), ~RowsDone(s) PROVE UNCHANGED <<pre, confirmed>>
  BY <1>2 DEF BatchInsert, QueryOk, Retry, InsertFails, NextRow, pgVars, dbVars,
              metricsVars
<1>3. ASSUME NEW s \in Sessions, RowsDone(s) PROVE pre' \cap confirmed' = {}
  BY <1>3, SessionChanges DEF Batches, Backing
<1>4. ASSUME NEW s \in Sessions, StartInsert(s), UNCHANGED <<received, confirmed>>
      PROVE  UNCHANGED <<pre, confirmed>>
  BY <1>4 DEF StartInsert, dbVars
<1>5. CASE UNCHANGED rowVars
  BY <1>5 DEF rowVars
<1> QED BY <1>1, <1>2, <1>3, <1>4, <1>5, StepKinds

\* The rows of an earlier run were committed.
LEMMA NextKeepsPre ==
    ASSUME pre \subseteq ever, [Next]_vars
    PROVE  pre' = pre /\ pre' \subseteq ever'
<1>1. CASE Server
  BY <1>1 DEF Server, Execute, Commit, Abort, CancelHonoured, LoseConnection,
              OrphanCommits, OrphanAborts, Failover
<1>2. ASSUME NEW s \in Sessions, BatchInsert(s) PROVE UNCHANGED <<pre, ever>>
  BY <1>2 DEF BatchInsert, QueryOk, Retry, InsertFails, NextRow, RowsDone, pgVars, dbVars
<1>3. ASSUME NEW s \in Sessions, StartInsert(s) PROVE UNCHANGED <<pre, ever>>
  BY <1>3 DEF StartInsert, dbVars
<1>4. CASE UNCHANGED rowVars
  BY <1>4 DEF rowVars
<1> QED BY <1>1, <1>2, <1>3, <1>4, StepKinds

\* What holds in every run, disturbed or not: one statement per goroutine, batches
\* that are whole and apart from what was there and what is confirmed.
RunInv ==
    /\ Engaged
    /\ Batches
    /\ NothingUnread
    /\ pre \subseteq ever
    /\ pre \cap confirmed = {}

LEMMA NextKeepsRunInv ==
    ASSUME IInv, LInv, RunInv, [Next]_vars
    PROVE  RunInv'
BY NextKeepsEngaged, NextKeepsBatches, NextKeepsNothingUnread, NextKeepsPre,
   NextKeepsConfirmedNew DEF RunInv, IInv

LEMMA InitRunInv == Init => RunInv
BY GeneratorAssumption
   DEF Init, PgInit, RunInv, Engaged, Batches, NothingUnread

\* While no fault has been counted and the context has not expired.
FaultFree == faults = 0 /\ ~ctxDone => Undisturbed /\ Alone

LEMMA InitFaultFree == Init => FaultFree
<1> SUFFICES ASSUME Init PROVE Undisturbed /\ Alone
  BY DEF FaultFree
<1>1. Table = ever
  <2>2. PICK m \in PreRows : pre = {[id |-> i, tl |-> 1] : i \in 1..m}
                             /\ log = IF m = 0 THEN <<>> ELSE <<pre>>
    BY DEF Init, PgInit
  <2>3. CASE m = 0
    <3>1. pre = {} /\ log = <<>>
      BY <2>2, <2>3
    <3>2. Table = {}
      BY <3>1 DEF Table
    <3> QED BY <3>1, <3>2 DEF Init, PgInit
  <2>4. CASE m # 0
    <3>1. log = <<pre>> /\ DOMAIN <<pre>> = {1} /\ <<pre>>[1] = pre
      BY <2>2, <2>4
    <3>2. Table = pre
      BY <3>1 DEF Table
    <3> QED BY <3>2 DEF Init, PgInit
  <2> QED BY <2>3, <2>4
<1>2. ComingRows = {}
  BY DEF Init, PgInit, ComingRows
<1> QED BY <1>1, <1>2 DEF Init, PgInit, Undisturbed, Alone

LEMMA NextKeepsFaultFree ==
    ASSUME IInv, LInv, RunInv, FaultFree, [Next]_vars
    PROVE  FaultFree'
<1> SUFFICES ASSUME faults' = 0, ~ctxDone' PROVE Undisturbed' /\ Alone'
  BY DEF FaultFree
<1>1. faults = 0 /\ faults' = faults /\ ~ctxDone
  BY FaultsGrow DEF IInv, PgInv, PgTypeOK
<1> QED BY <1>1, StaysUndisturbed, StaysAlone DEF FaultFree, IInv, LInv, RunInv

\* Rows of the ledger are those committed since the start, and those of open
\* transactions.
LEMMA LedgerExact ==
    ASSUME IInv, RunInv, Undisturbed, Alone
    PROVE  received \cup UNION {unread[s] : s \in Sessions}
             = (ever \ pre) \cup UNION {rows[s] : s \in {x \in Sessions : xact[x] = "open"}}
<1> DEFINE open == UNION {rows[s] : s \in {x \in Sessions : xact[x] = "open"}}
<1>1. ASSUME NEW r \in received \cup ComingRows PROVE r \in (ever \ pre) \cup open
  <2>1. CASE r \in confirmed
    BY <2>1 DEF IInv, ConfirmedWereCommitted, RunInv
  <2>2. ASSUME NEW s \in Sessions, xact[s] = "open", r \in rows[s] PROVE r \in open
    BY <2>2
  <2>3. ASSUME NEW s \in Sessions, xact[s] = "committed", r \in rows[s]
        PROVE  r \in ever \ pre
    BY <2>3 DEF IInv, PgInv, CommittedInEver, RunInv, Batches, Backing
  <2> QED BY <2>1, <2>2, <2>3 DEF Undisturbed
<1>2. ASSUME NEW r \in ever \ pre PROVE r \in received \cup ComingRows
  BY <1>2, ComingRowsMember DEF Alone, IInv, ConfirmedWereCommitted, RowsTrackedOrUnread
<1>3. ASSUME NEW r \in open PROVE r \in received \cup ComingRows
  BY <1>3, ComingRowsMember DEF IInv, RowsTrackedOrUnread
<1> QED BY <1>1, <1>2, <1>3 DEF ComingRows

\* As long as nothing fails and the deadline has not come, the rows given to
\* RecordInsertedID or on their way are exactly those committed since the start and
\* those of transactions still open.
THEOREM FaultFreeExact == Spec => []FaultFreeLedgerExact
<1> DEFINE I == IInv /\ LInv
           J == RunInv /\ FaultFree
<1>1. Init => J
  BY InitRunInv, InitFaultFree
<1>2. I /\ J /\ [Next]_vars => J'
  BY NextKeepsRunInv, NextKeepsFaultFree
<1>3. I /\ J => FaultFreeLedgerExact
  BY LedgerExact DEF FaultFree, Alone, FaultFreeLedgerExact
<1>4. Spec => []I
  BY LedgerInvariance
<1> HIDE DEF I, J
<1> QED BY <1>1, <1>2, <1>3, <1>4, PTL DEF Spec

-----------------------------------------------------------------------------
(* PART 6.  A tracked row was inserted, when the answer to a batch fits the    *)
(* buffer.                                                                   *)

\* The answer to a batch that does not fill a buffer leaves the server whole, after
\* the commit.
LEMMA NothingFlushed ==
    ASSUME NEW s \in Sessions, rows[s] \subseteq Row, IsFiniteSet(rows[s]),
           Cardinality(rows[s]) < BufferRows
    PROVE  Flushed(s) = {}
<1> DEFINE R == rows[s]
           Rank(r) == Cardinality({q \in R : q.id <= r.id})
           full == Cardinality(R) \div BufferRows
<1>1. Cardinality(R) \in Nat /\ BufferRows \in Nat \ {0}
  BY FS_CardinalityType, PostgresAssumption
<1>2. full = 0
  <2> HIDE DEF R
  <2> QED BY <1>1 DEF R
<1>3. ASSUME NEW r \in R PROVE Rank(r) \in Nat /\ Rank(r) # 0
  <2> DEFINE Q == {q \in R : q.id <= r.id}
  <2>1. r \in Q /\ Q \subseteq R
    BY DEF Row
  <2>2. IsFiniteSet(Q)
    BY <2>1, FS_Subset
  <2>3. Cardinality(Q) \in Nat /\ Cardinality(Q) # 0
    BY <2>1, <2>2, FS_CardinalityType, FS_EmptySet
  <2> QED BY <2>3
<1>4. Flushed(s) = {r \in R : Rank(r) <= full * BufferRows}
  BY DEF Flushed
<1>5. full * BufferRows = 0
  BY <1>1, <1>2
<1> HIDE DEF Rank, full, R
<1> QED BY <1>3, <1>4, <1>5

\* The rows of an answer are rows of the statement.
AnswersAreRows == \A s \in Sessions : unread[s] \subseteq rows[s]

LEMMA NextKeepsAnswers ==
    ASSUME PgInv, AnswersAreRows, [Next]_vars
    PROVE  AnswersAreRows'
<1> USE DEF PgInv, PgTypeOK, AnswersAreRows
<1>1. CASE Server
  BY <1>1, ReadableUnread DEF Server, Execute, Commit, Abort, CancelHonoured,
                              LoseConnection, OrphanCommits, OrphanAborts, Failover
<1>2. ASSUME NEW s \in Sessions, BatchInsert(s) PROVE AnswersAreRows'
  BY <1>2 DEF BatchInsert, QueryOk, Retry, Send, InsertFails, Leave, NextRow, RowsDone,
              pgVars
<1>3. ASSUME NEW s \in Sessions, StartInsert(s) PROVE AnswersAreRows'
  BY <1>3 DEF StartInsert, Send
<1>4. CASE UNCHANGED rowVars
  BY <1>4 DEF rowVars
<1> QED BY <1>1, <1>2, <1>3, <1>4, StepKinds

\* Of a worker's batch nothing can be read before it is committed.
LEMMA WorkerReadsCommitted ==
    ASSUME IInv, Batches, NEW w \in Workers, xact[w] = "open", BatchSize < BufferRows
    PROVE  Readable(w) = {}
<1>1. w \in Sessions /\ w # Main
  BY GeneratorAssumption
<1>2. Cardinality(rows[w]) = BatchSize
  BY <1>1 DEF Batches, BatchOf
<1>3. Flushed(w) = {}
  BY <1>1, <1>2, NothingFlushed DEF IInv, PgInv, PgTypeOK, PgFinite
<1> QED BY <1>3 DEF Readable

\* So nothing of a worker's batch that has failed can be read, unless it was committed.
FailuresReadCommitted ==
    \A w \in Workers : xact[w] \in {"aborted", "killed"} => unread[w] \subseteq ever

LEMMA NextKeepsFailures ==
    ASSUME IInv, LInv, Batches, AnswersAreRows, FailuresReadCommitted,
           BatchSize < BufferRows, [Next]_vars
    PROVE  FailuresReadCommitted'
<1> USE DEF PgInv, PgTypeOK
<1>1. Workers \subseteq Sessions /\ PgInv
  BY GeneratorAssumption DEF IInv
<1>2. CASE Server
  <2>1. ever \subseteq ever'
    BY <1>2 DEF Server, Execute, Commit, Abort, CancelHonoured, LoseConnection,
                OrphanCommits, OrphanAborts, Failover
  <2>2. ASSUME NEW w \in Workers, xact[w] \in Live PROVE Readable(w) \subseteq ever
    <3>1. CASE xact[w] = "open"
      BY <3>1, WorkerReadsCommitted
    <3>2. CASE xact[w] = "sent"
      BY <1>1, <3>2, ReadableUnread DEF LInv, AnswersApart
    <3>3. CASE xact[w] = "committed"
      BY <1>1, <3>3, ReadableUnread DEF AnswersAreRows, CommittedInEver
    <3> QED BY <2>2, <3>1, <3>2, <3>3 DEF Live
  <2>3. ASSUME NEW w \in Workers, xact'[w] \in {"aborted", "killed"}
        PROVE  \/ xact[w] \in Live /\ unread'[w] = Readable(w)
               \/ xact[w] = xact'[w] /\ unread'[w] \subseteq unread[w]
    BY <1>1, <1>2, <2>3, ReadableUnread
       DEF Server, Execute, Commit, Abort, CancelHonoured, LoseConnection, OrphanCommits,
           OrphanAborts, Failover, Live
  <2> QED BY <2>1, <2>2, <2>3 DEF FailuresReadCommitted
<1>3. ASSUME NEW s \in Sessions, BatchInsert(s) PROVE FailuresReadCommitted'
  BY <1>1, <1>3 DEF FailuresReadCommitted, BatchInsert, QueryOk, Retry, Send,
                    InsertFails, Leave, NextRow, RowsDone, pgVars, dbVars
<1>4. ASSUME NEW s \in Sessions, StartInsert(s) PROVE FailuresReadCommitted'
  BY <1>1, <1>4 DEF FailuresReadCommitted, StartInsert, Send, dbVars
<1>5. CASE UNCHANGED rowVars
  BY <1>5 DEF FailuresReadCommitted, rowVars
<1> QED BY <1>2, <1>3, <1>4, <1>5, StepKinds

\* Tracked rows were committed, but for those of a seeding batch that main is reading,
\* or has read in vain.
SettledRows ==
    \/ pc[Main] = "error"
    \/ phase = "failed"
    \/ received \subseteq ever \cup (IF pc[Main] = "rows" THEN rows[Main] ELSE {})

LEMMA ReadRowsSettled ==
    ASSUME IInv, LInv, Batches, NothingUnread, AnswersAreRows, FailuresReadCommitted,
           SettledRows, BatchSize < BufferRows, NEW s \in Sessions, NextRow(s)
    PROVE  SettledRows'
<1>1. PICK r \in Readable(s) : received' = received \cup {r}
  BY DEF NextRow, RecordInsertedID
<1>2. pc[s] = "rows" /\ UNCHANGED <<pc, phase, ever, rows>>
  BY DEF NextRow, dbVars, mainVars
<1>3. CASE s = Main
  BY <1>1, <1>2, <1>3, ReadableUnread DEF SettledRows, AnswersAreRows
<1>4. CASE s # Main
  <2>1. s \in Workers
    BY <1>4, GeneratorAssumption
  <2>2. xact[s] \notin {"idle", "sent", "open"}
    BY <1>1, <2>1, ReadableUnread, WorkerReadsCommitted DEF NothingUnread, LInv,
       AnswersApart
  <2>3. xact[s] \in {"committed", "aborted", "killed"}
    BY <2>2 DEF IInv, PgInv, PgTypeOK, XactState
  <2>4. r \in ever
    BY <1>1, <2>1, <2>3, ReadableUnread
       DEF AnswersAreRows, FailuresReadCommitted, IInv, PgInv, CommittedInEver
  <2> QED BY <1>1, <1>2, <2>4 DEF SettledRows
<1> QED BY <1>3, <1>4

\* What main is reading has been sent, and answered.
ReadsAnswered == pc[Main] = "rows" => xact[Main] # "sent"

LEMMA NextKeepsReadsAnswered ==
    ASSUME IInv, LInv, ReadsAnswered, [Next]_vars
    PROVE  ReadsAnswered'
<1> USE GeneratorAssumption DEF IInv, PgInv, PgTypeOK, GenTypeOK, ReadsAnswered
<1>1. CASE Server
  BY <1>1 DEF Server, genVars, Execute, Commit, Abort, CancelHonoured, LoseConnection,
              OrphanCommits, OrphanAborts, Failover
<1>2. ASSUME NEW s \in Sessions, QueryOk(s) PROVE ReadsAnswered'
  <2>1. xact[s] # "sent" /\ xact' = xact
    BY <1>2, ReadableUnread DEF QueryOk, LInv, AnswersApart, pgVars
  <2>2. s # Main => pc'[Main] = pc[Main]
    BY <1>2 DEF QueryOk, GoTo
  <2> QED BY <2>1, <2>2
<1>3. ASSUME NEW s \in Sessions, BatchInsert(s), ~QueryOk(s) PROVE ReadsAnswered'
  BY <1>3 DEF BatchInsert, Retry, Send, InsertFails, Leave, NextRow, RowsDone, GoTo
<1>4. CASE Initialize
  BY <1>4 DEF Initialize, CountRows, InitializeFails, SeedNext, StartInsert, SeedInserted,
              SeedFails, SeedDone, GoTo, pgVars
<1>5. ASSUME NEW w \in Workers, Worker(w) PROVE pc'[Main] = pc[Main] /\ xact'[Main] = xact[Main]
  BY <1>5 DEF Worker, BeginRead, BeginInsert, BeginUpdate, Begin, StartInsert, Send,
              WorkerExits, ReadOk, UpdateOk, ReadOrUpdateFails, AddTotalRows,
              RecordInsert, RecordError, Recorded, GoTo, pgVars
<1>6. CASE Start \/ ContextExpires \/ Stop \/ WaitDone \/ UNCHANGED vars
  BY <1>6 DEF Start, ContextExpires, Stop, WaitDone, vars, genVars, pgVars
<1> QED BY <1>1, <1>2, <1>3, <1>4, <1>5, <1>6 DEF Next

LEMMA NextKeepsSettled ==
    ASSUME IInv, LInv, RunInv, AnswersAreRows, FailuresReadCommitted, ReadsAnswered,
           SettledRows, BatchSize < BufferRows, [Next]_vars
    PROVE  SettledRows'
<1> USE GeneratorAssumption DEF IInv, PgInv, PgTypeOK, GenTypeOK, RunInv
<1>1. CASE Server
  <2>1. UNCHANGED <<pc, phase, received>>
    BY <1>1 DEF Server, CancelHonoured, genVars, mainVars, metricsVars, trackingVars
  <2>2. ever \subseteq ever'
    BY <1>1 DEF Server, Execute, Commit, Abort, CancelHonoured, LoseConnection,
                OrphanCommits, OrphanAborts, Failover
  <2>3. rows'[Main] = rows[Main] \/ xact[Main] = "sent"
    BY <1>1 DEF Server, Execute, Commit, Abort, CancelHonoured, LoseConnection,
                OrphanCommits, OrphanAborts, Failover
  <2> QED BY <2>1, <2>2, <2>3 DEF SettledRows, ReadsAnswered
<1>2. ASSUME NEW s \in Sessions, BatchInsert(s), ~NextRow(s) PROVE SettledRows'
  <2>1. UNCHANGED <<phase, received, ever>>
    BY <1>2 DEF BatchInsert, QueryOk, Retry, InsertFails, RowsDone, mainVars, metricsVars,
                trackingVars, pgVars, dbVars
  <2>2. CASE s # Main
    <3>1. pc'[Main] = pc[Main] /\ rows'[Main] = rows[Main]
      BY <1>2, <2>2 DEF BatchInsert, QueryOk, Retry, Send, InsertFails, Leave, RowsDone,
                        GoTo, pgVars
    <3> QED BY <2>1, <3>1 DEF SettledRows
  <2>3. CASE s = Main
    <3>1. QueryOk(s) => pc[Main] = "exec"
      BY <2>3 DEF QueryOk
    <3>2. Retry(s) => pc[Main] = "exec" /\ pc'[Main] = "exec"
      BY <2>3 DEF Retry
    <3>3. InsertFails(s) => pc'[Main] = "error"
      BY <2>3 DEF InsertFails, GoTo
    <3>4. RowsDone(s) => pc[Main] = "rows" /\ rows[Main] \subseteq ever
      BY <2>3 DEF RowsDone, CommittedInEver
    <3> QED BY <1>2, <2>1, <3>1, <3>2, <3>3, <3>4 DEF BatchInsert, SettledRows
  <2> QED BY <2>2, <2>3
<1>3. ASSUME NEW w \in Workers, Worker(w) PROVE SettledRows'
  <2>1. UNCHANGED <<phase, received, ever>>
    BY <1>3 DEF Worker, BeginRead, BeginInsert, BeginUpdate, Begin, StartInsert,
                WorkerExits, ReadOk, UpdateOk, ReadOrUpdateFails, AddTotalRows,
                RecordInsert, RecordError, Recorded, pgVars, dbVars, mainVars,
                metricsVars, trackingVars
  <2>2. pc'[Main] = pc[Main] /\ rows'[Main] = rows[Main]
    BY <1>3 DEF Worker, BeginRead, BeginInsert, BeginUpdate, StartInsert, Send,
                WorkerExits, ReadOk, UpdateOk, ReadOrUpdateFails, AddTotalRows,
                RecordInsert, RecordError, Recorded, GoTo, pgVars
  <2> QED BY <2>1, <2>2 DEF SettledRows
<1>4. CASE Initialize
  <2>1. InitializeFails \/ SeedFails => phase' = "failed"
    BY DEF InitializeFails, SeedFails
  <2>2. /\ CountRows => phase = "init" /\ pc[Main] = "none"
        /\ SeedNext \/ SeedInserted \/ SeedDone =>
              /\ phase # "failed" \/ phase' = "failed"
              /\ pc[Main] \in {"loop", "count"}
    BY DEF CountRows, SeedNext, SeedInserted, SeedDone, Engaged, mainVars
  <2>3. UNCHANGED <<received, ever>>
    BY <1>4 DEF Initialize, CountRows, InitializeFails, SeedNext, StartInsert,
                SeedInserted, SeedFails, SeedDone, pgVars, dbVars, metricsVars,
                trackingVars
  <2>4. CASE received \subseteq ever
    BY <2>3, <2>4 DEF SettledRows
  <2> QED BY <1>4, <2>1, <2>2, <2>4 DEF Initialize, SettledRows
<1>5. CASE Start \/ ContextExpires \/ Stop \/ WaitDone \/ UNCHANGED vars
  <2>1. UNCHANGED <<received, ever, rows>>
    BY <1>5 DEF Start, ContextExpires, Stop, WaitDone, vars, genVars, pgVars, metricsVars,
                trackingVars
  <2>2. pc'[Main] = pc[Main] \/ (pc[Main] = "loop" /\ phase # "failed")
    BY <1>5 DEF Start, ContextExpires, Stop, WaitDone, vars, genVars, mainVars
  <2>3. phase = "failed" => phase' = "failed"
    BY <1>5 DEF Start, ContextExpires, Stop, WaitDone, vars, genVars, mainVars
  <2> QED BY <2>1, <2>2, <2>3 DEF SettledRows
<1> QED BY <1>1, <1>2, <1>3, <1>4, <1>5, ReadRowsSettled DEF Next

\* When the answer to a batch of the test fits the server's output buffer, every row
\* that is tracked when Stop has returned was inserted.  The batches of the seeding may
\* be larger: one that fails after a part of it was read ends the client.
THEOREM TrackedInserted == BatchSize < BufferRows => (Spec => []TrackedWereInserted)
<1> SUFFICES ASSUME BatchSize < BufferRows PROVE Spec => []TrackedWereInserted
  OBVIOUS
<1> DEFINE I == IInv /\ LInv
           J == /\ RunInv
                /\ AnswersAreRows
                /\ FailuresReadCommitted
                /\ ReadsAnswered
                /\ SettledRows
<1>1. Init => J
  BY InitRunInv, GeneratorAssumption
     DEF Init, PgInit, AnswersAreRows, FailuresReadCommitted, ReadsAnswered, SettledRows
<1>2. I /\ J /\ [Next]_vars => J'
  BY NextKeepsRunInv, NextKeepsAnswers, NextKeepsFailures, NextKeepsReadsAnswered,
     NextKeepsSettled DEF IInv, RunInv
<1>3. I /\ J => TrackedWereInserted
  <2> SUFFICES ASSUME I, J, phase = "stopped" PROVE received \subseteq ever
    BY DEF TrackedWereInserted
  <2>1. pc[Main] = "none"
    BY DEF IInv, Control
  <2> QED BY <2>1 DEF SettledRows
<1>4. Spec => []I
  BY LedgerInvariance
<1> HIDE DEF I, J
<1> QED BY <1>1, <1>2, <1>3, <1>4, PTL DEF Spec
=============================================================================
