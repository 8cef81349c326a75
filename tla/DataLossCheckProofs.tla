------------------------- MODULE DataLossCheckProofs -------------------------
(***************************************************************************)
(* Proofs about the report of CheckDataLoss, for every generator, server and *)
(* batch size: whatever moves between its queries, it never counts more       *)
(* losses than ids that were absent at some moment, the batched check misses   *)
(* none that was absent throughout, and the range check is exact as long as    *)
(* every row in the range is a tracked one.                                  *)
(***************************************************************************)
EXTENDS DataLossCheck, LoadGeneratorV2Proofs

\* Rows the primary holds, committed or not: the primary key tells them apart.
Held == Table \cup OpenRows

IdsApart == \A r, q \in Held : r.id <= seq /\ (r.id = q.id => r = q)

-----------------------------------------------------------------------------
(* No two rows of the primary have the same id.                              *)

LEMMA HeldRows ==
    ASSUME IInv
    PROVE  Table \subseteq Row /\ IsFiniteSet(Table) /\ OpenRows \subseteq Row
BY TableInEver, SeenRows DEF IInv, PgInv, PgTypeOK, Seen

LEMMA ExecuteKeepsIdsApart ==
    ASSUME IInv, IdsApart, NEW s \in Sessions, NEW n \in Nat, Execute(s, n)
    PROVE  IdsApart'
<1> DEFINE new == NewRows(n)
<1>1. seq \in Nat /\ seq' = seq + n /\ Table' = Table
  BY DEF Execute, IInv, PgInv, PgTypeOK, Table
<1>2. \A r \in new : r.id \in Nat /\ r.id > seq /\ r.id <= seq + n
  BY <1>1 DEF NewRows
<1>3. \A r, q \in new : r.id = q.id => r = q
  BY DEF NewRows
<1> HIDE DEF new
<1>4. OpenRows' \subseteq OpenRows \cup new
  <2>1. /\ \A x \in Sessions : x # s => rows'[x] = rows[x] /\ xact'[x] = xact[x]
        /\ rows'[s] = new /\ orphans' = orphans
    BY DEF Execute, IInv, PgInv, PgTypeOK, new
  <2> QED BY <2>1, OpenRowsMember
<1>5. \A r \in Held : r.id \in Nat /\ r.id <= seq
  BY HeldRows DEF IdsApart, Held, Row
<1>6. Held' \subseteq Held \cup new
  BY <1>1, <1>4 DEF Held
<1>7. ASSUME NEW r \in Held', NEW q \in Held' PROVE r.id <= seq' /\ (r.id = q.id => r = q)
  <2>1. r.id <= seq'
    BY <1>1, <1>2, <1>5, <1>6
  <2>2. CASE r \in Held /\ q \in Held
    BY <2>1, <2>2 DEF IdsApart
  <2>3. CASE r \in new /\ q \in new
    BY <1>3, <2>1, <2>3
  <2>4. CASE (r \in Held /\ q \in new) \/ (r \in new /\ q \in Held)
    BY <1>1, <1>2, <1>5, <2>1, <2>4
  <2> QED BY <1>6, <2>2, <2>3, <2>4
<1> QED BY <1>7 DEF IdsApart

\* The log only loses its end, and the sequence stays above what remains.
LEMMA FailoverHolds ==
    ASSUME IInv, Failover
    PROVE  Held' \subseteq Table /\ \A r \in Held' : r.id <= seq'
<1> USE DEF IInv, PgInv, PgTypeOK
<1>1. PICK k \in 0..Len(log) :
         /\ log' = SubSeq(log, 1, k)
         /\ \A i \in 1..k : \A r \in log[i] : r.id <= seq'
  BY DEF Failover
<1>2. /\ DOMAIN log = 1..Len(log) /\ DOMAIN log' = 1..k
      /\ \A i \in 1..k : log'[i] = log[i] /\ i \in 1..Len(log)
  BY <1>1
<1>3. ASSUME NEW r \in Table' PROVE r \in Table /\ r.id <= seq'
  <2> HIDE DEF IInv, PgInv, PgTypeOK
  <2>1. PICK i \in 1..k : r \in log'[i]
    BY <1>2 DEF Table
  <2>2. r \in log[i] /\ i \in DOMAIN log
    BY <1>2, <2>1
  <2> QED BY <1>1, <2>2 DEF Table
<1>4. OpenRows' = {}
  <2>1. orphans' = {} /\ \A x \in Sessions : xact'[x] # "open"
    BY DEF Failover, Live
  <2> QED BY <2>1, OpenRowsMember
<1> QED BY <1>3, <1>4 DEF Held

\* What the server does besides, only moves or forgets rows.
LEMMA ServerHolds ==
    ASSUME IInv, Server, \A s \in Sessions : ~Execute(s, BatchOf(s)), ~Failover
    PROVE  Held' \subseteq Held /\ seq' = seq
<1> USE DEF IInv, PgInv, PgTypeOK
<1>1. ASSUME NEW s \in Sessions, Commit(s) PROVE Held' \subseteq Held
  <2>1. /\ xact[s] = "open" /\ xact'[s] = "committed"
        /\ \A x \in Sessions : xact'[x] = "open" => xact[x] = "open"
        /\ log' = Append(log, rows[s]) /\ rows[s] \in SUBSET Row
        /\ UNCHANGED <<rows, orphans>>
    BY <1>1 DEF Commit
  <2>2. Table' = Table \cup rows[s]
    BY <2>1, TableGrows
  <2>3. OpenRows' \subseteq OpenRows /\ rows[s] \subseteq OpenRows
    BY <2>1, OpenRowsMember
  <2> QED BY <2>2, <2>3 DEF Held
<1>2. ASSUME NEW s \in Sessions, Abort(s) \/ LoseConnection(s) PROVE Held' \subseteq Held
  <2>1. /\ \A x \in Sessions : xact'[x] = "open" => xact[x] = "open"
        /\ orphans' \subseteq Abandoned(s)
        /\ UNCHANGED <<log, rows>>
    BY <1>2 DEF Abort, LoseConnection, Abandoned
  <2>2. OpenRows' \subseteq OpenRows
    BY <2>1, OpenRowsMember DEF Abandoned
  <2> QED BY <2>1, <2>2 DEF Held, Table
<1>3. OrphanCommits => Held' \subseteq Held
  <2> SUFFICES ASSUME OrphanCommits PROVE Held' \subseteq Held
    OBVIOUS
  <2>1. PICK o \in orphans : /\ orphans' = orphans \ {o}
                             /\ log' = Append(log, o)
                             /\ UNCHANGED <<xact, rows>>
    BY DEF OrphanCommits
  <2>2. Table' = Table \cup o
    BY <2>1, TableGrows
  <2>3. OpenRows' \subseteq OpenRows /\ o \subseteq OpenRows
    BY <2>1, OpenRowsMember
  <2> QED BY <2>2, <2>3 DEF Held
<1>4. OrphanAborts => Held' \subseteq Held
  <2> SUFFICES ASSUME OrphanAborts PROVE Held' \subseteq Held
    OBVIOUS
  <2>1. orphans' \subseteq orphans /\ UNCHANGED <<log, xact, rows>>
    BY DEF OrphanAborts
  <2>2. OpenRows' \subseteq OpenRows
    BY <2>1, OpenRowsMember
  <2> QED BY <2>1, <2>2 DEF Held, Table
<1>5. seq' = seq
  BY DEF Server, Commit, Abort, CancelHonoured, LoseConnection, OrphanCommits, OrphanAborts
<1> QED BY <1>1, <1>2, <1>3, <1>4, <1>5 DEF Server, CancelHonoured

\* The client moves no row and draws no id: a statement it sends or gives up
\* leaves fewer rows open, or the same.
ClientSide(s) ==
    /\ UNCHANGED <<log, seq>>
    /\ \/ UNCHANGED <<xact, rows, orphans>>
       \/ Send(s) /\ UNCHANGED orphans
       \/ Leave(s)

LEMMA ClientHolds ==
    ASSUME IInv, NEW s \in Sessions, ClientSide(s)
    PROVE  Held' \subseteq Held /\ seq' = seq
<1> USE DEF IInv, PgInv, PgTypeOK, ClientSide
<1>1. /\ \A x \in Sessions : xact'[x] = "open" => xact[x] = "open" /\ rows'[x] = rows[x]
      /\ orphans' \subseteq Abandoned(s)
  BY DEF Send, Leave, Abandoned
<1>2. OpenRows' \subseteq OpenRows
  BY <1>1, OpenRowsMember DEF Abandoned
<1> QED BY <1>2 DEF Held, Table

\* So only an INSERT that runs adds to the rows the primary holds.
LEMMA NextHolds ==
    ASSUME IInv, [Next]_vars
    PROVE  \/ \E s \in Sessions : Execute(s, BatchOf(s)) /\ UNCHANGED genVars
           \/ Failover /\ UNCHANGED genVars
           \/ Held' \subseteq Held /\ seq' = seq
<1>1. ASSUME NEW s \in Sessions, BatchInsert(s) PROVE ClientSide(s)
  BY <1>1 DEF BatchInsert, QueryOk, Retry, InsertFails, NextRow, RowsDone, ClientSide, pgVars,
              dbVars
<1>2. ASSUME NEW s \in Sessions, StartInsert(s) PROVE ClientSide(s)
  BY <1>2 DEF StartInsert, ClientSide, dbVars
<1>3. CASE UNCHANGED rowVars
  <2>1. ClientSide(Main)
    BY <1>3 DEF ClientSide, rowVars
  <2> QED BY <2>1, ClientHolds, GeneratorAssumption
<1>4. Server => UNCHANGED genVars
  BY DEF Server, CancelHonoured
<1> QED BY <1>1, <1>2, <1>3, <1>4, ServerHolds, ClientHolds, StepKinds

LEMMA NextKeepsIdsApart ==
    ASSUME IInv, IdsApart, [Next]_vars
    PROVE  IdsApart'
<1>1. ASSUME NEW s \in Sessions, Execute(s, BatchOf(s)) PROVE IdsApart'
  BY <1>1, BatchOfNat, ExecuteKeepsIdsApart DEF IInv
<1>2. CASE Failover
  BY <1>2, FailoverHolds DEF IdsApart, Held
<1>3. CASE Held' \subseteq Held /\ seq' = seq
  BY <1>3 DEF IdsApart
<1> QED BY <1>1, <1>2, <1>3, NextHolds

LEMMA InitIdsApart == Init => IdsApart
<1> SUFFICES ASSUME Init PROVE IdsApart
  OBVIOUS
<1>1. PICK n \in PreRows : /\ pre = {[id |-> i, tl |-> 1] : i \in 1..n}
                           /\ log = IF n = 0 THEN <<>> ELSE <<pre>>
                           /\ seq = n
  BY DEF Init, PgInit
<1>2. OpenRows = {}
  BY OpenRowsMember DEF Init, PgInit
<1>3. Table \subseteq pre
  <2>1. DOMAIN log = {} \/ (DOMAIN log = {1} /\ log[1] = pre)
    BY <1>1
  <2> QED BY <2>1 DEF Table
<1> QED BY <1>1, <1>2, <1>3, PostgresAssumption DEF IdsApart, Held

\* The primary key: no two rows the primary holds share an id, failovers included,
\* so that a COUNT over ids counts ids.
THEOREM PrimaryKey == Spec => []IdsApart
<1>1. Init => IdsApart
  BY InitIdsApart
<1>2. IInv /\ IdsApart /\ [Next]_vars => IdsApart'
  BY NextKeepsIdsApart
<1> QED BY <1>1, <1>2, Invariance, PTL DEF Spec

-----------------------------------------------------------------------------
(* Counting.                                                                 *)

LEMMA SetMinus ==
    ASSUME NEW S, IsFiniteSet(S), NEW T
    PROVE  /\ IsFiniteSet(S \ T) /\ IsFiniteSet(S \cap T)
           /\ Cardinality(S \ T) \in Nat /\ Cardinality(S \cap T) \in Nat
           /\ Cardinality(S \ T) = Cardinality(S) - Cardinality(S \cap T)
BY FS_Difference, FS_Intersection, FS_CardinalityType

\* SELECT COUNT of the rows with an id in S.
RowsOf(S) == {r \in Table : r.id \in S}

LEMMA CountByIds ==
    ASSUME IInv, NEW S
    PROVE  /\ IsFiniteSet(RowsOf(S)) /\ Cardinality(RowsOf(S)) \in Nat
           /\ IsFiniteSet(S \cap Ids(Table)) /\ Cardinality(S \cap Ids(Table)) \in Nat
           /\ Cardinality(S \cap Ids(Table)) <= Cardinality(RowsOf(S))
           /\ IdsApart => Cardinality(S \cap Ids(Table)) = Cardinality(RowsOf(S))
<1> DEFINE f == [r \in RowsOf(S) |-> r.id]
<1>1. IsFiniteSet(RowsOf(S))
  BY HeldRows, FS_Subset DEF RowsOf
<1>2. f \in Surjection(RowsOf(S), S \cap Ids(Table))
  BY DEF RowsOf, Ids, Surjection
<1>3. IdsApart => f \in Injection(RowsOf(S), S \cap Ids(Table))
  <2>1. f \in [RowsOf(S) -> S \cap Ids(Table)]
    BY DEF RowsOf, Ids
  <2>2. ASSUME IdsApart, NEW r \in RowsOf(S), NEW q \in RowsOf(S), f[r] = f[q] PROVE r = q
    BY <2>2 DEF RowsOf, IdsApart, Held
  <2> HIDE DEF f
  <2> QED BY <2>1, <2>2 DEF Injection, IsInjective
<1> HIDE DEF f
<1> QED BY <1>1, <1>2, <1>3, FS_Surjection, FS_CardinalityType

\* The ids a check misses, by what it finds.
LEMMA MissingByCount ==
    ASSUME IInv, LInv
    PROVE  /\ IsFiniteSet(insertedIDs) /\ IsFiniteSet(Missing)
           /\ Cardinality(insertedIDs) \in Nat /\ Cardinality(Missing) \in Nat
           /\ Cardinality(Missing)
                 = Cardinality(insertedIDs) - Cardinality(insertedIDs \cap Ids(Table))
BY SetMinus, FS_CardinalityType DEF Missing, LInv, LedgerCounts

-----------------------------------------------------------------------------
(* The invariant of the check.                                               *)

\* Ids the batched check has asked for.
Asked == insertedIDs \ unchecked

\* While main() is in a query, and when it has the report.
Watching ==
    check \in {"batches", "range"} =>
       /\ totalInserted = Cardinality(insertedIDs)
       /\ missedAlways \subseteq Missing
       /\ Missing \subseteq missedEver
       /\ missedEver \subseteq insertedIDs

\* Every id present throughout was found when it was asked for, and none that was
\* absent throughout.
BatchesCount ==
    check = "batches" =>
       /\ unchecked \subseteq insertedIDs
       /\ Cardinality(Asked \ missedEver) <= found
       /\ found <= Cardinality(Asked \ missedAlways)

Reported ==
    check = "reported" =>
       /\ lost \in 0..Cardinality(missedEver)
       /\ totalInserted <= RangeThreshold => lost >= Cardinality(missedAlways)

CheckInv ==
    /\ CheckTypeOK
    /\ check # "idle" => phase = "stopped"
    /\ check = "idle" => found = 0 /\ lost = 0
    /\ check = "range" => totalInserted > RangeThreshold
    /\ Watching
    /\ BatchesCount
    /\ Reported

LEMMA BeginKeepsCheckInv ==
    ASSUME IInv, LInv, CheckInv, BeginCheck
    PROVE  CheckInv'
<1> USE DEF CheckInv
<1>1. /\ phase' = "stopped" /\ check = "idle" /\ lost' = lost /\ found' = found
      /\ lost = 0 /\ found = 0 /\ dropped' = dropped
      /\ unchecked' = insertedIDs /\ totalInserted' = Cardinality(insertedIDs)
      /\ missedEver' = Missing /\ missedAlways' = Missing
      /\ insertedIDs' = insertedIDs /\ Missing' = Missing
      /\ check' = IF insertedIDs = {} THEN "reported"
                  ELSE IF Cardinality(insertedIDs) > RangeThreshold THEN "range"
                  ELSE "batches"
  BY DEF BeginCheck, vars, genVars, mainVars, metricsVars, trackingVars, pgVars, Missing, Table
<1>2. insertedIDs \in SUBSET Nat /\ Missing \subseteq insertedIDs
  BY DEF IInv, GenTypeOK, Missing
<1>3. CheckTypeOK'
  BY <1>1, <1>2, MissingByCount DEF CheckTypeOK, CheckState
<1>4. BatchesCount'
  <2>1. Asked' = {}
    BY <1>1 DEF Asked
  <2>2. Asked' \ missedEver' = {} /\ Asked' \ missedAlways' = {}
    BY <2>1
  <2> QED BY <1>1, <2>2, FS_EmptySet DEF BatchesCount
<1>5. Reported'
  <2>1. ASSUME insertedIDs = {} PROVE missedEver' = {} /\ missedAlways' = {}
    BY <1>1, <1>2, <2>1
  <2> QED BY <1>1, <2>1, FS_EmptySet DEF Reported
<1>6. Watching'
  BY <1>1, <1>2 DEF Watching
<1> QED BY <1>1, <1>3, <1>4, <1>5, <1>6, CheckAssumption

\* One IN query: its ids leave unchecked, and the count lies between the ids of it
\* that were never absent and those that were not absent throughout.
LEMMA BatchKeepsCheckInv ==
    ASSUME IInv, LInv, IdsApart, CheckInv, CheckOneBatch
    PROVE  CheckInv'
<1>1. PICK B \in SUBSET unchecked :
         /\ found' = found + Cardinality(RowsOf(B))
         /\ unchecked' = unchecked \ B
  BY DEF CheckOneBatch, RowsOf
<1>2. /\ check = "batches" /\ check' = check /\ phase' = phase
      /\ UNCHANGED <<insertedIDs, Missing, totalInserted, lost, dropped, missedEver,
                     missedAlways>>
  BY DEF CheckOneBatch, resultVars, historyVars, vars, genVars, mainVars, metricsVars,
         trackingVars, pgVars, Missing, Table
<1>3. /\ unchecked \subseteq insertedIDs /\ insertedIDs \in SUBSET Nat
      /\ missedAlways \subseteq Missing /\ Missing \subseteq missedEver
      /\ found \in Nat
      /\ Cardinality(Asked \ missedEver) <= found
      /\ found <= Cardinality(Asked \ missedAlways)
  BY <1>2 DEF CheckInv, CheckTypeOK, Watching, BatchesCount, IInv, GenTypeOK
<1>4. IsFiniteSet(insertedIDs) /\ IsFiniteSet(B) /\ IsFiniteSet(Asked)
  BY <1>1, <1>3, MissingByCount, SetMinus, FS_Subset DEF Asked
<1>5. /\ Cardinality(RowsOf(B)) \in Nat
      /\ Cardinality(RowsOf(B)) = Cardinality(B \cap Ids(Table))
      /\ IsFiniteSet(B \cap Ids(Table))
  BY CountByIds
<1>6. /\ B \ missedEver \subseteq B \cap Ids(Table)
      /\ B \cap Ids(Table) \subseteq B \ missedAlways
  BY <1>1, <1>3 DEF Missing
<1>7. /\ Cardinality(B \ missedEver) <= Cardinality(RowsOf(B))
      /\ Cardinality(RowsOf(B)) <= Cardinality(B \ missedAlways)
  BY <1>4, <1>5, <1>6, SetMinus, FS_Subset
<1>8. ASSUME NEW M
      PROVE  /\ Cardinality(Asked' \ M) = Cardinality(Asked \ M) + Cardinality(B \ M)
             /\ Cardinality(Asked \ M) \in Nat /\ Cardinality(B \ M) \in Nat
  <2>1. /\ Asked' \ M = (Asked \ M) \cup (B \ M)
        /\ (Asked \ M) \cap (B \ M) = {}
    BY <1>1, <1>2, <1>3 DEF Asked
  <2>2. IsFiniteSet(Asked \ M) /\ IsFiniteSet(B \ M)
    BY <1>4, SetMinus
  <2>3. Cardinality((Asked \ M) \cap (B \ M)) = 0
    BY <2>1, FS_EmptySet
  <2>4. Cardinality(Asked \ M) \in Nat /\ Cardinality(B \ M) \in Nat
    BY <2>2, FS_CardinalityType
  <2>5. Cardinality((Asked \ M) \cup (B \ M))
           = Cardinality(Asked \ M) + Cardinality(B \ M) - Cardinality((Asked \ M) \cap (B \ M))
    BY <2>2, FS_Union
  <2> QED BY <2>1, <2>3, <2>4, <2>5
<1>9. BatchesCount'
  <2>1. /\ Cardinality(Asked' \ missedEver) <= found'
        /\ found' <= Cardinality(Asked' \ missedAlways)
    <3>1. /\ Cardinality(Asked' \ missedEver)
                = Cardinality(Asked \ missedEver) + Cardinality(B \ missedEver)
          /\ Cardinality(Asked \ missedEver) \in Nat /\ Cardinality(B \ missedEver) \in Nat
      BY <1>8
    <3>2. /\ Cardinality(Asked' \ missedAlways)
                = Cardinality(Asked \ missedAlways) + Cardinality(B \ missedAlways)
          /\ Cardinality(Asked \ missedAlways) \in Nat /\ Cardinality(B \ missedAlways) \in Nat
      BY <1>8
    <3>3. found' = found + Cardinality(RowsOf(B)) /\ Cardinality(RowsOf(B)) \in Nat
      BY <1>1, <1>5
    <3> QED BY <1>3, <1>7, <3>1, <3>2, <3>3
  <2> QED BY <1>1, <1>2, <1>3, <2>1 DEF BatchesCount
<1>10. CheckTypeOK'
  BY <1>1, <1>2, <1>3, <1>5 DEF CheckInv, CheckTypeOK
<1> QED BY <1>2, <1>9, <1>10 DEF CheckInv, Watching, Reported

\* total - found, and what the total and the count stand for.
LEMMA BatchesReport ==
    ASSUME IInv, LInv, CheckInv, BatchesDone
    PROVE  CheckInv'
<1>1. /\ check = "batches" /\ check' = "reported" /\ unchecked = {}
      /\ lost' = totalInserted - found /\ phase' = phase
      /\ UNCHANGED <<unchecked, found, totalInserted, dropped, missedEver, missedAlways>>
  BY DEF BatchesDone, historyVars, vars, genVars, mainVars
<1>2. /\ totalInserted = Cardinality(insertedIDs)
      /\ missedAlways \subseteq insertedIDs /\ missedEver \subseteq insertedIDs
      /\ Asked = insertedIDs /\ found \in Nat
      /\ Cardinality(insertedIDs \ missedEver) <= found
      /\ found <= Cardinality(insertedIDs \ missedAlways)
  BY <1>1 DEF CheckInv, CheckTypeOK, Watching, BatchesCount, Asked
<1>3. IsFiniteSet(insertedIDs) /\ Cardinality(insertedIDs) \in Nat
  BY MissingByCount
<1>4. ASSUME NEW M, M \subseteq insertedIDs
      PROVE  /\ Cardinality(M) \in Nat
             /\ Cardinality(insertedIDs \ M) = Cardinality(insertedIDs) - Cardinality(M)
  <2>1. insertedIDs \cap M = M
    BY <1>4
  <2>2. /\ Cardinality(insertedIDs \cap M) \in Nat
        /\ Cardinality(insertedIDs \ M)
              = Cardinality(insertedIDs) - Cardinality(insertedIDs \cap M)
    BY <1>3, SetMinus
  <2> QED BY <2>1, <2>2
<1>5. /\ Cardinality(missedEver) \in Nat /\ Cardinality(missedAlways) \in Nat
      /\ Cardinality(insertedIDs \ missedEver)
            = Cardinality(insertedIDs) - Cardinality(missedEver)
      /\ Cardinality(insertedIDs \ missedAlways)
            = Cardinality(insertedIDs) - Cardinality(missedAlways)
  BY <1>2, <1>4
<1>6. lost' \in 0..Cardinality(missedEver) /\ lost' >= Cardinality(missedAlways)
  BY <1>1, <1>2, <1>3, <1>5
<1>7. CheckTypeOK'
  BY <1>1, <1>6 DEF CheckInv, CheckTypeOK, CheckState
<1> QED BY <1>1, <1>6, <1>7 DEF CheckInv, Watching, BatchesCount, Reported

\* Rows that are not tracked raise the count, and so only hide losses.
LEMMA RangeReport ==
    ASSUME IInv, LInv, CheckInv, CheckRange
    PROVE  /\ CheckInv'
           /\ IdsApart /\ Ids(RowsInRange) \subseteq insertedIDs => lost' = Cardinality(Missing)
<1>1. /\ check = "range" /\ check' = "reported" /\ phase' = phase
      /\ lost' = RangeLost(totalInserted, Cardinality(RowsInRange))
      /\ UNCHANGED <<unchecked, found, totalInserted, dropped, missedEver, missedAlways>>
  BY DEF CheckRange, historyVars, vars, genVars, mainVars
<1>2. /\ totalInserted = Cardinality(insertedIDs) /\ totalInserted > RangeThreshold
      /\ Missing \subseteq missedEver /\ missedEver \subseteq insertedIDs
      /\ totalInserted \in Nat
  BY <1>1 DEF CheckInv, CheckTypeOK, Watching
<1>3. Table \subseteq Row /\ IsFiniteSet(Table) /\ insertedIDs \in SUBSET Nat
  BY HeldRows DEF IInv, GenTypeOK
<1>4. RowsOf(insertedIDs) \subseteq RowsInRange
  <2>1. \A r \in Table : r.id <= r.id
    BY <1>3 DEF Row
  <2> QED BY <2>1 DEF RowsOf, RowsInRange
<1>5. /\ IsFiniteSet(RowsInRange) /\ Cardinality(RowsInRange) \in Nat
      /\ Cardinality(RowsOf(insertedIDs)) <= Cardinality(RowsInRange)
  <2>1. RowsInRange \in SUBSET Table
    BY DEF RowsInRange
  <2> QED BY <1>3, <1>4, <2>1, FS_Subset, FS_CardinalityType
<1>6. /\ Cardinality(Missing) \in Nat /\ Cardinality(insertedIDs) \in Nat
      /\ Cardinality(insertedIDs \cap Ids(Table)) = totalInserted - Cardinality(Missing)
      /\ Cardinality(RowsOf(insertedIDs)) \in Nat
      /\ Cardinality(insertedIDs \cap Ids(Table)) <= Cardinality(RowsOf(insertedIDs))
      /\ IdsApart => Cardinality(insertedIDs \cap Ids(Table)) = Cardinality(RowsOf(insertedIDs))
  <2>1. /\ Cardinality(Missing) \in Nat /\ Cardinality(insertedIDs) \in Nat
        /\ Cardinality(Missing)
              = Cardinality(insertedIDs) - Cardinality(insertedIDs \cap Ids(Table))
    BY MissingByCount
  <2>2. /\ Cardinality(RowsOf(insertedIDs)) \in Nat
        /\ Cardinality(insertedIDs \cap Ids(Table)) \in Nat
        /\ Cardinality(insertedIDs \cap Ids(Table)) <= Cardinality(RowsOf(insertedIDs))
        /\ IdsApart => Cardinality(insertedIDs \cap Ids(Table))
                          = Cardinality(RowsOf(insertedIDs))
    BY CountByIds
  <2> QED BY <1>2, <2>1, <2>2
<1>7. lost' \in 0..Cardinality(Missing)
  BY <1>1, <1>2, <1>5, <1>6 DEF RangeLost
<1>8. CheckInv'
  <2>1. Cardinality(Missing) <= Cardinality(missedEver) /\ Cardinality(missedEver) \in Nat
    <3>1. IsFiniteSet(missedEver)
      BY <1>2, MissingByCount, FS_Subset
    <3> QED BY <1>2, <3>1, FS_Subset, FS_CardinalityType
  <2>2. lost' \in 0..Cardinality(missedEver)
    BY <1>6, <1>7, <2>1
  <2>3. CheckTypeOK'
    BY <1>1, <2>2 DEF CheckInv, CheckTypeOK, CheckState
  <2>4. ~(totalInserted <= RangeThreshold)
    BY <1>2, CheckAssumption
  <2> QED BY <1>1, <2>2, <2>3, <2>4 DEF CheckInv, Watching, BatchesCount, Reported
<1>9. ASSUME IdsApart, Ids(RowsInRange) \subseteq insertedIDs
      PROVE  lost' = Cardinality(Missing)
  <2>1. RowsInRange = RowsOf(insertedIDs)
    BY <1>4, <1>9 DEF RowsInRange, RowsOf, Ids
  <2> QED BY <1>1, <1>2, <1>6, <1>9, <2>1 DEF RangeLost
<1> QED BY <1>8, <1>9

LEMMA EndKeepsCheckInv ==
    ASSUME CheckInv, CheckFails \/ Cleanup \/ CleanupFails
    PROVE  CheckInv'
<1>1. /\ check' \in {"failed", "exited"} /\ phase' = phase /\ check # "idle"
      /\ UNCHANGED <<unchecked, found, missedEver, missedAlways>>
  BY DEF CheckFails, Cleanup, CleanupFails, historyVars, vars, genVars, mainVars
<1>2. totalInserted' \in Nat /\ lost' \in Int /\ dropped' \in BOOLEAN
  <2>1. CASE CheckFails
    BY <2>1 DEF CheckFails, CheckInv, CheckTypeOK
  <2>2. CASE Cleanup
    BY <2>2 DEF Cleanup, resultVars, CheckInv, CheckTypeOK
  <2>3. CASE CleanupFails
    BY <2>3 DEF CleanupFails, resultVars, CheckInv, CheckTypeOK
  <2> QED BY <2>1, <2>2, <2>3
<1>3. CheckTypeOK'
  BY <1>1, <1>2 DEF CheckInv, CheckTypeOK, CheckState
<1> QED BY <1>1, <1>3 DEF CheckInv, Watching, BatchesCount, Reported

\* Stop returns once.
LEMMA StoppedStays ==
    ASSUME IInv, LInv, [Next]_vars, phase = "stopped"
    PROVE  phase' = "stopped"
<1>1. [L!Next]_(L!vars)
  BY NextImplements
<1> QED BY <1>1 DEF L!Next, L!Insert, L!Commit, L!Lose, L!Track, L!Confirm, L!Close, L!vars,
                    L!ledgerVars

\* The server moves between two queries: ids go missing, and some come back when
\* the transaction of a client that is gone commits.
LEMMA WatchKeepsCheckInv ==
    ASSUME IInv, LInv, CheckInv, Watch,
           UNCHANGED <<check, unchecked, found, totalInserted, lost, dropped>>,
           phase = "stopped" => phase' = "stopped" /\ insertedIDs' = insertedIDs
    PROVE  CheckInv'
<1>1. check # "idle" => insertedIDs' = insertedIDs
  BY DEF CheckInv
<1>2. CASE check \in {"batches", "range"}
  <2>1. /\ missedEver' = missedEver \cup Missing'
        /\ missedAlways' = missedAlways \cap Missing'
        /\ insertedIDs' = insertedIDs /\ insertedIDs \in SUBSET Nat
        /\ Missing' \subseteq insertedIDs
    BY <1>1, <1>2 DEF Watch, IInv, GenTypeOK, Missing
  <2>2. CheckTypeOK'
    BY <2>1 DEF CheckInv, CheckTypeOK
  <2>3. Watching'
    BY <2>1 DEF CheckInv, Watching
  <2>4. BatchesCount'
    <3>1. SUFFICES ASSUME check = "batches" PROVE BatchesCount'
      BY DEF BatchesCount
    <3>2. /\ IsFiniteSet(Asked) /\ Asked' = Asked /\ found \in Nat
          /\ unchecked \subseteq insertedIDs
          /\ Cardinality(Asked \ missedEver) <= found
          /\ found <= Cardinality(Asked \ missedAlways)
      BY <2>1, <3>1, MissingByCount, SetMinus
         DEF Asked, CheckInv, CheckTypeOK, BatchesCount
    <3>3. /\ Asked \ missedEver' \subseteq Asked \ missedEver
          /\ Asked \ missedAlways \subseteq Asked \ missedAlways'
      BY <2>1
    <3>4. /\ Cardinality(Asked \ missedEver') <= Cardinality(Asked \ missedEver)
          /\ Cardinality(Asked \ missedAlways) <= Cardinality(Asked \ missedAlways')
          /\ Cardinality(Asked \ missedEver') \in Nat
          /\ Cardinality(Asked \ missedEver) \in Nat
          /\ Cardinality(Asked \ missedAlways) \in Nat
          /\ Cardinality(Asked \ missedAlways') \in Nat
      BY <3>2, <3>3, SetMinus, FS_Subset
    <3>5. /\ Cardinality(Asked \ missedEver') <= found
          /\ found <= Cardinality(Asked \ missedAlways')
      BY <3>2, <3>4
    <3> QED BY <2>1, <3>2, <3>5 DEF BatchesCount
  <2> QED BY <1>2, <2>2, <2>3, <2>4 DEF CheckInv, Reported
<1>3. CASE check \notin {"batches", "range"}
  <2>1. UNCHANGED <<missedEver, missedAlways>>
    BY <1>3 DEF Watch, historyVars
  <2> QED BY <1>3, <2>1
          DEF CheckInv, CheckTypeOK, Watching, BatchesCount, Reported
<1> QED BY <1>2, <1>3

LEMMA GeneratorKeepsCheckInv ==
    ASSUME IInv, LInv, CheckInv, GeneratorStep
    PROVE  CheckInv'
<1>1. /\ [Next]_vars /\ Watch
      /\ UNCHANGED <<check, unchecked, found, totalInserted, lost, dropped>>
  BY DEF GeneratorStep, resultVars
<1>2. phase = "stopped" => phase' = "stopped" /\ insertedIDs' = insertedIDs
  BY <1>1, StoppedStays, QuietStep DEF metricsVars, trackingVars
<1> QED BY <1>1, <1>2, WatchKeepsCheckInv

LEMMA CheckNextKeepsCheckInv ==
    ASSUME IInv, LInv, IdsApart, CheckInv, [CheckNext]_allVars
    PROVE  CheckInv'
<1>1. CASE UNCHANGED allVars
  <2>1. UNCHANGED <<insertedIDs, phase, Missing>> /\ UNCHANGED checkVars
    BY <1>1 DEF allVars, vars, genVars, mainVars, metricsVars, trackingVars, pgVars, Missing,
                Table
  <2> QED BY <2>1 DEF checkVars, resultVars, historyVars, CheckInv, CheckTypeOK, Watching,
                      BatchesCount, Reported, Asked
<1> QED BY <1>1, GeneratorKeepsCheckInv, BeginKeepsCheckInv, BatchKeepsCheckInv, BatchesReport,
           RangeReport, EndKeepsCheckInv DEF CheckNext, CheckDataLoss

-----------------------------------------------------------------------------
(* The theorems.                                                             *)

\* CheckDataLoss and Cleanup leave the generator alone: under them it is the generator
\* of LoadGeneratorV2, and what is proved of that holds.
THEOREM CheckIsQuiet == CheckSpec => Spec
<1>1. CheckInit => Init
  BY DEF CheckInit
<1>2. [CheckNext]_allVars => [Next]_vars
  BY DEF CheckNext, GeneratorStep, CheckDataLoss, BeginCheck, CheckOneBatch, BatchesDone,
         CheckRange, CheckFails, Cleanup, CleanupFails, allVars
<1> QED BY <1>1, <1>2, PTL DEF CheckSpec, Spec

LEMMA InitCheckInv == CheckInit => CheckInv
<1>1. CheckInit => CheckTypeOK
  <2> SUFFICES ASSUME CheckInit PROVE CheckTypeOK
    OBVIOUS
  <2>1. dropped \in BOOLEAN /\ unchecked \in SUBSET Nat
    BY DEF CheckInit
  <2> QED BY <2>1 DEF CheckInit, CheckTypeOK, CheckState
<1> QED BY <1>1 DEF CheckInit, CheckInv, Watching, BatchesCount, Reported

\* While CheckDataLoss runs, what it has found lies between the ids that were always
\* present and those that were present at some time, of the ids asked for so far.
THEOREM CheckInvariance == CheckSpec => [](IInv /\ LInv /\ IdsApart /\ CheckInv)
<1>1. CheckSpec => [](IInv /\ LInv /\ IdsApart)
  BY CheckIsQuiet, LedgerInvariance, PrimaryKey, PTL
<1>2. CheckInit => CheckInv
  BY InitCheckInv
<1>3. IInv /\ LInv /\ IdsApart /\ CheckInv /\ [CheckNext]_allVars => CheckInv'
  BY CheckNextKeepsCheckInv
<1> QED BY <1>1, <1>2, <1>3, PTL DEF CheckSpec

\* The report never counts more losses than ids that were absent at some moment of
\* the check: CheckDataLoss with its IN queries and with its range query alike.
THEOREM LossSound == CheckSpec => []LossNeverOverReported
<1>1. CheckInv => LossNeverOverReported
  BY DEF CheckInv, Reported, LossNeverOverReported
<1> QED BY <1>1, CheckInvariance, PTL

\* Up to 100000 ids, every id that stayed absent is counted as lost.
THEOREM BatchedComplete == CheckSpec => []BatchedLossNeverUnderReported
<1>1. CheckInv => BatchedLossNeverUnderReported
  BY DEF CheckInv, Reported, BatchedLossNeverUnderReported
<1> QED BY <1>1, CheckInvariance, PTL

\* Above that, the range query finds every loss if no other client and no earlier
\* run has rows in the range.
THEOREM RangeExact == CheckSpec => RangeLossExactAmongOwnRows
<1> DEFINE Exact == check = "range" /\ check' = "reported"
                       /\ Ids(RowsInRange) \subseteq insertedIDs => lost' = Cardinality(Missing)
<1>1. ASSUME IInv, LInv, IdsApart, CheckInv, [CheckNext]_allVars PROVE Exact
  <2>1. check = "range" /\ check' = "reported" => CheckRange
    BY <1>1 DEF CheckNext, GeneratorStep, CheckDataLoss, BeginCheck, CheckOneBatch,
                BatchesDone, CheckFails, Cleanup, CleanupFails, allVars, checkVars
  <2> QED BY <1>1, <2>1, RangeReport
<1>2. CheckSpec => [][Exact]_allVars
  <2>1. IInv /\ LInv /\ IdsApart /\ CheckInv /\ [CheckNext]_allVars => [Exact]_allVars
    BY <1>1
  <2> HIDE DEF Exact
  <2> QED BY <2>1, CheckInvariance, PTL DEF CheckSpec
<1> QED BY <1>2 DEF RangeLossExactAmongOwnRows

-----------------------------------------------------------------------------
(* A run that nothing disturbs, and its report.                              *)

\* When Stop has returned, no statement is under way.
LEMMA NothingUnderWay ==
    ASSUME IInv, RunInv, phase = "stopped", NEW s \in Sessions
    PROVE  xact[s] = "idle" /\ unread[s] = {}
<1>1. pc[s] \in {"none", "exited"}
  <2>1. Running = {}
    BY RunningFinite, FS_EmptySet DEF IInv, Control
  <2>2. pc[Main] = "none"
    BY DEF IInv, Control
  <2> QED BY <2>1, <2>2, GeneratorAssumption DEF Running
<1> QED BY <1>1 DEF RunInv, Engaged, NothingUnread

\* Then the ledger holds what was confirmed, all of it is in the table, and nothing is
\* missing.
LEMMA LedgerSettled ==
    IInv /\ LInv /\ RunInv /\ Undisturbed /\ phase = "stopped" =>
       received = confirmed /\ received \subseteq Table /\ Missing = {}
<1> SUFFICES ASSUME IInv, LInv, RunInv, Undisturbed, phase = "stopped"
             PROVE  received = confirmed /\ received \subseteq Table /\ Missing = {}
  OBVIOUS
<1>1. received \subseteq confirmed
  BY NothingUnderWay DEF Undisturbed
<1>2. received = confirmed /\ received \subseteq Table
  BY <1>1 DEF IInv, ConfirmedWereCommitted, Undisturbed
<1> QED BY <1>2 DEF Missing, LInv, LedgerCounts, Ids

\* There are as many ids as rows.
LEMMA AsManyIds ==
    ASSUME IInv, IdsApart, NEW R \in SUBSET Table
    PROVE  Cardinality(Ids(R)) = Cardinality(R)
<1>1. RowsOf(Ids(R)) = R
  BY DEF RowsOf, Ids, IdsApart, Held
<1>2. Ids(R) \cap Ids(Table) = Ids(R)
  BY DEF Ids
<1> QED BY <1>1, <1>2, CountByIds

\* The check of such a run: nothing has been found missing.
NothingMissed ==
    check \in {"batches", "range", "reported"} =>
       missedEver = {} /\ totalInserted = Cardinality(insertedIDs)

LEMMA StaysNothingMissed ==
    ASSUME IInv, LInv, RunInv, CheckInv, Undisturbed, NothingMissed,
           IInv', LInv', RunInv', Undisturbed', [CheckNext]_allVars
    PROVE  NothingMissed'
<1>1. CASE BeginCheck
  <2>1. Missing = {}
    BY <1>1, LedgerSettled DEF BeginCheck
  <2>2. missedEver' = {} /\ totalInserted' = Cardinality(insertedIDs) /\ insertedIDs' = insertedIDs
    BY <1>1, <2>1 DEF BeginCheck, vars, genVars, metricsVars, trackingVars
  <2> QED BY <2>2 DEF NothingMissed
<1>2. CASE GeneratorStep
  <2> SUFFICES ASSUME check' \in {"batches", "range", "reported"}
               PROVE  missedEver' = {} /\ totalInserted' = Cardinality(insertedIDs')
    BY DEF NothingMissed
  <2>1. /\ [Next]_vars /\ Watch
        /\ UNCHANGED <<check, totalInserted>>
    BY <1>2 DEF GeneratorStep, resultVars
  <2>2. phase = "stopped" /\ phase' = "stopped"
    <3>1. phase = "stopped"
      BY <2>1 DEF CheckInv
    <3> QED BY <2>1, <3>1, StoppedStays
  <2>3. insertedIDs' = insertedIDs
    BY <2>1, <2>2, QuietStep DEF metricsVars, trackingVars
  <2>4. Missing' = {}
    <3>1. (IInv /\ LInv /\ RunInv /\ Undisturbed /\ phase = "stopped" =>
             received = confirmed /\ received \subseteq Table /\ Missing = {})'
      BY LedgerSettled, PTL
    <3> QED BY <2>2, <3>1
  <2> QED BY <2>1, <2>3, <2>4 DEF NothingMissed, Watch, historyVars
<1>3. CASE CheckOneBatch \/ BatchesDone \/ CheckRange
  BY <1>3 DEF NothingMissed, CheckOneBatch, BatchesDone, CheckRange, resultVars, historyVars,
              vars, genVars, metricsVars, trackingVars
<1>4. CASE CheckFails \/ Cleanup \/ CleanupFails
  BY <1>4 DEF NothingMissed, CheckFails, Cleanup, CleanupFails
<1>5. CASE UNCHANGED allVars
  BY <1>5 DEF NothingMissed, allVars, checkVars, resultVars, historyVars, vars, genVars,
              metricsVars, trackingVars
<1> QED BY <1>1, <1>2, <1>3, <1>4, <1>5 DEF CheckNext, CheckDataLoss

\* What it reports: no loss, and as many rows as were confirmed.
LEMMA ReportIsExact ==
    ASSUME IInv, LInv, IdsApart, RunInv, CheckInv, Undisturbed, NothingMissed,
           check = "reported"
    PROVE  lost = 0 /\ received = confirmed /\ totalInserted = Cardinality(confirmed)
<1>1. received = confirmed /\ received \subseteq Table
  BY LedgerSettled DEF CheckInv
<1>2. insertedIDs = Ids(confirmed)
  BY <1>1 DEF LInv, LedgerCounts
<1>3. lost = 0
  <2>1. Cardinality(missedEver) = 0
    BY FS_EmptySet DEF NothingMissed
  <2> QED BY <2>1 DEF CheckInv, Reported
<1> QED BY <1>1, <1>2, <1>3, AsManyIds DEF NothingMissed

LEMMA CheckFaultFree ==
    CheckSpec => [](IInv /\ LInv /\ IdsApart /\ CheckInv /\ RunInv /\ FaultFree)
<1> DEFINE I == IInv /\ LInv
           J == RunInv /\ FaultFree
<1>1. Init => J
  BY InitRunInv, InitFaultFree
<1>2. I /\ J /\ [Next]_vars => J'
  BY NextKeepsRunInv, NextKeepsFaultFree
<1>3. Spec => []I
  BY LedgerInvariance
<1> HIDE DEF I, J
<1>4. Spec => []J
  BY <1>1, <1>2, <1>3, PTL DEF Spec
<1>5. CheckSpec => [](RunInv /\ FaultFree)
  BY <1>4, CheckIsQuiet, PTL DEF J
<1> QED BY <1>5, CheckInvariance, PTL

\* A run without a fault that ends before its deadline reports no loss, and its total
\* is the number of rows it has put into the table.
THEOREM CleanReport == CheckSpec => []FaultFreeReportIsClean
<1> DEFINE I == IInv /\ LInv /\ IdsApart /\ CheckInv /\ RunInv /\ FaultFree
           J == faults = 0 /\ ~ctxDone => NothingMissed
<1>1. CheckInit => J
  BY DEF CheckInit, NothingMissed
<1>2. I /\ J /\ I' /\ [CheckNext]_allVars => J'
  <2> SUFFICES ASSUME I, J, I', [CheckNext]_allVars, faults' = 0, ~ctxDone'
               PROVE  NothingMissed'
    OBVIOUS
  <2>1. [Next]_vars
    BY DEF CheckNext, GeneratorStep, CheckDataLoss, BeginCheck, CheckOneBatch, BatchesDone,
           CheckRange, CheckFails, Cleanup, CleanupFails, allVars
  <2>2. faults = 0 /\ ~ctxDone
    BY <2>1, FaultsGrow DEF IInv, PgInv, PgTypeOK
  <2> QED BY <2>2, StaysNothingMissed DEF FaultFree
<1>3. I /\ J => FaultFreeReportIsClean
  <2> SUFFICES ASSUME I, J, check = "reported", faults = 0, ~ctxDone
               PROVE  lost = 0 /\ totalInserted = Cardinality(Table \ pre)
    BY DEF FaultFreeReportIsClean
  <2>1. Undisturbed /\ Alone /\ NothingMissed /\ phase = "stopped"
    BY DEF FaultFree, CheckInv
  <2>2. Table \ pre = confirmed
    BY <2>1, NothingUnderWay DEF Alone, Undisturbed, RunInv
  <2> QED BY <2>1, <2>2, ReportIsExact
<1>4. CheckSpec => []I
  BY CheckFaultFree
<1> HIDE DEF I, J
<1> QED BY <1>1, <1>2, <1>3, <1>4, PTL DEF CheckSpec
=============================================================================
