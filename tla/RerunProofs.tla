----------------------------- MODULE RerunProofs -----------------------------
(***************************************************************************)
(* A client that is started again, as often as it may be and in whatever      *)
(* state the last one was killed: the invariant of a single run holds in      *)
(* every run, the report is about the run's own rows, and the seeding of an    *)
(* empty table is not repeated.                                              *)
(***************************************************************************)
EXTENDS Rerun, DataLossCheckProofs

\* A table is dropped by a client that has nothing more to do, and whose database has
\* nothing more to do either.
DroppedQuietly == dropped => check = "exited" /\ OpenRows = {}

\* What holds in every run of the client.
AnyRun ==
    /\ IInv
    /\ LInv
    /\ IdsApart
    /\ RunInv
    /\ Credited
    /\ CheckInv
    /\ DroppedQuietly

\* While no fault has been counted since the start of the run, and its context has not
\* expired.
CalmRun ==
    /\ faultsBefore \in Nat /\ faultsBefore <= faults
    /\ faults = faultsBefore /\ ~ctxDone => Undisturbed /\ NothingMissed

-----------------------------------------------------------------------------
(* The start of a run.                                                      *)

\* What a client that was killed leaves open goes on without it, and the next one finds
\* neither more rows than there were nor ids that were not drawn.
LEMMA RestartDatabase ==
    ASSUME AnyRun, Restart
    PROVE  /\ Table' \subseteq Table /\ (~dropped => Table' = Table)
           /\ log' \in Seq(SUBSET Row) /\ \A i \in 1..Len(log') : log'[i] \subseteq Table'
           /\ OpenRows' = OpenRows
           /\ orphans' \in SUBSET SUBSET Row /\ \A o \in orphans' : IsFiniteSet(o)
           /\ seq' \in Nat /\ (~dropped => seq' = seq)
           /\ dropped => OpenRows' = {} /\ Table' = {}
<1> USE DEF AnyRun, IInv, PgInv, PgTypeOK, PgFinite
<1>1. /\ log' = IF dropped THEN <<>> ELSE log
      /\ seq' = IF dropped THEN 0 ELSE seq
      /\ orphans' = orphans \cup {rows[s] : s \in {x \in Sessions : xact[x] = "open"}}
      /\ xact' = [s \in Sessions |-> "idle"]
  BY DEF Restart, DatabaseLeft, FreshClient
<1>2. /\ Table' \subseteq Table /\ (~dropped => Table' = Table) /\ (dropped => Table' = {})
  <2>1. CASE dropped
    <3>1. Table' = {}
      BY <1>1, <2>1 DEF Table
    <3> QED BY <2>1, <3>1
  <2>2. CASE ~dropped
    BY <1>1, <2>2 DEF Table
  <2> QED BY <2>1, <2>2
<1>3. OpenRows' = OpenRows
  <2>1. ASSUME NEW r PROVE r \in OpenRows' <=> r \in OpenRows
    BY <1>1, OpenRowsMember
  <2> QED BY <2>1
<1>4. /\ log' \in Seq(SUBSET Row) /\ \A i \in 1..Len(log') : log'[i] \subseteq Table'
  <2>1. log' \in Seq(SUBSET Row)
    BY <1>1
  <2> QED BY <2>1 DEF Table
<1>5. orphans' \in SUBSET SUBSET Row /\ \A o \in orphans' : IsFiniteSet(o)
  BY <1>1
<1>6. seq' \in Nat /\ (~dropped => seq' = seq)
  BY <1>1
<1> QED BY <1>2, <1>3, <1>4, <1>5, <1>6 DEF DroppedQuietly

LEMMA RestartIInv ==
    ASSUME AnyRun, Restart
    PROVE  IInv'
<1> USE GeneratorAssumption DEF Restart, FreshClient, DatabaseLeft
<1>1. PgTypeOK'
  <2>1. Table' \in SUBSET Row
    BY RestartDatabase, HeldRows DEF AnyRun
  <2> QED BY <2>1, RestartDatabase DEF PgTypeOK, XactState, AnyRun, IInv, PgInv
<1>2. PgFinite'
  <2>1. IsFiniteSet(Table')
    BY RestartDatabase, HeldRows, FS_Subset DEF AnyRun
  <2> QED BY <2>1, RestartDatabase, FS_EmptySet DEF PgFinite
<1>3. CommittedInEver'
  BY RestartDatabase DEF CommittedInEver
<1>4. GenTypeOK'
  <2>1. /\ pc' \in [Sessions -> Location]
        /\ attempts' \in [Sessions -> 0..MaxAttempts]
        /\ total' \in [Kind -> Nat]
    BY DEF Location, MaxAttempts
  <2>2. ctxDone' \in BOOLEAN /\ stopClosed' \in BOOLEAN /\ phase' \in Phase
    BY DEF Phase
  <2>3. insertedIDs' \in SUBSET Nat /\ received' \in SUBSET Row /\ confirmed' \in SUBSET Row
    OBVIOUS
  <2> QED BY <2>1, <2>2, <2>3 DEF GenTypeOK
<1>5. Control'
  <2>1. Running' = {}
    BY DEF Running
  <2>2. Cardinality(Running') = 0
    BY <2>1, FS_EmptySet
  <2> QED BY <2>2 DEF Control
<1>6. ConfirmedWereCommitted' /\ RowsTrackedOrUnread'
  BY DEF ConfirmedWereCommitted, RowsTrackedOrUnread
<1> QED BY <1>1, <1>2, <1>3, <1>4, <1>5, <1>6 DEF IInv, PgInv

LEMMA RestartLInv ==
    ASSUME AnyRun, Restart
    PROVE  LInv' /\ IdsApart'
<1> USE DEF Restart, FreshClient, DatabaseLeft
<1>1. ComingRows' = {}
  BY DEF ComingRows
<1>2. Seen' \subseteq Seen /\ (dropped => Seen' = {})
  BY <1>1, RestartDatabase, TableInEver DEF Seen, AnyRun, IInv
<1>3. RowsInTime'
  BY <1>2, RestartDatabase DEF RowsInTime, AnyRun, LInv
<1>4. TransactionsApart'
  <2>1. \A o, p \in orphans' : o # p => o \cap p = {}
    BY DEF AnyRun, LInv, TransactionsApart
  <2>2. OpenRows' = OpenRows /\ ever' = Table' /\ Table' \subseteq Table
    BY RestartDatabase
  <2>3. Table \subseteq ever
    BY TableInEver DEF AnyRun, IInv
  <2>4. OpenRows \cap ever = {}
    BY DEF AnyRun, LInv, TransactionsApart
  <2>5. OpenRows' \cap ever' = {}
    <3> HIDE DEF Restart, FreshClient, DatabaseLeft
    <3> QED BY <2>2, <2>3, <2>4
  <2> QED BY <2>1, <2>5 DEF TransactionsApart
<1>5. AnswersApart'
  BY <1>1 DEF AnswersApart
<1>6. LedgerCounts'
  BY FS_EmptySet DEF LedgerCounts, Ids
<1>7. IdsApart'
  <2>1. CASE dropped
    BY <2>1, RestartDatabase DEF IdsApart, Held
  <2>2. CASE ~dropped
    BY <2>2, RestartDatabase DEF IdsApart, Held, AnyRun
  <2> QED BY <2>1, <2>2
<1> QED BY <1>3, <1>4, <1>5, <1>6, <1>7 DEF LInv

\* A client that has just been started, has been given nothing and has asked nothing.
LEMMA RestartFresh ==
    ASSUME Restart
    PROVE  /\ RunInv' /\ Credited' /\ CheckInv' /\ DroppedQuietly' /\ Undisturbed'
           /\ NothingMissed'
<1> USE GeneratorAssumption DEF Restart, FreshClient, FreshCheck, DatabaseLeft
<1>1. RunInv'
  BY DEF RunInv, Engaged, Batches, NothingUnread
<1>2. CheckInv'
  <2>1. dropped' \in BOOLEAN /\ unchecked' \in SUBSET Nat
    OBVIOUS
  <2>2. CheckTypeOK'
    BY <2>1 DEF CheckTypeOK, CheckState
  <2>3. check' = "idle" /\ found' = 0 /\ lost' = 0
    OBVIOUS
  <2> QED BY <2>2, <2>3 DEF CheckInv, Watching, BatchesCount, Reported
<1>3. DroppedQuietly' /\ NothingMissed'
  BY DEF DroppedQuietly, NothingMissed
<1>4. Undisturbed'
  BY DEF Undisturbed, ComingRows
<1>5. Credited'
  <2>1. Crediting' = {} /\ SeedCredit' = 0
    BY DEF Crediting, SeedCredit
  <2>2. /\ Cardinality(Crediting') = 0 /\ Cardinality(confirmed') = 0
        /\ seeded' = 0 /\ total'["inserts"] = 0
    BY <2>1, FS_EmptySet DEF Kind
  <2>3. Credit' = 0
    BY <2>1, <2>2 DEF Credit
  <2> QED BY <2>2, <2>3 DEF Credited
<1> QED BY <1>1, <1>2, <1>3, <1>4, <1>5

LEMMA RestartKeepsAnyRun ==
    ASSUME AnyRun, Restart
    PROVE  AnyRun'
BY RestartIInv, RestartLInv, RestartFresh DEF AnyRun

-----------------------------------------------------------------------------
(* The steps of a run.                                                      *)

\* A step of the generator, or one that leaves it as it is.
LEMMA CheckStepsQuietly ==
    ASSUME [CheckNext]_allVars
    PROVE  [Next]_vars
BY DEF CheckNext, GeneratorStep, CheckDataLoss, BeginCheck, CheckOneBatch, BatchesDone,
       CheckRange, CheckFails, Cleanup, CleanupFails, allVars

LEMMA CheckKeepsDroppedQuietly ==
    ASSUME AnyRun, [CheckNext]_allVars
    PROVE  DroppedQuietly'
<1>1. CASE dropped
  <2>1. check = "exited" /\ OpenRows = {}
    BY <1>1 DEF AnyRun, DroppedQuietly
  <2>2. UNCHANGED allVars
    BY <2>1 DEF CheckNext, GeneratorStep, CheckDataLoss, BeginCheck, CheckOneBatch, BatchesDone,
                CheckRange, CheckFails, Cleanup, CleanupFails
  <2> QED BY <2>1, <2>2 DEF DroppedQuietly, allVars, checkVars, vars, pgVars, OpenRows
<1>2. CASE Cleanup
  <2>1. phase = "stopped" /\ orphans = {} /\ check' = "exited"
    BY <1>2 DEF Cleanup, AnyRun, CheckInv
  <2>2. OpenRows = {}
    BY <2>1, NothingUnderWay DEF AnyRun, OpenRows
  <2>3. OpenRows' = OpenRows
    BY <1>2 DEF Cleanup, vars, pgVars, OpenRows
  <2> QED BY <2>1, <2>2, <2>3 DEF DroppedQuietly
<1>3. CASE ~dropped /\ ~Cleanup
  <2>1. dropped' = dropped
    BY <1>3 DEF CheckNext, GeneratorStep, CheckDataLoss, BeginCheck, CheckOneBatch, BatchesDone,
                CheckRange, CheckFails, CleanupFails, allVars, checkVars
  <2> QED BY <1>3, <2>1 DEF DroppedQuietly
<1> QED BY <1>1, <1>2, <1>3 DEF AnyRun, CheckInv, CheckTypeOK

LEMMA CheckKeepsAnyRun ==
    ASSUME AnyRun, [CheckNext]_allVars
    PROVE  AnyRun'
<1>1. [Next]_vars
  BY CheckStepsQuietly
<1>2. IInv' /\ LInv' /\ RunInv' /\ Credited'
  BY <1>1, NextIInv, NextImplements, NextKeepsRunInv, NextCredited DEF AnyRun, RunInv
<1>3. IdsApart'
  BY <1>1, NextKeepsIdsApart DEF AnyRun
<1>4. CheckInv'
  BY CheckNextKeepsCheckInv DEF AnyRun
<1> QED BY <1>2, <1>3, <1>4, CheckKeepsDroppedQuietly DEF AnyRun

LEMMA CheckKeepsCalmRun ==
    ASSUME AnyRun, AnyRun', CalmRun, [CheckNext]_allVars, faultsBefore' = faultsBefore
    PROVE  CalmRun'
<1>1. [Next]_vars
  BY CheckStepsQuietly
<1>2. faults \in Nat /\ faults' \in Nat /\ faults <= faults' /\ (ctxDone => ctxDone')
  BY <1>1, FaultsGrow DEF AnyRun, IInv, PgInv, PgTypeOK
<1>3. faultsBefore' \in Nat /\ faultsBefore' <= faults'
  BY <1>2 DEF CalmRun
<1>4. ASSUME faults' = faultsBefore', ~ctxDone' PROVE Undisturbed' /\ NothingMissed'
  <2>1. faults = faultsBefore /\ faults' = faults /\ ~ctxDone
    BY <1>2, <1>4 DEF CalmRun
  <2>2. Undisturbed /\ NothingMissed
    BY <2>1 DEF CalmRun
  <2>3. Undisturbed'
    BY <1>1, <1>4, <2>1, <2>2, StaysUndisturbed DEF AnyRun, IInv, LInv, RunInv
  <2> QED BY <2>2, <2>3, StaysNothingMissed DEF AnyRun
<1> QED BY <1>3, <1>4 DEF CalmRun

-----------------------------------------------------------------------------
(* Every run.                                                               *)

LEMMA RerunInitInv == RerunInit => AnyRun /\ CalmRun
<1> SUFFICES ASSUME RerunInit PROVE AnyRun /\ CalmRun
  OBVIOUS
<1>1. Init /\ CheckInit
  BY DEF RerunInit, CheckInit
<1>2. AnyRun
  <2>1. DroppedQuietly
    BY <1>1 DEF CheckInit, DroppedQuietly
  <2>2. Credited
    BY <1>1, NothingCredited DEF Init, Kind
  <2> QED BY <1>1, <2>1, <2>2, InitIInv, InitImplements, InitIdsApart, InitRunInv, InitCheckInv
          DEF AnyRun
<1>3. CalmRun
  <2>1. faults = 0 /\ faultsBefore = 0 /\ ~ctxDone /\ check = "idle"
    BY <1>1 DEF RerunInit, CheckInit, Init, PgInit
  <2>2. Undisturbed /\ NothingMissed
    BY <1>1, <2>1, InitFaultFree DEF FaultFree, NothingMissed
  <2> QED BY <2>1, <2>2 DEF CalmRun
<1> QED BY <1>2, <1>3

LEMMA RestartKeepsCalmRun ==
    ASSUME AnyRun, Restart
    PROVE  CalmRun'
<1>1. faultsBefore' = faults /\ faults' = faults /\ faults \in Nat
  BY DEF Restart, DatabaseLeft, AnyRun, IInv, PgInv, PgTypeOK
<1> QED BY <1>1, RestartFresh DEF CalmRun

\* However often the client is started, and in whatever state it is killed, the
\* invariant of a single run holds in each.
THEOREM RerunInvariance == RerunSpec => [](AnyRun /\ CalmRun)
<1>1. RerunInit => AnyRun /\ CalmRun
  BY RerunInitInv
<1>2. AnyRun /\ CalmRun /\ [RerunNext]_<<allVars, runVars>> => AnyRun' /\ CalmRun'
  <2> SUFFICES ASSUME AnyRun, CalmRun, [RerunNext]_<<allVars, runVars>>
               PROVE  AnyRun' /\ CalmRun'
    OBVIOUS
  <2>1. CASE Restart
    BY <2>1, RestartKeepsAnyRun, RestartKeepsCalmRun
  <2>2. CASE ~Restart
    <3>1. [CheckNext]_allVars /\ faultsBefore' = faultsBefore
      BY <2>2 DEF RerunNext, runVars
    <3> QED BY <3>1, CheckKeepsAnyRun, CheckKeepsCalmRun
  <2> QED BY <2>1, <2>2
<1> QED BY <1>1, <1>2, PTL DEF RerunSpec

\* What was proved of a single run of the generator and of its check holds of every run
\* of a client that is started again: types, that the ledger holds every success the
\* report counts, and both bounds of the report.
THEOREM EveryRunSound ==
    RerunSpec => [](/\ TypeOK /\ ConfirmedWereCommitted /\ SuccessesTracked
                    /\ LossNeverOverReported /\ BatchedLossNeverUnderReported)
<1>1. AnyRun => /\ TypeOK /\ ConfirmedWereCommitted
                /\ LossNeverOverReported /\ BatchedLossNeverUnderReported
  BY DEF AnyRun, IInv, PgInv, TypeOK, CheckInv, Reported, LossNeverOverReported,
         BatchedLossNeverUnderReported
<1>2. AnyRun => SuccessesTracked
  BY CreditedTracked DEF AnyRun
<1> QED BY <1>1, <1>2, RerunInvariance, PTL

\* The report of a run that saw no fault is about exactly the rows its own batches were
\* confirmed for, and it reports no loss, whatever earlier runs have left behind and
\* whatever they still commit.
THEOREM OwnReport == RerunSpec => []ReportIsOwn
<1>1. AnyRun /\ CalmRun => ReportIsOwn
  BY ReportIsExact DEF AnyRun, CalmRun, ReportIsOwn
<1> QED BY <1>1, RerunInvariance, PTL

-----------------------------------------------------------------------------
(* Seeding.                                                                 *)

\* The batches that clients which were killed, and statements that were sent again, may
\* have added.
Quota == (run - 1 + faults) * SeedBatch

\* A batch that is open or committed is not yet in seeded; nor is one that was given up,
\* for which main is about to exit.
SlotRows ==
    IF xact[Main] \in {"open", "committed"} \/ pc[Main] \in {"count", "error"}
    THEN BatchOf(Main) ELSE 0

GivenRows == IF pc[Main] = "error" \/ phase = "failed" THEN SeedBatch ELSE 0

\* How many rows the primary holds, and how many of them nobody waits for any more.
SeedBounds ==
    /\ Cardinality(Held) <= SeedRows + Quota
    /\ phase = "seeding" => Cardinality(Held) <= seeded + SlotRows + Quota
    /\ Cardinality(UNION orphans) <= Quota + GivenRows

SeedInv ==
    /\ run \in Nat \ {0}
    /\ phase = "init" => seeded = 0
    /\ phase = "failed" => pc[Main] = "none"
    /\ phase \in {"running", "stopping", "stopped"} => tested
    /\ ~tested => SeedBounds

-----------------------------------------------------------------------------
(* Numbers of rows.                                                         *)

\* The ids of the rows the primary holds are different numbers up to seq.
LEMMA HeldFinite ==
    IInv /\ IdsApart => IsFiniteSet(Held)
<1> SUFFICES ASSUME IInv, IdsApart PROVE IsFiniteSet(Held)
  OBVIOUS
<1> DEFINE f == [r \in Held |-> r.id]
<1>1. seq \in Nat /\ Held \subseteq Row
  BY HeldRows DEF IInv, PgInv, PgTypeOK, Held
<1>2. IsFiniteSet(0..seq)
  BY <1>1, FS_Interval
<1>3. \A r \in Held : r.id \in 0..seq
  BY <1>1 DEF IdsApart, Row
<1>4. f \in [Held -> 0..seq] /\ \A r, q \in Held : f[r] = f[q] => r = q
  BY <1>3 DEF IdsApart
<1>5. f \in Injection(Held, 0..seq)
  BY <1>4 DEF Injection, IsInjective
<1> HIDE DEF f
<1> QED BY <1>2, <1>5, FS_Injection

LEMMA OrphansHeld ==
    UNION orphans \subseteq Held
BY OpenRowsMember DEF Held

LEMMA RowCounts ==
    ASSUME AnyRun
    PROVE  /\ IsFiniteSet(Held) /\ Cardinality(Held) \in Nat
           /\ IsFiniteSet(UNION orphans) /\ Cardinality(UNION orphans) \in Nat
           /\ \A X : X \subseteq Held =>
                 IsFiniteSet(X) /\ Cardinality(X) \in Nat /\ Cardinality(X) <= Cardinality(Held)
           /\ \A X : X \subseteq UNION orphans =>
                 Cardinality(X) \in Nat /\ Cardinality(X) <= Cardinality(UNION orphans)
<1>1. IsFiniteSet(Held)
  BY HeldFinite DEF AnyRun
<1>2. IsFiniteSet(UNION orphans)
  BY <1>1, OrphansHeld, FS_Subset
<1> QED BY <1>1, <1>2, FS_Subset, FS_CardinalityType

\* A statement of main has a batch of the seeding, at most.
LEMMA BatchBound ==
    ASSUME AnyRun
    PROVE  /\ BatchOf(Main) \in Nat /\ BatchOf(Main) <= SeedBatch
           /\ seeded \in Nat /\ seeded + BatchOf(Main) <= SeedRows
           /\ SlotRows \in Nat /\ SlotRows <= BatchOf(Main)
           /\ GivenRows \in Nat /\ GivenRows <= SeedBatch
<1>1. BatchOf(Main) \in Nat /\ seeded + BatchOf(Main) \in 0..SeedRows /\ seeded \in Nat
  BY GeneratorAssumption, BatchOfNat DEF AnyRun, IInv, GenTypeOK
<1>2. BatchOf(Main) <= SeedBatch
  BY GeneratorAssumption DEF BatchOf, Smaller, AnyRun, IInv, GenTypeOK
<1>3. SlotRows \in Nat /\ SlotRows <= BatchOf(Main)
  BY <1>1 DEF SlotRows
<1>4. GivenRows \in Nat /\ GivenRows <= SeedBatch
  BY GeneratorAssumption DEF GivenRows
<1> QED BY <1>1, <1>2, <1>3, <1>4, GeneratorAssumption

LEMMA ProductGrows ==
    ASSUME NEW r \in Nat \ {0}, NEW f \in Nat, NEW b \in Nat
    PROVE  /\ (r - 1 + f) * b \in Nat
           /\ (r - 1 + (f + 1)) * b = (r - 1 + f) * b + b
           /\ ((r + 1) - 1 + f) * b = (r - 1 + f) * b + b
<1> DEFINE a == r - 1 + f
<1>1. a \in Nat /\ r - 1 + (f + 1) = a + 1 /\ (r + 1) - 1 + f = a + 1
  OBVIOUS
<1> HIDE DEF a
<1>2. a * b \in Nat /\ (a + 1) * b = a * b + b
  BY <1>1
<1> QED BY <1>1, <1>2 DEF a

LEMMA QuotaGrows ==
    ASSUME run \in Nat \ {0}, faults \in Nat
    PROVE  /\ Quota \in Nat
           /\ run' = run /\ faults' = faults => Quota' = Quota
           /\ (\/ run' = run /\ faults' = faults + 1
               \/ run' = run + 1 /\ faults' = faults) => Quota' = Quota + SeedBatch
<1>1. SeedBatch \in Nat
  BY GeneratorAssumption
<1> QED BY <1>1, ProductGrows DEF Quota

\* Before the test, only main is in the database, and only while it seeds.
LEMMA OnlyMain ==
    ASSUME AnyRun, SeedInv, ~tested
    PROVE  /\ phase \in {"init", "seeding", "failed"}
           /\ check = "idle" /\ ~dropped
           /\ \A s \in Sessions : xact[s] # "idle" => s = Main /\ phase = "seeding"
           /\ \A w \in Workers : pc[w] = "none"
           /\ phase = "init" => pc[Main] = "none"
<1>1. phase \in {"init", "seeding", "failed"}
  BY DEF SeedInv, AnyRun, IInv, GenTypeOK, Phase
<1>2. check = "idle" /\ ~dropped
  BY <1>1 DEF AnyRun, CheckInv, DroppedQuietly
<1>3. \A w \in Workers : pc[w] = "none"
  BY <1>1 DEF AnyRun, IInv, Control
<1>4. \A s \in Sessions : xact[s] # "idle" => s = Main /\ phase = "seeding"
  BY <1>1, <1>3, GeneratorAssumption DEF AnyRun, RunInv, Engaged, SeedInv
<1> QED BY <1>1, <1>2, <1>3, <1>4 DEF AnyRun, RunInv, Engaged

-----------------------------------------------------------------------------
(* Steps.                                                                   *)

\* Rows are moved or forgotten: what the quota gains makes up for the rows nobody waits
\* for any more, and for those that are not seeded after all.
LEMMA RowsStep ==
    ASSUME AnyRun, AnyRun', run \in Nat \ {0}, SeedBounds, Held' \subseteq Held,
           NEW x \in Nat, Cardinality(UNION orphans') <= Cardinality(UNION orphans) + x,
           NEW d \in Nat, Quota' = Quota + d,
           \/ GivenRows <= GivenRows' /\ x <= d
           \/ GivenRows = 0 /\ x <= GivenRows'
           \/ GivenRows + x <= d,
           phase' = "seeding" =>
              /\ phase = "seeding"
              /\ \/ seeded' = seeded /\ (SlotRows <= d \/ SlotRows <= SlotRows')
                 \/ seeded' = seeded + SlotRows
    PROVE  SeedBounds'
<1> DEFINE h == Cardinality(Held)
           k == Cardinality(Held')
           o == Cardinality(UNION orphans)
           p == Cardinality(UNION orphans')
           q == Quota
           q2 == Quota'
           g == GivenRows
           g2 == GivenRows'
           t == SlotRows
           t2 == SlotRows'
           e == seeded
           e2 == seeded'
<1>1. k <= h /\ k \in Nat /\ h \in Nat /\ o \in Nat
  BY RowCounts
<1>2. q2 = q + d /\ q \in Nat
  BY QuotaGrows DEF AnyRun, IInv, PgInv, PgTypeOK
<1>3. g \in Nat /\ t \in Nat /\ e \in Nat
  BY BatchBound
<1>4. g2 \in Nat /\ t2 \in Nat /\ e2 \in Nat /\ p \in Nat
  <2>1. (AnyRun => GivenRows \in Nat /\ SlotRows \in Nat /\ seeded \in Nat)'
    BY BatchBound, PTL
  <2>2. (AnyRun => Cardinality(UNION orphans) \in Nat)'
    BY RowCounts, PTL
  <2> QED BY <2>1, <2>2
<1>5. SeedRows \in Nat
  BY GeneratorAssumption
<1>6. /\ h <= SeedRows + q
      /\ phase = "seeding" => h <= e + t + q
      /\ o <= q + g
      /\ p <= o + x
      /\ (g <= g2 /\ x <= d) \/ (g = 0 /\ x <= g2) \/ g + x <= d
      /\ phase' = "seeding" =>
            /\ phase = "seeding"
            /\ (e2 = e /\ (t <= d \/ t <= t2)) \/ e2 = e + t
  BY DEF SeedBounds
<1> HIDE DEF h, k, o, p, q, q2, g, g2, t, t2, e, e2
<1>7. k <= SeedRows + q2
  BY <1>1, <1>2, <1>5, <1>6
<1>8. phase' = "seeding" => k <= e2 + t2 + q2
  BY <1>1, <1>2, <1>3, <1>4, <1>6
<1>9. p <= q2 + g2
  BY <1>1, <1>2, <1>3, <1>4, <1>6
<1> QED BY <1>7, <1>8, <1>9 DEF SeedBounds, k, p, q2, t2, e2, g2

\* Without a fault, and without a statement that is given up.
LEMMA PlainStep ==
    ASSUME AnyRun, AnyRun', run \in Nat \ {0}, SeedBounds, UNCHANGED <<run, faults>>,
           Held' \subseteq Held, UNION orphans' \subseteq UNION orphans,
           GivenRows <= GivenRows',
           phase' = "seeding" =>
              /\ phase = "seeding"
              /\ \/ seeded' = seeded /\ SlotRows <= SlotRows'
                 \/ seeded' = seeded + SlotRows
    PROVE  SeedBounds'
<1>1. Quota' = Quota + 0
  BY QuotaGrows DEF AnyRun, IInv, PgInv, PgTypeOK
<1>2. Cardinality(UNION orphans') <= Cardinality(UNION orphans) + 0
  <2> DEFINE p == Cardinality(UNION orphans')
             o == Cardinality(UNION orphans)
  <2>1. p <= o /\ p \in Nat /\ o \in Nat
    BY RowCounts
  <2> HIDE DEF p, o
  <2>2. p <= o + 0
    BY <2>1
  <2> QED BY <2>2 DEF p, o
<1>3. 0 \in Nat /\ 0 <= 0
  OBVIOUS
<1>4. \/ GivenRows <= GivenRows' /\ 0 <= 0
      \/ GivenRows = 0 /\ 0 <= GivenRows'
      \/ GivenRows + 0 <= 0
  BY <1>3
<1>5. phase' = "seeding" =>
         /\ phase = "seeding"
         /\ \/ seeded' = seeded /\ (SlotRows <= 0 \/ SlotRows <= SlotRows')
            \/ seeded' = seeded + SlotRows
  OBVIOUS
<1> QED BY <1>1, <1>2, <1>3, <1>4, <1>5, RowsStep

\* The rows of a statement of main become nobody's.
LEMMA OrphansGrow ==
    ASSUME AnyRun, UNION orphans' \subseteq (UNION orphans) \cup rows[Main],
           xact[Main] \in {"open", "committed"}
    PROVE  Cardinality(UNION orphans') <= Cardinality(UNION orphans) + SeedBatch
<1> DEFINE O == UNION orphans
           R == rows[Main]
<1>1. IsFiniteSet(O) /\ IsFiniteSet(R) /\ Cardinality(O) \in Nat
  BY RowCounts, GeneratorAssumption DEF AnyRun, IInv, PgInv, PgFinite
<1>2. Cardinality(R) = BatchOf(Main)
  BY GeneratorAssumption DEF AnyRun, RunInv, Batches
<1>3. Cardinality(R) \in Nat /\ Cardinality(R) <= SeedBatch /\ SeedBatch \in Nat
  BY <1>2, BatchBound, GeneratorAssumption
<1>4. /\ IsFiniteSet(O \cup R)
      /\ Cardinality(O \cup R) <= Cardinality(O) + Cardinality(R)
      /\ Cardinality(O \cup R) \in Nat
  <2>1. /\ IsFiniteSet(O \cup R)
        /\ Cardinality(O \cup R) = Cardinality(O) + Cardinality(R) - Cardinality(O \cap R)
    BY <1>1, FS_Union
  <2>2. Cardinality(O \cap R) \in Nat /\ Cardinality(O \cup R) \in Nat
    BY <1>1, <2>1, FS_Intersection, FS_CardinalityType
  <2> HIDE DEF O, R
  <2> QED BY <1>1, <1>3, <2>1, <2>2
<1>5. Cardinality(UNION orphans') <= Cardinality(O \cup R) /\ Cardinality(UNION orphans') \in Nat
  <2>1. UNION orphans' \in SUBSET (O \cup R)
    OBVIOUS
  <2>2. IsFiniteSet(UNION orphans') /\ Cardinality(UNION orphans') <= Cardinality(O \cup R)
    BY <1>4, <2>1, FS_Subset
  <2> QED BY <2>2, FS_CardinalityType
<1> DEFINE p == Cardinality(UNION orphans')
           o == Cardinality(O)
           r == Cardinality(R)
           u == Cardinality(O \cup R)
<1>6. /\ p <= u /\ u <= o + r /\ r <= SeedBatch
      /\ p \in Nat /\ u \in Nat /\ o \in Nat /\ r \in Nat /\ SeedBatch \in Nat
  BY <1>1, <1>3, <1>4, <1>5
<1> HIDE DEF p, o, r, u
<1>7. p <= o + SeedBatch
  BY <1>6
<1> QED BY <1>7 DEF p, o

\* A fault: one batch more may have been added than main knows of.
LEMMA FaultStep ==
    ASSUME AnyRun, AnyRun', run \in Nat \ {0}, SeedBounds,
           run' = run, faults' = faults + 1, Held' \subseteq Held,
           \/ UNION orphans' \subseteq UNION orphans
           \/ /\ UNION orphans' \subseteq (UNION orphans) \cup rows[Main]
              /\ xact[Main] \in {"open", "committed"},
           phase' = phase \/ phase' = "failed", UNCHANGED <<pc, seeded>>
    PROVE  SeedBounds'
<1>1. Quota' = Quota + SeedBatch
  BY QuotaGrows DEF AnyRun, IInv, PgInv, PgTypeOK
<1>2. Cardinality(UNION orphans') <= Cardinality(UNION orphans) + SeedBatch
  <2>1. CASE UNION orphans' \subseteq UNION orphans
    <3> DEFINE p == Cardinality(UNION orphans')
               o == Cardinality(UNION orphans)
    <3>1. p <= o /\ p \in Nat /\ o \in Nat /\ SeedBatch \in Nat
      BY <2>1, RowCounts, GeneratorAssumption
    <3> HIDE DEF p, o
    <3>2. p <= o + SeedBatch
      BY <3>1
    <3> QED BY <3>2 DEF p, o
  <2> QED BY <2>1, OrphansGrow
<1>3. GivenRows <= GivenRows'
  BY GeneratorAssumption DEF GivenRows
<1>4. SlotRows <= SeedBatch /\ SeedBatch \in Nat /\ SeedBatch <= SeedBatch
  BY BatchBound, GeneratorAssumption
<1>5. phase' = "seeding" => phase = "seeding" /\ seeded' = seeded
  OBVIOUS
<1> QED BY <1>1, <1>2, <1>3, <1>4, <1>5, RowsStep

\* The server ends the statement of main: the rows of it are gone.
LEMMA CancelStep ==
    ASSUME AnyRun, AnyRun', run \in Nat \ {0}, SeedBounds, UNCHANGED <<run, faults>>,
           Held' \subseteq Held, UNCHANGED genVars, Abort(Main)
    PROVE  SeedBounds'
<1> USE GeneratorAssumption DEF AnyRun, IInv, PgInv, PgTypeOK
<1> DEFINE b == BatchOf(Main)
           h == Cardinality(Held)
           k == Cardinality(Held')
           new == rows[Main]
<1>1. /\ xact'[Main] = "aborted" /\ \A x \in Sessions : x # Main => xact'[x] = xact[x]
      /\ UNCHANGED <<phase, pc, seeded, orphans, rows, log>>
  BY DEF Abort, genVars, mainVars
<1>2. pc[Main] \in {"exec", "rows"}
  BY DEF Abort, RunInv, Engaged
<1>3. UNION orphans' = UNION orphans /\ GivenRows' = GivenRows /\ GivenRows \in Nat
  BY <1>1, BatchBound DEF GivenRows
<1>4. CASE xact[Main] # "open"
  <2>1. SlotRows = 0 /\ SlotRows' = 0
    BY <1>1, <1>2, <1>4 DEF SlotRows, Abort
  <2> QED BY <1>1, <1>3, <2>1, PlainStep
<1>5. CASE xact[Main] = "open"
  <2>1. SlotRows = b /\ SlotRows' = 0
    BY <1>1, <1>2, <1>5 DEF SlotRows
  <2>2. Held' \cap new = {}
    <3>1. Table' \cap new = {}
      <4>1. Table' = Table /\ Table \subseteq ever
        BY <1>1, TableInEver DEF Table
      <4>2. new \subseteq OpenRows
        BY <1>5, OpenRowsMember, GeneratorAssumption
      <4> QED BY <4>1, <4>2 DEF LInv, TransactionsApart
    <3>2. OpenRows' \cap new = {}
      BY <1>1, <1>5, OpenRowsMember DEF LInv, TransactionsApart
    <3> QED BY <3>1, <3>2 DEF Held
  <2>3. new \subseteq Held /\ Cardinality(new) = b
    BY <1>5, OpenRowsMember DEF Held, RunInv, Batches
  <2>4. k + b <= h /\ k \in Nat /\ b \in Nat /\ h \in Nat
    <3> HIDE GeneratorAssumption DEF AnyRun, IInv, PgInv, PgTypeOK, new, b
    <3>1. /\ IsFiniteSet(Held') /\ IsFiniteSet(new) /\ k \in Nat /\ h \in Nat
          /\ Cardinality(new) \in Nat
      BY <2>3, RowCounts
    <3>2. Cardinality(Held' \cup new) = k + Cardinality(new) - Cardinality(Held' \cap new)
      BY <3>1, FS_Union
    <3>3. Cardinality(Held' \cap new) = 0
      BY <2>2, FS_EmptySet
    <3>4. Held' \cup new \subseteq Held
      BY <2>3
    <3>5. Cardinality(Held' \cup new) <= h
      BY <3>4, RowCounts
    <3> HIDE DEF k, h
    <3> QED BY <2>3, <3>1, <3>2, <3>3, <3>5
  <2>5. /\ h <= SeedRows + Quota
        /\ phase = "seeding" => h <= seeded + b + Quota
        /\ Cardinality(UNION orphans) <= Quota + GivenRows
    BY <2>1 DEF SeedBounds
  <2>6. Quota' = Quota /\ Quota \in Nat /\ seeded \in Nat /\ SeedRows \in Nat
    BY QuotaGrows, BatchBound
  <2> HIDE GeneratorAssumption DEF AnyRun, IInv, PgInv, PgTypeOK, b, h, k
  <2>7. k <= SeedRows + Quota /\ (phase = "seeding" => k <= seeded + 0 + Quota)
    BY <2>4, <2>5, <2>6
  <2> QED BY <1>1, <1>3, <2>1, <2>5, <2>6, <2>7 DEF SeedBounds, k
<1> QED BY <1>4, <1>5

\* A statement given up while it is open, and main about to exit.
LEMMA GiveUpStep ==
    ASSUME AnyRun, AnyRun', run \in Nat \ {0}, SeedBounds, UNCHANGED <<run, faults>>,
           phase = "seeding", UNCHANGED <<phase, seeded>>, Held' \subseteq Held,
           InsertFails(Main)
    PROVE  SeedBounds'
<1> USE GeneratorAssumption DEF AnyRun, IInv, PgInv, PgTypeOK, GenTypeOK
<1>1. pc[Main] \in {"exec", "rows"} /\ pc'[Main] = "error"
  BY DEF InsertFails, Fails, GoTo
<1>2. BatchOf(Main)' = BatchOf(Main) /\ BatchOf(Main) \in Nat
  BY BatchBound DEF BatchOf
<1>3. GivenRows = 0 /\ GivenRows' = SeedBatch /\ SlotRows <= SlotRows'
  BY <1>1, <1>2 DEF GivenRows, SlotRows
<1>4. CASE xact[Main] = "open"
  <2>1. UNION orphans' \subseteq (UNION orphans) \cup rows[Main]
    BY <1>4 DEF InsertFails, Leave, Abandoned
  <2>2. Cardinality(UNION orphans') <= Cardinality(UNION orphans) + SeedBatch
    BY <1>4, <2>1, OrphansGrow
  <2>3. Quota' = Quota + 0
    BY QuotaGrows
  <2>4. GivenRows = 0 /\ SeedBatch <= GivenRows'
    BY <1>3
  <2>5. SeedBatch \in Nat /\ 0 \in Nat
    OBVIOUS
  <2> QED BY <1>3, <2>2, <2>3, <2>4, <2>5, RowsStep
<1>5. CASE xact[Main] # "open"
  <2>1. UNION orphans' \subseteq UNION orphans
    BY <1>5 DEF InsertFails, Leave, Abandoned
  <2>2. GivenRows <= GivenRows'
    BY <1>3
  <2> QED BY <1>3, <2>1, <2>2, PlainStep
<1> QED BY <1>4, <1>5

\* The INSERT of a seeding batch runs.
LEMMA ExecuteSeeds ==
    ASSUME AnyRun, AnyRun', run \in Nat \ {0}, SeedBounds, UNCHANGED <<run, faults>>,
           phase = "seeding", Execute(Main, BatchOf(Main)), UNCHANGED genVars
    PROVE  SeedBounds'
<1> USE GeneratorAssumption DEF AnyRun, IInv, PgInv, PgTypeOK, GenTypeOK
<1> DEFINE n == BatchOf(Main)
           new == NewRows(n)
           h == Cardinality(Held)
           k == Cardinality(Held')
<1>1. /\ xact[Main] = "sent" /\ xact'[Main] = "open" /\ UNCHANGED <<phase, pc, seeded, orphans>>
      /\ Table' = Table /\ rows'[Main] = new
      /\ \A x \in Sessions : x # Main => xact'[x] = xact[x] /\ rows'[x] = rows[x]
  BY DEF Execute, genVars, mainVars, Table
<1>2. n \in Nat /\ seeded \in Nat /\ seeded + n <= SeedRows /\ BatchOf(Main)' = n
  BY <1>1, BatchBound DEF BatchOf
<1>3. IsFiniteSet(new) /\ Cardinality(new) = n
  BY <1>2, NewRowsFinite
<1>4. pc[Main] \in {"exec", "rows"}
  BY <1>1 DEF RunInv, Engaged
<1>5. SlotRows = 0 /\ SlotRows' = n
  BY <1>1, <1>2, <1>4 DEF SlotRows
<1>6. Held' \subseteq Held \cup new
  <2> HIDE GeneratorAssumption DEF new, AnyRun, IInv, PgInv, PgTypeOK, GenTypeOK
  <2>1. OpenRows' \subseteq OpenRows \cup new
    BY <1>1, OpenRowsMember
  <2> QED BY <1>1, <2>1 DEF Held
<1>7. k <= h + n /\ k \in Nat /\ h \in Nat
  <2> HIDE DEF new, n
  <2>1. IsFiniteSet(Held) /\ h \in Nat
    BY RowCounts
  <2>2. /\ IsFiniteSet(Held \cup new)
        /\ Cardinality(Held \cup new) = h + n - Cardinality(Held \cap new)
    BY <1>3, <2>1, FS_Union
  <2>3. Cardinality(Held \cap new) \in Nat /\ Cardinality(Held \cup new) \in Nat
    BY <2>1, <2>2, FS_Intersection, FS_CardinalityType
  <2>4. k \in Nat /\ k <= Cardinality(Held \cup new)
    <3>1. Held' \in SUBSET (Held \cup new)
      BY <1>6
    <3>2. IsFiniteSet(Held') /\ k <= Cardinality(Held \cup new)
      BY <2>2, <3>1, FS_Subset
    <3> QED BY <3>2, FS_CardinalityType
  <2> DEFINE u == Cardinality(Held \cup new)
             i == Cardinality(Held \cap new)
  <2>5. u = h + n - i /\ i \in Nat /\ u \in Nat /\ k \in Nat /\ k <= u /\ h \in Nat /\ n \in Nat
    BY <1>2, <2>1, <2>2, <2>3, <2>4 DEF n
  <2> HIDE DEF k, h, u, i, n
  <2> HIDE GeneratorAssumption DEF AnyRun, IInv, PgInv, PgTypeOK, GenTypeOK
  <2>6. k <= h + n
    BY <2>5
  <2> QED BY <2>5, <2>6
<1>8. Quota' = Quota /\ Quota \in Nat
  BY QuotaGrows
<1>9. UNION orphans' = UNION orphans /\ GivenRows' = GivenRows
  BY <1>1 DEF GivenRows
<1>10. h <= seeded + 0 + Quota /\ SeedRows \in Nat
  BY <1>5 DEF SeedBounds
<1> HIDE DEF n, h, k
<1> HIDE GeneratorAssumption DEF AnyRun, IInv, PgInv, PgTypeOK, GenTypeOK
<1>11. k <= seeded + n + Quota /\ k <= SeedRows + Quota
  BY <1>2, <1>7, <1>8, <1>10
<1> QED BY <1>1, <1>5, <1>8, <1>9, <1>11 DEF SeedBounds, k

\* The table is empty, and the seeding begins.
LEMMA CountRowsSeeds ==
    ASSUME AnyRun, AnyRun', SeedInv, ~tested, UNCHANGED run, CountRows, phase' = "seeding"
    PROVE  SeedBounds'
<1> USE GeneratorAssumption DEF AnyRun, IInv, PgInv, PgTypeOK, GenTypeOK
<1>1. /\ phase = "init" /\ Table = {}
      /\ UNCHANGED <<faults, seeded, OpenRows, Table, orphans>>
  BY DEF CountRows, pgVars, OpenRows, Table
<1>2. seeded = 0 /\ run \in Nat \ {0} /\ SeedBounds
  BY <1>1 DEF SeedInv
<1>3. pc[Main] = "none" /\ \A s \in Sessions : xact[s] = "idle"
  BY <1>1, OnlyMain
<1>4. Held = UNION orphans /\ Held' = Held /\ UNION orphans' = UNION orphans
  <2> HIDE GeneratorAssumption DEF AnyRun, IInv, PgInv, PgTypeOK, GenTypeOK
  <2>1. \A r : r \in OpenRows <=> r \in UNION orphans
    BY <1>3, OpenRowsMember
  <2>2. OpenRows = UNION orphans
    BY <2>1
  <2> QED BY <1>1, <2>2 DEF Held
<1>5. GivenRows = 0
  BY <1>1, <1>3 DEF GivenRows
<1> DEFINE h == Cardinality(Held)
           q == Quota
           t2 == SlotRows'
           g2 == GivenRows'
<1>6. h <= q + 0 /\ h \in Nat
  BY <1>2, <1>4, <1>5, RowCounts DEF SeedBounds
<1>7. Quota' = q /\ q \in Nat /\ SeedRows \in Nat
  BY <1>1, <1>2, QuotaGrows
<1>8. t2 \in Nat /\ g2 \in Nat
  <2>1. (AnyRun => GivenRows \in Nat /\ SlotRows \in Nat)'
    BY BatchBound, PTL
  <2> QED BY <2>1
<1> HIDE DEF h, q, t2, g2
<1> HIDE GeneratorAssumption DEF AnyRun, IInv, PgInv, PgTypeOK, GenTypeOK
<1>9. h <= SeedRows + q /\ h <= 0 + t2 + q /\ h <= q + g2
  BY <1>6, <1>7, <1>8
<1> QED BY <1>1, <1>2, <1>4, <1>7, <1>9 DEF SeedBounds, h, t2, g2

\* A statement of batchInsert: only main can be in one.
LEMMA BatchInsertSeeds ==
    ASSUME AnyRun, AnyRun', SeedInv, ~tested, UNCHANGED run, Held' \subseteq Held,
           NEW s \in Sessions, BatchInsert(s)
    PROVE  SeedBounds'
<1> USE GeneratorAssumption DEF AnyRun, IInv, PgInv, PgTypeOK, GenTypeOK
<1>1. s = Main /\ pc[Main] \in {"exec", "rows"}
  BY OnlyMain DEF BatchInsert, QueryOk, Retry, InsertFails, Fails, NextRow, RowsDone
<1>2. /\ phase = "seeding" /\ UNCHANGED <<phase, seeded, faults>>
      /\ run \in Nat \ {0} /\ SeedBounds
  <2>1. phase = "seeding"
    BY <1>1, OnlyMain DEF SeedInv
  <2>2. UNCHANGED <<phase, seeded, faults>>
    BY DEF BatchInsert, QueryOk, Retry, InsertFails, NextRow, RowsDone, mainVars, pgVars
  <2> QED BY <2>1, <2>2 DEF SeedInv
<1>3. CASE InsertFails(Main)
  BY <1>2, <1>3, GiveUpStep
<1>4. CASE ~InsertFails(Main)
  <2>1. BatchOf(Main)' = BatchOf(Main) /\ BatchOf(Main) \in Nat
    BY <1>2, BatchBound DEF BatchOf
  <2>2. UNION orphans' \subseteq UNION orphans
    BY <1>1, <1>4 DEF BatchInsert, QueryOk, Retry, NextRow, RowsDone, Leave, Abandoned, pgVars
  <2>3. pc'[Main] \in {"exec", "rows", "count"}
    BY <1>1, <1>4 DEF BatchInsert, QueryOk, Retry, NextRow, RowsDone, GoTo
  <2>4. \/ xact[Main] \notin {"open", "committed"}
        \/ xact'[Main] \in {"open", "committed"}
        \/ pc'[Main] = "count"
    BY <1>1, <1>4 DEF BatchInsert, QueryOk, Retry, NextRow, RowsDone, GoTo, pgVars
  <2>5. GivenRows <= GivenRows' /\ SlotRows <= SlotRows'
    BY <1>1, <1>2, <2>1, <2>3, <2>4 DEF GivenRows, SlotRows
  <2> QED BY <1>2, <2>2, <2>5, PlainStep
<1> QED BY <1>1, <1>3, <1>4

\* What else the server does.
LEMMA ServerSeeds ==
    ASSUME AnyRun, AnyRun', SeedInv, ~tested, UNCHANGED run, Held' \subseteq Held, Server
    PROVE  SeedBounds'
<1> USE GeneratorAssumption DEF AnyRun, IInv, PgInv, PgTypeOK, GenTypeOK
<1>0. UNCHANGED genVars
  BY DEF Server, CancelHonoured
<1>1. UNCHANGED <<phase, pc, seeded>> /\ run \in Nat \ {0} /\ SeedBounds
  BY <1>0 DEF genVars, mainVars, SeedInv
<1>2. BatchOf(Main)' = BatchOf(Main) /\ BatchOf(Main) \in Nat
  BY <1>1, BatchBound DEF BatchOf
<1>3. GivenRows' = GivenRows /\ GivenRows \in Nat
  BY <1>1, BatchBound DEF GivenRows
<1>4. ASSUME NEW s \in Sessions, Execute(s, BatchOf(s)), UNCHANGED genVars PROVE SeedBounds'
  <2>1. s = Main /\ phase = "seeding"
    BY <1>4, OnlyMain DEF Execute
  <2>2. faults' = faults
    BY <1>4 DEF Execute
  <2> QED BY <1>1, <1>4, <2>1, <2>2, ExecuteSeeds
<1>5. ASSUME NEW s \in Sessions, Commit(s) PROVE SeedBounds'
  <2>1. SlotRows <= SlotRows'
    BY <1>1, <1>2, <1>5 DEF Commit, SlotRows
  <2> QED BY <1>1, <1>3, <1>5, <2>1, PlainStep DEF Commit
<1>6. ASSUME NEW s \in Sessions, Abort(s), Fault \/ UNCHANGED faults PROVE SeedBounds'
  <2>1. orphans' = orphans /\ s = Main /\ UNCHANGED genVars
    BY <1>0, <1>6, OnlyMain DEF Abort
  <2> HIDE GeneratorAssumption DEF AnyRun, IInv, PgInv, PgTypeOK, GenTypeOK
  <2>2. CASE Fault
    BY <1>1, <2>1, <2>2, FaultStep DEF Fault
  <2>3. CASE UNCHANGED faults
    BY <1>1, <1>6, <2>1, <2>3, CancelStep
  <2> QED BY <1>6, <2>2, <2>3
<1>7. ASSUME NEW s \in Sessions, LoseConnection(s) PROVE SeedBounds'
  <2>1. s = Main
    BY <1>7, OnlyMain DEF LoseConnection, Live
  <2>2. \/ UNION orphans' \subseteq UNION orphans
        \/ /\ UNION orphans' \subseteq (UNION orphans) \cup rows[Main]
           /\ xact[Main] \in {"open", "committed"}
    BY <1>7, <2>1, SMTT(30) DEF LoseConnection, Abandoned
  <2>3. faults' = faults + 1
    BY <1>7 DEF LoseConnection, Fault
  <2>4. phase' = phase /\ UNCHANGED <<pc, seeded>>
    BY <1>1
  <2> HIDE GeneratorAssumption DEF AnyRun, IInv, PgInv, PgTypeOK, GenTypeOK
  <2> QED BY <1>1, <2>2, <2>3, <2>4, FaultStep
<1>8. CASE OrphanCommits \/ OrphanAborts
  <2>1. UNCHANGED <<xact, faults>> /\ UNION orphans' \subseteq UNION orphans
    BY <1>8 DEF OrphanCommits, OrphanAborts
  <2>2. SlotRows <= SlotRows'
    BY <1>1, <1>2, <2>1 DEF SlotRows
  <2> HIDE GeneratorAssumption DEF AnyRun, IInv, PgInv, PgTypeOK, GenTypeOK
  <2>3. phase' = phase /\ seeded' = seeded /\ GivenRows <= GivenRows' /\ faults' = faults
    BY <1>1, <1>3, <2>1
  <2> QED BY <1>1, <2>1, <2>2, <2>3, PlainStep
<1>9. CASE Failover
  <2>1. faults' = faults + 1 /\ UNION orphans' \subseteq UNION orphans
    BY <1>9 DEF Failover, Fault
  <2> HIDE GeneratorAssumption DEF AnyRun, IInv, PgInv, PgTypeOK, GenTypeOK
  <2> QED BY <1>1, <2>1, FaultStep
<1> QED BY <1>4, <1>5, <1>6, <1>7, <1>8, <1>9 DEF Server, CancelHonoured

\* Main's steps between its statements.
LEMMA InitializeSeeds ==
    ASSUME AnyRun, AnyRun', SeedInv, ~tested, UNCHANGED run, Held' \subseteq Held,
           Initialize, phase' \in {"init", "seeding", "failed"}
    PROVE  SeedBounds'
<1> USE GeneratorAssumption DEF AnyRun, IInv, PgInv, PgTypeOK, GenTypeOK
<1>1. run \in Nat \ {0} /\ SeedBounds
  BY DEF SeedInv
<1>2. CASE CountRows
  BY <1>2, CountRowsSeeds DEF CountRows
<1>3. CASE InitializeFails
  <2>1. UNCHANGED <<orphans, pc, seeded>> /\ phase' = "failed"
    BY <1>3 DEF InitializeFails
  <2>2. CASE Fault
    BY <1>1, <2>1, <2>2, FaultStep DEF Fault
  <2>3. CASE UNCHANGED faults
    <3>1. GivenRows <= GivenRows'
      BY <2>1 DEF GivenRows
    <3> QED BY <1>1, <2>1, <2>3, <3>1, PlainStep
  <2> QED BY <1>3, <2>2, <2>3 DEF InitializeFails
<1>4. CASE SeedNext
  <2>1. /\ pc[Main] = "loop" /\ pc'[Main] = "exec" /\ phase = "seeding"
        /\ UNCHANGED <<phase, seeded, faults, orphans>>
    BY <1>4 DEF SeedNext, StartInsert, GoTo, mainVars
  <2>2. xact[Main] = "idle"
    BY <2>1 DEF RunInv, Engaged
  <2>3. BatchOf(Main)' = BatchOf(Main) /\ BatchOf(Main) \in Nat
    BY <2>1, BatchBound DEF BatchOf
  <2>4. GivenRows <= GivenRows' /\ SlotRows <= SlotRows'
    BY <2>1, <2>2, <2>3 DEF GivenRows, SlotRows
  <2> QED BY <1>1, <2>1, <2>4, PlainStep
<1>5. CASE SeedInserted
  <2>1. /\ pc[Main] = "count" /\ pc'[Main] = "loop" /\ seeded' = seeded + BatchOf(Main)
        /\ UNCHANGED <<phase, faults, orphans>>
    BY <1>5 DEF SeedInserted, GoTo, pgVars
  <2>2. phase = "seeding"
    BY <2>1, OnlyMain DEF SeedInv
  <2>3. GivenRows <= GivenRows' /\ seeded' = seeded + SlotRows
    BY <2>1, <2>2 DEF GivenRows, SlotRows
  <2> QED BY <1>1, <2>1, <2>2, <2>3, PlainStep
<1>6. CASE SeedFails
  <2>1. phase' = "failed" /\ UNCHANGED <<faults, orphans>> /\ pc[Main] = "error"
    BY <1>6 DEF SeedFails, pgVars
  <2>2. GivenRows <= GivenRows'
    BY <2>1 DEF GivenRows
  <2> QED BY <1>1, <2>1, <2>2, PlainStep
<1>7. CASE SeedDone
  BY <1>7 DEF SeedDone
<1> QED BY <1>2, <1>3, <1>4, <1>5, <1>6, <1>7 DEF Initialize

\* Any step before the first test.
LEMMA NextSeeds ==
    ASSUME AnyRun, AnyRun', SeedInv, ~tested, UNCHANGED run, [Next]_vars,
           phase' \in {"init", "seeding", "failed"}
    PROVE  SeedBounds'
<1> USE GeneratorAssumption DEF AnyRun
<1>1. run \in Nat \ {0} /\ SeedBounds
  BY DEF SeedInv
<1>2. ASSUME NEW s \in Sessions, Execute(s, BatchOf(s)), UNCHANGED genVars PROVE SeedBounds'
  <2>1. s = Main /\ phase = "seeding" /\ faults' = faults
    BY <1>2, OnlyMain DEF Execute
  <2> QED BY <1>1, <1>2, <2>1, ExecuteSeeds
<1>3. CASE Failover /\ UNCHANGED genVars
  <2>1. Held' \subseteq Held
    BY <1>3, FailoverHolds DEF Held
  <2> QED BY <1>1, <1>3, <2>1, FaultStep DEF Failover, Fault, genVars, mainVars
<1>4. ASSUME Held' \subseteq Held PROVE SeedBounds'
  <2>1. ASSUME NEW s \in Sessions, BatchInsert(s) PROVE SeedBounds'
    BY <1>4, <2>1, BatchInsertSeeds
  <2>2. ASSUME NEW w \in Workers PROVE ~Worker(w)
    <3>1. pc[w] = "none"
      BY OnlyMain
    <3> QED BY <3>1 DEF Worker, BeginRead, BeginInsert, BeginUpdate, Begin, WorkerExits, ReadOk,
                        UpdateOk, ReadOrUpdateFails, AddTotalRows, RecordInsert, RecordError,
                        Recorded
  <2>3. ~Start /\ ~Stop /\ ~WaitDone
    BY OnlyMain DEF Start, Stop, WaitDone
  <2>4. CASE ContextExpires \/ UNCHANGED vars
    <3>1. UNCHANGED <<phase, pc, seeded, faults, orphans, xact>>
      BY <2>4 DEF ContextExpires, vars, genVars, mainVars, pgVars
    <3>2. GivenRows' = GivenRows /\ SlotRows' = SlotRows
      BY <3>1 DEF GivenRows, SlotRows, BatchOf
    <3>3. GivenRows \in Nat /\ SlotRows \in Nat
      BY BatchBound
    <3> QED BY <1>1, <1>4, <3>1, <3>2, <3>3, PlainStep
  <2> QED BY <1>4, <2>1, <2>2, <2>3, <2>4, ServerSeeds, InitializeSeeds DEF Next
<1> QED BY <1>2, <1>3, <1>4, NextHolds

\* Another client begins, and the last one is gone with at most one open batch.
LEMMA RestartSeeds ==
    ASSUME AnyRun, AnyRun', SeedInv, ~tested, Restart
    PROVE  SeedBounds'
<1> USE GeneratorAssumption DEF AnyRun, IInv, PgInv, PgTypeOK
<1>1. /\ run' = run + 1 /\ faults' = faults /\ phase' = "init"
      /\ orphans' = orphans \cup {rows[s] : s \in {x \in Sessions : xact[x] = "open"}}
  BY DEF Restart, DatabaseLeft, FreshClient
<1>2. run \in Nat \ {0} /\ SeedBounds
  BY DEF SeedInv
<1>3. Quota' = Quota + SeedBatch
  BY <1>1, <1>2, QuotaGrows
<1>4. Held' \subseteq Held
  BY RestartDatabase DEF Held
<1>5. phase' = "seeding" => phase = "seeding" /\ seeded' = seeded /\ SlotRows <= SeedBatch
  BY <1>1
<1>6. CASE xact[Main] = "open"
  <2>1. UNION orphans' \subseteq (UNION orphans) \cup rows[Main]
    BY <1>1, OnlyMain
  <2>2. Cardinality(UNION orphans') <= Cardinality(UNION orphans) + SeedBatch
    BY <1>6, <2>1, OrphansGrow
  <2>3. phase = "seeding" /\ pc[Main] \in {"exec", "rows"}
    BY <1>6, OnlyMain DEF RunInv, Engaged
  <2>4. GivenRows + SeedBatch <= SeedBatch
    BY <2>3 DEF GivenRows
  <2> QED BY <1>2, <1>3, <1>4, <1>5, <2>2, <2>4, RowsStep
<1>7. CASE xact[Main] # "open"
  <2>1. UNION orphans' = UNION orphans
    BY <1>1, <1>7, OnlyMain
  <2>2. Cardinality(UNION orphans') <= Cardinality(UNION orphans) + 0
    <3> DEFINE p == Cardinality(UNION orphans')
               o == Cardinality(UNION orphans)
    <3>1. p = o /\ o \in Nat
      BY <2>1, RowCounts
    <3> HIDE DEF p, o
    <3>2. p <= o + 0
      BY <3>1
    <3> QED BY <3>2 DEF p, o
  <2>3. GivenRows + 0 <= SeedBatch
    BY BatchBound
  <2> QED BY <1>2, <1>3, <1>4, <1>5, <2>2, <2>3, RowsStep
<1> QED BY <1>6, <1>7

\* Where main stands in a step that leaves it before the seeding, or makes it give up.
LEMMA MainStands ==
    ASSUME AnyRun, SeedInv, [Next]_vars
    PROVE  /\ phase' = "init" => phase = "init" /\ seeded' = seeded
           /\ phase' = "failed" => pc'[Main] = "none"
<1> USE GeneratorAssumption DEF AnyRun, IInv, PgInv, PgTypeOK, GenTypeOK
<1>1. CASE UNCHANGED <<phase, pc, seeded>>
  BY <1>1 DEF SeedInv
<1>2. CASE Initialize
  <2>1. phase' = "init" => phase = "init" /\ seeded' = seeded
    BY <1>2 DEF Initialize, CountRows, InitializeFails, SeedNext, SeedInserted, SeedFails,
                SeedDone, mainVars, RunInv, Engaged
  <2>2. CASE phase # "failed"
    BY <1>2, <2>2 DEF Initialize, CountRows, InitializeFails, SeedNext, SeedInserted, SeedFails,
                      SeedDone, mainVars, RunInv, Engaged, GoTo
  <2>3. CASE phase = "failed"
    BY <1>2, <2>3 DEF Initialize, CountRows, InitializeFails, SeedNext, SeedInserted, SeedFails,
                      SeedDone, SeedInv, GoTo
  <2> QED BY <2>1, <2>2, <2>3
<1>3. ASSUME NEW s \in Sessions, BatchInsert(s) PROVE /\ UNCHANGED <<phase, seeded>>
                                                      /\ phase = "failed" => pc'[Main] = pc[Main]
  <2>1. UNCHANGED <<phase, seeded>>
    BY <1>3 DEF BatchInsert, QueryOk, Retry, InsertFails, NextRow, RowsDone, mainVars
  <2>2. phase = "failed" => pc[s] \notin {"exec", "rows"}
    BY DEF SeedInv, Control
  <2>3. pc[s] \in {"exec", "rows"}
    BY <1>3 DEF BatchInsert, QueryOk, Retry, InsertFails, Fails, NextRow, RowsDone
  <2>4. s # Main => pc'[Main] = pc[Main]
    BY <1>3 DEF BatchInsert, QueryOk, Retry, InsertFails, NextRow, RowsDone, GoTo
  <2> QED BY <2>1, <2>2, <2>3, <2>4
<1>4. ASSUME NEW w \in Workers, Worker(w) PROVE /\ UNCHANGED <<phase, seeded>>
                                                /\ pc'[Main] = pc[Main]
  <2>1. w # Main /\ w \in Sessions
    OBVIOUS
  <2> QED BY <1>4, <2>1 DEF Worker, BeginRead, BeginInsert, StartInsert, BeginUpdate, Begin,
             WorkerExits, ReadOk, UpdateOk, ReadOrUpdateFails, AddTotalRows, RecordInsert,
             RecordError, Recorded, GoTo, mainVars
<1>5. CASE Server
  BY <1>1, <1>5 DEF Server, CancelHonoured, genVars, mainVars
<1>6. CASE Start \/ Stop \/ WaitDone
  BY <1>6 DEF Start, Stop, WaitDone
<1>7. CASE ContextExpires \/ UNCHANGED vars
  BY <1>1, <1>7 DEF ContextExpires, vars, genVars, mainVars
<1> QED BY <1>2, <1>3, <1>4, <1>5, <1>6, <1>7 DEF Next, SeedInv

LEMMA RerunKeepsSeedInv ==
    ASSUME AnyRun, AnyRun', SeedInv, [RerunNext]_<<allVars, runVars>>
    PROVE  SeedInv'
<1>1. CASE Restart
  <2>1. run' = run + 1 /\ phase' = "init" /\ seeded' = 0 /\ tested' = tested
    BY <1>1 DEF Restart, FreshClient
  <2>2. ~tested => SeedBounds'
    BY <1>1, RestartSeeds
  <2> QED BY <2>1, <2>2 DEF SeedInv
<1>2. CASE ~Restart
  <2>1. /\ [CheckNext]_allVars /\ run' = run
        /\ \/ tested' = (tested \/ phase' \in {"running", "stopping", "stopped"})
           \/ UNCHANGED <<tested, phase>>
    BY <1>2 DEF RerunNext, runVars, allVars, vars, genVars, mainVars
  <2>2. [Next]_vars
    BY <2>1, CheckStepsQuietly
  <2>3. phase' \in {"running", "stopping", "stopped"} => tested'
    <3>1. CASE tested' = (tested \/ phase' \in {"running", "stopping", "stopped"})
      BY <3>1, Zenon
    <3>2. CASE UNCHANGED <<tested, phase>>
      <4>1. tested' = tested /\ phase' = phase
        BY <3>2
      <4> QED BY <4>1, Zenon DEF SeedInv
    <3> QED BY <2>1, <3>1, <3>2
  <2>4. ~tested' => SeedBounds'
    <3>1. ~tested' => phase' \in {"init", "seeding", "failed"} /\ ~tested
      BY <2>1, <2>3 DEF AnyRun, IInv, GenTypeOK, Phase
    <3> QED BY <2>1, <2>2, <3>1, NextSeeds
  <2>5. run' \in Nat \ {0}
    BY <2>1 DEF SeedInv
  <2> QED BY <2>2, <2>3, <2>4, <2>5, MainStands DEF SeedInv
<1> QED BY <1>1, <1>2

LEMMA RerunInitSeeds ==
    ASSUME RerunInit, PreRows = {0}
    PROVE  SeedInv
<1> USE GeneratorAssumption
<1>1. /\ run = 1 /\ phase = "init" /\ seeded = 0 /\ ~tested /\ faults = 0
      /\ log = <<>> /\ orphans = {} /\ pc[Main] = "none"
      /\ \A s \in Sessions : xact[s] = "idle"
  BY DEF RerunInit, CheckInit, Init, PgInit
<1>2. Held = {} /\ UNION orphans = {}
  <2>1. Table = {}
    BY <1>1 DEF Table
  <2>2. \A r : r \notin OpenRows
    BY <1>1, OpenRowsMember
  <2> QED BY <1>1, <2>1, <2>2 DEF Held
<1>3. Cardinality(Held) = 0 /\ Cardinality(UNION orphans) = 0
  BY <1>2, FS_EmptySet
<1>4. Quota \in Nat /\ GivenRows = 0 /\ SeedRows \in Nat
  BY <1>1, QuotaGrows DEF GivenRows
<1>5. SeedBounds
  <2> DEFINE q == Quota
             h == Cardinality(Held)
             o == Cardinality(UNION orphans)
             g == GivenRows
  <2>1. h = 0 /\ o = 0 /\ q \in Nat /\ g = 0 /\ phase = "init"
    BY <1>1, <1>3, <1>4
  <2> HIDE DEF q, h, o, g
  <2>2. h <= SeedRows + q /\ o <= q + g
    BY <1>4, <2>1
  <2> QED BY <2>1, <2>2 DEF SeedBounds, q, h, o, g
<1> QED BY <1>1, <1>5 DEF SeedInv

\* However often the client is killed while it seeds an empty table and started again,
\* the rows are inserted once: until the first test the table holds the seed rows, and
\* at most one batch more for each client that was killed and each fault.
THEOREM SeededOnce == RerunSpec => []SeedingNotRepeated
<1> DEFINE J == PreRows = {0} => SeedInv
<1>1. RerunInit => J
  BY RerunInitSeeds
<1>2. AnyRun /\ AnyRun' /\ J /\ [RerunNext]_<<allVars, runVars>> => J'
  BY RerunKeepsSeedInv
<1>3. AnyRun /\ J => SeedingNotRepeated
  <2> SUFFICES ASSUME AnyRun, SeedInv, ~tested
               PROVE  Cardinality(Table) <= SeedRows + (run - 1 + faults) * SeedBatch
    BY DEF SeedingNotRepeated
  <2>1. Cardinality(Held) <= SeedRows + Quota /\ run \in Nat \ {0}
    BY DEF SeedInv, SeedBounds
  <2>2. Cardinality(Table) \in Nat /\ Cardinality(Table) <= Cardinality(Held)
    BY RowCounts DEF Held
  <2>3. Quota \in Nat /\ Cardinality(Held) \in Nat /\ SeedRows \in Nat
    BY <2>1, RowCounts, QuotaGrows, GeneratorAssumption DEF AnyRun, IInv, PgInv, PgTypeOK
  <2> DEFINE q == Quota
             h == Cardinality(Held)
             t == Cardinality(Table)
  <2>4. h <= SeedRows + q /\ t <= h /\ t \in Nat /\ q \in Nat /\ h \in Nat
    BY <2>1, <2>2, <2>3
  <2> HIDE DEF q, h, t
  <2>5. t <= SeedRows + q
    BY <2>3, <2>4
  <2> QED BY <2>5 DEF q, t, Quota
<1> HIDE DEF J
<1> QED BY <1>1, <1>2, <1>3, RerunInvariance, PTL DEF RerunSpec
=============================================================================
