---------------------------- MODULE DataLossCheck ----------------------------
(***************************************************************************)
(* What main() does after Stop: CheckDataLoss over the tracked ids, the      *)
(* report and the cleanup (load_generator_v2.go, main_v2.go).  Composed      *)
(* with LoadGeneratorV2: the tracked ids are the ones a run left, and the    *)
(* server keeps moving, fails over or finishes an orphan between the         *)
(* queries of the check.                                                     *)
(***************************************************************************)
EXTENDS LoadGeneratorV2

CONSTANTS CheckBatch,      \* ids of one IN query (10000 in the code)
          RangeThreshold   \* above it the range query is used (100000 in the code)

ASSUME CheckAssumption ==
       /\ CheckBatch \in Nat \ {0}
       /\ RangeThreshold \in Nat

VARIABLES check,          \* where main() is after Stop
          unchecked,      \* tracked ids not yet part of an IN query
          found,          \* the sum of the counts so far
          totalInserted,  \* result: tracked ids
          lost,           \* result: tracked ids held to be lost
          dropped,        \* the test table is gone
          missedEver,     \* history: ids that were absent at some moment of the check
          missedAlways    \* history: ids that were absent throughout it

resultVars == <<totalInserted, lost>>
historyVars == <<missedEver, missedAlways>>
checkVars == <<check, unchecked, found, resultVars, dropped, historyVars>>
allVars == <<vars, checkVars>>

CheckState == {"idle", "batches", "range", "reported", "failed", "exited"}

CheckTypeOK ==
    /\ check \in CheckState
    /\ unchecked \in SUBSET Nat
    /\ found \in Nat
    /\ totalInserted \in Nat
    /\ lost \in Int
    /\ dropped \in BOOLEAN
    /\ missedEver \in SUBSET Nat
    /\ missedAlways \in SUBSET Nat

CheckInit ==
    /\ Init
    /\ check = "idle"
    /\ unchecked = {}
    /\ found = 0
    /\ totalInserted = 0
    /\ lost = 0
    /\ dropped = FALSE
    /\ missedEver = {}
    /\ missedAlways = {}

Missing == insertedIDs \ Ids(Table)

-----------------------------------------------------------------------------
(* CheckDataLoss.                                                           *)

\* Mutant: the total is taken from the table, as its growth since the start.
BeginCheckByTable ==
    /\ phase = "stopped"
    /\ check = "idle"
    /\ unchecked' = insertedIDs
    /\ totalInserted' = Cardinality(Table \ pre)
    /\ check' = IF insertedIDs = {} THEN "reported"
                ELSE IF Cardinality(insertedIDs) > RangeThreshold THEN "range" ELSE "batches"
    /\ missedEver' = Missing
    /\ missedAlways' = Missing
    /\ UNCHANGED <<vars, found, lost, dropped>>

\* GetInsertedIDs, and the way of checking its length asks for; no ids, no check.
BeginCheck ==
    /\ phase = "stopped"
    /\ check = "idle"
    /\ unchecked' = insertedIDs
    /\ totalInserted' = Cardinality(insertedIDs)
    /\ check' = IF insertedIDs = {} THEN "reported"
                ELSE IF Cardinality(insertedIDs) > RangeThreshold THEN "range"
                ELSE "batches"
    /\ missedEver' = Missing
    /\ missedAlways' = Missing
    /\ UNCHANGED <<vars, found, lost, dropped>>

\* Mutant: BETWEEN the smallest and the largest id of the batch instead of IN.
CheckOneBatchBetween ==
    /\ check = "batches"
    /\ \E B \in SUBSET unchecked :
          /\ Cardinality(B) = Smaller(CheckBatch, Cardinality(unchecked))
          /\ B # {}
          /\ found' = found + Cardinality({r \in Table : /\ \E i \in B : i <= r.id
                                                         /\ \E i \in B : r.id <= i})
          /\ unchecked' = unchecked \ B
    /\ UNCHANGED <<vars, check, resultVars, dropped, historyVars>>

\* SELECT COUNT of the rows whose id is in the next batch; the order of the ids
\* is that of sync.Map.Range, any.
CheckOneBatch ==
    /\ check = "batches"
    /\ \E B \in SUBSET unchecked :
          /\ Cardinality(B) = Smaller(CheckBatch, Cardinality(unchecked))
          /\ B # {}
          /\ found' = found + Cardinality({r \in Table : r.id \in B})
          /\ unchecked' = unchecked \ B
    /\ UNCHANGED <<vars, check, resultVars, dropped, historyVars>>

\* Mutant: the loop stops one batch early.
BatchesDoneEarly ==
    /\ check = "batches"
    /\ Cardinality(unchecked) <= CheckBatch
    /\ lost' = totalInserted - found
    /\ check' = "reported"
    /\ UNCHANGED <<vars, unchecked, found, totalInserted, dropped, historyVars>>

BatchesDone ==
    /\ check = "batches"
    /\ unchecked = {}
    /\ lost' = totalInserted - found
    /\ check' = "reported"
    /\ UNCHANGED <<vars, unchecked, found, totalInserted, dropped, historyVars>>

\* Mutant: the largest id is left out of the range.
RowsInRangeHalfOpen == {r \in Table : /\ \E i \in insertedIDs : i <= r.id
                                      /\ \E i \in insertedIDs : r.id < i}

\* Rows between the smallest and the largest tracked id, whoever inserted them.
RowsInRange == {r \in Table : /\ \E i \in insertedIDs : i <= r.id
                              /\ \E i \in insertedIDs : r.id <= i}

\* Mutant: the difference, also where there are more rows than ids.
RangeLostUnclamped(total_, inRange) == total_ - inRange

RangeLost(total_, inRange) == IF inRange >= total_ THEN 0 ELSE total_ - inRange

\* checkDataLossOptimized: one COUNT over the range.
CheckRange ==
    /\ check = "range"
    /\ lost' = RangeLost(totalInserted, Cardinality(RowsInRange))
    /\ check' = "reported"
    /\ UNCHANGED <<vars, unchecked, found, totalInserted, dropped, historyVars>>

\* A query fails or the five minutes are over: a warning, no report.
CheckFails ==
    /\ check \in {"batches", "range"}
    /\ totalInserted' = 0
    /\ lost' = 0
    /\ check' = "failed"
    /\ UNCHANGED <<vars, unchecked, found, dropped, historyVars>>

\* The line "No data loss detected - all inserted records are present".
NoLossReported == check \in {"reported", "exited"} /\ totalInserted > 0 /\ lost = 0

-----------------------------------------------------------------------------
(* Cleanup, after a report and after a failed check alike.                  *)

\* DROP TABLE takes an exclusive lock and so waits for open transactions.
Cleanup ==
    /\ check \in {"reported", "failed"}
    /\ orphans = {}
    /\ dropped' = TRUE
    /\ check' = "exited"
    /\ UNCHANGED <<vars, unchecked, found, resultVars, historyVars>>

\* Its 30 seconds pass or the statement fails: a warning, and main returns.
CleanupFails ==
    /\ check \in {"reported", "failed"}
    /\ check' = "exited"
    /\ UNCHANGED <<vars, unchecked, found, resultVars, dropped, historyVars>>

-----------------------------------------------------------------------------
\* The history of a step of the server or the generator.
Watch ==
    IF check \in {"batches", "range"}
    THEN /\ missedEver' = missedEver \cup Missing'
         /\ missedAlways' = missedAlways \cap Missing'
    ELSE UNCHANGED historyVars

GeneratorStep ==
    /\ check # "exited"
    /\ Next
    /\ Watch
    /\ UNCHANGED <<check, unchecked, found, resultVars, dropped>>

CheckDataLoss == BeginCheck \/ CheckOneBatch \/ BatchesDone \/ CheckRange \/ CheckFails

CheckNext == GeneratorStep \/ CheckDataLoss \/ Cleanup \/ CleanupFails

CheckSpec == CheckInit /\ [][CheckNext]_allVars

-----------------------------------------------------------------------------
(* What the report promises.                                                *)

\* An id reported lost was missing: the report never counts more losses than ids
\* that were absent at some moment while it was being made, and never finds more
\* rows than it asked for.  Both ways of checking.
LossNeverOverReported == check = "reported" => lost \in 0..Cardinality(missedEver)

\* The batched check reports every id that was absent from before the first
\* query to after the last, however the server moves between the queries.
BatchedLossNeverUnderReported ==
    check = "reported" /\ totalInserted <= RangeThreshold =>
        lost >= Cardinality(missedAlways)

\* As long as every row in the range is a tracked one, the range check finds every
\* loss: what it estimates is then exact.
RangeLossExactAmongOwnRows ==
    [][check = "range" /\ check' = "reported" /\ Ids(RowsInRange) \subseteq insertedIDs
          => lost' = Cardinality(Missing)]_allVars

\* A run without a fault that ends before its deadline reports no loss, and its
\* total is the number of rows it put into the table.
FaultFreeReportIsClean ==
    check = "reported" /\ faults = 0 /\ ~ctxDone =>
        lost = 0 /\ totalInserted = Cardinality(Table \ pre)

\* main_v2.go:207 prints "all inserted records are present in database": a run
\* reported clean has each tracked id in the table at some moment of the check.
\* Does not hold for the range check: rows that are not tracked fill the gaps.
CleanReportMeansIdsPresent == NoLossReported => missedAlways = {}
=============================================================================
