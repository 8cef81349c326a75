-------------------------------- MODULE Rerun --------------------------------
(***************************************************************************)
(* The client started again: as the retry of a Kubernetes job or the restart *)
(* of a deployment, after it has failed, was killed in any state, or has     *)
(* ended.  What is in memory is gone; the table, the sequence and            *)
(* transactions that are still open are not, and the new run meets them.      *)
(***************************************************************************)
EXTENDS DataLossCheck

CONSTANT MaxRuns      \* bound: how often the client is started

ASSUME RunsAssumption == MaxRuns \in Nat \ {0}

VARIABLES run,           \* how often it has been started
          faultsBefore,  \* history: the faults of earlier runs
          tested         \* history: a run has come as far as its test

runVars == <<run, faultsBefore, tested>>

RerunInit ==
    /\ CheckInit
    /\ run = 1
    /\ faultsBefore = 0
    /\ tested = FALSE

\* DROP TABLE takes the sequence with it.
DatabaseLeft ==
    /\ log' = IF dropped THEN <<>> ELSE log
    /\ seq' = IF dropped THEN 0 ELSE seq
    /\ orphans' = orphans \cup {rows[s] : s \in {x \in Sessions : xact[x] = "open"}}
    /\ pre' = Table'
    /\ ever' = Table'
    /\ UNCHANGED <<tl, faults>>

\* main() from its first line: NewV2, NewLoadGeneratorV2, a new context.
FreshClient ==
    /\ xact' = [s \in Sessions |-> "idle"]
    /\ rows' = [s \in Sessions |-> {}]
    /\ unread' = [s \in Sessions |-> {}]
    /\ phase' = "init"
    /\ ctxDone' = FALSE
    /\ stopClosed' = FALSE
    /\ wg' = 0
    /\ seeded' = 0
    /\ started' = 0
    /\ pc' = [s \in Sessions |-> "none"]
    /\ attempts' = [s \in Sessions |-> 0]
    /\ insertedIDs' = {}
    /\ total' = [k \in Kind |-> 0]
    /\ totalRows' = 0
    /\ received' = {}
    /\ confirmed' = {}

FreshCheck ==
    /\ check' = "idle"
    /\ unchecked' = {}
    /\ found' = 0
    /\ totalInserted' = 0
    /\ lost' = 0
    /\ dropped' = FALSE
    /\ missedEver' = {}
    /\ missedAlways' = {}

\* The process is gone, wherever it was, and the next one starts.
Restart ==
    /\ run < MaxRuns
    /\ run' = run + 1
    /\ faultsBefore' = faults
    /\ UNCHANGED tested
    /\ DatabaseLeft
    /\ FreshClient
    /\ FreshCheck

RerunNext ==
    \/ /\ CheckNext
       /\ tested' = (tested \/ phase' \in {"running", "stopping", "stopped"})
       /\ UNCHANGED <<run, faultsBefore>>
    \/ Restart

RerunSpec == RerunInit /\ [][RerunNext]_<<allVars, runVars>>

-----------------------------------------------------------------------------
(* What a run promises in a database that an earlier one has used.           *)

\* Seeding is not repeated: CountRows seeds an empty table only.  Until the first
\* test a table that was empty holds the seed rows, and beyond them at most one batch
\* for each client that was killed and each statement that was sent again: INSERTs
\* that committed when the count, or the retry, was already under way.
SeedingNotRepeated ==
    ~tested /\ PreRows = {0} =>
        Cardinality(Table) <= SeedRows + (run - 1 + faults) * SeedBatch

\* The report is about this run alone.  Without a fault since its start and before
\* its deadline, CheckDataLoss finds no loss among exactly the rows its own batches
\* were confirmed for, also while INSERTs of a killed predecessor still commit.
ReportIsOwn ==
    check = "reported" /\ faults = faultsBefore /\ ~ctxDone =>
        lost = 0 /\ received = confirmed /\ totalInserted = Cardinality(confirmed)
=============================================================================
