------------------------------ MODULE MetricsV2 ------------------------------
(***************************************************************************)
(* metrics/metrics_v2.go as its goroutines share it: the workers record       *)
(* operations with one atomic update after the other, the reporter goroutine  *)
(* and, after Stop, main() take snapshots.  GetSnapshot loads the counters    *)
(* one by one, divides their growth by the interval, reads the latencies      *)
(* under the read lock and then writes the last* fields, which no lock and no *)
(* atomic protects.                                                           *)
(***************************************************************************)
EXTENDS Integers, Sequences, FiniteSets

CONSTANTS Workers,
          Reporter, Main,   \* the two goroutines that take snapshots
          MaxLatencies,     \* samples kept of each kind (10000 in the code)
          Tried,            \* bound: the kinds of operations recorded
          Bounds            \* bound: sets of operations, ticks of the reporter and ticks
                            \* of the connection monitor that go together

Snapshooters == {Reporter, Main}
Ops == {"reads", "inserts", "updates"}

\* The counters in the order GetSnapshot loads them.
LoadOrder == <<"reads", "inserts", "updates", "errors", "bytes">>
Counters == {LoadOrder[i] : i \in 1..5}

\* The connection gauges in the order UpdateConnectionMetrics stores them and
\* GetSnapshot loads them.
GaugeOrder == <<"active", "max", "available">>
Gauges == {GaugeOrder[i] : i \in 1..3}

ASSUME MetricsAssumption ==
       /\ IsFiniteSet(Workers)
       /\ Reporter # Main
       /\ MaxLatencies \in Nat \ {0}
       /\ Tried \subseteq Ops \cup {"errors"}
       /\ Bounds \subseteq [ops : Nat, reports : Nat, updates : Nat]

VARIABLES counter,     \* totalReads .. totalBytes
          latencies,   \* per kind of operation: the number of samples held
          readers,     \* the snapshooters that hold latencyMutex.RLock
          work,        \* per worker: the operation it records and how far it is
          started,     \* operations begun (bounded)
          stopped,     \* Stop has returned: no worker records any more
          clock,       \* what time.Now() returns next
          lastReportTime,
          last,        \* lastReadCount .. lastBytesCount
          snap,        \* per snapshooter: its progress through GetSnapshot
          reports,     \* snapshots the reporter has begun (bounded)
          gauges,      \* activeConns, maxConns, availableConns: the update each is of
          updates,     \* updates the monitor has begun (bounded)
          stored,      \* stores it has done of the one under way
          told         \* history: the growth all finished snapshots reported

lastVars == <<lastReportTime, last>>
recordVars == <<counter, latencies, work, started, stopped>>
gaugeVars == <<gauges, updates, stored>>
vars == <<recordVars, readers, clock, lastVars, snap, reports, gaugeVars, told>>

Zero == [c \in Counters |-> 0]

WithinBounds(ops, ticks, ups) ==
    \E b \in Bounds : ops <= b.ops /\ ticks <= b.reports /\ ups <= b.updates

\* at: the next step; i: the counter it has come to; now, interval: of the call;
\* totals, gauges: the values loaded; growth: the numerators of the rates; held:
\* the samples the percentiles were taken over; since: history, the updates of the
\* gauges that were complete at its start.
Snapshot == [at : {"start", "interval", "load", "gauges", "rates", "rlock", "percentiles",
                   "store", "time"},
             i : 1..5, now : Nat, interval : Int, totals : [Counters -> Nat],
             gauges : [Gauges -> Nat], since : Nat,
             growth : [Counters -> Int], held : [Ops -> Nat], taken : Nat]

\* Type invariant of counters, lock and snapshots.
TypeOK ==
    /\ counter \in [Counters -> Nat]
    /\ latencies \in [Ops -> Nat]
    /\ readers \in SUBSET Snapshooters
    /\ work \in [Workers -> [kind : Ops \cup {"errors"},
                             at : {"loop", "count", "bytes", "lock", "append", "trim"}]]
    /\ started \in Nat
    /\ stopped \in BOOLEAN
    /\ clock \in Nat
    /\ lastReportTime \in Nat
    /\ last \in [Counters -> Nat]
    /\ snap \in [Snapshooters -> Snapshot]
    /\ reports \in Nat
    /\ gauges \in [Gauges -> Nat]
    /\ updates \in Nat
    /\ stored \in 0..2
    /\ told \in [Counters -> Int]

Init ==
    /\ counter = Zero
    /\ latencies = [k \in Ops |-> 0]
    /\ readers = {}
    /\ work = [w \in Workers |-> [kind |-> "errors", at |-> "loop"]]
    /\ started = 0
    /\ stopped = FALSE
    /\ clock = 1
    /\ lastReportTime = 0
    /\ last = Zero
    /\ snap = [s \in Snapshooters |->
                 [at |-> "start", i |-> 1, now |-> 0, interval |-> 0, totals |-> Zero,
                  gauges |-> [g \in Gauges |-> 0], since |-> 0,
                  growth |-> Zero, held |-> [k \in Ops |-> 0], taken |-> 0]]
    /\ reports = 0
    /\ gauges = [g \in Gauges |-> 0]
    /\ updates = 0
    /\ stored = 0
    /\ told = Zero

-----------------------------------------------------------------------------
(* RecordRead, RecordInsert, RecordUpdate and RecordError.                   *)

recordKept == <<stopped, readers, clock, lastVars, snap, reports, gaugeVars, told>>

Step(w, from, to) == work[w].at = from /\ work' = [work EXCEPT ![w].at = to]

Begin(w) ==
    /\ ~stopped
    /\ WithinBounds(started + 1, reports, updates)
    /\ work[w].at = "loop"
    /\ \E k \in Tried : work' = [work EXCEPT ![w] = [kind |-> k, at |-> "count"]]
    /\ started' = started + 1
    /\ UNCHANGED <<counter, latencies, recordKept>>

\* An error is counted, and that is all.
Count(w) ==
    /\ Step(w, "count", IF work[w].kind = "errors" THEN "loop" ELSE "bytes")
    /\ counter' = [counter EXCEPT ![work[w].kind] = @ + 1]
    /\ UNCHANGED <<latencies, started, recordKept>>

CountBytes(w) ==
    /\ Step(w, "bytes", "lock")
    /\ counter' = [counter EXCEPT !["bytes"] = @ + 1]
    /\ UNCHANGED <<latencies, started, recordKept>>

Writing == {w \in Workers : work[w].at \in {"append", "trim"}}

\* Mutant: the write lock does not wait for readers.
LockOverReaders(w) ==
    /\ Writing = {}
    /\ Step(w, "lock", "append")
    /\ UNCHANGED <<counter, latencies, started, recordKept>>

Lock(w) ==
    /\ readers = {} /\ Writing = {}
    /\ Step(w, "lock", "append")
    /\ UNCHANGED <<counter, latencies, started, recordKept>>

AppendLatency(w) ==
    /\ Step(w, "append", "trim")
    /\ latencies' = [latencies EXCEPT ![work[w].kind] = @ + 1]
    /\ UNCHANGED <<counter, started, recordKept>>

\* The oldest samples go, and the lock.
TrimAndUnlock(w) ==
    /\ Step(w, "trim", "loop")
    /\ latencies' = [latencies EXCEPT ![work[w].kind] =
                        IF @ > MaxLatencies THEN MaxLatencies ELSE @]
    /\ UNCHANGED <<counter, started, recordKept>>

\* Mutant: Stop does not wait for the workers.
StopReturnsAtOnce ==
    /\ ~stopped
    /\ stopped' = TRUE
    /\ UNCHANGED <<counter, latencies, work, started, readers, clock, lastVars, snap,
                   reports, gaugeVars, told>>

\* Stop: its wg.Wait has seen every worker leave its loop.
StopReturns ==
    /\ ~stopped
    /\ \A w \in Workers : work[w].at = "loop"
    /\ stopped' = TRUE
    /\ UNCHANGED <<counter, latencies, work, started, readers, clock, lastVars, snap,
                   reports, gaugeVars, told>>

-----------------------------------------------------------------------------
(* UpdateConnectionMetrics, which the connection monitor calls after each     *)
(* count: three stores, and no lock.                                         *)

\* Mutant: the third gauge is forgotten.
StoreTwoGauges ==
    LET n == IF stored = 0 THEN updates + 1 ELSE updates
    IN /\ WithinBounds(started, reports, n)
       /\ gauges' = [gauges EXCEPT ![GaugeOrder[stored + 1]] = n]
       /\ updates' = n
       /\ stored' = (stored + 1) % 2
       /\ UNCHANGED <<recordVars, readers, clock, lastVars, snap, reports, told>>

StoreGauge ==
    LET n == IF stored = 0 THEN updates + 1 ELSE updates
    IN /\ WithinBounds(started, reports, n)
       /\ gauges' = [gauges EXCEPT ![GaugeOrder[stored + 1]] = n]
       /\ updates' = n
       /\ stored' = (stored + 1) % 3
       /\ UNCHANGED <<recordVars, readers, clock, lastVars, snap, reports, told>>

Completed == IF stored = 0 THEN updates ELSE updates - 1

-----------------------------------------------------------------------------
(* GetSnapshot.                                                             *)

snapKept == <<recordVars, reports, gaugeVars>>

\* time.Now().  The reporter is at its ticker, until the context ends and not
\* until Stop; main calls once, after Stop.
TakeTime(s) ==
    /\ snap[s].at = "start"
    /\ IF s = Reporter THEN WithinBounds(started, reports + 1, updates)
       ELSE stopped /\ snap[s].taken = 0
    /\ reports' = IF s = Reporter THEN reports + 1 ELSE reports
    /\ snap' = [snap EXCEPT ![s].at = "interval", ![s].now = clock, ![s].since = Completed]
    /\ clock' = clock + 1
    /\ UNCHANGED <<recordVars, readers, lastVars, gaugeVars, told>>

ReadInterval(s) ==
    /\ snap[s].at = "interval"
    /\ snap' = [snap EXCEPT ![s].at = "load",
                            ![s].interval = snap[s].now - lastReportTime]
    /\ UNCHANGED <<snapKept, readers, clock, lastVars, told>>

\* Mutant: one counter too many.
OnwardOneMore(s, n, next) ==
    IF snap[s].i <= n THEN [snap EXCEPT ![s].i = @ + 1]
    ELSE [snap EXCEPT ![s].i = 1, ![s].at = next]

\* The next of n fields of the order, or the next step.
Onward(s, n, next) ==
    IF snap[s].i < n THEN [snap EXCEPT ![s].i = @ + 1]
    ELSE [snap EXCEPT ![s].i = 1, ![s].at = next]

LoadCounter(s) ==
    /\ snap[s].at = "load"
    /\ LET c == LoadOrder[snap[s].i]
       IN snap' = [Onward(s, 5, "gauges") EXCEPT ![s].totals = [@ EXCEPT ![c] = counter[c]]]
    /\ UNCHANGED <<snapKept, readers, clock, lastVars, told>>

LoadGauge(s) ==
    /\ snap[s].at = "gauges"
    /\ LET g == GaugeOrder[snap[s].i]
       IN snap' = [Onward(s, 3, "rates") EXCEPT ![s].gauges = [@ EXCEPT ![g] = gauges[g]]]
    /\ UNCHANGED <<snapKept, readers, clock, lastVars, told>>

\* The differences to the last* fields, when time has passed; the rates are 0
\* otherwise.
ReadGrowth(s) ==
    /\ snap[s].at = "rates"
    /\ LET c == LoadOrder[snap[s].i]
       IN snap' = [Onward(s, 5, "rlock") EXCEPT
                     ![s].growth = [@ EXCEPT ![c] = IF snap[s].interval > 0
                                                    THEN snap[s].totals[c] - last[c]
                                                    ELSE 0]]
    /\ UNCHANGED <<snapKept, readers, clock, lastVars, told>>

RLock(s) ==
    /\ snap[s].at = "rlock"
    /\ Writing = {}
    /\ readers' = readers \cup {s}
    /\ snap' = [snap EXCEPT ![s].at = "percentiles"]
    /\ UNCHANGED <<snapKept, clock, lastVars, told>>

\* Mutant: RUnlock is forgotten.
PercentilesKeepLock(s) ==
    /\ snap[s].at = "percentiles"
    /\ snap' = [snap EXCEPT ![s].at = "store", ![s].held = latencies]
    /\ UNCHANGED <<snapKept, readers, clock, lastVars, told>>

\* calculateAvg and calculatePercentile sort copies while the lock is held.
Percentiles(s) ==
    /\ snap[s].at = "percentiles"
    /\ readers' = readers \ {s}
    /\ snap' = [snap EXCEPT ![s].at = "store", ![s].held = latencies]
    /\ UNCHANGED <<snapKept, clock, lastVars, told>>

\* Mutant: the last* fields take the counters of now, not those of the snapshot.
StoreLastOfNow(s) ==
    /\ snap[s].at = "store"
    /\ LET c == LoadOrder[snap[s].i] IN last' = [last EXCEPT ![c] = counter[c]]
    /\ snap' = Onward(s, 5, "time")
    /\ UNCHANGED <<snapKept, readers, clock, lastReportTime, told>>

\* The last* fields one by one, then lastReportTime; the snapshot is printed.
StoreLast(s) ==
    /\ snap[s].at = "store"
    /\ LET c == LoadOrder[snap[s].i] IN last' = [last EXCEPT ![c] = snap[s].totals[c]]
    /\ snap' = Onward(s, 5, "time")
    /\ UNCHANGED <<snapKept, readers, clock, lastReportTime, told>>

StoreTime(s) ==
    /\ snap[s].at = "time"
    /\ lastReportTime' = snap[s].now
    /\ snap' = [snap EXCEPT ![s].at = "start", ![s].taken = @ + 1]
    /\ told' = [c \in Counters |-> told[c] + snap[s].growth[c]]
    /\ UNCHANGED <<snapKept, readers, clock, last>>

-----------------------------------------------------------------------------
Record(w) ==
    Begin(w) \/ Count(w) \/ CountBytes(w) \/ Lock(w) \/ AppendLatency(w) \/ TrimAndUnlock(w)

GetSnapshot(s) ==
    \/ TakeTime(s) \/ ReadInterval(s) \/ LoadCounter(s) \/ LoadGauge(s) \/ ReadGrowth(s)
    \/ RLock(s) \/ Percentiles(s) \/ StoreLast(s) \/ StoreTime(s)

Next ==
    \/ \E w \in Workers : Record(w)
    \/ StopReturns
    \/ StoreGauge
    \/ \E s \in Snapshooters : GetSnapshot(s)

Spec == Init /\ [][Next]_vars

\* Goroutines are scheduled, and sync.RWMutex passes over no waiting writer for
\* ever: it lets no new reader in before it.
FairSpec ==
    /\ Spec
    /\ \A w \in Workers : WF_vars(Record(w)) /\ SF_vars(Lock(w))
    /\ \A s \in Snapshooters : WF_vars(GetSnapshot(s))

-----------------------------------------------------------------------------
\* Percentiles are taken over a buffer that stands still and was trimmed: no
\* sample arrives while a snapshot holds the read lock, and none above the limit
\* is ever seen.
ReadersSeeTrimmedBuffer ==
    readers # {} => /\ Writing = {}
                    /\ \A k \in Ops : latencies[k] <= MaxLatencies

\* main's final snapshot is exact: it is taken after Stop, so it holds every
\* operation and every sample, whatever the reporter does meanwhile.
FinalSnapshotExact ==
    snap[Main].taken > 0 =>
        /\ snap[Main].totals = counter
        /\ snap[Main].held = latencies
        /\ started = counter["reads"] + counter["inserts"] + counter["updates"]
                     + counter["errors"]

\* While the reporter is the only one to take snapshots its intervals tile the
\* run: each operation is part of the growth of exactly one report, although
\* workers record between any two steps of GetSnapshot.
ReporterIntervalsTile ==
    snap[Main].at = "start" /\ snap[Main].taken = 0 /\ snap[Reporter].at = "start" =>
        told = last /\ \A c \in Counters : last[c] <= counter[c]

\* The numbers of connections of a snapshot, three loads while the monitor stores:
\* none is older than the last update that was complete when the snapshot began,
\* and none comes before its own update.
GaugesFresh ==
    \A s \in Snapshooters : \A g \in Gauges :
        snap[s].at \in {"rates", "rlock", "percentiles", "store", "time"} =>
            snap[s].since <= snap[s].gauges[g] /\ snap[s].gauges[g] <= updates

\* A worker that has counted its operation also gets the lock for its latency,
\* however many snapshots sort their copies under it.
RecorderIsServed ==
    \A w \in Workers : work[w].at = "lock" ~> work[w].at = "append"

\* README.md:299, "Operations/sec: Throughput during the last reporting
\* interval": the operations of an interval are not fewer than none.  Does not
\* hold: main's final snapshot moves the last* fields under the reporter's feet.
RatesNotNegative ==
    \A s \in Snapshooters : \A c \in Counters : snap[s].growth[c] >= 0
=============================================================================
