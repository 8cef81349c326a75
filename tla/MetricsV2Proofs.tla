-------------------------- MODULE MetricsV2Proofs --------------------------
(***************************************************************************)
(* Proofs about the snapshots, for any number of workers, operations,          *)
(* reports and updates and any buffer: a buffer that is read stands still and *)
(* is trimmed, main's final snapshot is exact, the reporter's intervals tile  *)
(* the run, and the gauges are never older than the snapshot.                *)
(***************************************************************************)
EXTENDS MetricsV2, FiniteSetTheorems, TLAPS

LEMMA CountersAre ==
    /\ Counters = {"reads", "inserts", "updates", "errors", "bytes"}
    /\ Ops \cup {"errors"} \subseteq Counters
    /\ \A i \in 1..5 : LoadOrder[i] \in Counters
    /\ \A c \in Counters : \E i \in 1..5 : c = LoadOrder[i]
    /\ \A i, j \in 1..5 : LoadOrder[i] = LoadOrder[j] => i = j
<1>1. Counters = {"reads", "inserts", "updates", "errors", "bytes"}
  <2>1. 1..5 = {1, 2, 3, 4, 5}
    OBVIOUS
  <2>2. /\ LoadOrder[1] = "reads" /\ LoadOrder[2] = "inserts" /\ LoadOrder[3] = "updates"
        /\ LoadOrder[4] = "errors" /\ LoadOrder[5] = "bytes"
    BY DEF LoadOrder
  <2> QED BY <2>1, <2>2 DEF Counters
<1>2. \A i, j \in 1..5 : LoadOrder[i] = LoadOrder[j] => i = j
  BY DEF LoadOrder
<1> QED BY <1>1, <1>2 DEF Counters, Ops

LEMMA GaugesAre ==
    /\ \A i \in 1..3 : GaugeOrder[i] \in Gauges
    /\ \A g \in Gauges : \E i \in 1..3 : g = GaugeOrder[i]
    /\ \A i, j \in 1..3 : GaugeOrder[i] = GaugeOrder[j] => i = j
<1>1. \A i, j \in 1..3 : GaugeOrder[i] = GaugeOrder[j] => i = j
  BY DEF GaugeOrder
<1> QED BY <1>1 DEF Gauges

-----------------------------------------------------------------------------
(* Types.                                                                   *)

\* An update under way has been counted.
UpdateBegun == stored # 0 => updates > 0

\* A snapshot that loads the gauges is at one of three.
Indices ==
    \A s \in Snapshooters :
        /\ snap[s].at = "gauges" => snap[s].i <= 3
        /\ snap[s].at \notin {"load", "gauges", "rates", "store"} => snap[s].i = 1

Points == {"start", "interval", "load", "gauges", "rates", "rlock", "percentiles",
           "store", "time"}

LEMMA SnapshotFields ==
    ASSUME NEW r \in Snapshot
    PROVE  /\ \A j \in 1..5 : [r EXCEPT !.i = j] \in Snapshot
           /\ \A p \in Points : [r EXCEPT !.at = p] \in Snapshot
           /\ \A t \in [Counters -> Nat] : [r EXCEPT !.totals = t] \in Snapshot
           /\ \A t \in [Counters -> Int] : [r EXCEPT !.growth = t] \in Snapshot
           /\ \A t \in [Gauges -> Nat] : [r EXCEPT !.gauges = t] \in Snapshot
BY DEF Snapshot, Points

LEMMA OnwardStays ==
    ASSUME TypeOK, NEW s \in Snapshooters, NEW n \in 1..5, NEW next \in Points
    PROVE  Onward(s, n, next) \in [Snapshooters -> Snapshot]
<1>1. snap \in [Snapshooters -> Snapshot] /\ snap[s] \in Snapshot
  BY DEF TypeOK
<1> DEFINE j == snap[s].i
<1>2. j \in 1..5
  BY <1>1 DEF Snapshot
<1>3. CASE j < n
  <2>1. j + 1 \in 1..5
    BY <1>2, <1>3
  <2>2. Onward(s, n, next) = [snap EXCEPT ![s] = [@ EXCEPT !.i = j + 1]]
    BY <1>3 DEF Onward
  <2> HIDE DEF j
  <2>3. [snap[s] EXCEPT !.i = j + 1] \in Snapshot
    BY <1>1, <2>1 DEF Snapshot
  <2> QED BY <1>1, <2>2, <2>3
<1>4. CASE ~(j < n)
  <2>1. Onward(s, n, next) = [snap EXCEPT ![s] = [@ EXCEPT !.i = 1, !.at = next]]
    BY <1>4 DEF Onward
  <2>2. [snap[s] EXCEPT !.i = 1, !.at = next] \in Snapshot
    <3> DEFINE r == [snap[s] EXCEPT !.i = 1]
    <3>1. r \in Snapshot
      <4>1. 1 \in 1..5
        OBVIOUS
      <4> QED BY <1>1, <4>1, SnapshotFields
    <3>2. [snap[s] EXCEPT !.i = 1, !.at = next] = [r EXCEPT !.at = next]
      OBVIOUS
    <3> HIDE DEF r
    <3> QED BY <3>1, <3>2, SnapshotFields
  <2> QED BY <1>1, <2>1, <2>2
<1> QED BY <1>3, <1>4

LEMMA SnapshotStays ==
    ASSUME TypeOK, UpdateBegun, Indices, NEW s \in Snapshooters, GetSnapshot(s)
    PROVE  snap' \in [Snapshooters -> Snapshot]
<1>1. snap \in [Snapshooters -> Snapshot] /\ snap[s] \in Snapshot
  BY DEF TypeOK
<1>2. snap[s].i \in 1..5
  BY <1>1 DEF Snapshot
<1>3. CASE TakeTime(s)
  <2>1. clock \in Nat /\ Completed \in Nat
    BY DEF TypeOK, UpdateBegun, Completed
  <2>2. snap' = [snap EXCEPT ![s].at = "interval", ![s].now = clock, ![s].since = Completed]
    BY <1>3 DEF TakeTime
  <2> QED BY <1>1, <2>1, <2>2 DEF Snapshot
<1>4. CASE ReadInterval(s)
  <2>1. lastReportTime \in Nat /\ snap[s].now \in Nat
    BY <1>1 DEF TypeOK, Snapshot
  <2> DEFINE d == snap[s].now - lastReportTime
  <2>2. d \in Int
    BY <2>1
  <2>3. snap' = [snap EXCEPT ![s].at = "load", ![s].interval = d]
    BY <1>4 DEF ReadInterval
  <2> HIDE DEF d
  <2> QED BY <1>1, <2>2, <2>3 DEF Snapshot
<1>5. CASE LoadCounter(s)
  <2> DEFINE c == LoadOrder[snap[s].i]
             o == Onward(s, 5, "gauges")
             n == counter[c]
  <2>1. c \in Counters /\ n \in Nat
    BY <1>2, CountersAre DEF TypeOK
  <2>2. o \in [Snapshooters -> Snapshot]
    BY OnwardStays DEF Points
  <2>3. snap' = [o EXCEPT ![s].totals = [@ EXCEPT ![c] = n]]
    BY <1>5 DEF LoadCounter
  <2> HIDE DEF c, o, n
  <2> DEFINE t == [o[s].totals EXCEPT ![c] = n]
             r == [o[s] EXCEPT !.totals = t]
  <2>5. t \in [Counters -> Nat]
    BY <2>1, <2>2 DEF Snapshot
  <2>6. snap' = [o EXCEPT ![s] = r]
    BY <2>3
  <2> HIDE DEF t
  <2>7. r \in Snapshot
    BY <2>2, <2>5, SnapshotFields
  <2> HIDE DEF r
  <2> QED BY <2>2, <2>6, <2>7
<1>6. CASE LoadGauge(s)
  <2> DEFINE g == GaugeOrder[snap[s].i]
             o == Onward(s, 3, "rates")
             n == gauges[g]
  <2>1. g \in Gauges /\ n \in Nat
    <3>1. snap[s].i \in 1..3
      BY <1>2, <1>6 DEF Indices, LoadGauge
    <3> QED BY <3>1, GaugesAre DEF TypeOK
  <2>2. o \in [Snapshooters -> Snapshot]
    BY OnwardStays DEF Points
  <2>3. snap' = [o EXCEPT ![s].gauges = [@ EXCEPT ![g] = n]]
    BY <1>6 DEF LoadGauge
  <2> HIDE DEF g, o, n
  <2> DEFINE t == [o[s].gauges EXCEPT ![g] = n]
             r == [o[s] EXCEPT !.gauges = t]
  <2>5. t \in [Gauges -> Nat]
    BY <2>1, <2>2 DEF Snapshot
  <2>6. snap' = [o EXCEPT ![s] = r]
    BY <2>3
  <2> HIDE DEF t
  <2>7. r \in Snapshot
    BY <2>2, <2>5, SnapshotFields
  <2> HIDE DEF r
  <2> QED BY <2>2, <2>6, <2>7
<1>7. CASE ReadGrowth(s)
  <2> DEFINE c == LoadOrder[snap[s].i]
             o == Onward(s, 5, "rlock")
             n == IF snap[s].interval > 0 THEN snap[s].totals[c] - last[c] ELSE 0
  <2>1. c \in Counters
    BY <1>2, CountersAre
  <2>2. n \in Int
    BY <1>1, <2>1 DEF TypeOK, Snapshot
  <2>3. o \in [Snapshooters -> Snapshot]
    BY OnwardStays DEF Points
  <2>4. snap' = [o EXCEPT ![s].growth = [@ EXCEPT ![c] = n]]
    BY <1>7 DEF ReadGrowth
  <2> HIDE DEF c, o, n
  <2> DEFINE t == [o[s].growth EXCEPT ![c] = n]
             r == [o[s] EXCEPT !.growth = t]
  <2>5. t \in [Counters -> Int]
    BY <2>1, <2>2, <2>3 DEF Snapshot
  <2>6. snap' = [o EXCEPT ![s] = r]
    BY <2>4
  <2> HIDE DEF t
  <2>7. r \in Snapshot
    BY <2>3, <2>5, SnapshotFields
  <2> HIDE DEF r
  <2> QED BY <2>3, <2>6, <2>7
<1>8. CASE RLock(s)
  BY <1>1, <1>8 DEF RLock, Snapshot
<1>9. CASE Percentiles(s)
  BY <1>1, <1>9 DEF Percentiles, Snapshot, TypeOK
<1>10. CASE StoreLast(s)
  BY <1>10, OnwardStays DEF StoreLast, Points
<1>11. CASE StoreTime(s)
  <2>1. snap[s].taken + 1 \in Nat
    BY <1>1 DEF Snapshot
  <2> DEFINE n == snap[s].taken + 1
  <2>2. snap' = [snap EXCEPT ![s].at = "start", ![s].taken = n]
    BY <1>1, <1>11 DEF StoreTime
  <2> HIDE DEF n
  <2> QED BY <1>1, <2>1, <2>2 DEF Snapshot, n
<1> QED BY <1>3, <1>4, <1>5, <1>6, <1>7, <1>8, <1>9, <1>10, <1>11 DEF GetSnapshot
\* What becomes of the other snapshot, and of each field of this one.
Moved(s, n, next) ==
    LET o == Onward(s, n, next) IN
    /\ o \in [Snapshooters -> Snapshot]
    /\ \A t \in Snapshooters : t # s => o[t] = snap[t]
    /\ snap[s].i < n => o[s].i = snap[s].i + 1 /\ o[s].at = snap[s].at
    /\ ~(snap[s].i < n) => o[s].i = 1 /\ o[s].at = next
    /\ o[s].now = snap[s].now /\ o[s].interval = snap[s].interval
    /\ o[s].totals = snap[s].totals /\ o[s].gauges = snap[s].gauges
    /\ o[s].since = snap[s].since /\ o[s].growth = snap[s].growth
    /\ o[s].held = snap[s].held /\ o[s].taken = snap[s].taken

LEMMA OnwardFields ==
    ASSUME TypeOK, NEW s \in Snapshooters, NEW n \in 1..5, NEW next \in Points
    PROVE  Moved(s, n, next)
<1>1. snap \in [Snapshooters -> Snapshot] /\ snap[s] \in Snapshot
  BY DEF TypeOK
<1>2. Onward(s, n, next) \in [Snapshooters -> Snapshot]
  BY OnwardStays
<1>3. CASE snap[s].i < n
  BY <1>1, <1>2, <1>3 DEF Moved, Onward, Snapshot
<1>4. CASE ~(snap[s].i < n)
  BY <1>1, <1>2, <1>4 DEF Moved, Onward, Snapshot
<1> QED BY <1>3, <1>4

\* The four steps that go through the fields of an order.
LEMMA OnwardSteps ==
    ASSUME TypeOK, NEW s \in Snapshooters
    PROVE  /\ Moved(s, 5, "gauges") /\ Moved(s, 3, "rates")
           /\ Moved(s, 5, "rlock") /\ Moved(s, 5, "time")
<1>1. /\ 3 \in 1..5 /\ 5 \in 1..5
      /\ "gauges" \in Points /\ "rates" \in Points /\ "rlock" \in Points /\ "time" \in Points
  BY DEF Points
<1> QED BY <1>1, OnwardFields

\* Where a step that goes through the fields of an order leads.
Onwards(s, n, next) ==
    \/ snap[s].i < n /\ snap'[s].i = snap[s].i + 1 /\ snap'[s].at = snap[s].at
    \/ ~(snap[s].i < n) /\ snap'[s].i = 1 /\ snap'[s].at = next

\* What each step makes of the fields of its snapshot.
LEMMA TakeTimeEffect ==
    ASSUME TypeOK, NEW s \in Snapshooters, TakeTime(s)
    PROVE  /\ snap[s].at = "start" /\ snap'[s].at = "interval"
          /\ snap'[s].now = clock
          /\ snap'[s].since = Completed
          /\ snap'[s].i = snap[s].i /\ snap'[s].interval = snap[s].interval
          /\ snap'[s].totals = snap[s].totals /\ snap'[s].gauges = snap[s].gauges
          /\ snap'[s].growth = snap[s].growth /\ snap'[s].held = snap[s].held
          /\ snap'[s].taken = snap[s].taken
<1> DEFINE v1 == clock
           v2 == Completed
<1>1. snap \in [Snapshooters -> Snapshot] /\ snap[s] \in Snapshot
  BY DEF TypeOK
<1>2. snap[s].at = "start" /\ snap' =
         [snap EXCEPT ![s] = [@ EXCEPT !.at = "interval", !.now = v1, !.since = v2]]
  BY <1>1 DEF TakeTime
<1> HIDE DEF v1, v2
<1> QED BY <1>1, <1>2 DEF Snapshot, v1, v2

LEMMA ReadIntervalEffect ==
    ASSUME TypeOK, NEW s \in Snapshooters, ReadInterval(s)
    PROVE  /\ snap[s].at = "interval" /\ snap'[s].at = "load"
          /\ snap'[s].interval = snap[s].now - lastReportTime
          /\ snap'[s].i = snap[s].i /\ snap'[s].now = snap[s].now
          /\ snap'[s].totals = snap[s].totals /\ snap'[s].gauges = snap[s].gauges
          /\ snap'[s].since = snap[s].since /\ snap'[s].growth = snap[s].growth
          /\ snap'[s].held = snap[s].held /\ snap'[s].taken = snap[s].taken
<1> DEFINE v == snap[s].now - lastReportTime
<1>1. snap \in [Snapshooters -> Snapshot] /\ snap[s] \in Snapshot
  BY DEF TypeOK
<1>2. snap[s].at = "interval" /\ snap' =
         [snap EXCEPT ![s] = [@ EXCEPT !.at = "load", !.interval = v]]
  BY <1>1 DEF ReadInterval
<1> HIDE DEF v
<1> QED BY <1>1, <1>2 DEF Snapshot, v

LEMMA RLockEffect ==
    ASSUME TypeOK, NEW s \in Snapshooters, RLock(s)
    PROVE  /\ snap[s].at = "rlock" /\ snap'[s].at = "percentiles"
          /\ snap'[s].i = snap[s].i /\ snap'[s].now = snap[s].now
          /\ snap'[s].interval = snap[s].interval /\ snap'[s].totals = snap[s].totals
          /\ snap'[s].gauges = snap[s].gauges /\ snap'[s].since = snap[s].since
          /\ snap'[s].growth = snap[s].growth /\ snap'[s].held = snap[s].held
          /\ snap'[s].taken = snap[s].taken
<1>1. snap \in [Snapshooters -> Snapshot] /\ snap[s] \in Snapshot
  BY DEF TypeOK
<1>2. snap[s].at = "rlock" /\ snap' = [snap EXCEPT ![s] = [@ EXCEPT !.at = "percentiles"]]
  BY <1>1 DEF RLock
<1> QED BY <1>1, <1>2 DEF Snapshot

LEMMA PercentilesEffect ==
    ASSUME TypeOK, NEW s \in Snapshooters, Percentiles(s)
    PROVE  /\ snap[s].at = "percentiles" /\ snap'[s].at = "store"
          /\ snap'[s].held = latencies
          /\ snap'[s].i = snap[s].i /\ snap'[s].now = snap[s].now
          /\ snap'[s].interval = snap[s].interval /\ snap'[s].totals = snap[s].totals
          /\ snap'[s].gauges = snap[s].gauges /\ snap'[s].since = snap[s].since
          /\ snap'[s].growth = snap[s].growth /\ snap'[s].taken = snap[s].taken
<1> DEFINE v == latencies
<1>1. snap \in [Snapshooters -> Snapshot] /\ snap[s] \in Snapshot
  BY DEF TypeOK
<1>2. snap[s].at = "percentiles" /\ snap' =
         [snap EXCEPT ![s] = [@ EXCEPT !.at = "store", !.held = v]]
  BY <1>1 DEF Percentiles
<1> HIDE DEF v
<1> QED BY <1>1, <1>2 DEF Snapshot, v

LEMMA StoreTimeEffect ==
    ASSUME TypeOK, NEW s \in Snapshooters, StoreTime(s)
    PROVE  /\ snap[s].at = "time" /\ snap'[s].at = "start"
          /\ snap'[s].taken = snap[s].taken + 1
          /\ snap'[s].i = snap[s].i /\ snap'[s].now = snap[s].now
          /\ snap'[s].interval = snap[s].interval /\ snap'[s].totals = snap[s].totals
          /\ snap'[s].gauges = snap[s].gauges /\ snap'[s].since = snap[s].since
          /\ snap'[s].growth = snap[s].growth /\ snap'[s].held = snap[s].held
<1> DEFINE v == snap[s].taken + 1
<1>1. snap \in [Snapshooters -> Snapshot] /\ snap[s] \in Snapshot
  BY DEF TypeOK
<1>2. snap[s].at = "time" /\ snap' = [snap EXCEPT ![s] = [@ EXCEPT !.at = "start", !.taken = v]]
  BY <1>1 DEF StoreTime
<1> HIDE DEF v
<1> QED BY <1>1, <1>2 DEF Snapshot, v

LEMMA OrderedEffects ==
    ASSUME TypeOK, NEW s \in Snapshooters
    PROVE
    /\ LoadCounter(s) =>
       /\ snap[s].at = "load" /\ Onwards(s, 5, "gauges")
       /\ snap'[s].totals = [snap[s].totals EXCEPT ![LoadOrder[snap[s].i]] =
                               counter[LoadOrder[snap[s].i]]]
       /\ snap'[s].now = snap[s].now /\ snap'[s].interval = snap[s].interval
       /\ snap'[s].gauges = snap[s].gauges /\ snap'[s].since = snap[s].since
       /\ snap'[s].growth = snap[s].growth /\ snap'[s].held = snap[s].held
       /\ snap'[s].taken = snap[s].taken
    /\ LoadGauge(s) =>
       /\ snap[s].at = "gauges" /\ Onwards(s, 3, "rates")
       /\ snap'[s].now = snap[s].now /\ snap'[s].interval = snap[s].interval
       /\ snap'[s].totals = snap[s].totals /\ snap'[s].since = snap[s].since
       /\ snap'[s].growth = snap[s].growth /\ snap'[s].held = snap[s].held
       /\ snap'[s].taken = snap[s].taken
    /\ ReadGrowth(s) =>
       /\ snap[s].at = "rates" /\ Onwards(s, 5, "rlock")
       /\ snap'[s].growth = [snap[s].growth EXCEPT ![LoadOrder[snap[s].i]] =
                               IF snap[s].interval > 0
                               THEN snap[s].totals[LoadOrder[snap[s].i]] - last[LoadOrder[snap[s].i]]
                               ELSE 0]
       /\ snap'[s].now = snap[s].now /\ snap'[s].interval = snap[s].interval
       /\ snap'[s].totals = snap[s].totals /\ snap'[s].gauges = snap[s].gauges
       /\ snap'[s].since = snap[s].since /\ snap'[s].held = snap[s].held
       /\ snap'[s].taken = snap[s].taken
    /\ StoreLast(s) =>
       /\ snap[s].at = "store" /\ Onwards(s, 5, "time")
       /\ snap'[s].now = snap[s].now /\ snap'[s].interval = snap[s].interval
       /\ snap'[s].totals = snap[s].totals /\ snap'[s].gauges = snap[s].gauges
       /\ snap'[s].since = snap[s].since /\ snap'[s].growth = snap[s].growth
       /\ snap'[s].held = snap[s].held /\ snap'[s].taken = snap[s].taken
<1> DEFINE i == snap[s].i
           c == LoadOrder[i]
<1>1. ASSUME LoadCounter(s)
      PROVE  /\ snap[s].at = "load" /\ Onwards(s, 5, "gauges")
             /\ snap'[s].totals = [snap[s].totals EXCEPT ![c] = counter[c]]
             /\ snap'[s].now = snap[s].now /\ snap'[s].interval = snap[s].interval
             /\ snap'[s].gauges = snap[s].gauges /\ snap'[s].since = snap[s].since
             /\ snap'[s].growth = snap[s].growth /\ snap'[s].held = snap[s].held
             /\ snap'[s].taken = snap[s].taken
  <2> DEFINE o == Onward(s, 5, "gauges")
             t == [o[s].totals EXCEPT ![c] = counter[c]]
  <2>1. o \in [Snapshooters -> Snapshot]
    BY OnwardStays DEF Points
  <2>2. snap' = [o EXCEPT ![s].totals = t] /\ snap[s].at = "load"
    BY <1>1, <2>1 DEF LoadCounter
  <2>3. t = [snap[s].totals EXCEPT ![c] = counter[c]]
    <3>1. o[s].totals = snap[s].totals
      BY OnwardSteps DEF Moved
    <3> HIDE DEF o
    <3> QED BY <3>1
  <2> HIDE DEF t
  <2>4. snap'[s].totals = t
    <3> HIDE DEF o
    <3> QED BY <2>1, <2>2 DEF Snapshot
  <2>5. /\ Onwards(s, 5, "gauges")
         /\ snap'[s].now = snap[s].now /\ snap'[s].interval = snap[s].interval
         /\ snap'[s].gauges = snap[s].gauges /\ snap'[s].since = snap[s].since
         /\ snap'[s].growth = snap[s].growth /\ snap'[s].held = snap[s].held
         /\ snap'[s].taken = snap[s].taken
    BY <2>1, <2>2, OnwardSteps DEF Snapshot, Moved, Onwards
  <2> QED BY <2>2, <2>3, <2>4, <2>5
<1>2. ASSUME LoadGauge(s)
      PROVE  /\ snap[s].at = "gauges" /\ Onwards(s, 3, "rates")
             /\ snap'[s].now = snap[s].now /\ snap'[s].interval = snap[s].interval
             /\ snap'[s].totals = snap[s].totals /\ snap'[s].since = snap[s].since
             /\ snap'[s].growth = snap[s].growth /\ snap'[s].held = snap[s].held
             /\ snap'[s].taken = snap[s].taken
  <2> DEFINE o == Onward(s, 3, "rates")
             t == [o[s].gauges EXCEPT ![GaugeOrder[i]] = gauges[GaugeOrder[i]]]
  <2>1. o \in [Snapshooters -> Snapshot]
    BY OnwardStays DEF Points
  <2>2. snap' = [o EXCEPT ![s].gauges = t] /\ snap[s].at = "gauges"
    BY <1>2, <2>1 DEF LoadGauge
  <2> HIDE DEF t
  <2> QED BY <2>1, <2>2, OnwardSteps DEF Snapshot, Moved, Onwards
<1>3. ASSUME ReadGrowth(s)
      PROVE  /\ snap[s].at = "rates" /\ Onwards(s, 5, "rlock")
             /\ snap'[s].growth = [snap[s].growth EXCEPT ![c] =
                   IF snap[s].interval > 0 THEN snap[s].totals[c] - last[c] ELSE 0]
             /\ snap'[s].now = snap[s].now /\ snap'[s].interval = snap[s].interval
             /\ snap'[s].totals = snap[s].totals /\ snap'[s].gauges = snap[s].gauges
             /\ snap'[s].since = snap[s].since /\ snap'[s].held = snap[s].held
             /\ snap'[s].taken = snap[s].taken
  <2> DEFINE o == Onward(s, 5, "rlock")
             d == IF snap[s].interval > 0 THEN snap[s].totals[c] - last[c] ELSE 0
             t == [o[s].growth EXCEPT ![c] = d]
  <2>1. o \in [Snapshooters -> Snapshot]
    BY OnwardStays DEF Points
  <2>2. snap' = [o EXCEPT ![s].growth = t] /\ snap[s].at = "rates"
    BY <1>3, <2>1 DEF ReadGrowth
  <2>3. t = [snap[s].growth EXCEPT ![c] = d]
    <3>1. o[s].growth = snap[s].growth
      BY OnwardSteps DEF Moved
    <3> HIDE DEF o
    <3> QED BY <3>1
  <2> HIDE DEF t
  <2>4. snap'[s].growth = t
    <3> HIDE DEF o
    <3> QED BY <2>1, <2>2 DEF Snapshot
  <2>5. /\ Onwards(s, 5, "rlock")
         /\ snap'[s].now = snap[s].now /\ snap'[s].interval = snap[s].interval
         /\ snap'[s].totals = snap[s].totals /\ snap'[s].gauges = snap[s].gauges
         /\ snap'[s].since = snap[s].since /\ snap'[s].held = snap[s].held
         /\ snap'[s].taken = snap[s].taken
    BY <2>1, <2>2, OnwardSteps DEF Snapshot, Moved, Onwards
  <2> QED BY <2>2, <2>3, <2>4, <2>5
<1>4. ASSUME StoreLast(s)
      PROVE  /\ snap[s].at = "store" /\ Onwards(s, 5, "time")
             /\ snap'[s].now = snap[s].now /\ snap'[s].interval = snap[s].interval
             /\ snap'[s].totals = snap[s].totals /\ snap'[s].gauges = snap[s].gauges
             /\ snap'[s].since = snap[s].since /\ snap'[s].growth = snap[s].growth
             /\ snap'[s].held = snap[s].held /\ snap'[s].taken = snap[s].taken
  BY <1>4, OnwardSteps DEF StoreLast, Moved, Onwards
<1> QED BY <1>1, <1>2, <1>3, <1>4

LEMMA OneAtATime ==
    ASSUME TypeOK, NEW s \in Snapshooters, GetSnapshot(s)
    PROVE  \A t \in Snapshooters : t # s => snap'[t] = snap[t]
<1>1. snap \in [Snapshooters -> Snapshot]
  BY DEF TypeOK
<1>2. CASE TakeTime(s) \/ ReadInterval(s) \/ RLock(s) \/ Percentiles(s) \/ StoreTime(s)
  BY <1>1, <1>2 DEF TakeTime, ReadInterval, RLock, Percentiles, StoreTime
<1>3. CASE LoadCounter(s)
  BY <1>3, OnwardSteps DEF LoadCounter, Moved
<1>4. CASE LoadGauge(s)
  BY <1>4, OnwardSteps DEF LoadGauge, Moved
<1>5. CASE ReadGrowth(s)
  BY <1>5, OnwardSteps DEF ReadGrowth, Moved
<1>6. CASE StoreLast(s)
  BY <1>6, OnwardSteps DEF StoreLast, Moved
<1> QED BY <1>2, <1>3, <1>4, <1>5, <1>6 DEF GetSnapshot
TInv == TypeOK /\ UpdateBegun /\ Indices

LEMMA RecordKeepsTInv ==
    ASSUME TInv, NEW w \in Workers, Record(w)
    PROVE  TInv'
<1> USE DEF TInv, TypeOK, recordKept,
              lastVars, gaugeVars, Step
<1>1. work[w].kind \in Ops \cup {"errors"}
  OBVIOUS
<1>2. work[w].kind \in Counters /\ "bytes" \in Counters
  BY <1>1, CountersAre
<1>3. CASE Begin(w)
  BY <1>3, MetricsAssumption DEF Begin, UpdateBegun, Indices
<1>4. CASE Count(w)
  BY <1>2, <1>4 DEF Count, UpdateBegun, Indices
<1>5. CASE CountBytes(w)
  BY <1>2, <1>5 DEF CountBytes, UpdateBegun, Indices
<1>6. CASE Lock(w)
  BY <1>6 DEF Lock, UpdateBegun, Indices
<1>7. CASE AppendLatency(w)
  <2>1. latencies' \in [Ops -> Nat]
    <3>1. latencies' = [latencies EXCEPT ![work[w].kind] = latencies[work[w].kind] + 1]
      BY <1>7 DEF AppendLatency
    <3>2. work[w].kind \in Ops => latencies[work[w].kind] + 1 \in Nat
      OBVIOUS
    <3>3. latencies \in [Ops -> Nat]
      OBVIOUS
    <3> QED BY <3>1, <3>2, <3>3
  <2>2. work' \in [Workers -> [kind : Ops \cup {"errors"},
                               at : {"loop", "count", "bytes", "lock", "append", "trim"}]]
    BY <1>7 DEF AppendLatency
  <2> QED BY <1>7, <2>1, <2>2 DEF AppendLatency, UpdateBegun, Indices
<1>8. CASE TrimAndUnlock(w)
  BY <1>8, MetricsAssumption DEF TrimAndUnlock, UpdateBegun, Indices
<1> QED BY <1>3, <1>4, <1>5, <1>6, <1>7, <1>8 DEF Record

LEMMA OthersKeepTInv ==
    ASSUME TInv, StopReturns \/ StoreGauge \/ UNCHANGED vars
    PROVE  TInv'
<1> USE DEF TInv, TypeOK, recordVars, lastVars, gaugeVars
<1>1. CASE StopReturns
  BY <1>1 DEF StopReturns, UpdateBegun, Indices
<1>2. CASE StoreGauge
  <2>1. stored + 1 \in 1..3 /\ (stored + 1) % 3 \in 0..2
        /\ (stored = 2 => (stored + 1) % 3 = 0)
    OBVIOUS
  <2>2. GaugeOrder[stored + 1] \in Gauges
    BY <2>1, GaugesAre
  <2>3. updates' \in Nat /\ updates' > 0 /\ stored' \in 0..2
    BY <1>2, <2>1 DEF StoreGauge, UpdateBegun
  <2>4. gauges' \in [Gauges -> Nat]
    BY <1>2, <2>2, <2>3 DEF StoreGauge
  <2> QED BY <1>2, <2>3, <2>4 DEF StoreGauge, UpdateBegun, Indices
<1>3. CASE UNCHANGED vars
  BY <1>3 DEF vars, UpdateBegun, Indices
<1> QED BY <1>1, <1>2, <1>3

LEMMA SnapshotKeepsIndices ==
    ASSUME TInv, NEW s \in Snapshooters, GetSnapshot(s)
    PROVE  Indices'
<1>1. TypeOK /\ snap \in [Snapshooters -> Snapshot] /\ snap[s] \in Snapshot
      /\ snap[s].i \in 1..5 /\ Indices
  BY DEF TInv, TypeOK, Snapshot
<1>2. \A t \in Snapshooters : t # s => snap'[t] = snap[t]
  BY <1>1, OneAtATime
<1> DEFINE Fits(r) == /\ r.at = "gauges" => r.i <= 3
                      /\ r.at \notin {"load", "gauges", "rates", "store"} => r.i = 1
<1>3. Fits(snap'[s])
  <2>1. CASE TakeTime(s) \/ ReadInterval(s) \/ RLock(s) \/ Percentiles(s) \/ StoreTime(s)
    BY <1>1, <2>1, TakeTimeEffect, ReadIntervalEffect, RLockEffect, PercentilesEffect,
       StoreTimeEffect DEF Indices
  <2>2. CASE LoadCounter(s)
    BY <1>1, <2>2, OnwardSteps DEF LoadCounter, Moved
  <2>3. CASE LoadGauge(s)
    BY <1>1, <2>3, OnwardSteps DEF LoadGauge, Moved
  <2>4. CASE ReadGrowth(s)
    BY <1>1, <2>4, OnwardSteps DEF ReadGrowth, Moved
  <2>5. CASE StoreLast(s)
    BY <1>1, <2>5, OnwardSteps DEF StoreLast, Moved
  <2> QED BY <2>1, <2>2, <2>3, <2>4, <2>5 DEF GetSnapshot
<1> QED BY <1>1, <1>2, <1>3 DEF Indices

LEMMA SnapshotKeepsTInv ==
    ASSUME TInv, NEW s \in Snapshooters, GetSnapshot(s)
    PROVE  TInv'
<1>1. snap' \in [Snapshooters -> Snapshot] /\ Indices'
  BY SnapshotStays, SnapshotKeepsIndices DEF TInv
<1>2. TypeOK /\ snap[s] \in Snapshot /\ snap[s].i \in 1..5
  BY DEF TInv, TypeOK, Snapshot
<1>3. UNCHANGED <<recordVars, gaugeVars>>
  BY DEF GetSnapshot, TakeTime, ReadInterval, LoadCounter, LoadGauge, ReadGrowth, RLock,
         Percentiles, StoreLast, StoreTime, snapKept
<1>4. readers' \in SUBSET Snapshooters
  BY <1>2 DEF TypeOK, GetSnapshot, TakeTime, ReadInterval, LoadCounter, LoadGauge, ReadGrowth,
         RLock, Percentiles, StoreLast, StoreTime
<1>5. /\ clock' \in Nat /\ reports' \in Nat /\ lastReportTime' \in Nat
  <2>1. snap[s].now \in Nat
    BY <1>2 DEF Snapshot
  <2>2. CASE TakeTime(s)
    BY <1>2, <2>2 DEF TypeOK, TakeTime, lastVars
  <2> QED BY <1>2, <2>1, <2>2 DEF TypeOK, GetSnapshot, ReadInterval, LoadCounter, LoadGauge,
            ReadGrowth, RLock, Percentiles, StoreLast, StoreTime, lastVars, snapKept
<1>6. last' \in [Counters -> Nat]
  <2>1. CASE StoreLast(s)
    <3>1. LoadOrder[snap[s].i] \in Counters
      BY <1>2, CountersAre
    <3>2. snap[s].totals[LoadOrder[snap[s].i]] \in Nat
      BY <1>2, <3>1 DEF Snapshot
    <3> QED BY <1>2, <2>1, <3>1, <3>2 DEF TypeOK, StoreLast
  <2>2. CASE ~StoreLast(s)
    BY <1>2, <2>2 DEF TypeOK, GetSnapshot, TakeTime, ReadInterval, LoadCounter, LoadGauge,
            ReadGrowth, RLock, Percentiles, StoreTime, lastVars
  <2> QED BY <2>1, <2>2
<1>7. told' \in [Counters -> Int]
  <2>1. CASE StoreTime(s)
    <3>1. \A c \in Counters : told[c] + snap[s].growth[c] \in Int
      BY <1>2 DEF TypeOK, Snapshot
    <3> QED BY <2>1, <3>1 DEF StoreTime
  <2>2. CASE ~StoreTime(s)
    BY <1>2, <2>2 DEF TypeOK, GetSnapshot, TakeTime, ReadInterval, LoadCounter, LoadGauge,
            ReadGrowth, RLock, Percentiles, StoreLast
  <2> QED BY <2>1, <2>2
<1> QED BY <1>1, <1>2, <1>3, <1>4, <1>5, <1>6, <1>7
        DEF TInv, TypeOK, UpdateBegun, recordVars, gaugeVars

LEMMA InitTInv == Init => TInv
<1> SUFFICES ASSUME Init PROVE TInv
  OBVIOUS
<1>1. TypeOK
  <2>1. Zero \in [Counters -> Nat] /\ Zero \in [Counters -> Int]
    BY DEF Zero
  <2> DEFINE r == [at |-> "start", i |-> 1, now |-> 0, interval |-> 0, totals |-> Zero,
                   gauges |-> [g \in Gauges |-> 0], since |-> 0,
                   growth |-> Zero, held |-> [k \in Ops |-> 0], taken |-> 0]
  <2>2. r \in Snapshot
    BY <2>1 DEF Snapshot
  <2>3. snap = [s \in Snapshooters |-> r]
    BY DEF Init
  <2> HIDE DEF r
  <2>4. snap \in [Snapshooters -> Snapshot]
    BY <2>2, <2>3
  <2>5. work \in [Workers -> [kind : Ops \cup {"errors"},
                             at : {"loop", "count", "bytes", "lock", "append", "trim"}]]
    BY DEF Init
  <2>6. /\ counter \in [Counters -> Nat] /\ last \in [Counters -> Nat]
        /\ told \in [Counters -> Int]
    BY <2>1 DEF Init
  <2>7. latencies \in [Ops -> Nat] /\ gauges \in [Gauges -> Nat] /\ readers \in SUBSET Snapshooters
    BY DEF Init
  <2>8. stopped \in BOOLEAN
    BY DEF Init
  <2>9. /\ started = 0 /\ clock = 1 /\ lastReportTime = 0 /\ reports = 0 /\ updates = 0
        /\ stored = 0
    BY DEF Init
  <2>10. /\ started \in Nat /\ clock \in Nat /\ lastReportTime \in Nat
         /\ reports \in Nat /\ updates \in Nat /\ stored \in 0..2
    BY <2>9
  <2> QED BY <2>4, <2>5, <2>6, <2>7, <2>8, <2>10 DEF TypeOK
<1> QED BY <1>1 DEF Init, TInv, UpdateBegun, Indices

\* Every variable of counters, lock, gauges and snapshots keeps to its type.
THEOREM SnapshotTypes == Spec => []TypeOK
<1>1. TInv /\ [Next]_vars => TInv'
  BY RecordKeepsTInv, OthersKeepTInv, SnapshotKeepsTInv DEF Next
<1>2. TInv => TypeOK
  BY DEF TInv
<1> QED BY InitTInv, <1>1, <1>2, PTL DEF Spec
-----------------------------------------------------------------------------
(* The latency buffer under its lock.                                       *)

Locks ==
    /\ readers # {} => Writing = {}
    /\ \A v, w \in Writing : v = w
    /\ \A k \in Ops : latencies[k] > MaxLatencies =>
          \E w \in Workers : work[w].at = "trim" /\ work[w].kind = k

LEMMA RecordKeepsLocks ==
    ASSUME TInv, Locks, NEW w \in Workers, Record(w)
    PROVE  Locks'
<1>1. /\ latencies \in [Ops -> Nat] /\ MaxLatencies \in Nat
      /\ work \in [Workers -> [kind : Ops \cup {"errors"},
                               at : {"loop", "count", "bytes", "lock", "append", "trim"}]]
  BY MetricsAssumption DEF TInv, TypeOK
<1>2. readers' = readers /\ \A v \in Workers : v # w => work'[v] = work[v]
  BY <1>1 DEF Record, Begin, Count, CountBytes, Lock, AppendLatency, TrimAndUnlock, Step, recordKept
<1>3. CASE Begin(w) \/ Count(w) \/ CountBytes(w)
  <2>1. /\ latencies' = latencies
        /\ work[w].at \notin {"append", "trim"} /\ work'[w].at \notin {"append", "trim"}
    BY <1>1, <1>3 DEF Begin, Count, CountBytes, Step
  <2> QED BY <1>1, <1>2, <2>1 DEF Locks, Writing
<1>4. CASE Lock(w)
  <2>1. /\ latencies' = latencies /\ readers = {} /\ Writing = {}
        /\ work[w].at = "lock" /\ work'[w].at = "append"
    BY <1>1, <1>4 DEF Lock, Step
  <2> QED BY <1>1, <1>2, <2>1 DEF Locks, Writing
<1>5. CASE AppendLatency(w)
  <2>1. /\ work[w].at = "append" /\ work'[w].at = "trim" /\ work'[w].kind = work[w].kind
        /\ \A k \in Ops : k # work[w].kind => latencies'[k] = latencies[k]
    BY <1>1, <1>5 DEF AppendLatency, Step
  <2>2. Writing' = Writing /\ w \in Writing
    BY <1>2, <2>1 DEF Writing
  <2>3. \A k \in Ops : latencies[k] <= MaxLatencies
    BY <1>1, <2>1, <2>2 DEF Locks, Writing
  <2> QED BY <1>1, <1>2, <2>1, <2>2, <2>3 DEF Locks
<1>6. CASE TrimAndUnlock(w)
  <2>1. work[w].at = "trim" /\ work'[w].at = "loop" /\ w \in Writing
    BY <1>1, <1>6 DEF TrimAndUnlock, Step, Writing
  <2>2. /\ \A k \in Ops : k # work[w].kind => latencies'[k] = latencies[k]
        /\ work[w].kind \in Ops => latencies'[work[w].kind] <= MaxLatencies
    BY <1>1, <1>6 DEF TrimAndUnlock
  <2>3. \A k \in Ops : k # work[w].kind => latencies[k] <= MaxLatencies
    BY <1>1, <2>1 DEF Locks, Writing
  <2>4. Writing' = Writing \ {w}
    BY <1>2, <2>1 DEF Writing
  <2>5. \A k \in Ops : latencies'[k] <= MaxLatencies
    BY <2>2, <2>3
  <2>6. \A k \in Ops : ~(latencies'[k] > MaxLatencies)
    BY <1>1, <1>6, <2>5 DEF TrimAndUnlock
  <2> QED BY <1>2, <2>1, <2>4, <2>6 DEF Locks
<1> QED BY <1>3, <1>4, <1>5, <1>6 DEF Record

LEMMA OthersKeepLocks ==
    ASSUME TInv, Locks,
           StopReturns \/ StoreGauge \/ (\E s \in Snapshooters : GetSnapshot(s)) \/ UNCHANGED vars
    PROVE  Locks'
<1>1. UNCHANGED <<latencies, work>>
  BY DEF StopReturns, StoreGauge, GetSnapshot, TakeTime, ReadInterval, LoadCounter, LoadGauge,
         ReadGrowth, RLock, Percentiles, StoreLast, StoreTime, snapKept, vars, recordVars
<1>2. readers' # {} => readers # {} \/ Writing = {}
  BY DEF StopReturns, StoreGauge, GetSnapshot, TakeTime, ReadInterval, LoadCounter, LoadGauge,
         ReadGrowth, RLock, Percentiles, StoreLast, StoreTime, snapKept, vars, recordVars
<1> QED BY <1>1, <1>2 DEF Locks, Writing

\* Percentiles are taken over a buffer that stands still and holds no more samples
\* than its limit, whoever else reads it.
THEOREM BufferTrimmed == Spec => []ReadersSeeTrimmedBuffer
<1> DEFINE I == TInv /\ Locks
<1>1. Init => I
  <2> SUFFICES ASSUME Init PROVE Locks
    BY InitTInv
  <2> QED BY MetricsAssumption DEF Init, Locks, Writing
<1>2. I /\ [Next]_vars => I'
  BY RecordKeepsTInv, OthersKeepTInv, SnapshotKeepsTInv, RecordKeepsLocks, OthersKeepLocks DEF Next
<1>3. I => ReadersSeeTrimmedBuffer
  <2> SUFFICES ASSUME I, readers # {}
               PROVE  Writing = {} /\ \A k \in Ops : latencies[k] <= MaxLatencies
    BY DEF ReadersSeeTrimmedBuffer
  <2>1. Writing = {}
    BY DEF Locks
  <2>2. \A k \in Ops : ~(latencies[k] > MaxLatencies)
    BY <2>1 DEF Locks, Writing
  <2> QED BY <2>1, <2>2, MetricsAssumption DEF TInv, TypeOK
<1> QED BY <1>1, <1>2, <1>3, PTL DEF Spec

-----------------------------------------------------------------------------
(* The gauges.                                                              *)

\* The gauges stored of the update under way are its own, the others are of the
\* one before.
Stores ==
    \A j \in 1..3 :
        /\ stored = 0 \/ j <= stored => gauges[GaugeOrder[j]] = updates
        /\ stored # 0 /\ j > stored => gauges[GaugeOrder[j]] = updates - 1

\* A snapshot has loaded gauges i - 1 and those before.
Loaded(s, g) ==
    \/ snap[s].at \in {"rates", "rlock", "percentiles", "store", "time"}
    \/ snap[s].at = "gauges" /\ \E j \in 1..3 : j < snap[s].i /\ g = GaugeOrder[j]

Fresh ==
    \A s \in Snapshooters :
        /\ snap[s].since <= Completed
        /\ \A g \in Gauges : Loaded(s, g) =>
              snap[s].since <= snap[s].gauges[g] /\ snap[s].gauges[g] <= updates

LEMMA GaugesNow ==
    ASSUME TInv, Stores
    PROVE  \A g \in Gauges : Completed <= gauges[g] /\ gauges[g] <= updates
<1> SUFFICES ASSUME NEW j \in 1..3
             PROVE  Completed <= gauges[GaugeOrder[j]] /\ gauges[GaugeOrder[j]] <= updates
  BY GaugesAre
<1>1. updates \in Nat /\ stored \in 0..2 /\ Completed \in Int
  BY DEF TInv, TypeOK, Completed
<1> QED BY <1>1 DEF Stores, Completed

LEMMA StoreKeepsGauges ==
    ASSUME TInv, Stores, Fresh, StoreGauge
    PROVE  Stores' /\ Fresh'
<1>1. updates \in Nat /\ stored \in 0..2 /\ gauges \in [Gauges -> Nat] /\ snap' = snap
      /\ snap \in [Snapshooters -> Snapshot]
  BY DEF TInv, TypeOK, StoreGauge
<1> DEFINE n == IF stored = 0 THEN updates + 1 ELSE updates
<1>2. /\ gauges' = [gauges EXCEPT ![GaugeOrder[stored + 1]] = n] /\ updates' = n
      /\ stored' = (stored + 1) % 3
  BY DEF StoreGauge
<1>3. stored + 1 \in 1..3 /\ GaugeOrder[stored + 1] \in Gauges
  BY <1>1, GaugesAre
<1>4. \A j \in 1..3 : gauges'[GaugeOrder[j]] = IF j = stored + 1 THEN n ELSE gauges[GaugeOrder[j]]
  BY <1>1, <1>2, <1>3, GaugesAre
<1>5. \/ stored = 0 /\ stored' = 1
      \/ stored = 1 /\ stored' = 2
      \/ stored = 2 /\ stored' = 0
  BY <1>1, <1>2
<1>6. Stores'
  <2> SUFFICES ASSUME NEW j \in 1..3
               PROVE  /\ stored' = 0 \/ j <= stored' => gauges'[GaugeOrder[j]] = updates'
                      /\ stored' # 0 /\ j > stored' => gauges'[GaugeOrder[j]] = updates' - 1
    BY DEF Stores
  <2> QED BY <1>1, <1>2, <1>4, <1>5 DEF Stores
<1>7. Completed' >= Completed /\ updates' >= updates
  BY <1>1, <1>2, <1>5 DEF Completed
<1>8. Fresh'
  <2>1. Completed \in Int /\ Completed' \in Int /\ updates' \in Int
    BY <1>1, <1>2 DEF Completed
  <2>2. \A s \in Snapshooters : snap[s].since \in Nat /\ snap[s].gauges \in [Gauges -> Nat]
    BY <1>1 DEF Snapshot
  <2> QED BY <1>1, <1>7, <2>1, <2>2 DEF Fresh, Loaded
<1> QED BY <1>6, <1>8

LEMMA SnapshotKeepsFresh ==
    ASSUME TInv, Stores, Fresh, NEW s \in Snapshooters, GetSnapshot(s)
    PROVE  Fresh'
<1>1. TypeOK /\ snap \in [Snapshooters -> Snapshot] /\ snap[s] \in Snapshot
      /\ snap[s].i \in 1..5 /\ Indices
  BY DEF TInv, TypeOK, Snapshot
<1>2. \A t \in Snapshooters : t # s => snap'[t] = snap[t]
  BY <1>1, OneAtATime
<1>3. UNCHANGED <<gauges, updates, stored>>
  BY DEF GetSnapshot, TakeTime, ReadInterval, LoadCounter, LoadGauge, ReadGrowth, RLock,
         Percentiles, StoreLast, StoreTime, snapKept, gaugeVars
<1>4. Completed' = Completed
  BY <1>3 DEF Completed
<1>5. CASE LoadGauge(s)
  <2>1. snap[s].at = "gauges" /\ snap[s].i \in 1..3
    BY <1>1, <1>5 DEF LoadGauge, Indices
  <2> DEFINE i == snap[s].i
             o == Onward(s, 3, "rates")
  <2>2. GaugeOrder[i] \in Gauges
    BY <2>1, GaugesAre
  <2>3. /\ o \in [Snapshooters -> Snapshot]
        /\ o[s].gauges = snap[s].gauges /\ o[s].since = snap[s].since
        /\ i < 3 => o[s].i = i + 1 /\ o[s].at = "gauges"
        /\ ~(i < 3) => o[s].at = "rates"
    BY <1>1, <2>1, OnwardSteps DEF Moved
  <2>4. snap' = [o EXCEPT ![s].gauges = [@ EXCEPT ![GaugeOrder[i]] = gauges[GaugeOrder[i]]]]
    BY <1>5 DEF LoadGauge
  <2> HIDE DEF o
  <2>5. /\ snap'[s].since = snap[s].since
        /\ snap'[s].gauges = [snap[s].gauges EXCEPT ![GaugeOrder[i]] = gauges[GaugeOrder[i]]]
        /\ i < 3 => snap'[s].i = i + 1 /\ snap'[s].at = "gauges"
        /\ ~(i < 3) => snap'[s].at = "rates"
    BY <2>3, <2>4 DEF Snapshot
  <2>6. snap[s].gauges \in [Gauges -> Nat] /\ snap[s].since \in Nat
        /\ updates \in Nat /\ gauges \in [Gauges -> Nat] /\ Completed \in Int
    BY <1>1 DEF TypeOK, Snapshot, Completed
  <2>7. ASSUME NEW g \in Gauges, Loaded(s, g)'
        PROVE  snap'[s].since <= snap'[s].gauges[g] /\ snap'[s].gauges[g] <= updates'
    <3>1. CASE g = GaugeOrder[i]
      <4>1. snap'[s].gauges[g] = gauges[g]
        BY <2>2, <2>5, <2>6, <3>1
      <4> QED BY <1>3, <2>5, <2>6, <4>1, GaugesNow DEF Fresh
    <3>2. CASE g # GaugeOrder[i]
      <4>1. snap'[s].gauges[g] = snap[s].gauges[g]
        BY <2>5, <2>6, <3>2
      <4>2. PICK j \in 1..3 : g = GaugeOrder[j]
        BY GaugesAre
      <4>3. j < i
        BY <2>1, <2>5, <2>7, <3>2, <4>2, GaugesAre DEF Loaded
      <4>4. Loaded(s, g)
        BY <2>1, <4>2, <4>3 DEF Loaded
      <4> QED BY <1>3, <2>5, <4>1, <4>4 DEF Fresh
    <3> QED BY <3>1, <3>2
  <2> QED BY <1>2, <1>3, <1>4, <2>5, <2>7 DEF Fresh, Loaded
<1>6. CASE TakeTime(s)
  <2>1. snap'[s].since = Completed /\ snap'[s].at = "interval"
    BY <1>1, <1>6 DEF TakeTime
  <2>2. Completed \in Int
    BY <1>1 DEF TypeOK, Completed
  <2> QED BY <1>2, <1>3, <1>4, <2>1, <2>2 DEF Fresh, Loaded
<1>7. CASE ~LoadGauge(s) /\ ~TakeTime(s)
  <2>1. snap'[s].since = snap[s].since /\ snap'[s].gauges = snap[s].gauges
    <3>1. CASE ReadInterval(s) \/ RLock(s) \/ Percentiles(s) \/ StoreTime(s)
      BY <1>1, <3>1, ReadIntervalEffect, RLockEffect, PercentilesEffect, StoreTimeEffect
    <3>2. CASE LoadCounter(s) \/ ReadGrowth(s) \/ StoreLast(s)
      BY <1>1, <3>2, OrderedEffects
    <3> QED BY <1>7, <3>1, <3>2 DEF GetSnapshot
  <2>2. \A g \in Gauges : Loaded(s, g)' => Loaded(s, g)
    <3>1. CASE ReadInterval(s) \/ RLock(s) \/ Percentiles(s) \/ StoreTime(s)
      BY <1>1, <3>1, ReadIntervalEffect, RLockEffect, PercentilesEffect, StoreTimeEffect
         DEF Loaded
    <3>2. CASE LoadCounter(s)
      <4>1. /\ snap[s].at = "load"
            /\ snap'[s].at = "load" \/ (snap'[s].at = "gauges" /\ snap'[s].i = 1)
        <5>1. snap[s].at = "load" /\ Onwards(s, 5, "gauges")
          BY <1>1, <3>2, OrderedEffects
        <5> QED BY <5>1 DEF Onwards
      <4> QED BY <4>1 DEF Loaded
    <3>3. CASE ReadGrowth(s)
      <4>1. snap[s].at = "rates" 
        BY <3>3 DEF ReadGrowth
      <4> QED BY <4>1 DEF Loaded
    <3>4. CASE StoreLast(s)
      <4>1. snap[s].at = "store"
        BY <3>4 DEF StoreLast
      <4> QED BY <4>1 DEF Loaded
    <3> QED BY <1>7, <3>1, <3>2, <3>3, <3>4 DEF GetSnapshot
  <2> QED BY <1>2, <1>3, <1>4, <2>1, <2>2 DEF Fresh, Loaded
<1> QED BY <1>5, <1>6, <1>7

\* No snapshot shows a gauge older than the last update complete at its start.
THEOREM GaugesNeverStale == Spec => []GaugesFresh
<1> DEFINE I == TInv /\ Stores /\ Fresh
<1>1. Init => I
  <2> SUFFICES ASSUME Init PROVE Stores /\ Fresh
    BY InitTInv
  <2> QED BY GaugesAre DEF Init, Stores, Fresh, Loaded, Completed
<1>2. ASSUME I, UNCHANGED <<snap, gauges, updates, stored>> PROVE Stores' /\ Fresh'
  BY <1>2 DEF Stores, Fresh, Loaded, Completed
<1>3. ASSUME I, [Next]_vars PROVE I'
  <2>1. TInv'
    BY <1>3, RecordKeepsTInv, OthersKeepTInv, SnapshotKeepsTInv DEF Next
  <2>2. CASE \/ UNCHANGED vars \/ StopReturns
             \/ \E w \in Workers : Record(w)
    <3>1. UNCHANGED <<snap, gauges, updates, stored>>
      BY <2>2 DEF vars, gaugeVars, StopReturns, Record, Begin, Count, CountBytes, Lock,
                  AppendLatency, TrimAndUnlock, recordKept
    <3> QED BY <1>2, <1>3, <2>1, <3>1
  <2>3. CASE StoreGauge
    BY <1>3, <2>1, <2>3, StoreKeepsGauges
  <2>4. ASSUME NEW s \in Snapshooters, GetSnapshot(s) PROVE Stores'
    BY <1>3, <2>4 DEF GetSnapshot, TakeTime, ReadInterval, LoadCounter, LoadGauge, ReadGrowth,
         RLock, Percentiles, StoreLast, StoreTime, snapKept, gaugeVars, Stores
  <2> QED BY <1>3, <2>1, <2>2, <2>3, <2>4, SnapshotKeepsFresh DEF Next
<1>4. I => GaugesFresh
  BY DEF Fresh, Loaded, GaugesFresh
<1> QED BY <1>1, <1>3, <1>4, PTL DEF Spec
-----------------------------------------------------------------------------
(* main's snapshot after Stop.                                              *)

Counting == {w \in Workers : work[w].at = "count"}

\* Whoever has begun an operation has counted it or is about to.
Counted == started = counter["reads"] + counter["inserts"] + counter["updates"]
                     + counter["errors"] + Cardinality(Counting)

StoppedIdle == stopped => \A w \in Workers : work[w].at = "loop"

\* main has loaded counters i - 1 and those before, after Stop.
MainLoaded(j) ==
    \/ snap[Main].taken > 0
    \/ snap[Main].at = "load" /\ j < snap[Main].i
    \/ snap[Main].at \in {"gauges", "rates", "rlock", "percentiles", "store", "time"}

MainHolds ==
    /\ snap[Main].at # "start" \/ snap[Main].taken > 0 => stopped
    /\ snap[Main].taken > 0 => snap[Main].at = "start"
    /\ \A j \in 1..5 : MainLoaded(j) =>
          snap[Main].totals[LoadOrder[j]] = counter[LoadOrder[j]]
    /\ snap[Main].at \in {"store", "time"} \/ snap[Main].taken > 0 =>
          snap[Main].held = latencies

FInv == TInv /\ Counted /\ StoppedIdle /\ MainHolds

LEMMA CountingCounts ==
    /\ IsFiniteSet(Counting) /\ Cardinality(Counting) \in Nat
    /\ IsFiniteSet(Counting') /\ Cardinality(Counting') \in Nat
<1>1. IsFiniteSet(Workers) /\ Counting \in SUBSET Workers /\ Counting' \in SUBSET Workers
  BY MetricsAssumption DEF Counting
<1> QED BY <1>1, FS_Subset, FS_CardinalityType

LEMMA RecordKeepsCounted ==
    ASSUME TInv, Counted, NEW w \in Workers, Record(w)
    PROVE  Counted'
<1>1. /\ counter \in [Counters -> Nat] /\ started \in Nat
      /\ work \in [Workers -> [kind : Ops \cup {"errors"},
                               at : {"loop", "count", "bytes", "lock", "append", "trim"}]]
      /\ Tried \subseteq Ops \cup {"errors"}
  BY MetricsAssumption DEF TInv, TypeOK
<1>2. \A v \in Workers : v # w => work'[v] = work[v]
  BY <1>1 DEF Record, Begin, Count, CountBytes, Lock, AppendLatency, TrimAndUnlock, Step
<1> DEFINE Four(c) == c["reads"] + c["inserts"] + c["updates"] + c["errors"]
           k == Cardinality(Counting)
           l == Cardinality(Counting')
<1>3. k \in Nat /\ l \in Nat /\ started = Four(counter) + k
  BY CountingCounts DEF Counted
<1>4. CASE Begin(w)
  <2>1. work[w].at = "loop" /\ work'[w].at = "count" /\ started' = started + 1
        /\ counter' = counter
    BY <1>1, <1>4 DEF Begin
  <2>2. w \notin Counting /\ Counting' = Counting \cup {w}
    BY <1>2, <2>1 DEF Counting
  <2>3. l = k + 1
    BY <2>2, CountingCounts, FS_AddElement
  <2> HIDE DEF k, l
  <2>4. started + 1 = Four(counter) + l
    BY <1>1, <1>3, <2>3, CountersAre
  <2> QED BY <2>1, <2>4 DEF Counted, l
<1>5. CASE Count(w)
  <2> DEFINE kind == work[w].kind
  <2>1. /\ work[w].at = "count" /\ work'[w].at # "count" /\ started' = started
        /\ counter' = [counter EXCEPT ![kind] = @ + 1]
    BY <1>1, <1>5 DEF Count, Step
  <2>2. w \in Counting /\ Counting' = Counting \ {w}
    BY <1>2, <2>1 DEF Counting
  <2>3. l = k - 1
    BY <2>2, CountingCounts, FS_RemoveElement
  <2>4. kind \in {"reads", "inserts", "updates", "errors"}
    BY <1>1 DEF Ops
  <2> DEFINE d == [counter EXCEPT ![kind] = @ + 1]
  <2>5. Four(d) = Four(counter) + 1
    BY <1>1, <2>4, CountersAre
  <2> HIDE DEF k, l, d, kind
  <2>6. started = Four(d) + l
    <3>1. Four(counter) \in Nat
      BY <1>1, CountersAre
    <3> QED BY <1>3, <2>3, <2>5, <3>1
  <2> QED BY <2>1, <2>6 DEF Counted, l, d
<1>6. CASE CountBytes(w) \/ Lock(w) \/ AppendLatency(w) \/ TrimAndUnlock(w)
  <2>1. /\ work[w].at # "count" /\ work'[w].at # "count" /\ started' = started
        /\ \A c \in {"reads", "inserts", "updates", "errors"} : counter'[c] = counter[c]
    <3>1. CASE CountBytes(w)
      BY <1>1, <3>1, CountersAre DEF CountBytes, Step
    <3>2. CASE Lock(w) \/ AppendLatency(w) \/ TrimAndUnlock(w)
      BY <1>1, <3>2 DEF Lock, AppendLatency, TrimAndUnlock, Step
    <3> QED BY <1>6, <3>1, <3>2
  <2>2. Counting' = Counting
    BY <1>2, <2>1 DEF Counting
  <2> QED BY <2>1, <2>2 DEF Counted
<1> QED BY <1>4, <1>5, <1>6 DEF Record

\* As long as workers record main has not begun.
LEMMA RecordKeepsMainHolds ==
    ASSUME FInv, NEW w \in Workers, Record(w)
    PROVE  StoppedIdle' /\ MainHolds'
<1>1. ~stopped /\ stopped' = stopped /\ snap' = snap
  BY DEF FInv, StoppedIdle, Record, Begin, Count, CountBytes, Lock, AppendLatency,
         TrimAndUnlock, Step, recordKept
<1>2. snap[Main].at = "start" /\ ~(snap[Main].taken > 0)
  BY <1>1 DEF FInv, MainHolds
<1> QED BY <1>1, <1>2 DEF StoppedIdle, MainHolds, MainLoaded

LEMMA MainKeepsMainHolds ==
    ASSUME FInv, GetSnapshot(Main)
    PROVE  MainHolds'
<1>1. /\ TypeOK /\ snap \in [Snapshooters -> Snapshot] /\ Main \in Snapshooters
      /\ snap[Main] \in Snapshot /\ snap[Main].i \in 1..5 /\ Indices /\ MainHolds
      /\ Reporter # Main
  BY MetricsAssumption DEF FInv, TInv, TypeOK, Snapshot, Snapshooters
<1>2. UNCHANGED <<counter, latencies, stopped>>
  BY DEF GetSnapshot, TakeTime, ReadInterval, LoadCounter, LoadGauge, ReadGrowth, RLock,
         Percentiles, StoreLast, StoreTime, snapKept, recordVars
<1> DEFINE i == snap[Main].i
<1>3. snap[Main].taken \in Nat
  BY <1>1 DEF Snapshot
<1>4. stopped /\ snap[Main].taken = 0
  <2>1. CASE snap[Main].at = "start"
    <3>1. TakeTime(Main)
      BY <2>1 DEF GetSnapshot, ReadInterval, LoadCounter, LoadGauge, ReadGrowth, RLock,
                  Percentiles, StoreLast, StoreTime
    <3> QED BY <1>1, <3>1 DEF TakeTime
  <2>2. CASE snap[Main].at # "start"
    BY <1>1, <1>3, <2>2 DEF MainHolds
  <2> QED BY <2>1, <2>2
<1>5. CASE TakeTime(Main) \/ ReadInterval(Main)
  <2>1. /\ snap'[Main].taken = 0 /\ snap'[Main].at \in {"interval", "load"}
        /\ snap'[Main].i = 1
    BY <1>1, <1>4, <1>5, TakeTimeEffect, ReadIntervalEffect DEF Indices
  <2> QED BY <1>2, <1>4, <2>1 DEF MainHolds, MainLoaded
<1>6. CASE LoadCounter(Main)
  <2> DEFINE o == Onward(Main, 5, "gauges")
             c == LoadOrder[i]
  <2>1. /\ o \in [Snapshooters -> Snapshot] /\ c \in Counters
        /\ o[Main].totals = snap[Main].totals /\ o[Main].taken = 0
        /\ i < 5 => o[Main].i = i + 1 /\ o[Main].at = snap[Main].at
        /\ ~(i < 5) => o[Main].i = 1 /\ o[Main].at = "gauges"
    BY <1>1, <1>4, OnwardSteps, CountersAre DEF Moved
  <2>2. snap' = [o EXCEPT ![Main].totals = [@ EXCEPT ![c] = counter[c]]] /\ snap[Main].at = "load"
    BY <1>6 DEF LoadCounter
  <2> HIDE DEF o, c
  <2>3. /\ snap'[Main].totals = [snap[Main].totals EXCEPT ![c] = counter[c]]
        /\ snap'[Main].taken = 0
        /\ i < 5 => snap'[Main].i = i + 1 /\ snap'[Main].at = "load"
        /\ ~(i < 5) => snap'[Main].at = "gauges"
    BY <1>1, <2>1, <2>2 DEF Snapshot
  <2>4. snap[Main].totals \in [Counters -> Nat]
    BY <1>1 DEF Snapshot
  <2>5. ASSUME NEW j \in 1..5, MainLoaded(j)'
        PROVE  snap'[Main].totals[LoadOrder[j]] = counter[LoadOrder[j]]
    <3>1. CASE j = i
      BY <1>1, <2>1, <2>3, <2>4, <3>1 DEF c
    <3>2. CASE j # i
      <4>1. j < i
        BY <1>1, <2>3, <2>5, <3>2 DEF MainLoaded
      <4>2. snap[Main].totals[LoadOrder[j]] = counter[LoadOrder[j]]
        BY <1>1, <2>2, <4>1 DEF MainHolds, MainLoaded
      <4>3. LoadOrder[j] # c
        BY <1>1, <3>2, CountersAre DEF c
      <4> QED BY <2>3, <2>4, <4>2, <4>3
    <3> QED BY <3>1, <3>2
  <2> QED BY <1>2, <1>4, <2>3, <2>5 DEF MainHolds
<1>7. CASE LoadGauge(Main) \/ ReadGrowth(Main) \/ RLock(Main)
  <2>1. /\ snap'[Main].totals = snap[Main].totals /\ snap'[Main].taken = 0
        /\ snap'[Main].at \in {"gauges", "rates", "rlock", "percentiles"}
        /\ snap[Main].at \in {"gauges", "rates", "rlock"}
    <3>1. CASE LoadGauge(Main)
      <4>1. /\ snap[Main].at = "gauges" /\ Onwards(Main, 3, "rates")
            /\ snap'[Main].totals = snap[Main].totals /\ snap'[Main].taken = snap[Main].taken
        BY <1>1, <3>1, OrderedEffects
      <4> QED BY <1>4, <4>1 DEF Onwards
    <3>2. CASE ReadGrowth(Main)
      <4>1. /\ snap[Main].at = "rates" /\ Onwards(Main, 5, "rlock")
            /\ snap'[Main].totals = snap[Main].totals /\ snap'[Main].taken = snap[Main].taken
        BY <1>1, <3>2, OrderedEffects
      <4> QED BY <1>4, <4>1 DEF Onwards
    <3>3. CASE RLock(Main)
      BY <1>1, <1>4, <3>3, RLockEffect
    <3> QED BY <1>7, <3>1, <3>2, <3>3
  <2> QED BY <1>1, <1>2, <1>4, <2>1 DEF MainHolds, MainLoaded
<1>8. CASE Percentiles(Main)
  <2>1. /\ snap'[Main].totals = snap[Main].totals /\ snap'[Main].taken = 0
        /\ snap'[Main].at = "store" /\ snap[Main].at = "percentiles"
        /\ snap'[Main].held = latencies
    BY <1>1, <1>4, <1>8 DEF Percentiles
  <2> QED BY <1>1, <1>2, <1>4, <2>1 DEF MainHolds, MainLoaded
<1>9. CASE StoreLast(Main)
  <2>1. /\ snap'[Main].totals = snap[Main].totals /\ snap'[Main].taken = 0
        /\ snap'[Main].at \in {"store", "time"} /\ snap[Main].at = "store"
        /\ snap'[Main].held = snap[Main].held
    BY <1>1, <1>4, <1>9, OnwardSteps DEF StoreLast, Moved
  <2> QED BY <1>1, <1>2, <1>4, <2>1 DEF MainHolds, MainLoaded
<1>10. CASE StoreTime(Main)
  <2>1. /\ snap'[Main].totals = snap[Main].totals /\ snap'[Main].at = "start"
        /\ snap[Main].at = "time" /\ snap'[Main].held = snap[Main].held
    BY <1>1, <1>10 DEF StoreTime
  <2> QED BY <1>1, <1>2, <1>4, <2>1 DEF MainHolds, MainLoaded
<1> QED BY <1>5, <1>6, <1>7, <1>8, <1>9, <1>10 DEF GetSnapshot

LEMMA NextKeepsFInv ==
    ASSUME FInv, [Next]_vars
    PROVE  FInv'
<1>1. TInv /\ TInv'
  BY RecordKeepsTInv, OthersKeepTInv, SnapshotKeepsTInv DEF FInv, Next
<1>2. ASSUME NEW w \in Workers, Record(w) PROVE FInv'
  BY <1>1, <1>2, RecordKeepsCounted, RecordKeepsMainHolds DEF FInv
<1>3. CASE StopReturns
  <2>1. ~stopped /\ snap[Main].at = "start" /\ ~(snap[Main].taken > 0)
    BY <1>3 DEF StopReturns, FInv, MainHolds
  <2>2. UNCHANGED <<counter, started, work, snap>> /\ \A w \in Workers : work[w].at = "loop"
    BY <1>3 DEF StopReturns
  <2> QED BY <1>1, <2>1, <2>2 DEF FInv, Counted, Counting, StoppedIdle, MainHolds, MainLoaded
<1>4. CASE StoreGauge \/ UNCHANGED vars
  <2>1. UNCHANGED <<counter, latencies, work, started, stopped, snap>>
    BY <1>4 DEF StoreGauge, vars, recordVars
  <2>2. Counted' /\ StoppedIdle'
    BY <2>1 DEF FInv, Counted, Counting, StoppedIdle
  <2>3. MainHolds'
    BY <2>1 DEF FInv, MainHolds, MainLoaded
  <2> QED BY <1>1, <2>2, <2>3 DEF FInv
<1>5. ASSUME NEW s \in Snapshooters, GetSnapshot(s) PROVE FInv'
  <2>1. UNCHANGED <<counter, latencies, stopped, started, work>>
    BY <1>5 DEF GetSnapshot, TakeTime, ReadInterval, LoadCounter, LoadGauge, ReadGrowth,
                RLock, Percentiles, StoreLast, StoreTime, snapKept, recordVars
  <2>2. Counted' /\ StoppedIdle'
    BY <2>1 DEF FInv, Counted, Counting, StoppedIdle
  <2>3. CASE s = Main
    BY <1>1, <1>5, <2>2, <2>3, MainKeepsMainHolds DEF FInv
  <2>4. CASE s # Main
    <3>1. snap'[Main] = snap[Main]
      BY <1>1, <1>5, <2>4, OneAtATime DEF TInv, Snapshooters
    <3> QED BY <1>1, <2>1, <2>2, <3>1 DEF FInv, MainHolds, MainLoaded
  <2> QED BY <2>3, <2>4
<1> QED BY <1>2, <1>3, <1>4, <1>5 DEF Next

\* main's final snapshot holds every operation and every sample, whatever the
\* reporter does meanwhile.
THEOREM FinalExact == Spec => []FinalSnapshotExact
<1>1. Init => FInv
  <2> SUFFICES ASSUME Init PROVE Counted /\ StoppedIdle /\ MainHolds
    BY InitTInv DEF FInv
  <2>1. Counting = {}
    BY DEF Init, Counting
  <2>2. Counted
    BY <2>1, FS_EmptySet, CountersAre DEF Init, Counted, Zero
  <2>3. Main \in Snapshooters
    BY DEF Snapshooters
  <2> QED BY <2>2, <2>3 DEF Init, StoppedIdle, MainHolds, MainLoaded
<1>2. ASSUME FInv, snap[Main].taken > 0
      PROVE  /\ snap[Main].totals = counter /\ snap[Main].held = latencies
             /\ started = counter["reads"] + counter["inserts"] + counter["updates"]
                          + counter["errors"]
  <2>1. /\ snap[Main].totals \in [Counters -> Nat] /\ counter \in [Counters -> Nat]
        /\ started \in Nat
    <3>1. Main \in Snapshooters
      BY DEF Snapshooters
    <3>2. /\ snap \in [Snapshooters -> Snapshot] /\ counter \in [Counters -> Nat]
          /\ started \in Nat
      BY <1>2 DEF FInv, TInv, TypeOK
    <3>3. snap[Main] \in Snapshot
      BY <3>1, <3>2
    <3> QED BY <3>2, <3>3 DEF Snapshot
  <2>2. \A c \in Counters : snap[Main].totals[c] = counter[c]
    BY <1>2, CountersAre DEF FInv, MainHolds, MainLoaded
  <2>3. snap[Main].totals = counter
    BY <2>1, <2>2
  <2>4. Counting = {}
    BY <1>2 DEF FInv, MainHolds, StoppedIdle, Counting
  <2>5. Cardinality(Counting) = 0
    BY <2>4, FS_EmptySet
  <2>6. started = counter["reads"] + counter["inserts"] + counter["updates"] + counter["errors"]
    <3> DEFINE k == Cardinality(Counting)
    <3>1. k = 0
      BY <2>5
    <3>2. started = counter["reads"] + counter["inserts"] + counter["updates"]
                    + counter["errors"] + k
      BY <1>2 DEF FInv, Counted
    <3> HIDE DEF k
    <3> QED BY <2>1, <3>1, <3>2, CountersAre
  <2> QED BY <1>2, <2>3, <2>6 DEF FInv, MainHolds
<1>3. FInv => FinalSnapshotExact
  BY <1>2 DEF FinalSnapshotExact
<1> QED BY <1>1, <1>3, NextKeepsFInv, PTL DEF Spec

-----------------------------------------------------------------------------
(* The reporter's intervals.                                                *)

\* As long as main has not begun its snapshot.
Alone == snap[Main].at = "start" /\ snap[Main].taken = 0

\* The reporter has loaded, compared and stored counters i - 1 and those before.
TotalIn(j) ==
    \/ snap[Reporter].at = "load" /\ j < snap[Reporter].i
    \/ snap[Reporter].at \in {"gauges", "rates", "rlock", "percentiles", "store", "time"}
GrownIn(j) ==
    \/ snap[Reporter].at = "rates" /\ j < snap[Reporter].i
    \/ snap[Reporter].at \in {"rlock", "percentiles", "store", "time"}
StoredIn(j) ==
    \/ snap[Reporter].at = "store" /\ j < snap[Reporter].i
    \/ snap[Reporter].at = "time"

\* Time runs ahead of the interval, so that it is never empty.
TimeRuns ==
    /\ lastReportTime < clock
    /\ snap[Reporter].at # "start" => snap[Reporter].now < clock
    /\ snap[Reporter].at = "interval" => lastReportTime < snap[Reporter].now
    /\ snap[Reporter].at \notin {"start", "interval"} => snap[Reporter].interval > 0

\* What was told and what this report adds is what the counters were at its loads.
Tiled(j) ==
    LET c == LoadOrder[j]
        r == snap[Reporter]
    IN /\ last[c] <= counter[c]
       /\ TotalIn(j) => r.totals[c] <= counter[c]
       /\ GrownIn(j) => told[c] + r.growth[c] = r.totals[c]
       /\ StoredIn(j) => last[c] = r.totals[c]
       /\ r.at \notin {"store", "time"} => told[c] = last[c]

TileInv == Alone => TimeRuns /\ \A j \in 1..5 : Tiled(j)

LEMMA CountersGrow ==
    ASSUME TInv, [\E w \in Workers : Record(w)]_counter
    PROVE  \A c \in Counters :
              counter[c] \in Nat /\ counter'[c] \in Nat /\ counter[c] <= counter'[c]
<1>1. counter \in [Counters -> Nat] /\ \A w \in Workers : work[w].kind \in Counters
  BY CountersAre DEF TInv, TypeOK
<1>2. CASE counter' = counter
  BY <1>1, <1>2
<1>3. ASSUME NEW w \in Workers, Record(w)
      PROVE  \A c \in Counters :
              counter[c] \in Nat /\ counter'[c] \in Nat /\ counter[c] <= counter'[c]
  <2>1. CASE UNCHANGED counter
    BY <1>1, <2>1
  <2>2. CASE Count(w)
    BY <1>1, <2>2 DEF Count
  <2>3. CASE CountBytes(w)
    BY <1>1, <2>3 DEF CountBytes
  <2> QED BY <1>3, <2>1, <2>2, <2>3 DEF Record, Begin, Lock, AppendLatency, TrimAndUnlock
<1> QED BY <1>2, <1>3

LEMMA RecordKeepsTile ==
    ASSUME TInv, TileInv,
           UNCHANGED <<snap, last, told, clock, lastReportTime>>,
           [\E w \in Workers : Record(w)]_counter
    PROVE  TileInv'
<1> SUFFICES ASSUME Alone' PROVE TimeRuns' /\ \A j \in 1..5 : Tiled(j)'
  BY DEF TileInv
<1>1. Alone /\ TimeRuns /\ \A j \in 1..5 : Tiled(j)
  BY DEF Alone, TileInv
<1>2. /\ Reporter \in Snapshooters /\ last \in [Counters -> Nat] /\ snap[Reporter] \in Snapshot
  BY DEF TInv, TypeOK, Snapshooters
<1>3. ASSUME NEW j \in 1..5 PROVE Tiled(j)'
  <2> DEFINE c == LoadOrder[j]
             d == counter'[c]
  <2>1. c \in Counters /\ counter[c] \in Nat /\ d \in Nat /\ counter[c] <= d
    BY CountersAre, CountersGrow
  <2>2. last[c] \in Nat /\ snap[Reporter].totals[c] \in Nat
    BY <1>2, <2>1 DEF Snapshot
  <2>3. last[c] <= counter[c] /\ (TotalIn(j) => snap[Reporter].totals[c] <= counter[c])
    BY <1>1 DEF Tiled
  <2>4. last[c] <= d /\ (TotalIn(j) => snap[Reporter].totals[c] <= d)
    <3> HIDE DEF c, d
    <3> QED BY <2>1, <2>2, <2>3
  <2> QED BY <1>1, <2>4 DEF Tiled, TotalIn, GrownIn, StoredIn
<1> QED BY <1>1, <1>3 DEF TimeRuns

\* main's first step ends the rule, and it never comes back.
LEMMA MainEndsAlone ==
    ASSUME TInv, GetSnapshot(Main)
    PROVE  ~Alone'
<1>1. TypeOK /\ Main \in Snapshooters /\ snap[Main].taken \in Nat /\ snap[Main].i \in 1..5
  BY DEF TInv, TypeOK, Snapshot, Snapshooters
<1>2. CASE TakeTime(Main) \/ ReadInterval(Main) \/ RLock(Main) \/ Percentiles(Main)
  BY <1>1, <1>2, TakeTimeEffect, ReadIntervalEffect, RLockEffect, PercentilesEffect DEF Alone
<1>3. CASE StoreTime(Main)
  <2>1. snap'[Main].taken = snap[Main].taken + 1
    BY <1>1, <1>3, StoreTimeEffect
  <2>2. snap[Main].taken + 1 # 0
    BY <1>1
  <2> QED BY <2>1, <2>2 DEF Alone
<1>4. ASSUME NEW n \in 1..5, NEW next \in Points \ {"start"}, Onwards(Main, n, next),
             snap[Main].at # "start"
      PROVE  ~Alone'
  BY <1>4 DEF Onwards, Alone
<1>5. CASE LoadCounter(Main)
  <2>1. snap[Main].at = "load" /\ Onwards(Main, 5, "gauges")
    BY <1>1, <1>5, OrderedEffects
  <2> QED BY <2>1, <1>4 DEF Points
<1>6. CASE LoadGauge(Main)
  <2>1. snap[Main].at = "gauges" /\ Onwards(Main, 3, "rates")
    BY <1>1, <1>6, OrderedEffects
  <2> QED BY <2>1, <1>4 DEF Points
<1>7. CASE ReadGrowth(Main)
  <2>1. snap[Main].at = "rates" /\ Onwards(Main, 5, "rlock")
    BY <1>1, <1>7, OrderedEffects
  <2> QED BY <2>1, <1>4 DEF Points
<1>8. CASE StoreLast(Main)
  <2>1. snap[Main].at = "store" /\ Onwards(Main, 5, "time")
    BY <1>1, <1>8, OrderedEffects
  <2> QED BY <2>1, <1>4 DEF Points
<1> QED BY <1>2, <1>3, <1>5, <1>6, <1>7, <1>8 DEF GetSnapshot

\* Steps of the reporter before it compares, and those under the lock.
LEMMA ReporterKeepsTime ==
    ASSUME TInv, TimeRuns, GetSnapshot(Reporter)
    PROVE  TimeRuns'
<1>1. /\ TypeOK /\ Reporter \in Snapshooters /\ Indices
      /\ snap[Reporter].now \in Nat /\ snap[Reporter].interval \in Int
      /\ clock \in Nat /\ lastReportTime \in Nat /\ snap[Reporter].i \in 1..5
  BY DEF TInv, TypeOK, Snapshot, Snapshooters
<1>2. CASE TakeTime(Reporter)
  <2>1. snap'[Reporter].at = "interval" /\ snap'[Reporter].now = clock
    BY <1>1, <1>2, TakeTimeEffect
  <2>2. clock' = clock + 1 /\ lastReportTime' = lastReportTime
    BY <1>2 DEF TakeTime, lastVars
  <2> QED BY <1>1, <2>1, <2>2 DEF TimeRuns
<1>3. CASE ReadInterval(Reporter)
  <2>1. /\ snap[Reporter].at = "interval" /\ snap'[Reporter].at = "load"
        /\ snap'[Reporter].now = snap[Reporter].now
        /\ snap'[Reporter].interval = snap[Reporter].now - lastReportTime
        /\ clock' = clock /\ lastReportTime' = lastReportTime
    BY <1>1, <1>3, ReadIntervalEffect DEF ReadInterval, lastVars
  <2> QED BY <1>1, <2>1 DEF TimeRuns
<1>4. CASE StoreTime(Reporter)
  <2>1. /\ snap[Reporter].at = "time" /\ snap'[Reporter].at = "start"
        /\ clock' = clock /\ lastReportTime' = snap[Reporter].now
    BY <1>1, <1>4, StoreTimeEffect DEF StoreTime, snapKept
  <2> QED BY <1>1, <2>1 DEF TimeRuns
<1>5. ASSUME LoadCounter(Reporter) \/ LoadGauge(Reporter) \/ ReadGrowth(Reporter)
             \/ RLock(Reporter) \/ Percentiles(Reporter) \/ StoreLast(Reporter)
      PROVE  TimeRuns'
  <2>1. /\ snap'[Reporter].now = snap[Reporter].now
        /\ snap'[Reporter].interval = snap[Reporter].interval
    BY <1>1, <1>5, OrderedEffects, RLockEffect, PercentilesEffect
  <2>2. clock' = clock /\ lastReportTime' = lastReportTime
    BY <1>5 DEF LoadCounter, LoadGauge, ReadGrowth, RLock, Percentiles, StoreLast, lastVars
  <2>3. snap[Reporter].at \notin {"start", "interval"}
    BY <1>5 DEF LoadCounter, LoadGauge, ReadGrowth, RLock, Percentiles, StoreLast
  <2>4. snap'[Reporter].at # "interval"
    <3>1. CASE RLock(Reporter) \/ Percentiles(Reporter)
      BY <1>1, <3>1, RLockEffect, PercentilesEffect
    <3>2. CASE LoadCounter(Reporter)
      <4>1. snap[Reporter].at = "load" /\ Onwards(Reporter, 5, "gauges")
        BY <1>1, <3>2, OrderedEffects
      <4> QED BY <4>1 DEF Onwards
    <3>3. CASE LoadGauge(Reporter)
      <4>1. snap[Reporter].at = "gauges" /\ Onwards(Reporter, 3, "rates")
        BY <1>1, <3>3, OrderedEffects
      <4> QED BY <4>1 DEF Onwards
    <3>4. CASE ReadGrowth(Reporter)
      <4>1. snap[Reporter].at = "rates" /\ Onwards(Reporter, 5, "rlock")
        BY <1>1, <3>4, OrderedEffects
      <4> QED BY <4>1 DEF Onwards
    <3>5. CASE StoreLast(Reporter)
      <4>1. snap[Reporter].at = "store" /\ Onwards(Reporter, 5, "time")
        BY <1>1, <3>5, OrderedEffects
      <4> QED BY <4>1 DEF Onwards
    <3> QED BY <1>5, <3>1, <3>2, <3>3, <3>4, <3>5
  <2>5. snap[Reporter].now < clock /\ snap[Reporter].interval > 0 /\ lastReportTime < clock
    BY <2>3 DEF TimeRuns
  <2> QED BY <2>1, <2>2, <2>4, <2>5 DEF TimeRuns
<1> QED BY <1>2, <1>3, <1>4, <1>5 DEF GetSnapshot

LEMMA ReporterKeepsTiled ==
    ASSUME TInv, TimeRuns, GetSnapshot(Reporter), NEW j \in 1..5, Tiled(j)
    PROVE  Tiled(j)'
<1> DEFINE c == LoadOrder[j]
           i == snap[Reporter].i
           at == snap[Reporter].at
<1>1. /\ TypeOK /\ Reporter \in Snapshooters /\ snap[Reporter] \in Snapshot /\ i \in 1..5
      /\ Indices /\ c \in Counters
      /\ \A k \in 1..5 : (LoadOrder[k] = c) <=> k = j
  BY CountersAre DEF TInv, TypeOK, Snapshot, Snapshooters
<1>2. /\ snap[Reporter].totals \in [Counters -> Nat] /\ snap[Reporter].growth \in [Counters -> Int]
      /\ last \in [Counters -> Nat] /\ told \in [Counters -> Int] /\ counter \in [Counters -> Nat]
  BY <1>1 DEF TypeOK, Snapshot
<1>3. counter' = counter
  BY DEF GetSnapshot, TakeTime, ReadInterval, LoadCounter, LoadGauge, ReadGrowth, RLock,
         Percentiles, StoreLast, StoreTime, snapKept, recordVars
<1> DEFINE SameFields == /\ snap'[Reporter].totals = snap[Reporter].totals
                         /\ snap'[Reporter].growth = snap[Reporter].growth
           SameBooks == last' = last /\ told' = told
<1>4. CASE TakeTime(Reporter) \/ ReadInterval(Reporter) \/ RLock(Reporter) \/ Percentiles(Reporter)
  <2>1. SameFields
    BY <1>1, <1>4, TakeTimeEffect, ReadIntervalEffect, RLockEffect, PercentilesEffect
  <2>2. SameBooks
    BY <1>4 DEF TakeTime, ReadInterval, RLock, Percentiles, lastVars
  <2>3. CASE TakeTime(Reporter)
    <3>1. at = "start" /\ snap'[Reporter].at = "interval"
      BY <1>1, <2>3, TakeTimeEffect
    <3> QED BY <1>3, <2>1, <2>2, <3>1 DEF Tiled, TotalIn, GrownIn, StoredIn
  <2>4. CASE ReadInterval(Reporter)
    <3>1. at = "interval" /\ snap'[Reporter].at = "load" /\ snap'[Reporter].i = 1
      BY <1>1, <2>4, ReadIntervalEffect DEF Indices
    <3> QED BY <1>3, <2>1, <2>2, <3>1 DEF Tiled, TotalIn, GrownIn, StoredIn
  <2>5. CASE RLock(Reporter)
    <3>1. at = "rlock" /\ snap'[Reporter].at = "percentiles"
      BY <1>1, <2>5, RLockEffect
    <3> QED BY <1>3, <2>1, <2>2, <3>1 DEF Tiled, TotalIn, GrownIn, StoredIn
  <2>6. CASE Percentiles(Reporter)
    <3>1. at = "percentiles" /\ snap'[Reporter].at = "store" /\ snap'[Reporter].i = 1
      BY <1>1, <2>6, PercentilesEffect DEF Indices
    <3> QED BY <1>3, <2>1, <2>2, <3>1 DEF Tiled, TotalIn, GrownIn, StoredIn
  <2> QED BY <1>4, <2>3, <2>4, <2>5, <2>6
<1>5. CASE LoadCounter(Reporter)
  <2>1. /\ at = "load" /\ Onwards(Reporter, 5, "gauges")
        /\ snap'[Reporter].totals =
              [snap[Reporter].totals EXCEPT ![LoadOrder[i]] = counter[LoadOrder[i]]]
        /\ snap'[Reporter].growth = snap[Reporter].growth
    BY <1>1, <1>5, OrderedEffects
  <2>2. SameBooks
    BY <1>5 DEF LoadCounter, lastVars
  <2>3. j = i => snap'[Reporter].totals[c] = counter[c]
    BY <1>1, <1>2, <2>1
  <2>4. j # i => snap'[Reporter].totals[c] = snap[Reporter].totals[c]
    BY <1>1, <1>2, <2>1
  <2>5. \/ snap'[Reporter].at = "load" /\ snap'[Reporter].i = i + 1
        \/ i = 5 /\ snap'[Reporter].at = "gauges"
    BY <1>1, <2>1 DEF Onwards
  <2>6. TotalIn(j)' => j = i \/ TotalIn(j)
    BY <1>1, <2>1, <2>5 DEF TotalIn
  <2>7. TotalIn(j)' => snap'[Reporter].totals[c] <= counter[c]
    <3>1. CASE j = i
      BY <1>1, <1>2, <2>3, <3>1
    <3>2. CASE j # i
      BY <2>4, <2>6, <3>2 DEF Tiled
    <3> QED BY <3>1, <3>2
  <2>8. ~GrownIn(j)' /\ ~StoredIn(j)'
    BY <2>5 DEF GrownIn, StoredIn
  <2>9. last[c] <= counter[c] /\ told[c] = last[c]
    BY <2>1 DEF Tiled
  <2> QED BY <1>3, <2>2, <2>7, <2>8, <2>9 DEF Tiled
<1>6. CASE LoadGauge(Reporter)
  <2>1. /\ at = "gauges" /\ Onwards(Reporter, 3, "rates") /\ SameFields
    BY <1>1, <1>6, OrderedEffects
  <2>2. SameBooks
    BY <1>6 DEF LoadGauge, lastVars
  <2>3. \/ snap'[Reporter].at = "gauges"
        \/ snap'[Reporter].at = "rates" /\ snap'[Reporter].i = 1
    BY <2>1 DEF Onwards
  <2>4. ~GrownIn(j)' /\ ~StoredIn(j)' /\ TotalIn(j)
    BY <2>1, <2>3 DEF GrownIn, StoredIn, TotalIn
  <2>5. /\ last[c] <= counter[c] /\ told[c] = last[c]
        /\ snap[Reporter].totals[c] <= counter[c]
    BY <2>1, <2>4 DEF Tiled
  <2> QED BY <1>3, <2>1, <2>2, <2>4, <2>5 DEF Tiled
<1>7. CASE ReadGrowth(Reporter)
  <2> DEFINE d == IF snap[Reporter].interval > 0
                  THEN snap[Reporter].totals[LoadOrder[i]] - last[LoadOrder[i]] ELSE 0
  <2>1. /\ at = "rates" /\ Onwards(Reporter, 5, "rlock")
        /\ snap'[Reporter].totals = snap[Reporter].totals
        /\ snap'[Reporter].growth = [snap[Reporter].growth EXCEPT ![LoadOrder[i]] = d]
    BY <1>1, <1>7, OrderedEffects
  <2>2. SameBooks
    BY <1>7 DEF ReadGrowth, lastVars
  <2>3. snap[Reporter].interval > 0
    BY <2>1 DEF TimeRuns
  <2>4. /\ last[c] <= counter[c] /\ told[c] = last[c] /\ TotalIn(j)
        /\ snap[Reporter].totals[c] <= counter[c]
    BY <2>1 DEF Tiled, TotalIn
  <2>5. j = i => snap'[Reporter].growth[c] = snap[Reporter].totals[c] - last[c]
    BY <1>1, <1>2, <2>1, <2>3
  <2>6. j # i => snap'[Reporter].growth[c] = snap[Reporter].growth[c]
    BY <1>1, <1>2, <2>1
  <2>7. \/ snap'[Reporter].at = "rates" /\ snap'[Reporter].i = i + 1
        \/ i = 5 /\ snap'[Reporter].at = "rlock"
    BY <1>1, <2>1 DEF Onwards
  <2>8. GrownIn(j)' => j = i \/ GrownIn(j)
    BY <1>1, <2>1, <2>7 DEF GrownIn
  <2>9. GrownIn(j)' => told[c] + snap'[Reporter].growth[c] = snap[Reporter].totals[c]
    <3>1. CASE j = i
      <4>1. last[c] \in Nat /\ snap[Reporter].totals[c] \in Nat
        BY <1>1, <1>2
      <4>2. last[c] + (snap[Reporter].totals[c] - last[c]) = snap[Reporter].totals[c]
        BY <4>1
      <4> QED BY <2>4, <2>5, <3>1, <4>2
    <3>2. CASE j # i
      BY <2>6, <2>8, <3>2 DEF Tiled
    <3> QED BY <3>1, <3>2
  <2>10. ~StoredIn(j)'
    BY <2>7 DEF StoredIn
  <2> QED BY <1>3, <2>1, <2>2, <2>4, <2>9, <2>10 DEF Tiled
<1>8. CASE StoreLast(Reporter)
  <2>1. at = "store" /\ Onwards(Reporter, 5, "time") /\ SameFields
    BY <1>1, <1>8, OrderedEffects
  <2>2. /\ last' = [last EXCEPT ![LoadOrder[i]] = snap[Reporter].totals[LoadOrder[i]]]
        /\ told' = told
    BY <1>8 DEF StoreLast
  <2>3. /\ last[c] <= counter[c] /\ TotalIn(j) /\ GrownIn(j)
        /\ snap[Reporter].totals[c] <= counter[c]
        /\ told[c] + snap[Reporter].growth[c] = snap[Reporter].totals[c]
    BY <2>1 DEF Tiled, TotalIn, GrownIn
  <2>4. \/ snap'[Reporter].at = "store" /\ snap'[Reporter].i = i + 1
        \/ i = 5 /\ snap'[Reporter].at = "time"
    BY <1>1, <2>1 DEF Onwards
  <2>5. j = i => last'[c] = snap[Reporter].totals[c]
    BY <1>1, <1>2, <2>2
  <2>6. j # i => last'[c] = last[c]
    BY <1>1, <1>2, <2>2
  <2>7. StoredIn(j)' => j = i \/ StoredIn(j)
    BY <1>1, <2>1, <2>4 DEF StoredIn
  <2>8. StoredIn(j)' => last'[c] = snap[Reporter].totals[c]
    BY <2>5, <2>6, <2>7 DEF Tiled
  <2>9. last'[c] <= counter[c]
    BY <2>3, <2>5, <2>6
  <2> QED BY <1>3, <2>1, <2>2, <2>3, <2>4, <2>8, <2>9 DEF Tiled
<1>9. CASE StoreTime(Reporter)
  <2>1. at = "time" /\ snap'[Reporter].at = "start" /\ SameFields
    BY <1>1, <1>9, StoreTimeEffect
  <2>2. /\ last' = last
        /\ told' = [k \in Counters |-> told[k] + snap[Reporter].growth[k]]
    BY <1>9 DEF StoreTime
  <2>3. /\ last[c] <= counter[c] /\ last[c] = snap[Reporter].totals[c]
        /\ told[c] + snap[Reporter].growth[c] = snap[Reporter].totals[c]
    BY <2>1 DEF Tiled, GrownIn, StoredIn
  <2>4. told'[c] = last[c]
    <3>1. told'[c] = told[c] + snap[Reporter].growth[c]
      BY <1>1, <2>2
    <3> QED BY <2>3, <3>1
  <2>5. ~TotalIn(j)' /\ ~GrownIn(j)' /\ ~StoredIn(j)'
    BY <2>1 DEF TotalIn, GrownIn, StoredIn
  <2> QED BY <1>3, <2>2, <2>3, <2>4, <2>5 DEF Tiled
<1> QED BY <1>4, <1>5, <1>6, <1>7, <1>8, <1>9 DEF GetSnapshot

LEMMA NextKeepsTile ==
    ASSUME TInv, TileInv, [Next]_vars
    PROVE  TileInv'
<1>1. CASE /\ UNCHANGED <<snap, last, told, clock, lastReportTime>>
           /\ [\E w \in Workers : Record(w)]_counter
  BY <1>1, RecordKeepsTile
<1>2. ASSUME NEW w \in Workers, Record(w)
      PROVE  UNCHANGED <<snap, last, told, clock, lastReportTime>>
  BY <1>2 DEF Record, Begin, Count, CountBytes, Lock, AppendLatency, TrimAndUnlock, recordKept,
              lastVars
<1>3. ASSUME StopReturns \/ StoreGauge \/ UNCHANGED vars
      PROVE  UNCHANGED <<snap, last, told, clock, lastReportTime, counter>>
  BY <1>3 DEF StopReturns, StoreGauge, vars, recordVars, lastVars
<1>4. CASE GetSnapshot(Main)
  BY <1>4, MainEndsAlone DEF TileInv
<1>5. CASE GetSnapshot(Reporter)
  <2> SUFFICES ASSUME Alone' PROVE TimeRuns' /\ \A j \in 1..5 : Tiled(j)'
    BY DEF TileInv
  <2>1. snap'[Main] = snap[Main]
    BY <1>5, OneAtATime, MetricsAssumption DEF TInv, Snapshooters
  <2>2. Alone
    BY <2>1 DEF Alone
  <2> QED BY <1>5, <2>2, ReporterKeepsTime, ReporterKeepsTiled DEF TileInv
<1> QED BY <1>1, <1>2, <1>3, <1>4, <1>5 DEF Next, Snapshooters

\* While the reporter is the only one to take snapshots, each operation is part of
\* the growth of exactly one report.
THEOREM IntervalsTile == Spec => []ReporterIntervalsTile
<1> DEFINE I == TInv /\ TileInv
<1>1. Init => I
  <2> SUFFICES ASSUME Init PROVE TimeRuns /\ \A j \in 1..5 : Tiled(j)
    BY InitTInv DEF TileInv
  <2>1. Reporter \in Snapshooters
    BY DEF Snapshooters
  <2>2. snap[Reporter].at = "start" /\ lastReportTime = 0 /\ clock = 1
        /\ last = Zero /\ told = Zero /\ counter = Zero
    BY <2>1 DEF Init
  <2>3. \A j \in 1..5 : Zero[LoadOrder[j]] = 0
    BY CountersAre DEF Zero
  <2> QED BY <2>2, <2>3 DEF TimeRuns, Tiled, TotalIn, GrownIn, StoredIn
<1>2. I /\ [Next]_vars => I'
  BY RecordKeepsTInv, OthersKeepTInv, SnapshotKeepsTInv, NextKeepsTile DEF Next
<1>3. ASSUME I, Alone, snap[Reporter].at = "start"
      PROVE  told = last /\ \A c \in Counters : last[c] <= counter[c]
  <2>1. \A j \in 1..5 : told[LoadOrder[j]] = last[LoadOrder[j]]
                          /\ last[LoadOrder[j]] <= counter[LoadOrder[j]]
    BY <1>3 DEF TileInv, Tiled
  <2>2. \A c \in Counters : told[c] = last[c] /\ last[c] <= counter[c]
    BY <2>1, CountersAre
  <2>3. told \in [Counters -> Int] /\ last \in [Counters -> Nat]
    BY <1>3 DEF TInv, TypeOK
  <2> QED BY <2>2, <2>3
<1>4. I => ReporterIntervalsTile
  BY <1>3 DEF ReporterIntervalsTile, Alone
<1> QED BY <1>1, <1>2, <1>4, PTL DEF Spec
=============================================================================
