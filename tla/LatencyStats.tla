---------------------------- MODULE LatencyStats ----------------------------
(***************************************************************************)
(* calculateAvg and calculatePercentile (metrics/metrics.go), as             *)
(* GetSnapshot calls them on one latency buffer: the average, then each      *)
(* percentile on a sorted copy of its own.  The caller holds the read lock,  *)
(* so the buffer stands still; every addition and every comparison of the    *)
(* sort is a step.                                                           *)
(* Sequences count from 1 where Go's slices count from 0.                    *)
(***************************************************************************)
EXTENDS Integers, Sequences, FiniteSets, GoIntegers

CONSTANTS Durations,     \* the latencies a sample may have
          MaxLatencies,  \* samples the buffer holds (10000 in the code)
          Percentiles,   \* asked for, in this order (95 and 99 in the code)
          IntBits        \* width of time.Duration (64)

ASSUME LatencyAssumption ==
       /\ Durations \subseteq Nat
       /\ MaxLatencies \in Nat \ {0}
       /\ Percentiles \in Seq(0..100)
       /\ \A c, d \in 1..Len(Percentiles) : c <= d => Percentiles[c] <= Percentiles[d]
       /\ IntBits \in Nat \ {0}
       /\ 2^(IntBits - 1) \in Nat \ {0} /\ 2^IntBits = 2 * 2^(IntBits - 1)

VARIABLES durations,  \* the buffer, oldest sample first
          at,         \* the next step: avg, copy, compare or done
          sum,        \* calculateAvg's sum of the first i samples
          avg,        \* result of calculateAvg
          results,    \* results of calculatePercentile so far
          sorted,     \* its copy of the buffer
          i, j        \* loop variables

vars == <<durations, at, sum, avg, results, sorted, i, j>>

N == Len(durations)
Buffers == UNION {[1..n -> Durations] : n \in 0..MaxLatencies}

Init ==
    /\ durations \in Buffers
    /\ at = "avg"
    /\ sum = 0
    /\ avg = 0
    /\ results = <<>>
    /\ sorted = <<>>
    /\ i = 0
    /\ j = 0

-----------------------------------------------------------------------------
(* calculateAvg.                                                            *)

\* One turn of the range loop.  time.Duration is an int64: the sum wraps.
AddSample ==
    /\ at = "avg"
    /\ i < N
    /\ sum' = Wrap(sum + durations[i + 1], IntBits)
    /\ i' = i + 1
    /\ UNCHANGED <<durations, at, avg, results, sorted, j>>

\* Mutant: divided by the buffer's capacity, not by its length.
AvgOfCapacity == IF N = 0 THEN 0 ELSE Quotient(sum, MaxLatencies)

Avg == IF N = 0 THEN 0 ELSE Quotient(sum, N)

\* GetSnapshot leaves an empty buffer's fields at zero.
CalculateAvg ==
    /\ at = "avg"
    /\ i = N
    /\ avg' = Avg
    /\ at' = IF N = 0 THEN "done" ELSE "copy"
    /\ UNCHANGED <<durations, sum, results, sorted, i, j>>

-----------------------------------------------------------------------------
(* calculatePercentile.                                                     *)

CopySamples ==
    /\ at = "copy"
    /\ Len(results) < Len(Percentiles)
    /\ sorted' = durations
    /\ i' = 1
    /\ j' = 2
    /\ at' = "compare"
    /\ UNCHANGED <<durations, sum, avg, results>>

AllCalculated ==
    /\ at = "copy"
    /\ Len(results) = Len(Percentiles)
    /\ at' = "done"
    /\ UNCHANGED <<durations, sum, avg, results, sorted, i, j>>

\* Mutant: a swap without a temporary loses a sample.
SwappedWithoutTemp(s, a, b) == [s EXCEPT ![a] = s[b], ![b] = s[b]]

Swapped(s, a, b) == [s EXCEPT ![a] = s[b], ![b] = s[a]]

\* One turn of the inner loop.
Compare ==
    /\ at = "compare"
    /\ i <= N /\ j <= N
    /\ sorted' = IF sorted[i] > sorted[j] THEN Swapped(sorted, i, j) ELSE sorted
    /\ j' = j + 1
    /\ UNCHANGED <<durations, at, sum, avg, results, i>>

\* Mutant: the outer loop stands still.
NextIStandsStill ==
    /\ at = "compare"
    /\ i <= N /\ j > N
    /\ j' = i + 1
    /\ UNCHANGED <<durations, at, sum, avg, results, sorted, i>>

NextI ==
    /\ at = "compare"
    /\ i <= N /\ j > N
    /\ i' = i + 1
    /\ j' = i + 2
    /\ UNCHANGED <<durations, at, sum, avg, results, sorted>>

\* Mutant: the rank is rounded down once more.
IndexBelow(n, p) == IF n * p < 100 THEN 0 ELSE (n * p) \div 100 - 1

\* int(float64(n) * float64(p) / 100.0), at most n - 1.  The product is exact, and
\* the quotient is no closer than 0.01 to an integer it does not equal: the floor
\* is that of the exact quotient.
Index(n, p) == IF (n * p) \div 100 >= n THEN n - 1 ELSE (n * p) \div 100

PickSample ==
    /\ at = "compare"
    /\ i > N
    /\ results' = Append(results, sorted[Index(N, Percentiles[Len(results) + 1]) + 1])
    /\ at' = "copy"
    /\ UNCHANGED <<durations, sum, avg, sorted, i, j>>

Next == AddSample \/ CalculateAvg \/ CopySamples \/ AllCalculated \/ Compare \/ NextI \/ PickSample

Spec == Init /\ [][Next]_vars

FairSpec == Spec /\ WF_vars(Next)

-----------------------------------------------------------------------------
\* The copy is sorted in place and no sample is lost or made up: at every step it
\* is the buffer in another order.
SameSamples ==
    at = "compare" =>
        \E p \in [1..N -> 1..N] :
           /\ \A a, b \in 1..N : p[a] = p[b] => a = b
           /\ \A a \in 1..N : sorted[a] = durations[p[a]]

\* A percentile is one of the buffer as it was given, not only of the sorted copy:
\* at most p percent of the samples are faster, and at most 100 - p percent slower.
\* The shortest buffers and p = 100 are no exception, and P95 is never above P99,
\* although each is found in a copy of its own.
Faster(x) == {k \in 1..N : durations[k] < x}
Slower(x) == {k \in 1..N : durations[k] > x}

RankRight ==
    \A c \in 1..Len(results) :
        /\ 100 * Cardinality(Faster(results[c])) <= Percentiles[c] * N
        /\ 100 * Cardinality(Slower(results[c])) <= (100 - Percentiles[c]) * N
        /\ \A d \in 1..c : results[d] <= results[c]

\* The average lies between the fastest and the slowest sample as long as their
\* sum fits time.Duration (10000 samples of ten days each still do).
AvgBetween ==
    at # "avg" /\ N > 0 =>
        \A high \in Durations :
           (\A k \in 1..N : durations[k] <= high) /\ Fits(N * high, IntBits)
              => /\ avg <= high
                 /\ \E k \in 1..N : durations[k] <= avg

\* Every call comes to its end: the workers that wait for the lock, which the
\* caller holds during the sort, are not kept for ever.
SortEnds == <>(at = "done")
=============================================================================
