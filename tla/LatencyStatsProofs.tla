------------------------- MODULE LatencyStatsProofs -------------------------
(***************************************************************************)
(* The average and the percentiles of a buffer, for any samples, any size of  *)
(* the buffer and any width of time.Duration: the average lies between the    *)
(* extremes, the sort keeps the samples, and each percentile has its rank.    *)
(***************************************************************************)
EXTENDS LatencyStats, FiniteSetTheorems, SequenceTheorems, TLAPS

Places == 1..N

\* The sum so far, as long as the whole sum fits: between so many times the slowest and
\* so many times the fastest sample.
SumBounds ==
    \A high \in Durations :
       (\A k \in Places : durations[k] <= high) /\ Fits(N * high, IntBits) =>
          /\ sum \in Nat /\ sum <= i * high
          /\ \A low \in Nat : (\A k \in Places : low <= durations[k]) => i * low <= sum

\* The copy is the buffer in another order; p says where a sample came from and q where
\* it went.
Reordered ==
    \E p, q \in [Places -> Places] :
       \A a \in Places : q[p[a]] = a /\ p[q[a]] = a /\ sorted[a] = durations[p[a]]

\* The places before i hold the smallest samples in order, and place i the smallest of
\* those it has been compared with.
SortInv ==
    /\ sorted \in [Places -> Nat]
    /\ Reordered
    /\ i \in 1..(N + 1)
    /\ i <= N => j \in (i + 1)..(N + 1)
    /\ \A a, b \in Places : a < i /\ a < b => sorted[a] <= sorted[b]
    /\ i <= N => \A b \in Places : i < b /\ b < j => sorted[i] <= sorted[b]

\* At most Index samples are faster than a percentile, and Index + 1 are not slower.
Ranked ==
    \A c \in 1..Len(results) :
       /\ Cardinality(Faster(results[c])) <= Index(N, Percentiles[c])
       /\ Cardinality(Slower(results[c])) <= N - 1 - Index(N, Percentiles[c])

LatInv ==
    /\ durations \in Seq(Durations)
    /\ at \in {"avg", "copy", "compare", "done"}
    /\ at = "avg" => i \in 0..N /\ SumBounds /\ results = <<>>
    /\ AvgBetween
    /\ at \in {"copy", "compare"} => N > 0
    /\ at = "compare" => SortInv /\ Len(results) < Len(Percentiles)
    /\ results \in Seq(Nat) /\ Len(results) <= Len(Percentiles)
    /\ Ranked

-----------------------------------------------------------------------------
(* Arithmetic.                                                              *)

\* A sum that fits is not wrapped.
LEMMA WrapKeeps ==
    ASSUME NEW x \in Int, Fits(x, IntBits)
    PROVE  Wrap(x, IntBits) = x
<1> DEFINE h == 2^(IntBits - 1)
<1>1. h \in Nat \ {0} /\ 2^IntBits = 2 * h
  BY LatencyAssumption
<1>2. -h <= x /\ x < h
  BY DEF Fits
<1> HIDE DEF h
<1>3. (x + h) % (2 * h) = x + h
  BY <1>1, <1>2
<1> QED BY <1>1, <1>3 DEF h, Wrap

LEMMA Multiples ==
    ASSUME NEW a \in Nat, NEW b \in Nat, NEW c \in Nat, a <= c
    PROVE  /\ a * b \in Nat /\ (a + 1) * b = a * b + b
           /\ a * b <= c * b
           /\ b * a <= b * c
<1>1. a * b \in Nat /\ (a + 1) * b = a * b + b
  OBVIOUS
<1>2. PICK d \in Nat : c = a + d
  <2>1. c - a \in Nat /\ c = a + (c - a)
    OBVIOUS
  <2> QED BY <2>1
<1>3. c * b = a * b + d * b /\ b * c = b * a + b * d /\ d * b \in Nat /\ b * d \in Nat
      /\ b * a \in Nat
  BY <1>2
<1> QED BY <1>1, <1>3

LEMMA Products ==
    ASSUME NEW a \in Nat, NEW b \in Nat
    PROVE  a * b \in Nat /\ (a = 0 => a * b = 0)
OBVIOUS

LEMMA Quotients ==
    ASSUME NEW a \in Nat, NEW n \in Nat \ {0}
    PROVE  /\ a \div n \in Nat
           /\ n * (a \div n) <= a
           /\ a < n * (a \div n) + n
OBVIOUS

LEMMA IndexBounds ==
    ASSUME NEW n \in Nat \ {0}, NEW p \in 0..100
    PROVE  /\ Index(n, p) \in 0..(n - 1)
           /\ 100 * Index(n, p) <= p * n
           /\ 100 * (n - 1 - Index(n, p)) <= (100 - p) * n
           /\ \A r \in 0..100 : p <= r => Index(n, p) <= Index(n, r)
<1> DEFINE x == n * p
<1>1. x \in Nat /\ p * n = x /\ (100 - p) * n = 100 * n - x /\ x <= 100 * n
  <2>1. (100 - p) * n = 100 * n - p * n /\ p * n = n * p /\ p * n \in Nat
    OBVIOUS
  <2>2. (100 - p) * n \in Nat
    OBVIOUS
  <2> QED BY <2>1, <2>2
<1>2. \A r \in 0..100 : p <= r => n * r \in Nat /\ x <= n * r
  BY Multiples
<1> HIDE DEF x
<1>3. /\ x \div 100 \in Nat /\ 100 * (x \div 100) <= x /\ x < 100 * (x \div 100) + 100
  BY <1>1
<1>4. Index(n, p) = IF x \div 100 >= n THEN n - 1 ELSE x \div 100
  BY DEF Index, x
<1>5. \A r \in 0..100 : p <= r => Index(n, p) <= Index(n, r)
  <2> SUFFICES ASSUME NEW r \in 0..100, p <= r PROVE Index(n, p) <= Index(n, r)
    OBVIOUS
  <2> DEFINE y == n * r
  <2>1. y \in Nat /\ x <= y
    BY <1>2
  <2>2. Index(n, r) = IF y \div 100 >= n THEN n - 1 ELSE y \div 100
    BY DEF Index
  <2> HIDE DEF y
  <2>3. x \div 100 <= y \div 100 /\ y \div 100 \in Nat
    BY <1>1, <2>1
  <2> QED BY <1>3, <1>4, <2>2, <2>3
<1> QED BY <1>1, <1>3, <1>4, <1>5

-----------------------------------------------------------------------------
(* The average.                                                             *)

LEMMA Samples ==
    ASSUME LatInv
    PROVE  /\ N \in Nat
           /\ \A k \in Places : durations[k] \in Durations /\ durations[k] \in Nat
           /\ N > 0 <=> durations # <<>>
<1>1. durations \in Seq(Durations) /\ Durations \subseteq Nat
  BY LatencyAssumption DEF LatInv
<1>2. N \in Nat /\ (durations # <<>> => N > 0)
  BY <1>1, LenProperties, EmptySeq DEF N
<1>3. durations = <<>> => ~(N > 0)
  BY DEF N
<1>4. \A k \in Places : durations[k] \in Durations
  BY <1>1, ElementOfSeq DEF N, Places
<1> QED BY <1>1, <1>2, <1>3, <1>4

LEMMA AddSampleKeepsBounds ==
    ASSUME LatInv, AddSample
    PROVE  SumBounds'
<1>1. /\ i \in 0..N /\ i < N /\ SumBounds /\ UNCHANGED <<durations, N, Places>>
      /\ sum' = Wrap(sum + durations[i + 1], IntBits) /\ i' = i + 1
  BY DEF LatInv, AddSample, N, Places
<1> SUFFICES ASSUME NEW high \in Durations, \A k \in Places : durations[k] <= high,
                    Fits(N * high, IntBits)
             PROVE  /\ sum' \in Nat /\ sum' <= i' * high
                    /\ \A low \in Nat : (\A k \in Places : low <= durations[k]) =>
                          i' * low <= sum'
  BY <1>1 DEF SumBounds
<1> DEFINE d == durations[i + 1]
           h == 2^(IntBits - 1)
<1>2. i + 1 \in Places /\ N \in Nat /\ i \in Nat /\ i + 1 \in Nat /\ i + 1 <= N
  BY <1>1, Samples DEF Places
<1>3. d \in Nat /\ d <= high /\ high \in Nat
  BY <1>2, Samples, LatencyAssumption
<1>4. sum \in Nat /\ sum <= i * high
  BY <1>1 DEF SumBounds
<1>5. i * high \in Nat /\ (i + 1) * high = i * high + high /\ (i + 1) * high <= N * high
  BY <1>2, <1>3, Multiples
<1>6. sum + d \in Nat /\ sum + d <= (i + 1) * high /\ sum + d <= N * high /\ N * high \in Nat
  <2> HIDE DEF d
  <2>1. N * high \in Nat
    BY <1>2, <1>3
  <2> QED BY <1>3, <1>4, <1>5, <2>1
<1>7. h \in Nat /\ N * high < h
  BY LatencyAssumption DEF Fits
<1>8. Fits(sum + d, IntBits)
  <2>1. -h <= sum + d /\ sum + d < h
    <3> HIDE DEF h, d
    <3> QED BY <1>6, <1>7
  <2> QED BY <2>1 DEF Fits
<1>9. sum' = sum + d
  BY <1>1, <1>6, <1>8, WrapKeeps
<1>10. ASSUME NEW low \in Nat, \A k \in Places : low <= durations[k]
       PROVE  (i + 1) * low <= sum + d
  <2>1. i * low <= sum /\ low <= d
    BY <1>1, <1>2, <1>10 DEF SumBounds
  <2>2. i * low \in Nat /\ (i + 1) * low = i * low + low
    BY <1>2, Multiples
  <2> HIDE DEF d
  <2> QED BY <1>3, <1>4, <2>1, <2>2
<1> HIDE DEF d, h
<1> QED BY <1>1, <1>6, <1>9, <1>10

LEMMA AvgIsBetween ==
    ASSUME LatInv, CalculateAvg
    PROVE  AvgBetween'
<1>1. /\ at = "avg" /\ i = N /\ SumBounds /\ UNCHANGED <<durations, N, Places>>
      /\ avg' = Avg
  BY DEF LatInv, CalculateAvg, N, Places
<1> SUFFICES ASSUME N > 0, NEW high \in Durations, \A k \in Places : durations[k] <= high,
                    Fits(N * high, IntBits)
             PROVE  /\ avg' <= high
                    /\ \E k \in Places : durations[k] <= avg'
  BY <1>1 DEF AvgBetween, Places
<1>2. N \in Nat \ {0} /\ high \in Nat
  BY Samples, LatencyAssumption
<1>3. sum \in Nat /\ sum <= N * high
  BY <1>1 DEF SumBounds
<1> DEFINE q == sum \div N
<1>4. avg' = q /\ q \in Nat /\ N * q <= sum /\ sum < N * q + N
  BY <1>1, <1>2, <1>3, Quotients DEF Avg, Quotient
<1> HIDE DEF q
<1>5. q <= high
  <2> SUFFICES ASSUME high + 1 <= q PROVE FALSE
    BY <1>2, <1>4
  <2>1. N * (high + 1) <= N * q /\ N * (high + 1) = N * high + N /\ N * high \in Nat
        /\ N * q \in Nat
    BY <1>2, <1>4, Multiples
  <2> QED BY <1>2, <1>3, <1>4, <2>1
<1>6. \E k \in Places : durations[k] <= q
  <2> SUFFICES ASSUME \A k \in Places : ~(durations[k] <= q) PROVE FALSE
    OBVIOUS
  <2>1. \A k \in Places : q + 1 <= durations[k]
    BY <1>4, Samples
  <2>2. N * (q + 1) <= sum
    BY <1>1, <1>4, <2>1 DEF SumBounds
  <2>3. N * (q + 1) = N * q + N /\ N * q \in Nat
    BY <1>2, <1>4
  <2> QED BY <1>2, <1>3, <1>4, <2>2, <2>3
<1> QED BY <1>4, <1>5, <1>6

-----------------------------------------------------------------------------
(* The sort.                                                                *)

LEMMA CopyIsReordered ==
    ASSUME LatInv, CopySamples
    PROVE  SortInv'
<1>1. /\ UNCHANGED <<N, Places, durations>> /\ sorted' = durations /\ i' = 1 /\ j' = 2
      /\ N > 0 /\ N \in Nat
  BY Samples DEF CopySamples, LatInv, N, Places
<1>2. durations \in [Places -> Nat]
  <2>1. durations \in [Places -> Durations]
    BY LenProperties DEF LatInv, N, Places
  <2> QED BY <2>1, LatencyAssumption
<1>3. Reordered'
  <2> DEFINE id == [a \in Places |-> a]
  <2>1. id \in [Places -> Places] /\ \A a \in Places : id[a] = a
    OBVIOUS
  <2>2. \A a \in Places : id[id[a]] = a /\ sorted'[a] = durations[id[a]]
    BY <1>1
  <2> HIDE DEF id
  <2> QED BY <1>1, <2>1, <2>2 DEF Reordered
<1> QED BY <1>1, <1>2, <1>3 DEF SortInv, Places

\* What is swapped stays in the copy.
LEMMA SwapReorders ==
    ASSUME Reordered, UNCHANGED <<durations, N, Places>>, sorted \in [Places -> Nat],
           NEW a \in Places, NEW b \in Places, a # b, sorted' = Swapped(sorted, a, b)
    PROVE  Reordered'
<1>1. PICK p, q \in [Places -> Places] :
         \A c \in Places : q[p[c]] = c /\ p[q[c]] = c /\ sorted[c] = durations[p[c]]
  BY DEF Reordered
<1> DEFINE p2 == [p EXCEPT ![a] = p[b], ![b] = p[a]]
           q2 == [k \in Places |-> IF k = p[a] THEN b ELSE IF k = p[b] THEN a ELSE q[k]]
<1>2. p2 \in [Places -> Places] /\ q2 \in [Places -> Places]
  BY <1>1
<1>3. /\ p2[a] = p[b] /\ p2[b] = p[a]
      /\ \A c \in Places : c # a /\ c # b => p2[c] = p[c]
  BY <1>1
<1>4. /\ sorted'[a] = sorted[b] /\ sorted'[b] = sorted[a]
      /\ \A c \in Places : c # a /\ c # b => sorted'[c] = sorted[c]
  BY DEF Swapped
<1>5. \A k \in Places : q2[k] = IF k = p[a] THEN b ELSE IF k = p[b] THEN a ELSE q[k]
  OBVIOUS
<1> HIDE DEF p2, q2
<1>6. ASSUME NEW c \in Places
      PROVE  q2[p2[c]] = c /\ p2[q2[c]] = c /\ sorted'[c] = durations[p2[c]]
  <2>1. p[a] # p[b] /\ p[c] \in Places /\ q[c] \in Places /\ p[a] \in Places /\ p[b] \in Places
    BY <1>1
  <2>2. q2[p2[c]] = c
    <3>1. CASE c = a \/ c = b
      BY <1>3, <1>5, <2>1, <3>1
    <3>2. CASE c # a /\ c # b
      <4>1. p[c] # p[a] /\ p[c] # p[b]
        BY <1>1, <3>2
      <4> QED BY <1>1, <1>3, <1>5, <2>1, <3>2, <4>1
    <3> QED BY <3>1, <3>2
  <2>3. p2[q2[c]] = c
    <3>1. CASE c = p[a] \/ c = p[b]
      BY <1>3, <1>5, <2>1, <3>1
    <3>2. CASE c # p[a] /\ c # p[b]
      <4>1. q2[c] = q[c] /\ q[c] # a /\ q[c] # b
        BY <1>1, <1>5, <3>2
      <4> QED BY <1>1, <1>3, <2>1, <4>1
    <3> QED BY <3>1, <3>2
  <2>4. sorted'[c] = durations[p2[c]]
    BY <1>1, <1>3, <1>4
  <2> QED BY <2>2, <2>3, <2>4
<1>7. Places' = Places /\ durations' = durations
  OBVIOUS
<1>8. p2 \in [Places' -> Places'] /\ q2 \in [Places' -> Places']
  BY <1>2, <1>7, Zenon
<1>9. \A c \in Places' : q2[p2[c]] = c /\ p2[q2[c]] = c /\ sorted'[c] = durations'[p2[c]]
  BY <1>6, <1>7, Zenon
<1>10. \E m, n \in [Places' -> Places'] :
          \A c \in Places' : n[m[c]] = c /\ m[n[c]] = c /\ sorted'[c] = durations'[m[c]]
  BY <1>8, <1>9
<1> QED BY <1>10 DEF Reordered

LEMMA CompareSorts ==
    ASSUME LatInv, Compare
    PROVE  SortInv'
<1>1. /\ UNCHANGED <<N, Places, durations, i>> /\ SortInv /\ j' = j + 1
      /\ sorted' = IF sorted[i] > sorted[j] THEN Swapped(sorted, i, j) ELSE sorted
      /\ i <= N /\ j <= N /\ N \in Nat
  BY Samples DEF Compare, LatInv, N, Places
<1>2. /\ i \in Places /\ j \in Places /\ i < j /\ i \in 1..(N + 1) /\ j + 1 \in (i + 1)..(N + 1)
      /\ sorted \in [Places -> Nat]
  BY <1>1, SMTT(30) DEF SortInv, Places
<1>3. /\ \A a, b \in Places : a < i /\ a < b => sorted[a] <= sorted[b]
      /\ \A b \in Places : i < b /\ b < j => sorted[i] <= sorted[b]
  BY <1>1 DEF SortInv
<1>4. CASE sorted[i] > sorted[j]
  <2>1. sorted' = Swapped(sorted, i, j)
    BY <1>1, <1>4
  <2>2. Reordered'
    <3>1. i # j /\ Reordered
      BY <1>1, <1>2 DEF SortInv, Places
    <3> QED BY <1>1, <1>2, <2>1, <3>1, SwapReorders
  <2>3. sorted' \in [Places -> Nat]
    BY <1>2, <2>1 DEF Swapped
  <2>4. /\ sorted'[i] = sorted[j] /\ sorted'[j] = sorted[i]
        /\ \A c \in Places : c # i /\ c # j => sorted'[c] = sorted[c]
    BY <1>2, <2>1 DEF Swapped
  <2>5. \A c \in Places : sorted[c] \in Nat /\ c \in Nat
    BY <1>2 DEF Places
  <2>6. \A a, b \in Places : a < i /\ a < b => sorted'[a] <= sorted'[b]
    <3> SUFFICES ASSUME NEW a \in Places, NEW b \in Places, a < i, a < b
                 PROVE  sorted'[a] <= sorted'[b]
      OBVIOUS
    <3>1. sorted'[a] = sorted[a]
      BY <1>2, <2>4, <2>5
    <3>2. sorted[a] <= sorted[i] /\ sorted[a] <= sorted[j] /\ sorted[a] <= sorted[b]
      BY <1>2, <1>3, <2>5
    <3> QED BY <2>4, <3>1, <3>2
  <2>7. \A b \in Places : i < b /\ b < j + 1 => sorted'[i] <= sorted'[b]
    <3> SUFFICES ASSUME NEW b \in Places, i < b, b < j + 1 PROVE sorted'[i] <= sorted'[b]
      OBVIOUS
    <3>1. CASE b = j
      BY <1>2, <1>4, <2>4, <2>5, <3>1
    <3>2. CASE b # j
      <4>1. b < j /\ b # i
        BY <1>2, <2>5, <3>2
      <4>2. sorted[i] <= sorted[b] /\ sorted'[b] = sorted[b]
        BY <1>3, <2>4, <3>2, <4>1
      <4> QED BY <1>2, <1>4, <2>4, <2>5, <4>2
    <3> QED BY <3>1, <3>2
  <2> QED BY <1>1, <1>2, <2>2, <2>3, <2>6, <2>7 DEF SortInv
<1>5. CASE ~(sorted[i] > sorted[j])
  <2>1. sorted' = sorted /\ sorted[i] <= sorted[j]
    BY <1>1, <1>2, <1>5
  <2>2. Reordered'
    BY <1>1, <2>1, SMTT(30) DEF SortInv, Reordered
  <2>3. \A b \in Places : i < b /\ b < j + 1 => sorted[i] <= sorted[b]
    <3> SUFFICES ASSUME NEW b \in Places, i < b, b < j + 1 PROVE sorted[i] <= sorted[b]
      OBVIOUS
    <3>1. b = j \/ b < j
      BY <1>2 DEF Places
    <3> QED BY <1>3, <2>1, <3>1
  <2> QED BY <1>1, <1>2, <1>3, <2>1, <2>2, <2>3 DEF SortInv
<1> QED BY <1>4, <1>5

LEMMA NextISorts ==
    ASSUME LatInv, NextI
    PROVE  SortInv'
<1>1. /\ UNCHANGED <<N, Places, durations, sorted>> /\ SortInv /\ i' = i + 1 /\ j' = i + 2
      /\ i <= N /\ j > N /\ N \in Nat
  BY Samples DEF NextI, LatInv, N, Places
<1>2. i \in 1..(N + 1) /\ i + 1 \in 1..(N + 1) /\ j = N + 1
      /\ (i + 1 <= N => i + 2 \in (i + 1 + 1)..(N + 1))
  BY <1>1 DEF SortInv
<1>3. Reordered' /\ sorted' \in [Places -> Nat]
  BY <1>1 DEF SortInv, Reordered
<1>4. ASSUME NEW a \in Places, NEW b \in Places, a < i + 1, a < b
      PROVE  sorted[a] <= sorted[b]
  <2>1. a \in Nat /\ b \in Nat /\ b <= N
    BY <1>1 DEF Places
  <2>2. a < i \/ (a = i /\ i < b /\ b < j)
    BY <1>1, <1>2, <1>4, <2>1
  <2> QED BY <1>1, <1>4, <2>2 DEF SortInv
<1>5. \A b \in Places : ~(i + 1 < b /\ b < i + 2)
  BY <1>1, <1>2 DEF Places
<1> QED BY <1>1, <1>2, <1>3, <1>4, <1>5 DEF SortInv

-----------------------------------------------------------------------------
(* The ranks.                                                               *)

LEMMA FasterSlowerFinite ==
    ASSUME LatInv, NEW x
    PROVE  /\ IsFiniteSet(Places) /\ Cardinality(Places) = N
           /\ Faster(x) \subseteq Places /\ Slower(x) \subseteq Places
           /\ IsFiniteSet(Faster(x)) /\ Cardinality(Faster(x)) \in Nat
           /\ IsFiniteSet(Slower(x)) /\ Cardinality(Slower(x)) \in Nat
<1>1. IsFiniteSet(Places) /\ Cardinality(Places) = N
  BY Samples, FS_Interval DEF Places
<1>2. Faster(x) \subseteq Places /\ Slower(x) \subseteq Places
  BY DEF Faster, Slower, Places
<1> QED BY <1>1, <1>2, FS_Subset, FS_CardinalityType

\* Of a sorted copy, the sample with n before it has at most n that are faster and at
\* most N - 1 - n that are slower in the buffer.
LEMMA SortedRank ==
    ASSUME LatInv, SortInv, i > N, NEW n \in 0..(N - 1)
    PROVE  /\ sorted[n + 1] \in Nat
           /\ Cardinality(Faster(sorted[n + 1])) <= n
           /\ Cardinality(Slower(sorted[n + 1])) <= N - 1 - n
<1> DEFINE x == sorted[n + 1]
<1>1. N \in Nat /\ n + 1 \in Places /\ n \in Nat
  BY Samples DEF Places
<1>2. /\ sorted \in [Places -> Nat] /\ i = N + 1
      /\ \A a, b \in Places : a < b => sorted[a] <= sorted[b]
  <2>1. i \in 1..(N + 1) /\ i = N + 1
    BY <1>1 DEF SortInv
  <2>2. \A a \in Places : a < i
    BY <1>1, <2>1 DEF Places
  <2> QED BY <2>1, <2>2 DEF SortInv
<1>3. PICK p, q \in [Places -> Places] :
         \A a \in Places : q[p[a]] = a /\ p[q[a]] = a /\ sorted[a] = durations[p[a]]
  BY DEF SortInv, Reordered
<1>4. \A k \in Places : durations[k] = sorted[q[k]] /\ q[k] \in Places
  BY <1>3
<1>5. \A a, b \in Places : q[a] = q[b] => a = b
  BY <1>3
<1>6. x \in Nat /\ \A a \in Places : a \in Nat /\ a <= N /\ a >= 1 /\ sorted[a] \in Nat
  BY <1>1, <1>2 DEF Places
<1>7. \A k \in Faster(x) : k \in Places /\ q[k] \in 1..n
  <2> SUFFICES ASSUME NEW k \in Faster(x) PROVE k \in Places /\ q[k] \in 1..n
    OBVIOUS
  <2>1. k \in Places /\ durations[k] < x
    BY DEF Faster, Places
  <2>2. sorted[q[k]] < x /\ q[k] \in Places
    BY <1>4, <2>1
  <2>3. ~(n + 1 <= q[k])
    <3> SUFFICES ASSUME n + 1 <= q[k] PROVE FALSE
      OBVIOUS
    <3>1. x <= sorted[q[k]]
      BY <1>1, <1>2, <1>6, <2>2
    <3> QED BY <1>6, <2>2, <3>1
  <2> QED BY <1>1, <1>6, <2>1, <2>2, <2>3
<1>8. \A k \in Slower(x) : k \in Places /\ q[k] \in (n + 2)..N
  <2> SUFFICES ASSUME NEW k \in Slower(x) PROVE k \in Places /\ q[k] \in (n + 2)..N
    OBVIOUS
  <2>1. k \in Places /\ durations[k] > x
    BY DEF Slower, Places
  <2>2. sorted[q[k]] > x /\ q[k] \in Places
    BY <1>4, <2>1
  <2>3. ~(q[k] <= n + 1)
    <3> SUFFICES ASSUME q[k] <= n + 1 PROVE FALSE
      OBVIOUS
    <3>1. sorted[q[k]] <= x
      BY <1>1, <1>2, <1>6, <2>2
    <3> QED BY <1>6, <2>2, <3>1
  <2> QED BY <1>1, <1>6, <2>1, <2>2, <2>3
<1>9. Cardinality(Faster(x)) <= n
  <2> DEFINE f == [k \in Faster(x) |-> q[k]]
  <2>1. f \in Injection(Faster(x), 1..n)
    BY <1>5, <1>7 DEF Injection, IsInjective
  <2>2. IsFiniteSet(1..n) /\ Cardinality(1..n) = n
    BY <1>1, FS_Interval
  <2> HIDE DEF f
  <2> QED BY <2>1, <2>2, FS_Injection
<1>10. Cardinality(Slower(x)) <= N - 1 - n
  <2> DEFINE f == [k \in Slower(x) |-> q[k]]
  <2>1. f \in Injection(Slower(x), (n + 2)..N)
    BY <1>5, <1>8 DEF Injection, IsInjective
  <2>2. IsFiniteSet((n + 2)..N) /\ Cardinality((n + 2)..N) = N - 1 - n
    BY <1>1, FS_Interval
  <2> HIDE DEF f
  <2> QED BY <2>1, <2>2, FS_Injection
<1> QED BY <1>6, <1>9, <1>10

LEMMA PickSampleRanks ==
    ASSUME LatInv, PickSample
    PROVE  /\ results' \in Seq(Nat) /\ Len(results') <= Len(Percentiles)
           /\ Ranked'
<1> DEFINE c == Len(results) + 1
           n == Index(N, Percentiles[c])
           x == sorted[n + 1]
<1>1. /\ SortInv /\ i > N /\ N > 0 /\ N \in Nat /\ UNCHANGED <<durations, N>>
      /\ results \in Seq(Nat) /\ Len(results) < Len(Percentiles)
      /\ results' = Append(results, x)
  BY Samples DEF LatInv, PickSample, N
<1>2. Percentiles \in Seq(0..100) /\ Len(Percentiles) \in Nat /\ Len(results) \in Nat
  BY <1>1, LatencyAssumption
<1>3. Percentiles[c] \in 0..100
  <2>1. c \in 1..Len(Percentiles)
    BY <1>1, <1>2
  <2> HIDE DEF c
  <2> QED BY <1>2, <2>1, ElementOfSeq
<1>4. n \in 0..(N - 1)
  <2>1. N \in Nat \ {0}
    BY <1>1
  <2> QED BY <1>3, <2>1, IndexBounds
<1>5. x \in Nat /\ Cardinality(Faster(x)) <= n /\ Cardinality(Slower(x)) <= N - 1 - n
  BY <1>1, <1>4, SortedRank
<1> HIDE DEF n, x
<1>6. /\ results' \in Seq(Nat) /\ Len(results') = c /\ results'[c] = x
      /\ \A d \in 1..Len(results) : results'[d] = results[d]
  BY <1>1, <1>5
<1>7. \A y : Faster(y)' = Faster(y) /\ Slower(y)' = Slower(y)
  BY <1>1 DEF Faster, Slower
<1>8. ASSUME NEW d \in 1..c
      PROVE  /\ Cardinality(Faster(results'[d])) <= Index(N, Percentiles[d])
             /\ Cardinality(Slower(results'[d])) <= N - 1 - Index(N, Percentiles[d])
  <2>1. CASE d = c
    BY <1>5, <1>6, <2>1 DEF n
  <2>2. CASE d # c
    <3>1. d \in 1..Len(results)
      BY <1>2, <2>2
    <3> QED BY <1>6, <3>1 DEF LatInv, Ranked
  <2> QED BY <2>1, <2>2
<1>9. Ranked'
  BY <1>1, <1>6, <1>7, <1>8 DEF Ranked, Faster, Slower
<1> QED BY <1>1, <1>2, <1>6, <1>9

-----------------------------------------------------------------------------
(* The invariant.                                                           *)

LEMMA InitLatInv == Init => LatInv
<1> SUFFICES ASSUME Init PROVE LatInv
  OBVIOUS
<1>1. durations \in Seq(Durations)
  <2>1. PICK n \in 0..MaxLatencies : durations \in [1..n -> Durations]
    BY DEF Init, Buffers
  <2>2. n \in Nat
    BY LatencyAssumption
  <2> QED BY <2>1, <2>2, SeqDef
<1>2. N \in Nat /\ \A k \in Places : durations[k] \in Nat
  <2>1. N \in Nat
    BY <1>1, LenProperties DEF N
  <2>2. \A k \in Places : durations[k] \in Durations
    BY <1>1, ElementOfSeq DEF N, Places
  <2> QED BY <2>1, <2>2, LatencyAssumption
<1>3. SumBounds
  <2>1. i = 0 /\ sum = 0
    BY DEF Init
  <2>2. \A x \in Nat : 0 * x = 0
    OBVIOUS
  <2>3. \A high \in Durations : high \in Nat
    BY LatencyAssumption
  <2> QED BY <2>1, <2>2, <2>3 DEF SumBounds
<1>4. i \in 0..N /\ results = <<>> /\ at = "avg"
  BY <1>2 DEF Init
<1>5. Ranked /\ results \in Seq(Nat) /\ Len(results) <= Len(Percentiles)
  <2>1. Len(results) = 0 /\ results \in Seq(Nat)
    BY <1>4, EmptySeq
  <2>2. Len(Percentiles) \in Nat
    BY LatencyAssumption, LenProperties
  <2> QED BY <2>1, <2>2 DEF Ranked
<1> QED BY <1>1, <1>3, <1>4, <1>5 DEF LatInv, AvgBetween

LEMMA RanksStand ==
    ASSUME UNCHANGED <<durations, results>>, Ranked
    PROVE  Ranked'
<1>1. \A x : Faster(x)' = Faster(x) /\ Slower(x)' = Slower(x)
  BY DEF Faster, Slower, N
<1> QED BY <1>1 DEF Ranked, N, Faster, Slower

LEMMA AvgStands ==
    ASSUME UNCHANGED <<durations, avg>>, at # "avg", AvgBetween
    PROVE  AvgBetween'
BY DEF AvgBetween, N

LEMMA NextKeepsLatInv == LatInv /\ [Next]_vars => LatInv'
<1> SUFFICES ASSUME LatInv, [Next]_vars PROVE LatInv'
  OBVIOUS
<1>1. durations' = durations /\ N' = N /\ Places' = Places
  BY DEF Next, AddSample, CalculateAvg, CopySamples, AllCalculated, Compare, NextI, PickSample,
         vars, N, Places
<1>2. CASE UNCHANGED vars
  <2>1. UNCHANGED <<at, sum, avg, results, sorted, i, j>>
    BY <1>2 DEF vars
  <2>2. at = "avg" => SumBounds'
    BY <1>1, <2>1 DEF LatInv, SumBounds
  <2>3. AvgBetween'
    BY <1>1, <2>1 DEF LatInv, AvgBetween
  <2>4. at = "compare" => SortInv'
    <3>1. at = "compare" => Reordered'
      <4>1. at = "compare" => Reordered
        BY DEF LatInv, SortInv
      <4>2. Reordered => Reordered'
        <5> SUFFICES ASSUME Reordered PROVE Reordered'
          OBVIOUS
        <5>1. PICK p, q \in [Places -> Places] :
                 \A a \in Places : q[p[a]] = a /\ p[q[a]] = a /\ sorted[a] = durations[p[a]]
          BY DEF Reordered
        <5>2. \E m, n \in [Places' -> Places'] :
                 \A a \in Places' : /\ n[m[a]] = a /\ m[n[a]] = a
                                    /\ sorted'[a] = durations'[m[a]]
          BY <1>1, <2>1, <5>1
        <5> QED BY <5>2 DEF Reordered
      <4> QED BY <4>1, <4>2
    <3>2. at = "compare" => SortInv /\ sorted' \in [Places' -> Nat]
      BY <1>1, <2>1 DEF LatInv, SortInv
    <3> QED BY <1>1, <2>1, <3>1, <3>2 DEF SortInv
  <2>5. Ranked'
    BY <1>1, <2>1, RanksStand DEF LatInv
  <2> QED BY <1>1, <2>1, <2>2, <2>3, <2>4, <2>5 DEF LatInv
<1>3. CASE AddSample
  <2>1. /\ at = "avg" /\ UNCHANGED <<at, avg, results>> /\ i < N /\ i' = i + 1
    BY <1>3 DEF AddSample
  <2>2. i' \in 0..N
    BY <2>1, Samples DEF LatInv
  <2>3. SumBounds'
    BY <1>3, AddSampleKeepsBounds
  <2>4. AvgBetween'
    BY <2>1 DEF AvgBetween
  <2>5. Ranked'
    BY <1>1, <2>1, RanksStand DEF LatInv
  <2> QED BY <1>1, <2>1, <2>2, <2>3, <2>4, <2>5 DEF LatInv
<1>4. CASE CalculateAvg
  <2>1. /\ at = "avg" /\ UNCHANGED results
        /\ at' = IF N = 0 THEN "done" ELSE "copy"
    BY <1>4 DEF CalculateAvg
  <2>2. AvgBetween'
    BY <1>4, AvgIsBetween
  <2>3. Ranked'
    BY <1>1, <2>1, RanksStand DEF LatInv
  <2>4. at' \in {"copy", "compare"} => N' > 0
    BY <1>1, <2>1, Samples
  <2>5. at' \in {"copy", "done"}
    BY <2>1
  <2> QED BY <1>1, <2>1, <2>2, <2>3, <2>4, <2>5 DEF LatInv
<1>5. CASE CopySamples
  <2>1. /\ at = "copy" /\ at' = "compare" /\ UNCHANGED <<avg, results>>
        /\ Len(results) < Len(Percentiles)
    BY <1>5 DEF CopySamples
  <2>2. SortInv'
    BY <1>5, CopyIsReordered
  <2>3. AvgBetween' /\ Ranked'
    BY <1>1, <2>1, AvgStands, RanksStand DEF LatInv
  <2> QED BY <1>1, <2>1, <2>2, <2>3 DEF LatInv
<1>6. CASE AllCalculated
  <2>1. at = "copy" /\ at' = "done" /\ UNCHANGED <<avg, results>>
    BY <1>6 DEF AllCalculated
  <2>2. AvgBetween' /\ Ranked'
    BY <1>1, <2>1, AvgStands, RanksStand DEF LatInv
  <2> QED BY <1>1, <2>1, <2>2 DEF LatInv
<1>7. CASE Compare \/ NextI
  <2>1. at = "compare" /\ at' = "compare" /\ UNCHANGED <<avg, results>>
    BY <1>7 DEF Compare, NextI
  <2>2. SortInv'
    BY <1>7, CompareSorts, NextISorts
  <2>3. AvgBetween' /\ Ranked'
    BY <1>1, <2>1, AvgStands, RanksStand DEF LatInv
  <2> QED BY <1>1, <2>1, <2>2, <2>3 DEF LatInv
<1>8. CASE PickSample
  <2>1. at = "compare" /\ at' = "copy" /\ UNCHANGED avg
    BY <1>8 DEF PickSample
  <2>2. AvgBetween'
    BY <1>1, <2>1, AvgStands DEF LatInv
  <2> QED BY <1>1, <1>8, <2>1, <2>2, PickSampleRanks DEF LatInv
<1> QED BY <1>2, <1>3, <1>4, <1>5, <1>6, <1>7, <1>8 DEF Next

LEMMA LatInvariance == Spec => []LatInv
BY InitLatInv, NextKeepsLatInv, PTL DEF Spec

\* calculatePercentile sorts its copy in place, and no sample is lost or made up:
\* at every step the copy is the buffer in another order.
THEOREM SamplesKept == Spec => []SameSamples
<1>1. LatInv => SameSamples
  <2> SUFFICES ASSUME LatInv, at = "compare"
               PROVE  \E p \in [1..N -> 1..N] :
                         /\ \A a, b \in 1..N : p[a] = p[b] => a = b
                         /\ \A a \in 1..N : sorted[a] = durations[p[a]]
    BY DEF SameSamples
  <2>1. PICK p, q \in [Places -> Places] :
           \A a \in Places : q[p[a]] = a /\ p[q[a]] = a /\ sorted[a] = durations[p[a]]
    BY DEF LatInv, SortInv, Reordered
  <2>2. \A a, b \in Places : p[a] = p[b] => a = b
    BY <2>1
  <2> QED BY <2>1, <2>2 DEF Places
<1> QED BY <1>1, LatInvariance, PTL

\* Each percentile has its rank among the samples as they were given, and a higher
\* percentile is never below a lower one, although each is found in a copy of its own.
THEOREM PercentilesRanked == Spec => []RankRight
<1>1. LatInv => RankRight
  <2> SUFFICES ASSUME LatInv, NEW c \in 1..Len(results)
               PROVE  /\ 100 * Cardinality(Faster(results[c])) <= Percentiles[c] * N
                      /\ 100 * Cardinality(Slower(results[c])) <= (100 - Percentiles[c]) * N
                      /\ \A d \in 1..c : results[d] <= results[c]
    BY DEF RankRight
  <2>1. /\ N \in Nat /\ results \in Seq(Nat) /\ Len(results) \in Nat
        /\ Len(results) <= Len(Percentiles) /\ Len(Percentiles) \in Nat
    BY Samples, LatencyAssumption DEF LatInv
  <2>2. \A d \in 1..c : /\ d \in 1..Len(results) /\ d \in 1..Len(Percentiles)
                        /\ c \in 1..Len(Percentiles)
    BY <2>1
  <2>3. \A d \in 1..c : results[d] \in Nat /\ Percentiles[d] \in 0..100
    BY <2>1, <2>2, ElementOfSeq, LatencyAssumption
  <2>4. c \in 1..c /\ Percentiles[c] \in Nat /\ 100 - Percentiles[c] \in Nat
    <3>1. c \in 1..c
      BY <2>1
    <3>2. Percentiles[c] \in 0..100
      BY <2>3, <3>1, Zenon
    <3>3. \A x \in 0..100 : x \in Nat /\ 100 - x \in Nat
      OBVIOUS
    <3> QED BY <3>1, <3>2, <3>3, Zenon
  <2> DEFINE I(d) == Index(N, Percentiles[d])
             F(d) == Cardinality(Faster(results[d]))
             S(d) == Cardinality(Slower(results[d]))
  <2>5. \A d \in 1..c : /\ F(d) <= I(d) /\ F(d) \in Nat
                        /\ S(d) <= N - 1 - I(d) /\ S(d) \in Nat
    BY <2>2, FasterSlowerFinite DEF LatInv, Ranked
  <2>6. N \in Nat \ {0}
    <3>1. CASE N = 0
      <4>1. I(c) = -1
        <5>1. N * Percentiles[c] = 0
          BY <2>1, <2>4, <3>1, Products
        <5> QED BY <3>1, <5>1 DEF Index
      <4> QED BY <2>4, <2>5, <4>1
    <3> QED BY <2>1, <3>1
  <2>7. \A d \in 1..c : /\ I(d) \in 0..(N - 1) /\ I(d) <= I(c)
                        /\ 100 * I(d) <= Percentiles[d] * N
                        /\ 100 * (N - 1 - I(d)) <= (100 - Percentiles[d]) * N
    <3> SUFFICES ASSUME NEW d \in 1..c
                 PROVE  /\ I(d) \in 0..(N - 1) /\ I(d) <= I(c)
                        /\ 100 * I(d) <= Percentiles[d] * N
                        /\ 100 * (N - 1 - I(d)) <= (100 - Percentiles[d]) * N
      OBVIOUS
    <3>1. Percentiles[d] <= Percentiles[c]
      BY <2>1, <2>2, LatencyAssumption
    <3> QED BY <2>3, <2>4, <2>6, <3>1, IndexBounds
  <2>8. 100 * F(c) <= Percentiles[c] * N
    <3> DEFINE x == F(c)
               y == I(c)
               z == Percentiles[c] * N
    <3>1. x <= y /\ x \in Nat /\ y \in 0..(N - 1) /\ 100 * y <= z
      BY <2>4, <2>5, <2>7
    <3>2. z \in Nat
      BY <2>1, <2>4, Products
    <3> HIDE DEF x, y, z
    <3>3. 100 * x <= z
      BY <2>6, <3>1, <3>2
    <3> QED BY <3>3 DEF x, z
  <2>9. 100 * S(c) <= (100 - Percentiles[c]) * N
    <3> DEFINE x == S(c)
               y == N - 1 - I(c)
               z == (100 - Percentiles[c]) * N
    <3>1. x <= y /\ x \in Nat
      BY <2>4, <2>5
    <3>2. 100 * y <= z
      BY <2>4, <2>7
    <3>3. y \in Nat
      <4>1. I(c) \in 0..(N - 1)
        BY <2>4, <2>7, Zenon
      <4> QED BY <2>6, <4>1
    <3>4. z \in Nat
      BY <2>1, <2>4, Products
    <3> HIDE DEF x, y, z
    <3>5. 100 * x <= z
      BY <3>1, <3>2, <3>3, <3>4
    <3> QED BY <3>5 DEF x, z
  <2>10. ASSUME NEW d \in 1..c, ~(results[d] <= results[c]) PROVE FALSE
    <3> DEFINE A == Faster(results[d])
               B == Slower(results[c])
    <3>1. results[c] < results[d] /\ results[c] \in Nat /\ results[d] \in Nat
      BY <2>3, <2>4, <2>10
    <3>2. Places \subseteq A \cup B
      <4> SUFFICES ASSUME NEW k \in Places, ~(durations[k] < results[d]), ~(durations[k] > results[c])
                   PROVE  FALSE
        BY DEF Faster, Slower, Places
      <4> QED BY <3>1, Samples
    <3>3. /\ IsFiniteSet(A) /\ IsFiniteSet(B) /\ Cardinality(Places) = N /\ IsFiniteSet(Places)
      BY FasterSlowerFinite
    <3> HIDE DEF A, B
    <3>4. N <= Cardinality(A \cup B) /\ Cardinality(A \cup B) <= Cardinality(A) + Cardinality(B)
      <4>1. IsFiniteSet(A \cup B)
            /\ Cardinality(A \cup B) = Cardinality(A) + Cardinality(B) - Cardinality(A \cap B)
        BY <3>3, FS_Union
      <4>2. /\ Cardinality(A \cap B) \in Nat /\ Cardinality(A) \in Nat /\ Cardinality(B) \in Nat
        BY <3>3, FS_Intersection, FS_CardinalityType
      <4>3. Places \in SUBSET (A \cup B)
        BY <3>2
      <4>4. N <= Cardinality(A \cup B)
        BY <3>3, <4>1, <4>3, FS_Subset
      <4> QED BY <4>1, <4>2, <4>4
    <3>5. Cardinality(A) <= I(d) /\ Cardinality(B) <= N - 1 - I(c) /\ I(d) <= I(c)
      BY <2>4, <2>5, <2>7 DEF A, B
    <3>6. /\ Cardinality(A) \in Nat /\ Cardinality(B) \in Nat /\ Cardinality(A \cup B) \in Nat
          /\ I(d) \in 0..(N - 1) /\ I(c) \in 0..(N - 1)
      BY <2>4, <2>7, <3>3, FS_Union, FS_CardinalityType
    <3> HIDE DEF I
    <3> QED BY <2>6, <3>4, <3>5, <3>6
  <2> HIDE DEF F, S
  <2> QED BY <2>8, <2>9, <2>10 DEF F, S
<1> QED BY <1>1, LatInvariance, PTL

\* calculateAvg stays between the fastest and the slowest sample as long as the sum
\* fits time.Duration, and does not wrap on the way.
THEOREM AverageBetween == Spec => []AvgBetween
<1>1. LatInv => AvgBetween
  BY DEF LatInv
<1> QED BY <1>1, LatInvariance, PTL
=============================================================================
