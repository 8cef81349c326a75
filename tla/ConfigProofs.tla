----------------------------- MODULE ConfigProofs -----------------------------
(***************************************************************************)
(* Proofs about Config, for every width of int.  Once a configuration is       *)
(* accepted, main only carries it on: the invariant is that what Validate saw  *)
(* still holds, and that arithmetic on it did not wrap.                        *)
(***************************************************************************)
EXTENDS Config, TLAPS

\* Wrap leaves a number alone that fits, and always returns one that does.
LEMMA WrapFits ==
    ASSUME NEW bits \in Nat, NEW x \in Int,
           2^(bits - 1) \in Nat, 2^bits = 2 * 2^(bits - 1), 2^(bits - 1) > 0
    PROVE  /\ Wrap(x, bits) \in Int
           /\ Fits(Wrap(x, bits), bits)
           /\ Fits(x, bits) => Wrap(x, bits) = x
<1> DEFINE h == 2^(bits - 1)
<1> DEFINE y == x + h
<1>1. h \in Nat /\ h > 0 /\ y \in Int
  OBVIOUS
<1> HIDE DEF h, y
<1>2. /\ y % (2 * h) \in 0..(2 * h - 1)
      /\ y \in 0..(2 * h - 1) => y % (2 * h) = y
  BY <1>1, SMT
<1> QED
  BY <1>1, <1>2 DEF h, y, Wrap, Fits

\* A sum of two positive numbers that does not fit comes out negative.
LEMMA WrapOverflow ==
    ASSUME NEW bits \in Nat, NEW x \in Int,
           2^(bits - 1) \in Nat, 2^bits = 2 * 2^(bits - 1),
           2^(bits - 1) <= x, x < 2 * 2^(bits - 1)
    PROVE  Wrap(x, bits) < 0
<1> DEFINE h == 2^(bits - 1)
<1> DEFINE y == x - h
<1>1. h \in Nat /\ y \in Int /\ 0 <= y /\ y < h /\ x + h = y + 2 * h
  OBVIOUS
<1> HIDE DEF h, y
<1>2. (y + 2 * h) % (2 * h) = y
  BY <1>1, SMT
<1> QED
  BY <1>1, <1>2 DEF h, Wrap

\* The constants the wrapping arithmetic needs.
LEMMA Widths ==
    /\ \A b \in {IntBits, Int32Bits} : /\ b \in Nat /\ 2^(b - 1) \in Nat
                                       /\ 2^(b - 1) > 0
                                       /\ 2^b = 2 * 2^(b - 1)
    /\ 2^(IntBits - 1) > 300
    /\ Second \in Nat /\ Second > 0 /\ 30 * Second < 2^(IntBits - 1)
  BY ConfigAssumption

LEMMA ReadNames ==
    /\ \A n \in Read : Defaults[n] \in 0..300
    /\ {"TEST_RUN_DURATION"} \cup Percentages \subseteq Read
  BY DEF Read, Defaults, Percentages

-----------------------------------------------------------------------------
(* What an accepted configuration keeps.                                    *)

Running == phase \in {"running", "ended", "panicked"}

ConfigInv ==
    /\ TypeOK
    /\ Accepted => Valid(cfg)
    /\ Running \/ phase = "initializing" =>
          deadline = Wrap(cfg["TEST_RUN_DURATION"] + 30 * Second, IntBits)
    /\ Running => deadline > 0

\* What LoadFromEnv reads fits an int, as do the durations it makes of it.
LEMMA LoadedFits ==
    ASSUME TypeOK
    PROVE  DOMAIN Loaded = Read
           /\ \A n \in Read : Loaded[n] \in Int /\ Fits(Loaded[n], IntBits)
<1>1. \A n \in Read : GetEnvAsInt(n) \in Int /\ Fits(GetEnvAsInt(n), IntBits)
  BY ReadNames, Widths DEF GetEnvAsInt, Fits
<1>2. \A n \in Read : GetEnvAsInt(n) * Second \in Int
  BY <1>1, Widths
<1>3. \A n \in Read : /\ Wrap(GetEnvAsInt(n) * Second, IntBits) \in Int
                      /\ Fits(Wrap(GetEnvAsInt(n) * Second, IntBits), IntBits)
  BY <1>2, WrapFits, Widths
<1> QED
  BY <1>1, <1>3 DEF Loaded

LEMMA ConfigInit == Init => ConfigInv
<1> SUFFICES ASSUME Init PROVE ConfigInv
  OBVIOUS
<1>1. TypeOK
  BY ConfigAssumption, Widths DEF Init, TypeOK, Fits
<1> QED
  BY <1>1 DEF Init, ConfigInv, Accepted, Running

LEMMA ConfigStep == ConfigInv /\ [Next]_vars => ConfigInv'
<1> SUFFICES ASSUME ConfigInv, [Next]_vars PROVE ConfigInv'
  OBVIOUS
<1> USE DEF ConfigInv
<1>1. CASE LoadFromEnv
  <2>1. TypeOK'
    BY <1>1, LoadedFits DEF LoadFromEnv, TypeOK
  <2> QED
    BY <1>1, <2>1 DEF LoadFromEnv, Accepted, Running, Valid, TotalPercent
<1>2. CASE Connect
  <2>1. cfg["TEST_RUN_DURATION"] \in Int
    BY ReadNames DEF TypeOK
  <2>2. deadline' \in Int /\ Fits(deadline', IntBits)
    BY <1>2, <2>1, WrapFits, Widths DEF Connect
  <2>3. TypeOK'
    BY <1>2, <2>2, ReadNames, ConfigAssumption DEF Connect, TypeOK, Read, Defaults
  <2> QED
    BY <1>2, <2>3 DEF Connect, Accepted, Running, Valid, TotalPercent
<1>3. CASE Initialize
  <2>1. TypeOK'
    BY <1>3 DEF Initialize, TypeOK
  <2> QED
    BY <1>3, <2>1 DEF Initialize, Accepted, Running, Valid, TotalPercent
<1>4. CASE StartReporter \/ BatchInsert \/ TestEnds
  <2>1. TypeOK'
    BY <1>4 DEF StartReporter, BatchInsert, TestEnds, TypeOK
  <2> QED
    BY <1>4, <2>1 DEF StartReporter, BatchInsert, TestEnds, Accepted, Running, Valid,
                       TotalPercent
<1>5. CASE UNCHANGED vars
  <2>1. TypeOK'
    BY <1>5 DEF vars, TypeOK
  <2> QED
    BY <1>5, <2>1 DEF vars, Accepted, Running, Valid, TotalPercent
<1> QED
  BY <1>1, <1>2, <1>3, <1>4, <1>5 DEF Next

LEMMA ConfigInvariant == Spec => []ConfigInv
  BY ConfigInit, ConfigStep, PTL DEF Spec

-----------------------------------------------------------------------------
\* Whatever the width of int, an accepted configuration's percentages add up to
\* 100 as numbers: bounded by 0 and 100 their sum cannot have wrapped.
THEOREM PercentagesSound == Spec => []PercentagesAddUp
<1>1. ConfigInv => PercentagesAddUp
  <2> SUFFICES ASSUME ConfigInv, Accepted
               PROVE  /\ cfg["READ_PERCENT"] + cfg["INSERT_PERCENT"]
                           + cfg["UPDATE_PERCENT"] = 100
                      /\ \A n \in Percentages : 0 <= cfg[n]
    BY DEF PercentagesAddUp
  <2> DEFINE sum == cfg["READ_PERCENT"] + cfg["INSERT_PERCENT"] + cfg["UPDATE_PERCENT"]
  <2>1. /\ Wrap(sum, IntBits) = 100
        /\ \A n \in Percentages : cfg[n] \in 0..100
    BY DEF ConfigInv, Valid, TotalPercent
  <2>2. /\ cfg["READ_PERCENT"] \in 0..100
        /\ cfg["INSERT_PERCENT"] \in 0..100
        /\ cfg["UPDATE_PERCENT"] \in 0..100
    BY <2>1 DEF Percentages
  <2>3. sum \in Int /\ 0 <= sum /\ sum <= 300
    <3>1. \A a, b, c \in 0..100 : a + b + c \in Int /\ 0 <= a + b + c /\ a + b + c <= 300
      OBVIOUS
    <3> QED
      BY <2>2, <3>1
  <2> HIDE DEF sum
  <2>4. Fits(sum, IntBits)
    BY <2>3, Widths DEF Fits
  <2>5. Wrap(sum, IntBits) = sum
    BY <2>3, <2>4, WrapFits, Widths
  <2> QED
    BY <2>1, <2>5 DEF sum
<1> QED
  BY <1>1, ConfigInvariant, PTL

\* Whatever the width of int, no test runs under a deadline that came out of an
\* overflow.
THEOREM ContextOutlives == Spec => []ContextOutlivesTimer
<1>1. ConfigInv => ContextOutlivesTimer
  <2> SUFFICES ASSUME ConfigInv, Running
               PROVE  deadline = cfg["TEST_RUN_DURATION"] + 30 * Second
    BY DEF ContextOutlivesTimer, Running
  <2> DEFINE d == cfg["TEST_RUN_DURATION"]
  <2> DEFINE sum == d + 30 * Second
  <2>1. Accepted
    BY DEF Running, Accepted
  <2>2. d \in Int /\ Fits(d, IntBits) /\ d >= Second
    BY <2>1, ReadNames DEF ConfigInv, TypeOK, Valid
  <2>3. sum \in Int /\ 0 <= sum /\ sum < 2 * 2^(IntBits - 1)
    BY <2>2, Widths DEF Fits
  <2>4. Wrap(sum, IntBits) = deadline /\ deadline > 0
    BY DEF ConfigInv
  <2>5. sum < 2^(IntBits - 1)
    <3> SUFFICES ASSUME ~(sum < 2^(IntBits - 1)) PROVE FALSE
      OBVIOUS
    <3>1. 2^(IntBits - 1) <= sum
      BY <2>3, Widths
    <3>2. Wrap(sum, IntBits) < 0
      BY <2>3, <3>1, WrapOverflow, Widths
    <3> QED
      BY <2>4, <3>2, <2>3, WrapFits, Widths
  <2>6. Fits(sum, IntBits)
    BY <2>3, <2>5, Widths DEF Fits
  <2> QED
    BY <2>3, <2>4, <2>6, WrapFits, Widths
<1> QED
  BY <1>1, ConfigInvariant, PTL
=============================================================================
