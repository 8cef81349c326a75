------------------------------- MODULE MCConfig -------------------------------
(* Instances of Config for TLC, with 20-bit ints, 8-bit int32 and seconds of   *)
(* 100 units, so that every sum and product wraps for some of the values.     *)
EXTENDS Config

CONSTANTS unset, malformed

Empty == [n \in Read |-> unset]

\* 400000 + 400000 + 248676 is 100 with 20 bits; 5242 seconds and 30 more do not
\* fit, and 10487 seconds become 124 units.
EdgePercent == {unset, -10, 110, 400000, 248676}
Edges == {[Empty EXCEPT !["DB_MAX_OPEN_CONNS"] = o, !["DB_MIN_FREE_CONNS"] = f,
                        !["TEST_RUN_DURATION"] = d, !["BATCH_SIZE"] = b,
                        !["REPORT_INTERVAL"] = t, !["READ_PERCENT"] = r,
                        !["INSERT_PERCENT"] = i, !["UPDATE_PERCENT"] = u] :
            o \in {unset, malformed, -1}, f \in {0, 100, 300},
            d \in {unset, 5242, 10487}, b \in {0, 7281, 7282},
            t \in {unset, 0, 5242},
            r \in EdgePercent, i \in EdgePercent, u \in EdgePercent}
=============================================================================
