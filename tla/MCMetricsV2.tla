----------------------------- MODULE MCMetricsV2 -----------------------------
(* Instances of MetricsV2 for TLC.                                          *)
EXTENDS MetricsV2

CONSTANTS w1, w2, reporter, main

\* Two workers and one report, one worker and two reports, or the monitor alone.
Mixed == {[ops |-> 2, reports |-> 1, updates |-> 0],
          [ops |-> 1, reports |-> 2, updates |-> 0],
          [ops |-> 0, reports |-> 1, updates |-> 2]}
OneReport == {[ops |-> 1, reports |-> 1, updates |-> 0]}
=============================================================================
