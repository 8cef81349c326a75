---------------------------- MODULE MCLatencyStats ----------------------------
(* Instances of LatencyStats for TLC.                                        *)
EXTENDS LatencyStats

\* Percentiles whose index falls on and between the places of short buffers.
AskedPercentiles == <<50, 75, 100>>
=============================================================================
