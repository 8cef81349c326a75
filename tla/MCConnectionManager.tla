------------------------- MODULE MCConnectionManager -------------------------
(* Instances of ConnectionManager for TLC.                                   *)
EXTENDS ConnectionManager

CONSTANTS w1, w2, main, monitor, checker
=============================================================================
