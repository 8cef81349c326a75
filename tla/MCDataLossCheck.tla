--------------------------- MODULE MCDataLossCheck ---------------------------
(* Instances of DataLossCheck for TLC.                                       *)
EXTENDS DataLossCheck, TLC

CONSTANTS w1, w2, main
=============================================================================
