-------------------------------- MODULE MCRerun --------------------------------
(* Instances of Rerun for TLC.                                               *)
EXTENDS Rerun, TLC

CONSTANTS w1, main
=============================================================================
