--------------------------- MODULE MCLoadGenerator ---------------------------
(* Instances of LoadGenerator for TLC.                                       *)
EXTENDS LoadGenerator, TLC

CONSTANTS w1, w2, main

\* Workers run the same code on their own sessions.
WorkerSymmetry == Permutations({w1, w2})
=============================================================================
