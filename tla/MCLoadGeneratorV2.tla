-------------------------- MODULE MCLoadGeneratorV2 --------------------------
(* Instances of LoadGeneratorV2 for TLC.                                    *)
EXTENDS LoadGeneratorV2, TLC

CONSTANTS w1, w2, main

\* Workers run the same code on their own sessions.
WorkerSymmetry == Permutations({w1, w2})
=============================================================================
