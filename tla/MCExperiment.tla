---------------------------- MODULE MCExperiment ----------------------------
(* The experiment for TLC: two trials, each with its own candidate memory, *)
(* and two generations.                                                    *)
EXTENDS BootstrapExperiment, TLC

CONSTANTS t1, t2, m1, m2

MCCandidates == t1 :> {m1} @@ t2 :> {m2}
=============================================================================
