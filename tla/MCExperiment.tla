---------------------------- MODULE MCExperiment ----------------------------
(***************************************************************************)
(* A finite instance of Experiment.                                        *)
(***************************************************************************)
EXTENDS Experiment

CONSTANTS ka, kb, s1, s2

MCDrivers == {"tcp", "two-sided", "one-sided"}
=============================================================================
