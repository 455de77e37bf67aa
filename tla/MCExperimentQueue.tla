------------------------- MODULE MCExperimentQueue -------------------------
(***************************************************************************)
(* Instances of ExperimentQueue for TLC.                                   *)
(***************************************************************************)
EXTENDS ExperimentQueue, TLC

Interchangeable == Permutations(Experiments) \cup Permutations(Keys)
=============================================================================
