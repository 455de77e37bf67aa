-------------------------- MODULE MCRegistryStore ---------------------------
(***************************************************************************)
(* Instances of RegistryStore.                                             *)
(***************************************************************************)
EXTENDS RegistryStore, TLC

Symmetry ==
    Permutations(Authors) \cup Permutations(Writers) \cup Permutations(Observations)
=============================================================================
