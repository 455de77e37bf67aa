--------------------------- MODULE MCGoldReference ---------------------------
(***************************************************************************)
(* Instances of GoldReference.                                             *)
(***************************************************************************)
EXTENDS GoldReference, TLC

Symmetry == Permutations(Clients) \cup Permutations(Contents)
=============================================================================
