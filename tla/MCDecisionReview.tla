-------------------------- MODULE MCDecisionReview --------------------------
(***************************************************************************)
(* Instances of DecisionReview.                                            *)
(***************************************************************************)
EXTENDS DecisionReview, TLC

Symmetry == Permutations(Threads) \cup Permutations(Actors) \cup Permutations(Keys)
=============================================================================
