------------------------ MODULE MCArtifactRepository ------------------------
(***************************************************************************)
(* Instances of ArtifactRepository: two artifacts that share a digest or   *)
(* not, the second naming the first as its parent.                         *)
(***************************************************************************)
EXTENDS ArtifactRepository, TLC

CONSTANTS a1, a2, d1, d2

SharedFiles == (a1 :> {d1}) @@ (a2 :> {d1, d2})
DisjointFiles == (a1 :> {d1}) @@ (a2 :> {d2})
ChildNamesParent == (a1 :> {}) @@ (a2 :> {a1})

Symmetry == Permutations(Actors) \cup Permutations(Clients)
=============================================================================
