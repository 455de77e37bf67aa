--------------------------- MODULE MCStudioCodex ---------------------------
(***************************************************************************)
(* Instances of StudioCodex for TLC: two sessions, each of a proposal of   *)
(* its own.                                                                *)
(***************************************************************************)
EXTENDS StudioCodex

CONSTANTS s1, s2

OwnProposals == [s \in Sessions |-> s]

\* Every disturbance but the recovery of sessions that need none.
AllButReload == FaultKinds \ {"reload"}
=============================================================================
