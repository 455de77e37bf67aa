-------------------------- MODULE DecisionLedger ---------------------------
(***************************************************************************)
(* What the decision review promises its reviewers: a proposal collects    *)
(* reviews one after the other, each of them once, until an outcome ends   *)
(* it.  One atomic step per review: no requests, retries or revisions.     *)
(* WorkflowCycle takes a review to be a step of this kind.                 *)
(***************************************************************************)
CONSTANTS Reviews,  \* records with kind, key and choice, among other fields
          Final     \* states in which a proposal is not reviewed again

VARIABLES state,    \* state of the proposal
          reviews   \* reviews it has collected

CONSTANT After(_)   \* the state an outcome leaves a proposal in

Init == state = "awaiting_review" /\ reviews = {}

\* A resolution moves the proposal, due diligence does not.
Record(q) ==
    /\ state \notin Final
    /\ \A p \in reviews : <<p.kind, p.key>> # <<q.kind, q.key>>
    /\ reviews' = reviews \cup {q}
    /\ state' = IF q.kind = "resolution" THEN After(q.choice) ELSE state

Next == \E q \in Reviews : Record(q)

Spec == Init /\ [][Next]_<<state, reviews>>
=============================================================================
