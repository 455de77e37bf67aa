--------------------------- MODULE DecisionReview ---------------------------
(***************************************************************************)
(* The reviews of one decision proposal: resolve and run_due_diligence of  *)
(* packages/risk_decisions over a LocalDecisionStore.                      *)
(*                                                                         *)
(* A request carries an idempotency key and the record revision its        *)
(* reviewer saw.  The service reads the record, checks it and computes its *)
(* successor under no lock; only the replacement takes the store's lock    *)
(* and compares revisions again.  Requests of several reviewers, and       *)
(* retries of requests whose answer was lost, overlap in any order.        *)
(*                                                                         *)
(* A revision is the digest of the record, so the record stands for it.    *)
(* An entry of the record stands for what one request appended: its        *)
(* receipts, and the resolution and consequence, or the evidence, run and  *)
(* proposal revision, written with them.  A request that is refused        *)
(* changes nothing and is left out.                                        *)
(***************************************************************************)
EXTENDS Naturals, Sequences

CONSTANTS
    Threads,    \* of the server processes that serve requests
    Actors,     \* reviewers
    Keys,       \* idempotency keys
    Choices,    \* bound: the outcomes requests name
    MaxReviews  \* bound on the reviews of the proposal

Outcomes == {"investigate", "accept_and_monitor", "defer", "reject", "escalate"}

ASSUME ReviewAssumption ==
    /\ Choices \subseteq Outcomes
    /\ MaxReviews \in Nat

VARIABLES
    record,     \* what the stored record holds since its admission
    call,       \* call[t]: the request thread t serves
    told        \* requests whose reviewers got an answer

vars == <<record, call, told>>

-----------------------------------------------------------------------------
States == {"awaiting_review", "deferred", "escalated", "resolved", "rejected"}
FINAL_STATES == {"resolved", "rejected"}

\* A resolution chooses an outcome; a due diligence run a candidate.
Requests == [kind : {"resolution", "run"}, actor : Actors, key : Keys, choice : Choices]
Entries == [request : Requests, to : States]

\* Mutant: an investigation leaves out the receipt that returns to review.
AfterFirstReceipt(outcome) ==
    CASE outcome = "investigate" -> "under_investigation"
      [] outcome = "accept_and_monitor" -> "resolved"
      [] outcome = "defer" -> "deferred"
      [] outcome = "reject" -> "rejected"
      [] outcome = "escalate" -> "escalated"

\* The state each outcome leaves.  An investigation appends two receipts: its
\* effect-free follow-up returns the proposal to review.
After(outcome) ==
    CASE outcome = "investigate" -> "awaiting_review"
      [] outcome = "accept_and_monitor" -> "resolved"
      [] outcome = "defer" -> "deferred"
      [] outcome = "reject" -> "rejected"
      [] outcome = "escalate" -> "escalated"

State(r) == IF r = <<>> THEN "awaiting_review" ELSE r[Len(r)].to

\* The record with the review of q appended; due diligence loops.
Extended(r, q) ==
    Append(r, [request |-> q,
               to |-> IF q.kind = "resolution" THEN After(q.choice) ELSE State(r)])

\* Mutant: only the latest review is compared with a retry.
HoldsLatest(r, q) ==
    r # <<>> /\ r[Len(r)].request.kind = q.kind /\ r[Len(r)].request.key = q.key

\* A request of the kind of q used its key: it is a retry, or the key's misuse.
Holds(r, q) ==
    \E n \in 1..Len(r) : r[n].request.kind = q.kind /\ r[n].request.key = q.key

Idle == [step |-> "idle"]
Calls == [step : {"replace"}, request : Requests, base : Seq(Entries)]
         \cup [step : {"answer"}, request : Requests]

-----------------------------------------------------------------------------
\* admit_proposal and create: the proposal awaits its review.
Init ==
    /\ record = <<>>
    /\ call = [t \in Threads |-> Idle]
    /\ told = {}

\* The retry of a review in the record, by the same actor with the same choice:
\* it is answered with the record as it is, whatever revision it names.
Retry(t, q) ==
    /\ call[t] = Idle
    /\ \E n \in 1..Len(record) : record[n].request = q
    /\ call' = [call EXCEPT ![t] = [step |-> "answer", request |-> q]]
    /\ UNCHANGED <<record, told>>

\* Mutant: the state of the proposal is not checked.
CheckKeyOnly(t, q) ==
    /\ call[t] = Idle
    /\ Len(record) < MaxReviews
    /\ ~Holds(record, q)
    /\ call' = [call EXCEPT ![t] = [step |-> "replace", request |-> q, base |-> record]]
    /\ UNCHANGED <<record, told>>

\* A new review, of the record read now: it names the current revision.
Check(t, q) ==
    /\ call[t] = Idle
    /\ Len(record) < MaxReviews
    /\ ~Holds(record, q)
    /\ State(record) \notin FINAL_STATES
    /\ call' = [call EXCEPT ![t] = [step |-> "replace", request |-> q, base |-> record]]
    /\ UNCHANGED <<record, told>>

\* Mutant: the successor is written without comparing revisions.
ReplaceAny(t) ==
    /\ call[t].step = "replace"
    /\ record' = Extended(call[t].base, call[t].request)
    /\ call' = [call EXCEPT ![t] = [step |-> "answer", request |-> call[t].request]]
    /\ UNCHANGED told

\* store.replace, under the lock, of the record that was read and checked.
Replace(t) ==
    /\ call[t].step = "replace"
    /\ call[t].base = record
    /\ record' = Extended(call[t].base, call[t].request)
    /\ call' = [call EXCEPT ![t] = [step |-> "answer", request |-> call[t].request]]
    /\ UNCHANGED told

\* Somebody else replaced the record first: DecisionConflict.
Conflict(t) ==
    /\ call[t].step = "replace"
    /\ call[t].base # record
    /\ call' = [call EXCEPT ![t] = Idle]
    /\ UNCHANGED <<record, told>>

Answer(t) ==
    /\ call[t].step = "answer"
    /\ told' = told \cup {call[t].request}
    /\ call' = [call EXCEPT ![t] = Idle]
    /\ UNCHANGED record

\* The process dies, a write fails, or the answer is lost on its way.
Crash(t) ==
    /\ call[t] # Idle
    /\ call' = [call EXCEPT ![t] = Idle]
    /\ UNCHANGED <<record, told>>

Next ==
    \E t \in Threads :
        \/ \E q \in Requests : Retry(t, q) \/ Check(t, q)
        \/ Replace(t)
        \/ Conflict(t)
        \/ Answer(t)
        \/ Crash(t)

Spec == Init /\ [][Next]_vars

-----------------------------------------------------------------------------
TypeOK ==
    /\ record \in Seq(Entries)
    /\ call \in [Threads -> Calls \cup {Idle}]
    /\ told \subseteq Requests

\* The requests the record holds.
Recorded == {record[n].request : n \in 1..Len(record)}

\* "Stale or duplicate review requests fail closed or return the prior result":
\* however requests and their retries overlap, a key acts once for each kind of
\* request, and nothing is recorded behind a final outcome, not even the due
\* diligence that was computed before it.
ReviewedOnce ==
    \A m, n \in 1..Len(record) : m < n =>
        /\ record[m].to \notin FINAL_STATES
        /\ <<record[m].request.kind, record[m].request.key>>
              # <<record[n].request.kind, record[n].request.key>>

\* What a reviewer was told stays true: no later review, computed from an older
\* record, replaces a record that holds it.
AnswersStayTrue == told \subseteq Recorded

-----------------------------------------------------------------------------
\* The read, the check and the compare-and-swap of a request are one atomic
\* review of the ledger, or none.
Ledger == INSTANCE DecisionLedger WITH
    Reviews <- Requests, Final <- FINAL_STATES, After <- After,
    state <- State(record), reviews <- Recorded

ImplementsLedger == Ledger!Spec
=============================================================================
