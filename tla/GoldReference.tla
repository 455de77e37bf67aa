---------------------------- MODULE GoldReference ----------------------------
(***************************************************************************)
(* How one selected move of a label batch becomes an ExperimentalCase:     *)
(* LocalLabellingStore, the two stores of context_work.py and              *)
(* LocalGoldCaseStore of packages/risk_experiments, and the requests of    *)
(* the labs that read and write them (gold_case_runtime.py,                *)
(* case_labelling_runtime.py, matched_run_runtime.py).                     *)
(*                                                                         *)
(*    label --+                                                            *)
(*            +--> Gold reference --> ExperimentalCase --> matched-run plan*)
(*  context --+                                                            *)
(*                                                                         *)
(* Every store has a lock of its own, held for one read or one write, and  *)
(* no request holds two.  A request that writes to one store only, after   *)
(* comparing digests under its lock, is one action.  The others read store *)
(* after store while reviewers go on: they are one action per read, except *)
(* that reads of different stores are joined where no write to the first   *)
(* can cause a write to the second.                                        *)
(*                                                                         *)
(* A reference is named by the order of prepared_at, in which the store    *)
(* lists references.  The identity of a case is made of its reference and  *)
(* of the day it was compiled on; what else it says is its content.        *)
(***************************************************************************)
EXTENDS Naturals, Sequences, FiniteSets

CONSTANTS
    Experiments,    \* planned experiments a reference is prepared for
    Contents,       \* what two compilations of a case may differ in
    Clients,        \* requests served at the same time
    NULL,
    MaxLabels,      \* bound on the annotations of the move
    MaxPlans,       \* bound on the revisions of its context plan
    MaxEvidenceReviews, \* bound on the reviews of an execution
    MaxReviews,     \* bound on the reviews of all references
    MaxReferences,  \* bound on the references
    MaxDay          \* bound on the calendar

VARIABLES
    label,      \* label[n]: where the n-th annotation stands
    context,    \* context[p]: the execution of the p-th plan revision
    gold,       \* gold[r]: the record of reference r, or NULL
    prepared,   \* references whose prepared_at was taken
    cases,      \* the case files
    matrices,   \* the cases of the matched-run plans
    today,
    call        \* call[c]: the request client c waits for

sources == <<label, context>>
store == <<gold, prepared, cases>>
vars == <<sources, store, matrices, today, call>>

-----------------------------------------------------------------------------
\* changes_requested and excluded annotations are both declined.
LabelStates == {"awaiting_independent_review", "ready", "declined"}

\* An execution is made once for a plan revision and then reviewed.
Execution == [done : BOOLEAN, reviews : Seq({"accept_context", "decline"})]

GoldReviewOutcome == {"accept", "request_changes", "exclude"}
References == 1..MaxReferences
Case == [ref : References, day : 0..MaxDay, content : Contents]

\* A bundle binds an annotation, an execution and its review; 0 supersedes nothing.
Bundle == [experiment : Experiments, label : Nat \ {0}, plan : Nat \ {0},
           review : Nat \ {0}, supersedes : Nat]
Record == [bundle : Bundle, reviews : Seq(GoldReviewOutcome), case : Case \cup {NULL}]

Idle == [step |-> "idle"]
Calls == {Idle}
         \cup [step : {"label"}, experiment : Experiments]
         \cup [step : {"reference"}, experiment : Experiments, label : Nat \ {0}]
         \cup [step : {"create"}, ref : References, bundle : Bundle]
         \cup [step : {"bind", "record", "matrix"}, case : Case]

ASSUME GoldAssumption ==
    /\ MaxDay \in Nat
    /\ MaxReferences \in Nat
    /\ NULL \notin Record \cup Case

Last(s) == s[Len(s)]

\* readiness: the latest annotation has an accepting review.
LabelReady == label # <<>> /\ Last(label) = "ready"

\* The execution of the latest plan was accepted by its latest review.
ContextAccepted ==
    /\ context # <<>>
    /\ Last(context).done
    /\ Last(context).reviews # <<>>
    /\ Last(Last(context).reviews) = "accept_context"

\* GoldCaseRecord.state.
State(r) ==
    CASE gold[r].case # NULL -> "experimental_case_compiled"
      [] gold[r].case = NULL /\ gold[r].reviews = <<>> -> "awaiting_independent_review"
      [] OTHER -> Last(gold[r].reviews)

\* Its latest review accepts it.
Accepted(r) == gold[r].reviews # <<>> /\ Last(gold[r].reviews) = "accept"

Known == {r \in References : gold[r] # NULL}
GoldReviews == UNION {{r} \X DOMAIN gold[r].reviews : r \in Known}

\* A binding holds the lock of the store from its checks to its end.
LockFree == \A c \in Clients : call[c].step # "record"

\* _record_for_unit: the reference prepared last, for whichever experiment.
IsLatest(r) == r \in Known /\ \A q \in Known : q <= r

Init ==
    /\ label = <<>>
    /\ context = <<>>
    /\ gold = [r \in References |-> NULL]
    /\ prepared = 0
    /\ cases = {}
    /\ matrices = {}
    /\ today = 0
    /\ call = [c \in Clients |-> Idle]

-----------------------------------------------------------------------------
(* The label and its evidence.                                              *)

\* A new annotation supersedes the latest, whatever its review said.
Annotate ==
    /\ Len(label) < MaxLabels
    /\ label' = Append(label, "awaiting_independent_review")
    /\ UNCHANGED <<context, store, matrices, today, call>>

\* Only the latest annotation is reviewed, and only once.
ReviewLabel(outcome) ==
    /\ label # <<>>
    /\ Last(label) = "awaiting_independent_review"
    /\ label' = [label EXCEPT ![Len(label)] = outcome]
    /\ UNCHANGED <<context, store, matrices, today, call>>

SavePlan ==
    /\ Len(context) < MaxPlans
    /\ context' = Append(context, [done |-> FALSE, reviews |-> <<>>])
    /\ UNCHANGED <<label, store, matrices, today, call>>

\* The query may be slow: the plan may be revised before its result is saved.
PrepareContext(p) ==
    /\ ~context[p].done
    /\ context' = [context EXCEPT ![p].done = TRUE]
    /\ UNCHANGED <<label, store, matrices, today, call>>

\* Reviews of an execution go on after an acceptance.
ReviewContext(p, outcome) ==
    /\ context[p].done
    /\ Len(context[p].reviews) < MaxEvidenceReviews
    /\ context' = [context EXCEPT ![p].reviews = Append(@, outcome)]
    /\ UNCHANGED <<label, store, matrices, today, call>>

-----------------------------------------------------------------------------
(* prepare_gold_reference.                                                  *)

\* The gate reads the label, then the context.
StartPrepare(c, e) ==
    /\ call[c] = Idle
    /\ LabelReady
    /\ ContextAccepted
    /\ call' = [call EXCEPT ![c] = [step |-> "label", experiment |-> e]]
    /\ UNCHANGED <<sources, store, matrices, today>>

\* Mutant: the bundle trusts the gate.
ReadGatedLabel(c) ==
    /\ call[c].step = "label"
    /\ call' = [call EXCEPT ![c] = [step |-> "reference", experiment |-> call[c].experiment,
                                    label |-> Len(label)]]
    /\ UNCHANGED <<sources, store, matrices, today>>

\* The batch the bundle is made of is read again, and must be ready again.
ReadLabel(c) ==
    /\ call[c].step = "label"
    /\ LabelReady
    /\ call' = [call EXCEPT ![c] = [step |-> "reference", experiment |-> call[c].experiment,
                                    label |-> Len(label)]]
    /\ UNCHANGED <<sources, store, matrices, today>>

\* The reference of the move that stands in the way of a new one.
Answered(e) == \E r \in Known :
    IsLatest(r) /\ gold[r].bundle.experiment = e /\ State(r) # "request_changes"

Superseded ==
    IF \E r \in Known : IsLatest(r) /\ State(r) = "request_changes"
    THEN CHOOSE r \in Known : IsLatest(r)
    ELSE 0

\* Mutant: the bundle names the reviews before the one that accepted.
BundleOfEarlierReview(e, n) ==
    [experiment |-> e, label |-> n, plan |-> Len(context),
     review |-> Len(Last(context).reviews) - 1, supersedes |-> Superseded]

BundleOf(e, n) ==
    [experiment |-> e, label |-> n, plan |-> Len(context),
     review |-> Len(Last(context).reviews), supersedes |-> Superseded]

\* The references are read, then the context; then prepared_at is taken.  With
\* a reference in the way the request is answered with it, or refused.
ReadReference(c) ==
    /\ call[c].step = "reference"
    /\ LockFree
    /\ ~Answered(call[c].experiment)
    /\ ContextAccepted
    /\ prepared < MaxReferences
    /\ prepared' = prepared + 1
    /\ call' = [call EXCEPT ![c] = [step |-> "create", ref |-> prepared + 1,
                                    bundle |-> BundleOf(call[c].experiment, call[c].label)]]
    /\ UNCHANGED <<sources, gold, cases, matrices, today>>

Create(c) ==
    /\ call[c].step = "create"
    /\ LockFree
    /\ gold' = [gold EXCEPT ![call[c].ref] = [bundle |-> call[c].bundle, reviews |-> <<>>,
                                              case |-> NULL]]
    /\ call' = [call EXCEPT ![c] = Idle]
    /\ UNCHANGED <<sources, prepared, cases, matrices, today>>

\* A reviewer other than the preparer.  A compiled reference takes no review.
ReviewReference(r, outcome) ==
    /\ LockFree
    /\ gold[r].case = NULL
    /\ Cardinality(GoldReviews) < MaxReviews
    /\ gold' = [gold EXCEPT ![r].reviews = Append(@, outcome)]
    /\ UNCHANGED <<sources, prepared, cases, matrices, today, call>>

-----------------------------------------------------------------------------
(* compile_gold_experimental_case and compile_matched_plan.                 *)

\* The reference is read, then the context, which must be the one it binds.  A
\* compiled reference is answered with its case, or refused, and stays as it is.
StartCompile(c, r, content) ==
    /\ call[c] = Idle
    /\ LockFree
    /\ State(r) = "accept"
    /\ Len(context) = gold[r].bundle.plan
    /\ call' = [call EXCEPT ![c] = [step |-> "bind",
                                    case |-> [ref |-> r, day |-> today, content |-> content]]]
    /\ UNCHANGED <<sources, store, matrices, today>>

\* The case whose file has the identity of f.
SameCase(f, g) == f.ref = g.ref /\ f.day = g.day

\* Mutant: a binding replaces the file another one left.
OverwriteCase(c) ==
    LET f == call[c].case IN
    /\ call[c].step = "bind"
    /\ LockFree
    /\ gold[f.ref].case = NULL
    /\ cases' = {g \in cases : ~SameCase(f, g)} \cup {f}
    /\ call' = [call EXCEPT ![c].step = "record"]
    /\ UNCHANGED <<sources, gold, prepared, matrices, today>>

\* Mutant: a reference that has a case can be bound again.
RebindCase(c) ==
    LET f == call[c].case IN
    /\ call[c].step = "bind"
    /\ LockFree
    /\ \A g \in cases : SameCase(f, g) => g = f
    /\ cases' = cases \cup {f}
    /\ call' = [call EXCEPT ![c].step = "record"]
    /\ UNCHANGED <<sources, gold, prepared, matrices, today>>

\* bind_case: the file comes first.  One that exists must have the same content.
WriteCase(c) ==
    LET f == call[c].case IN
    /\ call[c].step = "bind"
    /\ LockFree
    /\ gold[f.ref].case = NULL
    /\ \A g \in cases : SameCase(f, g) => g = f
    /\ cases' = cases \cup {f}
    /\ call' = [call EXCEPT ![c].step = "record"]
    /\ UNCHANGED <<sources, gold, prepared, matrices, today>>

\* Mutant: the record is not validated again.
WriteUnchecked(c) ==
    LET f == call[c].case IN
    /\ call[c].step = "record"
    /\ gold' = [gold EXCEPT ![f.ref].case = f]
    /\ call' = [call EXCEPT ![c] = Idle]
    /\ UNCHANGED <<sources, prepared, cases, matrices, today>>

\* The record follows, when its latest review still accepts it.
WriteRecord(c) ==
    LET f == call[c].case IN
    /\ call[c].step = "record"
    /\ Accepted(f.ref)
    /\ gold' = [gold EXCEPT ![f.ref].case = f]
    /\ call' = [call EXCEPT ![c] = Idle]
    /\ UNCHANGED <<sources, prepared, cases, matrices, today>>

\* get_case reads a file that list_cases offered.
StartMatrix(c, f) ==
    /\ call[c] = Idle
    /\ LockFree
    /\ call' = [call EXCEPT ![c] = [step |-> "matrix", case |-> f]]
    /\ UNCHANGED <<sources, store, matrices, today>>

\* A reference must name the case, by its identity; then the plan is saved.
SaveMatrix(c) ==
    LET f == call[c].case IN
    /\ call[c].step = "matrix"
    /\ LockFree
    /\ \E r \in Known : gold[r].case # NULL /\ SameCase(gold[r].case, f)
    /\ matrices' = matrices \cup {f}
    /\ call' = [call EXCEPT ![c] = Idle]
    /\ UNCHANGED <<sources, store, today>>

\* A request ends early: it is refused, answered with what is there, or its
\* process dies, which frees the lock.
Leave(c) ==
    /\ call[c] # Idle
    /\ call' = [call EXCEPT ![c] = Idle]
    /\ UNCHANGED <<sources, store, matrices, today>>

Midnight ==
    /\ today < MaxDay
    /\ today' = today + 1
    /\ UNCHANGED <<sources, store, matrices, call>>

-----------------------------------------------------------------------------
Review ==
    \/ Annotate
    \/ \E outcome \in {"ready", "declined"} : ReviewLabel(outcome)
    \/ SavePlan
    \/ \E p \in DOMAIN context :
          \/ PrepareContext(p)
          \/ \E outcome \in {"accept_context", "decline"} : ReviewContext(p, outcome)
    \/ \E r \in Known, outcome \in GoldReviewOutcome : ReviewReference(r, outcome)

ClientStep(c) ==
    \/ \E e \in Experiments : StartPrepare(c, e)
    \/ ReadLabel(c)
    \/ ReadReference(c)
    \/ Create(c)
    \/ \E r \in Known, content \in Contents : StartCompile(c, r, content)
    \/ WriteCase(c)
    \/ WriteRecord(c)
    \/ \E f \in cases : StartMatrix(c, f)
    \/ SaveMatrix(c)
    \/ Leave(c)

Next == Review \/ Midnight \/ \E c \in Clients : ClientStep(c)

Spec == Init /\ [][Next]_vars

-----------------------------------------------------------------------------
TypeOK ==
    /\ label \in Seq(LabelStates)
    /\ context \in Seq(Execution)
    /\ gold \in [References -> Record \cup {NULL}]
    /\ prepared \in 0..MaxReferences
    /\ cases \subseteq Case
    /\ matrices \subseteq Case
    /\ today \in 0..MaxDay
    /\ call \in [Clients -> Calls]

\* "The exact signal label has an accepted independent review; the exact context
\* execution has an accepted human evidence review": what a reference binds was
\* accepted, although annotations, plans and reviews went on between the gate,
\* the reads of the two sources and the creation of the reference.
BundlesReviewed ==
    \A r \in Known :
        LET b == gold[r].bundle IN
        /\ b.label \in DOMAIN label /\ label[b.label] = "ready"
        /\ b.plan \in DOMAIN context
        /\ b.review \in DOMAIN context[b.plan].reviews
        /\ context[b.plan].reviews[b.review] = "accept_context"

\* A compiled reference is one its latest review accepts, and its case is there:
\* after a death between the two files, and when reviews overtake the binding.
CompiledIsAccepted ==
    \A r \in Known : gold[r].case # NULL =>
        /\ gold[r].case.ref = r
        /\ gold[r].case \in cases
        /\ Accepted(r)

\* A matched-run plan is made for the very case that is bound, although the case
\* and its reference are read one after the other and files of interrupted
\* bindings lie beside the bound one.
MatricesAreBound ==
    \A f \in matrices : f \in cases /\ f.ref \in Known /\ gold[f.ref].case = f

\* Nothing takes a compiled reference back, reviews it again or binds it again,
\* whatever bindings and reviews were under way when it was compiled.
CompiledIsFrozen ==
    [][\A r \in Known : gold[r].case # NULL => gold'[r] = gold[r] /\ gold[r].case \in cases']_vars

\* "Return only Cases that passed the Gold-reference binding workflow."
ListedCasesAreBound ==
    LockFree => \A f \in cases : \E r \in Known : gold[r].case = f
=============================================================================
