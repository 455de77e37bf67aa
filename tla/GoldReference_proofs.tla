------------------------ MODULE GoldReference_proofs ------------------------
(***************************************************************************)
(* Proofs about GoldReference, for every set of experiments, contents and  *)
(* clients and every bound: its type invariant, its safety invariants and  *)
(* that a compiled reference is frozen.                                    *)
(***************************************************************************)
EXTENDS GoldReference, SequenceTheorems, TLAPS

\* An annotation that was accepted, a review of an execution that accepted it.
LabelOK(n) == n \in DOMAIN label /\ label[n] = "ready"
EvidenceOK(p, k) ==
    /\ p \in DOMAIN context
    /\ k \in DOMAIN context[p].reviews
    /\ context[p].reviews[k] = "accept_context"
BundleOK(b) == LabelOK(b.label) /\ EvidenceOK(b.plan, b.review)

\* What a preparation under way has read was accepted.
RequestsReviewed ==
    \A c \in Clients :
        /\ call[c].step = "reference" => LabelOK(call[c].label)
        /\ call[c].step = "create" => BundleOK(call[c].bundle)

\* A preparation under way has a name that no reference has.
NamesFresh ==
    /\ \A c \in Clients : call[c].step = "create" =>
          call[c].ref <= prepared /\ gold[call[c].ref] = NULL
    /\ \A r \in Known : r <= prepared
    /\ \A c, d \in Clients :
          call[c].step = "create" /\ call[d].step = "create" /\ call[c].ref = call[d].ref => c = d

\* A binding holds the lock, and its case is there before its record.
OneBinding ==
    /\ \A c, d \in Clients : call[c].step = "record" /\ call[d].step = "record" => c = d
    /\ \A c \in Clients : call[c].step = "record" =>
          call[c].case \in cases /\ gold[call[c].case.ref].case = NULL

\* Cases are made of references; no two share an identity.
CasesDistinct ==
    /\ \A f \in cases : f.ref \in Known
    /\ \A f, g \in cases : SameCase(f, g) => f = g
    /\ \A c \in Clients : call[c].step \in {"bind", "record"} => call[c].case.ref \in Known
    /\ \A c \in Clients : call[c].step = "matrix" => call[c].case \in cases

IInv ==
    /\ TypeOK
    /\ BundlesReviewed
    /\ RequestsReviewed
    /\ NamesFresh
    /\ OneBinding
    /\ CasesDistinct
    /\ CompiledIsAccepted
    /\ MatricesAreBound

-----------------------------------------------------------------------------
\* What the requests carry.
LEMMA CallTyped ==
    ASSUME TypeOK, NEW c \in Clients
    PROVE  /\ call[c].step = "label" => call[c].experiment \in Experiments
           /\ call[c].step = "reference" =>
                /\ call[c].experiment \in Experiments
                /\ call[c].label \in Nat \ {0}
           /\ call[c].step = "create" => call[c].ref \in References /\ call[c].bundle \in Bundle
           /\ call[c].step \in {"bind", "record", "matrix"} =>
                /\ call[c].case \in Case
                /\ call[c] = [step |-> call[c].step, case |-> call[c].case]
<1>1. call[c] \in Calls
  BY DEF TypeOK
<1>2. CASE call[c] = Idle
  BY <1>2 DEF Idle
<1>3. CASE call[c] \in [step : {"label"}, experiment : Experiments]
  BY <1>3
<1>4. CASE call[c] \in [step : {"reference"}, experiment : Experiments, label : Nat \ {0}]
  BY <1>4
<1>5. CASE call[c] \in [step : {"create"}, ref : References, bundle : Bundle]
  BY <1>5
<1>6. CASE call[c] \in [step : {"bind", "record", "matrix"}, case : Case]
  BY <1>6
<1>. QED
  BY <1>1, <1>2, <1>3, <1>4, <1>5, <1>6 DEF Calls

\* The fields of an existing reference.
LEMMA RecordTyped ==
    ASSUME TypeOK, NEW r \in Known
    PROVE  /\ r \in References
           /\ gold[r] \in Record
           /\ gold[r].bundle \in Bundle
           /\ gold[r].reviews \in Seq(GoldReviewOutcome)
           /\ gold[r].case \in Case \cup {NULL}
<1>1. r \in References /\ gold[r] \in Record
  BY DEF TypeOK, Known
<1>. QED
  BY <1>1 DEF Record

\* A request that ends or moves on leaves the types of the calls as they are.
LEMMA CallsTyped ==
    ASSUME TypeOK, NEW c \in Clients, NEW k \in Calls, call' = [call EXCEPT ![c] = k]
    PROVE  call' \in [Clients -> Calls]
  BY DEF TypeOK

-----------------------------------------------------------------------------
\* The last element of a sequence.
LEMMA LastTyped ==
    ASSUME NEW S, NEW s \in Seq(S), s # <<>>
    PROVE  Len(s) \in Nat \ {0} /\ Len(s) \in DOMAIN s /\ Last(s) \in S /\ Last(s) = s[Len(s)]
<1>1. Len(s) \in 1..Len(s) /\ DOMAIN s = 1..Len(s)
  BY LenProperties, EmptySeq
<1>. QED
  BY <1>1, ElementOfSeq DEF Last

\* The two sources stay typed.
LEMMA ReviewTyped ==
    ASSUME TypeOK, Review
    PROVE  /\ label' \in Seq(LabelStates)
           /\ context' \in Seq(Execution)
           /\ gold' \in [References -> Record \cup {NULL}]
           /\ UNCHANGED <<prepared, cases, matrices, today, call>>
<1>1. CASE Annotate
  <2>1. label' \in Seq(LabelStates)
    BY <1>1 DEF Annotate, LabelStates, TypeOK
  <2>. QED
    BY <1>1, <2>1 DEF Annotate, TypeOK, store
<1>2. ASSUME NEW o \in {"ready", "declined"}, ReviewLabel(o)
      PROVE  label' \in Seq(LabelStates) /\ UNCHANGED <<context, store, matrices, today, call>>
  <2>1. Len(label) \in 1..Len(label) /\ o \in LabelStates
    BY <1>2, LastTyped, LenProperties DEF ReviewLabel, TypeOK, LabelStates
  <2>2. [label EXCEPT ![Len(label)] = o] \in Seq(LabelStates)
    BY <2>1, ExceptSeq DEF TypeOK
  <2>. QED
    BY <1>2, <2>2 DEF ReviewLabel
<1>3. CASE SavePlan
  <2>1. [done |-> FALSE, reviews |-> <<>>] \in Execution
    BY DEF Execution
  <2>2. context' \in Seq(Execution)
    BY <1>3, <2>1, AppendProperties DEF SavePlan, TypeOK
  <2>. QED
    BY <1>3, <2>2 DEF SavePlan, TypeOK, store
<1>4. ASSUME NEW p \in DOMAIN context, PrepareContext(p)
      PROVE  context' \in Seq(Execution) /\ UNCHANGED <<label, store, matrices, today, call>>
  <2>1. p \in 1..Len(context) /\ context[p] \in Execution
    BY <1>4, LenProperties, ElementOfSeq DEF TypeOK
  <2>2. [context[p] EXCEPT !.done = TRUE] \in Execution
    BY <2>1 DEF Execution
  <2>3. context' = [context EXCEPT ![p] = [context[p] EXCEPT !.done = TRUE]]
    BY <1>4 DEF PrepareContext
  <2>4. context' \in Seq(Execution)
    BY <2>1, <2>2, <2>3, ExceptSeq DEF TypeOK
  <2>. QED
    BY <1>4, <2>4 DEF PrepareContext
<1>5. ASSUME NEW p \in DOMAIN context, NEW o \in {"accept_context", "decline"}, ReviewContext(p, o)
      PROVE  context' \in Seq(Execution) /\ UNCHANGED <<label, store, matrices, today, call>>
  <2>1. p \in 1..Len(context) /\ context[p] \in Execution
    BY <1>5, LenProperties, ElementOfSeq DEF TypeOK
  <2>2. Append(context[p].reviews, o) \in Seq({"accept_context", "decline"})
    BY <2>1, AppendProperties DEF Execution
  <2>3. [context[p] EXCEPT !.reviews = Append(@, o)] \in Execution
    BY <2>1, <2>2 DEF Execution
  <2>4. context' = [context EXCEPT ![p] = [context[p] EXCEPT !.reviews = Append(@, o)]]
    BY <1>5 DEF ReviewContext
  <2>5. context' \in Seq(Execution)
    BY <2>1, <2>3, <2>4, ExceptSeq DEF TypeOK
  <2>. QED
    BY <1>5, <2>5 DEF ReviewContext
<1>6. ASSUME NEW r \in Known, NEW o \in GoldReviewOutcome, ReviewReference(r, o)
      PROVE  /\ gold' \in [References -> Record \cup {NULL}]
             /\ UNCHANGED <<sources, prepared, cases, matrices, today, call>>
  <2>1. r \in References /\ gold[r] \in Record /\ gold[r].reviews \in Seq(GoldReviewOutcome)
    BY RecordTyped
  <2>2. [gold[r] EXCEPT !.reviews = Append(@, o)] \in Record
    BY <2>1, AppendProperties DEF Record
  <2>. QED
    BY <1>6, <2>1, <2>2 DEF ReviewReference, TypeOK
<1>. QED
  BY <1>1, <1>2, <1>3, <1>4, <1>5, <1>6 DEF Review, TypeOK, sources, store

\* The reference a preparation finds superseded.
LEMMA SupersededTyped == TypeOK => Superseded \in Nat
<1>1. CASE \E r \in Known : IsLatest(r) /\ State(r) = "request_changes"
  <2>1. (CHOOSE r \in Known : IsLatest(r)) \in Known
    BY <1>1
  <2>2. Superseded \in Known
    BY <1>1, <2>1 DEF Superseded
  <2>. QED
    BY <2>2 DEF Known, References
<1>2. CASE ~\E r \in Known : IsLatest(r) /\ State(r) = "request_changes"
  BY <1>2 DEF Superseded
<1>. QED
  BY <1>1, <1>2

\* An accepted execution has its plan and the review that accepts it.
LEMMA AcceptedTyped ==
    ASSUME TypeOK, ContextAccepted
    PROVE  /\ Len(context) \in Nat \ {0}
           /\ Len(context) \in DOMAIN context
           /\ Last(context) = context[Len(context)]
           /\ Len(Last(context).reviews) \in Nat \ {0}
           /\ EvidenceOK(Len(context), Len(Last(context).reviews))
<1>1. /\ Len(context) \in Nat \ {0}
      /\ Len(context) \in DOMAIN context
      /\ Last(context) = context[Len(context)]
      /\ Last(context) \in Execution
  BY LastTyped DEF TypeOK, ContextAccepted
<1>. DEFINE s == Last(context).reviews
<1>2. s \in Seq({"accept_context", "decline"}) /\ s # <<>> /\ Last(s) = "accept_context"
  BY <1>1 DEF Execution, ContextAccepted
<1>. HIDE DEF s
<1>3. Len(s) \in Nat \ {0} /\ Len(s) \in DOMAIN s /\ s[Len(s)] = "accept_context"
  BY <1>2, LastTyped
<1>. QED
  BY <1>1, <1>3 DEF EvidenceOK, s

\* The bundle a preparation makes.
LEMMA BundleTyped ==
    ASSUME TypeOK, ContextAccepted, NEW e \in Experiments, NEW n \in Nat \ {0}
    PROVE  BundleOf(e, n) \in Bundle
  BY AcceptedTyped, SupersededTyped DEF BundleOf, Bundle

LEMMA LatestLabel ==
    ASSUME TypeOK, LabelReady
    PROVE  Len(label) \in Nat \ {0} /\ LabelOK(Len(label))
  BY LastTyped DEF TypeOK, LabelReady, LabelOK

\* The types after a step of a client.
LEMMA ClientTyped ==
    ASSUME TypeOK, CasesDistinct, NEW c \in Clients, ClientStep(c)
    PROVE  TypeOK'
<1>. USE DEF sources, store
<1>1. Idle \in Calls
  BY DEF Calls
<1>2. ASSUME NEW e \in Experiments, StartPrepare(c, e) PROVE TypeOK'
  <2>1. [step |-> "label", experiment |-> e] \in Calls
    BY DEF Calls
  <2>. QED
    BY <1>2, <2>1 DEF StartPrepare, TypeOK
<1>3. CASE ReadLabel(c)
  <2>1. call[c].experiment \in Experiments
    BY <1>3, CallTyped DEF ReadLabel
  <2>2. [step |-> "reference", experiment |-> call[c].experiment, label |-> Len(label)] \in Calls
    BY <1>3, <2>1, LatestLabel DEF ReadLabel, Calls
  <2>. QED
    BY <1>3, <2>2 DEF ReadLabel, TypeOK
<1>4. CASE ReadReference(c)
  <2>. DEFINE b == BundleOf(call[c].experiment, call[c].label)
  <2>1. b \in Bundle
    BY <1>4, CallTyped, BundleTyped DEF ReadReference
  <2>2. prepared + 1 \in References
    BY <1>4, GoldAssumption DEF ReadReference, References, TypeOK
  <2>3. [step |-> "create", ref |-> prepared + 1, bundle |-> b] \in Calls
    BY <2>1, <2>2 DEF Calls
  <2>4. call' \in [Clients -> Calls]
    BY <1>4, <2>3 DEF ReadReference, TypeOK
  <2>5. prepared' \in 0..MaxReferences
    BY <1>4, <2>2 DEF ReadReference, References
  <2>. QED
    BY <1>4, <2>4, <2>5 DEF ReadReference, TypeOK
<1>5. CASE Create(c)
  <2>1. call[c].ref \in References /\ call[c].bundle \in Bundle
    BY <1>5, CallTyped DEF Create
  <2>2. <<>> \in Seq(GoldReviewOutcome)
    BY EmptySeq
  <2>3. [bundle |-> call[c].bundle, reviews |-> <<>>, case |-> NULL] \in Record
    BY <2>1, <2>2 DEF Record
  <2>. QED
    BY <1>1, <1>5, <2>1, <2>3 DEF Create, TypeOK
<1>6. ASSUME NEW r \in Known, NEW h \in Contents, StartCompile(c, r, h) PROVE TypeOK'
  <2>1. [ref |-> r, day |-> today, content |-> h] \in Case
    BY DEF Case, Known, TypeOK
  <2>2. [step |-> "bind", case |-> [ref |-> r, day |-> today, content |-> h]] \in Calls
    BY <2>1 DEF Calls
  <2>. QED
    BY <1>6, <2>2 DEF StartCompile, TypeOK
<1>7. CASE WriteCase(c)
  <2>1. /\ call[c].case \in Case
        /\ call[c] = [step |-> "bind", case |-> call[c].case]
    BY <1>7, CallTyped DEF WriteCase
  <2>2. [call[c] EXCEPT !.step = "record"] = [step |-> "record", case |-> call[c].case]
    BY <2>1
  <2>3. [call[c] EXCEPT !.step = "record"] \in Calls
    BY <2>1, <2>2 DEF Calls
  <2>. QED
    BY <1>7, <2>1, <2>3 DEF WriteCase, TypeOK
<1>8. CASE WriteRecord(c)
  <2>1. call[c].case \in Case
    BY <1>8, CallTyped DEF WriteRecord
  <2>2. call[c].case.ref \in References /\ gold[call[c].case.ref] \in Record
    BY <1>8, RecordTyped DEF WriteRecord, CasesDistinct
  <2>3. [gold[call[c].case.ref] EXCEPT !.case = call[c].case] \in Record
    BY <2>1, <2>2 DEF Record
  <2>. QED
    BY <1>1, <1>8, <2>2, <2>3 DEF WriteRecord, TypeOK
<1>9. ASSUME NEW f \in cases, StartMatrix(c, f) PROVE TypeOK'
  <2>1. [step |-> "matrix", case |-> f] \in Calls
    BY DEF Calls, TypeOK
  <2>. QED
    BY <1>9, <2>1 DEF StartMatrix, TypeOK
<1>10. CASE SaveMatrix(c)
  <2>1. call[c].case \in Case
    BY <1>10, CallTyped DEF SaveMatrix
  <2>. QED
    BY <1>1, <1>10, <2>1 DEF SaveMatrix, TypeOK
<1>11. CASE Leave(c)
  BY <1>1, <1>11 DEF Leave, TypeOK
<1>. QED
  BY <1>2, <1>3, <1>4, <1>5, <1>6, <1>7, <1>8, <1>9, <1>10, <1>11 DEF ClientStep

LEMMA TypeStep == IInv /\ [Next]_vars => TypeOK'
<1>. SUFFICES ASSUME TypeOK, CasesDistinct, [Next]_vars PROVE TypeOK'
  BY DEF IInv
<1>1. CASE UNCHANGED vars
  BY <1>1 DEF vars, sources, store, TypeOK
<1>2. CASE Review
  BY <1>2, ReviewTyped DEF TypeOK, Review, Annotate, ReviewLabel, SavePlan, PrepareContext,
     ReviewContext, ReviewReference
<1>3. CASE Midnight
  BY <1>3, GoldAssumption DEF Midnight, TypeOK, sources, store
<1>4. ASSUME NEW c \in Clients, ClientStep(c) PROVE TypeOK'
  BY <1>4, ClientTyped
<1>. QED
  BY <1>1, <1>2, <1>3, <1>4 DEF Next

-----------------------------------------------------------------------------
\* Nothing takes an accepted annotation or an accepting review back.
LEMMA AcceptanceKept ==
    ASSUME TypeOK, [Next]_vars
    PROVE  /\ \A n : LabelOK(n) => LabelOK(n)'
           /\ \A p, k : EvidenceOK(p, k) => EvidenceOK(p, k)'
<1>1. CASE UNCHANGED sources
  BY <1>1 DEF sources, LabelOK, EvidenceOK
<1>2. CASE Annotate
  <2>1. "awaiting_independent_review" \in LabelStates /\ label \in Seq(LabelStates)
    BY DEF LabelStates, TypeOK
  <2>2. /\ Len(label) \in Nat
        /\ Len(label') = Len(label) + 1
        /\ DOMAIN label = 1..Len(label)
        /\ DOMAIN label' = 1..Len(label')
        /\ \A i \in 1..Len(label) : label'[i] = label[i]
    BY <1>2, <2>1, AppendProperties, LenProperties DEF Annotate
  <2>. QED
    BY <1>2, <2>2 DEF Annotate, LabelOK, EvidenceOK
<1>3. ASSUME NEW o \in {"ready", "declined"}, ReviewLabel(o)
      PROVE  /\ \A n : LabelOK(n) => LabelOK(n)'
             /\ \A p, k : EvidenceOK(p, k) => EvidenceOK(p, k)'
  <2>1. Len(label) \in DOMAIN label /\ label[Len(label)] # "ready"
    BY <1>3, LastTyped DEF ReviewLabel, TypeOK
  <2>. QED
    BY <1>3, <2>1 DEF ReviewLabel, LabelOK, EvidenceOK
<1>4. CASE SavePlan
  <2>1. [done |-> FALSE, reviews |-> <<>>] \in Execution
    BY DEF Execution
  <2>2. /\ Len(context) \in Nat
        /\ Len(context') = Len(context) + 1
        /\ DOMAIN context = 1..Len(context)
        /\ DOMAIN context' = 1..Len(context')
        /\ \A i \in 1..Len(context) : context'[i] = context[i]
    BY <1>4, <2>1, AppendProperties, LenProperties DEF SavePlan, TypeOK
  <2>. QED
    BY <1>4, <2>2 DEF SavePlan, LabelOK, EvidenceOK
<1>5. ASSUME NEW p \in DOMAIN context, PrepareContext(p)
      PROVE  /\ \A n : LabelOK(n) => LabelOK(n)'
             /\ \A q, k : EvidenceOK(q, k) => EvidenceOK(q, k)'
  <2>1. context[p] \in Execution
    BY <1>5, LenProperties, ElementOfSeq DEF TypeOK
  <2>2. DOMAIN context' = DOMAIN context
    BY <1>5 DEF PrepareContext
  <2>3. ASSUME NEW q \in DOMAIN context PROVE context'[q].reviews = context[q].reviews
    BY <1>5, <2>1 DEF PrepareContext, Execution
  <2>. QED
    BY <1>5, <2>2, <2>3 DEF PrepareContext, LabelOK, EvidenceOK
<1>6. ASSUME NEW p \in DOMAIN context, NEW o \in {"accept_context", "decline"}, ReviewContext(p, o)
      PROVE  /\ \A n : LabelOK(n) => LabelOK(n)'
             /\ \A q, k : EvidenceOK(q, k) => EvidenceOK(q, k)'
  <2>1. context[p] \in Execution
    BY <1>6, LenProperties, ElementOfSeq DEF TypeOK
  <2>2. DOMAIN context' = DOMAIN context
    BY <1>6 DEF ReviewContext
  <2>3. \A q \in DOMAIN context \ {p} : context'[q] = context[q]
    BY <1>6 DEF ReviewContext
  <2>4. context'[p].reviews = Append(context[p].reviews, o)
    BY <1>6, <2>1 DEF ReviewContext, Execution
  <2>5. context[p].reviews \in Seq({"accept_context", "decline"})
    BY <2>1 DEF Execution
  <2>6. /\ DOMAIN context[p].reviews \subseteq DOMAIN Append(context[p].reviews, o)
        /\ \A k \in DOMAIN context[p].reviews :
              Append(context[p].reviews, o)[k] = context[p].reviews[k]
    BY <2>5, AppendProperties, LenProperties
  <2>. QED
    BY <1>6, <2>2, <2>3, <2>4, <2>6 DEF ReviewContext, LabelOK, EvidenceOK
<1>7. ASSUME NEW r \in Known, NEW o \in GoldReviewOutcome, ReviewReference(r, o)
      PROVE  UNCHANGED sources
  BY <1>7 DEF ReviewReference
<1>8. CASE Review
  BY <1>1, <1>2, <1>3, <1>4, <1>5, <1>6, <1>7, <1>8 DEF Review
<1>9. ASSUME NEW c \in Clients, ClientStep(c) PROVE UNCHANGED sources
  BY <1>9 DEF ClientStep, StartPrepare, ReadLabel, ReadReference, Create, StartCompile, WriteCase,
     WriteRecord, StartMatrix, SaveMatrix, Leave
<1>. QED
  BY <1>1, <1>8, <1>9 DEF Next, Midnight, vars

-----------------------------------------------------------------------------
\* The request a client waits for after its step tells which step it was; the
\* other clients wait as before.
LEMMA CallAfter ==
    ASSUME TypeOK, NEW c \in Clients, ClientStep(c)
    PROVE  /\ \A d \in Clients \ {c} : call'[d] = call[d]
           /\ call'[c].step = "reference" => ReadLabel(c)
           /\ call'[c].step = "create" => ReadReference(c)
           /\ call'[c].step = "bind" => \E r \in Known, h \in Contents : StartCompile(c, r, h)
           /\ call'[c].step = "record" => WriteCase(c)
           /\ call'[c].step = "matrix" => \E f \in cases : StartMatrix(c, f)
<1>. DEFINE Other == \A d \in Clients \ {c} : call'[d] = call[d]
<1>0. call \in [Clients -> Calls]
  BY DEF TypeOK
<1>1. ASSUME NEW e \in Experiments, StartPrepare(c, e) PROVE Other /\ call'[c].step = "label"
  BY <1>0, <1>1 DEF StartPrepare
<1>2. ASSUME ReadLabel(c) PROVE Other /\ call'[c].step = "reference"
  BY <1>0, <1>2 DEF ReadLabel
<1>3. ASSUME ReadReference(c) PROVE Other /\ call'[c].step = "create"
  BY <1>0, <1>3 DEF ReadReference
<1>4. ASSUME Create(c) \/ WriteRecord(c) \/ SaveMatrix(c) \/ Leave(c)
      PROVE  Other /\ call'[c].step = "idle"
  BY <1>0, <1>4 DEF Create, WriteRecord, SaveMatrix, Leave, Idle
<1>5. ASSUME NEW r \in Known, NEW h \in Contents, StartCompile(c, r, h)
      PROVE  Other /\ call'[c].step = "bind"
  BY <1>0, <1>5 DEF StartCompile
<1>6. ASSUME WriteCase(c) PROVE Other /\ call'[c].step = "record"
  <2>1. call[c] = [step |-> call[c].step, case |-> call[c].case]
    BY <1>6, CallTyped DEF WriteCase
  <2>2. [call[c] EXCEPT !.step = "record"].step = "record"
    BY <2>1
  <2>3. call'[c] = [call[c] EXCEPT !.step = "record"] /\ Other
    BY <1>0, <1>6 DEF WriteCase
  <2>. QED
    BY <2>2, <2>3
<1>7. ASSUME NEW f \in cases, StartMatrix(c, f) PROVE Other /\ call'[c].step = "matrix"
  BY <1>0, <1>7 DEF StartMatrix
<1>. HIDE DEF Other
<1>8. \/ \E e \in Experiments : StartPrepare(c, e)
      \/ ReadLabel(c)
      \/ ReadReference(c)
      \/ Create(c) \/ WriteRecord(c) \/ SaveMatrix(c) \/ Leave(c)
      \/ \E r \in Known, h \in Contents : StartCompile(c, r, h)
      \/ WriteCase(c)
      \/ \E f \in cases : StartMatrix(c, f)
  BY DEF ClientStep
<1>9. Other
  BY <1>1, <1>2, <1>3, <1>4, <1>5, <1>6, <1>7, <1>8
<1>10. call'[c].step = "reference" => ReadLabel(c)
  BY <1>1, <1>3, <1>4, <1>5, <1>6, <1>7, <1>8
<1>11. call'[c].step = "create" => ReadReference(c)
  BY <1>1, <1>2, <1>4, <1>5, <1>6, <1>7, <1>8
<1>12. call'[c].step = "bind" => \E r \in Known, h \in Contents : StartCompile(c, r, h)
  BY <1>1, <1>2, <1>3, <1>4, <1>6, <1>7, <1>8
<1>13. call'[c].step = "record" => WriteCase(c)
  BY <1>1, <1>2, <1>3, <1>4, <1>5, <1>7, <1>8
<1>14. call'[c].step = "matrix" => \E f \in cases : StartMatrix(c, f)
  BY <1>1, <1>2, <1>3, <1>4, <1>5, <1>6, <1>8
<1>. QED
  BY <1>9, <1>10, <1>11, <1>12, <1>13, <1>14 DEF Other

\* Outside the steps of the clients the calls stay as they are.
LEMMA CallsOutside ==
    ASSUME [Next]_vars
    PROVE  UNCHANGED call \/ \E c \in Clients : ClientStep(c)
  BY DEF Next, Review, Midnight, Annotate, ReviewLabel, SavePlan, PrepareContext, ReviewContext,
     ReviewReference, vars

-----------------------------------------------------------------------------
\* The steps that write to the store, and what they leave alone.
LEMMA StoreSteps ==
    ASSUME [Next]_vars
    PROVE  \/ UNCHANGED <<gold, cases>>
           \/ \E r \in Known, o \in GoldReviewOutcome : ReviewReference(r, o)
           \/ \E c \in Clients : Create(c) \/ WriteCase(c) \/ WriteRecord(c)
  BY DEF Next, Review, Midnight, Annotate, ReviewLabel, SavePlan, PrepareContext, ReviewContext,
     ClientStep, StartPrepare, ReadLabel, ReadReference, StartCompile, StartMatrix, SaveMatrix,
     Leave, store, vars

\* What a review of a reference writes.
LEMMA ReviewWrites ==
    ASSUME IInv, NEW r \in Known, NEW o \in GoldReviewOutcome, ReviewReference(r, o)
    PROVE  /\ gold[r].case = NULL
           /\ \A q \in References \ {r} : gold'[q] = gold[q]
           /\ gold'[r] # NULL
           /\ gold'[r].bundle = gold[r].bundle
           /\ gold'[r].case = NULL
           /\ LockFree
           /\ UNCHANGED <<cases, call, matrices>>
<1>1. r \in References /\ gold[r] \in Record /\ gold[r].reviews \in Seq(GoldReviewOutcome)
  BY RecordTyped DEF IInv
<1>. DEFINE n == [gold[r] EXCEPT !.reviews = Append(@, o)]
<1>2. n \in Record /\ n.bundle = gold[r].bundle /\ n.case = gold[r].case
  BY <1>1, AppendProperties DEF Record
<1>3. gold' = [gold EXCEPT ![r] = n] /\ gold[r].case = NULL
  BY DEF ReviewReference
<1>. HIDE DEF n
<1>4. gold'[r] = n /\ \A q \in References \ {r} : gold'[q] = gold[q]
  BY <1>1, <1>3 DEF IInv, TypeOK
<1>. QED
  BY <1>2, <1>3, <1>4, GoldAssumption DEF ReviewReference

\* What the creation of a reference writes.
LEMMA CreateWrites ==
    ASSUME IInv, NEW c \in Clients, Create(c)
    PROVE  /\ call[c].ref \in References /\ call[c].ref \notin Known
           /\ \A q \in References \ {call[c].ref} : gold'[q] = gold[q]
           /\ gold'[call[c].ref] # NULL
           /\ gold'[call[c].ref].bundle = call[c].bundle
           /\ gold'[call[c].ref].case = NULL
           /\ LockFree
           /\ UNCHANGED <<cases, matrices>>
<1>1. call[c].ref \in References /\ call[c].bundle \in Bundle
  BY CallTyped DEF Create, IInv
<1>2. gold[call[c].ref] = NULL
  BY DEF IInv, NamesFresh, Create
<1>. DEFINE n == [bundle |-> call[c].bundle, reviews |-> <<>>, case |-> NULL]
<1>3. n \in Record /\ n.bundle = call[c].bundle /\ n.case = NULL
  BY <1>1, EmptySeq DEF Record
<1>4. gold' = [gold EXCEPT ![call[c].ref] = n]
  BY DEF Create
<1>. HIDE DEF n
<1>5. gold'[call[c].ref] = n /\ \A q \in References \ {call[c].ref} : gold'[q] = gold[q]
  BY <1>1, <1>4 DEF IInv, TypeOK
<1>. QED
  BY <1>1, <1>2, <1>3, <1>5, GoldAssumption DEF Create, Known

\* What the end of a binding writes.
LEMMA RecordWrites ==
    ASSUME IInv, NEW c \in Clients, WriteRecord(c)
    PROVE  LET f == call[c].case IN
           /\ f \in Case /\ f \in cases
           /\ f.ref \in Known
           /\ gold[f.ref].case = NULL
           /\ \A q \in References \ {f.ref} : gold'[q] = gold[q]
           /\ gold'[f.ref] # NULL
           /\ gold'[f.ref].bundle = gold[f.ref].bundle
           /\ gold'[f.ref].reviews = gold[f.ref].reviews
           /\ gold'[f.ref].case = f
           /\ Accepted(f.ref)
           /\ UNCHANGED <<cases, matrices>>
<1>. DEFINE f == call[c].case
<1>1. f \in Case /\ f.ref \in Known /\ f \in cases /\ gold[f.ref].case = NULL
  BY CallTyped DEF WriteRecord, IInv, CasesDistinct, OneBinding
<1>2. f.ref \in References /\ gold[f.ref] \in Record
  BY <1>1, RecordTyped DEF IInv
<1>. DEFINE n == [gold[f.ref] EXCEPT !.case = f]
<1>3. /\ n \in Record /\ n.case = f
      /\ n.bundle = gold[f.ref].bundle /\ n.reviews = gold[f.ref].reviews
  BY <1>1, <1>2 DEF Record
<1>4. gold' = [gold EXCEPT ![f.ref] = n]
  BY DEF WriteRecord
<1>. HIDE DEF n
<1>5. gold'[f.ref] = n /\ \A q \in References \ {f.ref} : gold'[q] = gold[q]
  BY <1>2, <1>4 DEF IInv, TypeOK
<1>. QED
  BY <1>1, <1>2, <1>3, <1>5, GoldAssumption DEF WriteRecord

\* References and cases only accumulate: a reference keeps its bundle, and a
\* compiled one is not touched.
LEMMA StoreKept ==
    ASSUME IInv, [Next]_vars
    PROVE  /\ cases \subseteq cases'
           /\ \A r \in Known :
                /\ r \in Known'
                /\ gold'[r].bundle = gold[r].bundle
                /\ gold[r].case # NULL => gold'[r] = gold[r]
<1>. DEFINE Kept == \A r \in Known :
                      /\ r \in Known'
                      /\ gold'[r].bundle = gold[r].bundle
                      /\ gold[r].case # NULL => gold'[r] = gold[r]
<1>1. CASE UNCHANGED <<gold, cases>>
  BY <1>1 DEF Known
<1>2. ASSUME NEW q \in Known, NEW o \in GoldReviewOutcome, ReviewReference(q, o)
      PROVE  cases \subseteq cases' /\ Kept
  BY <1>2, ReviewWrites DEF Known
<1>3. ASSUME NEW c \in Clients, Create(c) PROVE cases \subseteq cases' /\ Kept
  BY <1>3, CreateWrites DEF Known
<1>4. ASSUME NEW c \in Clients, WriteCase(c) PROVE cases \subseteq cases' /\ Kept
  BY <1>4 DEF WriteCase, Known
<1>5. ASSUME NEW c \in Clients, WriteRecord(c) PROVE cases \subseteq cases' /\ Kept
  BY <1>5, RecordWrites DEF Known
<1>. QED
  BY <1>1, <1>2, <1>3, <1>4, <1>5, StoreSteps

-----------------------------------------------------------------------------
\* A reference binds what the preparation that creates it has read.
LEMMA BundlesStep == IInv /\ [Next]_vars => BundlesReviewed'
<1>. SUFFICES ASSUME IInv, [Next]_vars, NEW r \in Known'
              PROVE  BundleOK(gold[r].bundle)'
  BY DEF BundlesReviewed, BundleOK, LabelOK, EvidenceOK
<1>1. ASSUME NEW b, BundleOK(b) PROVE BundleOK(b)'
  BY <1>1, AcceptanceKept DEF BundleOK, IInv
<1>2. CASE r \in Known
  <2>1. BundleOK(gold[r].bundle)
    BY <1>2 DEF IInv, BundlesReviewed, BundleOK, LabelOK, EvidenceOK
  <2>2. gold'[r].bundle = gold[r].bundle
    BY <1>2, StoreKept
  <2>. QED
    BY <1>1, <2>1, <2>2 DEF BundleOK, LabelOK, EvidenceOK
<1>3. CASE r \notin Known
  <2>1. PICK c \in Clients : Create(c) /\ r = call[c].ref
    <3>1. gold' # gold
      BY <1>3 DEF Known
    <3>2. ASSUME NEW q \in Known, NEW o \in GoldReviewOutcome, ReviewReference(q, o) PROVE FALSE
      BY <1>3, <3>2, ReviewWrites DEF Known
    <3>3. ASSUME NEW c \in Clients, WriteRecord(c) PROVE FALSE
      BY <1>3, <3>3, RecordWrites DEF Known
    <3>4. ASSUME NEW c \in Clients, Create(c) PROVE r = call[c].ref
      BY <1>3, <3>4, CreateWrites DEF Known
    <3>5. ASSUME NEW c \in Clients, WriteCase(c) PROVE FALSE
      BY <3>1, <3>5 DEF WriteCase
    <3>. QED
      BY <3>1, <3>2, <3>3, <3>4, <3>5, StoreSteps
  <2>2. gold'[r].bundle = call[c].bundle
    BY <2>1, CreateWrites
  <2>3. BundleOK(call[c].bundle)
    BY <2>1 DEF Create, IInv, RequestsReviewed
  <2>. QED
    BY <1>1, <2>2, <2>3 DEF BundleOK, LabelOK, EvidenceOK
<1>. QED
  BY <1>2, <1>3

\* What a request has read stays accepted while it waits.
LEMMA RequestsStep == IInv /\ [Next]_vars => RequestsReviewed'
<1>. SUFFICES ASSUME IInv, [Next]_vars, NEW d \in Clients
              PROVE  /\ call'[d].step = "reference" => LabelOK(call[d].label)'
                     /\ call'[d].step = "create" => BundleOK(call[d].bundle)'
  BY DEF RequestsReviewed
<1>1. /\ \A n : LabelOK(n) => LabelOK(n)'
      /\ \A b : BundleOK(b) => BundleOK(b)'
  BY AcceptanceKept DEF BundleOK, IInv
<1>2. CASE call'[d] = call[d]
  <2>1. /\ call[d].step = "reference" => LabelOK(call[d].label)
        /\ call[d].step = "create" => BundleOK(call[d].bundle)
    BY DEF IInv, RequestsReviewed
  <2>. QED
    BY <1>1, <1>2, <2>1 DEF BundleOK, LabelOK, EvidenceOK
<1>3. ASSUME ClientStep(d)
      PROVE  /\ call'[d].step = "reference" => LabelOK(call[d].label)'
             /\ call'[d].step = "create" => BundleOK(call[d].bundle)'
  <2>1. ASSUME call'[d].step = "reference" PROVE LabelOK(call[d].label)'
    <3>1. ReadLabel(d)
      BY <1>3, <2>1, CallAfter DEF IInv
    <3>2. call'[d].label = Len(label)
      BY <3>1 DEF ReadLabel, IInv, TypeOK
    <3>3. LabelOK(Len(label))
      BY <3>1, LatestLabel DEF ReadLabel, IInv
    <3>. QED
      BY <1>1, <3>2, <3>3 DEF LabelOK
  <2>2. ASSUME call'[d].step = "create" PROVE BundleOK(call[d].bundle)'
    <3>1. ReadReference(d)
      BY <1>3, <2>2, CallAfter DEF IInv
    <3>. DEFINE b == BundleOf(call[d].experiment, call[d].label)
    <3>2. call'[d].bundle = b
      BY <3>1 DEF ReadReference, IInv, TypeOK
    <3>3. LabelOK(call[d].label)
      BY <3>1 DEF ReadReference, IInv, RequestsReviewed
    <3>4. EvidenceOK(Len(context), Len(Last(context).reviews))
      BY <3>1, AcceptedTyped DEF ReadReference, IInv
    <3>5. BundleOK(b)
      BY <3>3, <3>4 DEF BundleOf, BundleOK
    <3>. HIDE DEF b
    <3>. QED
      BY <1>1, <3>2, <3>5 DEF BundleOK, LabelOK, EvidenceOK
  <2>. QED
    BY <2>1, <2>2
<1>. QED
  BY <1>2, <1>3, CallsOutside, CallAfter DEF IInv

\* Names are taken once, whoever prepares at the same time.
LEMMA NamesStep == IInv /\ [Next]_vars => NamesFresh'
<1>. SUFFICES ASSUME IInv, [Next]_vars PROVE NamesFresh'
  OBVIOUS
<1>0. prepared \in Nat /\ MaxReferences \in Nat
  BY GoldAssumption DEF IInv, TypeOK
<1>1. prepared' \in Nat /\ prepared <= prepared'
  <2>1. prepared' = prepared \/ \E c \in Clients : ReadReference(c)
    BY DEF Next, Review, Midnight, Annotate, ReviewLabel, SavePlan, PrepareContext, ReviewContext,
       ReviewReference, ClientStep, StartPrepare, ReadLabel, Create, StartCompile, WriteCase,
       WriteRecord, StartMatrix, SaveMatrix, Leave, store, vars
  <2>. QED
    BY <1>0, <2>1 DEF ReadReference
\* Only the creation of a reference makes its name known.
<1>2. ASSUME NEW r \in References, r \notin Known, r \in Known'
      PROVE  \E c \in Clients : Create(c) /\ r = call[c].ref
  <2>1. gold' # gold
    BY <1>2 DEF Known
  <2>2. ASSUME NEW q \in Known, NEW o \in GoldReviewOutcome, ReviewReference(q, o) PROVE FALSE
    BY <1>2, <2>2, ReviewWrites DEF Known
  <2>3. ASSUME NEW c \in Clients, WriteRecord(c) PROVE FALSE
    BY <1>2, <2>3, RecordWrites DEF Known
  <2>4. ASSUME NEW c \in Clients, Create(c) PROVE r = call[c].ref
    BY <1>2, <2>4, CreateWrites DEF Known
  <2>5. ASSUME NEW c \in Clients, WriteCase(c) PROVE FALSE
    BY <2>1, <2>5 DEF WriteCase
  <2>. QED
    BY <2>1, <2>2, <2>3, <2>4, <2>5, StoreSteps
<1>3. ASSUME NEW r \in Known' PROVE r <= prepared'
  <2>0. r \in References
    BY DEF Known
  <2>1. CASE r \in Known
    BY <1>0, <1>1, <2>0, <2>1 DEF IInv, NamesFresh, References
  <2>2. CASE r \notin Known
    <3>1. PICK c \in Clients : Create(c) /\ r = call[c].ref
      BY <1>2, <1>3, <2>0, <2>2
    <3>2. r <= prepared
      BY <3>1 DEF Create, IInv, NamesFresh
    <3>. QED
      BY <1>0, <1>1, <2>0, <3>2 DEF References
  <2>. QED
    BY <2>1, <2>2
\* A preparation that has a name keeps it, or has just taken the next one.
<1>4. ASSUME NEW d \in Clients, call'[d].step = "create"
      PROVE  \/ call'[d] = call[d] /\ ~Create(d)
             \/ ReadReference(d) /\ call'[d].ref = prepared + 1 /\ prepared' = prepared + 1
  <2>1. ASSUME ClientStep(d) PROVE ReadReference(d) /\ call'[d].ref = prepared + 1
    BY <1>4, <2>1, CallAfter DEF ReadReference, IInv, TypeOK
  <2>2. Create(d) => ClientStep(d)
    BY DEF ClientStep
  <2>3. ReadReference(d) => prepared' = prepared + 1
    BY DEF ReadReference
  <2>4. call'[d] = call[d] \/ ClientStep(d)
    BY CallsOutside, CallAfter DEF IInv
  <2>5. ~(ReadReference(d) /\ Create(d))
    BY DEF ReadReference, Create
  <2>. QED
    BY <2>1, <2>2, <2>3, <2>4, <2>5
<1>5. ASSUME NEW d \in Clients, call'[d].step = "create"
      PROVE  call'[d].ref \in References /\ call'[d].ref <= prepared' /\ gold'[call'[d].ref] = NULL
  <2>1. CASE call'[d] = call[d] /\ ~Create(d)
    <3>1. /\ call[d].step = "create" /\ call[d].ref \in References
          /\ call[d].ref <= prepared /\ gold[call[d].ref] = NULL
      BY <1>5, <2>1, CallTyped DEF IInv, NamesFresh
    <3>2. call[d].ref \notin Known'
      <4>1. SUFFICES ASSUME call[d].ref \in Known' PROVE FALSE
        OBVIOUS
      <4>2. PICK c \in Clients : Create(c) /\ call[d].ref = call[c].ref
        BY <1>2, <3>1, <4>1 DEF Known
      <4>3. c = d
        BY <3>1, <4>2 DEF Create, IInv, NamesFresh
      <4>. QED
        BY <2>1, <4>2, <4>3
    <3>. QED
      BY <1>0, <1>1, <2>1, <3>1, <3>2 DEF Known, References
  <2>2. CASE ReadReference(d) /\ call'[d].ref = prepared + 1 /\ prepared' = prepared + 1
    <3>1. prepared + 1 \in References /\ gold' = gold
      BY <1>0, <2>2 DEF ReadReference, References
    <3>2. prepared + 1 \notin Known
      BY <1>0 DEF IInv, NamesFresh
    <3>. QED
      BY <1>0, <2>2, <3>1, <3>2 DEF Known
  <2>. QED
    BY <1>4, <1>5, <2>1, <2>2
<1>6. ASSUME NEW d \in Clients, NEW e \in Clients,
             call'[d].step = "create", call'[e].step = "create", call'[d].ref = call'[e].ref
      PROVE  d = e
  <2>1. CASE call'[d] = call[d] /\ call'[e] = call[e]
    BY <1>6, <2>1 DEF IInv, NamesFresh
  <2>2. ASSUME NEW u \in Clients, NEW v \in Clients, u # v, ReadReference(u), call'[v].step = "create"
        PROVE  call'[v].ref # prepared + 1
    <3>1. ClientStep(u)
      BY <2>2 DEF ClientStep
    <3>2. call'[v] = call[v]
      BY <2>2, <3>1, CallAfter DEF IInv
    <3>3. call[v].ref <= prepared /\ call[v].ref \in References
      BY <2>2, <3>2, CallTyped DEF IInv, NamesFresh
    <3>. QED
      BY <1>0, <3>2, <3>3 DEF References
  <2>. QED
    BY <1>4, <1>6, <2>1, <2>2
<1>. QED
  BY <1>3, <1>5, <1>6 DEF NamesFresh

\* Nobody writes to the store between the two writes of a binding.
LEMMA BindingStep == IInv /\ [Next]_vars => OneBinding'
<1>. SUFFICES ASSUME IInv, [Next]_vars PROVE OneBinding'
  OBVIOUS
<1>1. ASSUME NEW d \in Clients, call'[d].step = "record"
      PROVE  call'[d] = call[d] \/ WriteCase(d)
  BY <1>1, CallsOutside, CallAfter DEF IInv
<1>2. ASSUME NEW d \in Clients, NEW e \in Clients,
             call'[d].step = "record", call'[e].step = "record"
      PROVE  d = e
  <2>1. CASE call'[d] = call[d] /\ call'[e] = call[e]
    BY <1>2, <2>1 DEF IInv, OneBinding
  <2>2. ASSUME NEW u \in Clients, NEW v \in Clients, u # v, WriteCase(u) PROVE call'[v].step # "record"
    <3>1. ClientStep(u)
      BY <2>2 DEF ClientStep
    <3>2. call'[v] = call[v]
      BY <2>2, <3>1, CallAfter DEF IInv
    <3>. QED
      BY <2>2, <3>2 DEF WriteCase, LockFree
  <2>. QED
    BY <1>1, <1>2, <2>1, <2>2
<1>3. ASSUME NEW d \in Clients, call'[d].step = "record"
      PROVE  call'[d].case \in cases' /\ gold'[call'[d].case.ref].case = NULL
  <2>1. CASE call'[d] = call[d]
    <3>1. ~LockFree
      BY <1>3, <2>1 DEF LockFree
    <3>2. ASSUME NEW c \in Clients, WriteRecord(c) PROVE FALSE
      <4>1. c = d
        BY <1>3, <2>1, <3>2 DEF WriteRecord, IInv, OneBinding
      <4>2. call'[d] = Idle
        BY <3>2, <4>1 DEF WriteRecord, IInv, TypeOK
      <4>. QED
        BY <1>3, <4>2 DEF Idle
    <3>3. UNCHANGED <<gold, cases>>
      BY <3>1, <3>2, StoreSteps DEF ReviewReference, Create, WriteCase
    <3>. QED
      BY <1>3, <2>1, <3>3 DEF IInv, OneBinding
  <2>2. CASE WriteCase(d)
    <3>1. call[d] = [step |-> call[d].step, case |-> call[d].case]
      BY <2>2, CallTyped DEF WriteCase, IInv
    <3>2. [call[d] EXCEPT !.step = "record"].case = call[d].case
      BY <3>1
    <3>3. call'[d].case = call[d].case
      BY <2>2, <3>2 DEF WriteCase, IInv, TypeOK
    <3>. QED
      BY <2>2, <3>3 DEF WriteCase
  <2>. QED
    BY <1>1, <1>3, <2>1, <2>2
<1>. QED
  BY <1>2, <1>3 DEF OneBinding

\* The identity of a case is used once, and what requests hold is known.
LEMMA CasesStep == IInv /\ [Next]_vars => CasesDistinct'
<1>. SUFFICES ASSUME IInv, [Next]_vars PROVE CasesDistinct'
  OBVIOUS
<1>1. Known \subseteq Known' /\ cases \subseteq cases'
  BY StoreKept
<1>2. \/ cases' = cases
      \/ \E c \in Clients : WriteCase(c)
  BY StoreSteps DEF ReviewReference, Create, WriteRecord
<1>3. ASSUME NEW f \in cases' PROVE f.ref \in Known'
  <2>1. ASSUME NEW c \in Clients, WriteCase(c) PROVE call[c].case.ref \in Known
    BY <2>1 DEF WriteCase, IInv, CasesDistinct
  <2>. QED
    BY <1>1, <1>2, <1>3, <2>1 DEF WriteCase, IInv, CasesDistinct
<1>4. ASSUME NEW f \in cases', NEW g \in cases', SameCase(f, g) PROVE f = g
  <2>1. CASE cases' = cases
    BY <1>4, <2>1 DEF IInv, CasesDistinct
  <2>2. ASSUME NEW c \in Clients, WriteCase(c) PROVE f = g
    <3>1. /\ cases' = cases \cup {call[c].case}
          /\ \A h \in cases : SameCase(call[c].case, h) => h = call[c].case
      BY <2>2 DEF WriteCase
    <3>2. SameCase(g, f)
      BY <1>4 DEF SameCase
    <3>. QED
      BY <1>4, <3>1, <3>2 DEF IInv, CasesDistinct
  <2>. QED
    BY <1>2, <2>1, <2>2
<1>5. ASSUME NEW d \in Clients, call'[d].step \in {"bind", "record"}
      PROVE  call'[d].case.ref \in Known'
  <2>1. CASE call'[d] = call[d]
    BY <1>1, <1>5, <2>1 DEF IInv, CasesDistinct
  <2>2. ASSUME NEW r \in Known, NEW h \in Contents, StartCompile(d, r, h)
        PROVE  call'[d].case.ref \in Known'
    BY <1>1, <2>2 DEF StartCompile, IInv, TypeOK
  <2>3. CASE WriteCase(d)
    <3>1. call[d] = [step |-> call[d].step, case |-> call[d].case]
      BY <2>3, CallTyped DEF WriteCase, IInv
    <3>2. [call[d] EXCEPT !.step = "record"].case = call[d].case
      BY <3>1
    <3>3. call'[d].case = call[d].case
      BY <2>3, <3>2 DEF WriteCase, IInv, TypeOK
    <3>. QED
      BY <1>1, <2>3, <3>3 DEF WriteCase, IInv, CasesDistinct
  <2>. QED
    BY <1>5, <2>1, <2>2, <2>3, CallsOutside, CallAfter DEF IInv
<1>6. ASSUME NEW d \in Clients, call'[d].step = "matrix" PROVE call'[d].case \in cases'
  <2>1. CASE call'[d] = call[d]
    BY <1>1, <1>6, <2>1 DEF IInv, CasesDistinct
  <2>2. ASSUME NEW f \in cases, StartMatrix(d, f) PROVE call'[d].case \in cases'
    BY <1>1, <2>2 DEF StartMatrix, IInv, TypeOK
  <2>. QED
    BY <1>6, <2>1, <2>2, CallsOutside, CallAfter DEF IInv
<1>. QED
  BY <1>3, <1>4, <1>5, <1>6 DEF CasesDistinct, SameCase

\* A case enters a record only at the end of its binding.
LEMMA CompiledStep == IInv /\ [Next]_vars => CompiledIsAccepted'
<1>. SUFFICES ASSUME IInv, [Next]_vars, NEW r \in Known', gold'[r].case # NULL
              PROVE  /\ gold'[r].case.ref = r
                     /\ gold'[r].case \in cases'
                     /\ Accepted(r)'
  BY DEF CompiledIsAccepted
<1>0. r \in References /\ gold'[r] # NULL /\ cases \subseteq cases'
  BY StoreKept DEF Known
<1>1. CASE gold'[r] = gold[r]
  <2>1. r \in Known /\ gold[r].case # NULL
    BY <1>0, <1>1 DEF Known
  <2>. QED
    BY <1>0, <1>1, <2>1 DEF IInv, CompiledIsAccepted, Accepted
<1>2. ASSUME NEW q \in Known, NEW o \in GoldReviewOutcome, ReviewReference(q, o)
      PROVE  gold'[r] = gold[r]
  BY <1>0, <1>2, ReviewWrites
<1>3. ASSUME NEW c \in Clients, Create(c) PROVE gold'[r] = gold[r]
  BY <1>0, <1>3, CreateWrites
<1>4. ASSUME NEW c \in Clients, WriteRecord(c), gold'[r] # gold[r]
      PROVE  /\ gold'[r].case.ref = r
             /\ gold'[r].case \in cases'
             /\ Accepted(r)'
  <2>1. r = call[c].case.ref
    BY <1>0, <1>4, RecordWrites
  <2>. QED
    BY <1>0, <1>4, <2>1, RecordWrites DEF Accepted
<1>5. ASSUME NEW c \in Clients, WriteCase(c) PROVE gold'[r] = gold[r]
  BY <1>5 DEF WriteCase
<1>. QED
  BY <1>1, <1>2, <1>3, <1>4, <1>5, StoreSteps

\* The case that was read is the one the reference names, as identities are
\* used once.
LEMMA MatricesStep == IInv /\ [Next]_vars => MatricesAreBound'
<1>. SUFFICES ASSUME IInv, [Next]_vars, NEW f \in matrices'
              PROVE  f \in cases' /\ f.ref \in Known' /\ gold'[f.ref].case = f
  BY DEF MatricesAreBound
<1>1. ASSUME NEW g \in cases, g.ref \in Known, gold[g.ref].case = g
      PROVE  g \in cases' /\ g.ref \in Known' /\ gold'[g.ref].case = g
  <2>1. g # NULL
    BY GoldAssumption DEF IInv, TypeOK
  <2>. QED
    BY <1>1, <2>1, StoreKept
<1>2. CASE f \in matrices
  BY <1>1, <1>2 DEF IInv, MatricesAreBound
<1>3. CASE f \notin matrices
  <2>1. PICK c \in Clients : SaveMatrix(c)
    BY <1>3 DEF Next, Review, Midnight, Annotate, ReviewLabel, SavePlan, PrepareContext,
       ReviewContext, ReviewReference, ClientStep, StartPrepare, ReadLabel, ReadReference, Create,
       StartCompile, WriteCase, WriteRecord, StartMatrix, Leave, vars
  <2>2. f = call[c].case /\ f \in cases
    BY <1>3, <2>1 DEF SaveMatrix, IInv, CasesDistinct
  <2>3. PICK r \in Known : gold[r].case # NULL /\ SameCase(gold[r].case, f)
    BY <2>1, <2>2 DEF SaveMatrix
  <2>4. gold[r].case \in cases /\ gold[r].case.ref = r
    BY <2>3 DEF IInv, CompiledIsAccepted
  <2>5. gold[r].case = f
    BY <2>2, <2>3, <2>4 DEF IInv, CasesDistinct
  <2>. QED
    BY <1>1, <2>2, <2>4, <2>5
<1>. QED
  BY <1>2, <1>3

-----------------------------------------------------------------------------
LEMMA InitIInv == Init => IInv
<1>. SUFFICES ASSUME Init PROVE IInv
  OBVIOUS
<1>1. TypeOK
  BY EmptySeq, GoldAssumption DEF Init, TypeOK, Calls
<1>2. Known = {} /\ \A c \in Clients : call[c].step = "idle"
  BY DEF Init, Known, Idle
<1>. QED
  BY <1>1, <1>2 DEF Init, IInv, BundlesReviewed, RequestsReviewed, NamesFresh, OneBinding,
     CasesDistinct, CompiledIsAccepted, MatricesAreBound

LEMMA StepIInv == IInv /\ [Next]_vars => IInv'
  BY TypeStep, BundlesStep, RequestsStep, NamesStep, BindingStep, CasesStep, CompiledStep,
     MatricesStep DEF IInv

\* The inductive invariant.
THEOREM Inductive == Spec => []IInv
  BY InitIInv, StepIInv, PTL DEF Spec

\* Every value has its type, for any number of experiments, contents and clients.
THEOREM TypeCorrect == Spec => []TypeOK
<1>1. IInv => TypeOK
  BY DEF IInv
<1>. QED
  BY <1>1, Inductive, PTL

\* What prepare_gold_reference binds was accepted, whatever annotators, planners
\* and reviewers did between its reads.
THEOREM BundlesAccepted == Spec => []BundlesReviewed
<1>1. IInv => BundlesReviewed
  BY DEF IInv
<1>. QED
  BY <1>1, Inductive, PTL

\* bind_case never compiles a reference its latest review does not accept, nor
\* one whose case is missing.
THEOREM CompiledAccepted == Spec => []CompiledIsAccepted
<1>1. IInv => CompiledIsAccepted
  BY DEF IInv
<1>. QED
  BY <1>1, Inductive, PTL

\* compile_matched_plan never uses a case that no reference binds.
THEOREM MatricesBound == Spec => []MatricesAreBound
<1>1. IInv => MatricesAreBound
  BY DEF IInv
<1>. QED
  BY <1>1, Inductive, PTL

\* Nothing changes a compiled reference or removes its case.
THEOREM CompiledFrozen == Spec => CompiledIsFrozen
<1>1. IInv /\ [Next]_vars =>
        [\A r \in Known : gold[r].case # NULL => gold'[r] = gold[r] /\ gold[r].case \in cases']_vars
  <2>. SUFFICES ASSUME IInv, [Next]_vars, NEW r \in Known, gold[r].case # NULL
                PROVE  gold'[r] = gold[r] /\ gold[r].case \in cases'
    OBVIOUS
  <2>. QED
    BY StoreKept DEF IInv, CompiledIsAccepted
<1>. QED
  BY <1>1, Inductive, PTL DEF Spec, CompiledIsFrozen
=============================================================================
