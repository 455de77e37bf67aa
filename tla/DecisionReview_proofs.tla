----------------------- MODULE DecisionReview_proofs ------------------------
(***************************************************************************)
(* Proofs about DecisionReview, for every set of threads, actors, keys and *)
(* choices and every bound: its invariants, and that it implements the     *)
(* DecisionLedger.                                                         *)
(***************************************************************************)
EXTENDS DecisionReview, TLAPS

\* What a request may rely on between its check and its answer.
CallFits(t) ==
    /\ call[t].step = "replace" =>
         /\ ~Holds(call[t].base, call[t].request)
         /\ State(call[t].base) \notin FINAL_STATES
    /\ call[t].step = "answer" => call[t].request \in Recorded

CallsFit == \A t \in Threads : CallFits(t)

IInv == TypeOK /\ ReviewedOnce /\ AnswersStayTrue /\ CallsFit

-----------------------------------------------------------------------------
\* The state an outcome leaves, and the state of a record, are states of a
\* proposal between two requests.
LEMMA StatesTyped ==
    /\ \A c \in Choices : After(c) \in States
    /\ \A r \in Seq(Entries) : State(r) \in States
<1>1. ASSUME NEW c \in Choices PROVE After(c) \in States
  BY ReviewAssumption DEF After, States, Outcomes
<1>2. ASSUME NEW r \in Seq(Entries) PROVE State(r) \in States
  <2>1. CASE r = <<>>
    BY <2>1 DEF State, States
  <2>2. CASE r # <<>>
    <3>1. Len(r) \in 1..Len(r)
      BY <2>2
    <3>2. r[Len(r)] \in Entries
      BY <3>1
    <3>. QED
      BY <2>2, <3>2 DEF State, Entries
  <2>. QED
    BY <2>1, <2>2
<1>. QED
  BY <1>1, <1>2

\* A review is appended behind the entries of the record.
LEMMA ExtendedAppends ==
    ASSUME NEW r \in Seq(Entries), NEW q \in Requests
    PROVE  /\ Extended(r, q) \in Seq(Entries)
           /\ Len(Extended(r, q)) = Len(r) + 1
           /\ \A n \in 1..Len(r) : Extended(r, q)[n] = r[n]
           /\ Extended(r, q)[Len(r) + 1].request = q
           /\ State(Extended(r, q)) = IF q.kind = "resolution" THEN After(q.choice)
                                      ELSE State(r)
<1>. DEFINE e == [request |-> q,
                  to |-> IF q.kind = "resolution" THEN After(q.choice) ELSE State(r)]
<1>1. q.choice \in Choices
  BY DEF Requests
<1>2. e \in Entries
  BY <1>1, StatesTyped DEF Entries
<1>3. Extended(r, q) = Append(r, e)
  BY DEF Extended
<1>. HIDE DEF e
<1>4. /\ Extended(r, q) \in Seq(Entries)
      /\ Len(Extended(r, q)) = Len(r) + 1
      /\ \A n \in 1..Len(r) : Extended(r, q)[n] = r[n]
      /\ Extended(r, q)[Len(r) + 1] = e
  BY <1>2, <1>3
<1>5. Extended(r, q) # <<>>
  BY <1>4
<1>6. State(Extended(r, q)) = e.to
  BY <1>4, <1>5 DEF State
<1>. QED
  BY <1>4, <1>6 DEF e

\* The requests of a record that was extended.
LEMMA ExtendedRequests ==
    ASSUME NEW q \in Requests, record \in Seq(Entries), record' = Extended(record, q)
    PROVE  Recorded' = Recorded \cup {q}
<1>1. /\ Len(record') = Len(record) + 1
      /\ \A n \in 1..Len(record) : record'[n] = record[n]
      /\ record'[Len(record) + 1].request = q
  BY ExtendedAppends
<1>2. 1..Len(record') = 1..Len(record) \cup {Len(record) + 1}
  BY <1>1
<1>. QED
  BY <1>1, <1>2 DEF Recorded

\* The request and the record a thread works on.
LEMMA CallTyped ==
    ASSUME TypeOK, NEW t \in Threads
    PROVE  /\ call[t].step = "replace" => call[t].request \in Requests /\ call[t].base \in Seq(Entries)
           /\ call[t].step = "answer" => call[t].request \in Requests
  BY DEF TypeOK, Calls, Idle

-----------------------------------------------------------------------------
\* A step that leaves the record alone and changes one call preserves the
\* invariant if the new call fits.
LEMMA CallStep ==
    ASSUME IInv, NEW t \in Threads, NEW c \in Calls \cup {Idle},
           call' = [call EXCEPT ![t] = c], UNCHANGED <<record, told>>,
           c.step = "replace" => /\ ~Holds(c.base, c.request)
                                 /\ State(c.base) \notin FINAL_STATES,
           c.step = "answer" => c.request \in Recorded
    PROVE  IInv'
<1>1. TypeOK'
  BY DEF IInv, TypeOK
<1>2. ReviewedOnce' /\ AnswersStayTrue'
  BY DEF IInv, ReviewedOnce, AnswersStayTrue, Recorded
<1>3. ASSUME NEW u \in Threads PROVE CallFits(u)'
  <2>1. call'[u] = IF u = t THEN c ELSE call[u]
    BY DEF IInv, TypeOK
  <2>2. Recorded' = Recorded
    BY DEF Recorded
  <2>3. CASE u = t
    BY <2>1, <2>2, <2>3 DEF CallFits
  <2>4. CASE u # t
    BY <2>1, <2>2, <2>4 DEF CallFits, IInv, CallsFit
  <2>. QED
    BY <2>3, <2>4
<1>. QED
  BY <1>1, <1>2, <1>3 DEF IInv, CallsFit

LEMMA InitIInv == Init => IInv
<1>. SUFFICES ASSUME Init PROVE IInv
  OBVIOUS
<1>1. TypeOK
  BY DEF Init, TypeOK
<1>2. ReviewedOnce /\ AnswersStayTrue
  BY DEF Init, ReviewedOnce, AnswersStayTrue
<1>3. CallsFit
  BY DEF Init, CallsFit, CallFits, Idle
<1>. QED
  BY <1>1, <1>2, <1>3 DEF IInv

LEMMA RetryIInv ==
    ASSUME IInv, NEW t \in Threads, NEW q \in Requests, Retry(t, q) PROVE IInv'
<1>. DEFINE c == [step |-> "answer", request |-> q]
<1>1. c \in Calls
  BY DEF Calls
<1>2. q \in Recorded
  BY DEF Retry, Recorded
<1>. QED
  BY <1>1, <1>2, CallStep DEF Retry

LEMMA CheckIInv ==
    ASSUME IInv, NEW t \in Threads, NEW q \in Requests, Check(t, q) PROVE IInv'
<1>. DEFINE c == [step |-> "replace", request |-> q, base |-> record]
<1>1. c \in Calls
  BY DEF Calls, IInv, TypeOK
<1>. QED
  BY <1>1, CallStep DEF Check

LEMMA ReplaceIInv ==
    ASSUME IInv, NEW t \in Threads, Replace(t) PROVE IInv'
<1>. DEFINE q == call[t].request
            c == [step |-> "answer", request |-> q]
<1>1. /\ q \in Requests
      /\ record \in Seq(Entries)
      /\ record' = Extended(record, q)
      /\ call' = [call EXCEPT ![t] = c]
      /\ told' = told
  BY CallTyped DEF IInv, TypeOK, Replace
<1>2. ~Holds(record, q) /\ State(record) \notin FINAL_STATES
  BY DEF IInv, CallsFit, CallFits, Replace
<1>. HIDE DEF q
<1>3. /\ record' \in Seq(Entries)
      /\ Len(record') = Len(record) + 1
      /\ \A n \in 1..Len(record) : record'[n] = record[n]
      /\ record'[Len(record) + 1].request = q
  BY <1>1, ExtendedAppends
<1>4. Recorded' = Recorded \cup {q}
  BY <1>1, ExtendedRequests
<1>5. TypeOK'
  <2>1. c \in Calls
    BY <1>1 DEF Calls
  <2>. QED
    BY <1>1, <1>3, <2>1 DEF IInv, TypeOK
<1>6. ReviewedOnce'
  <2>. SUFFICES ASSUME NEW m \in 1..Len(record'), NEW n \in 1..Len(record'), m < n
                PROVE  /\ record'[m].to \notin FINAL_STATES
                       /\ <<record'[m].request.kind, record'[m].request.key>>
                             # <<record'[n].request.kind, record'[n].request.key>>
    BY DEF ReviewedOnce
  <2>1. m \in 1..Len(record) /\ record'[m] = record[m] /\ Len(record) \in Nat
    BY <1>1, <1>3
  <2>2. CASE n <= Len(record)
    <3>1. n \in 1..Len(record) /\ record'[n] = record[n]
      BY <1>3, <2>1, <2>2
    <3>. QED
      BY <2>1, <3>1 DEF IInv, ReviewedOnce
  <2>3. CASE n = Len(record) + 1
    <3>1. record[m].to \notin FINAL_STATES
      <4>1. CASE m = Len(record)
        BY <1>2, <2>1, <4>1 DEF State
      <4>2. CASE m < Len(record)
        <5>1. Len(record) \in 1..Len(record)
          BY <2>1
        <5>. QED
          BY <2>1, <4>2, <5>1 DEF IInv, ReviewedOnce
      <4>. QED
        BY <2>1, <4>1, <4>2
    <3>2. ~(record[m].request.kind = q.kind /\ record[m].request.key = q.key)
      BY <1>2, <2>1 DEF Holds
    <3>3. record'[n].request = q
      BY <1>3, <2>3
    <3>. QED
      BY <2>1, <3>1, <3>2, <3>3
  <2>. QED
    BY <1>3, <2>1, <2>2, <2>3
<1>7. AnswersStayTrue'
  BY <1>1, <1>4 DEF IInv, AnswersStayTrue
<1>8. ASSUME NEW u \in Threads PROVE CallFits(u)'
  <2>1. call'[u] = IF u = t THEN c ELSE call[u]
    BY <1>1 DEF IInv, TypeOK
  <2>2. CASE u = t
    BY <1>4, <2>1, <2>2 DEF CallFits
  <2>3. CASE u # t
    BY <1>4, <2>1, <2>3 DEF CallFits, IInv, CallsFit
  <2>. QED
    BY <2>2, <2>3
<1>. QED
  BY <1>5, <1>6, <1>7, <1>8 DEF IInv, CallsFit

LEMMA AnswerIInv ==
    ASSUME IInv, NEW t \in Threads, Answer(t) PROVE IInv'
<1>1. call[t].request \in Requests /\ call[t].request \in Recorded
  BY CallTyped DEF IInv, CallsFit, CallFits, Answer
<1>2. TypeOK'
  BY <1>1 DEF IInv, TypeOK, Answer
<1>3. ReviewedOnce' /\ AnswersStayTrue'
  BY <1>1 DEF IInv, ReviewedOnce, AnswersStayTrue, Recorded, Answer
<1>4. ASSUME NEW u \in Threads PROVE CallFits(u)'
  <2>1. call'[u] = IF u = t THEN Idle ELSE call[u]
    BY DEF IInv, TypeOK, Answer
  <2>2. Recorded' = Recorded
    BY DEF Recorded, Answer
  <2>3. CASE u = t
    BY <2>1, <2>3 DEF CallFits, Idle
  <2>4. CASE u # t
    BY <2>1, <2>2, <2>4 DEF CallFits, IInv, CallsFit
  <2>. QED
    BY <2>3, <2>4
<1>. QED
  BY <1>2, <1>3, <1>4 DEF IInv, CallsFit

\* A request that ends without an answer: Conflict and Crash.
LEMMA DropIInv ==
    ASSUME IInv, NEW t \in Threads, call' = [call EXCEPT ![t] = Idle],
           UNCHANGED <<record, told>>
    PROVE  IInv'
  BY CallStep DEF Idle

LEMMA NextIInv == IInv /\ [Next]_vars => IInv'
<1>. SUFFICES ASSUME IInv, [Next]_vars PROVE IInv'
  OBVIOUS
<1>1. ASSUME NEW t \in Threads, NEW q \in Requests, Retry(t, q) PROVE IInv'
  BY <1>1, RetryIInv
<1>2. ASSUME NEW t \in Threads, NEW q \in Requests, Check(t, q) PROVE IInv'
  BY <1>2, CheckIInv
<1>3. ASSUME NEW t \in Threads, Replace(t) PROVE IInv'
  BY <1>3, ReplaceIInv
<1>4. ASSUME NEW t \in Threads, Conflict(t) PROVE IInv'
  BY <1>4, DropIInv DEF Conflict
<1>5. ASSUME NEW t \in Threads, Answer(t) PROVE IInv'
  BY <1>5, AnswerIInv
<1>6. ASSUME NEW t \in Threads, Crash(t) PROVE IInv'
  BY <1>6, DropIInv DEF Crash
<1>7. CASE UNCHANGED vars
  BY <1>7 DEF IInv, TypeOK, ReviewedOnce, AnswersStayTrue, CallsFit, CallFits,
              Recorded, vars
<1>. QED
  BY <1>1, <1>2, <1>3, <1>4, <1>5, <1>6, <1>7 DEF Next

-----------------------------------------------------------------------------
\* The inductive invariant: types, the two promises, and that what a request
\* checked before its replacement still holds of the record it was checked on.
THEOREM Inductive == Spec => []IInv
  BY InitIInv, NextIInv, PTL DEF Spec

\* The record, the calls and the answers keep their types.
THEOREM TypeCorrect == Spec => []TypeOK
<1>1. IInv => TypeOK
  BY DEF IInv
<1>. QED
  BY <1>1, Inductive, PTL

\* A key acts once, and nothing is recorded behind a final outcome: the checks
\* are made outside the lock, but of the record that the replacement compares.
THEOREM EachReviewOnce == Spec => []ReviewedOnce
<1>1. IInv => ReviewedOnce
  BY DEF IInv
<1>. QED
  BY <1>1, Inductive, PTL

\* No replacement loses a review somebody was told of.
THEOREM NothingLost == Spec => []AnswersStayTrue
<1>1. IInv => AnswersStayTrue
  BY DEF IInv
<1>. QED
  BY <1>1, Inductive, PTL

-----------------------------------------------------------------------------
\* A key of the record of a kind is a key of the ledger.
LEMMA NewToLedger ==
    ASSUME NEW q, ~Holds(record, q)
    PROVE  \A p \in Recorded : <<p.kind, p.key>> # <<q.kind, q.key>>
  BY DEF Holds, Recorded

LEMMA InitImplements == Init => Ledger!Init
  BY DEF Init, Ledger!Init, State, Recorded

\* Replace is one review of the ledger; every other step is invisible to it.
LEMMA StepImplements ==
    IInv /\ [Next]_vars => [Ledger!Next]_<<State(record), Recorded>>
<1>. SUFFICES ASSUME IInv, [Next]_vars
              PROVE  [Ledger!Next]_<<State(record), Recorded>>
  OBVIOUS
<1>1. ASSUME NEW t \in Threads, Replace(t) PROVE Ledger!Next
  <2>. DEFINE q == call[t].request
  <2>1. /\ q \in Requests
        /\ record \in Seq(Entries)
        /\ record' = Extended(record, q)
    BY <1>1, CallTyped DEF IInv, TypeOK, Replace
  <2>2. ~Holds(record, q) /\ State(record) \notin FINAL_STATES
    BY <1>1 DEF IInv, CallsFit, CallFits, Replace
  <2>. HIDE DEF q
  <2>3. Recorded' = Recorded \cup {q}
    BY <2>1, ExtendedRequests
  <2>4. State(record)' = IF q.kind = "resolution" THEN After(q.choice) ELSE State(record)
    BY <2>1, ExtendedAppends
  <2>5. \A p \in Recorded : <<p.kind, p.key>> # <<q.kind, q.key>>
    BY <2>2, NewToLedger
  <2>6. Ledger!Record(q)
    BY <2>2, <2>3, <2>4, <2>5 DEF Ledger!Record
  <2>. QED
    BY <2>1, <2>6 DEF Ledger!Next
<1>2. CASE UNCHANGED record
  BY <1>2 DEF State, Recorded
<1>3. \/ \E t \in Threads : Replace(t)
      \/ UNCHANGED record
  BY DEF Next, vars, Retry, Check, Conflict, Answer, Crash
<1>. QED
  BY <1>1, <1>2, <1>3

\* Requests that overlap behave as if each were one atomic review or none.
THEOREM LedgerImplemented == Spec => ImplementsLedger
<1>. QED
  BY InitImplements, StepImplements, Inductive, PTL DEF Spec, ImplementsLedger, Ledger!Spec
=============================================================================
