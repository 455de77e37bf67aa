------------------------ MODULE WorkflowCycle_proofs ------------------------
(***************************************************************************)
(* Proofs about WorkflowCycle, for every number of days and minutes, every *)
(* set of threads and clients and every bound: its types, and that the     *)
(* clock waits for the review.                                             *)
(***************************************************************************)
EXTENDS WorkflowCycle, TLAPS

\* A running clock has no proposal to wait for: every review starts from a
\* pause, since the proposal of a loss pauses the clock in the same second.
RunningIsCleared == running => Unresolved = {}

\* Days to come have no history, and a running clock may close its day.
ClosesBounded ==
    /\ \A d \in Days : d > day => closes[d] = 0
    /\ running => closes[day] < MaxCloses

IInv == TypeOK /\ RunningIsCleared /\ ClosesBounded

-----------------------------------------------------------------------------
\* A step that touches neither the clock nor the records, and leaves the clock
\* stopped unless the day may still close and no proposal waits.
LEMMA OtherStep ==
    ASSUME IInv, TypeOK', UNCHANGED <<day, closes>>, Unresolved' = Unresolved,
           running' => running \/ (Unresolved = {} /\ closes[day] < MaxCloses)
    PROVE  IInv'
  BY DEF IInv, RunningIsCleared, ClosesBounded

\* The rest of a second, in which a loss may have been proposed.
LEMMA FinishKeeps ==
    ASSUME IInv, running, NEW runningNow \in BOOLEAN,
           NEW statusNow \in {"ready", "running", "paused", "paused_for_review", "complete"},
           Finish(runningNow, statusNow)
    PROVE  /\ day' \in Days
           /\ minute' \in 0..MinutesPerDay
           /\ running' \in BOOLEAN
           /\ status' \in {"ready", "running", "paused", "paused_for_review", "complete"}
           /\ closes' \in [Days -> 0..MaxCloses]
           /\ running' => runningNow
           /\ ClosesBounded'
<1>1. /\ day \in Nat /\ day <= LastDay /\ LastDay \in Nat
      /\ closes \in [Days -> 0..MaxCloses]
      /\ closes[day] < MaxCloses
      /\ MaxCloses \in Nat \ {0}
      /\ \A d \in Days : d > day => closes[d] = 0
  BY CycleAssumption DEF IInv, TypeOK, ClosesBounded, Days
<1>2. minute \in 0..MinutesPerDay /\ MinutesPerDay \in Nat \ {0}
  BY CycleAssumption DEF IInv, TypeOK
<1>3. NextMinute \in 0..MinutesPerDay
  BY <1>2 DEF NextMinute
<1>4. CASE NextMinute < MinutesPerDay
  <2>1. /\ minute' = NextMinute
        /\ running' = runningNow
        /\ status' = statusNow
        /\ UNCHANGED <<day, closes>>
    BY <1>4 DEF Finish
  <2>. QED
    BY <1>1, <1>3, <2>1 DEF ClosesBounded, Days
<1>5. CASE ~(NextMinute < MinutesPerDay)
  <2>1. /\ closes' = [closes EXCEPT ![day] = @ + 1]
        /\ day' = IF MoreDays THEN day + 1 ELSE day
        /\ minute' = IF MoreDays THEN 0 ELSE MinutesPerDay
        /\ running' = (MoreDays /\ runningNow)
        /\ status' = IF MoreDays THEN statusNow ELSE "complete"
    BY <1>5 DEF Finish
  <2>2. closes' \in [Days -> 0..MaxCloses]
    <3>1. closes[day] + 1 \in 0..MaxCloses
      BY <1>1 DEF Days
    <3>. QED
      BY <1>1, <2>1, <3>1
  <2>3. \A d \in Days : d > day => closes'[d] = 0
    BY <1>1, <2>1 DEF Days
  <2>4. CASE MoreDays
    <3>1. day' = day + 1 /\ day' \in Days
      BY <1>1, <2>1, <2>4 DEF MoreDays, Days
    <3>4. minute' = 0 /\ status' = statusNow
      BY <2>1, <2>4
    <3>5. running' = runningNow
      BY <2>1, <2>4
    <3>6. 0 \in 0..MinutesPerDay
      BY <1>2
    <3>2. closes'[day'] = 0
      BY <1>1, <2>3, <3>1
    <3>3. ClosesBounded'
      BY <1>1, <2>3, <3>1, <3>2 DEF ClosesBounded, Days
    <3>. QED
      BY <2>2, <3>1, <3>3, <3>4, <3>5, <3>6
  <2>5. CASE ~MoreDays
    <3>1. day' = day /\ day \in Days /\ minute' = MinutesPerDay /\ status' = "complete"
      BY <1>1, <2>1, <2>5 DEF Days
    <3>3. running' = FALSE
      BY <2>1, <2>5
    <3>2. ClosesBounded'
      BY <2>3, <3>1, <3>3 DEF ClosesBounded
    <3>4. MinutesPerDay \in 0..MinutesPerDay
      BY <1>2
    <3>. QED
      BY <2>2, <3>1, <3>2, <3>3, <3>4
  <2>. QED
    BY <2>4, <2>5
<1>. QED
  BY <1>4, <1>5

\* The state of a reviewed record is a record state.
LEMMA ReviewTyped ==
    /\ Reviewed \subseteq RecordStates
    /\ \A s \in RecordStates : StatusAfterReview(s) \in {"paused", "paused_for_review"}
  BY DEF Reviewed, RecordStates, StatusAfterReview

-----------------------------------------------------------------------------
LEMMA InitIInv == Init => IInv
<1>. SUFFICES ASSUME Init PROVE IInv
  OBVIOUS
<1>1. TypeOK
  <2>1. day \in Days /\ minute \in 0..MinutesPerDay
    BY CycleAssumption DEF Init, Days
  <2>2. closes \in [Days -> 0..MaxCloses]
    BY CycleAssumption DEF Init
  <2>3. record \in [Days -> RecordStates]
    BY DEF Init, RecordStates
  <2>4. call \in [Clients -> {"idle", "start", "ensure", "spawn"}]
    BY DEF Init
  <2>5. running \in BOOLEAN /\ closed \in BOOLEAN
    BY DEF Init
  <2>. QED
    BY <2>1, <2>2, <2>3, <2>4, <2>5 DEF Init, TypeOK
<1>2. RunningIsCleared /\ ClosesBounded
  BY DEF Init, RunningIsCleared, ClosesBounded
<1>. QED
  BY <1>1, <1>2 DEF IInv

\* Requests of the control endpoint.
LEMMA RequestIInv ==
    ASSUME IInv, NEW c \in Clients, Lookup(c) \/ Request(c) PROVE IInv'
<1>1. CASE Lookup(c)
  <2>1. TypeOK'
    BY <1>1 DEF IInv, TypeOK, Lookup, clock, decisions
  <2>. QED
    BY <1>1, <2>1, OtherStep DEF Lookup, clock, decisions, Unresolved, Proposed
<1>2. CASE Start(c)
  <2>1. Cleared \in BOOLEAN
    BY DEF Cleared
  <2>2. TypeOK'
    BY <1>2, <2>1 DEF IInv, TypeOK, Start, clock, decisions
  <2>3. running' => Unresolved = {} /\ closes[day] < MaxCloses
    BY <1>2 DEF Start, Cleared
  <2>. QED
    BY <1>2, <2>2, <2>3, OtherStep DEF Start, clock, decisions, Unresolved, Proposed
<1>3. CASE StartComplete(c)
  <2>1. TypeOK'
    BY <1>3 DEF IInv, TypeOK, StartComplete, clock, decisions
  <2>. QED
    BY <1>3, <2>1, OtherStep DEF StartComplete, clock, decisions, Unresolved, Proposed
<1>4. CASE EnsureThread(c)
  <2>1. TypeOK'
    BY <1>4 DEF IInv, TypeOK, EnsureThread, clock, decisions
  <2>. QED
    BY <1>4, <2>1, OtherStep DEF EnsureThread, clock, decisions, Unresolved, Proposed
<1>5. ASSUME NEW t \in Threads, SpawnThread(c, t) PROVE IInv'
  <2>1. TypeOK'
    BY <1>5 DEF IInv, TypeOK, SpawnThread, clock, decisions
  <2>. QED
    BY <1>5, <2>1, OtherStep DEF SpawnThread, clock, decisions, Unresolved, Proposed
<1>. QED
  BY <1>1, <1>2, <1>3, <1>4, <1>5 DEF Request

LEMMA PauseIInv == ASSUME IInv, Pause PROVE IInv'
<1>1. TypeOK'
  BY DEF IInv, TypeOK, Pause, clock, decisions, lifetime
<1>. QED
  BY <1>1, OtherStep DEF Pause, clock, decisions, Unresolved, Proposed

\* A review of an unresolved proposal finds the clock stopped.
LEMMA ReviewIInv ==
    ASSUME IInv, NEW d \in Days, NEW to \in Reviewed, Resolve(d, to) \/ ResolveInStore(d, to)
    PROVE  IInv'
<1>1. ~running /\ running' = running
  BY DEF Resolve, ResolveInStore, IInv, RunningIsCleared
<1>2. to \in RecordStates
  BY ReviewTyped
<1>3. status' = status \/ status' \in {"paused", "paused_for_review"}
  BY <1>2, ReviewTyped DEF Resolve, ResolveInStore
<1>4. TypeOK'
  BY <1>1, <1>2, <1>3 DEF IInv, TypeOK, Resolve, ResolveInStore, clock, lifetime
<1>. QED
  BY <1>1, <1>4 DEF IInv, RunningIsCleared, ClosesBounded, Resolve, ResolveInStore, clock

LEMMA ReplayIInv == ASSUME IInv, NEW d \in Days, ReplayResolve(d) PROVE IInv'
<1>1. status' \in {"paused", "paused_for_review"}
  BY ReviewTyped DEF IInv, TypeOK, ReplayResolve
<1>2. TypeOK'
  BY <1>1 DEF IInv, TypeOK, ReplayResolve, clock, decisions, lifetime
<1>. QED
  BY <1>2, OtherStep DEF ReplayResolve, clock, decisions, Unresolved, Proposed

\* One second of a loop thread.
LEMMA LoopIInv == ASSUME IInv, NEW t \in Threads, Loop(t) PROVE IInv'
<1>1. running /\ Unresolved = {}
  BY DEF Loop, Advance, Propose, ProposeFails, Ticking, IInv, RunningIsCleared
<1>2. CASE Advance(t)
  <2>1. Finish(running, status) /\ UNCHANGED <<losses, decisions, lifetime>>
    BY <1>2 DEF Advance
  <2>2. running \in BOOLEAN
        /\ status \in {"ready", "running", "paused", "paused_for_review", "complete"}
    BY DEF IInv, TypeOK
  <2>3. TypeOK' /\ ClosesBounded'
    BY <1>1, <2>1, <2>2, FinishKeeps DEF IInv, TypeOK, decisions, lifetime
  <2>4. Unresolved' = Unresolved
    BY <2>1 DEF Unresolved, Proposed, decisions
  <2>. QED
    BY <1>1, <2>3, <2>4 DEF IInv, RunningIsCleared
<1>3. CASE Propose(t)
  <2>1. /\ Finish(FALSE, "paused_for_review")
        /\ losses' = losses \cup {day}
        /\ record' = [record EXCEPT ![day] = "awaiting_review"]
        /\ UNCHANGED <<reviewed, lifetime>>
    BY <1>3 DEF Propose
  <2>2. /\ day' \in Days
        /\ minute' \in 0..MinutesPerDay
        /\ running' = FALSE
        /\ status' \in {"ready", "running", "paused", "paused_for_review", "complete"}
        /\ closes' \in [Days -> 0..MaxCloses]
        /\ ClosesBounded'
    BY <1>1, <2>1, FinishKeeps
  <2>3. TypeOK'
    BY <2>1, <2>2 DEF IInv, TypeOK, RecordStates, lifetime
  <2>. QED
    BY <2>2, <2>3 DEF IInv, RunningIsCleared
<1>4. CASE ProposeFails(t)
  <2>1. minute' \in 0..MinutesPerDay
    BY <1>4, CycleAssumption DEF ProposeFails, LossDue, IInv, TypeOK
  <2>2. TypeOK'
    BY <1>4, <2>1 DEF ProposeFails, IInv, TypeOK, decisions
  <2>. QED
    BY <1>4, <2>2, OtherStep DEF ProposeFails, decisions, Unresolved, Proposed
<1>. QED
  BY <1>2, <1>3, <1>4 DEF Loop

LEMMA EndIInv == ASSUME IInv, Close \/ \E t \in Threads : Exit(t) PROVE IInv'
<1>1. TypeOK'
  BY DEF IInv, TypeOK, Close, Exit, clock, decisions
<1>2. UNCHANGED <<day, closes, record>> /\ (running' => running)
  BY DEF Close, Exit, clock, decisions
<1>. QED
  BY <1>1, <1>2, OtherStep DEF Unresolved, Proposed

LEMMA NextIInv == IInv /\ [Next]_vars => IInv'
<1>. SUFFICES ASSUME IInv, [Next]_vars PROVE IInv'
  OBVIOUS
<1>1. CASE UNCHANGED vars
  <2>1. UNCHANGED <<day, minute, closes, losses, running, status, record, reviewed,
                    alive, thread, call, closed>>
    BY <1>1 DEF vars, clock, decisions, lifetime
  <2>. QED
    BY <2>1 DEF IInv, TypeOK, RunningIsCleared, ClosesBounded, Unresolved, Proposed
<1>. QED
  BY <1>1, RequestIInv, PauseIInv, ReviewIInv, ReplayIInv, LoopIInv, EndIInv DEF Next

-----------------------------------------------------------------------------
\* The inductive invariant: types, a running clock is cleared, and the bound on
\* closes is respected.
THEOREM Inductive == Spec => []IInv
  BY InitIInv, NextIInv, PTL DEF Spec

\* The session keeps its types, the bounded history of closes included.
THEOREM TypeCorrect == Spec => []TypeOK
<1>1. IInv => TypeOK
  BY DEF IInv
<1>. QED
  BY <1>1, Inductive, PTL

\* Only a loop thread moves the clock.
LEMMA OnlyLoopMoves ==
    ASSUME Next, ~(UNCHANGED clock) PROVE \E t \in Threads : Loop(t)
<1>1. \/ \E c \in Clients : Lookup(c) \/ Request(c)
      \/ Pause \/ Close
      \/ \E d \in Days : \/ ReplayResolve(d)
                         \/ \E to \in Reviewed : Resolve(d, to) \/ ResolveInStore(d, to)
      \/ \E t \in Threads : Loop(t) \/ Exit(t)
  BY DEF Next
<1>2. \A c \in Clients : Lookup(c) \/ Request(c) => UNCHANGED clock
  BY DEF Lookup, Request, Start, StartComplete, EnsureThread, SpawnThread
<1>3. Pause \/ Close => UNCHANGED clock
  BY DEF Pause, Close
<1>4. \A d \in Days : ReplayResolve(d) => UNCHANGED clock
  BY DEF ReplayResolve
<1>5. \A d \in Days, to \in Reviewed : Resolve(d, to) \/ ResolveInStore(d, to) => UNCHANGED clock
  BY DEF Resolve, ResolveInStore
<1>6. \A t \in Threads : Exit(t) => UNCHANGED clock
  BY DEF Exit
<1>. QED
  BY <1>1, <1>2, <1>3, <1>4, <1>5, <1>6

\* No interleaving of starts, reviews, retries and threads moves the clock past
\* a proposal that waits for a human.
THEOREM ReviewStopsClock == Spec => ClockWaitsForReview
<1>1. IInv /\ [Next]_vars => [Unresolved # {} => UNCHANGED clock]_vars
  <2>. SUFFICES ASSUME IInv, Next, Unresolved # {}, ~(UNCHANGED clock) PROVE FALSE
    OBVIOUS
  <2>1. PICK t \in Threads : Loop(t)
    BY OnlyLoopMoves
  <2>2. running
    BY <2>1 DEF Loop, Advance, Propose, ProposeFails, Ticking
  <2>. QED
    BY <2>2 DEF IInv, RunningIsCleared
<1>. QED
  BY <1>1, Inductive, PTL DEF Spec, ClockWaitsForReview

-----------------------------------------------------------------------------
(* Who moves the clock: the safety behind RunningClockEnds.                *)

ProposalsFollowLosses == Proposed \subseteq losses

\* A clock that runs has a thread, or a start request is on its way to make one:
\* not so after a deletion, or once the decision store failed a thread.
RunningIsCarried ==
    running /\ ~closed /\ ~Lost =>
        alive # {} \/ \E c \in Clients : call[c] \in {"ensure", "spawn"}

Carried == ProposalsFollowLosses /\ RunningIsCarried

\* A step that touches no record and leaves nothing that carries a clock behind.
LEMMA CarriedStep ==
    ASSUME Carried, UNCHANGED <<losses, record>>, closed => closed',
           running' /\ ~closed' =>
              \/ alive' # {} \/ \E c \in Clients : call'[c] \in {"ensure", "spawn"}
              \/ running /\ alive = {}
                   /\ \A c \in Clients : call[c] \notin {"ensure", "spawn"}
    PROVE  Carried'
  BY DEF Carried, ProposalsFollowLosses, RunningIsCarried, Lost, Proposed

LEMMA RequestCarried ==
    ASSUME IInv, Carried, NEW c \in Clients, Lookup(c) \/ Request(c)
    PROVE  Carried'
<1>1. UNCHANGED <<losses, record, closed>>
  BY DEF Lookup, Request, Start, StartComplete, EnsureThread, SpawnThread, clock, decisions
<1>2. call \in [Clients -> {"idle", "start", "ensure", "spawn"}]
  BY DEF IInv, TypeOK
<1>3. CASE Start(c)
  BY <1>1, <1>2, <1>3, CarriedStep DEF Start
<1>4. CASE Lookup(c) \/ StartComplete(c)
  <2>1. UNCHANGED <<running, alive>>
    BY <1>4 DEF Lookup, StartComplete
  <2>2. \A d \in Clients : call[d] \in {"ensure", "spawn"} => call'[d] = call[d]
    BY <1>2, <1>4 DEF Lookup, StartComplete
  <2>. QED
    BY <1>1, <2>1, <2>2, CarriedStep
<1>5. CASE EnsureThread(c)
  <2>1. alive' # {} \/ call'[c] = "spawn"
    BY <1>2, <1>5 DEF EnsureThread
  <2>. QED
    BY <1>1, <2>1, CarriedStep
<1>6. ASSUME NEW t \in Threads, SpawnThread(c, t) PROVE Carried'
  <2>1. alive' # {}
    BY <1>6 DEF SpawnThread
  <2>. QED
    BY <1>1, <2>1, CarriedStep
<1>. QED
  BY <1>3, <1>4, <1>5, <1>6 DEF Request

LEMMA ReviewCarried ==
    ASSUME IInv, Carried, NEW d \in Days, NEW to \in Reviewed,
           Resolve(d, to) \/ ResolveInStore(d, to)
    PROVE  Carried'
<1>1. UNCHANGED <<losses, running, alive, call, closed>>
  BY DEF Resolve, ResolveInStore, clock, lifetime
<1>2. Proposed' = Proposed
  BY DEF Resolve, ResolveInStore, Unresolved, Proposed, Reviewed, IInv, TypeOK
<1>. QED
  BY <1>1, <1>2 DEF Carried, ProposalsFollowLosses, RunningIsCarried, Lost

\* A second that finds a loss proposes a decision and stops the clock, or counts
\* it as lost for ever: no record of that day can follow.
LEMMA LoopCarried ==
    ASSUME IInv, Carried, NEW t \in Threads, Loop(t)
    PROVE  Carried'
<1>1. CASE Advance(t)
  <2>1. UNCHANGED <<losses, record, alive, closed>> /\ alive # {}
    BY <1>1 DEF Advance, decisions, lifetime
  <2>. QED
    BY <2>1, CarriedStep
<1>2. CASE Propose(t)
  <2>1. ~running'
    BY <1>2 DEF Propose, Finish
  <2>2. Proposed' = Proposed \cup {day} /\ losses' = losses \cup {day}
    BY <1>2 DEF Propose, Proposed, IInv, TypeOK
  <2>. QED
    BY <2>1, <2>2 DEF Carried, ProposalsFollowLosses, RunningIsCarried
<1>3. CASE ProposeFails(t)
  <2>1. /\ Proposed' = Proposed /\ losses' = losses \cup {day}
        /\ day \notin losses
    BY <1>3 DEF ProposeFails, LossDue, Proposed, decisions
  <2>2. Lost'
    BY <2>1 DEF Lost, Carried, ProposalsFollowLosses
  <2>. QED
    BY <2>1, <2>2 DEF Carried, ProposalsFollowLosses, RunningIsCarried
<1>. QED
  BY <1>1, <1>2, <1>3 DEF Loop

LEMMA NextCarried == IInv /\ Carried /\ [Next]_vars => Carried'
<1>. SUFFICES ASSUME IInv, Carried, [Next]_vars PROVE Carried'
  OBVIOUS
<1>1. CASE Pause
  <2>1. UNCHANGED <<losses, record, closed>> /\ ~running'
    BY <1>1 DEF Pause, clock, decisions, lifetime
  <2>. QED
    BY <2>1, CarriedStep
<1>2. ASSUME NEW d \in Days, ReplayResolve(d) PROVE Carried'
  <2>1. UNCHANGED <<losses, record, running, alive, call, closed>>
    BY <1>2 DEF ReplayResolve, clock, decisions, lifetime
  <2>. QED
    BY <2>1, CarriedStep
<1>3. CASE Close \/ \E t \in Threads : Exit(t)
  <2>1. UNCHANGED <<losses, record>> /\ closed'
    BY <1>3 DEF Close, Exit, clock, decisions
  <2>. QED
    BY <2>1, CarriedStep
<1>4. CASE UNCHANGED vars
  <2>1. UNCHANGED <<losses, record, running, alive, call, closed>>
    BY <1>4 DEF vars, clock, decisions, lifetime
  <2>. QED
    BY <2>1, CarriedStep
<1>. QED
  BY <1>1, <1>2, <1>3, <1>4, RequestCarried, ReviewCarried, LoopCarried DEF Next

\* No order of starts, of threads that come and go and of pauses leaves a clock
\* that counts as running and that nobody will move, unless the decision store
\* failed: what RunningClockEnds needs besides fairness.
THEOREM ClockIsCarried == Spec => []RunningIsCarried
<1>1. Init => Carried
  BY DEF Init, Carried, ProposalsFollowLosses, RunningIsCarried, Proposed
<1>2. Carried => RunningIsCarried
  BY DEF Carried
<1>. QED
  BY <1>1, <1>2, NextCarried, Inductive, PTL DEF Spec
=============================================================================
