--------------------------- MODULE WorkflowCycle ----------------------------
(***************************************************************************)
(* SyntheticWorkflowSession of the workbench: a clock that replays trading *)
(* days minute by minute on a daemon thread, stops at a material loss with *)
(* a decision proposal, and resumes when a human has resolved it.          *)
(*                                                                         *)
(* The session lock makes start, pause, resolve_proposal and one second of *)
(* the loop atomic.  Outside it run ensure_thread, which start calls after *)
(* releasing the lock, and close.  The decision store belongs to several   *)
(* processes: one that does not hold the session resolves a proposal in    *)
(* the store only.  A store write of the loop may fail, which ends its     *)
(* thread.                                                                 *)
(*                                                                         *)
(* Prices, dashboards, reports and speed are left out: a loss is a choice  *)
(* at every minute, which is when the code looks for one.  A day has one   *)
(* proposal at most, so a proposal is named by its day.  A review that is  *)
(* refused, and due diligence, leave the state of a record as it was.      *)
(***************************************************************************)
EXTENDS Naturals, FiniteSets

CONSTANTS
    LastDay,        \* index of the last interval
    MinutesPerDay,
    Threads,        \* bound: loop threads that may be alive at once
    Clients,        \* requests of the control endpoint that may overlap
    NULL,
    MaxCloses       \* bound on the daily_history entries of one day

ASSUME CycleAssumption ==
    /\ LastDay \in Nat
    /\ MinutesPerDay \in Nat \ {0}
    /\ MaxCloses \in Nat \ {0}
    /\ NULL \notin Threads

Days == 0..LastDay

VARIABLES
    day, minute,    \* the clock; MinutesPerDay stands for the close and later
    running,        \* self.running
    status,         \* self.status
    closes,         \* closes[d]: daily_history entries of day d
    losses,         \* _proposal_days: days whose loss was found
    record,         \* record[d]: state of the decision record of day d
    reviewed,       \* days whose record holds a resolution
    alive,          \* loop threads alive
    thread,         \* self._thread
    call,           \* call[c]: how far the start request of client c is
    closed          \* the stop event is set and the session forgotten

decisions == <<record, reviewed>>
clock == <<day, minute, closes, losses>>
lifetime == <<alive, thread, call, closed>>
vars == <<clock, running, status, decisions, lifetime>>

-----------------------------------------------------------------------------
RecordStates == {"none", "awaiting_review", "deferred", "escalated", "resolved", "rejected"}
Final == {"resolved", "rejected"}

\* The state each review outcome leaves: an investigation returns to review.
Reviewed == {"awaiting_review", "resolved", "deferred", "rejected", "escalated"}

Proposed == {d \in Days : record[d] # "none"}
Unresolved == {d \in Proposed : record[d] \notin Final}

\* The loop advances the clock.
Ticking == running /\ status \notin {"complete", "paused_for_review"}

-----------------------------------------------------------------------------
Init ==
    /\ day = 0 /\ minute = 0
    /\ running = FALSE
    /\ status = "ready"
    /\ closes = [d \in Days |-> 0]
    /\ losses = {}
    /\ record = [d \in Days |-> "none"]
    /\ reviewed = {}
    /\ alive = {}
    /\ thread = NULL
    /\ call = [c \in Clients |-> "idle"]
    /\ closed = FALSE

\* Mutant: the session trusts its status instead of the decision records.
ClearedByStatus == status # "paused_for_review"

\* Every proposal of the session is resolved or rejected in the store.
Cleared == Unresolved = {}

\* The control endpoint looks the session up; a deletion may overtake it.
Lookup(c) ==
    /\ call[c] = "idle" /\ ~closed
    /\ call' = [call EXCEPT ![c] = "start"]
    /\ UNCHANGED <<clock, running, status, decisions, alive, thread, closed>>

\* Mutant: start leaves the thread to whoever created the session.
StartWithoutThread(c) ==
    /\ call[c] = "start"
    /\ status # "complete"
    /\ closes[day] < MaxCloses
    /\ running' = Cleared
    /\ status' = IF Cleared THEN "running" ELSE "paused_for_review"
    /\ call' = [call EXCEPT ![c] = "idle"]
    /\ UNCHANGED <<clock, decisions, alive, thread, closed>>

\* start, its part under the lock; MaxCloses bounds what it may replay.
Start(c) ==
    /\ call[c] = "start"
    /\ status # "complete"
    /\ closes[day] < MaxCloses
    /\ running' = Cleared
    /\ status' = IF Cleared THEN "running" ELSE "paused_for_review"
    /\ call' = [call EXCEPT ![c] = IF Cleared THEN "ensure" ELSE "idle"]
    /\ UNCHANGED <<clock, decisions, alive, thread, closed>>

\* A complete cycle does not start again.
StartComplete(c) ==
    /\ call[c] = "start"
    /\ status = "complete"
    /\ call' = [call EXCEPT ![c] = "idle"]
    /\ UNCHANGED <<clock, running, status, decisions, alive, thread, closed>>

\* ensure_thread looks for a live thread ...
EnsureThread(c) ==
    /\ call[c] = "ensure"
    /\ call' = [call EXCEPT ![c] = IF thread \in alive THEN "idle" ELSE "spawn"]
    /\ UNCHANGED <<clock, running, status, decisions, alive, thread, closed>>

\* ... and then creates one.
SpawnThread(c, t) ==
    /\ call[c] = "spawn"
    /\ t \notin alive
    /\ alive' = alive \cup {t}
    /\ thread' = t
    /\ call' = [call EXCEPT ![c] = "idle"]
    /\ UNCHANGED <<clock, running, status, decisions, closed>>

Pause ==
    /\ ~closed
    /\ running' = FALSE
    /\ status' = IF status \in {"complete", "paused_for_review"} THEN status ELSE "paused"
    /\ UNCHANGED <<clock, decisions, lifetime>>

StatusAfterReview(state) == IF state \in Final THEN "paused" ELSE "paused_for_review"

\* resolve_proposal with a new idempotency key.
Resolve(d, to) ==
    /\ ~closed
    /\ d \in Unresolved
    /\ record' = [record EXCEPT ![d] = to]
    /\ reviewed' = reviewed \cup {d}
    /\ status' = StatusAfterReview(to)
    /\ UNCHANGED <<clock, running, lifetime>>

\* The retry of a resolution already recorded: the store returns the record and
\* the session takes its status from it once more.
ReplayResolve(d) ==
    /\ ~closed
    /\ d \in reviewed
    /\ status' = StatusAfterReview(record[d])
    /\ UNCHANGED <<clock, running, decisions, lifetime>>

\* A review that reaches a process which does not hold the session.
ResolveInStore(d, to) ==
    /\ d \in Unresolved
    /\ record' = [record EXCEPT ![d] = to]
    /\ reviewed' = reviewed \cup {d}
    /\ UNCHANGED <<clock, running, status, lifetime>>

-----------------------------------------------------------------------------
\* Mutant: the index of the next interval is compared with the wrong bound.
OneDayMore == day <= LastDay

MoreDays == day < LastDay

\* The clock moves by a minute; once it is past the close of the last day, any
\* second of it is past the close again.
NextMinute == IF minute < MinutesPerDay THEN minute + 1 ELSE MinutesPerDay

\* The rest of _advance_second: _complete_day at the close, then the next day or
\* the end of the cycle, whatever the look for a loss made of status.
Finish(runningNow, statusNow) ==
    IF NextMinute < MinutesPerDay
    THEN /\ minute' = NextMinute
         /\ running' = runningNow
         /\ status' = statusNow
         /\ UNCHANGED <<day, closes>>
    ELSE /\ closes' = [closes EXCEPT ![day] = @ + 1]
         /\ day' = IF MoreDays THEN day + 1 ELSE day
         /\ minute' = IF MoreDays THEN 0 ELSE MinutesPerDay
         /\ running' = (MoreDays /\ runningNow)
         /\ status' = IF MoreDays THEN statusNow ELSE "complete"

LossDue == minute < MinutesPerDay /\ day \notin losses

\* No loss beyond the limit, or not the first of its day.
Advance(t) ==
    /\ t \in alive /\ Ticking
    /\ Finish(running, status)
    /\ UNCHANGED <<losses, decisions, lifetime>>

\* _evaluate_review_proposal finds a loss and proposes a decision.
Propose(t) ==
    /\ t \in alive /\ Ticking
    /\ LossDue
    /\ losses' = losses \cup {day}
    /\ record' = [record EXCEPT ![day] = "awaiting_review"]
    /\ Finish(FALSE, "paused_for_review")
    /\ UNCHANGED <<reviewed, lifetime>>

\* The decision store raises: the exception ends the loop thread.
ProposeFails(t) ==
    /\ t \in alive /\ Ticking
    /\ LossDue
    /\ losses' = losses \cup {day}
    /\ minute' = minute + 1
    /\ alive' = alive \ {t}
    /\ UNCHANGED <<day, closes, running, status, decisions, thread, call, closed>>

\* The session is deleted; close takes no lock, so a thread that has just looked
\* at the stop event may still advance the clock if a start follows.
Close ==
    /\ ~closed
    /\ closed' = TRUE
    /\ running' = FALSE
    /\ UNCHANGED <<clock, status, decisions, alive, thread, call>>

\* Mutant: only the thread of the session is told to stop.
ExitLatest(t) ==
    /\ t \in alive /\ closed
    /\ t = thread
    /\ alive' = alive \ {t}
    /\ UNCHANGED <<clock, running, status, decisions, thread, call, closed>>

\* A loop thread sees the stop event.
Exit(t) ==
    /\ t \in alive /\ closed
    /\ alive' = alive \ {t}
    /\ UNCHANGED <<clock, running, status, decisions, thread, call, closed>>

Loop(t) == Advance(t) \/ Propose(t) \/ ProposeFails(t)

Request(c) ==
    \/ Start(c)
    \/ StartComplete(c)
    \/ EnsureThread(c)
    \/ \E t \in Threads : SpawnThread(c, t)

Next ==
    \/ \E c \in Clients : Lookup(c) \/ Request(c)
    \/ Pause
    \/ \E d \in Days : \/ ReplayResolve(d)
                       \/ \E to \in Reviewed : Resolve(d, to) \/ ResolveInStore(d, to)
    \/ \E t \in Threads : Loop(t) \/ Exit(t)
    \/ Close

\* A live thread loops, and looks at the stop event after a bounded number of
\* seconds; a request in progress ends; nobody has to call.
Fairness ==
    /\ \A t \in Threads : WF_vars(Loop(t)) /\ WF_vars(Exit(t))
    /\ \A c \in Clients : WF_vars(Request(c))

Spec == Init /\ [][Next]_vars
FairSpec == Spec /\ Fairness

-----------------------------------------------------------------------------
TypeOK ==
    /\ day \in Days
    /\ minute \in 0..MinutesPerDay
    /\ running \in BOOLEAN
    /\ status \in {"ready", "running", "paused", "paused_for_review", "complete"}
    /\ closes \in [Days -> 0..MaxCloses]
    /\ losses \subseteq Days
    /\ record \in [Days -> RecordStates]
    /\ reviewed \subseteq Days
    /\ alive \subseteq Threads
    /\ thread \in Threads \cup {NULL}
    /\ call \in [Clients -> {"idle", "start", "ensure", "spawn"}]
    /\ closed \in BOOLEAN

\* While a proposal of the session waits for a human, deferred or escalated
\* included, no thread moves the clock: not after the retry of an earlier
\* review, not after a start that raced the proposal.
ClockWaitsForReview == [][Unresolved # {} => UNCHANGED clock]_vars

\* A loss was found whose proposal the decision store could not keep.
Lost == losses \ Proposed # {}

\* Unless the store fails, a clock that runs comes to a review, to somebody's
\* pause or to the end of its days: a started session always has a live thread.
RunningClockEnds == []<>(~running \/ closed \/ Lost)

\* Deleting a session ends all of its threads, also the one a start that was
\* under way creates afterwards.
CloseStopsThreads == <>[](closed => alive = {})

=============================================================================
