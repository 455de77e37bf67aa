---------------------------- MODULE StudioCodex ----------------------------
(***************************************************************************)
(* Studio Codex (labs/studio_codex.py): the manager that leads an          *)
(* authorized proposal through planning, implementation, review and later  *)
(* corrections on one Codex app-server.                                    *)
(*                                                                         *)
(* Three kinds of threads meet here: request threads of the labs server,   *)
(* workers of the manager's executor, and the reader of the app-server's   *)
(* output, which handles each notification under the manager's lock.       *)
(* A session is a JSON file.  Everybody reads the whole file and later     *)
(* writes the whole file, and only the reader and the failure handler hold *)
(* the lock in between.                                                    *)
(*                                                                         *)
(* The app-server is external: it runs at most one turn per thread and     *)
(* refuses a second one.                                                   *)
(***************************************************************************)
EXTENDS Naturals, Sequences, FiniteSets

CONSTANTS
    Sessions,       \* the sessions that may be created
    ProposalOf,     \* the proposal of each: a session id is derived from it
    Workers,        \* threads of the executor
    Requesters,     \* request threads of the labs server
    NULL,
    Faults,         \* the kinds of disturbance that may occur, each once
    MaxFaults,      \* bound: how many of them in one behaviour
    MaxRequests     \* bound: turns and reviews that a human asks for

Threads == Workers \cup Requesters

ASSUME ThreadsAssumption == Workers \cap Requesters = {}
ASSUME BoundsAssumption == MaxFaults \in Nat /\ MaxRequests \in Nat

FaultKinds == {"overlap", "reload", "timeout", "refusal", "failure",
               "interrupt", "early", "stale", "unavailable", "restart"}

ASSUME FaultsAssumption == Faults \subseteq FaultKinds

MutablePhases == {"implementation", "correction", "skill_revision"}
Phases == MutablePhases \cup {"planning", "review"}

AllowedFrom == [
    implementation |-> {"queued_implementation", "review_complete"},
    correction     |-> {"awaiting_review", "review_complete"},
    skill_revision |-> {"review_complete"},
    review         |-> {"awaiting_review", "awaiting_skill_review",
                        "review_complete"}]

StartedStatus == [
    planning       |-> "planning",
    implementation |-> "implementing",
    correction     |-> "correcting",
    skill_revision |-> "improving_skill",
    review         |-> "reviewing"]

CompletedStatus == [
    planning       |-> "queued_implementation",
    implementation |-> "awaiting_review",
    correction     |-> "awaiting_review",
    skill_revision |-> "awaiting_skill_review",
    review         |-> "review_complete"]

Restartable == {"planning", "queued_implementation", "implementing",
                "correcting"}
Reviewable == {"awaiting_review", "reviewing", "awaiting_skill_review"}
Unarchivable == {"planning", "queued_implementation", "implementing",
                 "correcting", "awaiting_review", "reviewing"}

Statuses == {StartedStatus[p] : p \in Phases}
              \cup {CompletedStatus[p] : p \in Phases}
              \cup {"failed", "interrupted", "archived"}

VARIABLES
    files,      \* the session files
    owner,      \* _mutable_workspace_owner
    queue,      \* _mutable_workspace_queue
    recovered,  \* _recovery_scheduled
    tasks,      \* what was dispatched to the executor and not yet begun
    call,       \* what each thread is doing
    reader,     \* the notification in the hands of the reader
    server,     \* the app-server's thread of each session
    late,       \* requests that the server still holds after the caller left
    faults,     \* the kinds of disturbance so far
    requests    \* how often a human asked for a turn or a review

vars == <<files, owner, queue, recovered, tasks, call, reader, server, late,
          faults, requests>>

workspace == <<owner, queue>>
memory == <<owner, queue, recovered, tasks>>
bounds == <<faults, requests>>

Turns == Nat \ {0}
File == [status : Statuses, active : Turns \cup {NULL},
         turns : SUBSET Turns, pending : Turns \cup {NULL}]

Events == {"completed", "failed", "interrupted", "approval", "other"}
Notification == [session : Sessions, event : Events, copy : File]

ASSUME NullAssumption ==
    NULL \notin Sessions \cup Threads \cup Nat \cup File \cup Statuses
                \cup Phases \cup Notification

NewFile == [status |-> "planning", active |-> NULL, turns |-> {},
            pending |-> NULL]

Tasks == [do : {"implement", "review"}, session : Sessions]
           \cup [do : {"recover"}, session : {NULL}]

\* A thread between two steps: the session and phase it works on, the turn it
\* was given, the file it read and, in a recovery, the sessions left.
Idle == [at |-> "idle", session |-> NULL, phase |-> NULL, turn |-> NULL,
         copy |-> NULL, todo |-> {}]

Calls == [at : {"idle", "starting", "claiming", "asked", "answered",
                "recording", "undoing", "failing", "failed", "freeing",
                "stale", "archiving", "recovering", "rewriting",
                "requeueing"},
          session : Sessions \cup {NULL}, phase : Phases \cup {NULL},
          turn : Turns \cup {NULL}, copy : File \cup {NULL},
          todo : SUBSET Sessions]

\* The thread of a session in the app-server: the turns so far, the phase of
\* the one that runs, whether it was interrupted, whether it asks for
\* permission.
Servers == [turns : Nat, phase : Phases \cup {NULL}, stop : BOOLEAN,
            asks : {"not yet", "now", "answered"}]

TypeOK ==
    /\ files \in [Sessions -> File \cup {NULL}]
    /\ owner \in Sessions \cup {NULL}
    /\ queue \in Seq(Sessions)
    /\ recovered \in BOOLEAN
    /\ tasks \in Seq(Tasks)
    /\ call \in [Threads -> Calls]
    /\ reader \in Notification \cup {NULL}
    /\ server \in [Sessions -> Servers]
    /\ late \subseteq [session : Sessions, phase : Phases]
    /\ faults \subseteq FaultKinds
    /\ requests \in Nat

Init ==
    /\ files = [s \in Sessions |-> NULL]
    /\ owner = NULL
    /\ queue = <<>>
    /\ recovered = FALSE
    /\ tasks = <<>>
    /\ call = [t \in Threads |-> Idle]
    /\ reader = NULL
    /\ server = [s \in Sessions |->
                   [turns |-> 0, phase |-> NULL, stop |-> FALSE,
                    asks |-> "not yet"]]
    /\ late = {}
    /\ faults = {}
    /\ requests = 0

-----------------------------------------------------------------------------

Implement(s) == [do |-> "implement", session |-> s]
Review(s) == [do |-> "review", session |-> s]
Recover == [do |-> "recover", session |-> NULL]

Exists(s) == files[s] # NULL
Status(s) == IF Exists(s) THEN files[s].status ELSE NULL
Running(s) == server[s].phase # NULL
Writing(s) == server[s].phase \in MutablePhases

\* Nobody holds the manager's lock between two steps.
LockFree == reader = NULL /\ \A t \in Threads : call[t].at # "failed"

Engaged(s, t) == \E u \in Threads \ {t} : call[u].session = s
Dispatched(s) == \E i \in DOMAIN tasks : tasks[i].session = s
Queued(s) == \E i \in DOMAIN queue : queue[i] = s

\* Something is under way for the session, other than what thread t does.
AtWork(s, t) == Running(s) \/ Engaged(s, t) \/ Dispatched(s) \/ Queued(s)

Recovering ==
    \/ \E i \in DOMAIN tasks : tasks[i] = Recover
    \/ \E w \in Workers : call[w].todo # {}

\* Somebody else holds a copy of the file that it will write.
Copied(s, t) ==
    \/ reader # NULL /\ reader.session = s
    \/ \E u \in Threads \ {t} : call[u].session = s /\ call[u].copy # NULL

\* A step that disturbs, in the ways of K, each of which happens once.
Disturb(K) ==
    /\ K \subseteq Faults \ faults
    /\ Cardinality(faults \cup K) <= MaxFaults
    /\ faults' = faults \cup K

If(condition, kind) == IF condition THEN {kind} ELSE {}

\* _release_mutable_workspace by s, after the files became f; the tasks in
\* "more" are dispatched after it.
Candidates(f) ==
    {i \in DOMAIN queue : f[queue[i]] # NULL
                            /\ f[queue[i]].status = "queued_implementation"}

\* Mutant: the workspace is given up and nobody looks at the queue.
ReleaseOnly(s, f, more) ==
    /\ owner' = IF owner = s THEN NULL ELSE owner
    /\ tasks' = tasks \o more
    /\ UNCHANGED queue

\* Mutant: the workspace is given up by whoever fails.
ReleaseAnyones(s, f, more) ==
    \/ /\ Candidates(f) = {}
       /\ owner' = NULL
       /\ queue' = <<>>
       /\ tasks' = tasks \o more
    \/ \E i \in Candidates(f) :
         /\ \A j \in Candidates(f) : i <= j
         /\ owner' = queue[i]
         /\ queue' = SubSeq(queue, i + 1, Len(queue))
         /\ tasks' = Append(tasks, Implement(queue[i])) \o more

Release(s, f, more) ==
    \/ /\ owner \notin {NULL, s}
       /\ tasks' = tasks \o more
       /\ UNCHANGED workspace
    \/ /\ owner \in {NULL, s}
       /\ Candidates(f) = {}
       /\ owner' = NULL
       /\ queue' = <<>>
       /\ tasks' = tasks \o more
    \/ /\ owner \in {NULL, s}
       /\ \E i \in Candidates(f) :
            /\ \A j \in Candidates(f) : i <= j
            /\ owner' = queue[i]
            /\ queue' = SubSeq(queue, i + 1, Len(queue))
            /\ tasks' = Append(tasks, Implement(queue[i])) \o more

\* _queue_automatic_implementation.
Enqueue(s) ==
    \/ /\ owner \in {NULL, s}
       /\ owner' = s
       /\ tasks' = Append(tasks, Implement(s))
       /\ UNCHANGED queue
    \/ /\ owner \notin {NULL, s}
       /\ queue' = IF Queued(s) THEN queue ELSE Append(queue, s)
       /\ UNCHANGED <<owner, tasks>>

-----------------------------------------------------------------------------
(* Requests and tasks: from the check of the status to the request.        *)

\* start_session: no session of the proposal is found that is not archived.
Authorize(u, s) ==
    /\ call[u] = Idle
    /\ ~Exists(s) /\ ~Engaged(s, NULL)
    /\ \A r \in Sessions : ProposalOf[r] = ProposalOf[s] =>
            Status(r) \in {NULL, "archived"}
    /\ call' = [call EXCEPT ![u] = [Idle EXCEPT !.at = "starting",
                                               !.session = s]]
    /\ UNCHANGED <<files, memory, reader, server, late, bounds>>

CreateSession(u) ==
    /\ call[u].at = "starting"
    /\ files' = [files EXCEPT ![call[u].session] = NewFile]
    /\ call' = [call EXCEPT ![u].at = "asked", ![u].phase = "planning"]
    /\ UNCHANGED <<memory, reader, server, late, bounds>>

\* start_turn and review read the file and check its status; a review goes
\* straight to the server.
Begun(s, phase) ==
    [Idle EXCEPT !.at = IF phase \in MutablePhases THEN "claiming" ELSE "asked",
                 !.session = s, !.phase = phase]

Request(u, s, phase) ==
    /\ call[u] = Idle
    /\ requests < MaxRequests
    /\ Status(s) \in AllowedFrom[phase]
    /\ Disturb(If(AtWork(s, NULL) \/ Recovering, "overlap"))
    /\ call' = [call EXCEPT ![u] = Begun(s, phase)]
    /\ requests' = requests + 1
    /\ UNCHANGED <<files, memory, reader, server, late>>

\* Mutant: the claim does not look at the owner.
ClaimAnyway(t) ==
    /\ call[t].at = "claiming"
    /\ owner' = call[t].session
    /\ call' = [call EXCEPT ![t].at = "asked"]
    /\ UNCHANGED <<files, queue, recovered, tasks, reader, server, late,
                   bounds>>

\* The claim of the shared worktree; a user is told that it is busy, a task
\* fails.
Claim(t) ==
    /\ call[t].at = "claiming"
    /\ LockFree
    /\ \/ /\ owner \in {NULL, call[t].session}
          /\ owner' = call[t].session
          /\ call' = [call EXCEPT ![t].at = "asked"]
       \/ /\ owner \notin {NULL, call[t].session}
          /\ call' = [call EXCEPT ![t] = IF t \in Workers
                                         THEN [@ EXCEPT !.at = "failing"]
                                         ELSE Idle]
          /\ UNCHANGED owner
    /\ UNCHANGED <<files, queue, recovered, tasks, reader, server, late,
                   bounds>>

\* _start_automatic_implementation, _start_automatic_review and
\* _recover_orphaned_sessions, as a worker begins them.
TakeTask(w) ==
    /\ call[w] = Idle
    /\ tasks # <<>>
    /\ LET task == Head(tasks)
           phase == IF task.do = "implement" THEN "implementation" ELSE "review"
       IN \/ /\ task.do # "recover"
             /\ call' = [call EXCEPT ![w] =
                           IF Status(task.session) \in AllowedFrom[phase]
                           THEN Begun(task.session, phase)
                           ELSE [Begun(task.session, phase) EXCEPT
                                    !.at = "failing"]]
             /\ UNCHANGED faults
          \/ /\ task.do = "recover"
             /\ call' = [call EXCEPT ![w] =
                           [Idle EXCEPT !.at = "recovering",
                                        !.todo = {s \in Sessions : Exists(s)}]]
             /\ UNCHANGED faults
          \/ /\ task.do = "recover"
             /\ Disturb({"unavailable"})
             /\ UNCHANGED call
    /\ tasks' = Tail(tasks)
    /\ UNCHANGED <<files, workspace, recovered, reader, server, late, requests>>

-----------------------------------------------------------------------------
(* The app-server and its answers.                                         *)

Begin(s, phase) ==
    server' = [server EXCEPT ![s] = [turns |-> @.turns + 1, phase |-> phase,
                                     stop |-> FALSE, asks |-> "not yet"]]

Accept(t) ==
    /\ call[t].at = "asked"
    /\ ~Running(call[t].session)
    /\ Begin(call[t].session, call[t].phase)
    /\ call' = [call EXCEPT ![t].at = "answered",
                            ![t].turn = server[call[t].session].turns + 1]
    /\ UNCHANGED <<files, memory, reader, late, bounds>>

AcceptLate(r) ==
    /\ r \in late
    /\ late' = late \ {r}
    /\ IF Running(r.session) THEN UNCHANGED server
                             ELSE Begin(r.session, r.phase)
    /\ UNCHANGED <<files, memory, call, reader, bounds>>

\* What a thread does next when the transport raises.
Raised(t) ==
    call' = [call EXCEPT ![t] =
               IF @.phase \in MutablePhases THEN [@ EXCEPT !.at = "undoing"]
               ELSE IF t \in Workers THEN [@ EXCEPT !.at = "failing"]
               ELSE Idle]

Refuse(t) ==
    /\ call[t].at = "asked"
    /\ Disturb(If(~Running(call[t].session), "refusal"))
    /\ Raised(t)
    /\ UNCHANGED <<files, memory, reader, server, late, requests>>

Timeout(t) ==
    /\ call[t].at = "asked"
    /\ Disturb({"timeout"})
    /\ late' = late \cup {[session |-> call[t].session,
                           phase |-> call[t].phase]}
    /\ Raised(t)
    /\ UNCHANGED <<files, memory, reader, server, requests>>

\* The except clause of start_turn.
Undo(t) ==
    /\ call[t].at = "undoing"
    /\ LockFree
    /\ Release(call[t].session, files, <<>>)
    /\ call' = [call EXCEPT ![t] = IF t \in Workers
                                   THEN [@ EXCEPT !.at = "failing"]
                                   ELSE Idle]
    /\ UNCHANGED <<files, recovered, reader, server, late, bounds>>

\* The file is read once more, and written with the turn.
ReadBack(t) ==
    /\ call[t].at = "answered"
    /\ Disturb(If(Copied(call[t].session, t), "stale"))
    /\ call' = [call EXCEPT ![t].at = "recording",
                            ![t].copy = files[call[t].session]]
    /\ UNCHANGED <<files, memory, reader, server, late, requests>>

\* Nobody looks up a turn that is over, so only a running one is kept.
Current(s, turns) == turns \cap (IF Running(s) THEN {server[s].turns} ELSE {})

\* Mutant: the turn is recorded and the status stays.
RecordWithoutStatus(t) ==
    LET s == call[t].session IN
    /\ call[t].at = "recording"
    /\ files' = [files EXCEPT ![s] =
         [call[t].copy EXCEPT !.active = call[t].turn,
                              !.turns = Current(s, @ \cup {call[t].turn})]]
    /\ call' = [call EXCEPT ![t] = Idle]
    /\ UNCHANGED <<memory, reader, server, late, bounds>>

Record(t) ==
    LET s == call[t].session IN
    /\ call[t].at = "recording"
    /\ files' = [files EXCEPT ![s] =
         [call[t].copy EXCEPT
            !.status = IF call[t].phase = "planning" THEN @
                       ELSE StartedStatus[call[t].phase],
            !.active = call[t].turn,
            !.turns = Current(s, @ \cup {call[t].turn})]]
    /\ call' = [call EXCEPT ![t] = Idle]
    /\ UNCHANGED <<memory, reader, server, late, bounds>>

-----------------------------------------------------------------------------
(* _record_orchestration_failure: the file is rewritten under the lock, and *)
(* the workspace is released afterwards.                                    *)

ReadFailed(w) ==
    /\ call[w].at = "failing"
    /\ LockFree
    /\ Disturb(If(Copied(call[w].session, w), "stale"))
    /\ call' = [call EXCEPT ![w].at = "failed",
                            ![w].copy = files[call[w].session]]
    /\ UNCHANGED <<files, memory, reader, server, late, requests>>

RecordFailed(w) ==
    /\ call[w].at = "failed"
    /\ files' = [files EXCEPT ![call[w].session] =
                   [call[w].copy EXCEPT !.status = "failed", !.active = NULL]]
    /\ call' = [call EXCEPT ![w].at = "freeing", ![w].copy = NULL]
    /\ UNCHANGED <<memory, reader, server, late, bounds>>

FreeFailed(w) ==
    /\ call[w].at = "freeing"
    /\ LockFree
    /\ Release(call[w].session, files, <<>>)
    /\ call' = [call EXCEPT ![w] = Idle]
    /\ UNCHANGED <<files, recovered, reader, server, late, bounds>>

-----------------------------------------------------------------------------
(* _receive: a notification is handled under the lock by the one reader.   *)

\* Some thread has the answer for the turn that runs and did not record it.
Unrecorded(s) ==
    \E t \in Threads : call[t].session = s /\ call[t].turn = server[s].turns

Outcomes(s) == {"completed", "failed"}
                 \cup (IF server[s].stop THEN {"interrupted"} ELSE {})

\* turn/completed.  A turn that waits for a permission does not end.
TurnCompleted(s, outcome) ==
    /\ LockFree
    /\ Running(s)
    /\ server[s].asks # "now"
    /\ outcome \in Outcomes(s)
    /\ Disturb(If(outcome = "failed", "failure")
                 \cup If(Unrecorded(s), "early")
                 \cup If(Copied(s, NULL), "stale"))
    /\ reader' = [session |-> s, event |-> outcome, copy |-> files[s]]
    /\ UNCHANGED <<files, memory, call, server, late, requests>>

\* requestApproval, once in an implementation turn.
AskPermission(s) ==
    /\ LockFree
    /\ server[s].phase = "implementation"
    /\ server[s].asks = "not yet"
    /\ Disturb(If(Unrecorded(s), "early")
                 \cup If(Copied(s, NULL), "stale"))
    /\ server' = [server EXCEPT ![s].asks = "now"]
    /\ reader' = [session |-> s, event |-> "approval", copy |-> files[s]]
    /\ UNCHANGED <<files, memory, call, late, requests>>

\* Any other notification rewrites the file as it is.  Alone it changes
\* nothing, so it is considered only while somebody is about to write.
OtherEvent(s) ==
    /\ LockFree
    /\ Running(s)
    /\ Unrecorded(s) \/ Copied(s, NULL)
    /\ Exists(s)
    /\ Disturb({"stale"})
    /\ reader' = [session |-> s, event |-> "other", copy |-> files[s]]
    /\ UNCHANGED <<files, memory, call, server, late, requests>>

\* The phase of the turn as the file knows it.
KnownPhase ==
    IF server[reader.session].turns \in reader.copy.turns
    THEN server[reader.session].phase ELSE NULL

\* The phase that a completed turn ends, if the file knows it.
Done == IF reader.event = "completed" THEN KnownPhase ELSE NULL

\* Mutant: the status of the turn becomes the status of the session.
EndedAsTurn ==
    [reader.copy EXCEPT !.status = reader.event, !.active = NULL, !.turns = {}]

Ended ==
    [reader.copy EXCEPT
       !.status = CASE Done # NULL -> CompletedStatus[Done]
                    [] reader.event # "completed" -> reader.event
                    [] OTHER -> @,
       !.active = NULL,
       !.turns = {}]

\* Mutant: a request for permission is kept as an event only.
ReceivedWithoutRequest ==
    IF reader.event \in {"approval", "other"} THEN reader.copy ELSE Ended

Received ==
    CASE reader.event = "approval" ->
           [reader.copy EXCEPT !.pending = server[reader.session].turns]
      [] reader.event = "other" -> reader.copy
      [] OTHER -> Ended

\* Mutant: the review is dispatched and the workspace is not released.
FollowWithoutRelease(s, f) ==
    CASE Done \in {NULL, "review"} ->
           UNCHANGED <<owner, queue, tasks>>
      [] Done = "planning" -> Enqueue(s)
      [] OTHER -> tasks' = Append(tasks, Review(s)) /\ UNCHANGED workspace

\* What follows a completed turn.
Follow(s, f) ==
    CASE Done \in {NULL, "review"} ->
           UNCHANGED <<owner, queue, tasks>>
      [] Done = "planning" -> Enqueue(s)
      [] Done = "skill_revision" -> Release(s, f, <<>>)
      [] OTHER -> Release(s, f, <<Review(s)>>)

Receive ==
    /\ reader # NULL
    /\ LET s == reader.session IN
       /\ files' = [files EXCEPT ![s] = Received]
       /\ Follow(s, files')
       /\ server' = IF reader.event \in {"approval", "other"} THEN server
                    ELSE [server EXCEPT ![s].phase = NULL, ![s].stop = FALSE]
    /\ reader' = NULL
    /\ UNCHANGED <<recovered, call, late, bounds>>

-----------------------------------------------------------------------------
(* Requests that write the file they read, some after a call of the server. *)

\* interrupt: the running turn will end as interrupted.
Interrupt(u, s) ==
    /\ call[u] = Idle
    /\ Exists(s)
    /\ Running(s) /\ files[s].active = server[s].turns
    /\ Disturb({"interrupt"} \cup If(Copied(s, u), "stale"))
    /\ server' = [server EXCEPT ![s].stop = TRUE, ![s].asks = "answered"]
    /\ call' = [call EXCEPT ![u] = [Idle EXCEPT !.at = "stale", !.session = s,
                                               !.copy = files[s]]]
    /\ UNCHANGED <<files, memory, reader, late, requests>>

\* respond_approval: the decision goes to the server, then the request leaves
\* the file.
Respond(u, s) ==
    /\ call[u] = Idle
    /\ Exists(s)
    /\ files[s].pending # NULL
    /\ Disturb(If(Copied(s, u), "stale"))
    /\ server' = IF server[s].turns = files[s].pending /\ server[s].asks = "now"
                 THEN [server EXCEPT ![s].asks = "answered"]
                 ELSE server
    /\ call' = [call EXCEPT ![u] =
                  [Idle EXCEPT !.at = "stale", !.session = s,
                               !.copy = [files[s] EXCEPT !.pending = NULL]]]
    /\ UNCHANGED <<files, memory, reader, late, requests>>

\* get_session, which the page polls: while a turn writes, a diff that no document
\* holds yet makes a reading of the session a rewriting of its file.  Alone it
\* changes nothing, so it is considered only while it may still disturb.
Poll(u, s) ==
    /\ call[u] = Idle
    /\ Exists(s)
    /\ "stale" \in Faults \ faults /\ Cardinality(faults) < MaxFaults
    /\ Writing(s)
    /\ Disturb(If(Copied(s, u), "stale"))
    /\ call' = [call EXCEPT ![u] = [Idle EXCEPT !.at = "stale", !.session = s,
                                               !.copy = files[s]]]
    /\ UNCHANGED <<files, memory, reader, server, late, requests>>

WriteStale(u) ==
    /\ call[u].at = "stale"
    /\ files' = [files EXCEPT ![call[u].session] =
                   [call[u].copy EXCEPT
                      !.turns = Current(call[u].session, @)]]
    /\ call' = [call EXCEPT ![u] = Idle]
    /\ UNCHANGED <<memory, reader, server, late, bounds>>

\* archive: the status is checked as it was read, and written without a look at
\* what the file says by then.
Archive(u, s) ==
    /\ call[u] = Idle
    /\ Exists(s)
    /\ Status(s) \notin Unarchivable \cup {"archived"}
    /\ Disturb(If(AtWork(s, NULL), "overlap") \cup If(Copied(s, u), "stale"))
    /\ call' = [call EXCEPT ![u] = [Idle EXCEPT !.at = "archiving",
                                               !.session = s,
                                               !.copy = files[s]]]
    /\ UNCHANGED <<files, memory, reader, server, late, requests>>

WriteArchived(u) ==
    /\ call[u].at = "archiving"
    /\ files' = [files EXCEPT ![call[u].session] =
                   [call[u].copy EXCEPT
                      !.status = "archived",
                      !.turns = Current(call[u].session, @)]]
    /\ call' = [call EXCEPT ![u] = Idle]
    /\ UNCHANGED <<memory, reader, server, late, bounds>>

-----------------------------------------------------------------------------
(* Restart and recovery.                                                   *)

\* The web server ends, and the app-server, its child, with it.
Restart ==
    /\ Disturb({"restart"})
    /\ owner' = NULL
    /\ queue' = <<>>
    /\ recovered' = FALSE
    /\ tasks' = <<>>
    /\ call' = [t \in Threads |-> Idle]
    /\ reader' = NULL
    /\ server' = [s \in Sessions |->
                    [server[s] EXCEPT !.phase = NULL, !.stop = FALSE]]
    /\ late' = {}
    /\ UNCHANGED <<files, requests>>

\* schedule_recovery, when the browser loads the Studio.
Reload ==
    /\ LockFree
    /\ ~recovered
    /\ \E s \in Sessions : Status(s) \in Restartable \cup Reviewable
    /\ Disturb(If(\E s \in Sessions : AtWork(s, NULL), "reload"))
    /\ recovered' = TRUE
    /\ tasks' = Append(tasks, Recover)
    /\ UNCHANGED <<files, workspace, call, reader, server, late, requests>>

\* One turn of the loop of _recover_orphaned_sessions: the file is read,
\* written, and queued or dispatched.
RecoverNext(w) ==
    /\ call[w].at = "recovering"
    /\ IF call[w].todo = {}
       THEN call' = [call EXCEPT ![w] = Idle] /\ UNCHANGED faults
       ELSE \E s \in call[w].todo :
              /\ \/ /\ Status(s) \in Restartable \cup Reviewable
                    /\ faults' = faults \cup If(Copied(s, w), "stale")
                                        \cup If(AtWork(s, w), "reload")
                    /\ call' = [call EXCEPT ![w] =
                         [@ EXCEPT !.at = "rewriting", !.session = s,
                                   !.copy = files[s],
                                   !.todo = call[w].todo \ {s}]]
                 \/ /\ Status(s) \notin Restartable \cup Reviewable
                    /\ call' = [call EXCEPT ![w].todo = @ \ {s}]
                    /\ UNCHANGED faults
    /\ UNCHANGED <<files, memory, reader, server, late, requests>>

RecoverWrite(w) ==
    /\ call[w].at = "rewriting"
    /\ LET restart == call[w].copy.status \in Restartable IN
       /\ files' = [files EXCEPT ![call[w].session] =
            [call[w].copy EXCEPT
               !.status = IF restart THEN "queued_implementation"
                                     ELSE "awaiting_review",
               !.active = NULL,
               !.turns = Current(call[w].session, @)]]
       /\ call' = [call EXCEPT ![w] =
                     [@ EXCEPT !.at = "requeueing", !.copy = NULL,
                               !.phase = IF restart THEN "implementation"
                                                    ELSE "review"]]
    /\ UNCHANGED <<memory, reader, server, late, bounds>>

\* Mutant: an interrupted review is queued like an implementation.
RecoverAll(w) ==
    /\ call[w].at = "requeueing"
    /\ LockFree
    /\ Enqueue(call[w].session)
    /\ call' = [call EXCEPT ![w] = [Idle EXCEPT !.at = "recovering",
                                               !.todo = call[w].todo]]
    /\ UNCHANGED <<files, recovered, reader, server, late, bounds>>

RecoverQueue(w) ==
    /\ call[w].at = "requeueing"
    /\ \/ /\ call[w].phase = "implementation"
          /\ LockFree
          /\ Enqueue(call[w].session)
       \/ /\ call[w].phase = "review"
          /\ tasks' = Append(tasks, Review(call[w].session))
          /\ UNCHANGED workspace
    /\ call' = [call EXCEPT ![w] = [Idle EXCEPT !.at = "recovering",
                                               !.todo = call[w].todo]]
    /\ UNCHANGED <<files, recovered, reader, server, late, bounds>>

-----------------------------------------------------------------------------

WorkerStep(w) ==
    \/ TakeTask(w) \/ ReadFailed(w) \/ RecordFailed(w) \/ FreeFailed(w)
    \/ RecoverNext(w) \/ RecoverWrite(w) \/ RecoverQueue(w)

RequesterStep(u) == CreateSession(u) \/ WriteStale(u) \/ WriteArchived(u)

ThreadStep(t) == Claim(t) \/ Undo(t) \/ ReadBack(t) \/ Record(t)

Human(u) ==
    \E s \in Sessions :
        \/ Authorize(u, s)
        \/ \E phase \in DOMAIN AllowedFrom : Request(u, s, phase)
        \/ Interrupt(u, s)
        \/ Respond(u, s)
        \/ Poll(u, s)
        \/ Archive(u, s)

Next ==
    \/ \E w \in Workers : WorkerStep(w)
    \/ \E u \in Requesters : RequesterStep(u) \/ Human(u)
    \/ \E t \in Threads : ThreadStep(t) \/ Accept(t) \/ Refuse(t) \/ Timeout(t)
    \/ \E r \in late : AcceptLate(r)
    \/ \E s \in Sessions :
         \/ \E outcome \in {"completed", "failed", "interrupted"} :
               TurnCompleted(s, outcome)
         \/ AskPermission(s) \/ OtherEvent(s)
    \/ Receive
    \/ Restart
    \/ Reload

Spec == Init /\ [][Next]_vars

(***************************************************************************)
(* The threads take their steps; the app-server answers what it does not   *)
(* refuse and ends its turns; permission requests are answered, however    *)
(* often the page polls in between.  Nothing obliges a human to authorize, *)
(* to ask for a turn or to reload, and no disturbance has to happen.       *)
(***************************************************************************)
Fairness ==
    /\ \A w \in Workers : WF_vars(WorkerStep(w))
    /\ \A u \in Requesters : WF_vars(RequesterStep(u))
    /\ \A t \in Threads : WF_vars(ThreadStep(t)) /\ WF_vars(Accept(t))
    /\ \A s \in Sessions : /\ WF_vars(TurnCompleted(s, "completed"))
                           /\ SF_vars(\E u \in Requesters : Respond(u, s))
    /\ WF_vars(Receive)

FairSpec == Spec /\ Fairness

-----------------------------------------------------------------------------

\* The worktree is never left idle while a session waits for it, whatever
\* fails or restarts: a free workspace has an empty queue, nobody waits twice,
\* and the owner does not wait for itself.
NoIdleQueue ==
    /\ owner = NULL => queue = <<>>
    /\ \A i, j \in DOMAIN queue : queue[i] = queue[j] => i = j
    /\ \A i \in DOMAIN queue : queue[i] # owner

\* Two sessions never have a turn that may write to the shared worktree at the
\* same time.
WritesSerialized ==
    \A r, s \in Sessions : Writing(r) /\ Writing(s) => r = s

\* The disturbances after which that is not so: a second request for a
\* session at work, a recovery of sessions that are at work, an answer that
\* comes too late.
Unserializing == {"overlap", "reload", "timeout"}

\* Failed, refused and interrupted turns, early or overlapping notifications
\* and restarts leave the writes serialized.
WritesSerializedUnlessOverlapped ==
    faults \cap Unserializing = {} => WritesSerialized

Worktree == INSTANCE SharedWorktree WITH
    writing <- {s \in Sessions : Writing(s)},
    waits <- {s \in Sessions : Status(s) = "queued_implementation"},
    excused <- faults \cap Unserializing # {}

\* Tasks, requests, turns and their failures handle the worktree as a lock with
\* a queue would: it is taken by one session, passed in the order of the queue
\* while nobody writes, and written to by its owner, until a disturbance of those
\* three kinds happens; and even then it is passed in that order.
WorktreeShared == Worktree!Spec

\* A session shows a finished review while one of its turns may write only in
\* the moment before the request that began this turn has recorded it, unless
\* two threads wrote the file over each other or the caller had left already.
ReviewedIsQuiet ==
    faults \cap {"timeout", "stale"} = {} =>
        \A s \in Sessions :
            Status(s) = "review_complete" => ~Writing(s) \/ Unrecorded(s)

\* A permission that a turn waits for is in the session's file, where the human
\* can see it, unless two threads wrote the file over each other.
RequestsVisible ==
    "stale" \notin faults =>
        \A s \in Sessions : Running(s) /\ server[s].asks = "now"
            => \/ files[s].pending = server[s].turns
               \/ reader # NULL /\ reader.session = s

Settled == {"review_complete", "archived"}

\* An authorized session goes through planning, implementation and review by
\* itself, the queue for the worktree included, if nothing disturbs.
JobsFinish ==
    \A s \in Sessions :
        Status(s) = "planning" ~> Status(s) \in Settled \/ faults # {}

\* So does a session that a restart of the server had orphaned, from the stage
\* that its file shows, once the Studio has asked for recovery.
RecoveredJobsFinish ==
    \A s \in Sessions :
        (/\ faults = {"restart"}
         /\ recovered
         /\ Status(s) \in Restartable \cup {"awaiting_review", "reviewing"})
            ~> Status(s) \in Settled \/ faults # {"restart"}

\* A session that waits for the worktree leaves the queue in the end: what
\* status() and the gateway contract promise of jobs after authorization.
QueuedJobsStart ==
    \A s \in Sessions :
        Status(s) = "queued_implementation"
            ~> Status(s) # "queued_implementation"

=============================================================================
