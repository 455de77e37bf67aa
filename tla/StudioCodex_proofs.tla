------------------------ MODULE StudioCodex_proofs -------------------------
(***************************************************************************)
(* Proofs about StudioCodex, for any number of sessions, executor workers  *)
(* and request threads and every combination of disturbances: its type     *)
(* invariant, that the worktree is never idle while a session waits, and   *)
(* what keeps two sessions from writing to it at once.                     *)
(***************************************************************************)
EXTENDS StudioCodex, SequenceTheorems, TLAPS

\* The sessions that have a file.
Known == {s \in Sessions : files[s] # NULL}

TasksOf(S) == [do : {"implement", "review"}, session : S]
                \cup [do : {"recover"}, session : {NULL}]

\* What a thread needs for its next step: a session, whose file exists unless
\* it is about to be created, a phase to ask for, a turn and a copy to write.
Fits(k, existing) ==
    /\ k.at \notin {"idle", "recovering"} => k.session \in Sessions
    /\ k.at \notin {"idle", "recovering", "starting"} => k.session \in existing
    /\ k.at \in {"claiming", "asked", "answered", "recording"} => k.phase \in Phases
    /\ k.at \in {"answered", "recording"} => k.turn \in Turns
    /\ k.at \in {"recording", "failed", "stale", "archiving", "rewriting"} => k.copy \in File

FilesFit == files \in [Sessions -> File \cup {NULL}]
WorkspaceFits == owner \in Sessions \cup {NULL} /\ queue \in Seq(Sessions) /\ NoIdleQueue
TasksFit == tasks \in Seq(TasksOf(Known))
CallsFit == call \in [Threads -> Calls] /\ \A t \in Threads : Fits(call[t], Known)
ReaderFits ==
    /\ reader \in Notification \cup {NULL}
    /\ reader # NULL => reader.session \in Known /\ server[reader.session].turns # 0
ServerFits ==
    /\ server \in [Sessions -> Servers]
    /\ \A s \in Sessions : Running(s) => s \in Known /\ server[s].turns # 0
LateFits == late \subseteq [session : Known, phase : Phases]
CountsFit == recovered \in BOOLEAN /\ faults \subseteq FaultKinds /\ requests \in Nat

IInv ==
    /\ FilesFit
    /\ WorkspaceFits
    /\ TasksFit
    /\ CallsFit
    /\ ReaderFits
    /\ ServerFits
    /\ LateFits
    /\ CountsFit

-----------------------------------------------------------------------------
LEMMA SeqGrows ==
    ASSUME NEW S, NEW T, S \subseteq T, NEW s \in Seq(S)
    PROVE  s \in Seq(T)
  OBVIOUS

LEMMA NothingWaits == DOMAIN <<>> = {} /\ \A S : <<>> \in Seq(S)
  BY EmptySeq

LEMMA OneWaits == ASSUME NEW S, NEW x \in S PROVE <<x>> \in Seq(S)
  OBVIOUS

\* A freed worktree goes to the first session in the queue that still waits.
LEMMA ReleaseFits ==
    ASSUME WorkspaceFits, TasksFit, Known \subseteq Known', NEW s \in Sessions, NEW f,
           NEW more \in Seq(TasksOf(Known')),
           \A r \in Sessions : f[r] # NULL => r \in Known',
           Release(s, f, more)
    PROVE  WorkspaceFits' /\ TasksFit'
<1>0. tasks \in Seq(TasksOf(Known'))
  <2>1. TasksOf(Known) \subseteq TasksOf(Known')
    BY DEF TasksOf
  <2>. QED
    BY <2>1, SeqGrows DEF TasksFit
<1>1. CASE /\ owner \notin {NULL, s}
           /\ tasks' = tasks \o more
           /\ UNCHANGED workspace
  <2>1. tasks \o more \in Seq(TasksOf(Known'))
    BY <1>0
  <2>. QED
    BY <1>1, <2>1 DEF WorkspaceFits, NoIdleQueue, workspace, TasksFit
<1>2. CASE owner' = NULL /\ queue' = <<>> /\ tasks' = tasks \o more
  <2>1. tasks \o more \in Seq(TasksOf(Known'))
    BY <1>0
  <2>. QED
    BY <1>2, <2>1 DEF WorkspaceFits, NoIdleQueue, TasksFit
<1>3. ASSUME NEW i \in Candidates(f),
             owner' = queue[i],
             queue' = SubSeq(queue, i + 1, Len(queue)),
             tasks' = Append(tasks, Implement(queue[i])) \o more
      PROVE  WorkspaceFits' /\ TasksFit'
  <2>1. queue \in Seq(Sessions) /\ i \in 1..Len(queue) /\ Len(queue) \in Nat
    BY <1>3, LenProperties DEF Candidates, WorkspaceFits
  <2>2. queue[i] \in Sessions /\ queue[i] \in Known'
    BY <1>3, <2>1 DEF Candidates
  <2>3. Implement(queue[i]) \in TasksOf(Known')
    BY <2>2 DEF Implement, TasksOf
  <2>4. Append(tasks, Implement(queue[i])) \in Seq(TasksOf(Known'))
    BY <1>0, <2>3, AppendProperties
  <2>5. TasksFit'
    BY <1>3, <2>4 DEF TasksFit
  <2>6. /\ queue' \in Seq(Sessions)
        /\ Len(queue') = Len(queue) - i
        /\ \A j \in 1..Len(queue') : queue'[j] = queue[i + j]
    BY <1>3, <2>1
  <2>7. DOMAIN queue' = 1..(Len(queue) - i) /\ DOMAIN queue = 1..Len(queue)
    BY <2>1, <2>6, LenProperties
  <2>8. queue[i] # NULL
    BY <2>2, NullAssumption
  <2>9. ASSUME NEW j \in DOMAIN queue', NEW k \in DOMAIN queue', queue'[j] = queue'[k] PROVE j = k
    <3>0. /\ j \in 1..(Len(queue) - i) /\ i + j \in 1..Len(queue)
          /\ k \in 1..(Len(queue) - i) /\ i + k \in 1..Len(queue)
      BY <2>1, <2>7
    <3>1. i + j \in DOMAIN queue /\ i + k \in DOMAIN queue /\ queue[i + j] = queue[i + k]
      BY <2>6, <2>7, <2>9, <3>0
    <3>2. i + j = i + k
      BY <3>1 DEF WorkspaceFits, NoIdleQueue
    <3>. QED
      BY <2>1, <2>7, <3>2
  <2>10. ASSUME NEW j \in DOMAIN queue' PROVE queue'[j] # owner'
    <3>1. i + j \in DOMAIN queue /\ i \in DOMAIN queue /\ i + j # i /\ queue'[j] = queue[i + j]
      BY <2>1, <2>6, <2>7
    <3>. QED
      BY <1>3, <3>1 DEF WorkspaceFits, NoIdleQueue
  <2>. QED
    BY <1>3, <2>2, <2>5, <2>6, <2>8, <2>9, <2>10 DEF WorkspaceFits, NoIdleQueue
<1>. QED
  BY <1>1, <1>2, <1>3 DEF Release

\* A session takes a free worktree, or waits behind the others, once.
LEMMA EnqueueFits ==
    ASSUME WorkspaceFits, TasksFit, Known \subseteq Known', NEW s \in Sessions, s \in Known', Enqueue(s)
    PROVE  WorkspaceFits' /\ TasksFit'
<1>0. tasks \in Seq(TasksOf(Known'))
  <2>1. TasksOf(Known) \subseteq TasksOf(Known')
    BY DEF TasksOf
  <2>. QED
    BY <2>1, SeqGrows DEF TasksFit
<1>1. CASE /\ owner \in {NULL, s}
           /\ owner' = s
           /\ tasks' = Append(tasks, Implement(s))
           /\ UNCHANGED queue
  <2>1. Implement(s) \in TasksOf(Known')
    BY DEF Implement, TasksOf
  <2>2. tasks' \in Seq(TasksOf(Known'))
    BY <1>0, <1>1, <2>1, AppendProperties
  <2>3. s # NULL
    BY NullAssumption
  <2>4. \A i \in DOMAIN queue : queue[i] # s
    BY <1>1 DEF WorkspaceFits, NoIdleQueue
  <2>. QED
    BY <1>1, <2>2, <2>3, <2>4 DEF WorkspaceFits, NoIdleQueue, TasksFit
<1>2. CASE /\ owner \notin {NULL, s}
           /\ queue' = Append(queue, s)
           /\ ~Queued(s)
           /\ UNCHANGED <<owner, tasks>>
  <2>1. /\ queue' \in Seq(Sessions)
        /\ Len(queue) \in Nat
        /\ DOMAIN queue = 1..Len(queue)
        /\ DOMAIN queue' = 1..(Len(queue) + 1)
        /\ \A i \in 1..Len(queue) : queue'[i] = queue[i]
        /\ queue'[Len(queue) + 1] = s
    BY <1>2, AppendProperties, LenProperties DEF WorkspaceFits
  <2>2. \A i \in 1..Len(queue) : queue[i] # s
    BY <1>2, <2>1 DEF Queued
  <2>. QED
    BY <1>0, <1>2, <2>1, <2>2 DEF WorkspaceFits, NoIdleQueue, TasksFit
<1>3. CASE owner \notin {NULL, s} /\ UNCHANGED <<queue, owner, tasks>>
  BY <1>0, <1>3 DEF WorkspaceFits, NoIdleQueue, TasksFit
<1>. QED
  BY <1>1, <1>2, <1>3 DEF Enqueue

-----------------------------------------------------------------------------
\* What a step leaves alone stays as it was, as files are never removed.
LEMMA Frame ==
    ASSUME IInv, Known \subseteq Known'
    PROVE  /\ UNCHANGED workspace => WorkspaceFits'
           /\ UNCHANGED tasks => TasksFit'
           /\ UNCHANGED call => CallsFit'
           /\ UNCHANGED <<reader, server>> => ReaderFits'
           /\ UNCHANGED server => ServerFits'
           /\ UNCHANGED late => LateFits'
           /\ UNCHANGED <<recovered, bounds>> => CountsFit'
<1>1. UNCHANGED workspace => WorkspaceFits'
  BY DEF IInv, WorkspaceFits, NoIdleQueue, workspace
<1>2. UNCHANGED tasks => TasksFit'
  <2>1. TasksOf(Known) \subseteq TasksOf(Known')
    BY DEF TasksOf
  <2>. QED
    BY <2>1, SeqGrows DEF IInv, TasksFit
<1>3. UNCHANGED call => CallsFit'
  BY DEF IInv, CallsFit, Fits
<1>4. UNCHANGED <<reader, server>> => ReaderFits'
  BY DEF IInv, ReaderFits
<1>5. UNCHANGED server => ServerFits'
  BY DEF IInv, ServerFits, Running
<1>6. UNCHANGED late => LateFits'
  BY DEF IInv, LateFits
<1>7. UNCHANGED <<recovered, bounds>> => CountsFit'
  BY DEF IInv, CountsFit, bounds
<1>. QED
  BY <1>1, <1>2, <1>3, <1>4, <1>5, <1>6, <1>7

\* A thread moves on.
LEMMA CallMoves ==
    ASSUME IInv, Known \subseteq Known', NEW t \in Threads, NEW k \in Calls, Fits(k, Known'),
           call' = [call EXCEPT ![t] = k]
    PROVE  CallsFit'
<1>1. \A u \in Threads \ {t} : Fits(call'[u], Known')
  <2>. SUFFICES ASSUME NEW u \in Threads \ {t} PROVE Fits(call'[u], Known')
    OBVIOUS
  <2>1. call'[u] = call[u] /\ Fits(call[u], Known)
    BY DEF IInv, CallsFit
  <2>. QED
    BY <2>1 DEF Fits
<1>2. call'[t] = k
  BY DEF IInv, CallsFit
<1>3. Fits(call'[t], Known')
  BY <1>2 DEF Fits
<1>. QED
  BY <1>1, <1>3 DEF IInv, CallsFit

\* A file is written.
LEMMA FileWritten ==
    ASSUME IInv, NEW s \in Sessions, NEW f \in File, files' = [files EXCEPT ![s] = f]
    PROVE  FilesFit' /\ Known \subseteq Known' /\ s \in Known'
  BY NullAssumption DEF IInv, FilesFit, Known

LEMMA FilesSame == IInv /\ UNCHANGED files => FilesFit' /\ Known' = Known
  BY DEF IInv, FilesFit, Known

\* A session that exists has a file.
LEMMA KnownFile == ASSUME IInv, NEW s \in Known PROVE s \in Sessions /\ files[s] \in File
  BY DEF IInv, FilesFit, Known

\* The disturbances stay among those there are.
LEMMA Disturbed ==
    ASSUME IInv, NEW K, Disturb(K) PROVE faults' \subseteq FaultKinds
  BY FaultsAssumption DEF Disturb, IInv, CountsFit

LEMMA IdleFits == Idle \in Calls /\ \A S : Fits(Idle, S)
<1>1. Idle \in Calls
  BY DEF Idle, Calls
<1>. QED
  BY <1>1 DEF Idle, Fits

\* The statuses by name; none of them is the status of a missing file.
LEMMA StatusesNamed ==
    /\ {StartedStatus[p] : p \in Phases} \subseteq Statuses
    /\ {CompletedStatus[p] : p \in Phases} \subseteq Statuses
    /\ {"failed", "interrupted", "archived", "planning", "queued_implementation",
        "implementing", "correcting", "reviewing", "awaiting_review",
        "awaiting_skill_review", "review_complete"} \subseteq Statuses
  BY DEF Statuses, Phases, MutablePhases, StartedStatus, CompletedStatus

LEMMA StatusKnown ==
    ASSUME NEW s \in Sessions, NEW S \in SUBSET Statuses, Status(s) \in S
    PROVE  s \in Known
  BY NullAssumption DEF Status, Exists, Known

LEMMA AllowedTyped ==
    ASSUME NEW phase \in DOMAIN AllowedFrom
    PROVE  phase \in Phases /\ AllowedFrom[phase] \in SUBSET Statuses
<1>1. phase \in {"implementation", "correction", "skill_revision", "review"}
  BY DEF AllowedFrom
<1>2. AllowedFrom[phase] \subseteq {"queued_implementation", "awaiting_review",
                                    "awaiting_skill_review", "review_complete"}
  BY <1>1 DEF AllowedFrom
<1>. QED
  BY <1>1, <1>2, StatusesNamed DEF Phases, MutablePhases

-----------------------------------------------------------------------------
(* Requests and tasks.                                                      *)

LEMMA AuthorizeIInv ==
    ASSUME IInv, NEW u \in Requesters, NEW s \in Sessions, Authorize(u, s) PROVE IInv'
<1>. DEFINE k == [Idle EXCEPT !.at = "starting", !.session = s]
<1>1. FilesFit' /\ Known' = Known
  BY FilesSame DEF Authorize
<1>2. k \in Calls /\ Fits(k, Known')
  BY DEF Idle, Calls, Fits
<1>3. call' = [call EXCEPT ![u] = k]
  BY DEF Authorize
<1>. HIDE DEF k
<1>4. CallsFit'
  BY <1>1, <1>2, <1>3, CallMoves DEF Threads
<1>. QED
  BY <1>1, <1>4, Frame DEF IInv, Authorize, memory, workspace

LEMMA CreateSessionIInv ==
    ASSUME IInv, NEW u \in Requesters, CreateSession(u) PROVE IInv'
<1>. DEFINE k == [call[u] EXCEPT !.at = "asked", !.phase = "planning"]
<1>0. u \in Threads /\ call[u] \in Calls /\ call[u].session \in Sessions
  BY DEF CreateSession, IInv, CallsFit, Fits, Threads
<1>1. NewFile \in File
  BY DEF NewFile, File, Statuses, Phases, StartedStatus
<1>2. FilesFit' /\ Known \subseteq Known' /\ call[u].session \in Known'
  BY <1>0, <1>1, FileWritten DEF CreateSession
<1>3. k \in Calls /\ Fits(k, Known')
  BY <1>0, <1>2 DEF Calls, Fits, Phases
<1>4. call' = [call EXCEPT ![u] = k]
  BY <1>0 DEF CreateSession, IInv, CallsFit
<1>. HIDE DEF k
<1>5. CallsFit'
  BY <1>0, <1>2, <1>3, <1>4, CallMoves
<1>. QED
  BY <1>2, <1>5, Frame DEF IInv, CreateSession, memory, workspace

\* A request or task begins with a session that has a file.
LEMMA BegunFits ==
    ASSUME NEW s \in Known, Known \subseteq Known', NEW phase \in Phases
    PROVE  /\ Begun(s, phase) \in Calls /\ Fits(Begun(s, phase), Known')
           /\ [Begun(s, phase) EXCEPT !.at = "failing"] \in Calls
           /\ Fits([Begun(s, phase) EXCEPT !.at = "failing"], Known')
  BY DEF Begun, Idle, Calls, Fits, Known

LEMMA RequestIInv ==
    ASSUME IInv, NEW u \in Requesters, NEW s \in Sessions, NEW phase \in DOMAIN AllowedFrom,
           Request(u, s, phase)
    PROVE  IInv'
<1>1. FilesFit' /\ Known' = Known
  BY FilesSame DEF Request
<1>2. phase \in Phases /\ s \in Known
  BY AllowedTyped, StatusKnown DEF Request
<1>3. CallsFit'
  BY <1>1, <1>2, BegunFits, CallMoves DEF Request, Threads
<1>4. CountsFit'
  BY Disturbed DEF Request, IInv, CountsFit, memory
<1>. QED
  BY <1>1, <1>3, <1>4, Frame DEF IInv, Request, memory, workspace

LEMMA ClaimIInv ==
    ASSUME IInv, NEW t \in Threads, Claim(t) PROVE IInv'
<1>0. /\ call[t] \in Calls /\ Fits(call[t], Known)
      /\ call[t].session \in Sessions /\ call[t].session # NULL
  BY NullAssumption DEF Claim, IInv, CallsFit, Fits
<1>1. FilesFit' /\ Known' = Known
  BY FilesSame DEF Claim
<1>2. CASE /\ owner \in {NULL, call[t].session}
           /\ owner' = call[t].session
           /\ call' = [call EXCEPT ![t].at = "asked"]
  <2>. DEFINE k == [call[t] EXCEPT !.at = "asked"]
  <2>1. k \in Calls /\ Fits(k, Known')
    BY <1>0, <1>1 DEF Calls, Fits, Claim
  <2>2. call' = [call EXCEPT ![t] = k]
    BY <1>2
  <2>. HIDE DEF k
  <2>3. CallsFit'
    BY <1>1, <2>1, <2>2, CallMoves
  <2>4. WorkspaceFits'
    <3>1. owner = NULL => DOMAIN queue = {}
      BY DEF IInv, WorkspaceFits, NoIdleQueue
    <3>2. queue' = queue
      BY DEF Claim
    <3>. QED
      BY <1>0, <1>2, <3>1, <3>2 DEF IInv, WorkspaceFits, NoIdleQueue
  <2>. QED
    BY <1>1, <2>3, <2>4, Frame DEF IInv, Claim
<1>3. CASE /\ owner' = owner
           /\ call' = [call EXCEPT ![t] = IF t \in Workers
                                          THEN [@ EXCEPT !.at = "failing"]
                                          ELSE Idle]
  <2>. DEFINE k == [call[t] EXCEPT !.at = "failing"]
  <2>1. k \in Calls /\ Fits(k, Known')
    BY <1>0, <1>1 DEF Calls, Fits, Claim
  <2>2. call' = [call EXCEPT ![t] = k] \/ call' = [call EXCEPT ![t] = Idle]
    BY <1>3
  <2>. HIDE DEF k
  <2>3. CallsFit'
    BY <1>1, <2>1, <2>2, CallMoves, IdleFits
  <2>. QED
    BY <1>1, <1>3, <2>3, Frame DEF IInv, Claim, workspace
<1>. QED
  BY <1>2, <1>3 DEF Claim

LEMMA TakeTaskIInv ==
    ASSUME IInv, NEW w \in Workers, TakeTask(w) PROVE IInv'
<1>. DEFINE task == Head(tasks)
            phase == IF task.do = "implement" THEN "implementation" ELSE "review"
<1>0. FilesFit' /\ Known' = Known /\ w \in Threads
  BY FilesSame DEF TakeTask, Threads
<1>1. task \in TasksOf(Known) /\ Tail(tasks) \in Seq(TasksOf(Known))
  BY DEF TakeTask, IInv, TasksFit
<1>2. TasksFit'
  BY <1>0, <1>1 DEF TakeTask, TasksFit
<1>3. CallsFit'
  <2>1. CASE task.do # "recover"
    <3>1. task.session \in Known /\ phase \in Phases
      BY <1>1, <2>1 DEF TasksOf, Phases, MutablePhases
    <3>2. \E k \in {Begun(task.session, phase), [Begun(task.session, phase) EXCEPT !.at = "failing"]} :
             call' = [call EXCEPT ![w] = k]
      BY <2>1 DEF TakeTask
    <3>. HIDE DEF task, phase
    <3>. QED
      BY <1>0, <3>1, <3>2, BegunFits, CallMoves
  <2>2. CASE call' = [call EXCEPT ![w] = [Idle EXCEPT !.at = "recovering",
                                                      !.todo = {s \in Sessions : Exists(s)}]]
    <3>. DEFINE k == [Idle EXCEPT !.at = "recovering", !.todo = {s \in Sessions : Exists(s)}]
    <3>1. k \in Calls /\ Fits(k, Known')
      BY DEF Idle, Calls, Fits
    <3>2. call' = [call EXCEPT ![w] = k]
      BY <2>2
    <3>. HIDE DEF k
    <3>. QED
      BY <1>0, <3>1, <3>2, CallMoves
  <2>3. CASE UNCHANGED call
    BY <1>0, <2>3, Frame
  <2>. QED
    BY <2>1, <2>2, <2>3 DEF TakeTask
<1>4. CountsFit'
  BY Disturbed DEF TakeTask, IInv, CountsFit
<1>. QED
  BY <1>0, <1>2, <1>3, <1>4, Frame DEF IInv, TakeTask

-----------------------------------------------------------------------------
(* The app-server and its answers.                                         *)

\* A thread of the app-server changes, and forgets no turn.
LEMMA ServerMoves ==
    ASSUME IInv, Known \subseteq Known', NEW s \in Sessions, NEW v \in Servers,
           v.phase # NULL => s \in Known' /\ v.turns # 0,
           server[s].turns # 0 => v.turns # 0,
           server' = [server EXCEPT ![s] = v]
    PROVE  ServerFits' /\ (UNCHANGED reader => ReaderFits')
<1>1. /\ server'[s] = v
      /\ \A r \in Sessions \ {s} : server'[r] = server[r]
      /\ server' \in [Sessions -> Servers]
  BY DEF IInv, ServerFits
<1>2. ServerFits'
  BY <1>1 DEF IInv, ServerFits, Running
<1>3. UNCHANGED reader => ReaderFits'
  BY <1>1 DEF IInv, ReaderFits, Known, Notification
<1>. QED
  BY <1>2, <1>3

LEMMA BeginFits ==
    ASSUME IInv, Known \subseteq Known', NEW s \in Known, NEW phase \in Phases, Begin(s, phase)
    PROVE  ServerFits' /\ (UNCHANGED reader => ReaderFits')
<1>. DEFINE v == [turns |-> server[s].turns + 1, phase |-> phase, stop |-> FALSE,
                  asks |-> "not yet"]
<1>1. s \in Sessions /\ server[s].turns \in Nat
  BY DEF Known, IInv, ServerFits, Servers
<1>2. v \in Servers /\ v.turns # 0
  BY <1>1 DEF Servers
<1>3. server' = [server EXCEPT ![s] = v]
  BY <1>1 DEF Begin, IInv, ServerFits
<1>. HIDE DEF v
<1>. QED
  BY <1>1, <1>2, <1>3, ServerMoves

LEMMA AcceptIInv ==
    ASSUME IInv, NEW t \in Threads, Accept(t) PROVE IInv'
<1>. DEFINE n == server[call[t].session].turns + 1
            k == [call[t] EXCEPT !.at = "answered", !.turn = n]
<1>0. call[t] \in Calls /\ Fits(call[t], Known) /\ call[t].session \in Known /\ call[t].phase \in Phases
  BY DEF Accept, IInv, CallsFit, Fits
<1>1. FilesFit' /\ Known' = Known
  BY FilesSame DEF Accept
<1>2. n \in Turns
  <2>1. server[call[t].session] \in Servers
    BY <1>0 DEF IInv, ServerFits, Known
  <2>2. server[call[t].session].turns \in Nat
    BY <2>1 DEF Servers
  <2>. QED
    BY <2>2 DEF Turns
<1>3. call' = [call EXCEPT ![t] = k]
  BY DEF Accept, IInv, CallsFit
<1>. HIDE DEF n
<1>4. k \in Calls /\ Fits(k, Known')
  <2>1. call[t].session \in Sessions
    BY <1>0 DEF Known
  <2>2. k \in Calls
    BY <1>0, <1>2 DEF Calls
  <2>. QED
    BY <1>0, <1>1, <1>2, <2>1 DEF Calls, Fits
<1>. HIDE DEF k
<1>5. CallsFit'
  BY <1>1, <1>3, <1>4, CallMoves
<1>6. ServerFits' /\ ReaderFits'
  BY <1>0, <1>1, BeginFits DEF Accept
<1>. QED
  BY <1>1, <1>5, <1>6, Frame DEF IInv, Accept, memory, workspace

LEMMA AcceptLateIInv ==
    ASSUME IInv, NEW r \in late, AcceptLate(r) PROVE IInv'
<1>1. FilesFit' /\ Known' = Known
  BY FilesSame DEF AcceptLate
<1>2. r.session \in Known /\ r.phase \in Phases
  BY DEF IInv, LateFits
<1>3. ServerFits' /\ ReaderFits'
  <2>1. CASE UNCHANGED server
    BY <1>1, <2>1, Frame DEF AcceptLate
  <2>2. CASE Begin(r.session, r.phase)
    BY <1>1, <1>2, <2>2, BeginFits DEF AcceptLate
  <2>. QED
    BY <2>1, <2>2 DEF AcceptLate
<1>4. LateFits'
  BY <1>1 DEF AcceptLate, IInv, LateFits
<1>. QED
  BY <1>1, <1>3, <1>4, Frame DEF IInv, AcceptLate, memory, workspace

\* A thread goes to another step with what it has.
LEMMA StepFits ==
    ASSUME IInv, NEW t \in Threads, call[t].session \in Known, NEW S, Known \subseteq S,
           NEW a \in {"failing", "undoing", "freeing"}
    PROVE  LET k == [call[t] EXCEPT !.at = a] IN k \in Calls /\ Fits(k, S) /\ k.session = call[t].session
<1>1. call[t] \in Calls /\ call[t].session \in Sessions
  BY DEF IInv, CallsFit, Known
<1>. QED
  BY <1>1 DEF Calls, Fits

LEMMA RaisedFits ==
    ASSUME IInv, Known' = Known, NEW t \in Threads, call[t].session \in Known, Raised(t)
    PROVE  CallsFit'
<1>1. \/ call' = [call EXCEPT ![t] = [call[t] EXCEPT !.at = "undoing"]]
      \/ call' = [call EXCEPT ![t] = [call[t] EXCEPT !.at = "failing"]]
      \/ call' = [call EXCEPT ![t] = Idle]
  BY DEF Raised
<1>2. ASSUME NEW a \in {"undoing", "failing"}, call' = [call EXCEPT ![t] = [call[t] EXCEPT !.at = a]]
      PROVE  CallsFit'
  <2>. DEFINE k == [call[t] EXCEPT !.at = a]
  <2>1. k \in Calls /\ Fits(k, Known')
    BY StepFits
  <2>. HIDE DEF k
  <2>2. call' = [call EXCEPT ![t] = k]
    BY <1>2 DEF k
  <2>. QED
    BY <2>1, <2>2, CallMoves
<1>. QED
  BY <1>1, <1>2, CallMoves, IdleFits

LEMMA RefuseIInv ==
    ASSUME IInv, NEW t \in Threads, Refuse(t) PROVE IInv'
<1>1. FilesFit' /\ Known' = Known
  BY FilesSame DEF Refuse
<1>2. call[t].session \in Known
  BY DEF Refuse, IInv, CallsFit, Fits
<1>3. CallsFit'
  BY <1>1, <1>2, RaisedFits DEF Refuse
<1>4. CountsFit'
  BY Disturbed DEF Refuse, IInv, CountsFit, memory
<1>. QED
  BY <1>1, <1>3, <1>4, Frame DEF IInv, Refuse, memory, workspace

LEMMA TimeoutIInv ==
    ASSUME IInv, NEW t \in Threads, Timeout(t) PROVE IInv'
<1>1. FilesFit' /\ Known' = Known
  BY FilesSame DEF Timeout
<1>2. call[t].session \in Known /\ call[t].phase \in Phases
  BY DEF Timeout, IInv, CallsFit, Fits
<1>3. CallsFit'
  BY <1>1, <1>2, RaisedFits DEF Timeout
<1>4. CountsFit'
  BY Disturbed DEF Timeout, IInv, CountsFit, memory
<1>5. LateFits'
  BY <1>1, <1>2 DEF Timeout, IInv, LateFits
<1>. QED
  BY <1>1, <1>3, <1>4, <1>5, Frame DEF IInv, Timeout, memory, workspace

\* The worktree is released for what waits in the files as they are.
LEMMA ReleaseHere ==
    ASSUME IInv, UNCHANGED files, NEW s \in Sessions, Release(s, files, <<>>)
    PROVE  WorkspaceFits' /\ TasksFit'
<1>1. Known' = Known
  BY DEF Known
<1>2. <<>> \in Seq(TasksOf(Known'))
  BY EmptySeq
<1>3. \A r \in Sessions : files[r] # NULL => r \in Known'
  BY <1>1 DEF Known
<1>. QED
  BY <1>1, <1>2, <1>3, ReleaseFits DEF IInv

LEMMA UndoIInv ==
    ASSUME IInv, NEW t \in Threads, Undo(t) PROVE IInv'
<1>1. FilesFit' /\ Known' = Known
  BY FilesSame DEF Undo
<1>2. call[t].session \in Known /\ call[t].session \in Sessions
  BY DEF Undo, IInv, CallsFit, Fits, Known
<1>. DEFINE k == [call[t] EXCEPT !.at = "failing"]
<1>3. k \in Calls /\ Fits(k, Known')
  BY <1>1, <1>2, StepFits
<1>4. call' = [call EXCEPT ![t] = k] \/ call' = [call EXCEPT ![t] = Idle]
  BY DEF Undo
<1>. HIDE DEF k
<1>5. CallsFit'
  BY <1>1, <1>3, <1>4, CallMoves, IdleFits
<1>6. WorkspaceFits' /\ TasksFit'
  BY <1>2, ReleaseHere DEF Undo
<1>. QED
  BY <1>1, <1>5, <1>6, Frame DEF IInv, Undo

LEMMA ReadBackIInv ==
    ASSUME IInv, NEW t \in Threads, ReadBack(t) PROVE IInv'
<1>. DEFINE k == [call[t] EXCEPT !.at = "recording", !.copy = files[call[t].session]]
<1>0. call[t] \in Calls /\ Fits(call[t], Known) /\ call[t].session \in Known
  BY DEF ReadBack, IInv, CallsFit, Fits
<1>1. FilesFit' /\ Known' = Known
  BY FilesSame DEF ReadBack
<1>2. files[call[t].session] \in File
  BY <1>0, KnownFile
<1>3. k \in Calls /\ Fits(k, Known')
  BY <1>0, <1>1, <1>2 DEF Calls, Fits, ReadBack
<1>4. call' = [call EXCEPT ![t] = k]
  BY DEF ReadBack, IInv, CallsFit
<1>. HIDE DEF k
<1>5. CallsFit'
  BY <1>1, <1>3, <1>4, CallMoves
<1>6. CountsFit'
  BY Disturbed DEF ReadBack, IInv, CountsFit, memory
<1>. QED
  BY <1>1, <1>5, <1>6, Frame DEF IInv, ReadBack, memory, workspace

LEMMA CurrentTyped ==
    ASSUME NEW s, NEW T \in SUBSET Turns PROVE Current(s, T) \in SUBSET Turns
  BY DEF Current

LEMMA RecordIInv ==
    ASSUME IInv, NEW t \in Threads, Record(t) PROVE IInv' /\ Known \subseteq Known'
<1>. DEFINE s == call[t].session
            status == IF call[t].phase = "planning" THEN call[t].copy.status
                      ELSE StartedStatus[call[t].phase]
            turns == Current(s, call[t].copy.turns \cup {call[t].turn})
            f == [call[t].copy EXCEPT !.status = status, !.active = call[t].turn, !.turns = turns]
<1>0. /\ s \in Sessions /\ call[t].copy \in File
      /\ call[t].turn \in Turns /\ call[t].phase \in Phases
  BY DEF Record, IInv, CallsFit, Fits, Known
<1>1. status \in Statuses
  BY <1>0, StatusesNamed DEF File
<1>2. turns \in SUBSET Turns
  BY <1>0, CurrentTyped DEF File
<1>3. files' = [files EXCEPT ![s] = f]
  BY DEF Record
<1>. HIDE DEF status, turns
<1>4. f \in File
  BY <1>0, <1>1, <1>2 DEF File
<1>. HIDE DEF f
<1>5. FilesFit' /\ Known \subseteq Known'
  BY <1>0, <1>3, <1>4, FileWritten
<1>6. CallsFit'
  BY <1>5, CallMoves, IdleFits DEF Record
<1>. QED
  BY <1>5, <1>6, Frame DEF IInv, Record, memory, workspace

-----------------------------------------------------------------------------
(* What the failure handler does.                                          *)

LEMMA ReadFailedIInv ==
    ASSUME IInv, NEW w \in Workers, ReadFailed(w) PROVE IInv'
<1>. DEFINE k == [call[w] EXCEPT !.at = "failed", !.copy = files[call[w].session]]
<1>0. w \in Threads /\ call[w] \in Calls /\ call[w].session \in Known
  BY DEF ReadFailed, IInv, CallsFit, Fits, Threads
<1>1. FilesFit' /\ Known' = Known
  BY FilesSame DEF ReadFailed
<1>2. files[call[w].session] \in File /\ call[w].session \in Sessions
  BY <1>0, KnownFile
<1>3. k \in Calls /\ Fits(k, Known')
  BY <1>0, <1>1, <1>2 DEF Calls, Fits
<1>4. call' = [call EXCEPT ![w] = k]
  BY <1>0 DEF ReadFailed, IInv, CallsFit
<1>. HIDE DEF k
<1>5. CallsFit'
  BY <1>0, <1>1, <1>3, <1>4, CallMoves
<1>6. CountsFit'
  BY Disturbed DEF ReadFailed, IInv, CountsFit, memory
<1>. QED
  BY <1>1, <1>5, <1>6, Frame DEF IInv, ReadFailed, memory, workspace

LEMMA RecordFailedIInv ==
    ASSUME IInv, NEW w \in Workers, RecordFailed(w) PROVE IInv' /\ Known \subseteq Known'
<1>. DEFINE f == [call[w].copy EXCEPT !.status = "failed", !.active = NULL]
            k == [call[w] EXCEPT !.at = "freeing", !.copy = NULL]
<1>0. /\ w \in Threads /\ call[w] \in Calls /\ call[w].session \in Sessions
      /\ call[w].copy \in File
  BY DEF RecordFailed, IInv, CallsFit, Fits, Threads, Known
<1>1. f \in File
  BY <1>0, StatusesNamed DEF File
<1>2. files' = [files EXCEPT ![call[w].session] = f]
  BY DEF RecordFailed
<1>3. call' = [call EXCEPT ![w] = k]
  BY <1>0 DEF RecordFailed, IInv, CallsFit
<1>. HIDE DEF f
<1>4. FilesFit' /\ Known \subseteq Known' /\ call[w].session \in Known'
  BY <1>0, <1>1, <1>2, FileWritten
<1>5. k \in Calls /\ Fits(k, Known')
  BY <1>0, <1>4 DEF Calls, Fits
<1>. HIDE DEF k
<1>6. CallsFit'
  BY <1>0, <1>3, <1>4, <1>5, CallMoves
<1>. QED
  BY <1>4, <1>6, Frame DEF IInv, RecordFailed, memory, workspace

LEMMA FreeFailedIInv ==
    ASSUME IInv, NEW w \in Workers, FreeFailed(w) PROVE IInv'
<1>1. FilesFit' /\ Known' = Known
  BY FilesSame DEF FreeFailed
<1>2. w \in Threads /\ call[w].session \in Sessions
  BY DEF FreeFailed, IInv, CallsFit, Fits, Threads
<1>3. CallsFit'
  BY <1>1, <1>2, CallMoves, IdleFits DEF FreeFailed
<1>4. WorkspaceFits' /\ TasksFit'
  BY <1>2, ReleaseHere DEF FreeFailed
<1>. QED
  BY <1>1, <1>3, <1>4, Frame DEF IInv, FreeFailed

-----------------------------------------------------------------------------
(* Notifications.                                                          *)

LEMMA TurnCompletedIInv ==
    ASSUME IInv, NEW s \in Sessions, NEW outcome \in {"completed", "failed", "interrupted"},
           TurnCompleted(s, outcome)
    PROVE  IInv'
<1>1. FilesFit' /\ Known' = Known
  BY FilesSame DEF TurnCompleted
<1>2. s \in Known /\ server[s].turns # 0
  BY DEF TurnCompleted, IInv, ServerFits
<1>3. files[s] \in File
  BY <1>2, KnownFile
<1>4. ReaderFits'
  BY <1>1, <1>2, <1>3 DEF TurnCompleted, ReaderFits, Notification, Events
<1>5. CountsFit'
  BY Disturbed DEF TurnCompleted, IInv, CountsFit, memory
<1>. QED
  BY <1>1, <1>4, <1>5, Frame DEF IInv, TurnCompleted, memory, workspace

LEMMA AskPermissionIInv ==
    ASSUME IInv, NEW s \in Sessions, AskPermission(s) PROVE IInv'
<1>. DEFINE v == [server[s] EXCEPT !.asks = "now"]
<1>1. FilesFit' /\ Known' = Known
  BY FilesSame DEF AskPermission
<1>2. server[s] \in Servers /\ s \in Known /\ server[s].turns # 0
  BY NullAssumption DEF AskPermission, IInv, ServerFits, Running, Phases, MutablePhases
<1>3. files[s] \in File
  BY <1>2, KnownFile
<1>4. v \in Servers /\ v.turns # 0
  BY <1>2 DEF Servers
<1>5. server' = [server EXCEPT ![s] = v]
  BY DEF AskPermission, IInv, ServerFits
<1>6. server'[s].turns # 0
  BY <1>4, <1>5 DEF IInv, ServerFits
<1>. HIDE DEF v
<1>7. ServerFits'
  BY <1>1, <1>2, <1>4, <1>5, ServerMoves
<1>8. ReaderFits'
  BY <1>1, <1>2, <1>3, <1>6 DEF AskPermission, ReaderFits, Notification, Events
<1>9. CountsFit'
  BY Disturbed DEF AskPermission, IInv, CountsFit, memory
<1>. QED
  BY <1>1, <1>7, <1>8, <1>9, Frame DEF IInv, AskPermission, memory, workspace

LEMMA OtherEventIInv ==
    ASSUME IInv, NEW s \in Sessions, OtherEvent(s) PROVE IInv'
<1>1. FilesFit' /\ Known' = Known
  BY FilesSame DEF OtherEvent
<1>2. s \in Known /\ server[s].turns # 0
  BY DEF OtherEvent, IInv, ServerFits
<1>3. files[s] \in File
  BY <1>2, KnownFile
<1>4. ReaderFits'
  BY <1>1, <1>2, <1>3 DEF OtherEvent, ReaderFits, Notification, Events
<1>5. CountsFit'
  BY Disturbed DEF OtherEvent, IInv, CountsFit, memory
<1>. QED
  BY <1>1, <1>4, <1>5, Frame DEF IInv, OtherEvent, memory, workspace

\* The file that the reader writes, whatever it was told.
LEMMA ReceivedTyped ==
    ASSUME IInv, reader # NULL
    PROVE  Received \in File /\ KnownPhase \in Phases \cup {NULL}
<1>. DEFINE s == reader.session
<1>1. /\ s \in Sessions /\ reader.event \in Events /\ reader.copy \in File
      /\ server[s] \in Servers /\ server[s].turns # 0
  BY DEF IInv, ReaderFits, ServerFits, Notification
<1>2. server[s].turns \in Turns /\ server[s].phase \in Phases \cup {NULL}
  BY <1>1 DEF Servers, Turns
<1>3. KnownPhase \in Phases \cup {NULL}
  BY <1>2 DEF KnownPhase
<1>4. CASE reader.event = "approval"
  BY <1>1, <1>2, <1>3, <1>4 DEF Received, File
<1>5. CASE reader.event = "other"
  BY <1>1, <1>3, <1>5 DEF Received
<1>6. CASE reader.event \notin {"approval", "other"}
  <2>. DEFINE status == CASE Done # NULL -> CompletedStatus[Done]
                          [] reader.event # "completed" -> reader.event
                          [] OTHER -> reader.copy.status
  <2>1. status \in Statuses
    <3>1. CASE Done # NULL
      BY <1>3, <3>1, StatusesNamed DEF Done
    <3>2. CASE reader.event # "completed"
      BY <1>1, <1>6, <3>2, StatusesNamed DEF Events, Done
    <3>3. CASE Done = NULL /\ reader.event = "completed"
      BY <1>1, <3>3 DEF File
    <3>. QED
      BY <3>1, <3>2, <3>3
  <2>2. Received = [reader.copy EXCEPT !.status = status, !.active = NULL, !.turns = {}]
    BY <1>6 DEF Received, Ended
  <2>. HIDE DEF status
  <2>. QED
    BY <1>1, <1>3, <2>1, <2>2 DEF File
<1>. QED
  BY <1>4, <1>5, <1>6

LEMMA ReceiveIInv ==
    ASSUME IInv, Receive PROVE IInv' /\ Known \subseteq Known'
<1>. DEFINE s == reader.session
<1>0. reader # NULL /\ s \in Sessions /\ s \in Known
  BY DEF Receive, IInv, ReaderFits, Notification
<1>1. FilesFit' /\ Known \subseteq Known' /\ s \in Known'
  BY <1>0, ReceivedTyped, FileWritten DEF Receive
<1>2. WorkspaceFits' /\ TasksFit'
  <2>1. CASE UNCHANGED <<owner, queue, tasks>>
    BY <1>1, <2>1, Frame DEF workspace
  <2>2. CASE Enqueue(s)
    BY <1>0, <1>1, <2>2, EnqueueFits DEF IInv
  <2>3. ASSUME NEW more \in {<<>>, <<Review(s)>>}, Release(s, files', more)
        PROVE  WorkspaceFits' /\ TasksFit'
    <3>1. Review(s) \in TasksOf(Known')
      BY <1>1 DEF Review, TasksOf
    <3>2. more \in Seq(TasksOf(Known'))
      <4>1. <<Review(s)>> \in Seq(TasksOf(Known'))
        BY <3>1, OneWaits
      <4>. QED
        BY <2>3, <4>1, NothingWaits
    <3>3. \A r \in Sessions : files'[r] # NULL => r \in Known'
      BY DEF Known
    <3>. QED
      BY <1>0, <1>1, <2>3, <3>2, <3>3, ReleaseFits DEF IInv
  <2>4. Follow(s, files')
    BY DEF Receive
  <2>. QED
    BY <2>1, <2>2, <2>3, <2>4 DEF Follow
<1>3. ServerFits'
  <2>1. CASE UNCHANGED server
    BY <1>1, <2>1, Frame
  <2>2. CASE server' = [server EXCEPT ![s].phase = NULL, ![s].stop = FALSE]
    <3>. DEFINE v == [server[s] EXCEPT !.phase = NULL, !.stop = FALSE]
    <3>1. server[s] \in Servers
      BY <1>0 DEF IInv, ServerFits
    <3>2. v \in Servers /\ v.phase = NULL /\ v.turns = server[s].turns
      BY <3>1 DEF Servers
    <3>3. server' = [server EXCEPT ![s] = v]
      BY <1>0, <2>2 DEF IInv, ServerFits
    <3>. HIDE DEF v
    <3>. QED
      BY <1>0, <1>1, <3>2, <3>3, ServerMoves
  <2>. QED
    BY <2>1, <2>2 DEF Receive
<1>4. ReaderFits'
  BY DEF Receive, ReaderFits
<1>. QED
  BY <1>1, <1>2, <1>3, <1>4, Frame DEF IInv, Receive

-----------------------------------------------------------------------------
(* Requests that write what they have read.                                *)

\* A request leaves with a file to write.
LEMMA StaleFits ==
    ASSUME IInv, Known' = Known, NEW u \in Requesters, NEW s \in Known, NEW f \in File,
           NEW at \in {"stale", "archiving"},
           call' = [call EXCEPT ![u] = [Idle EXCEPT !.at = at, !.session = s, !.copy = f]]
    PROVE  CallsFit'
<1>. DEFINE k == [Idle EXCEPT !.at = at, !.session = s, !.copy = f]
<1>1. k \in Calls /\ Fits(k, Known')
  BY DEF Idle, Calls, Fits, Known
<1>2. call' = [call EXCEPT ![u] = k]
  OBVIOUS
<1>. HIDE DEF k
<1>. QED
  BY <1>1, <1>2, CallMoves DEF Threads

LEMMA InterruptIInv ==
    ASSUME IInv, NEW u \in Requesters, NEW s \in Sessions, Interrupt(u, s) PROVE IInv'
<1>. DEFINE v == [server[s] EXCEPT !.stop = TRUE, !.asks = "answered"]
<1>1. FilesFit' /\ Known' = Known
  BY FilesSame DEF Interrupt
<1>2. server[s] \in Servers /\ s \in Known /\ server[s].turns # 0 /\ files[s] \in File
  BY KnownFile DEF Interrupt, IInv, ServerFits
<1>3. v \in Servers /\ v.turns # 0
  BY <1>2 DEF Servers
<1>4. server' = [server EXCEPT ![s] = v]
  BY DEF Interrupt, IInv, ServerFits
<1>. HIDE DEF v
<1>5. ServerFits' /\ ReaderFits'
  BY <1>1, <1>2, <1>3, <1>4, ServerMoves DEF Interrupt
<1>6. CallsFit'
  BY <1>1, <1>2, StaleFits DEF Interrupt
<1>7. CountsFit'
  BY Disturbed DEF Interrupt, IInv, CountsFit, memory
<1>. QED
  BY <1>1, <1>5, <1>6, <1>7, Frame DEF IInv, Interrupt, memory, workspace

LEMMA RespondIInv ==
    ASSUME IInv, NEW u \in Requesters, NEW s \in Sessions, Respond(u, s) PROVE IInv'
<1>1. FilesFit' /\ Known' = Known
  BY FilesSame DEF Respond
<1>2. server[s] \in Servers /\ s \in Known /\ files[s] \in File
  BY KnownFile DEF Respond, IInv, ServerFits, Exists, Known
<1>3. ServerFits' /\ ReaderFits'
  <2>1. CASE UNCHANGED server
    BY <1>1, <2>1, Frame DEF Respond
  <2>2. CASE server' = [server EXCEPT ![s].asks = "answered"]
    <3>. DEFINE v == [server[s] EXCEPT !.asks = "answered"]
    <3>1. v \in Servers /\ v.turns = server[s].turns /\ v.phase = server[s].phase
      BY <1>2 DEF Servers
    <3>2. server' = [server EXCEPT ![s] = v]
      BY <2>2 DEF IInv, ServerFits
    <3>3. v.phase # NULL => v.turns # 0
      BY <3>1 DEF IInv, ServerFits, Running
    <3>. HIDE DEF v
    <3>. QED
      BY <1>1, <1>2, <3>1, <3>2, <3>3, ServerMoves DEF Respond
  <2>. QED
    BY <2>1, <2>2 DEF Respond
<1>4. CallsFit'
  <2>. DEFINE f == [files[s] EXCEPT !.pending = NULL]
  <2>1. f \in File
    BY <1>2 DEF File
  <2>2. call' = [call EXCEPT ![u] = [Idle EXCEPT !.at = "stale", !.session = s, !.copy = f]]
    BY DEF Respond
  <2>. HIDE DEF f
  <2>. QED
    BY <1>1, <1>2, <2>1, <2>2, StaleFits
<1>5. CountsFit'
  BY Disturbed DEF Respond, IInv, CountsFit, memory
<1>. QED
  BY <1>1, <1>3, <1>4, <1>5, Frame DEF IInv, Respond, memory, workspace

LEMMA PollIInv ==
    ASSUME IInv, NEW u \in Requesters, NEW s \in Sessions, Poll(u, s) PROVE IInv'
<1>1. FilesFit' /\ Known' = Known
  BY FilesSame DEF Poll
<1>2. s \in Known /\ files[s] \in File
  BY KnownFile DEF Poll, Exists, Known
<1>3. CallsFit'
  BY <1>1, <1>2, StaleFits DEF Poll
<1>4. CountsFit'
  BY Disturbed DEF Poll, IInv, CountsFit, memory
<1>. QED
  BY <1>1, <1>3, <1>4, Frame DEF IInv, Poll, memory, workspace

LEMMA WriteStaleIInv ==
    ASSUME IInv, NEW u \in Requesters, WriteStale(u) PROVE IInv' /\ Known \subseteq Known'
<1>. DEFINE turns == Current(call[u].session, call[u].copy.turns)
            f == [call[u].copy EXCEPT !.turns = turns]
<1>0. u \in Threads /\ call[u].session \in Sessions /\ call[u].copy \in File
  BY DEF WriteStale, IInv, CallsFit, Fits, Threads
<1>1. turns \in SUBSET Turns
  BY <1>0, CurrentTyped DEF File
<1>2. files' = [files EXCEPT ![call[u].session] = f]
  BY DEF WriteStale
<1>. HIDE DEF turns
<1>3. f \in File
  BY <1>0, <1>1 DEF File
<1>. HIDE DEF f
<1>4. FilesFit' /\ Known \subseteq Known'
  BY <1>0, <1>2, <1>3, FileWritten
<1>5. CallsFit'
  BY <1>0, <1>4, CallMoves, IdleFits DEF WriteStale
<1>. QED
  BY <1>4, <1>5, Frame DEF IInv, WriteStale, memory, workspace

LEMMA ArchiveIInv ==
    ASSUME IInv, NEW u \in Requesters, NEW s \in Sessions, Archive(u, s) PROVE IInv'
<1>1. FilesFit' /\ Known' = Known
  BY FilesSame DEF Archive
<1>2. s \in Known /\ files[s] \in File
  BY KnownFile DEF Archive, Exists, Known
<1>3. CallsFit'
  BY <1>1, <1>2, StaleFits DEF Archive
<1>4. CountsFit'
  BY Disturbed DEF Archive, IInv, CountsFit, memory
<1>. QED
  BY <1>1, <1>3, <1>4, Frame DEF IInv, Archive, memory, workspace

LEMMA WriteArchivedIInv ==
    ASSUME IInv, NEW u \in Requesters, WriteArchived(u) PROVE IInv' /\ Known \subseteq Known'
<1>. DEFINE turns == Current(call[u].session, call[u].copy.turns)
            f == [call[u].copy EXCEPT !.status = "archived", !.turns = turns]
<1>0. u \in Threads /\ call[u].session \in Sessions /\ call[u].copy \in File
  BY DEF WriteArchived, IInv, CallsFit, Fits, Threads
<1>1. turns \in SUBSET Turns
  BY <1>0, CurrentTyped DEF File
<1>2. files' = [files EXCEPT ![call[u].session] = f]
  BY DEF WriteArchived
<1>. HIDE DEF turns
<1>3. f \in File
  BY <1>0, <1>1, StatusesNamed DEF File
<1>. HIDE DEF f
<1>4. FilesFit' /\ Known \subseteq Known'
  BY <1>0, <1>2, <1>3, FileWritten
<1>5. CallsFit'
  BY <1>0, <1>4, CallMoves, IdleFits DEF WriteArchived
<1>. QED
  BY <1>4, <1>5, Frame DEF IInv, WriteArchived, memory, workspace

-----------------------------------------------------------------------------
(* Restart and recovery.                                                   *)

LEMMA RestartIInv ==
    ASSUME IInv, Restart PROVE IInv'
<1>1. FilesFit' /\ Known' = Known
  BY FilesSame DEF Restart
<1>2. WorkspaceFits' /\ TasksFit'
  BY NothingWaits DEF Restart, WorkspaceFits, NoIdleQueue, TasksFit
<1>3. CallsFit'
  <2>1. Fits(Idle, Known')
    BY IdleFits
  <2>2. \A t \in Threads : call'[t] = Idle
    BY DEF Restart
  <2>3. \A t \in Threads : Fits(call'[t], Known')
    BY <2>1, <2>2
  <2>. QED
    BY <2>3, IdleFits DEF Restart, CallsFit
<1>4. ServerFits' /\ ReaderFits'
  <2>1. ASSUME NEW s \in Sessions PROVE server'[s] \in Servers /\ server'[s].phase = NULL
    <3>1. server[s] \in Servers
      BY DEF IInv, ServerFits
    <3>2. server'[s] = [server[s] EXCEPT !.phase = NULL, !.stop = FALSE]
      BY DEF Restart
    <3>. QED
      BY <3>1, <3>2 DEF Servers
  <2>2. ServerFits'
    BY <2>1 DEF Restart, ServerFits, Running
  <2>. QED
    BY <2>2 DEF Restart, ReaderFits
<1>5. LateFits'
  BY DEF Restart, LateFits
<1>6. CountsFit'
  BY Disturbed DEF Restart, IInv, CountsFit
<1>. QED
  BY <1>1, <1>2, <1>3, <1>4, <1>5, <1>6 DEF IInv

LEMMA ReloadIInv ==
    ASSUME IInv, Reload PROVE IInv'
<1>1. FilesFit' /\ Known' = Known
  BY FilesSame DEF Reload
<1>2. TasksFit'
  <2>1. Recover \in TasksOf(Known')
    BY DEF Recover, TasksOf
  <2>2. tasks \in Seq(TasksOf(Known'))
    BY <1>1 DEF IInv, TasksFit
  <2>. QED
    BY <2>1, <2>2, AppendProperties DEF Reload, TasksFit
<1>3. CountsFit'
  BY Disturbed DEF Reload, IInv, CountsFit
<1>. QED
  BY <1>1, <1>2, <1>3, Frame DEF IInv, Reload

LEMMA RecoverNextIInv ==
    ASSUME IInv, NEW w \in Workers, RecoverNext(w) PROVE IInv'
<1>0. w \in Threads /\ call[w] \in Calls /\ call[w].todo \subseteq Sessions
  BY DEF Threads, IInv, CallsFit, Calls
<1>1. FilesFit' /\ Known' = Known
  BY FilesSame DEF RecoverNext
<1>2. CASE call[w].todo = {}
  <2>1. CallsFit'
    BY <1>0, <1>1, <1>2, CallMoves, IdleFits DEF RecoverNext
  <2>2. CountsFit'
    BY <1>2 DEF RecoverNext, IInv, CountsFit, memory
  <2>. QED
    BY <1>1, <2>1, <2>2, Frame DEF IInv, RecoverNext, memory, workspace
<1>3. ASSUME NEW s \in call[w].todo, Status(s) \in Restartable \cup Reviewable,
             faults' = faults \cup If(Copied(s, w), "stale") \cup If(AtWork(s, w), "reload"),
             call' = [call EXCEPT ![w] =
                         [@ EXCEPT !.at = "rewriting", !.session = s,
                                   !.copy = files[s],
                                   !.todo = call[w].todo \ {s}]]
      PROVE  IInv'
  <2>1. s \in Sessions /\ s \in Known
    <3>1. Restartable \cup Reviewable \in SUBSET Statuses
      BY StatusesNamed DEF Restartable, Reviewable
    <3>. QED
      BY <1>0, <1>3, <3>1, StatusKnown
  <2>2. files[s] \in File
    BY <2>1, KnownFile
  <2>. DEFINE k == [call[w] EXCEPT !.at = "rewriting", !.session = s, !.copy = files[s],
                                   !.todo = call[w].todo \ {s}]
  <2>3. k \in Calls /\ Fits(k, Known')
    BY <1>0, <1>1, <2>1, <2>2 DEF Calls, Fits
  <2>4. call' = [call EXCEPT ![w] = k]
    BY <1>0, <1>3 DEF IInv, CallsFit
  <2>. HIDE DEF k
  <2>5. CallsFit'
    BY <1>0, <1>1, <2>3, <2>4, CallMoves
  <2>6. CountsFit'
    BY <1>3 DEF RecoverNext, IInv, CountsFit, memory, If, FaultKinds
  <2>. QED
    BY <1>1, <2>5, <2>6, Frame DEF IInv, RecoverNext, memory, workspace
<1>4. ASSUME NEW s \in call[w].todo, UNCHANGED faults, call[w].at = "recovering",
             call' = [call EXCEPT ![w].todo = @ \ {s}]
      PROVE  IInv'
  <2>. DEFINE k == [call[w] EXCEPT !.todo = call[w].todo \ {s}]
  <2>1. k \in Calls /\ Fits(k, Known')
    BY <1>0, <1>4 DEF Calls, Fits
  <2>2. call' = [call EXCEPT ![w] = k]
    BY <1>0, <1>4 DEF IInv, CallsFit
  <2>. HIDE DEF k
  <2>3. CallsFit'
    BY <1>0, <1>1, <2>1, <2>2, CallMoves
  <2>4. CountsFit'
    BY <1>4 DEF RecoverNext, IInv, CountsFit, memory
  <2>. QED
    BY <1>1, <2>3, <2>4, Frame DEF IInv, RecoverNext, memory, workspace
<1>. QED
  BY <1>2, <1>3, <1>4 DEF RecoverNext

LEMMA RecoverWriteIInv ==
    ASSUME IInv, NEW w \in Workers, RecoverWrite(w) PROVE IInv' /\ Known \subseteq Known'
<1>. DEFINE restart == call[w].copy.status \in Restartable
            status == IF restart THEN "queued_implementation" ELSE "awaiting_review"
            phase == IF restart THEN "implementation" ELSE "review"
            turns == Current(call[w].session, call[w].copy.turns)
            f == [call[w].copy EXCEPT !.status = status, !.active = NULL, !.turns = turns]
            k == [call[w] EXCEPT !.at = "requeueing", !.copy = NULL, !.phase = phase]
<1>0. /\ w \in Threads /\ call[w] \in Calls /\ call[w].session \in Sessions
      /\ call[w].copy \in File
  BY DEF RecoverWrite, IInv, CallsFit, Fits, Threads
<1>1. status \in Statuses /\ turns \in SUBSET Turns /\ phase \in Phases
  BY <1>0, StatusesNamed, CurrentTyped DEF File, Phases, MutablePhases
<1>2. files' = [files EXCEPT ![call[w].session] = f]
  BY DEF RecoverWrite
<1>3. call' = [call EXCEPT ![w] = k]
  BY <1>0 DEF RecoverWrite, IInv, CallsFit
<1>. HIDE DEF status, turns, phase
<1>4. f \in File
  BY <1>0, <1>1 DEF File
<1>. HIDE DEF f
<1>5. FilesFit' /\ Known \subseteq Known' /\ call[w].session \in Known'
  BY <1>0, <1>2, <1>4, FileWritten
<1>6. k \in Calls /\ Fits(k, Known')
  BY <1>0, <1>1, <1>5 DEF Calls, Fits
<1>. HIDE DEF k
<1>7. CallsFit'
  BY <1>0, <1>3, <1>5, <1>6, CallMoves
<1>. QED
  BY <1>5, <1>7, Frame DEF IInv, RecoverWrite, memory, workspace

LEMMA RecoverQueueIInv ==
    ASSUME IInv, NEW w \in Workers, RecoverQueue(w) PROVE IInv'
<1>. DEFINE s == call[w].session
            k == [Idle EXCEPT !.at = "recovering", !.todo = call[w].todo]
<1>0. w \in Threads /\ call[w] \in Calls /\ s \in Sessions /\ s \in Known
  BY DEF RecoverQueue, IInv, CallsFit, Fits, Threads
<1>1. FilesFit' /\ Known' = Known
  BY FilesSame DEF RecoverQueue
<1>2. k \in Calls /\ Fits(k, Known')
  BY <1>0 DEF Idle, Calls, Fits
<1>3. call' = [call EXCEPT ![w] = k]
  BY DEF RecoverQueue
<1>. HIDE DEF k
<1>4. CallsFit'
  BY <1>0, <1>1, <1>2, <1>3, CallMoves
<1>5. WorkspaceFits' /\ TasksFit'
  <2>1. CASE Enqueue(s)
    BY <1>0, <1>1, <2>1, EnqueueFits DEF IInv
  <2>2. CASE tasks' = Append(tasks, Review(s)) /\ UNCHANGED workspace
    <3>1. Review(s) \in TasksOf(Known')
      BY <1>0, <1>1 DEF Review, TasksOf
    <3>2. tasks \in Seq(TasksOf(Known'))
      BY <1>1 DEF IInv, TasksFit
    <3>3. TasksFit'
      BY <2>2, <3>1, <3>2, AppendProperties DEF TasksFit
    <3>. QED
      BY <1>1, <2>2, <3>3, Frame
  <2>. QED
    BY <2>1, <2>2 DEF RecoverQueue
<1>. QED
  BY <1>1, <1>4, <1>5, Frame DEF IInv, RecoverQueue

-----------------------------------------------------------------------------
LEMMA InitIInv == Init => IInv
<1>. SUFFICES ASSUME Init PROVE IInv
  OBVIOUS
<1>1. FilesFit /\ WorkspaceFits /\ TasksFit /\ LateFits /\ CountsFit
  BY NothingWaits DEF Init, FilesFit, WorkspaceFits, NoIdleQueue, TasksFit, LateFits, CountsFit
<1>2. CallsFit
  BY IdleFits DEF Init, CallsFit
<1>3. ServerFits /\ ReaderFits
  <2>. DEFINE v == [turns |-> 0, phase |-> NULL, stop |-> FALSE, asks |-> "not yet"]
  <2>1. v \in Servers /\ v.phase = NULL
    BY DEF Servers
  <2>. QED
    BY <2>1 DEF Init, ServerFits, ReaderFits, Running
<1>. QED
  BY <1>1, <1>2, <1>3 DEF IInv

\* Every step keeps it, one case per action.
LEMMA NextIInv == IInv /\ [Next]_vars => IInv'
<1>. SUFFICES ASSUME IInv, [Next]_vars PROVE IInv'
  OBVIOUS
<1>1. ASSUME NEW w \in Workers, WorkerStep(w) PROVE IInv'
  BY <1>1, TakeTaskIInv, ReadFailedIInv, RecordFailedIInv, FreeFailedIInv, RecoverNextIInv,
     RecoverWriteIInv, RecoverQueueIInv DEF WorkerStep
<1>2. ASSUME NEW u \in Requesters, RequesterStep(u) PROVE IInv'
  BY <1>2, CreateSessionIInv, WriteStaleIInv, WriteArchivedIInv DEF RequesterStep
<1>3. ASSUME NEW u \in Requesters, Human(u) PROVE IInv'
  BY <1>3, AuthorizeIInv, RequestIInv, InterruptIInv, RespondIInv, PollIInv, ArchiveIInv DEF Human
<1>4. ASSUME NEW t \in Threads, ThreadStep(t) \/ Accept(t) \/ Refuse(t) \/ Timeout(t) PROVE IInv'
  BY <1>4, ClaimIInv, UndoIInv, ReadBackIInv, RecordIInv, AcceptIInv, RefuseIInv, TimeoutIInv
     DEF ThreadStep
<1>5. ASSUME NEW r \in late, AcceptLate(r) PROVE IInv'
  BY <1>5, AcceptLateIInv
<1>6. ASSUME NEW s \in Sessions,
             \/ \E outcome \in {"completed", "failed", "interrupted"} : TurnCompleted(s, outcome)
             \/ AskPermission(s) \/ OtherEvent(s)
      PROVE  IInv'
  BY <1>6, TurnCompletedIInv, AskPermissionIInv, OtherEventIInv
<1>7. CASE Receive \/ Restart \/ Reload
  BY <1>7, ReceiveIInv, RestartIInv, ReloadIInv
<1>8. CASE UNCHANGED vars
  <2>1. UNCHANGED <<files, workspace, tasks, call, reader, server, late, recovered, bounds>>
    BY <1>8 DEF vars, workspace, bounds
  <2>2. FilesFit' /\ Known' = Known
    BY <2>1, FilesSame
  <2>. QED
    BY <2>1, <2>2, Frame DEF IInv
<1>. QED
  BY <1>1, <1>2, <1>3, <1>4, <1>5, <1>6, <1>7, <1>8 DEF Next

-----------------------------------------------------------------------------
(* The writes to the worktree, without the disturbances that excuse them.  *)

Calm == faults \cap Unserializing = {}

\* A thread that is on the way to a turn of s, or to give it up.
Busy(t, s) ==
    /\ call[t].session = s
    /\ call[t].at \in {"starting", "claiming", "asked", "undoing", "failing", "failed",
                       "freeing", "rewriting", "requeueing"}

\* A thread that has claimed the worktree and asks for its turn.
Asks(t, s) == call[t].session = s /\ call[t].at = "asked" /\ call[t].phase \in MutablePhases

In(T, s) == \E i \in DOMAIN T : T[i].session = s
Once(T, s) == \A i, j \in DOMAIN T : T[i].session = s /\ T[j].session = s => i = j

\* A session is in one place: in a task, in the queue, with one thread or in a
\* turn that runs.
OneJob(s) ==
    /\ \A t, u \in Threads : Busy(t, s) /\ Busy(u, s) => t = u
    /\ Once(tasks, s)
    /\ In(tasks, s) => ~Queued(s) /\ ~Running(s) /\ \A t \in Threads : ~Busy(t, s)
    /\ Queued(s) => ~Running(s) /\ \A t \in Threads : ~Busy(t, s)
    /\ Running(s) => \A t \in Threads : ~Busy(t, s)

\* Who writes, or asks to, owns the worktree.
WritersOwn(s) == Writing(s) \/ (\E t \in Threads : Asks(t, s)) => owner = s

Apart ==
    /\ \A s \in Sessions : OneJob(s) /\ WritersOwn(s)
    /\ \A i \in DOMAIN queue : queue[i] \in Known
    /\ late = {}

\* A session that takes no new place and does not lose the worktree.
LEMMA Stays ==
    ASSUME Apart, NEW s \in Sessions,
           \A t \in Threads : (Busy(t, s)' => Busy(t, s)) /\ (Asks(t, s)' => Asks(t, s)),
           Once(tasks, s)', In(tasks, s)' => In(tasks, s),
           Queued(s)' => Queued(s),
           server'[s].phase \in {server[s].phase, NULL},
           owner = s => owner' = s
    PROVE  OneJob(s)' /\ WritersOwn(s)'
<1>1. OneJob(s) /\ WritersOwn(s)
  BY DEF Apart
<1>2. Running(s)' => Running(s)
  BY DEF Running
<1>3. Writing(s)' => Writing(s)
  BY NullAssumption DEF Writing, MutablePhases, Phases
<1>4. OneJob(s)'
  BY <1>1, <1>2 DEF OneJob
<1>5. WritersOwn(s)'
  BY <1>1, <1>3 DEF WritersOwn
<1>. QED
  BY <1>4, <1>5

\* The same for every session, where only calls change.
LEMMA AllStay ==
    ASSUME IInv, Apart, Known \subseteq Known', UNCHANGED <<tasks, queue, owner, late>>,
           \A s \in Sessions : server'[s].phase \in {server[s].phase, NULL},
           \A s \in Sessions, t \in Threads :
               (Busy(t, s)' => Busy(t, s)) /\ (Asks(t, s)' => Asks(t, s))
    PROVE  Apart'
<1>1. ASSUME NEW s \in Sessions PROVE OneJob(s)' /\ WritersOwn(s)'
  <2>1. Once(tasks, s)' /\ (In(tasks, s)' => In(tasks, s)) /\ (Queued(s)' => Queued(s))
    BY DEF Apart, OneJob, Once, In, Queued
  <2>. QED
    BY <2>1, Stays
<1>. QED
  BY <1>1 DEF Apart

\* One thread moves on with its session, or without one.
LEMMA ThreadStays ==
    ASSUME IInv, Apart, Known \subseteq Known', UNCHANGED <<tasks, queue, owner, late>>,
           \A s \in Sessions : server'[s].phase \in {server[s].phase, NULL},
           NEW t \in Threads, NEW k, call' = [call EXCEPT ![t] = k],
           \A s \in Sessions : Busy(t, s)' => Busy(t, s),
           k.at # "asked" \/ k.phase \notin MutablePhases
    PROVE  Apart'
<1>1. call'[t] = k /\ \A u \in Threads \ {t} : call'[u] = call[u]
  BY DEF IInv, CallsFit
<1>2. \A s \in Sessions, u \in Threads :
          (Busy(u, s)' => Busy(u, s)) /\ (Asks(u, s)' => Asks(u, s))
  BY <1>1 DEF Busy, Asks
<1>. QED
  BY <1>2, AllStay

\* A thread takes up a session that is nowhere else.
LEMMA ThreadTakes ==
    ASSUME IInv, Apart, Known \subseteq Known', UNCHANGED <<queue, owner, late, server>>,
           NEW t \in Threads, NEW s \in Sessions, NEW k, call' = [call EXCEPT ![t] = k],
           k.session = s, k.at # "asked" \/ k.phase \notin MutablePhases,
           ~In(tasks, s)', ~Queued(s), ~Running(s), \A u \in Threads \ {t} : ~Busy(u, s),
           \A r \in Sessions : Once(tasks, r)' /\ (In(tasks, r)' => In(tasks, r))
    PROVE  Apart'
<1>1. call'[t] = k /\ \A u \in Threads \ {t} : call'[u] = call[u]
  BY DEF IInv, CallsFit
<1>2. \A r \in Sessions : (Queued(r)' <=> Queued(r)) /\ (Running(r)' <=> Running(r))
                          /\ (Writing(r)' <=> Writing(r))
  BY DEF Queued, Running, Writing
<1>3. ASSUME NEW r \in Sessions, r # s PROVE OneJob(r)' /\ WritersOwn(r)'
  <2>1. \A u \in Threads : (Busy(u, r)' => Busy(u, r)) /\ (Asks(u, r)' => Asks(u, r))
    BY <1>1, <1>3 DEF Busy, Asks
  <2>. QED
    BY <1>2, <2>1, Stays
<1>4. OneJob(s)'
  <2>1. \A u \in Threads : Busy(u, s)' => u = t
    BY <1>1 DEF Busy
  <2>. QED
    BY <1>2, <2>1 DEF OneJob
<1>5. WritersOwn(s)'
  <2>1. \A u \in Threads : Asks(u, s)' => Asks(u, s)
    BY <1>1 DEF Asks
  <2>. QED
    BY <1>2, <2>1 DEF WritersOwn, Apart
<1>. QED
  BY <1>3, <1>4, <1>5 DEF Apart

-----------------------------------------------------------------------------
\* Tasks appended one by one.
LEMMA AppendOnce ==
    ASSUME NEW S, NEW T \in Seq(S), NEW x, x \in S, NEW r
    PROVE  /\ x.session # r => (In(Append(T, x), r) <=> In(T, r))
           /\ x.session # r /\ Once(T, r) => Once(Append(T, x), r)
           /\ ~In(T, r) => Once(Append(T, x), r)
<1>1. /\ DOMAIN T = 1..Len(T) /\ Len(T) \in Nat
      /\ DOMAIN Append(T, x) = 1..(Len(T) + 1)
      /\ \A i \in 1..Len(T) : Append(T, x)[i] = T[i]
      /\ Append(T, x)[Len(T) + 1] = x
  BY AppendProperties, LenProperties
<1>. QED
  BY <1>1 DEF In, Once

LEMMA TailOnce ==
    ASSUME NEW S, NEW T \in Seq(S), T # <<>>, NEW r, Once(T, r)
    PROVE  /\ Once(Tail(T), r) /\ (In(Tail(T), r) => In(T, r))
           /\ Head(T).session = r => ~In(Tail(T), r)
<1>1. /\ DOMAIN T = 1..Len(T) /\ Len(T) \in Nat /\ Len(T) # 0
      /\ DOMAIN Tail(T) = 1..(Len(T) - 1)
      /\ \A i \in 1..(Len(T) - 1) : Tail(T)[i] = T[i + 1] /\ i + 1 \in 1..Len(T)
      /\ Head(T) = T[1] /\ 1 \in 1..Len(T)
  BY HeadTailProperties, LenProperties
<1>2. \A i, j \in 1..(Len(T) - 1) : i + 1 = j + 1 => i = j
  BY <1>1
<1>3. \A i \in 1..(Len(T) - 1) : i + 1 # 1
  BY <1>1
<1>. QED
  BY <1>1, <1>2, <1>3 DEF In, Once

\* What enqueueing a session does to it and to the others.
LEMMA EnqueueApart ==
    ASSUME IInv, Apart, Known \subseteq Known', NEW s \in Sessions, s \in Known', Enqueue(s),
           ~In(tasks, s), ~Queued(s)
    PROVE  /\ \A r \in Sessions \ {s} :
                 /\ Once(tasks, r)' /\ (In(tasks, r)' => In(tasks, r))
                 /\ Queued(r)' => Queued(r)
                 /\ owner = r => owner' = r
           /\ Once(tasks, s)' /\ ~(In(tasks, s)' /\ Queued(s)')
           /\ \A i \in DOMAIN queue' : queue'[i] \in Known'
<1>0. /\ tasks \in Seq(TasksOf(Known')) /\ Implement(s) \in TasksOf(Known')
      /\ Implement(s).session = s /\ s # NULL
  <2>1. TasksOf(Known) \subseteq TasksOf(Known')
    BY DEF TasksOf
  <2>. QED
    BY <2>1, SeqGrows, NullAssumption DEF IInv, TasksFit, Implement, TasksOf
<1>1. \A r \in Sessions : Once(tasks, r)
  BY DEF Apart, OneJob
<1>2. CASE owner \in {NULL, s} /\ owner' = s /\ tasks' = Append(tasks, Implement(s)) /\ UNCHANGED queue
  <2>1. ASSUME NEW r \in Sessions \ {s} PROVE Once(tasks', r) /\ (In(tasks', r) => In(tasks, r))
    BY <1>0, <1>1, <1>2, AppendOnce
  <2>2. Once(tasks', s)
    BY <1>0, <1>2, AppendOnce
  <2>3. \A r \in Sessions : Queued(r)' <=> Queued(r)
    BY <1>2 DEF Queued
  <2>4. \A r \in Sessions \ {s} : owner # r
    BY <1>2, NullAssumption
  <2>5. \A i \in DOMAIN queue' : queue'[i] \in Known'
    BY <1>2 DEF Apart
  <2>. QED
    BY <2>1, <2>2, <2>3, <2>4, <2>5 DEF Once, In
<1>3. CASE queue' = Append(queue, s) /\ UNCHANGED <<owner, tasks>>
  <2>1. /\ Len(queue) \in Nat /\ DOMAIN queue = 1..Len(queue)
        /\ DOMAIN queue' = 1..(Len(queue) + 1)
        /\ \A i \in 1..Len(queue) : queue'[i] = queue[i]
        /\ queue'[Len(queue) + 1] = s
    BY <1>3, AppendProperties, LenProperties DEF IInv, WorkspaceFits
  <2>2. \A r \in Sessions \ {s} : Queued(r)' => Queued(r)
    BY <2>1 DEF Queued
  <2>3. \A i \in DOMAIN queue' : queue'[i] \in Known'
    BY <2>1 DEF Apart
  <2>4. \A r \in Sessions : Once(tasks', r) /\ (In(tasks', r) <=> In(tasks, r))
    BY <1>1, <1>3
  <2>. QED
    BY <1>3, <2>2, <2>3, <2>4 DEF Once, In
<1>. QED
  BY <1>2, <1>3 DEF Enqueue

\* What releasing the worktree does to the session that leaves and to the others.
LEMMA ReleaseApart ==
    ASSUME IInv, Apart, Known \subseteq Known', NEW s \in Sessions, s \in Known', NEW f,
           \A r \in Sessions : f[r] # NULL => r \in Known',
           NEW more \in {<<>>, <<Review(s)>>}, Release(s, f, more),
           ~In(tasks, s), ~Queued(s)
    PROVE  /\ \A r \in Sessions \ {s} :
                 /\ Once(tasks, r)' /\ (In(tasks, r)' => In(tasks, r) \/ (Queued(r) /\ ~Queued(r)'))
                 /\ Queued(r)' => Queued(r)
                 /\ owner = r => owner' = r
           /\ Once(tasks, s)' /\ ~Queued(s)' /\ (more = <<>> => ~In(tasks, s)')
           /\ \A i \in DOMAIN queue' : queue'[i] \in Known'
<1>. DEFINE S == TasksOf(Known')
<1>0. /\ tasks \in Seq(S) /\ Review(s) \in S /\ Review(s).session = s /\ s # NULL
  <2>1. TasksOf(Known) \subseteq TasksOf(Known')
    BY DEF TasksOf
  <2>. QED
    BY <2>1, SeqGrows, NullAssumption DEF IInv, TasksFit, Review, TasksOf
<1>. HIDE DEF S
<1>1. \A r \in Sessions : Once(tasks, r)
  BY DEF Apart, OneJob
<1>2. \A T \in Seq(S) : \/ T \o more = T /\ more = <<>>
                        \/ T \o more = Append(T, Review(s)) /\ more # <<>>
  <2>1. \A T \in Seq(S) : T \o <<>> = T /\ T \o <<Review(s)>> = Append(T, Review(s))
    BY <1>0
  <2>. QED
    BY <2>1
\* The follow-up changes nothing for the others.
<1>3. ASSUME NEW T \in Seq(S), tasks' = T \o more, ~In(T, s), Once(T, s)
      PROVE  /\ \A r \in Sessions \ {s} : (In(tasks', r) <=> In(T, r)) /\ (Once(T, r) => Once(tasks', r))
             /\ Once(tasks', s) /\ (more = <<>> => ~In(tasks', s))
  <2>1. CASE tasks' = T /\ more = <<>>
    BY <1>3, <2>1
  <2>2. CASE tasks' = Append(T, Review(s)) /\ more # <<>>
    BY <1>0, <1>3, <2>2, AppendOnce
  <2>. QED
    BY <1>2, <1>3, <2>1, <2>2
<1>4. CASE tasks' = tasks \o more /\ owner \notin {NULL, s} /\ UNCHANGED workspace
  <2>1. \A r \in Sessions : Queued(r)' <=> Queued(r)
    BY <1>4 DEF Queued, workspace
  <2>2. \A i \in DOMAIN queue' : queue'[i] \in Known'
    BY <1>4 DEF Apart, workspace
  <2>3. /\ \A r \in Sessions \ {s} : (In(tasks', r) <=> In(tasks, r)) /\ Once(tasks', r)
        /\ Once(tasks', s) /\ (more = <<>> => ~In(tasks', s))
    BY <1>0, <1>1, <1>3, <1>4
  <2>. QED
    BY <1>4, <2>1, <2>2, <2>3 DEF workspace, In, Once
<1>5. CASE tasks' = tasks \o more /\ owner \in {NULL, s} /\ queue' = <<>>
  <2>1. \A r \in Sessions : ~Queued(r)'
    BY <1>5, NothingWaits DEF Queued
  <2>2. \A i \in DOMAIN queue' : queue'[i] \in Known'
    BY <1>5, NothingWaits
  <2>3. /\ \A r \in Sessions \ {s} : (In(tasks', r) <=> In(tasks, r)) /\ Once(tasks', r)
        /\ Once(tasks', s) /\ (more = <<>> => ~In(tasks', s))
    BY <1>0, <1>1, <1>3, <1>5
  <2>4. \A r \in Sessions \ {s} : owner # r
    BY <1>5, NullAssumption
  <2>. QED
    BY <2>1, <2>2, <2>3, <2>4 DEF In, Once
<1>6. ASSUME NEW i \in Candidates(f), owner \in {NULL, s},
             queue' = SubSeq(queue, i + 1, Len(queue)),
             tasks' = Append(tasks, Implement(queue[i])) \o more
      PROVE  /\ \A r \in Sessions \ {s} :
                   /\ Once(tasks', r) /\ (In(tasks', r) => In(tasks, r) \/ (Queued(r) /\ ~Queued(r)'))
                   /\ Queued(r)' => Queued(r)
                   /\ owner # r
             /\ Once(tasks', s) /\ ~Queued(s)' /\ (more = <<>> => ~In(tasks', s))
             /\ \A j \in DOMAIN queue' : queue'[j] \in Known'
  <2>1. queue \in Seq(Sessions) /\ i \in 1..Len(queue) /\ Len(queue) \in Nat /\ DOMAIN queue = 1..Len(queue)
    BY <1>6, LenProperties DEF Candidates, IInv, WorkspaceFits
  <2>0. PICK q \in Sessions : q = queue[i]
    BY <2>1
  <2>. DEFINE T == Append(tasks, Implement(q))
  <2>2. q \in Known' /\ Queued(q) /\ q # s
    BY <1>6, <2>0, <2>1 DEF Candidates, Queued
  <2>3. Implement(q) \in S /\ Implement(q).session = q
    BY <2>2 DEF S, Implement, TasksOf
  <2>4. T \in Seq(S)
    BY <1>0, <2>3, AppendProperties
  <2>5. /\ DOMAIN queue' = 1..(Len(queue) - i)
        /\ \A j \in 1..(Len(queue) - i) : queue'[j] = queue[i + j] /\ i + j \in 1..Len(queue) /\ i + j # i
    BY <1>6, <2>1
  <2>6. \A r \in Sessions : Queued(r)' => Queued(r)
    BY <2>1, <2>5 DEF Queued
  <2>7. ~Queued(q)'
    <3>1. \A j \in 1..(Len(queue) - i) : queue[i + j] # q
      BY <2>0, <2>1, <2>5 DEF IInv, WorkspaceFits, NoIdleQueue
    <3>. QED
      BY <2>5, <3>1 DEF Queued
  <2>8. ~In(tasks, q)
    BY <2>2 DEF Apart, OneJob
  <2>9. /\ \A r \in Sessions \ {q} : (In(T, r) <=> In(tasks, r)) /\ Once(T, r)
        /\ Once(T, q)
    BY <1>0, <1>1, <2>3, <2>8, AppendOnce
  <2>10. ~In(T, s) /\ Once(T, s) /\ tasks' = T \o more
    BY <1>6, <2>0, <2>2, <2>9
  <2>. HIDE DEF T
  <2>11. /\ \A r \in Sessions \ {s} : (In(tasks', r) <=> In(T, r)) /\ (Once(T, r) => Once(tasks', r))
         /\ Once(tasks', s) /\ (more = <<>> => ~In(tasks', s))
    BY <1>3, <2>4, <2>10
  <2>12. \A j \in DOMAIN queue' : queue'[j] \in Known'
    BY <2>1, <2>5 DEF Apart
  <2>13. \A r \in Sessions \ {s} : owner # r
    BY <1>6, NullAssumption
  <2>. QED
    BY <2>2, <2>6, <2>7, <2>9, <2>11, <2>12, <2>13
<1>7. CASE \E i \in Candidates(f) :
              /\ owner \in {NULL, s}
              /\ queue' = SubSeq(queue, i + 1, Len(queue))
              /\ tasks' = Append(tasks, Implement(queue[i])) \o more
  BY <1>6, <1>7 DEF In, Once
<1>. QED
  BY <1>4, <1>5, <1>7 DEF Release

-----------------------------------------------------------------------------
(* Every action keeps sessions apart, if nothing excuses the contrary.     *)

\* A call that disturbs stays calm only if it does so in another way.
LEMMA CalmDisturb ==
    ASSUME NEW K, Disturb(K), Calm' PROVE K \cap Unserializing = {}
  BY DEF Disturb, Calm

\* A session at work is in no other place.
LEMMA Free ==
    ASSUME NEW s \in Sessions, ~AtWork(s, NULL)
    PROVE  ~In(tasks, s) /\ ~Queued(s) /\ ~Running(s) /\ \A t \in Threads : ~Busy(t, s)
  BY NullAssumption DEF AtWork, Engaged, Dispatched, In, Busy

LEMMA TasksStay ==
    ASSUME Apart, UNCHANGED tasks
    PROVE  \A r \in Sessions : Once(tasks, r)' /\ (In(tasks, r)' <=> In(tasks, r))
  BY DEF Apart, OneJob, Once, In

LEMMA AuthorizeApart ==
    ASSUME IInv, Apart, NEW u \in Requesters, NEW s \in Sessions, Authorize(u, s) PROVE Apart'
<1>. DEFINE k == [Idle EXCEPT !.at = "starting", !.session = s]
<1>1. Known' = Known /\ s \notin Known /\ u \in Threads
  BY FilesSame DEF Authorize, Exists, Known, Threads
<1>2. ~In(tasks, s)
  BY <1>1, NullAssumption DEF IInv, TasksFit, In, TasksOf
<1>3. ~Queued(s) /\ ~Running(s) /\ \A t \in Threads : ~Busy(t, s)
  BY <1>1, NullAssumption DEF Apart, Queued, IInv, ServerFits, Authorize, Engaged, Busy
<1>4. k.session = s /\ k.at = "starting"
  BY DEF Idle
<1>5. call' = [call EXCEPT ![u] = k]
  BY DEF Authorize
<1>. HIDE DEF k
<1>. QED
  BY <1>1, <1>2, <1>3, <1>4, <1>5, TasksStay, ThreadTakes DEF Authorize, memory, workspace

LEMMA CreateSessionApart ==
    ASSUME IInv, Apart, NEW u \in Requesters, CreateSession(u) PROVE Apart'
<1>. DEFINE k == [call[u] EXCEPT !.at = "asked", !.phase = "planning"]
<1>0. u \in Threads /\ call[u] \in Calls /\ call[u].session \in Sessions
  BY DEF CreateSession, IInv, CallsFit, Fits, Threads
<1>1. Known \subseteq Known'
  BY <1>0, NullAssumption DEF CreateSession, Known, NewFile, File, IInv, FilesFit,
     Statuses, Phases, StartedStatus
<1>2. k.session = call[u].session /\ k.phase = "planning"
  BY <1>0 DEF Calls
<1>3. call' = [call EXCEPT ![u] = k]
  BY <1>0 DEF CreateSession, IInv, CallsFit
<1>. HIDE DEF k
<1>4. \A s \in Sessions : Busy(u, s)' => Busy(u, s)
  BY <1>0, <1>2, <1>3 DEF Busy, IInv, CallsFit, CreateSession
<1>. QED
  BY <1>0, <1>1, <1>2, <1>3, <1>4, ThreadStays DEF CreateSession, memory, workspace, MutablePhases

\* Where a request or a task begins.
LEMMA BegunAt ==
    ASSUME NEW s, NEW phase \in Phases
    PROVE  /\ Begun(s, phase).session = s
           /\ Begun(s, phase).at # "asked" \/ Begun(s, phase).phase \notin MutablePhases
           /\ [Begun(s, phase) EXCEPT !.at = "failing"].session = s
           /\ [Begun(s, phase) EXCEPT !.at = "failing"].at = "failing"
  BY DEF Begun, Idle

LEMMA RequestApart ==
    ASSUME IInv, Apart, NEW u \in Requesters, NEW s \in Sessions, NEW phase \in DOMAIN AllowedFrom,
           Request(u, s, phase), Calm'
    PROVE  Apart'
<1>1. Known' = Known /\ phase \in Phases /\ u \in Threads
  BY FilesSame, AllowedTyped DEF Request, Threads
<1>2. ~AtWork(s, NULL)
  BY CalmDisturb DEF Request, If, Unserializing
<1>. QED
  BY <1>1, <1>2, Free, BegunAt, TasksStay, ThreadTakes DEF Request, memory, workspace

LEMMA ClaimApart ==
    ASSUME IInv, Apart, NEW t \in Threads, Claim(t) PROVE Apart'
<1>0. call[t] \in Calls /\ call[t].session \in Sessions
  BY DEF Claim, IInv, CallsFit, Fits, Known
<1>1. Known' = Known
  BY FilesSame DEF Claim
<1>2. PICK s \in Sessions : s = call[t].session
  BY <1>0
<1>3. CASE owner \in {NULL, s} /\ owner' = s /\ call' = [call EXCEPT ![t].at = "asked"]
  <2>1. /\ call'[t].session = s /\ \A u \in Threads \ {t} : call'[u] = call[u]
        /\ \A r \in Sessions, u \in Threads : Busy(u, r)' => Busy(u, r)
        /\ \A r \in Sessions \ {s}, u \in Threads : Asks(u, r)' => Asks(u, r)
    BY <1>0, <1>2, <1>3 DEF Claim, IInv, CallsFit, Calls, Busy, Asks
  <2>2. \A r \in Sessions : (Queued(r)' <=> Queued(r)) /\ server'[r] = server[r]
    BY DEF Claim, Queued
  <2>3. ASSUME NEW r \in Sessions \ {s} PROVE OneJob(r)' /\ WritersOwn(r)'
    <3>1. owner # r
      BY <1>3, NullAssumption
    <3>. QED
      BY <2>1, <2>2, <3>1, TasksStay, Stays DEF Claim
  <2>4. OneJob(s)'
    BY <2>1, <2>2, TasksStay DEF Apart, OneJob, Running, Claim
  <2>5. WritersOwn(s)'
    BY <1>3 DEF WritersOwn
  <2>. QED
    BY <1>1, <2>3, <2>4, <2>5 DEF Apart, Claim
<1>4. ASSUME NEW k \in {[call[t] EXCEPT !.at = "failing"], Idle}, call' = [call EXCEPT ![t] = k],
             UNCHANGED owner
      PROVE  Apart'
  <2>1. k.at # "asked" /\ (k.at = "idle" \/ k.session = call[t].session)
    BY <1>0 DEF Calls, Idle
  <2>2. \A r \in Sessions : Busy(t, r)' => Busy(t, r)
    BY <1>4, <2>1 DEF Busy, IInv, CallsFit, Claim
  <2>. QED
    BY <1>1, <1>4, <2>1, <2>2, ThreadStays DEF Claim
<1>5. CASE /\ owner' = owner
           /\ call' = [call EXCEPT ![t] = IF t \in Workers
                                          THEN [@ EXCEPT !.at = "failing"]
                                          ELSE Idle]
  BY <1>4, <1>5
<1>. QED
  BY <1>2, <1>3, <1>5 DEF Claim

LEMMA TakeTaskApart ==
    ASSUME IInv, Apart, NEW w \in Workers, TakeTask(w) PROVE Apart'
<1>. DEFINE task == Head(tasks)
            phase == IF task.do = "implement" THEN "implementation" ELSE "review"
<1>0. Known' = Known /\ w \in Threads /\ call[w] = Idle
  BY FilesSame DEF TakeTask, Threads
<1>1. task \in TasksOf(Known) /\ tasks \in Seq(TasksOf(Known)) /\ tasks # <<>>
  BY DEF TakeTask, IInv, TasksFit
<1>2. \A r \in Sessions : Once(tasks, r)' /\ (In(tasks, r)' => In(tasks, r))
  BY <1>1, TailOnce DEF TakeTask, Apart, OneJob, Once, In
<1>3. CASE task.do # "recover"
  <2>1. PICK s \in Known : s = task.session
    BY <1>1, <1>3 DEF TasksOf
  <2>2. s \in Sessions /\ phase \in Phases
    BY DEF Known, Phases, MutablePhases
  <2>3. 1 \in DOMAIN tasks /\ task = tasks[1]
    BY <1>1
  <2>4. In(tasks, s)
    BY <2>1, <2>3 DEF In
  <2>5. ~In(tasks, s)'
    BY <1>1, <2>1, <2>2, TailOnce DEF TakeTask, Apart, OneJob, In
  <2>6. ~Queued(s) /\ ~Running(s) /\ \A u \in Threads : ~Busy(u, s)
    BY <2>2, <2>4 DEF Apart, OneJob
  <2>7. PICK k \in {Begun(s, phase), [Begun(s, phase) EXCEPT !.at = "failing"]} :
             call' = [call EXCEPT ![w] = k]
    BY <1>3, <2>1 DEF TakeTask
  <2>. HIDE DEF phase
  <2>8. k.session = s /\ (k.at # "asked" \/ k.phase \notin MutablePhases)
    <3>1. CASE k = Begun(s, phase)
      BY <2>2, <3>1, BegunAt
    <3>2. CASE k = [Begun(s, phase) EXCEPT !.at = "failing"]
      BY <2>2, <3>2, BegunAt
    <3>. QED
      BY <2>7, <3>1, <3>2
  <2>9. UNCHANGED <<queue, owner, late, server>>
    BY DEF TakeTask, workspace
  <2>. QED
    BY <1>0, <1>2, <2>2, <2>5, <2>6, <2>7, <2>8, <2>9, ThreadTakes
<1>4. CASE task.do = "recover"
  <2>1. \A r \in Sessions, u \in Threads : (Busy(u, r)' => Busy(u, r)) /\ (Asks(u, r)' => Asks(u, r))
    <3>1. CASE UNCHANGED call
      BY <3>1 DEF Busy, Asks
    <3>2. CASE call' = [call EXCEPT ![w] = [Idle EXCEPT !.at = "recovering",
                                                        !.todo = {s \in Sessions : Exists(s)}]]
      <4>1. call'[w].at = "recovering" /\ \A u \in Threads \ {w} : call'[u] = call[u]
        BY <1>0, <3>2 DEF IInv, CallsFit, Idle
      <4>. QED
        BY <4>1 DEF Busy, Asks
    <3>. QED
      BY <1>4, <3>1, <3>2 DEF TakeTask
  <2>2. ASSUME NEW r \in Sessions PROVE OneJob(r)' /\ WritersOwn(r)'
    <3>1. Queued(r)' => Queued(r)
      BY DEF TakeTask, workspace, Queued
    <3>. QED
      BY <1>2, <2>1, <3>1, Stays DEF TakeTask, workspace
  <2>. QED
    BY <1>0, <2>2 DEF Apart, TakeTask, workspace
<1>. QED
  BY <1>3, <1>4

-----------------------------------------------------------------------------
LEMMA AcceptApart ==
    ASSUME IInv, Apart, NEW t \in Threads, Accept(t) PROVE Apart'
<1>0. call[t] \in Calls /\ call[t].session \in Sessions /\ call[t].at = "asked"
  BY DEF Accept, IInv, CallsFit, Fits, Known
<1>1. PICK s \in Sessions : s = call[t].session
  BY <1>0
<1>2. /\ \A r \in Sessions, u \in Threads : (Busy(u, r)' => Busy(u, r)) /\ (Asks(u, r)' => Asks(u, r))
      /\ ~Busy(t, s)' /\ Busy(t, s)
      /\ call[t].phase \in MutablePhases => Asks(t, s)
  BY <1>0, <1>1 DEF Accept, Busy, Asks, IInv, CallsFit, Calls
<1>3. /\ server'[s].phase = call[t].phase
      /\ \A r \in Sessions \ {s} : server'[r] = server[r]
  BY <1>1 DEF Accept, Begin, IInv, ServerFits
<1>4. \A r \in Sessions : Queued(r)' <=> Queued(r)
  BY DEF Accept, memory, workspace, Queued
<1>5. ASSUME NEW r \in Sessions \ {s} PROVE OneJob(r)' /\ WritersOwn(r)'
  BY <1>2, <1>3, <1>4, TasksStay, Stays DEF Accept, memory, workspace
<1>6. OneJob(s)'
  <2>1. ~Queued(s) /\ ~In(tasks, s) /\ \A u \in Threads : Busy(u, s) => u = t
    BY <1>2 DEF Apart, OneJob
  <2>. QED
    BY <1>2, <1>4, <2>1, TasksStay DEF OneJob, Accept, memory
<1>7. WritersOwn(s)'
  BY <1>2, <1>3 DEF WritersOwn, Writing, Apart, Accept, memory, workspace
<1>8. \A i \in DOMAIN queue' : queue'[i] \in Known'
  BY FilesSame DEF Accept, memory, workspace, Apart
<1>. QED
  BY <1>5, <1>6, <1>7, <1>8 DEF Apart, Accept

\* What a thread does after an error keeps its session.
LEMMA RaisedApart ==
    ASSUME IInv, Apart, NEW t \in Threads, call[t].at = "asked", Raised(t),
           UNCHANGED <<files, memory, server, late>>
    PROVE  Apart'
<1>0. call[t] \in Calls
  BY DEF IInv, CallsFit
<1>1. PICK k \in {[call[t] EXCEPT !.at = "undoing"], [call[t] EXCEPT !.at = "failing"], Idle} :
         call' = [call EXCEPT ![t] = k]
  BY DEF Raised
<1>2. k.at # "asked" /\ (k.at = "idle" \/ k.session = call[t].session)
  BY <1>0 DEF Calls, Idle
<1>3. \A r \in Sessions : Busy(t, r)' => Busy(t, r)
  BY <1>1, <1>2 DEF Busy, IInv, CallsFit
<1>. QED
  BY <1>1, <1>2, <1>3, FilesSame, ThreadStays DEF memory, workspace

LEMMA RefuseApart == ASSUME IInv, Apart, NEW t \in Threads, Refuse(t) PROVE Apart'
  BY RaisedApart DEF Refuse

LEMMA TimeoutApart == ASSUME NEW t \in Threads, Timeout(t), Calm' PROVE FALSE
  BY CalmDisturb DEF Timeout, Unserializing

\* The worktree goes on while a thread gives up.
LEMMA ReleasedApart ==
    ASSUME IInv, Apart, NEW t \in Threads, NEW s \in Sessions, Busy(t, s), call[t].at # "starting",
           Release(s, files, <<>>), UNCHANGED <<files, server, late>>,
           NEW k, call' = [call EXCEPT ![t] = k],
           k.at = "idle" \/ (k.at = "failing" /\ k.session = s)
    PROVE  Apart'
<1>1. Known' = Known /\ s \in Known
  BY FilesSame DEF Busy, IInv, CallsFit, Fits
<1>2. call'[t] = k /\ \A u \in Threads \ {t} : call'[u] = call[u]
  BY DEF IInv, CallsFit
<1>3. ~Queued(s) /\ ~In(tasks, s) /\ ~Running(s) /\ \A u \in Threads : Busy(u, s) => u = t
  BY DEF Apart, OneJob
<1>4. \A r \in Sessions, u \in Threads : (Busy(u, r)' => Busy(u, r)) /\ (Asks(u, r)' => Asks(u, r))
  BY <1>2 DEF Busy, Asks
<1>5. /\ \A r \in Sessions \ {s} :
            /\ Once(tasks, r)' /\ (In(tasks, r)' => In(tasks, r) \/ (Queued(r) /\ ~Queued(r)'))
            /\ Queued(r)' => Queued(r)
            /\ owner = r => owner' = r
      /\ Once(tasks, s)' /\ ~Queued(s)' /\ ~In(tasks, s)'
      /\ \A i \in DOMAIN queue' : queue'[i] \in Known'
  <2>1. \A r \in Sessions : files[r] # NULL => r \in Known'
    BY <1>1 DEF Known
  <2>. QED
    BY <1>1, <1>3, <2>1, ReleaseApart
<1>6. \A r \in Sessions : (Running(r)' <=> Running(r)) /\ (Writing(r)' <=> Writing(r))
  BY DEF Running, Writing
<1>7. ASSUME NEW r \in Sessions \ {s} PROVE OneJob(r)' /\ WritersOwn(r)'
  <2>1. OneJob(r)'
    BY <1>4, <1>5, <1>6 DEF Apart, OneJob
  <2>2. WritersOwn(r)'
    BY <1>4, <1>5, <1>6 DEF Apart, WritersOwn
  <2>. QED
    BY <2>1, <2>2
<1>8. OneJob(s)'
  BY <1>3, <1>4, <1>5, <1>6 DEF OneJob
<1>9. WritersOwn(s)'
  <2>1. ~Writing(s)
    BY <1>3, NullAssumption DEF Running, Writing, MutablePhases, Phases
  <2>2. \A u \in Threads : ~Asks(u, s)'
    BY <1>2, <1>3 DEF Asks, Busy
  <2>. QED
    BY <1>6, <2>1, <2>2 DEF WritersOwn
<1>. QED
  BY <1>5, <1>7, <1>8, <1>9 DEF Apart

LEMMA UndoApart ==
    ASSUME IInv, Apart, NEW t \in Threads, Undo(t) PROVE Apart'
<1>0. call[t] \in Calls /\ call[t].session \in Sessions
  BY DEF Undo, IInv, CallsFit, Fits, Known
<1>1. PICK k \in {[call[t] EXCEPT !.at = "failing"], Idle} : call' = [call EXCEPT ![t] = k]
  BY DEF Undo
<1>2. PICK s \in Sessions : s = call[t].session
  BY <1>0
<1>3. k.at = "idle" \/ (k.at = "failing" /\ k.session = s)
  BY <1>0, <1>1, <1>2 DEF Calls, Idle
<1>4. Busy(t, s) /\ call[t].at # "starting" /\ Release(s, files, <<>>)
  BY <1>2 DEF Undo, Busy
<1>. QED
  BY <1>1, <1>3, <1>4, ReleasedApart DEF Undo

LEMMA FreeFailedApart ==
    ASSUME IInv, Apart, NEW w \in Workers, FreeFailed(w) PROVE Apart'
<1>0. w \in Threads /\ call[w].session \in Sessions
  BY DEF FreeFailed, IInv, CallsFit, Fits, Known, Threads
<1>1. PICK s \in Sessions : s = call[w].session
  BY <1>0
<1>2. Busy(w, s) /\ call[w].at # "starting" /\ Release(s, files, <<>>)
  BY <1>1 DEF FreeFailed, Busy
<1>. QED
  BY <1>0, <1>2, ReleasedApart DEF FreeFailed, Idle

-----------------------------------------------------------------------------
(* Steps of a thread that keeps its place.                                 *)

\* It writes its file, or reads one.
LEMMA FileKept ==
    ASSUME IInv, Apart, Known \subseteq Known', NEW t \in Threads, UNCHANGED <<memory, late>>,
           \A s \in Sessions : server'[s].phase = server[s].phase,
           \A u \in Threads \ {t} : call'[u] = call[u],
           \/ call'[t].at \in {"idle", "stale", "archiving", "recording", "recovering"}
           \/ /\ call'[t].session = call[t].session
              /\ call[t].at \in {"failing", "failed", "rewriting"}
              /\ call'[t].at # "asked"
    PROVE  Apart'
<1>1. \A s \in Sessions, u \in Threads : (Busy(u, s)' => Busy(u, s)) /\ (Asks(u, s)' => Asks(u, s))
  BY DEF Busy, Asks
<1>. QED
  BY <1>1, AllStay DEF memory, workspace

LEMMA ReadBackApart ==
    ASSUME IInv, IInv', Apart, NEW t \in Threads, ReadBack(t) PROVE Apart'
<1>1. Known' = Known /\ call'[t].at = "recording" /\ \A u \in Threads \ {t} : call'[u] = call[u]
  BY FilesSame DEF ReadBack, IInv, CallsFit, Calls
<1>. QED
  BY <1>1, FileKept DEF ReadBack

LEMMA RecordApart ==
    ASSUME IInv, Known \subseteq Known', Apart, NEW t \in Threads, Record(t) PROVE Apart'
<1>1. call'[t].at = "idle" /\ \A u \in Threads \ {t} : call'[u] = call[u]
  BY DEF Record, IInv, CallsFit, Idle
<1>. QED
  BY <1>1, FileKept DEF Record

LEMMA WriteStaleApart ==
    ASSUME IInv, Known \subseteq Known', Apart, NEW u \in Requesters, WriteStale(u) PROVE Apart'
<1>1. u \in Threads /\ call'[u].at = "idle" /\ \A t \in Threads \ {u} : call'[t] = call[t]
  BY DEF WriteStale, IInv, CallsFit, Idle, Threads
<1>. QED
  BY <1>1, FileKept DEF WriteStale

LEMMA WriteArchivedApart ==
    ASSUME IInv, Known \subseteq Known', Apart, NEW u \in Requesters, WriteArchived(u) PROVE Apart'
<1>1. u \in Threads /\ call'[u].at = "idle" /\ \A t \in Threads \ {u} : call'[t] = call[t]
  BY DEF WriteArchived, IInv, CallsFit, Idle, Threads
<1>. QED
  BY <1>1, FileKept DEF WriteArchived

LEMMA ReadFailedApart ==
    ASSUME IInv, Apart, NEW w \in Workers, ReadFailed(w) PROVE Apart'
<1>1. /\ Known' = Known /\ w \in Threads
      /\ call'[w].session = call[w].session /\ call'[w].at = "failed"
      /\ \A t \in Threads \ {w} : call'[t] = call[t]
  BY FilesSame DEF ReadFailed, IInv, CallsFit, Calls, Threads
<1>. QED
  BY <1>1, FileKept DEF ReadFailed

LEMMA RecordFailedApart ==
    ASSUME IInv, Known \subseteq Known', Apart, NEW w \in Workers, RecordFailed(w) PROVE Apart'
<1>1. /\ w \in Threads
      /\ call'[w].session = call[w].session /\ call'[w].at = "freeing"
      /\ \A t \in Threads \ {w} : call'[t] = call[t]
  BY DEF RecordFailed, IInv, CallsFit, Calls, Threads
<1>. QED
  BY <1>1, FileKept DEF RecordFailed

LEMMA RecoverWriteApart ==
    ASSUME IInv, Known \subseteq Known', Apart, NEW w \in Workers, RecoverWrite(w) PROVE Apart'
<1>1. /\ w \in Threads
      /\ call'[w].session = call[w].session /\ call'[w].at = "requeueing"
      /\ \A t \in Threads \ {w} : call'[t] = call[t]
  BY DEF RecoverWrite, IInv, CallsFit, Calls, Threads
<1>. QED
  BY <1>1, FileKept DEF RecoverWrite

\* Requests that will write a file, whatever they tell the server.
LEMMA StaleApart ==
    ASSUME IInv, Apart, NEW u \in Requesters, NEW s, NEW f,
           NEW at \in {"stale", "archiving"}, UNCHANGED <<files, memory, late>>,
           \A r \in Sessions : server'[r].phase = server[r].phase,
           call' = [call EXCEPT ![u] = [Idle EXCEPT !.at = at, !.session = s, !.copy = f]]
    PROVE  Apart'
<1>1. /\ Known' = Known /\ u \in Threads /\ call'[u].at = at
      /\ \A t \in Threads \ {u} : call'[t] = call[t]
  BY FilesSame DEF IInv, CallsFit, Idle, Threads
<1>. QED
  BY <1>1, FileKept

LEMMA InterruptApart ==
    ASSUME IInv, Apart, NEW u \in Requesters, NEW s \in Sessions, Interrupt(u, s) PROVE Apart'
<1>1. \A r \in Sessions : server'[r].phase = server[r].phase
  BY DEF Interrupt, IInv, ServerFits, Servers
<1>. QED
  BY <1>1, StaleApart DEF Interrupt

LEMMA RespondApart ==
    ASSUME IInv, Apart, NEW u \in Requesters, NEW s \in Sessions, Respond(u, s) PROVE Apart'
<1>1. \A r \in Sessions : server'[r].phase = server[r].phase
  BY DEF Respond, IInv, ServerFits, Servers
<1>. DEFINE f == [files[s] EXCEPT !.pending = NULL]
<1>2. call' = [call EXCEPT ![u] = [Idle EXCEPT !.at = "stale", !.session = s, !.copy = f]]
  BY DEF Respond
<1>3. UNCHANGED <<files, memory, late>>
  BY DEF Respond
<1>. HIDE DEF f
<1>. QED
  BY <1>1, <1>2, <1>3, StaleApart

LEMMA PollApart ==
    ASSUME IInv, Apart, NEW u \in Requesters, NEW s \in Sessions, Poll(u, s) PROVE Apart'
  BY StaleApart DEF Poll

LEMMA ArchiveApart ==
    ASSUME IInv, Apart, NEW u \in Requesters, NEW s \in Sessions, Archive(u, s) PROVE Apart'
  BY StaleApart DEF Archive

-----------------------------------------------------------------------------
LEMMA NotificationApart ==
    ASSUME IInv, Apart, NEW s \in Sessions,
           \/ \E outcome \in {"completed", "failed", "interrupted"} : TurnCompleted(s, outcome)
           \/ AskPermission(s)
           \/ OtherEvent(s)
    PROVE  Apart'
<1>1. /\ Known' = Known /\ UNCHANGED <<tasks, queue, owner, late, call>>
      /\ \A r \in Sessions : server'[r].phase = server[r].phase
  BY FilesSame DEF TurnCompleted, AskPermission, OtherEvent, memory, workspace, IInv, ServerFits, Servers
<1>2. \A r \in Sessions, t \in Threads : (Busy(t, r)' => Busy(t, r)) /\ (Asks(t, r)' => Asks(t, r))
  BY <1>1 DEF Busy, Asks
<1>. QED
  BY <1>1, <1>2, AllStay

\* A finished turn gives its session on, and the worktree to the next.
LEMMA ReceiveApart ==
    ASSUME IInv, IInv', Known \subseteq Known', Apart, Receive PROVE Apart'
<1>0. reader # NULL /\ reader.session \in Sessions /\ reader.session \in Known
  BY DEF Receive, IInv, ReaderFits, Notification
<1>1. PICK s \in Sessions : s = reader.session
  BY <1>0
<1>2. /\ \A r \in Sessions, t \in Threads : (Busy(t, r)' <=> Busy(t, r)) /\ (Asks(t, r)' <=> Asks(t, r))
      /\ \A r \in Sessions \ {s} : server'[r] = server[r]
      /\ server'[s].phase \in {server[s].phase, NULL}
      /\ late' = {}
  <2>1. UNCHANGED <<call, late>> /\ late = {}
    BY DEF Receive, Apart
  <2>2. server \in [Sessions -> Servers]
    BY DEF IInv, ServerFits
  <2>3. CASE server' = server
    BY <2>1, <2>3 DEF Busy, Asks
  <2>4. CASE server' = [server EXCEPT ![s].phase = NULL, ![s].stop = FALSE]
    <3>1. server'[s].phase = NULL /\ \A r \in Sessions \ {s} : server'[r] = server[r]
      BY <2>2, <2>4 DEF Servers
    <3>. QED
      BY <2>1, <3>1 DEF Busy, Asks
  <2>. QED
    BY <1>1, <2>3, <2>4 DEF Receive
<1>3. CASE UNCHANGED <<owner, queue, tasks>>
  <2>1. \A r \in Sessions : server'[r].phase \in {server[r].phase, NULL}
    BY <1>2
  <2>. QED
    BY <1>2, <1>3, <2>1, AllStay DEF Apart
<1>4. CASE /\ Done # NULL
           /\ \/ Enqueue(s)
              \/ \E more \in {<<>>, <<Review(s)>>} : Release(s, files', more)
  <2>1. Running(s) /\ server'[s].phase = NULL
    <3>1. reader.event = "completed" /\ Running(s)
      BY <1>1, <1>4 DEF Done, KnownPhase, Running
    <3>2. server' = [server EXCEPT ![s].phase = NULL, ![s].stop = FALSE]
      BY <1>1, <3>1 DEF Receive
    <3>. QED
      BY <3>1, <3>2 DEF IInv, ServerFits, Servers
  <2>2. ~Queued(s) /\ ~In(tasks, s) /\ \A t \in Threads : ~Busy(t, s)
    BY <2>1 DEF Apart, OneJob
  <2>3. /\ \A r \in Sessions \ {s} :
             /\ Once(tasks, r)' /\ (In(tasks, r)' => In(tasks, r) \/ (Queued(r) /\ ~Queued(r)'))
             /\ Queued(r)' => Queued(r)
             /\ owner = r => owner' = r
        /\ Once(tasks, s)' /\ ~(In(tasks, s)' /\ Queued(s)')
        /\ \A i \in DOMAIN queue' : queue'[i] \in Known'
    <3>1. s \in Known'
      BY <1>0, <1>1
    <3>2. CASE Enqueue(s)
      BY <2>2, <3>1, <3>2, EnqueueApart
    <3>3. ASSUME NEW more \in {<<>>, <<Review(s)>>}, Release(s, files', more)
          PROVE  /\ \A r \in Sessions \ {s} :
                       /\ Once(tasks, r)' /\ (In(tasks, r)' => In(tasks, r) \/ (Queued(r) /\ ~Queued(r)'))
                       /\ Queued(r)' => Queued(r)
                       /\ owner = r => owner' = r
                 /\ Once(tasks, s)' /\ ~Queued(s)'
                 /\ \A i \in DOMAIN queue' : queue'[i] \in Known'
      <4>1. \A r \in Sessions : files'[r] # NULL => r \in Known'
        BY DEF Known
      <4>. QED
        BY <2>2, <3>1, <3>3, <4>1, ReleaseApart
    <3>. QED
      BY <1>4, <3>2, <3>3
  <2>4. ASSUME NEW r \in Sessions \ {s} PROVE OneJob(r)' /\ WritersOwn(r)'
    <3>1. (Running(r)' <=> Running(r)) /\ (Writing(r)' <=> Writing(r))
      BY <1>2 DEF Running, Writing
    <3>2. OneJob(r)'
      BY <1>2, <2>3, <3>1 DEF Apart, OneJob
    <3>3. WritersOwn(r)'
      BY <1>2, <2>3, <3>1 DEF Apart, WritersOwn
    <3>. QED
      BY <3>2, <3>3
  <2>5. OneJob(s)'
    BY <1>2, <2>1, <2>2, <2>3 DEF OneJob, Running
  <2>6. WritersOwn(s)'
    <3>1. ~Writing(s)'
      BY <2>1, NullAssumption DEF Writing, MutablePhases, Phases
    <3>2. \A t \in Threads : ~Asks(t, s)'
      BY <1>2, <2>2 DEF Asks, Busy
    <3>. QED
      BY <3>1, <3>2 DEF WritersOwn
  <2>. QED
    BY <1>2, <2>3, <2>4, <2>5, <2>6 DEF Apart
<1>5. Follow(reader.session, files')
  BY DEF Receive
<1>6. CASE Done \in {NULL, "review"}
  <2>1. Done # "planning" /\ Done # "skill_revision"
    BY <1>6, NullAssumption DEF Phases, MutablePhases
  <2>2. UNCHANGED <<owner, queue, tasks>>
    BY <1>5, <1>6, <2>1 DEF Follow
  <2>. QED
    BY <1>3, <2>2
<1>7. CASE Done \notin {NULL, "review"}
  <2>1. \/ Enqueue(reader.session)
        \/ \E more \in {<<>>, <<Review(reader.session)>>} : Release(reader.session, files', more)
    BY <1>5, <1>7 DEF Follow
  <2>2. \/ Enqueue(s)
        \/ \E more \in {<<>>, <<Review(s)>>} : Release(s, files', more)
    BY <1>1, <2>1 DEF Enqueue, Release, Review, Implement, workspace, Queued, Candidates
  <2>. QED
    BY <1>4, <1>7, <2>2
<1>. QED
  BY <1>6, <1>7

-----------------------------------------------------------------------------
LEMMA RestartApart ==
    ASSUME IInv, Restart PROVE Apart'
<1>1. /\ \A s \in Sessions : ~Running(s)' /\ ~Writing(s)' /\ ~Queued(s)' /\ ~In(tasks, s)' /\ Once(tasks, s)'
      /\ \A i \in DOMAIN queue' : queue'[i] \in Known'
  <2>1. DOMAIN queue' = {} /\ DOMAIN tasks' = {}
    BY NothingWaits DEF Restart
  <2>2. ASSUME NEW s \in Sessions PROVE server'[s].phase = NULL
    BY DEF Restart, IInv, ServerFits, Servers
  <2>3. \A s \in Sessions : ~Running(s)' /\ ~Writing(s)'
    BY <2>2, NullAssumption DEF Running, Writing, MutablePhases, Phases
  <2>. QED
    BY <2>1, <2>3 DEF Queued, In, Once
<1>2. \A s \in Sessions, t \in Threads : ~Busy(t, s)' /\ ~Asks(t, s)'
  BY DEF Restart, Busy, Asks, Idle
<1>. QED
  BY <1>1, <1>2 DEF Apart, OneJob, WritersOwn, Restart

LEMMA ReloadApart ==
    ASSUME IInv, Apart, Reload PROVE Apart'
<1>1. Known' = Known
  BY FilesSame DEF Reload
<1>2. ASSUME NEW s \in Sessions PROVE OneJob(s)' /\ WritersOwn(s)'
  <2>1. Once(tasks, s)' /\ (In(tasks, s)' => In(tasks, s))
    <3>1. Recover \in TasksOf(Known) /\ Recover.session # s
      BY NullAssumption DEF Recover, TasksOf
    <3>2. Once(tasks', s) /\ (In(tasks', s) => In(tasks, s))
      BY <3>1, AppendOnce DEF Reload, IInv, TasksFit, Apart, OneJob
    <3>. QED
      BY <3>2 DEF Once, In
  <2>2. \A t \in Threads : (Busy(t, s)' => Busy(t, s)) /\ (Asks(t, s)' => Asks(t, s))
    BY DEF Reload, Busy, Asks
  <2>3. Queued(s)' => Queued(s)
    BY DEF Reload, workspace, Queued
  <2>. QED
    BY <2>1, <2>2, <2>3, Stays DEF Reload, workspace
<1>. QED
  BY <1>1, <1>2 DEF Apart, Reload, workspace

LEMMA RecoverNextApart ==
    ASSUME IInv, IInv', Apart, NEW w \in Workers, RecoverNext(w), Calm' PROVE Apart'
<1>0. w \in Threads /\ call[w] \in Calls /\ call[w].todo \subseteq Sessions /\ Known' = Known
  BY FilesSame DEF Threads, IInv, CallsFit, Calls, RecoverNext
<1>1. ASSUME NEW s \in call[w].todo,
             faults' = faults \cup If(Copied(s, w), "stale") \cup If(AtWork(s, w), "reload"),
             call' = [call EXCEPT ![w] =
                         [@ EXCEPT !.at = "rewriting", !.session = s,
                                   !.copy = files[s],
                                   !.todo = call[w].todo \ {s}]]
      PROVE  Apart'
  <2>. DEFINE k == [call[w] EXCEPT !.at = "rewriting", !.session = s, !.copy = files[s],
                                   !.todo = call[w].todo \ {s}]
  <2>1. ~AtWork(s, w) /\ s \in Sessions
    BY <1>0, <1>1 DEF Calm, Unserializing, If
  <2>2. ~In(tasks, s) /\ ~Queued(s) /\ ~Running(s) /\ \A u \in Threads \ {w} : ~Busy(u, s)
    BY <2>1 DEF AtWork, Engaged, Dispatched, In, Busy
  <2>3. call' = [call EXCEPT ![w] = k] /\ k.session = s /\ k.at = "rewriting"
    BY <1>0, <1>1 DEF IInv, CallsFit, Calls
  <2>. HIDE DEF k
  <2>4. UNCHANGED <<tasks, queue, owner, late, server>>
    BY DEF RecoverNext, memory, workspace
  <2>. QED
    BY <1>0, <2>1, <2>2, <2>3, <2>4, TasksStay, ThreadTakes
<1>2. CASE /\ call'[w].at \in {"idle", "recovering"}
           /\ \A u \in Threads \ {w} : call'[u] = call[u]
  BY <1>0, <1>2, FileKept DEF RecoverNext
<1>3. CASE call' = [call EXCEPT ![w] = Idle]
  BY <1>0, <1>2, <1>3 DEF Idle, IInv, CallsFit
<1>4. ASSUME NEW s, call' = [call EXCEPT ![w].todo = @ \ {s}], call[w].at = "recovering" PROVE Apart'
  BY <1>0, <1>2, <1>4 DEF IInv, CallsFit, Calls
<1>. QED
  BY <1>1, <1>3, <1>4 DEF RecoverNext

LEMMA RecoverQueueApart ==
    ASSUME IInv, Apart, NEW w \in Workers, RecoverQueue(w) PROVE Apart'
<1>0. w \in Threads /\ call[w].session \in Sessions /\ call[w].session \in Known
  BY DEF RecoverQueue, IInv, CallsFit, Fits, Threads
<1>1. PICK s \in Sessions : s = call[w].session
  BY <1>0
<1>2. Known' = Known
  BY FilesSame DEF RecoverQueue
<1>3. /\ Busy(w, s) /\ call'[w].at = "recovering"
      /\ \A u \in Threads \ {w} : call'[u] = call[u]
  BY <1>0, <1>1 DEF RecoverQueue, Busy, IInv, CallsFit, Idle
<1>4. ~Queued(s) /\ ~In(tasks, s) /\ ~Running(s) /\ \A u \in Threads : Busy(u, s) => u = w
  BY <1>0, <1>3 DEF Apart, OneJob
<1>5. /\ \A r \in Sessions, u \in Threads : (Busy(u, r)' => Busy(u, r)) /\ (Asks(u, r)' => Asks(u, r))
      /\ \A u \in Threads : ~Busy(u, s)' /\ ~Asks(u, s)'
  BY <1>3, <1>4 DEF Busy, Asks
<1>6. /\ \A r \in Sessions \ {s} :
           /\ Once(tasks, r)' /\ (In(tasks, r)' => In(tasks, r))
           /\ Queued(r)' => Queued(r)
           /\ owner = r => owner' = r
      /\ Once(tasks, s)' /\ ~(In(tasks, s)' /\ Queued(s)')
      /\ \A i \in DOMAIN queue' : queue'[i] \in Known'
  <2>1. CASE Enqueue(s)
    BY <1>0, <1>1, <1>2, <1>4, <2>1, EnqueueApart
  <2>2. CASE tasks' = Append(tasks, Review(s)) /\ UNCHANGED workspace
    <3>1. tasks \in Seq(TasksOf(Known)) /\ Review(s) \in TasksOf(Known) /\ Review(s).session = s
      BY <1>0, <1>1 DEF IInv, TasksFit, Review, TasksOf
    <3>2. \A r \in Sessions : Once(tasks, r)
      BY DEF Apart, OneJob
    <3>3. /\ \A r \in Sessions \ {s} : Once(tasks', r) /\ (In(tasks', r) => In(tasks, r))
          /\ Once(tasks', s)
      BY <1>4, <2>2, <3>1, <3>2, AppendOnce
    <3>4. \A r \in Sessions : Queued(r)' <=> Queued(r)
      BY <2>2 DEF workspace, Queued
    <3>5. \A i \in DOMAIN queue' : queue'[i] \in Known'
      BY <1>2, <2>2 DEF workspace, Apart
    <3>. QED
      BY <1>4, <2>2, <3>3, <3>4, <3>5 DEF workspace, Once, In
  <2>. QED
    BY <1>1, <2>1, <2>2 DEF RecoverQueue
<1>7. \A r \in Sessions : (Running(r)' <=> Running(r)) /\ (Writing(r)' <=> Writing(r))
  BY DEF RecoverQueue, Running, Writing
<1>8. ASSUME NEW r \in Sessions \ {s} PROVE OneJob(r)' /\ WritersOwn(r)'
  <2>1. OneJob(r)'
    BY <1>5, <1>6, <1>7 DEF Apart, OneJob
  <2>2. WritersOwn(r)'
    BY <1>5, <1>6, <1>7 DEF Apart, WritersOwn
  <2>. QED
    BY <2>1, <2>2
<1>9. OneJob(s)'
  BY <1>4, <1>5, <1>6, <1>7 DEF OneJob
<1>10. WritersOwn(s)'
  <2>1. ~Writing(s)
    BY <1>4, NullAssumption DEF Running, Writing, MutablePhases, Phases
  <2>. QED
    BY <1>5, <1>7, <2>1 DEF WritersOwn
<1>. QED
  BY <1>6, <1>8, <1>9, <1>10 DEF Apart, RecoverQueue

-----------------------------------------------------------------------------
\* Nothing that happened is forgotten.
LEMMA FaultsStay ==
    ASSUME [Next]_vars PROVE faults \subseteq faults'
<1>1. ASSUME NEW w \in Workers, WorkerStep(w) PROVE faults \subseteq faults'
  BY <1>1 DEF WorkerStep, TakeTask, ReadFailed, RecordFailed, FreeFailed, RecoverNext, RecoverWrite,
     RecoverQueue, Disturb, bounds
<1>2. ASSUME NEW u \in Requesters, RequesterStep(u) \/ Human(u) PROVE faults \subseteq faults'
  BY <1>2 DEF RequesterStep, Human, CreateSession, WriteStale, WriteArchived, Authorize, Request, Interrupt,
     Respond, Poll, Archive, Disturb, bounds
<1>3. ASSUME NEW t \in Threads, ThreadStep(t) \/ Accept(t) \/ Refuse(t) \/ Timeout(t)
      PROVE  faults \subseteq faults'
  BY <1>3 DEF ThreadStep, Claim, Undo, ReadBack, Record, Accept, Refuse, Timeout, Disturb, bounds
<1>4. ASSUME NEW r \in late, AcceptLate(r) PROVE faults \subseteq faults'
  BY <1>4 DEF AcceptLate, bounds
<1>5. ASSUME NEW s \in Sessions,
             \/ \E outcome \in {"completed", "failed", "interrupted"} : TurnCompleted(s, outcome)
             \/ AskPermission(s) \/ OtherEvent(s)
      PROVE  faults \subseteq faults'
  BY <1>5 DEF TurnCompleted, AskPermission, OtherEvent, Disturb
<1>6. CASE Receive \/ Restart \/ Reload \/ UNCHANGED vars
  BY <1>6 DEF Receive, Restart, Reload, Disturb, bounds, vars
<1>. QED
  BY <1>1, <1>2, <1>3, <1>4, <1>5, <1>6 DEF Next

LEMMA InitApart == Init => Apart
<1>. SUFFICES ASSUME Init PROVE Apart
  OBVIOUS
<1>1. DOMAIN queue = {} /\ DOMAIN tasks = {} /\ late = {}
  BY NothingWaits DEF Init
<1>2. \A s \in Sessions : ~Running(s) /\ ~Writing(s)
  BY NullAssumption DEF Init, Running, Writing, MutablePhases, Phases
<1>3. \A s \in Sessions, t \in Threads : ~Busy(t, s) /\ ~Asks(t, s)
  BY DEF Init, Busy, Asks, Idle
<1>. QED
  BY <1>1, <1>2, <1>3 DEF Apart, OneJob, WritersOwn, Queued, In, Once

\* Every step keeps it, one case per action, if it stays calm.
LEMMA NextApart ==
    ASSUME IInv, Apart, [Next]_vars, Calm' PROVE Apart'
<1>0. IInv'
  BY NextIInv
<1>1. ASSUME NEW w \in Workers, WorkerStep(w) PROVE Apart'
  BY <1>0, <1>1, TakeTaskApart, ReadFailedApart, RecordFailedApart, RecordFailedIInv, FreeFailedApart,
     RecoverNextApart, RecoverWriteApart, RecoverWriteIInv, RecoverQueueApart DEF WorkerStep
<1>2. ASSUME NEW u \in Requesters, RequesterStep(u) PROVE Apart'
  BY <1>2, CreateSessionApart, WriteStaleApart, WriteStaleIInv, WriteArchivedApart, WriteArchivedIInv
     DEF RequesterStep
<1>3. ASSUME NEW u \in Requesters, Human(u) PROVE Apart'
  BY <1>3, AuthorizeApart, RequestApart, InterruptApart, RespondApart, PollApart, ArchiveApart DEF Human
<1>4. ASSUME NEW t \in Threads, ThreadStep(t) \/ Accept(t) \/ Refuse(t) \/ Timeout(t) PROVE Apart'
  BY <1>0, <1>4, ClaimApart, UndoApart, ReadBackApart, RecordApart, RecordIInv, AcceptApart,
     RefuseApart, TimeoutApart DEF ThreadStep
<1>5. ASSUME NEW r \in late, AcceptLate(r) PROVE Apart'
  BY <1>5 DEF Apart
<1>6. ASSUME NEW s \in Sessions,
             \/ \E outcome \in {"completed", "failed", "interrupted"} : TurnCompleted(s, outcome)
             \/ AskPermission(s) \/ OtherEvent(s)
      PROVE  Apart'
  BY <1>6, NotificationApart
<1>7. CASE Receive \/ Restart \/ Reload
  BY <1>0, <1>7, ReceiveApart, ReceiveIInv, RestartApart, ReloadApart
<1>8. CASE UNCHANGED vars
  <2>1. UNCHANGED <<files, tasks, queue, owner, late, call, server>>
    BY <1>8 DEF vars
  <2>2. \A s \in Sessions, t \in Threads :
           (Busy(t, s)' => Busy(t, s)) /\ (Asks(t, s)' => Asks(t, s))
    BY <2>1 DEF Busy, Asks
  <2>. QED
    BY <2>1, <2>2, FilesSame, AllStay
<1>. QED
  BY <1>1, <1>2, <1>3, <1>4, <1>5, <1>6, <1>7, <1>8 DEF Next

-----------------------------------------------------------------------------
(* The worktree as a lock with a queue.                                    *)

\* A step that leaves the worktree alone, and may excuse what comes.
LEMMA Aside ==
    ASSUME UNCHANGED <<owner, queue>>, faults \subseteq faults',
           \A s \in Sessions : Writing(s)' <=> Writing(s)
    PROVE  [Worktree!Next]_Worktree!state
<1>1. UNCHANGED {s \in Sessions : Writing(s)}
  OBVIOUS
<1>2. CASE (faults \cap Unserializing # {})' <=> (faults \cap Unserializing # {})
  BY <1>1, <1>2 DEF Worktree!state
<1>3. CASE (faults \cap Unserializing # {})' /\ faults \cap Unserializing = {}
  BY <1>1, <1>3 DEF Worktree!Next, Worktree!Excuse
<1>. QED
  BY <1>2, <1>3

\* What _queue_automatic_implementation does.
LEMMA EnqueueShared ==
    ASSUME NEW s \in Sessions, Enqueue(s), UNCHANGED faults,
           \A r \in Sessions : Writing(r)' <=> Writing(r)
    PROVE  [Worktree!Next]_Worktree!state
<1>0. UNCHANGED {r \in Sessions : Writing(r)}
  OBVIOUS
<1>1. CASE owner \in {NULL, s} /\ owner' = s /\ UNCHANGED queue
  BY <1>0, <1>1 DEF Worktree!Next, Worktree!Take
<1>2. CASE owner \notin {NULL, s} /\ queue' = Append(queue, s) /\ ~Queued(s) /\ UNCHANGED owner
  BY <1>0, <1>2 DEF Worktree!Next, Worktree!Wait, Worktree!InQueue, Queued
<1>3. CASE UNCHANGED <<owner, queue>>
  BY <1>3, Aside
<1>. QED
  BY <1>1, <1>2, <1>3 DEF Enqueue

\* What _release_mutable_workspace does.
LEMMA ReleaseShared ==
    ASSUME IInv, NEW s \in Sessions, NEW more, Release(s, files', more),
           Calm /\ owner \in {NULL, s} => \A r \in Sessions : ~Writing(r)'
    PROVE  Worktree!Pass(s) \/ UNCHANGED <<owner, queue>>
<1>. DEFINE Waits == {r \in Sessions : Status(r)' = "queued_implementation"}
<1>1. \A i \in DOMAIN queue : i \in Candidates(files') <=> queue[i] \in Waits
  <2>1. \A r : Status(r)' = "queued_implementation"
                 <=> files'[r] # NULL /\ files'[r].status = "queued_implementation"
    BY NullAssumption, StatusesNamed DEF Status, Exists
  <2>2. \A i \in DOMAIN queue : queue[i] \in Sessions
    BY DEF IInv, WorkspaceFits
  <2>. QED
    BY <2>1, <2>2 DEF Candidates
<1>2. Candidates(files') \subseteq DOMAIN queue
  BY DEF Candidates
<1>3. owner \in {NULL, s} => faults \cap Unserializing # {} \/ {r \in Sessions : Writing(r)}' = {}
  BY DEF Calm
<1>4. CASE UNCHANGED workspace
  BY <1>4 DEF workspace
<1>5. CASE owner \in {NULL, s} /\ Candidates(files') = {} /\ owner' = NULL /\ queue' = <<>>
  BY <1>1, <1>3, <1>5 DEF Worktree!Pass
<1>6. ASSUME owner \in {NULL, s}, NEW i \in Candidates(files'),
             \A j \in Candidates(files') : i <= j,
             owner' = queue[i], queue' = SubSeq(queue, i + 1, Len(queue))
      PROVE  Worktree!Pass(s)
  <2>1. i \in DOMAIN queue /\ queue[i] \in Waits /\ \A j \in DOMAIN queue : queue[j] \in Waits => i <= j
    BY <1>1, <1>2, <1>6
  <2>. QED
    BY <1>3, <1>6, <2>1 DEF Worktree!Pass
<1>. QED
  BY <1>4, <1>5, <1>6 DEF Release

\* A thread gives the worktree up after its turn was not accepted.
LEMMA ReleasedShared ==
    ASSUME IInv, Calm => Apart, NEW t \in Threads, NEW s \in Sessions, Busy(t, s),
           Release(s, files, <<>>), UNCHANGED <<files, server, faults>>
    PROVE  [Worktree!Next]_Worktree!state
<1>1. \A r \in Sessions : Writing(r)' <=> Writing(r)
  BY DEF Writing
<1>2. Calm /\ owner \in {NULL, s} => \A r \in Sessions : ~Writing(r)
  <2>. SUFFICES ASSUME Calm, owner \in {NULL, s}, NEW r \in Sessions, Writing(r) PROVE FALSE
    OBVIOUS
  <2>1. r = s
    BY NullAssumption DEF Apart, WritersOwn
  <2>2. ~Running(s)
    BY DEF Apart, OneJob
  <2>. QED
    BY <2>1, <2>2, NullAssumption DEF Writing, Running, MutablePhases, Phases
<1>3. Release(s, files', <<>>)
  OBVIOUS
<1>4. Worktree!Pass(s) \/ UNCHANGED <<owner, queue>>
  BY <1>1, <1>2, <1>3, ReleaseShared
<1>5. UNCHANGED {r \in Sessions : Writing(r)}
  BY <1>1
<1>6. CASE Worktree!Pass(s)
  BY <1>5, <1>6 DEF Worktree!Next, Worktree!Give
<1>. QED
  BY <1>1, <1>4, <1>6, Aside

\* A turn begins: by the owner, as long as nothing is excused.
LEMMA BeginShared ==
    ASSUME NEW s \in Sessions, NEW phase, ServerFits, Begin(s, phase), UNCHANGED <<owner, queue, faults>>,
           ~Running(s),
           Calm /\ phase \in MutablePhases => owner = s /\ \A r \in Sessions : ~Writing(r)
    PROVE  [Worktree!Next]_Worktree!state
<1>1. server'[s].phase = phase /\ \A r \in Sessions \ {s} : server'[r] = server[r]
  BY DEF Begin, ServerFits
<1>2. ~Writing(s)
  BY NullAssumption DEF Running, Writing, MutablePhases, Phases
<1>3. CASE phase \in MutablePhases
  <2>1. {r \in Sessions : Writing(r)}' = {r \in Sessions : Writing(r)} \cup {s}
    BY <1>1, <1>3 DEF Writing
  <2>2. faults \cap Unserializing # {} \/ (owner = s /\ {r \in Sessions : Writing(r)} = {})
    BY <1>3 DEF Calm
  <2>3. Worktree!Write(s)
    BY <2>1, <2>2 DEF Worktree!Write
  <2>. QED
    BY <2>3 DEF Worktree!Next
<1>4. CASE phase \notin MutablePhases
  BY <1>1, <1>2, <1>4, Aside DEF Writing
<1>. QED
  BY <1>3, <1>4

LEMMA AcceptShared ==
    ASSUME IInv, Calm => Apart, NEW t \in Threads, Accept(t) PROVE [Worktree!Next]_Worktree!state
<1>. DEFINE s == call[t].session
<1>1. s \in Sessions /\ ~Running(s) /\ Begin(s, call[t].phase) /\ UNCHANGED <<owner, queue, faults>>
  BY DEF Accept, IInv, CallsFit, Fits, memory, bounds
<1>2. ASSUME Calm, call[t].phase \in MutablePhases PROVE owner = s /\ \A r \in Sessions : ~Writing(r)
  <2>1. Asks(t, s)
    BY <1>2 DEF Accept, Asks
  <2>2. owner = s
    BY <1>1, <1>2, <2>1 DEF Apart, WritersOwn
  <2>3. ~Writing(s)
    BY <1>1, NullAssumption DEF Running, Writing, MutablePhases, Phases
  <2>. QED
    BY <1>2, <2>2, <2>3 DEF Apart, WritersOwn
<1>. HIDE DEF s
<1>. QED
  BY <1>1, <1>2, BeginShared DEF IInv

LEMMA AcceptLateShared ==
    ASSUME IInv, Calm => Apart, NEW r \in late, AcceptLate(r) PROVE [Worktree!Next]_Worktree!state
<1>1. UNCHANGED <<owner, queue, faults>> /\ r.session \in Sessions
  BY DEF AcceptLate, memory, bounds, IInv, LateFits, Known
<1>2. ~Calm
  BY DEF Apart
<1>3. CASE UNCHANGED server
  BY <1>1, <1>3, Aside DEF Writing
<1>4. CASE ~Running(r.session) /\ Begin(r.session, r.phase)
  BY <1>1, <1>2, <1>4, BeginShared DEF IInv
<1>. QED
  BY <1>3, <1>4 DEF AcceptLate

LEMMA ClaimShared ==
    ASSUME IInv, NEW t \in Threads, Claim(t) PROVE [Worktree!Next]_Worktree!state
<1>. DEFINE s == call[t].session
<1>1. s \in Sessions /\ UNCHANGED <<queue, server, faults>>
  BY DEF Claim, IInv, CallsFit, Fits, bounds
<1>2. UNCHANGED {r \in Sessions : Writing(r)} /\ \A r \in Sessions : Writing(r)' <=> Writing(r)
  BY <1>1 DEF Writing
<1>3. CASE owner \in {NULL, s} /\ owner' = s
  BY <1>1, <1>2, <1>3 DEF Worktree!Next, Worktree!Take
<1>4. CASE UNCHANGED owner
  BY <1>1, <1>2, <1>4, Aside
<1>. QED
  BY <1>3, <1>4 DEF Claim

LEMMA UndoShared ==
    ASSUME IInv, Calm => Apart, NEW t \in Threads, Undo(t) PROVE [Worktree!Next]_Worktree!state
<1>1. PICK s \in Sessions : s = call[t].session
  BY DEF Undo, IInv, CallsFit, Fits
<1>2. Busy(t, s) /\ Release(s, files, <<>>) /\ UNCHANGED <<files, server, faults>>
  BY <1>1 DEF Undo, Busy, bounds
<1>. QED
  BY <1>2, ReleasedShared

LEMMA FreeFailedShared ==
    ASSUME IInv, Calm => Apart, NEW w \in Workers, FreeFailed(w) PROVE [Worktree!Next]_Worktree!state
<1>0. w \in Threads
  BY DEF Threads
<1>1. PICK s \in Sessions : s = call[w].session
  BY <1>0 DEF FreeFailed, IInv, CallsFit, Fits
<1>2. Busy(w, s) /\ Release(s, files, <<>>) /\ UNCHANGED <<files, server, faults>>
  BY <1>1 DEF FreeFailed, Busy, bounds
<1>. QED
  BY <1>0, <1>2, ReleasedShared

LEMMA RecoverQueueShared ==
    ASSUME IInv, NEW w \in Workers, RecoverQueue(w) PROVE [Worktree!Next]_Worktree!state
<1>1. PICK s \in Sessions : s = call[w].session
  BY DEF RecoverQueue, IInv, CallsFit, Fits, Threads
<1>2. UNCHANGED faults /\ \A r \in Sessions : Writing(r)' <=> Writing(r)
  BY DEF RecoverQueue, Writing, bounds
<1>3. CASE Enqueue(s)
  BY <1>2, <1>3, EnqueueShared
<1>4. CASE UNCHANGED workspace
  BY <1>2, <1>4, Aside DEF workspace
<1>. QED
  BY <1>1, <1>3, <1>4 DEF RecoverQueue

\* A turn that ends stops writing, and the worktree is passed on in the same step
\* if it has completed.
LEMMA ReceiveShared ==
    ASSUME IInv, Calm => Apart, Receive PROVE [Worktree!Next]_Worktree!state
<1>1. PICK s \in Sessions : s = reader.session
  BY DEF Receive, IInv, ReaderFits, Notification
<1>2. UNCHANGED faults /\ Follow(s, files') /\ reader # NULL
  BY <1>1 DEF Receive, bounds
<1>3. /\ \A r \in Sessions \ {s} : server'[r] = server[r]
      /\ server'[s].phase = server[s].phase \/ server'[s].phase = NULL
      /\ Done # NULL => server'[s].phase = NULL /\ Done = server[s].phase
  BY <1>1 DEF Receive, IInv, ServerFits, Servers, Done, KnownPhase
<1>4. \A r \in Sessions \ {s} : Writing(r)' <=> Writing(r)
  BY <1>3 DEF Writing
<1>5. server'[s].phase = NULL => ~Writing(s)'
  BY NullAssumption DEF Writing, MutablePhases, Phases
<1>6. CASE Done \in {NULL, "review"}
  <2>1. UNCHANGED <<owner, queue>>
    BY <1>2, <1>6, NullAssumption DEF Follow, Phases, MutablePhases
  <2>2. CASE Writing(s)' <=> Writing(s)
    BY <1>2, <1>4, <2>1, <2>2, Aside
  <2>3. CASE Writing(s) /\ ~Writing(s)'
    <3>1. {r \in Sessions : Writing(r)}' = {r \in Sessions : Writing(r)} \ {s}
      BY <1>4, <2>3
    <3>2. Worktree!Stop(s)
      BY <1>2, <2>1, <2>3, <3>1 DEF Worktree!Stop
    <3>. QED
      BY <3>2 DEF Worktree!Next
  <2>4. Writing(s)' => Writing(s)
    BY <1>3, <1>5 DEF Writing
  <2>. QED
    BY <2>2, <2>3, <2>4
<1>7. CASE Done = "planning"
  <2>1. \A r \in Sessions : Writing(r)' <=> Writing(r)
    BY <1>3, <1>4, <1>5, <1>7, NullAssumption DEF Writing, Phases, MutablePhases
  <2>2. Enqueue(s)
    BY <1>2, <1>7, NullAssumption DEF Follow, Phases
  <2>. QED
    BY <1>2, <2>1, <2>2, EnqueueShared
<1>8. CASE Done \notin {NULL, "review", "planning"}
  <2>1. PICK more : Release(s, files', more)
    BY <1>2, <1>8 DEF Follow
  <2>2. server[s].phase \in MutablePhases /\ ~Writing(s)'
    BY <1>3, <1>5, <1>8 DEF IInv, ServerFits, Servers, Phases
  <2>3. ASSUME Calm, owner \in {NULL, s}, NEW r \in Sessions PROVE ~Writing(r)'
    BY <1>4, <2>2, <2>3, NullAssumption DEF Apart, WritersOwn
  <2>4. Worktree!Pass(s) \/ UNCHANGED <<owner, queue>>
    BY <2>1, <2>3, ReleaseShared
  <2>5. {r \in Sessions : Writing(r)}' = {r \in Sessions : Writing(r)} \ {s}
    BY <1>4, <2>2
  <2>6. s \in {r \in Sessions : Writing(r)}
    BY <2>2 DEF Writing
  <2>7. Worktree!Stop(s)
    BY <1>2, <2>4, <2>5, <2>6 DEF Worktree!Stop
  <2>. QED
    BY <2>7 DEF Worktree!Next
<1>. QED
  BY <1>6, <1>7, <1>8

LEMMA RestartShared ==
    ASSUME IInv, Restart PROVE [Worktree!Next]_Worktree!state
<1>1. \A s \in Sessions : server'[s].phase = NULL
  BY DEF Restart, IInv, ServerFits, Servers
<1>2. {s \in Sessions : Writing(s)}' = {}
  BY <1>1, NullAssumption DEF Writing, MutablePhases, Phases
<1>3. UNCHANGED (faults \cap Unserializing # {})
  BY DEF Restart, Disturb, Unserializing
<1>. QED
  BY <1>2, <1>3 DEF Restart, Worktree!Next, Worktree!Restart

\* Every other step leaves the worktree alone.
LEMMA NextShared ==
    ASSUME IInv, Calm => Apart, [Next]_vars PROVE [Worktree!Next]_Worktree!state
<1>0. faults \subseteq faults'
  BY FaultsStay
<1>1. ASSUME NEW w \in Workers, WorkerStep(w) PROVE [Worktree!Next]_Worktree!state
  <2>1. CASE TakeTask(w) \/ ReadFailed(w) \/ RecordFailed(w) \/ RecoverNext(w) \/ RecoverWrite(w)
    <3>1. UNCHANGED <<owner, queue, server>>
      BY <2>1 DEF TakeTask, ReadFailed, RecordFailed, RecoverNext, RecoverWrite, memory, workspace
    <3>. QED
      BY <1>0, <3>1, Aside DEF Writing
  <2>. QED
    BY <1>1, <2>1, FreeFailedShared, RecoverQueueShared DEF WorkerStep
<1>2. ASSUME NEW u \in Requesters, RequesterStep(u) \/ Human(u) PROVE [Worktree!Next]_Worktree!state
  <2>1. UNCHANGED <<owner, queue>>
    BY <1>2 DEF RequesterStep, Human, CreateSession, WriteStale, WriteArchived, Authorize, Request,
       Interrupt, Respond, Poll, Archive, memory
  <2>2. \A s \in Sessions : server'[s].phase = server[s].phase
    <3>1. ASSUME NEW s \in Sessions, Interrupt(u, s) \/ Respond(u, s)
          PROVE  \A r \in Sessions : server'[r].phase = server[r].phase
      <4>1. CASE Interrupt(u, s)
        BY <4>1 DEF Interrupt, IInv, ServerFits, Servers
      <4>2. CASE Respond(u, s)
        BY <4>2 DEF Respond, IInv, ServerFits, Servers
      <4>. QED
        BY <3>1, <4>1, <4>2
    <3>2. UNCHANGED server \/ \E s \in Sessions : Interrupt(u, s) \/ Respond(u, s)
      BY <1>2 DEF RequesterStep, Human, CreateSession, WriteStale, WriteArchived, Authorize, Request, Poll,
         Archive
    <3>. QED
      BY <3>1, <3>2
  <2>. QED
    BY <1>0, <2>1, <2>2, Aside DEF Writing
<1>3. ASSUME NEW t \in Threads, ThreadStep(t) \/ Accept(t) \/ Refuse(t) \/ Timeout(t)
      PROVE  [Worktree!Next]_Worktree!state
  <2>1. CASE ReadBack(t) \/ Record(t) \/ Refuse(t) \/ Timeout(t)
    <3>1. UNCHANGED <<owner, queue, server>>
      BY <2>1 DEF ReadBack, Record, Refuse, Timeout, memory
    <3>. QED
      BY <1>0, <3>1, Aside DEF Writing
  <2>. QED
    BY <1>3, <2>1, ClaimShared, UndoShared, AcceptShared DEF ThreadStep
<1>4. ASSUME NEW r \in late, AcceptLate(r) PROVE [Worktree!Next]_Worktree!state
  BY <1>4, AcceptLateShared
<1>5. ASSUME NEW s \in Sessions,
             \/ \E outcome \in {"completed", "failed", "interrupted"} : TurnCompleted(s, outcome)
             \/ AskPermission(s) \/ OtherEvent(s)
      PROVE  [Worktree!Next]_Worktree!state
  <2>1. UNCHANGED <<owner, queue>>
    BY <1>5 DEF TurnCompleted, AskPermission, OtherEvent, memory
  <2>2. \A r \in Sessions : server'[r].phase = server[r].phase
    BY <1>5 DEF TurnCompleted, AskPermission, OtherEvent, IInv, ServerFits, Servers
  <2>. QED
    BY <1>0, <2>1, <2>2, Aside DEF Writing
<1>6. CASE Receive \/ Restart
  BY <1>6, ReceiveShared, RestartShared
<1>7. CASE Reload \/ UNCHANGED vars
  <2>1. UNCHANGED <<owner, queue, server>>
    BY <1>7 DEF Reload, workspace, vars
  <2>. QED
    BY <1>0, <2>1, Aside DEF Writing
<1>. QED
  BY <1>1, <1>2, <1>3, <1>4, <1>5, <1>6, <1>7 DEF Next

LEMMA InitShared == Init => Worktree!Init
<1>. SUFFICES ASSUME Init PROVE Worktree!Init
  OBVIOUS
<1>1. {s \in Sessions : Writing(s)} = {}
  BY NullAssumption DEF Init, Writing, MutablePhases, Phases
<1>. QED
  BY <1>1 DEF Init, Worktree!Init

-----------------------------------------------------------------------------
\* The strengthened invariant holds in every state of every behaviour.
THEOREM Inductive == Spec => []IInv
  BY InitIInv, NextIInv, PTL DEF Spec

LEMMA CalmIsApart == Spec => [](Calm => Apart)
<1>. DEFINE Kept == Calm => Apart
<1>1. Init => Kept
  BY InitApart
<1>2. IInv /\ Kept /\ [Next]_vars => Kept'
  <2>. SUFFICES ASSUME IInv, Kept, [Next]_vars, Calm' PROVE Apart'
    OBVIOUS
  <2>1. Calm
    BY FaultsStay DEF Calm
  <2>. QED
    BY <2>1, NextApart
<1>. HIDE DEF Kept
<1>3. Spec => []Kept
  BY <1>1, <1>2, Inductive, PTL DEF Spec
<1>. QED
  BY <1>3 DEF Kept

\* Every variable has its type in every state; in particular nobody writes a
\* session file that it did not read, and no notification names a session
\* without a file.
THEOREM TypeCorrect == Spec => []TypeOK
<1>1. IInv => TypeOK
  <2>. SUFFICES ASSUME IInv PROVE TypeOK
    OBVIOUS
  <2>1. tasks \in Seq(Tasks)
    <3>1. TasksOf(Known) \subseteq Tasks
      BY DEF TasksOf, Tasks, Known
    <3>. QED
      BY <3>1, SeqGrows DEF IInv, TasksFit
  <2>2. late \subseteq [session : Sessions, phase : Phases]
    BY DEF IInv, LateFits, Known
  <2>. QED
    BY <2>1, <2>2 DEF TypeOK, IInv, FilesFit, WorkspaceFits, CallsFit, ReaderFits,
                      ServerFits, CountsFit
<1>. QED
  BY <1>1, Inductive, PTL

\* Whatever fails, races or restarts, the shared worktree is never free while
\* a session waits for it, and no session waits twice or for itself.
THEOREM QueueServed == Spec => []NoIdleQueue
<1>1. IInv => NoIdleQueue
  BY DEF IInv, WorkspaceFits
<1>. QED
  BY <1>1, Inductive, PTL

\* Whatever turns fail, are refused or interrupted, whatever notifications race
\* with the requests, and whenever the server restarts: no two sessions write to
\* the shared worktree at once.  A second request for a session at work, a
\* recovery of sessions at work and an answer after its timeout are excepted.
THEOREM WritesApart == Spec => []WritesSerializedUnlessOverlapped
<1>1. (Calm => Apart) => WritesSerializedUnlessOverlapped
  BY DEF Calm, Apart, WritersOwn, WritesSerializedUnlessOverlapped, WritesSerialized
<1>. QED
  BY <1>1, CalmIsApart, PTL

\* However tasks, requests, turns, failures and recoveries interleave, the
\* manager's owner and queue behave like one lock with one queue: taken by one
\* session at a time, passed to the first that still waits and only while nobody
\* writes, and written to by the owner alone.
THEOREM WorktreeImplemented == Spec => WorktreeShared
<1>1. Init => Worktree!Init
  BY InitShared
<1>2. IInv /\ (Calm => Apart) /\ [Next]_vars => [Worktree!Next]_Worktree!state
  BY NextShared
<1>. QED
  BY <1>1, <1>2, Inductive, CalmIsApart, PTL DEF Spec, WorktreeShared, Worktree!Spec

=============================================================================
