# ServiceFabric portfolio risk: TLA+ models of its stateful components

This directory models the parts of the repository that keep state across
requests, threads, processes and crashes: the artifact repository, the
definition registry, the workflow cycle with its decision reviews, the Studio's
Codex sessions, the experiment queue, and the path from a labelled move to an
experimental case. The modules are translated from the Python source;
`PROJECT.json` maps every definition to the lines it stands for, and lists the
hazards of the code with the properties that watch them.

Contents

1. Inventory of the system
2. Modules, and how they correspond to the code
3. Runs, bounds and what they show
4. Fairness
5. Proofs
6. Where code and documents disagree
7. What is not modelled
8. What is left to do

## 1. Inventory of the system

The repository holds a set of Python packages (`packages/risk_*`) and a
workbench (`apps/portfolio-risk-workbench`) whose labs server
(`labs/duckdb_server.py`, FastAPI) calls them. FastAPI runs the synchronous
endpoints on a thread pool, and several server processes and command lines may
share the same directories. Most packages are pure (analytics, reports,
contracts). The components that keep state are these.

| Component | State it keeps | Operations | What is hard | What makes it correct |
|---|---|---|---|---|
| Artifact repository (`risk_artifacts/store.py`) | blobs by digest, a manifest per artifact, a chain of receipts with anchors and intents, one catalog | admit, transition (archive, restore), tombstone, restore_tombstone, finalize_delete, preview, verify | each operation is four to six file writes; a process may die between any two; blobs are shared; a time window separates restoration from deletion | the catalog never lists missing bytes; an interrupted call is resumed consistently or not at all; deletion only after the window; every operation is atomic to a reader |
| Definition registry (`risk_registry/store.py`) | a projection, receipts, anchors and a snapshot per identity, pending index intents, one catalogue | index, index_many, transition, get, list | the same, plus batches, plus readers that take no lock | the committed prefix is readable whatever lies beyond it; a batch appears whole; nobody commits somebody else's unfinished transition |
| Workflow cycle (`labs/workflow_cycle_runtime.py`) | per session: clock, status, running flag, loop thread, proposals | create, start, pause, set_speed, resolve_proposal, delete; the loop | a daemon thread against request threads; the thread is created outside the lock; reviews reach other processes | the clock never passes an unresolved proposal; a running clock has a thread; a deleted session has none |
| Decision review (`risk_decisions`) | one record per proposal: lifecycle, resolutions, due diligence runs, revisions | create, resolve, run_due_diligence, replace (compare and swap) | two reviewers, retries with idempotency keys, a record computed outside the lock | a key acts once; nothing follows a final outcome; an answer stays true |
| Studio Codex (`labs/studio_codex.py`) | one app-server process, pending calls, a JSON file per session, the owner of the shared worktree and the queue for it | start_session, start_turn, review, interrupt, respond_approval, archive, notifications, recovery | a reader thread against request threads and workers, files rewritten without a lock, notifications before the answer they belong to | one writing turn at a time; the worktree is never idle while a session waits; requests for permission are seen; jobs end |
| Experiment store and queue (`risk_experiments/store.py`) | a record per experiment, a queue entry per job | create, transition, enqueue, update_queue | two files per operation, clients with old revisions | record and entry agree; a key names one job; receipts are append-only and follow the lifecycle |
| Reference labels and cases (`labelling.py`, `context_work.py`, `gold_cases.py`, `matched_runs.py` of `risk_experiments`, and their runtimes in `labs/`) | annotations, context plans, executions, reviews, references, case files, matched-run plans | annotate, review, prepare and review a reference, compile a case, compile a plan | four stores with a lock each, requests that read them one after the other, a case and its record as two files | what a reference binds was accepted; a compiled reference is accepted, frozen and has its case |
| Other experiment stores, data imports | write-once documents, catalogs | save, list, activate | single-file atomicity only | immutability |
| Analytics, reports, capabilities, agents, domain | none | functions | numerics | out of scope for TLC |

Interactions. The workflow cycle writes proposals into the decision store
and reads them back in `start`; the decision endpoints of the server resolve a
proposal through the session if this process holds it, in the store alone
otherwise. The labs server builds a registry store and an artifact repository
per request over one directory, so threads and processes meet in the
files and in `flock` only. The experiment runtimes admit their
outputs into the artifact repository. The case compiler reads the labelling,
context and reference stores, the planner of matched runs the reference store.
The Studio has no store in common with the others.

## 2. Modules, and how they correspond to the code

| Module | Composes or refines | Proofs |
|---|---|---|
| ArtifactRepository | refines ArtifactLifecycle | ArtifactRepository_proofs |
| RegistryStore | refines RegistryLifecycle | RegistryStore_proofs |
| DecisionReview | refines DecisionLedger, the atomic review that WorkflowCycle uses | DecisionReview_proofs |
| WorkflowCycle | the session with the decision records it shares | WorkflowCycle_proofs |
| StudioCodex | manager, session files and app-server; its owner and queue refine SharedWorktree | StudioCodex_proofs (worktree), StudioCodexFiles_proofs (files and jobs) |
| ExperimentQueue | records and queue entries; refines ExperimentLedger | ExperimentQueue_proofs |
| GoldReference | four stores and the requests that cross them | GoldReference_proofs |

The `MC` modules instantiate them for TLC.

### ArtifactRepository

`LocalArtifactRepository`, one action per file written.

| In the model | In the code |
|---|---|
| `catalog[a]` = revision and head receipt | the entry of `catalog.json` and the chain up to its head; a revision is the digest of the head receipt, and one receipt exists per length, so the length stands for it |
| `intent`, `event`, `anchor` | the lifecycle intent (for an admission also the admission intent), the receipt file and the anchor file one past the committed head |
| `manifests`, `blobs` | manifest files; blob files by content digest |
| `call[c]` | the call that thread or process `c` executes while it holds the `RLock` and the `flock` |
| `Enter`, `EnterCleanup` | a call captures its time, waits, gets the lock and passes its checks; refused calls change nothing |
| `WriteIntent` ... `Commit` | `admit` and `_append_receipt`, one file write per step; `Commit` is the `os.replace` of the catalog |
| `Unlink`, `FinishCleanup` | `_cleanup_unshared_blobs` |
| `Crash` | the process dies; the files stay, the kernel drops the flock |
| `Tick` | wall-clock time, in the unit of `RECOVERY_DAYS`; a call waits for the lock at most `MaxWait` |

Two points of the abstraction deserve an argument. First, the checks are one
step with the acquisition of the lock: they read only what the lock protects.
Second, only the files one past the head are state: `_read_receipts` stops at
the head the catalog names, and `_append_receipt` addresses files by the next
sequence number, so nothing ever looks further. An admission writes an
admission intent and, as its receipt's step, a lifecycle intent; both announce
the same receipt and one variable stands for them.
The token of a deletion preview embeds the revision and the referrers; because
the operations require that there are no referrers, it is current exactly when
the revision is, except in the retry of a finished finalization, where the
referrers are compared explicitly (`CleanupAccepted`).

`ArtifactLifecycle` is what a user is promised: one atomic step per operation,
no files, locks or crashes. `ImplementsLifecycle` maps the repository onto it:
the lifecycle state and the deadline come from the head receipt, and an artifact
is readable while it is not deleted and all its bytes exist.

### RegistryStore

`LocalRegistryStore`. The lifecycle of a definition is a chain of six states, so
a document with n receipts is in state n. Receipts are told apart by
position and author, where an author stands for everything an exact retry
repeats. `StartIndex` and `StartTransition` are the checks made under the flock,
`WriteIntent`, `WriteProjection`, `WriteEvent`, `WriteAnchor`,
`WriteSnapshot` and `Commit` the files; `index_many` loops over its items
(`NextItem`) and commits once. `ReadCatalog`, `ReadEvents`, `ReadAnchors` and
`ReadSnapshot` are the four file reads of `get`, with no lock in common with a
writer, because each request builds its own store. Intents are never removed;
one is active while some identity it names is not listed.

`RegistryLifecycle` is the promise: histories only grow, one state at a time,
and a batch appears at once. The visible history of an identity is its receipts
up to the committed head.

### WorkflowCycle

`SyntheticWorkflowSession`, the control endpoint and what it uses of the
decision store. The session lock makes `start` (its part under the lock),
`pause`, `resolve_proposal` and one second of the loop atomic. Outside the lock
are `ensure_thread` (two steps, `EnsureThread` and `SpawnThread`), `close`, and
the lookup of the session that a deletion may overtake (`Lookup`). Time is in
minutes, the instants at which the code looks for a loss; whether a loss is
found is a choice. `Propose` is the whole second in which a loss is found,
including the close of the day that may follow in the same second and then
overwrites the status. `ProposeFails` is a decision store that raises: the day
counts as proposed already and the thread ends. `ResolveInStore` is a
review that reaches another process.

A proposal is named by its day, because a day has one proposal at most.
Speed, prices, dashboards and reports are left out.

The model takes a review to be one atomic step (`Resolve`, `ResolveInStore`)
although the service reads, checks and replaces in three. That is what
`DecisionReview` refines, so the two modules fit.

### DecisionReview and DecisionLedger

`resolve` and `run_due_diligence` over a `LocalDecisionStore`, for one proposal.

| In the model | In the code |
|---|---|
| `record` | what the stored record gathered since its admission, one entry per request; a revision is the digest of the record, so the record stands for it |
| `call[t]` | the request a thread serves: it has read and checked (`replace`, with the record it read) or replaced (`answer`) |
| `Check`, `Retry` | the read and the checks, which hold no lock; a request whose key is recorded is a retry |
| `Replace`, `Conflict` | `store.replace`: the lock, the comparison of revisions, the file |
| `Answer`, `Crash` | the reviewer is told; or the process dies or the answer is lost |

An investigation is one entry although it appends two receipts, as the code
writes both with one replacement. Requests that are refused are left out. The
keys of resolutions and of runs are separate name spaces, as in the code. The code
never enters the states EXPIRED and SUPERSEDED, and no expiry is enforced.
A retry that overlaps its own original may find the record replaced and is
refused; that fails closed and is the `Conflict` action.
`DecisionLedger` is the record with one atomic step per review.

### StudioCodex

`StudioCodexManager` in autonomous mode, from the authorization of a proposal
to its review and the corrections after it.

| In the model | In the code |
|---|---|
| `files[s]` | the session file: status, active turn, turns, pending request for permission |
| `owner`, `queue` | `_mutable_workspace_owner` and `_mutable_workspace_queue` |
| `tasks`, `Workers` | what was submitted to the executor; its threads |
| `call[t]` | the step of a worker or request thread, with the file it has read and will write |
| `reader` | the notification that `_receive` handles under the lock, with its file |
| `server[s]`, `late` | the app-server's thread of the session; requests it still holds although the caller gave up |
| `Authorize`, `CreateSession` | `start_session` |
| `Request`, `Claim`, `Accept`, `ReadBack`, `Record` | `start_turn` and `review`: check of the status, claim of the worktree, the request, the file read again and written |
| `Refuse`, `Timeout`, `Undo` | the transport raises, and the except clause |
| `TakeTask`, `ReadFailed`, `RecordFailed`, `FreeFailed` | the automatic tasks and `_record_orchestration_failure` |
| `TurnCompleted`, `AskPermission`, `OtherEvent`, `Receive` | `_receive` |
| `Interrupt`, `Respond`, `Poll`, `WriteStale`, `Archive`, `WriteArchived` | requests that write the file they have read, some of them in a later step |
| `Restart`, `Reload`, `RecoverNext`, `RecoverWrite`, `RecoverQueue` | the end of the server, `schedule_recovery`, `_recover_orphaned_sessions` |

What can go wrong is named: an action that disturbs carries a kind out of
`Faults` (an overlapping request, a reload while jobs run, a timeout, a refusal,
a failed turn, an interruption, a notification before the answer it belongs to,
two threads writing one file, an unavailable server at recovery, a restart). Each
kind happens once and `MaxFaults` bounds how many do; properties say after which
kinds they may fail. Without that bound the one finding would hide behind
another, as nearly every promise of the manager falls to some disturbance.

Further abstractions. A file keeps its turns only while they run, as no code
looks up an older one. Only implementation turns ask for permission, once. Other
notifications and polls, which rewrite a file as it is, are taken only when they
can undo somebody's write. That the app-server runs one turn per thread is an
assumption about an external program. Resuming an unknown thread and asking
again belongs to `Accept`. The executor has four workers; the runs use one, and
the proofs any number.

`SharedWorktree` is what the sessions are promised of the worktree: one owner,
a queue in the order of the requests, writing by the owner alone, and a
worktree that passes to the first in the queue that still waits, while nobody
writes. `WorktreeShared` maps owner and queue onto themselves and the running
implementation turns onto `writing`. Who still waits is what the files say
(`waits`), which the abstract module leaves to its environment. It is `excused`
from the serial writes once a request overlapped, a reload recovered a session at work, or an
answer came after its timeout; the order of the queue is kept even then.

### ExperimentQueue

| In the model | In the code |
|---|---|
| `records[e]` | the lifecycle receipts of an experiment, with their keys |
| `entries[job]` | the status of a queue entry; a queue id is derived from experiment and key |
| `seen[c]` | the revision a client has read last |
| `call` | the entry that `enqueue` or `update_queue` has still to write, under the lock |
| `apart`, `departures` | history: experiments whose record moved without their entry, and how many steps did that |
| `Enqueue`, `Control`, `WriteEntry` | `enqueue` and `update_queue`: the record first, the entry next |
| `Transition`, `Read`, `Create` | `transition`, `get`, `create` |
| `Crash` | the process dies, or the second write fails |

A client may send any idempotency key. One that the record has is replayed or
refused and changes nothing, so the key of a client's receipt is a new one, named
by its position. That no client sends a key that a later admission or action
derives from its own is assumed. Experiment sets, definitions, the kind of a job and its resume
token are left out, and so are readers of both files under no lock.

`ExperimentLedger` is what a user is promised: an experiment and its job move
in one step, along the table of transitions and the table of queue actions. In
`ImplementsLedger` a change takes effect when its queue entry is written; until
then the last receipt of the record does not count. Experiments whose record
moved without its entry are `torn`; their jobs keep to the table of actions.

What is promised of a torn experiment is less, and the properties say so:
`QueueAgrees` leaves it out. Its jobs stay unambiguous and backed by receipts, its
receipts stay where they are, and what clients and admissions append to it still
follows the table and the last revision (`ReceiptsFollowTable`,
`ReceiptsAppendOnly`). A queue action on it may leave the table (section 6).

### GoldReference

One selected move of a label batch.

| In the model | In the code |
|---|---|
| `label`, `context` | `LocalLabellingStore`, and the plan, execution and review stores of `context_work.py` |
| `gold[r]`, `cases` | records and case files of `LocalGoldCaseStore`; a reference is named by the order of `prepared_at` |
| `matrices` | the cases of the plans that `compile_matched_plan` saved |
| `today` | the day a case is compiled on, a part of its identity |
| `Annotate`, `ReviewLabel`, `SavePlan`, `PrepareContext`, `ReviewContext` | requests that write one store, under its lock |
| `StartPrepare`, `ReadLabel`, `ReadReference`, `Create` | `prepare_gold_reference`: gate, batch, references and context, then the record |
| `ReviewReference` | the independent review of a reference |
| `StartCompile`, `WriteCase`, `WriteRecord` | the compilation, and `bind_case`: the case file, then the record |
| `StartMatrix`, `SaveMatrix` | the planner: a case, then the references, then the plan |
| `Leave`, `Midnight` | a request is refused or its process dies; the date changes |

Reads of two stores are one step only where no write to the first can cause a
write to the second. What a case contains is one value, as a repeated
compilation compares it as a whole. Batch creation and selection, the proposals
of the study, plan blockers, the refusal of self-review and the eligibility of
evidence are left out.

## 3. Runs, bounds and what they show

| Run | Module and cfg | Shows | Result |
|---|---|---|---|
| artifact_crash | MCArtifactRepository, `ArtifactRepository_crash.cfg` | listed artifacts have their bytes; interrupted calls agree with their resumption; the deadline separates restoring from deleting; refinement of ArtifactLifecycle | holds, 329 051 states |
| artifact_residue | `ArtifactRepository_residue.cfg` | the retry of a cleanup may be refused | violated, see 6 |
| registry_crash | MCRegistryStore, `RegistryStore_crash.cfg` | readable prefix; retries; whole batches; own commits; an unlocked read conflicts only if something moved; refinement of RegistryLifecycle | holds, 1 237 977 states |
| workflow_review | WorkflowCycle, `WorkflowCycle_review.cfg` | the clock waits for the review; a running clock ends; deleted sessions lose their threads | holds, 45 460 states |
| decision_overlap | MCDecisionReview, `DecisionReview_overlap.cfg` | keys act once, answers stay true, refinement of DecisionLedger | holds, 300 841 states |
| studio_jobs | MCStudioCodex, `StudioCodex_jobs.cfg` | the queue is served, writes are serialized, requests are seen, no finished review is shown while a turn writes, jobs end, orphans end after a recovery; refinement of SharedWorktree | holds, 227 604 states |
| studio_writes | `StudioCodex_writes.cfg` | a reload while jobs run leads to two writing turns | violated, see 6 |
| studio_queue | `StudioCodex_queue.cfg` | a failed turn keeps the worktree, and the queue behind it waits | violated, see 6 |
| experiment_restart | MCExperimentQueue, `ExperimentQueue_restart.cfg` | jobs are unambiguous, entries have receipts, record and entry agree unless torn, receipts follow the table and are never lost, old revisions append nothing; refinement of ExperimentLedger | holds, 304 133 states |
| experiment_pause | `ExperimentQueue_pause.cfg` | a job cannot be paused twice | violated, see 6 |
| gold_cases | MCGoldReference, `GoldReference_cases.cfg` | references bind what was accepted; compiled references are accepted, frozen and have their cases; plans use bound cases | holds, 3 185 674 states |
| gold_listed | `GoldReference_listed.cfg` | a case is listed that no reference binds | violated, see 6 |

Every property that holds has a mutant in `PROJECT.json`: a definition of the model
with a plausible mistake, under which the run finds the property violated.

Bounds.

- *Artifacts*: two artifacts, the second naming the first as its parent and
  sharing one of its two blobs, are the smallest instance with a shared blob and
  with a referrer. Three receipts per artifact (`MaxRevision`) reach deletion
  (admit, tombstone, finalize) with its cleanup, and a restoration. A window of one unit with a clock
  that runs one past it has instants before, at and after a deadline.
  Two clients suffice for waiting and for resumption by another: the lock
  allows one call at a time. `MaxWait` is the longest wait for the lock.
- *Registry*: two identities are a batch that can be half written; two
  observations make conflicting sources; two authors make an exact retry and a
  stranger; two writers meet at the flock and one reader takes none.
  `MaxReceipts` 3 reaches publication.
- *Workflow*: two days have a last day and one before; two minutes a day have a
  minute that ends the day and one that does not; two start requests and two
  threads overlap. `MaxCloses` bounds how often a complete day can be closed
  again after a restart (see hazard at `workflow_cycle_runtime.py:404`).
- *Decisions*: two threads overlap, two reviewers with two keys repeat, collide
  and misuse keys; one choice that returns to review and one that is final;
  three reviews leave room for a record to move twice under a request.
- *Studio*: two sessions compete for the worktree. One disturbance at a time,
  of nine kinds, and one turn that a human asks for. With two disturbances the
  invariants hold as well (4 742 851 states, too many to repeat the liveness
  properties on). The tenth kind, a needless recovery, is in studio_writes.
- *Experiments*: two experiments with two keys can take each other's key; one
  departure sets a record and its entry apart, by a death or by a
  transition around the queue. The lock allows one call, so one client suffices.
- *References*: two requests at a time, two annotations, two references, two
  reviews of the evidence and two of the references, two days. Instances with three
  reviews (4 303 616 states) or with two plan revisions
  and one evidence review (4 948 455 states) hold as well.

Deadlock is not checked: callers may stop calling, and the bounds end a chain.
Symmetry is used for clients, actors, authors, writers, keys and the like, in
runs whose temporal properties are safety properties only.

## 4. Fairness

WorkflowCycle and StudioCodex have liveness properties.

*WorkflowCycle.* A live loop thread is a
`while` loop with a 50 ms wait, so its seconds (`Loop`) and its look at the stop
event (`Exit`) are weakly fair: a batch has at most 20 000 seconds, after
which the event is looked at. A request that was accepted runs to its
end on its pool thread (`Request`). No fairness is assumed of callers: nobody
has to start, pause, review or delete. `RunningClockEnds` excuses a failing
decision store, whose exception ends the loop thread while `running` stays true.

*StudioCodex.* Workers, request threads and the reader take their next step
(`WorkerStep`, `RequesterStep`, `ThreadStep`, `Receive`: weak fairness; the
manager's lock is held for one step only). The app-server answers what
it does not refuse (`Accept`) and ends its turns (`TurnCompleted(s,
"completed")`). A human answers requests for permission: strong fairness of
`Respond`, because the page polls in between and its thread is busy every so
often. Nobody has to authorize, ask for turns or reload, and no disturbance has
to happen; `JobsFinish` speaks of sessions that nothing disturbs, and
`RecoveredJobsFinish` of orphans after a restart and a reload.

The stores have no liveness property: nothing in the code retries on its own.

What liveness needs of safety is proved (section 5): a running clock has a thread or a
request that makes one (`RunningIsCarried`), a session at work has a task, a
place in the queue, a turn or a thread and one that ended has none (`JobsCarried`), and the owner of the worktree
uses it (`OwnerWorks`). What remains to TLC is that fair steps come to an end.

## 5. Proofs

Every proof is for every value of the constants that meets the named
assumptions. None of the properties is inductive alone; each module states an
invariant that is (`IInv`, in ExperimentQueue `Inv`), has a lemma per action that it is
preserved, and derives the rest. TLC checked the invariants on
the instances first.

| Module | Theorems | Assumption on the constants |
|---|---|---|
| ArtifactRepository_proofs | `Inductive`, `TypeCorrect`, `BytesSafe`, `ResumptionAgrees`, `DeadlinesHold`, `LifecycleImplemented` | no artifact names itself, `NULL` is no receipt, bounds and window are natural |
| RegistryStore_proofs | `Inductive`, `TypeCorrect`, `PrefixReadable`, `IndexRetries`, `ConflictsHaveCause`, `BatchesWhole`, `AuthorsCommit`, `LifecycleImplemented` | the bound is a state of the lifecycle, `NULL` is no observation |
| WorkflowCycle_proofs | `Inductive`, `TypeCorrect`, `ReviewStopsClock`, `ClockIsCarried` | natural bounds, a day has a minute, `NULL` is no thread |
| DecisionReview_proofs | `Inductive`, `TypeCorrect`, `EachReviewOnce`, `NothingLost`, `LedgerImplemented` | the choices are outcomes |
| StudioCodex_proofs | `Inductive`, `TypeCorrect`, `QueueServed`, `WritesApart`, `WorktreeImplemented` | workers and request threads are distinct, faults are of the kinds there are, `NULL` is no value |
| StudioCodexFiles_proofs | `RequestsShown`, `ReviewsQuiet`, `JobsAreCarried`, `OwnersWork` | the same |
| ExperimentQueue_proofs | `Inductive`, `TypeCorrect`, `NeverQueuedTwice`, `QueueIsBacked`, `Agreement`, `TableFollowed`, `AppendOnly`, `CallsAreNext`, `LedgerImplemented` | `NULL` is no state and no status |
| GoldReference_proofs | `Inductive`, `TypeCorrect`, `BundlesAccepted`, `CompiledAccepted`, `MatricesBound`, `CompiledFrozen` | natural bounds, `NULL` is no record |

What the invariants add, and why it is needed:

- *ArtifactRepository*: one call holds the lock (`Serial`), so what a call
  checked is still true when it commits; what each call may rely on at its step
  (`CallFits`); and `RestoreInTime`, that a restoration interrupted on a
  tombstoned artifact was requested before the deadline, without which a resumed
  restoration, which keeps the old time, could not be shown to respect it. For
  the refinement, only a commit moves a lifecycle state and only a finalization's
  commit, or the unlinking after it, changes what is readable.
- *RegistryStore*: how far the files of an identity may be ahead of the
  committed head (`FilesFit`): receipts by one, anchors and snapshot
  never ahead of the receipts; that a pending index intent still fits the files
  (`IntentAgrees`); what calls and unlocked reads have established at each step.
  The action properties and the refinement follow from what holds at `Commit`.
- *WorkflowCycle*: a running clock has no proposal to wait for
  (`RunningIsCleared`), which every second and every review preserves. That a
  running clock has somebody to move it (`Carried`) needs that proposals are made of losses only.
- *DecisionReview*: what a request has checked outside the lock still holds of
  the record it read (`CallsFit`), which the comparison at the replacement
  makes the record it replaces.
- *StudioCodex*: behind every task, call, notification, late request and running
  turn there is a session file, and each thread carries what its next write
  needs (`Fits`). `NoIdleQueue` is a part of it: a worktree is
  given up only where the queue is searched. Serialized writes need one thing
  more (`Apart`): while no excused disturbance has happened, a session is in one
  place (a task, the queue, one thread or its running turn), and whoever
  writes or asks to owns the worktree. The refinement follows step by step:
  each action takes, waits, gives, writes, stops or leaves the worktree alone.
- *StudioCodexFiles*: everybody writes a file as he read it. `Seen`: a pending
  permission is on file or in the reader's hand, and no copy that a thread or
  the reader holds forgets it. `Quiet`: a writing turn whose file, or a copy
  that will be kept, shows a finished review has its request still to read or
  record it. `JobFits` says which status a session has at each place of its job,
  be it a task, the queue, a thread, a turn or the reader's hand, so the next step
  finds the session as it was dispatched. Every step is shown for the session it
  serves and, by one lemma, for those it leaves alone.
  `JobsCarried` and `OwnerWorks` are stated in the proof module only. They
  exclude seven kinds of disturbance: a request that overlaps, a reload during
  work, a timeout, a refusal, a completion before its request is recorded, a file
  written over another's change, and a restart. Turns may fail and be
  interrupted, and the server may be away (`OwnerWorks` excludes failed and
  interrupted turns too, which is finding 3). `JobsCarried` says that a session in
  a stage of work is driven on, and that one which failed, was interrupted or is
  archived is not; for the latter it needs that nobody archives a session that
  another thread is about to move (`LeftAlone`). A session with a finished review
  or an improved skill waits for a human and is not spoken of. TLC checked both on
  the 3 403 911 states of an instance of studio_jobs with the three disturbances
  that are no exceptions.
- *ExperimentQueue*: what the holder of the lock may rely on between record and
  entry, that no experiment has a job before it is queued, and with these that
  record, entry and table agree. For the refinement, the holder of the lock is
  one admissible step ahead of the entry it has still to write (`CallIsNext`).
- *GoldReference*: what a preparation has read stays accepted
  (`RequestsReviewed`: acceptances of annotations and of evidence reviews are
  never taken back), names are used once (`NamesFresh`), nobody writes between
  the two files of a binding (`OneBinding`), an identity names one case
  (`CasesDistinct`).

Every invariant, action property and refinement that a run shows to hold is
thus a theorem. Only model-checked are the four liveness properties
(`RunningClockEnds`, `CloseStopsThreads`, `JobsFinish`, `RecoveredJobsFinish`),
since the proof system does not handle liveness under fairness. The violations
of section 6 are TLC's.

## 6. Where code and documents disagree

Found by runs; `PROJECT.json` quotes the documents and describes the behaviours.

1. **A cleanup may not be retryable** (`ResidueIsRetryable`). The retry compares
   a token with the references of now; a child admitted after the crash
   changes it, and the retry is refused as long as that child is active. Tombstoning
   the child takes it out of the references (`store.py:553`) and the retry is
   accepted again. `phase2-independent-qa.md:25` asks for "exactly retryable".
2. **Two sessions write to the shared worktree** (`WritesSerialized`). The
   recovery takes a session at work for an orphan when the page is loaded after
   the first jobs have begun.
3. **A queued session never starts** (`QueuedJobsStart`). A mutable turn that
   fails or is interrupted leaves the worktree with its session.
4. **A job is paused once only** (`AllowedActionsAccepted`). The key of the
   second receipt repeats, as `attempt` is never incremented.
5. **A listed case that nothing binds** (`ListedCasesAreBound`). `list_cases`
   returns every case file, and the record that binds one may never follow.

Read in the code while modelling, without a run of its own:

- The recovery window of a tombstone counts from the time of the request, and a
  retry takes that time from the intent: at the commit the window may be
  shorter than the seven days of `store.py:597`, or over.
- A registry read may report a conflict although the registry is intact: readers
  take no flock and list receipts before anchors. `ConflictMeansChange`
  says when.
- `ensure_thread` runs outside the session lock, so overlapping starts may make
  two loop threads. Both obey the review and the deletion, as the run shows.
- The retry of a resolution assigns the session's status from the record once
  more (`workflow_cycle_runtime.py:577`), so a running clock may be shown as
  paused. It goes on running.
- `_record_for_unit` (`gold_case_runtime.py:80`) looks at the latest reference of
  a move, whatever its experiment: the excluded or awaiting reference of another
  experiment no longer answers, a new reference may supersede across
  experiments, and two overlapping preparations make two references.
- `start_turn` (`studio_codex.py:323`) runs a skill revision read-only although
  its prompt asks for edits.
- `start_session` (`studio_codex.py:646`) writes the file of a session before its
  planning turn. When that turn is refused or times out, the session stays in
  `planning` with nothing under way: it cannot be archived, and a repeated
  authorization returns it, until a restart and a recovery. `JobsCarried`
  excludes refusals and timeouts for this reason.
- Two turns may write to the worktree at once after a timeout, whose late turn
  writes although the worktree was released (`studio_codex.py:286`), and after
  overlapping requests of one session, as a refusal releases the worktree of the
  running turn (`studio_codex.py:757`). `WritesSerializedUnlessOverlapped` excuses
  both; they break the promise that finding 2 is about in two other ways.
- Session files are rewritten without the manager's lock by requests
  (`studio_codex.py:1027`) and by the polls of the page (`:1105`), so an update of
  the reader may be lost. `RequestsVisible`, `ReviewedIsQuiet` and `JobsFinish`
  promise nothing after that; owner and queue, which are not read from files, hold.
- A crash in `enqueue` between record and entry (`store.py:267` of
  `risk_experiments`) leaves a queued record without an entry: the retry is
  refused, as is every other admission, and only a `transition` leads on. After a crash in `update_queue` (`store.py:332`) the exact retry meets
  its own receipt and is refused, while another action starts from the entry and
  may leave the table: a record may go from `completed` to `failed`.
- The rationale of a decision is not compared when a resolution is retried.

## 7. What is not modelled

Most of the repository, by lines. The
76 689 lines the map is measured against are mainly analytics over
floating-point series, parsing and validation of data files, HTML and report
rendering, HTTP routing, static catalogues and validated value types:
`labs/agent_studio.py`, `labs/duckdb_server.py`, `labs/capability_studio.py`,
`app.py`, `labs/historical_replay_runtime.py`, `licensed_crsp_compustat.py` and
`monitoring.py` alone are over 24 000. They are sequential functions whose
results depend on numbers and text, with no state of their own that survives a
request; TLC has nothing to interleave there, and a model would repeat the
program. `PROJECT.json` names each part and the reason. The map's share is
therefore small and will stay so.

In the modelled parts:

- Tampering with files, symbolic links and other path checks (the models'
  files are written by the code only); fsync and torn writes (`os.link`,
  `os.replace` and the flock are taken as the operating system specifies them);
  the upgrade of version 1 registry documents; hub publication rules beyond
  "publishable"; the content of manifests, receipts, reports and prices.
- A crash of an artifact operation on one artifact followed by a retry of
  another actor is not in the bounds of TLC (one actor); the theorems cover it.
- Studio: creation and approval of proposals; the death of the app-server alone,
  and the start of two of them; the mode that is not autonomous; a session of
  a proposal created twice by overlapping authorizations (hazard at
  `studio_codex.py:646`).
- Experiments: sets, definitions, unlocked readers of record and entry; the
  other write-once stores, whose atomicity is that of one file.
- The timer that interrupts a slow DuckDB query (`duckdb_server.py:1115`).
- Replay scheduler and execution kernel: sequential and deterministic.

The hazards in `PROJECT.json` that no property covers carry a note.

## 8. What is left to do

| Module | What |
|---|---|
| StudioCodex | the proposal store in front of it; the start of the app-server by two threads and its death |
| ExperimentQueue | readers of record and entry without a lock; the experiment sets |
| GoldReference | batch selection and study proposals in front of it |
| WorkflowCycle | the composition with DecisionReview as one module instead of through the ledger |
