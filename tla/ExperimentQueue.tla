-------------------------- MODULE ExperimentQueue --------------------------
(***************************************************************************)
(* The experiment store and its queue (risk_experiments/store.py).         *)
(*                                                                         *)
(* An experiment's record is a chain of lifecycle receipts in one file; a  *)
(* queue entry is a file of its own.  enqueue and update_queue write the   *)
(* record and then the entry, one atomic replacement each, under a lock    *)
(* that the end of the process frees: a process may die between the two.   *)
(* A client names the revision it has read; a reader takes no lock.        *)
(***************************************************************************)
EXTENDS Naturals, Sequences

CONSTANTS
    Experiments,
    Keys,           \* idempotency keys of the calls of enqueue
    Clients,
    NULL,
    MaxDepartures   \* bound: steps that move a record without its entry

ASSUME BoundAssumption == MaxDepartures \in Nat

TRANSITIONS == [
    draft     |-> {"validated"},
    validated |-> {"ready"},
    ready     |-> {"queued", "cancelled"},
    queued    |-> {"running", "cancelled"},
    running   |-> {"paused", "completed", "failed", "cancelled"},
    paused    |-> {"running", "cancelled"},
    completed |-> {"reviewed"},
    failed    |-> {"reviewed"},
    cancelled |-> {"reviewed"},
    reviewed  |-> {"archived"},
    archived  |-> {}]

States == DOMAIN TRANSITIONS
Queued == {"queued", "running", "paused"}
Statuses == Queued \cup {"completed", "failed", "cancelled"}

\* The states from which a control action is allowed, and the one it leads to;
\* entries and records name them alike but for paused_for_decision.
AllowedFrom == [
    start    |-> {"queued"},
    pause    |-> {"running"},
    resume   |-> {"paused"},
    cancel   |-> {"queued", "running", "paused"},
    complete |-> {"running"},
    fail     |-> {"running"}]

LeadsTo == [start |-> "running", pause |-> "paused", resume |-> "running",
            cancel |-> "cancelled", complete |-> "completed",
            fail |-> "failed"]

Actions == DOMAIN AllowedFrom

VARIABLES
    records,    \* the receipts of each experiment, none before it is created
    entries,    \* the status of each queue entry
    seen,       \* the revision that each client has read last
    call,       \* the entry that the holder of the lock has still to write
    departures,
    apart       \* experiments whose record moved without their queue entry

vars == <<records, entries, seen, call, departures, apart>>

\* A queue id is derived from the experiment and the idempotency key.
Jobs == Experiments \X Keys
Of(job) == job[1]
Calls == [job : Jobs, status : Statuses]

ASSUME NullAssumption == NULL \notin States \cup Statuses \cup Calls

\* The idempotency key of a receipt: a client's, that of an admission or of a
\* control action.  A client may send any key, but one that the record has is
\* replayed or refused and changes nothing, so a client's is a new one: it has
\* the position of its receipt for a name.  That no client sends a key that a
\* later admission or action needs is assumed.
Requested(i) == [by |-> "client", key |-> i]
Admission(job) == [by |-> "admission", key |-> job[2]]
Controlled(job, action) == [by |-> action, key |-> job[2]]

ReceiptKeys == [by : {"client"}, key : Nat]
                 \cup [by : {"admission"} \cup Actions, key : Keys]
Receipts == [to : States, key : ReceiptKeys]

State(e) == records[e][Len(records[e])].to
Exists(e) == records[e] # <<>>

\* What ExperimentRecord validates of an appended receipt: its key is new.
Fresh(e, key) == \A i \in DOMAIN records[e] : records[e][i].key # key

Append1(e, state, key) ==
    [records EXCEPT ![e] = Append(@, [to |-> state, key |-> key])]

Depart(e) ==
    /\ departures < MaxDepartures
    /\ departures' = departures + 1
    /\ apart' = apart \cup {e}

TypeOK ==
    /\ records \in [Experiments -> Seq(Receipts)]
    /\ entries \in [Jobs -> Statuses \cup {NULL}]
    /\ seen \in [Clients -> [experiment : Experiments, revision : Nat]
                              \cup {NULL}]
    /\ call \in Calls \cup {NULL}
    /\ departures \in 0..MaxDepartures
    /\ apart \subseteq Experiments

Init ==
    /\ records = [e \in Experiments |-> <<>>]
    /\ entries = [job \in Jobs |-> NULL]
    /\ seen = [c \in Clients |-> NULL]
    /\ call = NULL
    /\ departures = 0
    /\ apart = {}

-----------------------------------------------------------------------------

Create(e) ==
    /\ call = NULL
    /\ ~Exists(e)
    /\ records' = Append1(e, "draft", Requested(1))
    /\ UNCHANGED <<entries, seen, call, departures, apart>>

\* get, and what every call returns.
Read(c, e) ==
    /\ Exists(e)
    /\ seen' = [seen EXCEPT ![c] =
                  [experiment |-> e, revision |-> Len(records[e])]]
    /\ UNCHANGED <<records, entries, call, departures, apart>>

UpToDate(c, e) ==
    seen[c] = [experiment |-> e, revision |-> Len(records[e])]

\* Mutant: the receipt is appended to the record that the client has read.
TransitionOfRead(c, e, state) ==
    /\ call = NULL
    /\ seen[c] # NULL /\ seen[c].experiment = e
    /\ LET read == SubSeq(records[e], 1, seen[c].revision) IN
       /\ state \in TRANSITIONS[read[Len(read)].to] \ Queued
       /\ read[Len(read)].to \notin Queued
       /\ records' = [records EXCEPT ![e] =
                         Append(read, [to |-> state,
                                      key |-> Requested(Len(read) + 1)])]
    /\ UNCHANGED <<entries, seen, call, departures, apart>>

\* transition.  It does not look at the queue.
Transition(c, e, state) ==
    /\ call = NULL
    /\ Exists(e)
    /\ UpToDate(c, e)
    /\ state \in TRANSITIONS[State(e)]
    /\ records' = Append1(e, state, Requested(Len(records[e]) + 1))
    /\ IF {State(e), state} \cap Queued = {}
       THEN UNCHANGED <<departures, apart>>
       ELSE Depart(e)
    /\ UNCHANGED <<entries, seen, call>>

\* Mutant: admission looks at the key and not at the state.
EnqueueAnyState(c, job) ==
    /\ call = NULL
    /\ Exists(Of(job))
    /\ \A e \in Experiments : entries[<<e, job[2]>>] = NULL
    /\ UpToDate(c, Of(job))
    /\ records' = Append1(Of(job), "queued", Admission(job))
    /\ call' = [job |-> job, status |-> "queued"]
    /\ UNCHANGED <<entries, seen, departures, apart>>

\* enqueue, up to the record.
Enqueue(c, job) ==
    /\ call = NULL
    /\ Exists(Of(job))
    /\ \A e \in Experiments : entries[<<e, job[2]>>] = NULL
    /\ State(Of(job)) = "ready"
    /\ UpToDate(c, Of(job))
    /\ records' = Append1(Of(job), "queued", Admission(job))
    /\ call' = [job |-> job, status |-> "queued"]
    /\ UNCHANGED <<entries, seen, departures, apart>>

\* Mutant: an action is accepted in every status that it does not lead to.
AcceptedAnyStatus(job, action) ==
    /\ entries[job] \notin {NULL, LeadsTo[action]}
    /\ Fresh(Of(job), Controlled(job, action))

\* update_queue, up to the record.  The table speaks of the entry only; the
\* record takes a receipt from whatever state it is in, once for each action.
Accepted(job, action) ==
    /\ entries[job] \in AllowedFrom[action]
    /\ Fresh(Of(job), Controlled(job, action))

\* Mutant: the entry is written first.
ControlEntryFirst(job, action) ==
    /\ call = NULL
    /\ Accepted(job, action)
    /\ entries' = [entries EXCEPT ![job] = LeadsTo[action]]
    /\ call' = [job |-> job, status |-> LeadsTo[action]]
    /\ UNCHANGED <<records, seen, departures, apart>>

\* Mutant: nothing but cancellation and completion is written to the entry.
ControlEndsOnly(job, action) ==
    /\ call = NULL
    /\ Accepted(job, action)
    /\ records' = Append1(Of(job), LeadsTo[action], Controlled(job, action))
    /\ call' = IF LeadsTo[action] \in Queued THEN NULL
               ELSE [job |-> job, status |-> LeadsTo[action]]
    /\ UNCHANGED <<entries, seen, departures, apart>>

\* Mutant: the entry takes the name of the action for its status.
ControlNamesAction(job, action) ==
    /\ call = NULL
    /\ Accepted(job, action)
    /\ records' = Append1(Of(job), LeadsTo[action], Controlled(job, action))
    /\ call' = [job |-> job, status |-> action]
    /\ UNCHANGED <<entries, seen, departures, apart>>

Control(job, action) ==
    /\ call = NULL
    /\ Accepted(job, action)
    /\ records' = Append1(Of(job), LeadsTo[action], Controlled(job, action))
    /\ call' = [job |-> job, status |-> LeadsTo[action]]
    /\ UNCHANGED <<entries, seen, departures, apart>>

\* The second file of enqueue and update_queue.
WriteEntry ==
    /\ call # NULL
    /\ entries' = [entries EXCEPT ![call.job] = call.status]
    /\ call' = NULL
    /\ UNCHANGED <<records, seen, departures, apart>>

\* The process dies, or the second file cannot be written.
Crash ==
    /\ call # NULL
    /\ Depart(Of(call.job))
    /\ call' = NULL
    /\ UNCHANGED <<records, entries, seen>>

Next ==
    \/ \E e \in Experiments : Create(e)
    \/ \E c \in Clients, e \in Experiments :
         Read(c, e) \/ \E state \in States : Transition(c, e, state)
    \/ \E c \in Clients, job \in Jobs : Enqueue(c, job)
    \/ \E job \in Jobs, action \in Actions : Control(job, action)
    \/ WriteEntry
    \/ Crash

Spec == Init /\ [][Next]_vars

-----------------------------------------------------------------------------

Busy(e) == call # NULL /\ Of(call.job) = e

\* Of the jobs of one experiment, and of the jobs with one idempotency key,
\* there is never more than one, whatever dies between two files and whatever
\* clients ask with stale revisions.
JobsUnambiguous ==
    \A p, q \in Jobs :
        /\ entries[p] # NULL /\ entries[q] # NULL
        /\ p[1] = q[1] \/ p[2] = q[2]
        => p = q

\* The queue never claims what no receipt shows: an entry's admission, and the
\* action that led to its status, are in the record of its experiment, though a
\* process may die between the two files or the record be moved directly.
EntriesHaveReceipts ==
    \A job \in Jobs : entries[job] # NULL =>
        \E i \in DOMAIN records[Of(job)] :
            /\ records[Of(job)][i].to = entries[job]
            /\ records[Of(job)][i].key \in
                  {Admission(job)} \cup {Controlled(job, a) : a \in Actions}

Ended == {"completed", "failed", "cancelled"}

\* Until a process dies between the two files, or a client moves the record by
\* itself, queue and record say the same between calls: what is queued, running
\* or paused in one is so in the other, and what ended does not go on.
QueueAgrees ==
    \A e \in Experiments \ apart : ~Busy(e) =>
        /\ \A key \in Keys : entries[<<e, key>>] # NULL =>
              \/ entries[<<e, key>>] = State(e)
              \/ entries[<<e, key>>] \in Ended
                    /\ State(e) \in {"reviewed", "archived"}
        /\ Exists(e) /\ State(e) \in Queued =>
              \E key \in Keys : entries[<<e, key>>] # NULL

\* What clients and admissions append follows the table of transitions, always:
\* after a crash and after a transition that the queue did not see as well.
\* update_queue does not consult the table, yet its receipts follow it too, until
\* the record has moved without its entry; from then on they need not.
ReceiptsFollowTable ==
    \A e \in Experiments : \A i \in DOMAIN records[e] :
        i > 1 => \/ records[e][i].to \in TRANSITIONS[records[e][i - 1].to]
                 \/ e \in apart /\ records[e][i].key.by \in Actions

\* No update is lost and no receipt rewritten, and what a transition or an
\* admission appends to a record was asked for by a client that has read its
\* last revision: one that names an older revision is refused.
ReceiptsAppendOnly ==
    [][\A e \in Experiments :
         /\ Len(records'[e]) >= Len(records[e])
         /\ \A i \in DOMAIN records[e] : records'[e][i] = records[e][i]
         /\ \A i \in DOMAIN records'[e] \ DOMAIN records[e] :
              records'[e][i].key.by \in {"client", "admission"} =>
                ~Exists(e) \/ \E c \in Clients : UpToDate(c, e)]_records

\* What a user is promised takes effect with the queue entry: until then the
\* receipt that announces it does not count.
Settled(e) ==
    LET pending == IF Busy(e) THEN 1 ELSE 0
    IN  IF Exists(e) THEN records[e][Len(records[e]) - pending].to ELSE NULL

Ledger == INSTANCE ExperimentLedger
            WITH state <- [e \in Experiments |-> Settled(e)],
                 jobs <- entries, torn <- apart

\* The two files of enqueue and update_queue, a process that dies in between and
\* clients with old revisions look like atomic moves of experiment and job
\* along the two tables, but for the experiments that were set apart.
ImplementsLedger == Ledger!Spec

\* Every action that the table of update_queue allows for a job is accepted:
\* what the workplan lists for a restart-safe token.
AllowedActionsAccepted ==
    call = NULL =>
        \A job \in Jobs, action \in Actions :
            entries[job] \in AllowedFrom[action] => Accepted(job, action)

=============================================================================
