-------------------------- MODULE ExperimentLedger --------------------------
(***************************************************************************)
(* What a user of the experiment store is promised: an experiment and its  *)
(* job move together, in one step, along the table of transitions.  No     *)
(* files, receipts, revisions or locks.                                    *)
(*                                                                         *)
(* An experiment may be torn from its job, by a death between two files or *)
(* by a client that moves it past the queue.  Its job keeps to the actions *)
(* of the queue even then.                                                 *)
(***************************************************************************)

CONSTANTS
    Experiments, Keys, NULL,
    TRANSITIONS,    \* the states an experiment may take from each state
    Queued,         \* the states in which the queue is responsible for it
    Actions,
    AllowedFrom,    \* the statuses of a job from which each action is allowed
    LeadsTo         \* and the status it leads to

VARIABLES
    state,      \* of each experiment
    jobs,       \* the status of each job
    torn        \* experiments that moved without their job

ledger == <<state, jobs, torn>>

Init ==
    /\ state = [e \in Experiments |-> NULL]
    /\ jobs = [job \in Experiments \X Keys |-> NULL]
    /\ torn = {}

Create(e) ==
    /\ state[e] = NULL
    /\ state' = [state EXCEPT ![e] = "draft"]
    /\ UNCHANGED <<jobs, torn>>

Move(e, s) ==
    /\ state[e] # NULL
    /\ s \in TRANSITIONS[state[e]]
    /\ {state[e], s} \cap Queued = {}
    /\ state' = [state EXCEPT ![e] = s]
    /\ UNCHANGED <<jobs, torn>>

Both(job, status) ==
    /\ state' = [state EXCEPT ![job[1]] = status]
    /\ jobs' = [jobs EXCEPT ![job] = status]
    /\ UNCHANGED torn

\* The only job of its experiment and of its key.
Admit(job) ==
    /\ state[job[1]] = "ready"
    /\ \A p \in Experiments \X Keys :
         p[1] = job[1] \/ p[2] = job[2] => jobs[p] = NULL
    /\ Both(job, "queued")

Act(job, action) ==
    /\ jobs[job] \in AllowedFrom[action]
    /\ job[1] \in torn \/ state[job[1]] = jobs[job]
    /\ Both(job, LeadsTo[action])

Tear(e, s) ==
    /\ state[e] # NULL
    /\ e \in torn \/ s \in TRANSITIONS[state[e]]
    /\ state' = [state EXCEPT ![e] = s]
    /\ torn' = torn \cup {e}
    /\ UNCHANGED jobs

Next ==
    \/ \E e \in Experiments :
         Create(e) \/ \E s \in DOMAIN TRANSITIONS : Move(e, s) \/ Tear(e, s)
    \/ \E job \in Experiments \X Keys :
         Admit(job) \/ \E action \in Actions : Act(job, action)

Spec == Init /\ [][Next]_ledger
=============================================================================
