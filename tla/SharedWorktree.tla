--------------------------- MODULE SharedWorktree ---------------------------
(***************************************************************************)
(* What the Studio promises of the worktree that its sessions share: one   *)
(* owner at a time, sessions that wait in a queue, each once, writing by   *)
(* the owner alone, and a worktree that goes to the first session that     *)
(* still waits, when nobody writes.  No turns, files, threads or faults.   *)
(*                                                                         *)
(* Whoever waits may give up, at any time.  Once the promise is excused,   *)
(* anybody may write; the queue is still kept.                             *)
(***************************************************************************)
EXTENDS Naturals, Sequences

CONSTANTS Sessions, NULL

VARIABLES owner,    \* who may write
          queue,    \* who asked for the worktree, in this order
          writing,  \* who does write
          waits,    \* who has not given up: the environment decides
          excused   \* whether something happened that is no fault of the owner

state == <<owner, queue, writing, excused>>

Init == owner = NULL /\ queue = <<>> /\ writing = {} /\ ~excused

InQueue(s) == \E i \in DOMAIN queue : queue[i] = s

Take(s) ==
    /\ owner \in {NULL, s}
    /\ owner' = s
    /\ UNCHANGED <<queue, writing, excused>>

Wait(s) ==
    /\ owner \notin {NULL, s}
    /\ ~InQueue(s)
    /\ queue' = Append(queue, s)
    /\ UNCHANGED <<owner, writing, excused>>

\* The worktree passes to the first in the queue that still waits.
Pass(s) ==
    /\ owner \in {NULL, s}
    /\ excused \/ writing' = {}
    /\ \/ /\ \A i \in DOMAIN queue : queue[i] \notin waits'
          /\ owner' = NULL
          /\ queue' = <<>>
       \/ \E i \in DOMAIN queue :
            /\ queue[i] \in waits'
            /\ \A j \in DOMAIN queue : queue[j] \in waits' => i <= j
            /\ owner' = queue[i]
            /\ queue' = SubSeq(queue, i + 1, Len(queue))

Give(s) == Pass(s) /\ UNCHANGED <<writing, excused>>

Write(s) ==
    /\ excused \/ (owner = s /\ writing = {})
    /\ writing' = writing \cup {s}
    /\ UNCHANGED <<owner, queue, excused>>

\* Who has written may keep the worktree or pass it on.
Stop(s) ==
    /\ s \in writing
    /\ writing' = writing \ {s}
    /\ Pass(s) \/ UNCHANGED <<owner, queue>>
    /\ UNCHANGED excused

Restart == owner' = NULL /\ queue' = <<>> /\ writing' = {} /\ UNCHANGED excused

Excuse == excused' /\ UNCHANGED <<owner, queue, writing>>

Next ==
    \/ \E s \in Sessions : Take(s) \/ Wait(s) \/ Give(s) \/ Write(s) \/ Stop(s)
    \/ Restart
    \/ Excuse

Spec == Init /\ [][Next]_state
=============================================================================
