------------------------- MODULE ArtifactLifecycle --------------------------
(***************************************************************************)
(* What the artifact repository promises: an artifact is admitted once,    *)
(* moves between active and archived, is tombstoned with a deadline, and   *)
(* is then restored or, from the deadline on, deleted for ever; its bytes  *)
(* are readable at every moment from admission to deletion.  Every         *)
(* operation is one atomic step: no files, locks, intents or crashes.      *)
(***************************************************************************)
EXTENDS Naturals

CONSTANTS Artifacts, References, Protected, Window

VARIABLES
    clock,
    state,      \* state[a]: "absent" or the lifecycle state
    deadline,   \* deadline[a]: end of the recovery window of a tombstone, else 0
    readable    \* the artifacts all of whose bytes can be read

vars == <<clock, state, deadline, readable>>

\* A deletion step needs an unprotected artifact no active artifact names.
Deletable(a) ==
    /\ a \notin Protected
    /\ \A b \in Artifacts \ {a} : a \in References[b] => state[b] \notin {"active", "archived"}

Init ==
    /\ clock = 0
    /\ state = [a \in Artifacts |-> "absent"]
    /\ deadline = [a \in Artifacts |-> 0]
    /\ readable = {}

Move(a, from, to) ==
    /\ state[a] \in from
    /\ state' = [state EXCEPT ![a] = to]
    /\ UNCHANGED clock

Admit(a) ==
    /\ Move(a, {"absent"}, "active")
    /\ readable' = readable \cup {a}
    /\ UNCHANGED deadline

Archive(a) ==
    /\ Move(a, {"active"}, "archived")
    /\ UNCHANGED <<deadline, readable>>

Restore(a) ==
    /\ Move(a, {"archived", "tombstoned"}, "active")
    /\ deadline' = [deadline EXCEPT ![a] = 0]
    /\ UNCHANGED readable

\* The window counts from when the operation was first requested.
Tombstone(a) ==
    /\ Deletable(a)
    /\ Move(a, {"active", "archived"}, "tombstoned")
    /\ \E at \in 0..clock : deadline' = [deadline EXCEPT ![a] = at + Window]
    /\ UNCHANGED readable

FinalizeDelete(a) ==
    /\ Deletable(a)
    /\ clock >= deadline[a]
    /\ Move(a, {"tombstoned"}, "deleted")
    /\ deadline' = [deadline EXCEPT ![a] = 0]
    /\ readable' = readable \ {a}

Tick ==
    /\ clock' = clock + 1
    /\ UNCHANGED <<state, deadline, readable>>

Next ==
    \/ Tick
    \/ \E a \in Artifacts :
          \/ Admit(a)
          \/ Archive(a)
          \/ Restore(a)
          \/ Tombstone(a)
          \/ FinalizeDelete(a)

Spec == Init /\ [][Next]_vars
=============================================================================
