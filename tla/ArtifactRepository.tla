------------------------- MODULE ArtifactRepository -------------------------
(***************************************************************************)
(* LocalArtifactRepository of packages/risk_artifacts: content-addressed   *)
(* blobs, one immutable manifest per artifact, an append-only chain of     *)
(* receipts with anchors, and a catalog whose atomic replacement is the    *)
(* commit point of every mutation.                                         *)
(*                                                                         *)
(* A client call captures its time, waits for the repository lock (RLock   *)
(* and flock), checks, and then writes one file per step, holding the lock *)
(* to its end; a call whose checks fail changes nothing:                   *)
(*    admit         intent, blobs, manifest, event, anchor, catalog        *)
(*    the others    intent, event, anchor, catalog (finalize: and unlink)  *)
(* Its process may die before any step; the files written so far stay and  *)
(* the lock is freed.  A later call finds them and must agree with them.   *)
(* Reads stop at the head the catalog names, so one read of the catalog    *)
(* decides what they see, locked or not.                                   *)
(*                                                                         *)
(* A revision is the digest of the head receipt; a chain has one receipt   *)
(* per length, so the number of committed receipts stands for it.  Of the  *)
(* chain only the head and the one file past the head are ever compared.   *)
(***************************************************************************)
EXTENDS Naturals

CONSTANTS
    Artifacts,      \* artifact identities
    Digests,        \* content digests
    Actors,         \* an actor together with its rationale
    Clients,        \* threads and processes calling the repository
    Files,          \* Files[a]: the digests the manifest of a declares
    References,     \* References[a]: parent_artifact_ids and supersedes_artifact_id
    Protected,      \* artifacts that are published or evidence-locked
    Window,         \* RECOVERY_DAYS
    NULL,
    MaxWait,        \* bound on the time a call waits for the lock
    MaxTime,        \* bound on the clock
    MaxRevision     \* bound on the receipts of one artifact

Operations == {"admit", "archive", "restore", "tombstone", "finalize_delete"}

\* until is 0 in a receipt that carries no recovery deadline.
Receipt == [op : Operations, actor : Actors, at : Nat, until : Nat]

ASSUME ArtifactAssumption ==
    /\ Files \in [Artifacts -> SUBSET Digests]
    /\ References \in [Artifacts -> SUBSET Artifacts]
    /\ \A a \in Artifacts : a \notin References[a]
    /\ Protected \subseteq Artifacts
    /\ Window \in Nat
    /\ MaxTime \in Nat
    /\ MaxRevision \in Nat
    /\ MaxWait \in Nat
    /\ NULL \notin Receipt

VARIABLES
    clock,      \* wall-clock time, in the unit of Window
    catalog,    \* catalog[a]: the committed revision and head receipt
    intent,     \* intent[a]: the intent file of the next revision, or NULL
    event,      \* event[a]: the receipt file past the head, or NULL
    anchor,     \* the artifacts whose anchor file past the head exists
    manifests,  \* the artifacts whose manifest file exists
    blobs,      \* the digests whose blob file exists
    call        \* call[c]: the call client c executes under the repository lock

disk == <<catalog, intent, event, anchor, manifests, blobs>>
vars == <<clock, disk, call>>

-----------------------------------------------------------------------------
\* The state a receipt of an operation moves its artifact to.
Target(op) ==
    CASE op = "archive"         -> "archived"
      [] op = "tombstone"       -> "tombstoned"
      [] op = "finalize_delete" -> "deleted"
      [] OTHER                  -> "active"

\* A catalog entry: no receipt before admission, a head receipt ever after.
Entry == [revision : {0}, head : {NULL}] \cup [revision : Nat \ {0}, head : Receipt]

Steps == {"intent", "blobs", "event", "anchor", "catalog", "cleanup"}
Idle == [step |-> "idle"]
Call == [step : Steps, op : Operations, art : Artifacts, actor : Actors, at : Nat]

\* Lifecycle state of an artifact as the catalog records it.
State(a) ==
    IF catalog[a].revision = 0 THEN "absent" ELSE Target(catalog[a].head.op)

Live(a) == State(a) \notin {"absent", "deleted"}
Deadline(a) == catalog[a].head.until

\* verify: every declared file has its bytes.
Verified(a) == Files[a] \subseteq blobs

\* _reverse_references: artifacts that name a, neither deleted nor tombstoned.
Referrers(a) ==
    {b \in Artifacts \ {a} : a \in References[b] /\ State(b) \in {"active", "archived"}}

\* Mutant: a tombstoned artifact stops owning its bytes.
ActiveOwnedDigests(a) ==
    UNION {Files[b] : b \in {x \in Artifacts \ {a} : State(x) \in {"active", "archived"}}}

\* _other_owned_digests: what the artifacts other than a still own.
OtherOwnedDigests(a) == UNION {Files[b] : b \in {x \in Artifacts \ {a} : Live(x)}}

\* Blockers shared by tombstoning and finalization.
Deletable(a) == a \notin Protected /\ Referrers(a) = {} /\ Verified(a)

\* Mutant: a pending intent is resumed by whatever operation comes next.
AnyOperation(a, op, actor) == intent[a] # NULL => intent[a].actor = actor

\* A pending intent must be retried exactly: operation, actor and rationale.
\* The from-state and the reviewed revision agree already, as both are checked
\* against the catalog entry the intent extends.
Resumable(a, op, actor) ==
    intent[a] # NULL => intent[a].op = op /\ intent[a].actor = actor

\* Mutant: finalization forgets the recovery window.
EligibleAnyTime(a, op, at) ==
    CASE op = "admit"     -> State(a) = "absent"
      [] op = "archive"   -> State(a) = "active"
      [] op = "restore"   -> State(a) \in {"archived", "tombstoned"}
      [] op = "tombstone" -> State(a) \in {"active", "archived"} /\ Deletable(a)
      [] OTHER            -> State(a) = "tombstoned" /\ Deletable(a)

\* The lifecycle rule of each operation, read under the lock; at is the time
\* the call captured before it waited for the lock.  The revision a call
\* reviewed must be the current one, and its deletion token embeds the revision
\* and the referrers of the preview: a token is current exactly when the
\* revision is, because the rule wants no referrers.
Eligible(a, op, at) ==
    CASE op = "admit"     -> State(a) = "absent"
      [] op = "archive"   -> State(a) = "active"
      [] op = "restore"   -> \/ State(a) = "archived"
                             \/ State(a) = "tombstoned" /\ at <= Deadline(a)
      [] op = "tombstone" -> State(a) \in {"active", "archived"} /\ Deletable(a)
      [] OTHER            -> /\ State(a) = "tombstoned"
                             /\ at >= Deadline(a)
                             /\ Deletable(a)

\* A completed finalization may be retried exactly, to finish its cleanup.
CleanupAccepted(a, op, actor) ==
    /\ op = "finalize_delete"
    /\ State(a) = "deleted"
    /\ catalog[a].head.actor = actor
    /\ Referrers(a) = {}

\* The receipt a call writes: an intent found on disk fixes its times.
Written(a, op, actor) ==
    [op |-> op, actor |-> actor, at |-> intent[a].at, until |-> intent[a].until]

-----------------------------------------------------------------------------
Init ==
    /\ clock = 0
    /\ catalog = [a \in Artifacts |-> [revision |-> 0, head |-> NULL]]
    /\ intent = [a \in Artifacts |-> NULL]
    /\ event = [a \in Artifacts |-> NULL]
    /\ anchor = {}
    /\ manifests = {}
    /\ blobs = {}
    /\ call = [c \in Clients |-> Idle]

\* Nobody holds the repository lock.
LockFree == \A c \in Clients : call[c] = Idle

Start(c, step, op, a, actor, at) ==
    /\ LockFree
    /\ call[c] = Idle
    /\ at <= clock
    /\ clock <= at + MaxWait
    /\ call' = [call EXCEPT ![c] = [step |-> step, op |-> op, art |-> a,
                                    actor |-> actor, at |-> at]]
    /\ UNCHANGED <<clock, disk>>

\* A call gets the lock and its checks pass.  MaxRevision bounds the chain.
Enter(c, op, a, actor, at) ==
    /\ catalog[a].revision < MaxRevision
    /\ Eligible(a, op, at)
    /\ Resumable(a, op, actor)
    /\ Start(c, "intent", op, a, actor, at)

\* A finalization of a deleted artifact goes straight to its cleanup.
EnterCleanup(c, op, a, actor, at) ==
    /\ CleanupAccepted(a, op, actor)
    /\ Start(c, "cleanup", op, a, actor, at)

\* Mutant: the intent of an operation without a window has no deadline field.
UntypedIntent(c) ==
    LET r == call[c] IN
    /\ r.step = "intent"
    /\ intent' = [intent EXCEPT ![r.art] =
                    IF @ # NULL THEN @
                    ELSE [op |-> r.op, actor |-> r.actor, at |-> r.at,
                          until |-> IF r.op = "tombstone" THEN r.at + Window ELSE NULL]]
    /\ call' = [call EXCEPT ![c].step = IF r.op = "admit" THEN "blobs" ELSE "event"]
    /\ UNCHANGED <<clock, catalog, event, anchor, manifests, blobs>>

\* The intent of the next revision: kept when an interrupted call left one.
WriteIntent(c) ==
    LET r == call[c] IN
    /\ r.step = "intent"
    /\ intent' = [intent EXCEPT ![r.art] =
                    IF @ # NULL THEN @
                    ELSE [op |-> r.op, actor |-> r.actor, at |-> r.at,
                          until |-> IF r.op = "tombstone" THEN r.at + Window ELSE 0]]
    /\ call' = [call EXCEPT ![c].step = IF r.op = "admit" THEN "blobs" ELSE "event"]
    /\ UNCHANGED <<clock, catalog, event, anchor, manifests, blobs>>

\* One declared file; a blob that exists is verified and kept.
WriteBlob(c, d) ==
    /\ call[c].step = "blobs"
    /\ d \in Files[call[c].art] \ blobs
    /\ blobs' = blobs \cup {d}
    /\ UNCHANGED <<clock, catalog, intent, event, anchor, manifests, call>>

WriteManifest(c) ==
    /\ call[c].step = "blobs"
    /\ Verified(call[c].art)
    /\ manifests' = manifests \cup {call[c].art}
    /\ call' = [call EXCEPT ![c].step = "event"]
    /\ UNCHANGED <<clock, catalog, intent, event, anchor, blobs>>

\* The receipt past the head; one that exists must be the same receipt.
WriteEvent(c) ==
    LET r == call[c]
        new == Written(r.art, r.op, r.actor)
    IN
    /\ r.step = "event"
    /\ event[r.art] \in {NULL, new}
    /\ event' = [event EXCEPT ![r.art] = new]
    /\ call' = [call EXCEPT ![c].step = "anchor"]
    /\ UNCHANGED <<clock, catalog, intent, anchor, manifests, blobs>>

WriteAnchor(c) ==
    /\ call[c].step = "anchor"
    /\ anchor' = anchor \cup {call[c].art}
    /\ call' = [call EXCEPT ![c].step = "catalog"]
    /\ UNCHANGED <<clock, catalog, intent, event, manifests, blobs>>

\* os.replace of the catalog: the receipt past the head becomes the head.  The
\* intent stays on disk but no later revision looks at it again.
Commit(c) ==
    LET r == call[c] IN
    /\ r.step = "catalog"
    /\ catalog' = [catalog EXCEPT ![r.art] = [revision |-> @.revision + 1,
                                              head |-> event[r.art]]]
    /\ intent' = [intent EXCEPT ![r.art] = NULL]
    /\ event' = [event EXCEPT ![r.art] = NULL]
    /\ anchor' = anchor \ {r.art}
    /\ call' = [call EXCEPT ![c] =
                   IF r.op = "finalize_delete" THEN [r EXCEPT !.step = "cleanup"] ELSE Idle]
    /\ UNCHANGED <<clock, manifests, blobs>>

\* _cleanup_unshared_blobs: one unlink per step.
Unlink(c, d) ==
    /\ call[c].step = "cleanup"
    /\ d \in (Files[call[c].art] \cap blobs) \ OtherOwnedDigests(call[c].art)
    /\ blobs' = blobs \ {d}
    /\ UNCHANGED <<clock, catalog, intent, event, anchor, manifests, call>>

FinishCleanup(c) ==
    /\ call[c].step = "cleanup"
    /\ Files[call[c].art] \cap blobs \subseteq OtherOwnedDigests(call[c].art)
    /\ call' = [call EXCEPT ![c] = Idle]
    /\ UNCHANGED <<clock, disk>>

\* The process of a client dies; the kernel drops its flock.
Crash(c) ==
    /\ call[c] # Idle
    /\ call' = [call EXCEPT ![c] = Idle]
    /\ UNCHANGED <<clock, disk>>

\* Time passes between calls: the file writes of one call are instantaneous in
\* the unit of Window.
Tick ==
    /\ clock < MaxTime
    /\ LockFree
    /\ clock' = clock + 1
    /\ UNCHANGED <<disk, call>>

ClientStep(c) ==
    \/ WriteIntent(c)
    \/ \E d \in Digests : WriteBlob(c, d)
    \/ WriteManifest(c)
    \/ WriteEvent(c)
    \/ WriteAnchor(c)
    \/ Commit(c)
    \/ \E d \in Digests : Unlink(c, d)
    \/ FinishCleanup(c)
    \/ Crash(c)

Next ==
    \/ Tick
    \/ \E c \in Clients, op \in Operations, a \in Artifacts, actor \in Actors, at \in 0..MaxTime :
          \/ Enter(c, op, a, actor, at)
          \/ EnterCleanup(c, op, a, actor, at)
    \/ \E c \in Clients : ClientStep(c)

Spec == Init /\ [][Next]_vars

-----------------------------------------------------------------------------
TypeOK ==
    /\ clock \in Nat
    /\ catalog \in [Artifacts -> Entry]
    /\ intent \in [Artifacts -> Receipt \cup {NULL}]
    /\ event \in [Artifacts -> Receipt \cup {NULL}]
    /\ anchor \subseteq Artifacts
    /\ manifests \subseteq Artifacts
    /\ blobs \subseteq Digests
    /\ call \in [Clients -> Call \cup {Idle}]

\* The catalog never lists an artifact that is not deleted and whose declared
\* bytes or manifest are missing: not while another owner of a shared blob is
\* finalized, not after a crash between any two file writes.
CommittedBytesPresent == \A a \in Artifacts : Live(a) => Verified(a) /\ a \in manifests

\* The files past the head agree whatever crashes produced them: a receipt is
\* the one its intent announced, an anchor has its receipt, so a call that was
\* let past the intent is never refused half-way at the receipt or the anchor.
ResumedCallAgrees ==
    /\ \A a \in Artifacts :
          /\ event[a] # NULL => event[a] = intent[a]
          /\ a \in anchor => event[a] # NULL
    /\ \A c \in Clients : call[c].step \in {"blobs", "event", "anchor", "catalog"} =>
          LET a == call[c].art IN
          /\ intent[a] # NULL
          /\ intent[a] = Written(a, call[c].op, call[c].actor)

\* A tombstoned artifact is finalized no earlier than its recovery deadline,
\* and restored only by a request made no later than it.
DeadlineSeparates ==
    [][\A a \in Artifacts : State(a) = "tombstoned" =>
          /\ State(a)' = "deleted" => clock >= Deadline(a)
          /\ State(a)' = "active" => catalog'[a].head.at <= Deadline(a)]_vars

-----------------------------------------------------------------------------
\* What the repository's documents say of the deletion lifecycle.

\* "A crash after terminal receipt commit must leave final byte cleanup exactly
\* retryable": the retry that finishes an interrupted cleanup is accepted.  It is
\* not while an active artifact, admitted after the crash, names the deleted one.
ResidueIsRetryable ==
    \A a \in Artifacts :
        /\ LockFree
        /\ State(a) = "deleted"
        /\ ~(Files[a] \cap blobs \subseteq OtherOwnedDigests(a))
        => CleanupAccepted(a, "finalize_delete", catalog[a].head.actor)

-----------------------------------------------------------------------------
\* Every step of the repository is one atomic step of ArtifactLifecycle, or
\* invisible to it: an operation happens when the catalog is replaced.
Lifecycle == INSTANCE ArtifactLifecycle WITH
    state    <- [a \in Artifacts |-> State(a)],
    deadline <- [a \in Artifacts |-> IF State(a) = "tombstoned" THEN Deadline(a) ELSE 0],
    readable <- {a \in Artifacts : Live(a) /\ Verified(a)}

ImplementsLifecycle == Lifecycle!Spec
=============================================================================
