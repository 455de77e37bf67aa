--------------------------- MODULE RegistryStore ----------------------------
(***************************************************************************)
(* LocalRegistryStore of packages/risk_registry: one immutable projection  *)
(* per identity, a write-once stream of lifecycle receipts with integrity  *)
(* anchors, a derived snapshot, journalled index intents, and a catalogue  *)
(* whose atomic replacement commits.                                       *)
(*                                                                         *)
(* A mutation holds the flock from its first check to its end and writes   *)
(* one file per step; its process may die between two files.  Readers take *)
(* no flock, and every request of the workbench builds a store of its own, *)
(* so its thread lock excludes nobody: a read interleaves with a mutation. *)
(*                                                                         *)
(* The lifecycle is a chain (candidate, validated, published, deprecated,  *)
(* retired, archived), so a document with n receipts is in its n-th state  *)
(* and a receipt is told apart by its position and its author.  An author  *)
(* stands for the actor, the rationale, the replacement and the explicit   *)
(* time of a request: what an exact retry repeats.  A request that a check *)
(* refuses, or that is already complete, changes nothing and is left out.  *)
(***************************************************************************)
EXTENDS Naturals, Sequences, FiniteSets

CONSTANTS
    Identities,
    Observations,   \* semantic digests a source definition may be observed at
    Authors,
    Publishable,    \* identities whose source is canonical and compatible
    Writers,        \* threads and processes that mutate the store
    Readers,        \* threads and processes that read it
    NULL,
    MaxReceipts     \* bound: the first states of the lifecycle explored

Lifecycle == <<"candidate", "validated", "published", "deprecated", "retired", "archived">>

ASSUME RegistryAssumption ==
    /\ Publishable \subseteq Identities
    /\ MaxReceipts \in 1..Len(Lifecycle)
    /\ NULL \notin Observations

VARIABLES
    projection, \* projection[i]: the observation in the projection file, or NULL
    events,     \* events[i]: authors of the receipt files, in sequence
    anchors,    \* anchors[i]: sequence numbers of the anchor files
    snapshot,   \* snapshot[i]: receipts in the snapshot file, 0 if there is none
    intents,    \* the index intents in the pending directory
    catalog,    \* catalog[i]: receipts up to the committed head, 0 if not listed
    call,       \* call[w]: the mutation writer w executes
    read        \* read[r]: the read reader r executes

disk == <<projection, events, anchors, snapshot, intents, catalog>>
vars == <<disk, call, read>>

-----------------------------------------------------------------------------
Listed == {i \in Identities : catalog[i] > 0}

\* Single requests name one identity; a bootstrap names several.
Intent == [mode : {"single", "batch"}, author : Authors,
           source : UNION {[S -> Observations] : S \in (SUBSET Identities) \ {{}}}]
Refs(n) == DOMAIN n.source

\* An index call works through items, the identities it adds; a transition has
\* one.  todo are the items left, item the one being written.
Idle == [step |-> "idle"]
Steps == {"intent", "next", "projection", "event", "anchor", "snapshot", "commit"}
Call == [step : Steps, op : {"index", "transition"}, request : Intent \cup {NULL},
         author : Authors, items : SUBSET Identities, todo : SUBSET Identities,
         item : Identities \cup {NULL}]
Read == [step : {"events", "anchors", "snapshot", "conflict"}, item : Identities,
         head : Nat, listed : Nat]

\* Mutant: the pending directory is not consulted.
NoIntents(S) == {}

\* Interrupted index intents that concern some identity of S.
ActiveIntents(S) ==
    {n \in intents : ~(Refs(n) \subseteq Listed) /\ Refs(n) \cap S # {}}

\* _prepare_index_intent and the conflict checks around it.
IndexAccepted(n) ==
    /\ n.mode = "single" => Cardinality(Refs(n)) = 1
    /\ ~(Refs(n) \subseteq Listed)
    /\ \A i \in Refs(n) : projection[i] \in {NULL, n.source[i]}
    /\ ActiveIntents(Refs(n)) \in {{}, {n}}
    /\ \A i \in Refs(n) \ Listed : events[i] \in {<<>>, <<n.author>>}
    /\ ActiveIntents(Refs(n)) = {} =>
         \A i \in Refs(n) \ Listed : projection[i] = NULL /\ events[i] = <<>>

\* Mutant: the last state of the lifecycle is not final.
TransitionAnyState(i, author) ==
    /\ i \in Listed
    /\ Lifecycle[catalog[i] + 1] = "published" => i \in Publishable
    /\ Len(events[i]) > catalog[i] =>
         Len(events[i]) = catalog[i] + 1 /\ events[i][Len(events[i])] = author

\* A receipt past the head makes the next transition an exact retry.
TransitionAccepted(i, author) ==
    /\ i \in Listed
    /\ catalog[i] < MaxReceipts
    /\ Lifecycle[catalog[i] + 1] = "published" => i \in Publishable
    /\ Len(events[i]) > catalog[i] =>
         Len(events[i]) = catalog[i] + 1 /\ events[i][Len(events[i])] = author

-----------------------------------------------------------------------------
\* What a read finds.  n is the head it took from the catalogue, k the number
\* of receipts it listed; the anchors and the snapshot are those on disk now.

\* Mutant: the number of anchors must match the number of receipts.
AnchorsMatch(i, k) == anchors[i] = 1..k

AnchorsFit(i, k) == anchors[i] \subseteq 1..k

PrefixAnchored(i, n) == 1..n \subseteq anchors[i]

\* Mutant: only a snapshot of the committed prefix is accepted.
SnapshotCommitted(i, n, k) == snapshot[i] \in {0, n}

SnapshotFits(i, n, k) == snapshot[i] \in {0, n, k}

\* An uninterrupted get of i returns its committed document.
Readable(i) ==
    LET n == catalog[i]
        k == Len(events[i])
    IN
    /\ projection[i] # NULL
    /\ n <= k
    /\ AnchorsFit(i, k)
    /\ PrefixAnchored(i, n)
    /\ SnapshotFits(i, n, k)

-----------------------------------------------------------------------------
Init ==
    /\ projection = [i \in Identities |-> NULL]
    /\ events = [i \in Identities |-> <<>>]
    /\ anchors = [i \in Identities |-> {}]
    /\ snapshot = [i \in Identities |-> 0]
    /\ intents = {}
    /\ catalog = [i \in Identities |-> 0]
    /\ call = [w \in Writers |-> Idle]
    /\ read = [r \in Readers |-> Idle]

LockFree == \A w \in Writers : call[w] = Idle

Start(w, c) ==
    /\ LockFree
    /\ call[w] = Idle
    /\ call' = [call EXCEPT ![w] = c]
    /\ UNCHANGED <<disk, read>>

StartIndex(w, n) ==
    /\ IndexAccepted(n)
    /\ Start(w, [step |-> "intent", op |-> "index", request |-> n, author |-> n.author,
                 items |-> Refs(n) \ Listed, todo |-> Refs(n) \ Listed, item |-> NULL])

StartTransition(w, i, author) ==
    /\ TransitionAccepted(i, author)
    /\ Start(w, [step |-> "event", op |-> "transition", request |-> NULL, author |-> author,
                 items |-> {i}, todo |-> {i}, item |-> i])

GoTo(w, step) == call' = [call EXCEPT ![w].step = step]

\* An exact retry finds its intent in place.
WriteIntent(w) ==
    /\ call[w].step = "intent"
    /\ intents' = intents \cup {call[w].request}
    /\ GoTo(w, "next")
    /\ UNCHANGED <<projection, events, anchors, snapshot, catalog, read>>

\* The items of a batch are written one after the other, in request order.
NextItem(w, i) ==
    /\ call[w].step = "next"
    /\ i \in call[w].todo
    /\ call' = [call EXCEPT ![w].step = "projection", ![w].item = i]
    /\ UNCHANGED <<disk, read>>

WriteProjection(w) ==
    LET i == call[w].item IN
    /\ call[w].step = "projection"
    /\ projection[i] \in {NULL, call[w].request.source[i]}
    /\ projection' = [projection EXCEPT ![i] = call[w].request.source[i]]
    /\ GoTo(w, "event")
    /\ UNCHANGED <<events, anchors, snapshot, intents, catalog, read>>

\* The receipt past the head: written, or adopted from an interrupted call.
WriteEvent(w) ==
    LET i == call[w].item IN
    /\ call[w].step = "event"
    /\ events' = IF Len(events[i]) = catalog[i]
                 THEN [events EXCEPT ![i] = Append(@, call[w].author)]
                 ELSE events
    /\ GoTo(w, "anchor")
    /\ UNCHANGED <<projection, anchors, snapshot, intents, catalog, read>>

WriteAnchor(w) ==
    LET i == call[w].item IN
    /\ call[w].step = "anchor"
    /\ anchors' = [anchors EXCEPT ![i] = @ \cup {catalog[i] + 1}]
    /\ GoTo(w, "snapshot")
    /\ UNCHANGED <<projection, events, snapshot, intents, catalog, read>>

WriteSnapshot(w) ==
    LET i == call[w].item
        left == call[w].todo \ {i}
    IN
    /\ call[w].step = "snapshot"
    /\ snapshot' = [snapshot EXCEPT ![i] = Len(events[i])]
    /\ call' = [call EXCEPT ![w].todo = left, ![w].item = NULL,
                            ![w].step = IF left = {} THEN "commit" ELSE "next"]
    /\ UNCHANGED <<projection, events, anchors, intents, catalog, read>>

\* Mutant: indexing commits the whole stream of every item of its request.
CommitWholeStream(w) ==
    LET touched == call[w].items \cup
                   IF call[w].op = "index" THEN Refs(call[w].request) ELSE {}
    IN
    /\ call[w].step = "commit"
    /\ catalog' = [i \in Identities |-> IF i \in touched THEN Len(events[i]) ELSE catalog[i]]
    /\ call' = [call EXCEPT ![w] = Idle]
    /\ UNCHANGED <<projection, events, anchors, snapshot, intents, read>>

\* os.replace of the catalogue: every item of the call at once.
Commit(w) ==
    /\ call[w].step = "commit"
    /\ catalog' = [i \in Identities |-> IF i \in call[w].items THEN catalog[i] + 1
                                         ELSE catalog[i]]
    /\ call' = [call EXCEPT ![w] = Idle]
    /\ UNCHANGED <<projection, events, anchors, snapshot, intents, read>>

\* The process of a writer dies, or the operating system fails a write.
Crash(w) ==
    /\ call[w] # Idle
    /\ call' = [call EXCEPT ![w] = Idle]
    /\ UNCHANGED <<disk, read>>

-----------------------------------------------------------------------------
\* get, one directory or file per step, under no lock a writer takes.
ReadCatalog(r, i) ==
    /\ read[r] = Idle
    /\ i \in Listed
    /\ read' = [read EXCEPT ![r] = [step |-> "events", item |-> i,
                                    head |-> catalog[i], listed |-> 0]]
    /\ UNCHANGED <<disk, call>>

ReadEvents(r) ==
    /\ read[r].step = "events"
    /\ read' = [read EXCEPT ![r].step = "anchors", ![r].listed = Len(events[read[r].item])]
    /\ UNCHANGED <<disk, call>>

ReadAnchors(r) ==
    LET q == read[r] IN
    /\ q.step = "anchors"
    /\ read' = [read EXCEPT ![r].step =
                   IF AnchorsFit(q.item, q.listed) THEN "snapshot" ELSE "conflict"]
    /\ UNCHANGED <<disk, call>>

\* The committed prefix is returned, or RegistryConflict is raised.
ReadSnapshot(r) ==
    LET q == read[r] IN
    /\ q.step = "snapshot"
    /\ read' = [read EXCEPT ![r] =
                   IF PrefixAnchored(q.item, q.head) /\ SnapshotFits(q.item, q.head, q.listed)
                   THEN Idle ELSE [q EXCEPT !.step = "conflict"]]
    /\ UNCHANGED <<disk, call>>

ReportConflict(r) ==
    /\ read[r].step = "conflict"
    /\ read' = [read EXCEPT ![r] = Idle]
    /\ UNCHANGED <<disk, call>>

WriterStep(w) ==
    \/ WriteIntent(w)
    \/ \E i \in Identities : NextItem(w, i)
    \/ WriteProjection(w)
    \/ WriteEvent(w)
    \/ WriteAnchor(w)
    \/ WriteSnapshot(w)
    \/ Commit(w)
    \/ Crash(w)

ReaderStep(r) ==
    \/ \E i \in Identities : ReadCatalog(r, i)
    \/ ReadEvents(r)
    \/ ReadAnchors(r)
    \/ ReadSnapshot(r)
    \/ ReportConflict(r)

Next ==
    \/ \E w \in Writers : \/ \E n \in Intent : StartIndex(w, n)
                          \/ \E i \in Identities, a \in Authors : StartTransition(w, i, a)
                          \/ WriterStep(w)
    \/ \E r \in Readers : ReaderStep(r)

Spec == Init /\ [][Next]_vars

-----------------------------------------------------------------------------
TypeOK ==
    /\ projection \in [Identities -> Observations \cup {NULL}]
    /\ events \in [Identities -> Seq(Authors)]
    /\ anchors \in [Identities -> SUBSET Nat]
    /\ snapshot \in [Identities -> Nat]
    /\ intents \subseteq Intent
    /\ catalog \in [Identities -> 0..MaxReceipts]
    /\ call \in [Writers -> Call \cup {Idle}]
    /\ read \in [Readers -> Read \cup {Idle}]

\* Whatever file a writer or a crash stopped at, a read that nothing disturbs
\* returns the committed document of every listed identity: the files past the
\* head never hide the committed prefix.
CommittedPrefixReadable == \A i \in Listed : Readable(i)

\* An interrupted index can always be finished by its exact retry, whatever was
\* indexed or moved through its lifecycle since.
InterruptedIndexRetries ==
    LockFree => \A n \in intents : ~(Refs(n) \subseteq Listed) => IndexAccepted(n)

\* A batch becomes visible as a whole: an identity is listed only together
\* with all the others of every journalled request that names it.
BatchesAppearWhole ==
    [][\A n \in intents : ~(Refs(n) \subseteq Listed) =>
          \/ Refs(n) \subseteq Listed'
          \/ Refs(n) \cap Listed' = Refs(n) \cap Listed]_vars

\* A lifecycle moves one state at a time and only by a transition of the author
\* of the committed receipt: indexing never commits a transition that somebody
\* else left unfinished.
OnlyItsAuthorCommits ==
    [][\A i \in Identities : catalog[i] > 0 /\ catalog'[i] # catalog[i] =>
          /\ catalog'[i] = catalog[i] + 1
          /\ \E w \in Writers : /\ call[w] # Idle
                               /\ call[w].op = "transition"
                               /\ call[w].items = {i}
                               /\ call[w].author = events[i][catalog'[i]]]_vars

\* A read reports a conflict only when a mutation moved the stream or the head
\* since the read began.
ConflictMeansChange ==
    \A r \in Readers : read[r].step = "conflict" =>
        \/ Len(events[read[r].item]) > read[r].listed
        \/ catalog[read[r].item] > read[r].head

-----------------------------------------------------------------------------
\* Every step of the store is one atomic step of RegistryLifecycle or invisible
\* to it: readers see the receipts up to the committed head.
Promise == INSTANCE RegistryLifecycle WITH
    visible <- [i \in Identities |-> SubSeq(events[i], 1, catalog[i])]

ImplementsLifecycle == Promise!Spec
=============================================================================
