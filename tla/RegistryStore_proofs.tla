------------------------ MODULE RegistryStore_proofs ------------------------
(***************************************************************************)
(* Proofs about RegistryStore, for every set of identities, observations,  *)
(* authors, writers and readers and every bound: its invariants and action *)
(* properties, and that it implements RegistryLifecycle.                   *)
(***************************************************************************)
EXTENDS RegistryStore, SequenceTheorems, TLAPS

\* The flock: one mutation at a time.
Serial == \A v, w \in Writers : call[v] # Idle /\ call[w] # Idle => v = w

\* The files of an identity: at most one receipt past the committed head, and
\* neither anchors nor the snapshot ahead of the receipts.
FilesFit(i) ==
    /\ Len(events[i]) \in {catalog[i], catalog[i] + 1}
    /\ 1..catalog[i] \subseteq anchors[i]
    /\ anchors[i] \subseteq 1..Len(events[i])
    /\ snapshot[i] \in {0, catalog[i], Len(events[i])}
    /\ events[i] # <<>> => projection[i] # NULL

\* An interrupted index request may be taken up again.
IntentAgrees(n) ==
    /\ n.mode = "single" => Cardinality(Refs(n)) = 1
    /\ ~(Refs(n) \subseteq Listed) =>
         /\ \A i \in Refs(n) : projection[i] \in {NULL, n.source[i]}
         /\ \A i \in Refs(n) \ Listed : events[i] \in {<<>>, <<n.author>>}
         /\ ActiveIntents(Refs(n)) \subseteq {n}

\* The receipt past the head is the one of the call; all of its files are there.
Written(i, author) ==
    /\ Len(events[i]) = catalog[i] + 1
    /\ events[i][catalog[i] + 1] = author

Staged(i, author) ==
    /\ Written(i, author)
    /\ catalog[i] + 1 \in anchors[i]
    /\ snapshot[i] = catalog[i] + 1

\* What a call may rely on between two files: as an index request, ...
IndexFits(w) ==
    LET n == call[w].request IN
    call[w].op = "index" =>
        /\ n \in Intent
        /\ n.author = call[w].author
        /\ n.mode = "single" => Cardinality(Refs(n)) = 1
        /\ call[w].items = Refs(n) \ Listed
        /\ call[w].step # "intent" => n \in intents
        /\ ActiveIntents(Refs(n)) \subseteq {n}
        /\ \A i \in Refs(n) : projection[i] \in {NULL, n.source[i]}
        /\ \A i \in call[w].items : events[i] \in {<<>>, <<n.author>>}

\* ... as a transition, ...
TransitionFits(w) ==
    call[w].op = "transition" =>
        /\ call[w].step \notin {"intent", "next", "projection"}
        /\ \E i \in Identities :
             /\ call[w].items = {i}
             /\ catalog[i] \in 1..(MaxReceipts - 1)
             /\ Lifecycle[catalog[i] + 1] = "published" => i \in Publishable
             /\ Len(events[i]) > catalog[i] => Written(i, call[w].author)

\* ... and at its step.
StepFits(w) ==
    LET c == call[w] IN
    /\ c.items # {}
    /\ c.todo \subseteq c.items
    /\ c.step \in {"projection", "event", "anchor", "snapshot"} => c.item \in c.todo
    /\ c.step = "event" => projection[c.item] # NULL
    /\ c.step \in {"anchor", "snapshot"} => Written(c.item, c.author)
    /\ c.step = "snapshot" => catalog[c.item] + 1 \in anchors[c.item]
    /\ c.step = "commit" => c.todo = {}
    /\ \A i \in c.items \ c.todo : Staged(i, c.author)

CallFits(w) == call[w] # Idle => IndexFits(w) /\ TransitionFits(w) /\ StepFits(w)

\* What a read has seen is never ahead of the files.
ReadFits(r) ==
    /\ read[r].step \in {"events", "anchors", "snapshot"} =>
         read[r].head <= catalog[read[r].item]
    /\ read[r].step \in {"anchors", "snapshot"} =>
         read[r].listed <= Len(events[read[r].item])
    /\ read[r].step = "conflict" =>
         \/ Len(events[read[r].item]) > read[r].listed
         \/ catalog[read[r].item] > read[r].head

FilesInv == \A i \in Identities : FilesFit(i)
IntentsInv == \A n \in intents : IntentAgrees(n)
CallsInv == \A w \in Writers : CallFits(w)
ReadsInv == \A r \in Readers : ReadFits(r)

IInv == TypeOK /\ Serial /\ FilesInv /\ IntentsInv /\ CallsInv /\ ReadsInv

-----------------------------------------------------------------------------
\* A call that is not idle, and its parts.
LEMMA CallTyped ==
    ASSUME TypeOK, NEW w \in Writers, call[w] # Idle
    PROVE  /\ call[w] \in Call
           /\ call[w].step \in Steps
           /\ call[w].op \in {"index", "transition"}
           /\ call[w].author \in Authors
           /\ call[w].items \subseteq Identities
           /\ call[w].todo \subseteq Identities
<1>1. call[w] \in Call
  BY DEF TypeOK
<1>. QED
  BY <1>1 DEF Call

LEMMA RefsTyped == \A n \in Intent : Refs(n) \subseteq Identities /\ Refs(n) # {}
                                      /\ \A i \in Refs(n) : n.source[i] \in Observations
  BY DEF Intent, Refs

\* A read that is not idle, and its parts.
LEMMA ReadTyped ==
    ASSUME TypeOK, NEW r \in Readers, read[r].step # "idle"
    PROVE  /\ read[r] \in Read
           /\ read[r].item \in Identities
           /\ read[r].head \in Nat /\ read[r].listed \in Nat
<1>1. read[r] \in Read
  BY DEF TypeOK, Idle
<1>. QED
  BY <1>1 DEF Read

\* Reads keep fitting while heads and receipts only grow.
LEMMA ReadsKept ==
    ASSUME TypeOK, ReadsInv, read' = read,
           \A i \in Identities : /\ catalog'[i] \in Nat /\ catalog[i] <= catalog'[i]
                                 /\ Len(events'[i]) \in Nat
                                 /\ Len(events[i]) <= Len(events'[i])
    PROVE  ReadsInv'
<1>. SUFFICES ASSUME NEW r \in Readers PROVE ReadFits(r)'
  BY DEF ReadsInv
<1>1. CASE read[r].step = "idle"
  BY <1>1 DEF ReadFits
<1>2. CASE read[r].step # "idle"
  <2>1. read[r].item \in Identities /\ read[r].head \in Nat /\ read[r].listed \in Nat
    BY <1>2, ReadTyped
  <2>2. catalog[read[r].item] \in Nat /\ Len(events[read[r].item]) \in Nat
    BY <2>1 DEF TypeOK
  <2>3. ReadFits(r)
    BY DEF ReadsInv
  <2>. QED
    BY <2>1, <2>2, <2>3 DEF ReadFits
<1>. QED
  BY <1>1, <1>2

\* The call that works is the only one: the others have nothing to keep.
LEMMA OneCall ==
    ASSUME TypeOK, Serial, NEW w \in Writers, NEW c,
           call[w] # Idle \/ LockFree, call' = [call EXCEPT ![w] = c]
    PROVE  /\ Serial'
           /\ CallFits(w)' => CallsInv'
           /\ call'[w] = c
<1>1. \A v \in Writers : call'[v] = IF v = w THEN c ELSE call[v]
  BY DEF TypeOK
<1>2. \A v \in Writers \ {w} : call[v] = Idle
  BY DEF Serial, LockFree
<1>3. \A v \in Writers \ {w} : call'[v] = Idle
  BY <1>1, <1>2
<1>. QED
  BY <1>1, <1>3 DEF Serial, CallsInv, CallFits

-----------------------------------------------------------------------------
LEMMA InitIInv == Init => IInv
<1>. SUFFICES ASSUME Init PROVE IInv
  OBVIOUS
<1>1. TypeOK
  BY RegistryAssumption DEF Init, TypeOK
<1>2. Serial /\ CallsInv
  BY DEF Init, Serial, CallsInv, CallFits
<1>3. FilesInv
  BY DEF Init, FilesInv, FilesFit
<1>4. IntentsInv
  BY DEF Init, IntentsInv
<1>5. ReadsInv
  BY DEF Init, ReadsInv, ReadFits, Idle
<1>. QED
  BY <1>1, <1>2, <1>3, <1>4, <1>5 DEF IInv

\* A step that only changes the call of one writer.
LEMMA CallStep ==
    ASSUME IInv, NEW w \in Writers, NEW c \in Call \cup {Idle},
           call[w] # Idle \/ LockFree, call' = [call EXCEPT ![w] = c],
           UNCHANGED <<disk, read>>, CallFits(w)'
    PROVE  IInv'
<1>1. TypeOK'
  BY DEF IInv, TypeOK, disk
<1>2. Serial' /\ CallsInv'
  BY OneCall DEF IInv
<1>3. FilesInv'
  BY DEF IInv, FilesInv, FilesFit, disk
<1>4. IntentsInv'
  BY DEF IInv, IntentsInv, IntentAgrees, ActiveIntents, Listed, Refs, disk
<1>5. ReadsInv'
  BY DEF IInv, ReadsInv, ReadFits, disk
<1>. QED
  BY <1>1, <1>2, <1>3, <1>4, <1>5 DEF IInv

LEMMA StartIndexIInv ==
    ASSUME IInv, NEW w \in Writers, NEW n \in Intent, StartIndex(w, n) PROVE IInv'
<1>. DEFINE S == Refs(n) \ Listed
            c == [step |-> "intent", op |-> "index", request |-> n, author |-> n.author,
                  items |-> S, todo |-> S, item |-> NULL]
<1>1. /\ IndexAccepted(n)
      /\ LockFree
      /\ call' = [call EXCEPT ![w] = c]
      /\ UNCHANGED <<disk, read>>
  BY DEF StartIndex, Start
<1>2. c \in Call
  BY RefsTyped DEF Call, Steps, Intent
<1>3. call'[w] = c
  BY <1>1 DEF IInv, TypeOK
<1>4. S # {}
  BY <1>1 DEF IndexAccepted
<1>5. IndexFits(w)'
  <2>1. Listed' = Listed /\ ActiveIntents(Refs(n))' = ActiveIntents(Refs(n))
    BY <1>1 DEF Listed, ActiveIntents, Refs, disk
  <2>2. /\ n.mode = "single" => Cardinality(Refs(n)) = 1
        /\ ActiveIntents(Refs(n)) \subseteq {n}
        /\ \A i \in Refs(n) : projection[i] \in {NULL, n.source[i]}
        /\ \A i \in S : events[i] \in {<<>>, <<n.author>>}
    BY <1>1 DEF IndexAccepted
  <2>. HIDE DEF c
  <2>3. c.request = n /\ c.author = n.author /\ c.items = S /\ c.step = "intent"
    BY DEF c
  <2>4. projection' = projection /\ events' = events
    BY <1>1 DEF disk
  <2>. QED
    BY <1>3, <2>1, <2>2, <2>3, <2>4 DEF IndexFits, Refs
<1>6. TransitionFits(w)'
  BY <1>3 DEF TransitionFits
<1>7. StepFits(w)'
  BY <1>3, <1>4 DEF StepFits
<1>8. CallFits(w)'
  BY <1>5, <1>6, <1>7 DEF CallFits
<1>. HIDE DEF c
<1>. QED
  BY <1>1, <1>2, <1>8, CallStep

LEMMA StartTransitionIInv ==
    ASSUME IInv, NEW w \in Writers, NEW i \in Identities, NEW a \in Authors,
           StartTransition(w, i, a)
    PROVE  IInv'
<1>. DEFINE c == [step |-> "event", op |-> "transition", request |-> NULL, author |-> a,
                  items |-> {i}, todo |-> {i}, item |-> i]
<1>1. /\ TransitionAccepted(i, a)
      /\ LockFree
      /\ call' = [call EXCEPT ![w] = c]
      /\ UNCHANGED <<disk, read>>
  BY DEF StartTransition, Start
<1>2. c \in Call
  BY DEF Call, Steps
<1>3. call'[w] = c
  BY <1>1 DEF IInv, TypeOK
<1>4. /\ catalog[i] \in Nat /\ Len(events[i]) \in Nat
      /\ FilesFit(i)
      /\ MaxReceipts \in Nat
  BY RegistryAssumption DEF IInv, TypeOK, FilesInv
<1>5. catalog[i] > 0 /\ catalog[i] < MaxReceipts
  BY <1>1 DEF TransitionAccepted, Listed
<1>6. /\ Lifecycle[catalog[i] + 1] = "published" => i \in Publishable
      /\ Len(events[i]) > catalog[i] => Written(i, a)
  BY <1>1 DEF TransitionAccepted, Written
<1>7. projection[i] # NULL
  BY <1>4, <1>5 DEF FilesFit
<1>8. IndexFits(w)'
  BY <1>3 DEF IndexFits
<1>9. TransitionFits(w)'
  <2>1. catalog[i] \in 1..(MaxReceipts - 1)
    BY <1>4, <1>5
  <2>. QED
    BY <1>1, <1>3, <1>6, <2>1 DEF TransitionFits, Written, disk
<1>10. StepFits(w)'
  BY <1>1, <1>3, <1>7 DEF StepFits, disk
<1>11. CallFits(w)'
  BY <1>8, <1>9, <1>10 DEF CallFits
<1>. HIDE DEF c
<1>. QED
  BY <1>1, <1>2, <1>11, CallStep

LEMMA NextItemIInv ==
    ASSUME IInv, NEW w \in Writers, NEW i \in Identities, NextItem(w, i) PROVE IInv'
<1>. DEFINE c == [call[w] EXCEPT !.step = "projection", !.item = i]
<1>1. call[w] # Idle
  BY DEF NextItem, Idle
<1>2. /\ call[w] \in Call
      /\ CallFits(w)
      /\ call' = [call EXCEPT ![w] = c]
      /\ UNCHANGED <<disk, read>>
      /\ call[w].step = "next" /\ i \in call[w].todo
  BY <1>1, CallTyped DEF IInv, CallsInv, NextItem
<1>3. c \in Call
  BY <1>2 DEF Call, Steps
<1>4. call'[w] = c
  BY <1>2 DEF IInv, TypeOK
<1>5. /\ c.step = "projection" /\ c.item = i
      /\ c.op = call[w].op /\ c.request = call[w].request /\ c.author = call[w].author
      /\ c.items = call[w].items /\ c.todo = call[w].todo
  BY <1>2 DEF Call
<1>. HIDE DEF c
<1>6. IndexFits(w)'
  BY <1>1, <1>2, <1>4, <1>5 DEF CallFits, IndexFits, ActiveIntents, Listed, Refs, disk
<1>7. TransitionFits(w)'
  BY <1>1, <1>2, <1>4, <1>5 DEF CallFits, TransitionFits
<1>8. StepFits(w)'
  BY <1>1, <1>2, <1>4, <1>5 DEF CallFits, StepFits, Staged, Written, disk
<1>9. CallFits(w)'
  BY <1>6, <1>7, <1>8 DEF CallFits
<1>. QED
  BY <1>1, <1>2, <1>3, <1>9, CallStep

LEMMA CrashIInv ==
    ASSUME IInv, NEW w \in Writers, Crash(w) PROVE IInv'
<1>1. call'[w] = Idle
  BY DEF IInv, TypeOK, Crash
<1>2. CallFits(w)'
  BY <1>1 DEF CallFits
<1>. QED
  BY <1>2, CallStep DEF Crash

\* The file steps of a call: it is the one call, and it fits.
LEMMA AtWork ==
    ASSUME IInv, NEW w \in Writers, call[w].step # "idle"
    PROVE  /\ call[w] # Idle
           /\ call[w] \in Call
           /\ call[w].author \in Authors
           /\ call[w].items \subseteq Identities
           /\ IndexFits(w) /\ TransitionFits(w) /\ StepFits(w)
           /\ call[w].op = "index" \/ call[w].op = "transition"
           /\ call[w].step \in {"projection", "event", "anchor", "snapshot"} =>
                call[w].item \in call[w].todo /\ call[w].item \in Identities
<1>1. call[w] # Idle
  BY DEF Idle
<1>2. /\ IndexFits(w) /\ TransitionFits(w) /\ StepFits(w)
  BY <1>1 DEF IInv, CallsInv, CallFits
<1>. QED
  BY <1>1, <1>2, CallTyped DEF IInv, StepFits

\* Going on to another step keeps everything else of a call.
LEMMA GoneTo ==
    ASSUME TypeOK, NEW w \in Writers, call[w] \in Call, NEW step \in Steps, GoTo(w, step)
    PROVE  /\ call'[w] \in Call
           /\ call'[w].step = step /\ call'[w].op = call[w].op
           /\ call'[w].request = call[w].request /\ call'[w].author = call[w].author
           /\ call'[w].items = call[w].items /\ call'[w].todo = call[w].todo
           /\ call'[w].item = call[w].item
           /\ call' = [call EXCEPT ![w] = call'[w]]
<1>. DEFINE c == [call[w] EXCEPT !.step = step]
<1>1. call' = [call EXCEPT ![w] = c] /\ call'[w] = c
  BY DEF GoTo, TypeOK
<1>2. /\ c \in Call
      /\ c.step = step /\ c.op = call[w].op
      /\ c.request = call[w].request /\ c.author = call[w].author
      /\ c.items = call[w].items /\ c.todo = call[w].todo
      /\ c.item = call[w].item
  BY DEF Call
<1>. QED
  BY <1>1, <1>2

LEMMA WriteIntentIInv ==
    ASSUME IInv, NEW w \in Writers, WriteIntent(w) PROVE IInv'
<1>0. PICK n : n = call[w].request
  OBVIOUS
<1>1. /\ call[w].step = "intent"
      /\ intents' = intents \cup {n}
      /\ GoTo(w, "next")
      /\ UNCHANGED <<projection, events, anchors, snapshot, catalog, read>>
  BY <1>0 DEF WriteIntent
<1>2. /\ call[w] # Idle
      /\ call[w] \in Call
      /\ IndexFits(w) /\ TransitionFits(w) /\ StepFits(w)
      /\ call[w].op = "index"
  BY <1>1, AtWork DEF TransitionFits
<1>3. /\ call'[w] \in Call
      /\ call'[w].step = "next" /\ call'[w].op = call[w].op
      /\ call'[w].request = call[w].request /\ call'[w].author = call[w].author
      /\ call'[w].items = call[w].items /\ call'[w].todo = call[w].todo
      /\ call'[w].item = call[w].item
      /\ call' = [call EXCEPT ![w] = call'[w]]
  BY <1>1, <1>2, GoneTo DEF IInv, Steps
<1>4. n \in Intent
  BY <1>0, <1>2 DEF IndexFits
<1>5. Listed' = Listed
  BY <1>1 DEF Listed
<1>6. TypeOK'
  BY <1>1, <1>3, <1>4 DEF IInv, TypeOK
<1>7. FilesInv'
  BY <1>1 DEF IInv, FilesInv, FilesFit
<1>8. ReadsInv'
  BY <1>1 DEF IInv, ReadsInv, ReadFits
<1>9. /\ n.mode = "single" => Cardinality(Refs(n)) = 1
      /\ ActiveIntents(Refs(n)) \subseteq {n}
      /\ \A i \in Refs(n) : projection[i] \in {NULL, n.source[i]}
      /\ \A i \in Refs(n) \ Listed : events[i] \in {<<>>, <<n.author>>}
  BY <1>0, <1>2 DEF IndexFits
<1>10. ActiveIntents(Refs(n))' \subseteq {n}
  BY <1>1, <1>5, <1>9 DEF ActiveIntents, Refs
<1>11. IntentsInv'
  <2>. SUFFICES ASSUME NEW m \in intents' PROVE IntentAgrees(m)'
    BY DEF IntentsInv
  <2>1. CASE m = n
    BY <1>1, <1>5, <1>9, <1>10, <2>1 DEF IntentAgrees, Refs
  <2>2. CASE m # n
    <3>1. m \in intents /\ IntentAgrees(m)
      BY <1>1, <2>2 DEF IInv, IntentsInv
    <3>2. ~(Refs(m) \subseteq Listed) => Refs(n) \cap Refs(m) = {}
      BY <1>9, <2>2, <3>1 DEF ActiveIntents
    <3>. QED
      BY <1>1, <1>5, <3>1, <3>2 DEF IntentAgrees, ActiveIntents, Refs
  <2>. QED
    BY <2>1, <2>2
<1>12. CallFits(w)'
  <2>1. IndexFits(w)'
    BY <1>0, <1>1, <1>2, <1>3, <1>5, <1>10 DEF IndexFits, Refs
  <2>2. TransitionFits(w)'
    BY <1>2, <1>3 DEF TransitionFits
  <2>3. StepFits(w)'
    BY <1>1, <1>2, <1>3 DEF StepFits, Staged, Written
  <2>. QED
    BY <2>1, <2>2, <2>3 DEF CallFits
<1>13. Serial' /\ CallsInv'
  BY <1>2, <1>3, <1>12, OneCall DEF IInv
<1>. QED
  BY <1>6, <1>7, <1>8, <1>11, <1>13 DEF IInv

LEMMA WriteProjectionIInv ==
    ASSUME IInv, NEW w \in Writers, WriteProjection(w) PROVE IInv'
<1>0. PICK n, i : n = call[w].request /\ i = call[w].item
  OBVIOUS
<1>1. /\ call[w].step = "projection"
      /\ projection' = [projection EXCEPT ![i] = n.source[i]]
      /\ GoTo(w, "event")
      /\ UNCHANGED <<events, anchors, snapshot, intents, catalog, read>>
  BY <1>0 DEF WriteProjection
<1>2. /\ call[w] # Idle
      /\ call[w] \in Call
      /\ IndexFits(w) /\ TransitionFits(w) /\ StepFits(w)
      /\ call[w].op = "index"
      /\ i \in call[w].todo /\ i \in Identities
  BY <1>0, <1>1, AtWork DEF TransitionFits
<1>3. /\ call'[w] \in Call
      /\ call'[w].step = "event" /\ call'[w].op = call[w].op
      /\ call'[w].request = call[w].request /\ call'[w].author = call[w].author
      /\ call'[w].items = call[w].items /\ call'[w].todo = call[w].todo
      /\ call'[w].item = call[w].item
      /\ call' = [call EXCEPT ![w] = call'[w]]
  BY <1>1, <1>2, GoneTo DEF IInv, Steps
<1>4. /\ n \in Intent
      /\ ActiveIntents(Refs(n)) \subseteq {n}
      /\ \A j \in Refs(n) : projection[j] \in {NULL, n.source[j]}
      /\ i \in Refs(n)
  BY <1>0, <1>2 DEF IndexFits, StepFits
<1>5. n.source[i] \in Observations /\ n.source[i] # NULL
  BY <1>4, RefsTyped, RegistryAssumption
<1>6. \A j \in Identities : projection'[j] = IF j = i THEN n.source[i] ELSE projection[j]
  BY <1>1 DEF IInv, TypeOK
<1>7. Listed' = Listed /\ \A S : ActiveIntents(S)' = ActiveIntents(S)
  BY <1>1 DEF Listed, ActiveIntents, Refs
<1>8. TypeOK'
  BY <1>1, <1>3, <1>5 DEF IInv, TypeOK
<1>9. FilesInv'
  BY <1>1, <1>5, <1>6 DEF IInv, FilesInv, FilesFit
<1>10. ReadsInv'
  BY <1>1 DEF IInv, ReadsInv, ReadFits
<1>11. IntentsInv'
  <2>. SUFFICES ASSUME NEW m \in intents PROVE IntentAgrees(m)'
    BY <1>1 DEF IntentsInv
  <2>1. IntentAgrees(m) /\ m \in Intent
    BY DEF IInv, IntentsInv, TypeOK
  <2>2. ~(Refs(m) \subseteq Listed) /\ i \in Refs(m) => m = n
    BY <1>4 DEF ActiveIntents
  <2>3. ASSUME NEW j \in Refs(m), ~(Refs(m) \subseteq Listed)
        PROVE  projection'[j] \in {NULL, m.source[j]}
    <3>1. j \in Identities
      BY <2>1, RefsTyped
    <3>. QED
      BY <1>6, <2>1, <2>2, <2>3, <3>1 DEF IntentAgrees
  <2>. QED
    BY <1>1, <1>7, <2>1, <2>3 DEF IntentAgrees, Refs
<1>12. CallFits(w)'
  <2>1. \A j \in Refs(n) : projection'[j] \in {NULL, n.source[j]}
    BY <1>4, <1>6, RefsTyped
  <2>2. IndexFits(w)'
    BY <1>0, <1>1, <1>2, <1>3, <1>7, <2>1 DEF IndexFits, Refs
  <2>3. TransitionFits(w)'
    BY <1>2, <1>3 DEF TransitionFits
  <2>4. projection'[i] # NULL
    BY <1>2, <1>5, <1>6
  <2>5. StepFits(w)'
    BY <1>0, <1>1, <1>2, <1>3, <2>4 DEF StepFits, Staged, Written
  <2>. QED
    BY <2>2, <2>3, <2>5 DEF CallFits
<1>13. Serial' /\ CallsInv'
  BY <1>2, <1>3, <1>12, OneCall DEF IInv
<1>. QED
  BY <1>8, <1>9, <1>10, <1>11, <1>13 DEF IInv

\* The item of a call that writes receipts: nothing past its head, or a receipt
\* of this call's author.
LEMMA ItemOfCall ==
    ASSUME IInv, NEW w \in Writers, call[w].step \in {"event", "anchor", "snapshot"}
    PROVE  LET i == call[w].item IN
           /\ i \in Identities
           /\ FilesFit(i)
           /\ catalog[i] \in Nat /\ events[i] \in Seq(Authors)
           /\ Len(events[i]) \in Nat
           /\ i \in call[w].todo /\ i \in call[w].items
           /\ Len(events[i]) # catalog[i] => Written(i, call[w].author)
           /\ call[w].op = "index" => catalog[i] = 0
<1>. DEFINE i == call[w].item
<1>1. /\ call[w] # Idle
      /\ call[w].author \in Authors
      /\ IndexFits(w) /\ TransitionFits(w) /\ StepFits(w)
      /\ call[w].op = "index" \/ call[w].op = "transition"
      /\ i \in call[w].todo /\ i \in Identities
  BY AtWork
<1>2. i \in call[w].items
  BY <1>1 DEF StepFits
<1>3. /\ FilesFit(i)
      /\ catalog[i] \in Nat /\ events[i] \in Seq(Authors) /\ Len(events[i]) \in Nat
  BY <1>1 DEF IInv, FilesInv, TypeOK
<1>4. ASSUME Len(events[i]) # catalog[i] PROVE Written(i, call[w].author)
  <2>1. Len(events[i]) = catalog[i] + 1
    BY <1>3, <1>4 DEF FilesFit
  <2>2. CASE call[w].op = "index"
    <3>1. catalog[i] = 0
      BY <1>1, <1>2, <1>3, <2>2 DEF IndexFits, Listed
    <3>2. events[i] \in {<<>>, <<call[w].author>>}
      BY <1>1, <1>2, <2>2 DEF IndexFits
    <3>. QED
      BY <2>1, <3>1, <3>2 DEF Written
  <2>3. CASE call[w].op = "transition"
    BY <1>1, <1>2, <1>3, <2>1, <2>3 DEF TransitionFits
  <2>. QED
    BY <1>1, <2>2, <2>3
<1>5. call[w].op = "index" => catalog[i] = 0
  BY <1>1, <1>2, <1>3 DEF IndexFits, Listed
<1>. QED
  BY <1>1, <1>2, <1>3, <1>4, <1>5

LEMMA WriteEventIInv ==
    ASSUME IInv, NEW w \in Writers, WriteEvent(w) PROVE IInv'
<1>0. PICK i, a : i = call[w].item /\ a = call[w].author
  OBVIOUS
<1>1. /\ call[w].step = "event"
      /\ events' = IF Len(events[i]) = catalog[i]
                   THEN [events EXCEPT ![i] = Append(@, a)] ELSE events
      /\ GoTo(w, "anchor")
      /\ UNCHANGED <<projection, anchors, snapshot, intents, catalog, read>>
  BY <1>0 DEF WriteEvent
<1>2. /\ call[w] # Idle
      /\ call[w] \in Call
      /\ a \in Authors
      /\ call[w].items \subseteq Identities
      /\ IndexFits(w) /\ TransitionFits(w) /\ StepFits(w)
  BY <1>0, <1>1, AtWork
<1>3. /\ call'[w] \in Call
      /\ call'[w].step = "anchor" /\ call'[w].op = call[w].op
      /\ call'[w].request = call[w].request /\ call'[w].author = call[w].author
      /\ call'[w].items = call[w].items /\ call'[w].todo = call[w].todo
      /\ call'[w].item = call[w].item
      /\ call' = [call EXCEPT ![w] = call'[w]]
  BY <1>1, <1>2, GoneTo DEF IInv, Steps
<1>4. /\ i \in Identities
      /\ FilesFit(i)
      /\ catalog[i] \in Nat /\ events[i] \in Seq(Authors)
      /\ Len(events[i]) \in Nat
      /\ i \in call[w].todo /\ i \in call[w].items
      /\ Len(events[i]) # catalog[i] => Written(i, a)
      /\ call[w].op = "index" => catalog[i] = 0
  BY <1>0, <1>1, ItemOfCall
<1>5. /\ events' \in [Identities -> Seq(Authors)]
      /\ \A j \in Identities \ {i} : events'[j] = events[j]
      /\ Len(events'[i]) = catalog[i] + 1
      /\ events'[i][catalog[i] + 1] = a
      /\ catalog[i] = 0 => events'[i] \in {<<>>, <<a>>} \/ events'[i] = events[i]
  <2>0. events \in [Identities -> Seq(Authors)]
    BY DEF IInv, TypeOK
  <2>1. CASE Len(events[i]) = catalog[i]
    <3>1. events' = [events EXCEPT ![i] = Append(events[i], a)]
      BY <1>1, <2>1
    <3>2. /\ Append(events[i], a) \in Seq(Authors)
          /\ Len(Append(events[i], a)) = catalog[i] + 1
          /\ Append(events[i], a)[catalog[i] + 1] = a
      BY <1>2, <1>4, <2>1
    <3>3. catalog[i] = 0 => events[i] = <<>>
      BY <1>4, <2>1
    <3>4. catalog[i] = 0 => Append(events[i], a) = <<a>>
      <4>1. Append(<<>>, a) = <<a>>
        OBVIOUS
      <4>. QED
        BY <3>3, <4>1
    <3>. QED
      BY <1>4, <2>0, <3>1, <3>2, <3>4
  <2>2. CASE Len(events[i]) # catalog[i]
    BY <1>1, <1>4, <2>0, <2>2 DEF Written
  <2>. QED
    BY <2>1, <2>2
<1>6. Listed' = Listed /\ \A S : ActiveIntents(S)' = ActiveIntents(S)
  BY <1>1 DEF Listed, ActiveIntents, Refs
<1>7. TypeOK'
  BY <1>1, <1>3, <1>5 DEF IInv, TypeOK
<1>8. FilesInv'
  <2>. SUFFICES ASSUME NEW j \in Identities PROVE FilesFit(j)'
    BY DEF FilesInv
  <2>1. CASE j # i
    BY <1>1, <1>5, <2>1 DEF IInv, FilesInv, FilesFit
  <2>2. CASE j = i
    <3>1. projection[i] # NULL
      BY <1>0, <1>1, <1>2 DEF StepFits
    <3>2. 1..Len(events[i]) \subseteq 1..(catalog[i] + 1)
      BY <1>4 DEF FilesFit
    <3>3. snapshot[i] \in {0, catalog[i], catalog[i] + 1}
      BY <1>4 DEF FilesFit
    <3>. QED
      BY <1>1, <1>4, <1>5, <2>2, <3>1, <3>2, <3>3 DEF FilesFit
  <2>. QED
    BY <2>1, <2>2
<1>9. ReadsInv'
  <2>1. ASSUME NEW j \in Identities
        PROVE  /\ catalog'[j] \in Nat /\ catalog[j] <= catalog'[j]
               /\ Len(events'[j]) \in Nat
               /\ Len(events[j]) <= Len(events'[j])
    <3>1. catalog'[j] = catalog[j] /\ catalog[j] \in Nat
      BY <1>1 DEF IInv, TypeOK
    <3>2. Len(events[j]) \in Nat
      BY DEF IInv, TypeOK
    <3>3. CASE j # i
      BY <1>5, <3>1, <3>2, <3>3
    <3>4. CASE j = i
      BY <1>4, <1>5, <3>1, <3>4 DEF FilesFit
    <3>. QED
      BY <3>3, <3>4
  <2>. QED
    BY <1>1, <2>1, ReadsKept DEF IInv
<1>10. IntentsInv'
  <2>. SUFFICES ASSUME NEW m \in intents PROVE IntentAgrees(m)'
    BY <1>1 DEF IntentsInv
  <2>1. IntentAgrees(m) /\ m \in Intent
    BY DEF IInv, IntentsInv, TypeOK
  <2>2. ASSUME NEW j \in Refs(m) \ Listed, ~(Refs(m) \subseteq Listed)
        PROVE  events'[j] \in {<<>>, <<m.author>>}
    <3>1. j \in Identities
      BY <2>1, RefsTyped
    <3>2. CASE j # i
      BY <1>5, <2>1, <2>2, <3>1, <3>2 DEF IntentAgrees
    <3>3. CASE j = i
      <4>1. catalog[i] = 0
        BY <1>4, <2>2, <3>3 DEF Listed
      <4>2. call[w].op # "transition"
        BY <1>2, <1>4, <4>1 DEF TransitionFits
      <4>3. call[w].op = "index"
        BY <1>2, <4>2 DEF Call
      <4>4. m.author = a
        BY <1>0, <1>2, <1>4, <2>2, <3>3, <4>3 DEF IndexFits, ActiveIntents
      <4>5. events[i] \in {<<>>, <<m.author>>}
        BY <2>1, <2>2, <3>3 DEF IntentAgrees
      <4>. QED
        BY <1>5, <3>3, <4>1, <4>4, <4>5
    <3>. QED
      BY <3>2, <3>3
  <2>. QED
    BY <1>1, <1>6, <2>1, <2>2 DEF IntentAgrees, Refs
<1>11. CallFits(w)'
  <2>1. IndexFits(w)'
    <3>. SUFFICES ASSUME call[w].op = "index" PROVE IndexFits(w)'
      BY <1>3 DEF IndexFits
    <3>1. catalog[i] = 0 /\ call[w].request.author = a
      BY <1>0, <1>2, <1>4 DEF IndexFits
    <3>2. \A j \in call[w].items : events[j] \in {<<>>, <<a>>}
      BY <1>2, <3>1 DEF IndexFits
    <3>3. \A j \in call[w].items : events'[j] \in {<<>>, <<a>>}
      BY <1>2, <1>4, <1>5, <3>1, <3>2
    <3>. QED
      BY <1>1, <1>2, <1>3, <1>6, <3>1, <3>3 DEF IndexFits, Refs
  <2>2. TransitionFits(w)'
    <3>. SUFFICES ASSUME call[w].op = "transition" PROVE TransitionFits(w)'
      BY <1>3 DEF TransitionFits
    <3>1. /\ call[w].items = {i}
          /\ catalog[i] \in 1..(MaxReceipts - 1)
          /\ Lifecycle[catalog[i] + 1] = "published" => i \in Publishable
      BY <1>2, <1>4 DEF TransitionFits
    <3>2. Written(i, a)'
      BY <1>0, <1>1, <1>5, <3>1 DEF Written
    <3>. QED
      BY <1>0, <1>1, <1>3, <1>4, <3>1, <3>2 DEF TransitionFits
  <2>3. StepFits(w)'
    <3>1. Written(i, a)'
      BY <1>1, <1>5 DEF Written
    <3>2. \A j \in call[w].items \ call[w].todo : Staged(j, a)'
      <4>. SUFFICES ASSUME NEW j \in call[w].items \ call[w].todo PROVE Staged(j, a)'
        BY <1>0
      <4>1. Staged(j, a) /\ j # i /\ j \in Identities
        BY <1>0, <1>2, <1>4 DEF StepFits
      <4>. QED
        BY <1>1, <1>5, <4>1 DEF Staged, Written
    <3>3. call[w].items # {} /\ call[w].todo \subseteq call[w].items
      BY <1>2 DEF StepFits
    <3>. QED
      BY <1>0, <1>3, <1>4, <3>1, <3>2, <3>3 DEF StepFits
  <2>. QED
    BY <2>1, <2>2, <2>3 DEF CallFits
<1>12. Serial' /\ CallsInv'
  BY <1>2, <1>3, <1>11, OneCall DEF IInv
<1>. QED
  BY <1>7, <1>8, <1>9, <1>10, <1>12 DEF IInv

LEMMA WriteAnchorIInv ==
    ASSUME IInv, NEW w \in Writers, WriteAnchor(w) PROVE IInv'
<1>0. PICK i, a : i = call[w].item /\ a = call[w].author
  OBVIOUS
<1>1. /\ call[w].step = "anchor"
      /\ anchors' = [anchors EXCEPT ![i] = @ \cup {catalog[i] + 1}]
      /\ GoTo(w, "snapshot")
      /\ UNCHANGED <<projection, events, snapshot, intents, catalog, read>>
  BY <1>0 DEF WriteAnchor
<1>2. /\ call[w] # Idle
      /\ call[w] \in Call
      /\ call[w].items \subseteq Identities
      /\ IndexFits(w) /\ TransitionFits(w) /\ StepFits(w)
  BY <1>1, AtWork
<1>3. /\ call'[w] \in Call
      /\ call'[w].step = "snapshot" /\ call'[w].op = call[w].op
      /\ call'[w].request = call[w].request /\ call'[w].author = call[w].author
      /\ call'[w].items = call[w].items /\ call'[w].todo = call[w].todo
      /\ call'[w].item = call[w].item
      /\ call' = [call EXCEPT ![w] = call'[w]]
  BY <1>1, <1>2, GoneTo DEF IInv, Steps
<1>4. /\ i \in Identities
      /\ FilesFit(i)
      /\ catalog[i] \in Nat
      /\ i \in call[w].todo
  BY <1>0, <1>1, ItemOfCall
<1>5. Written(i, a)
  BY <1>0, <1>1, <1>2 DEF StepFits
<1>6. \A j \in Identities : anchors'[j] = IF j = i THEN anchors[i] \cup {catalog[i] + 1}
                                          ELSE anchors[j]
  BY <1>1 DEF IInv, TypeOK
<1>7. Listed' = Listed /\ \A S : ActiveIntents(S)' = ActiveIntents(S)
  BY <1>1 DEF Listed, ActiveIntents, Refs
<1>8. TypeOK'
  <2>1. anchors' \in [Identities -> SUBSET Nat]
    BY <1>1, <1>4 DEF IInv, TypeOK
  <2>. QED
    BY <1>1, <1>3, <2>1 DEF IInv, TypeOK
<1>9. FilesInv'
  <2>. SUFFICES ASSUME NEW j \in Identities PROVE FilesFit(j)'
    BY DEF FilesInv
  <2>1. CASE j # i
    BY <1>1, <1>6, <2>1 DEF IInv, FilesInv, FilesFit
  <2>2. CASE j = i
    <3>1. catalog[i] + 1 \in 1..Len(events[i])
      BY <1>4, <1>5 DEF Written
    <3>. QED
      BY <1>1, <1>4, <1>6, <2>2, <3>1 DEF FilesFit
  <2>. QED
    BY <2>1, <2>2
<1>10. ReadsInv'
  BY <1>1 DEF IInv, ReadsInv, ReadFits
<1>11. IntentsInv'
  BY <1>1, <1>7 DEF IInv, IntentsInv, IntentAgrees, Refs
<1>12. CallFits(w)'
  <2>1. IndexFits(w)'
    BY <1>1, <1>2, <1>3, <1>7 DEF IndexFits, Refs
  <2>2. TransitionFits(w)'
    BY <1>1, <1>2, <1>3 DEF TransitionFits, Written
  <2>3. StepFits(w)'
    <3>1. Written(i, a)' /\ (catalog[i] + 1 \in anchors[i])'
      BY <1>1, <1>4, <1>5, <1>6 DEF Written
    <3>2. \A j \in call[w].items \ call[w].todo : Staged(j, a)'
      <4>. SUFFICES ASSUME NEW j \in call[w].items \ call[w].todo PROVE Staged(j, a)'
        BY <1>0
      <4>1. Staged(j, a) /\ j # i /\ j \in Identities
        BY <1>0, <1>2, <1>4 DEF StepFits
      <4>. QED
        BY <1>1, <1>6, <4>1 DEF Staged, Written
    <3>3. call[w].items # {} /\ call[w].todo \subseteq call[w].items
      BY <1>2 DEF StepFits
    <3>. QED
      BY <1>0, <1>3, <1>4, <3>1, <3>2, <3>3 DEF StepFits
  <2>. QED
    BY <2>1, <2>2, <2>3 DEF CallFits
<1>13. Serial' /\ CallsInv'
  BY <1>2, <1>3, <1>12, OneCall DEF IInv
<1>. QED
  BY <1>8, <1>9, <1>10, <1>11, <1>13 DEF IInv

LEMMA WriteSnapshotIInv ==
    ASSUME IInv, NEW w \in Writers, WriteSnapshot(w) PROVE IInv'
<1>0. PICK i, a : i = call[w].item /\ a = call[w].author
  OBVIOUS
<1>. DEFINE left == call[w].todo \ {i}
            c == [call[w] EXCEPT !.todo = left, !.item = NULL,
                                 !.step = IF left = {} THEN "commit" ELSE "next"]
<1>1. /\ call[w].step = "snapshot"
      /\ snapshot' = [snapshot EXCEPT ![i] = Len(events[i])]
      /\ call' = [call EXCEPT ![w] = c]
      /\ UNCHANGED <<projection, events, anchors, intents, catalog, read>>
  BY <1>0 DEF WriteSnapshot
<1>2. /\ call[w] # Idle
      /\ call[w] \in Call
      /\ call[w].items \subseteq Identities
      /\ IndexFits(w) /\ TransitionFits(w) /\ StepFits(w)
  BY <1>1, AtWork
<1>3. /\ c \in Call
      /\ c.step = IF left = {} THEN "commit" ELSE "next"
      /\ c.op = call[w].op
      /\ c.request = call[w].request /\ c.author = call[w].author
      /\ c.items = call[w].items /\ c.todo = left
  BY <1>2 DEF Call, Steps
<1>. HIDE DEF c
<1>4. call'[w] = c
  BY <1>1 DEF IInv, TypeOK
<1>5. /\ i \in Identities
      /\ FilesFit(i)
      /\ catalog[i] \in Nat /\ Len(events[i]) \in Nat
      /\ i \in call[w].todo
  BY <1>0, <1>1, ItemOfCall
<1>6. Written(i, a) /\ catalog[i] + 1 \in anchors[i]
  BY <1>0, <1>1, <1>2 DEF StepFits
<1>7. \A j \in Identities : snapshot'[j] = IF j = i THEN catalog[i] + 1 ELSE snapshot[j]
  BY <1>1, <1>6 DEF IInv, TypeOK, Written
<1>8. Listed' = Listed /\ \A S : ActiveIntents(S)' = ActiveIntents(S)
  BY <1>1 DEF Listed, ActiveIntents, Refs
<1>9. TypeOK'
  <2>1. snapshot' \in [Identities -> Nat]
    BY <1>1, <1>5 DEF IInv, TypeOK
  <2>. QED
    BY <1>1, <1>3, <2>1 DEF IInv, TypeOK
<1>10. FilesInv'
  <2>. SUFFICES ASSUME NEW j \in Identities PROVE FilesFit(j)'
    BY DEF FilesInv
  <2>1. CASE j # i
    BY <1>1, <1>7, <2>1 DEF IInv, FilesInv, FilesFit
  <2>2. CASE j = i
    BY <1>1, <1>5, <1>6, <1>7, <2>2 DEF FilesFit, Written
  <2>. QED
    BY <2>1, <2>2
<1>11. ReadsInv'
  BY <1>1 DEF IInv, ReadsInv, ReadFits
<1>12. IntentsInv'
  BY <1>1, <1>8 DEF IInv, IntentsInv, IntentAgrees, Refs
<1>13. CallFits(w)'
  <2>1. IndexFits(w)'
    BY <1>1, <1>2, <1>3, <1>4, <1>8 DEF IndexFits, Refs
  <2>2. TransitionFits(w)'
    <3>. SUFFICES ASSUME call[w].op = "transition" PROVE TransitionFits(w)'
      BY <1>3, <1>4 DEF TransitionFits
    <3>1. call[w].items = {i}
      BY <1>2, <1>5 DEF TransitionFits, StepFits
    <3>2. left = {}
      BY <1>2, <3>1 DEF StepFits
    <3>. QED
      BY <1>1, <1>2, <1>3, <1>4, <3>2 DEF TransitionFits, Written
  <2>3. StepFits(w)'
    <3>1. \A j \in call[w].items \ left : Staged(j, a)'
      <4>. SUFFICES ASSUME NEW j \in call[w].items \ left PROVE Staged(j, a)'
        BY <1>0
      <4>1. CASE j = i
        BY <1>1, <1>5, <1>6, <1>7, <4>1 DEF Staged, Written
      <4>2. CASE j # i
        <5>1. Staged(j, a) /\ j \in Identities
          BY <1>0, <1>2, <4>2 DEF StepFits
        <5>. QED
          BY <1>1, <1>7, <4>2, <5>1 DEF Staged, Written
      <4>. QED
        BY <4>1, <4>2
    <3>2. call[w].items # {} /\ left \subseteq call[w].items
      BY <1>2 DEF StepFits
    <3>. QED
      BY <1>0, <1>3, <1>4, <3>1, <3>2 DEF StepFits
  <2>. QED
    BY <2>1, <2>2, <2>3 DEF CallFits
<1>14. Serial' /\ CallsInv'
  BY <1>1, <1>2, <1>13, OneCall DEF IInv
<1>. QED
  BY <1>9, <1>10, <1>11, <1>12, <1>14 DEF IInv

\* What a commit finds: the files of every item are complete, and the items
\* are new ones, or the one that a transition moves.
LEMMA CommitFinds ==
    ASSUME IInv, NEW w \in Writers, Commit(w)
    PROVE  /\ call[w] # Idle
           /\ call[w].items \subseteq Identities /\ call[w].items # {}
           /\ \A i \in call[w].items : Staged(i, call[w].author) /\ catalog[i] < MaxReceipts
           /\ \A i \in Identities : catalog'[i] = IF i \in call[w].items THEN catalog[i] + 1
                                                  ELSE catalog[i]
           /\ UNCHANGED <<projection, events, anchors, snapshot, intents, read>>
           /\ \/ /\ call[w].op = "index"
                 /\ IndexFits(w)
                 /\ call[w].request \in intents
                 /\ call[w].items = Refs(call[w].request) \ Listed
                 /\ \A i \in call[w].items : catalog[i] = 0
              \/ /\ call[w].op = "transition"
                 /\ \E i \in Identities :
                      /\ call[w].items = {i}
                      /\ catalog[i] \in 1..(MaxReceipts - 1)
                      /\ Lifecycle[catalog[i] + 1] = "published" => i \in Publishable
<1>1. /\ call[w] # Idle
      /\ call[w].items \subseteq Identities
      /\ IndexFits(w) /\ TransitionFits(w) /\ StepFits(w)
      /\ call[w].op = "index" \/ call[w].op = "transition"
  BY AtWork DEF Commit
<1>2. /\ call[w].items # {}
      /\ \A i \in call[w].items : Staged(i, call[w].author)
  BY <1>1 DEF Commit, StepFits
<1>3. /\ \A i \in Identities : catalog'[i] = IF i \in call[w].items THEN catalog[i] + 1
                                              ELSE catalog[i]
      /\ UNCHANGED <<projection, events, anchors, snapshot, intents, read>>
  BY DEF Commit
<1>4. MaxReceipts \in Nat /\ MaxReceipts > 0 /\ \A i \in Identities : catalog[i] \in Nat
  BY RegistryAssumption DEF IInv, TypeOK
<1>5. CASE call[w].op = "index"
  <2>1. \A i \in call[w].items : catalog[i] = 0
    BY <1>1, <1>4, <1>5 DEF IndexFits, Listed
  <2>. QED
    BY <1>1, <1>2, <1>3, <1>4, <1>5, <2>1 DEF IndexFits, Commit
<1>6. CASE call[w].op = "transition"
  <2>1. PICK i \in Identities :
               /\ call[w].items = {i}
               /\ catalog[i] \in 1..(MaxReceipts - 1)
               /\ Lifecycle[catalog[i] + 1] = "published" => i \in Publishable
    BY <1>1, <1>6 DEF TransitionFits
  <2>2. catalog[i] < MaxReceipts
    BY <1>4, <2>1
  <2>. QED
    BY <1>1, <1>2, <1>3, <1>6, <2>1, <2>2
<1>. QED
  BY <1>1, <1>5, <1>6

LEMMA CommitIInv ==
    ASSUME IInv, NEW w \in Writers, Commit(w) PROVE IInv'
<1>1. /\ call[w] # Idle
      /\ call[w].items \subseteq Identities
      /\ \A i \in call[w].items : Staged(i, call[w].author) /\ catalog[i] < MaxReceipts
      /\ \A i \in Identities : catalog'[i] = IF i \in call[w].items THEN catalog[i] + 1
                                             ELSE catalog[i]
      /\ UNCHANGED <<projection, events, anchors, snapshot, intents, read>>
  BY CommitFinds
<1>2. /\ call' = [call EXCEPT ![w] = Idle]
      /\ catalog' = [i \in Identities |-> catalog'[i]]
  BY <1>1 DEF Commit
<1>3. /\ MaxReceipts \in Nat
      /\ \A i \in Identities : catalog[i] \in 0..MaxReceipts /\ Len(events[i]) \in Nat
  BY RegistryAssumption DEF IInv, TypeOK
<1>4. \A i \in Identities : catalog'[i] \in 0..MaxReceipts
  BY <1>1, <1>3
<1>5. TypeOK'
  <2>1. catalog' \in [Identities -> 0..MaxReceipts]
    BY <1>2, <1>4
  <2>. QED
    BY <1>1, <1>2, <2>1 DEF IInv, TypeOK
<1>6. FilesInv'
  <2>. SUFFICES ASSUME NEW i \in Identities PROVE FilesFit(i)'
    BY DEF FilesInv
  <2>1. FilesFit(i)
    BY DEF IInv, FilesInv
  <2>2. CASE i \in call[w].items
    <3>1. /\ Len(events[i]) = catalog[i] + 1
          /\ catalog[i] + 1 \in anchors[i]
          /\ snapshot[i] = catalog[i] + 1
          /\ catalog'[i] = catalog[i] + 1
      BY <1>1, <2>2 DEF Staged, Written
    <3>2. 1..(catalog[i] + 1) = 1..catalog[i] \cup {catalog[i] + 1}
      BY <1>3
    <3>. QED
      BY <1>1, <2>1, <3>1, <3>2 DEF FilesFit
  <2>3. CASE i \notin call[w].items
    BY <1>1, <2>1, <2>3 DEF FilesFit
  <2>. QED
    BY <2>2, <2>3
<1>7. ReadsInv'
  <2>1. ASSUME NEW i \in Identities
        PROVE  /\ catalog'[i] \in Nat /\ catalog[i] <= catalog'[i]
               /\ Len(events'[i]) \in Nat
               /\ Len(events[i]) <= Len(events'[i])
    BY <1>1, <1>3
  <2>. QED
    BY <1>1, <2>1, ReadsKept DEF IInv
<1>8. IntentsInv'
  <2>. SUFFICES ASSUME NEW n \in intents PROVE IntentAgrees(n)'
    BY <1>1 DEF IntentsInv
  <2>1. IntentAgrees(n)
    BY DEF IInv, IntentsInv
  <2>2. Listed \subseteq Listed'
    BY <1>1, <1>3 DEF Listed
  <2>3. \A S : ActiveIntents(S)' \subseteq ActiveIntents(S)
    BY <1>1, <2>2 DEF ActiveIntents, Refs
  <2>. QED
    BY <1>1, <2>1, <2>2, <2>3 DEF IntentAgrees, Refs
<1>9. CallFits(w)'
  BY <1>2 DEF CallFits, IInv, TypeOK
<1>10. Serial' /\ CallsInv'
  BY <1>1, <1>2, <1>9, OneCall DEF IInv
<1>. QED
  BY <1>5, <1>6, <1>7, <1>8, <1>10 DEF IInv

\* A step of a reader disturbs nothing but its own read.
LEMMA ReadStep ==
    ASSUME IInv, NEW r \in Readers, NEW q \in Read \cup {Idle},
           read' = [read EXCEPT ![r] = q], UNCHANGED <<disk, call>>, ReadFits(r)'
    PROVE  IInv'
<1>1. TypeOK'
  BY DEF IInv, TypeOK, disk
<1>2. Serial' /\ FilesInv' /\ IntentsInv'
  BY DEF IInv, Serial, FilesInv, FilesFit, IntentsInv, IntentAgrees, ActiveIntents,
         Listed, Refs, disk
<1>3. CallsInv'
  BY DEF IInv, CallsInv, CallFits, IndexFits, TransitionFits, StepFits, Staged, Written,
         ActiveIntents, Listed, Refs, disk
<1>4. ReadsInv'
  <2>1. ASSUME NEW p \in Readers, p # r PROVE ReadFits(p)'
    BY <2>1 DEF IInv, TypeOK, ReadsInv, ReadFits, disk
  <2>. QED
    BY <2>1 DEF ReadsInv
<1>. QED
  BY <1>1, <1>2, <1>3, <1>4 DEF IInv

\* Every read step keeps the read fitting; a conflict has its reason.
LEMMA ReaderIInv ==
    ASSUME IInv, NEW r \in Readers, ReaderStep(r) PROVE IInv'
<1>0. /\ \A i \in Identities : /\ catalog[i] \in Nat /\ Len(events[i]) \in Nat
                               /\ snapshot[i] \in Nat /\ FilesFit(i)
      /\ ReadFits(r)
      /\ Nat = {n \in Int : 0 <= n}
  BY DEF IInv, TypeOK, FilesInv, ReadsInv
<1>1. ASSUME NEW i \in Identities, ReadCatalog(r, i) PROVE IInv'
  <2>. DEFINE q == [step |-> "events", item |-> i, head |-> catalog[i], listed |-> 0]
  <2>1. q \in Read
    BY <1>0 DEF Read
  <2>2. read' = [read EXCEPT ![r] = q] /\ UNCHANGED <<disk, call>> /\ read'[r] = q
    BY <1>1 DEF ReadCatalog, IInv, TypeOK
  <2>3. ReadFits(r)'
    BY <1>0, <2>2 DEF ReadFits, disk
  <2>. HIDE DEF q
  <2>. QED
    BY <2>1, <2>2, <2>3, ReadStep
<1>2. ASSUME read[r].step # "idle"
      PROVE  LET i == read[r].item
             IN /\ read[r] \in Read
                /\ i \in Identities /\ read[r].head \in Nat /\ read[r].listed \in Nat
                /\ catalog[i] \in Nat /\ Len(events[i]) \in Nat
  BY <1>0, <1>2, ReadTyped DEF IInv
<1>3. CASE ReadEvents(r)
  <2>. DEFINE q == [read[r] EXCEPT !.step = "anchors", !.listed = Len(events[read[r].item])]
  <2>1. /\ read[r].step = "events"
        /\ read' = [read EXCEPT ![r] = q] /\ UNCHANGED <<disk, call>> /\ read'[r] = q
    BY <1>3 DEF ReadEvents, IInv, TypeOK
  <2>2. /\ q \in Read
        /\ q.step = "anchors" /\ q.item = read[r].item /\ q.head = read[r].head
        /\ q.listed = Len(events[read[r].item])
    BY <1>2, <2>1 DEF Read
  <2>. HIDE DEF q
  <2>3. ReadFits(r)'
    BY <1>0, <1>2, <2>1, <2>2 DEF ReadFits, disk
  <2>. QED
    BY <2>1, <2>2, <2>3, ReadStep
<1>4. CASE ReadAnchors(r)
  <2>. DEFINE q == [read[r] EXCEPT !.step = IF AnchorsFit(read[r].item, read[r].listed)
                                            THEN "snapshot" ELSE "conflict"]
  <2>1. /\ read[r].step = "anchors"
        /\ read' = [read EXCEPT ![r] = q] /\ UNCHANGED <<disk, call>> /\ read'[r] = q
    BY <1>4 DEF ReadAnchors, IInv, TypeOK
  <2>2. /\ q \in Read
        /\ q.step = IF AnchorsFit(read[r].item, read[r].listed) THEN "snapshot" ELSE "conflict"
        /\ q.item = read[r].item /\ q.head = read[r].head /\ q.listed = read[r].listed
    BY <1>2, <2>1 DEF Read
  <2>. HIDE DEF q
  <2>3. ~AnchorsFit(read[r].item, read[r].listed) =>
           Len(events[read[r].item]) > read[r].listed
    BY <1>0, <1>2, <2>1 DEF AnchorsFit, FilesFit
  <2>4. ReadFits(r)'
    BY <1>0, <1>2, <2>1, <2>2, <2>3 DEF ReadFits, disk
  <2>. QED
    BY <2>1, <2>2, <2>4, ReadStep
<1>5. CASE ReadSnapshot(r)
  <2>. DEFINE n == read[r].head
              k == read[r].listed
              i == read[r].item
              fits == PrefixAnchored(i, n) /\ SnapshotFits(i, n, k)
              q == IF fits THEN Idle ELSE [read[r] EXCEPT !.step = "conflict"]
  <2>1. /\ read[r].step = "snapshot"
        /\ read' = [read EXCEPT ![r] = q] /\ UNCHANGED <<disk, call>> /\ read'[r] = q
    BY <1>5 DEF ReadSnapshot, IInv, TypeOK
  <2>2. /\ q \in Read \cup {Idle}
        /\ fits => q = Idle
        /\ ~fits => q.step = "conflict" /\ q.item = i /\ q.head = n /\ q.listed = k
    BY <1>2, <2>1 DEF Read
  <2>3. /\ n <= catalog[i] /\ k <= Len(events[i])
        /\ FilesFit(i)
        /\ n \in Nat /\ k \in Nat /\ catalog[i] \in Nat /\ Len(events[i]) \in Nat
    BY <1>0, <1>2, <2>1 DEF ReadFits
  <2>4. PrefixAnchored(i, n)
    BY <2>3 DEF PrefixAnchored, FilesFit
  <2>5. ~SnapshotFits(i, n, k) => Len(events[i]) > k \/ catalog[i] > n
    BY <2>3 DEF SnapshotFits, FilesFit
  <2>. HIDE DEF q, n, k, i
  <2>6. ReadFits(r)'
    <3>1. CASE fits
      BY <2>1, <2>2, <3>1 DEF ReadFits, Idle
    <3>2. CASE ~fits
      <4>1. Len(events[i]) > k \/ catalog[i] > n
        BY <2>4, <2>5, <3>2
      <4>. QED
        BY <2>1, <2>2, <3>2, <4>1 DEF ReadFits, disk
    <3>. QED
      BY <3>1, <3>2
  <2>. QED
    BY <2>1, <2>2, <2>6, ReadStep
<1>6. CASE ReportConflict(r)
  <2>1. read'[r] = Idle
    BY <1>6 DEF ReportConflict, IInv, TypeOK
  <2>2. ReadFits(r)'
    BY <2>1 DEF ReadFits, Idle
  <2>. QED
    BY <1>6, <2>2, ReadStep DEF ReportConflict
<1>. QED
  BY <1>1, <1>3, <1>4, <1>5, <1>6 DEF ReaderStep

LEMMA NextIInv == IInv /\ [Next]_vars => IInv'
<1>. SUFFICES ASSUME IInv, [Next]_vars PROVE IInv'
  OBVIOUS
<1>1. ASSUME NEW w \in Writers, NEW n \in Intent, StartIndex(w, n) PROVE IInv'
  BY <1>1, StartIndexIInv
<1>2. ASSUME NEW w \in Writers, NEW i \in Identities, NEW a \in Authors,
             StartTransition(w, i, a)
      PROVE  IInv'
  BY <1>2, StartTransitionIInv
<1>3. ASSUME NEW w \in Writers, WriterStep(w) PROVE IInv'
  BY <1>3, WriteIntentIInv, NextItemIInv, WriteProjectionIInv, WriteEventIInv,
     WriteAnchorIInv, WriteSnapshotIInv, CommitIInv, CrashIInv DEF WriterStep
<1>4. ASSUME NEW r \in Readers, ReaderStep(r) PROVE IInv'
  BY <1>4, ReaderIInv
<1>5. CASE UNCHANGED vars
  <2>1. UNCHANGED <<projection, events, anchors, snapshot, intents, catalog, call, read>>
    BY <1>5 DEF vars, disk
  <2>2. TypeOK' /\ Serial' /\ FilesInv' /\ ReadsInv'
    BY <2>1 DEF IInv, TypeOK, Serial, FilesInv, FilesFit, ReadsInv, ReadFits
  <2>3. IntentsInv'
    BY <2>1 DEF IInv, IntentsInv, IntentAgrees, ActiveIntents, Listed, Refs
  <2>4. CallsInv'
    BY <2>1 DEF IInv, CallsInv, CallFits, IndexFits, TransitionFits, StepFits, Staged,
                Written, ActiveIntents, Listed, Refs
  <2>. QED
    BY <2>2, <2>3, <2>4 DEF IInv
<1>. QED
  BY <1>1, <1>2, <1>3, <1>4, <1>5 DEF Next

-----------------------------------------------------------------------------
\* The inductive invariant: types, the flock, how far the files of an identity
\* may be ahead of its committed head, and what intents, calls and reads rely on.
THEOREM Inductive == Spec => []IInv
  BY InitIInv, NextIInv, PTL DEF Spec

\* Files, calls and reads keep their types.
THEOREM TypeCorrect == Spec => []TypeOK
<1>1. IInv => TypeOK
  BY DEF IInv
<1>. QED
  BY <1>1, Inductive, PTL

\* Whatever file a writer or a crash stopped at, the committed document of every
\* listed identity can be read.
THEOREM PrefixReadable == Spec => []CommittedPrefixReadable
<1>1. ASSUME IInv, NEW i \in Listed PROVE Readable(i)
  <2>1. /\ FilesFit(i)
        /\ catalog[i] \in Nat /\ catalog[i] > 0 /\ Len(events[i]) \in Nat
    BY <1>1 DEF IInv, FilesInv, TypeOK, Listed
  <2>2. projection[i] # NULL
    BY <2>1 DEF FilesFit
  <2>. QED
    BY <2>1, <2>2 DEF Readable, FilesFit, AnchorsFit, PrefixAnchored, SnapshotFits
<1>2. IInv => CommittedPrefixReadable
  BY <1>1 DEF CommittedPrefixReadable
<1>. QED
  BY <1>2, Inductive, PTL

\* An interrupted index request can always be finished by its exact retry.
THEOREM IndexRetries == Spec => []InterruptedIndexRetries
<1>1. ASSUME IInv, NEW n \in intents, ~(Refs(n) \subseteq Listed) PROVE IndexAccepted(n)
  <2>1. IntentAgrees(n) /\ n \in Intent
    BY <1>1 DEF IInv, IntentsInv, TypeOK
  <2>2. n \in ActiveIntents(Refs(n))
    BY <1>1, <2>1, RefsTyped DEF ActiveIntents
  <2>3. ActiveIntents(Refs(n)) = {n}
    BY <1>1, <2>1, <2>2 DEF IntentAgrees
  <2>. QED
    BY <1>1, <2>1, <2>3 DEF IntentAgrees, IndexAccepted
<1>2. IInv => InterruptedIndexRetries
  BY <1>1 DEF InterruptedIndexRetries
<1>. QED
  BY <1>2, Inductive, PTL

\* A read that holds no lock reports a conflict only when something moved.
THEOREM ConflictsHaveCause == Spec => []ConflictMeansChange
<1>1. IInv => ConflictMeansChange
  BY DEF IInv, ReadsInv, ReadFits, ConflictMeansChange
<1>. QED
  BY <1>1, Inductive, PTL

-----------------------------------------------------------------------------
\* Only a commit changes the catalogue.
LEMMA OnlyCommits ==
    [Next]_vars => UNCHANGED catalog \/ \E w \in Writers : Commit(w)
  BY DEF Next, vars, disk, StartIndex, StartTransition, Start, WriterStep, WriteIntent,
         NextItem, WriteProjection, WriteEvent, WriteAnchor, WriteSnapshot, Crash, ReaderStep,
         ReadCatalog, ReadEvents, ReadAnchors, ReadSnapshot, ReportConflict

\* A batch becomes visible as a whole, whichever request commits its items.
THEOREM BatchesWhole == Spec => BatchesAppearWhole
<1>. DEFINE Whole == \A n \in intents : ~(Refs(n) \subseteq Listed) =>
                        \/ Refs(n) \subseteq Listed'
                        \/ Refs(n) \cap Listed' = Refs(n) \cap Listed
<1>1. ASSUME IInv, NEW w \in Writers, Commit(w) PROVE Whole
  <2>1. /\ call[w].items \subseteq Identities
        /\ \A i \in Identities : catalog'[i] = IF i \in call[w].items THEN catalog[i] + 1
                                               ELSE catalog[i]
        /\ \A i \in Identities : catalog[i] \in Nat
    BY <1>1, CommitFinds DEF IInv, TypeOK
  <2>2. Listed' = Listed \cup call[w].items
    BY <2>1 DEF Listed
  <2>. SUFFICES ASSUME NEW n \in intents, ~(Refs(n) \subseteq Listed)
                PROVE  \/ Refs(n) \subseteq Listed'
                       \/ Refs(n) \cap Listed' = Refs(n) \cap Listed
    OBVIOUS
  <2>3. CASE call[w].op = "transition"
    <3>1. call[w].items \subseteq Listed
      BY <1>1, <2>3, CommitFinds DEF Listed
    <3>. QED
      BY <2>2, <3>1
  <2>4. CASE call[w].op = "index"
    <3>1. /\ IndexFits(w)
          /\ call[w].items = Refs(call[w].request) \ Listed
      BY <1>1, <2>4, CommitFinds
    <3>2. CASE Refs(n) \cap Refs(call[w].request) = {}
      BY <2>2, <3>1, <3>2
    <3>3. CASE Refs(n) \cap Refs(call[w].request) # {}
      <4>1. n = call[w].request
        BY <2>4, <3>1, <3>3 DEF IndexFits, ActiveIntents
      <4>. QED
        BY <2>2, <3>1, <4>1
    <3>. QED
      BY <3>2, <3>3
  <2>. QED
    BY <1>1, <2>3, <2>4, CommitFinds
<1>2. ASSUME UNCHANGED catalog PROVE Whole
  BY <1>2 DEF Listed
<1>3. IInv /\ [Next]_vars => Whole
  BY <1>1, <1>2, OnlyCommits
<1>4. IInv /\ [Next]_vars => [Whole]_vars
  BY <1>3
<1>. QED
  BY <1>4, Inductive, PTL DEF Spec, BatchesAppearWhole

\* Nobody commits the transition that somebody else left unfinished.
THEOREM AuthorsCommit == Spec => OnlyItsAuthorCommits
<1>. DEFINE Own == \A i \in Identities : catalog[i] > 0 /\ catalog'[i] # catalog[i] =>
                     /\ catalog'[i] = catalog[i] + 1
                     /\ \E w \in Writers : /\ call[w] # Idle
                                          /\ call[w].op = "transition"
                                          /\ call[w].items = {i}
                                          /\ call[w].author = events[i][catalog'[i]]
<1>1. ASSUME IInv, NEW w \in Writers, Commit(w) PROVE Own
  <2>. SUFFICES ASSUME NEW i \in Identities, catalog[i] > 0, catalog'[i] # catalog[i]
                PROVE  /\ catalog'[i] = catalog[i] + 1
                       /\ call[w] # Idle /\ call[w].op = "transition"
                       /\ call[w].items = {i}
                       /\ call[w].author = events[i][catalog'[i]]
    OBVIOUS
  <2>1. i \in call[w].items /\ catalog'[i] = catalog[i] + 1 /\ call[w] # Idle
    BY <1>1, CommitFinds
  <2>2. call[w].op = "transition" /\ call[w].items = {i}
    BY <1>1, <2>1, CommitFinds
  <2>3. Staged(i, call[w].author)
    BY <1>1, <2>1, CommitFinds
  <2>. QED
    BY <2>1, <2>2, <2>3 DEF Staged, Written
<1>2. ASSUME UNCHANGED catalog PROVE Own
  BY <1>2
<1>3. IInv /\ [Next]_vars => [Own]_vars
  BY <1>1, <1>2, OnlyCommits
<1>. QED
  BY <1>3, Inductive, PTL DEF Spec, OnlyItsAuthorCommits

-----------------------------------------------------------------------------
\* Readers see the receipts up to the committed head.
LEMMA InitImplements == Init => Promise!Init
<1>. SUFFICES ASSUME Init, NEW i \in Identities PROVE SubSeq(events[i], 1, catalog[i]) = <<>>
  BY DEF Promise!Init
<1>. QED
  BY SubSeqEmpty DEF Init

\* A receipt past the head is invisible: writing it changes no history.
LEMMA InvisibleSteps ==
    ASSUME IInv, [Next]_vars, UNCHANGED catalog, NEW i \in Identities
    PROVE  SubSeq(events'[i], 1, catalog'[i]) = SubSeq(events[i], 1, catalog[i])
<1>1. CASE events'[i] = events[i]
  BY <1>1
<1>2. CASE events'[i] # events[i]
  <2>1. PICK w \in Writers : WriteEvent(w)
    BY <1>2 DEF Next, vars, disk, StartIndex, StartTransition, Start, WriterStep, WriteIntent,
         NextItem, WriteProjection, WriteAnchor, WriteSnapshot, Commit, Crash, ReaderStep,
         ReadCatalog, ReadEvents, ReadAnchors, ReadSnapshot, ReportConflict
  <2>2. /\ call[w].author \in Authors
        /\ events[i] \in Seq(Authors)
    BY <2>1, AtWork DEF WriteEvent, IInv, TypeOK
  <2>3. /\ events'[i] = Append(events[i], call[w].author)
        /\ Len(events[i]) = catalog[i]
    BY <1>2, <2>1 DEF WriteEvent, IInv, TypeOK
  <2>4. SubSeq(Append(events[i], call[w].author), 1, Len(events[i])) = events[i]
    <3>1. Append(events[i], call[w].author) = events[i] \o <<call[w].author>>
      BY <2>2, AppendIsConcat
    <3>. QED
      BY <2>2
  <2>5. SubSeq(events[i], 1, Len(events[i])) = events[i]
    BY <2>2, SubSeqFull
  <2>. QED
    BY <2>3, <2>4, <2>5
<1>. QED
  BY <1>1, <1>2

\* A committed receipt is appended to the history.
LEMMA HistoryGrows ==
    ASSUME NEW s \in Seq(Authors), NEW n \in Nat, Len(s) = n + 1
    PROVE  SubSeq(s, 1, n + 1) = Append(SubSeq(s, 1, n), s[n + 1])
<1>1. SubSeq(s, 1, n + 1) = s
  BY SubSeqFull
<1>2. /\ SubSeq(s, 1, n) \in Seq(Authors)
      /\ Len(SubSeq(s, 1, n)) = n
      /\ \A k \in 1..n : SubSeq(s, 1, n)[k] = s[k]
  <2>1. \A k \in 1..n : s[k] \in Authors
    OBVIOUS
  <2>2. 1 \in Int /\ n \in Int
    OBVIOUS
  <2>. QED
    BY <2>1, <2>2, SubSeqProperties
<1>. DEFINE t == SubSeq(s, 1, n)
<1>. HIDE DEF t
<1>3. /\ Append(t, s[n + 1]) \in Seq(Authors)
      /\ Len(Append(t, s[n + 1])) = n + 1
      /\ \A k \in 1..n : Append(t, s[n + 1])[k] = s[k]
      /\ Append(t, s[n + 1])[n + 1] = s[n + 1]
  BY <1>2 DEF t
<1>4. Append(t, s[n + 1]) = s
  BY <1>3, SeqEqual
<1>. QED
  BY <1>1, <1>4 DEF t

\* A commit is one step of the lifecycle; every other step is invisible.
LEMMA StepImplements ==
    IInv /\ [Next]_vars =>
        [Promise!Next]_([i \in Identities |-> SubSeq(events[i], 1, catalog[i])])
<1>. DEFINE V == [i \in Identities |-> SubSeq(events[i], 1, catalog[i])]
<1>. SUFFICES ASSUME IInv, [Next]_vars PROVE Promise!Next \/ V' = V
  OBVIOUS
<1>1. CASE UNCHANGED catalog
  BY <1>1, InvisibleSteps
<1>2. ASSUME NEW w \in Writers, Commit(w) PROVE Promise!Next
  <2>0. PICK items, a : items = call[w].items /\ a = call[w].author
    OBVIOUS
  <2>1. /\ items \subseteq Identities /\ items # {}
        /\ a \in Authors
        /\ \A i \in items : Staged(i, a) /\ catalog[i] < MaxReceipts
        /\ \A i \in Identities : catalog'[i] = IF i \in items THEN catalog[i] + 1
                                               ELSE catalog[i]
        /\ events' = events
    BY <1>2, <2>0, CommitFinds, CallTyped DEF IInv
  <2>2. \A i \in Identities : catalog[i] \in Nat /\ events[i] \in Seq(Authors)
    BY DEF IInv, TypeOK
  <2>3. \A i \in Identities \ items :
            SubSeq(events'[i], 1, catalog'[i]) = SubSeq(events[i], 1, catalog[i])
    BY <2>1
  <2>4. ASSUME NEW i \in items
        PROVE  SubSeq(events'[i], 1, catalog'[i]) = Append(SubSeq(events[i], 1, catalog[i]), a)
    <3>1. /\ Len(events[i]) = catalog[i] + 1
          /\ events[i][catalog[i] + 1] = a
          /\ i \in Identities
      BY <2>1 DEF Staged, Written
    <3>2. SubSeq(events[i], 1, catalog[i] + 1)
            = Append(SubSeq(events[i], 1, catalog[i]), events[i][catalog[i] + 1])
      BY <2>2, <3>1, HistoryGrows
    <3>. QED
      BY <2>1, <3>1, <3>2
  <2>5. \A i \in Identities : V[i] = SubSeq(events[i], 1, catalog[i])
                           /\ V'[i] = SubSeq(events'[i], 1, catalog'[i])
    OBVIOUS
  <2>6. ASSUME NEW i \in Identities
        PROVE  /\ V[i] \in Seq(Authors) \/ catalog[i] > Len(events[i])
               /\ catalog[i] <= Len(events[i]) => Len(V[i]) = catalog[i]
               /\ catalog[i] = 0 => V[i] = <<>>
    <3>1. CASE catalog[i] = 0
      <4>1. V[i] = <<>>
        BY <2>5, <3>1, SubSeqEmpty
      <4>. QED
        BY <3>1, <4>1
    <3>2. CASE catalog[i] > Len(events[i])
      BY <2>2, <3>2
    <3>3. CASE catalog[i] # 0 /\ catalog[i] <= Len(events[i])
      <4>1. \A k \in 1..catalog[i] : events[i][k] \in Authors
        BY <2>2, <3>3
      <4>2. /\ SubSeq(events[i], 1, catalog[i]) \in Seq(Authors)
            /\ Len(SubSeq(events[i], 1, catalog[i])) = catalog[i]
        BY <2>2, <3>3, <4>1, SubSeqProperties
      <4>. QED
        BY <2>5, <3>3, <4>2
    <3>. QED
      BY <2>2, <3>1, <3>2, <3>3
  <2>7. \A i \in Identities : catalog[i] <= Len(events[i])
    BY <2>2 DEF IInv, FilesInv, FilesFit
  <2>8. V = [i \in Identities |-> V[i]] /\ V' = [i \in Identities |-> V'[i]]
    OBVIOUS
  <2>. HIDE DEF V
  <2>9. CASE call[w].op = "index"
    <3>1. \A i \in items : catalog[i] = 0
      BY <1>2, <2>0, <2>9, CommitFinds
    <3>2. \A i \in items : V[i] = <<>>
      BY <2>1, <2>6, <3>1
    <3>3. Append(<<>>, a) = <<a>>
      OBVIOUS
    <3>4. \A i \in Identities : V'[i] = IF i \in items THEN <<a>> ELSE V[i]
      BY <2>1, <2>3, <2>4, <2>5, <3>2, <3>3
    <3>5. V' = [i \in Identities |-> IF i \in items THEN <<a>> ELSE V[i]]
      BY <2>8, <3>4
    <3>6. Promise!Index(items, a)
      BY <2>1, <3>2, <3>5 DEF Promise!Index, V
    <3>. QED
      BY <2>1, <3>6 DEF Promise!Next
  <2>10. CASE call[w].op = "transition"
    <3>1. PICK i \in Identities :
            /\ items = {i}
            /\ catalog[i] \in 1..(MaxReceipts - 1)
            /\ Lifecycle[catalog[i] + 1] = "published" => i \in Publishable
      BY <1>2, <2>0, <2>10, CommitFinds
    <3>2. Len(V[i]) = catalog[i] /\ V[i] # <<>>
      BY <2>6, <2>7, <3>1
    <3>3. MaxReceipts \in Nat /\ MaxReceipts <= Len(Lifecycle) /\ Len(Lifecycle) \in Nat
      BY RegistryAssumption DEF Lifecycle
    <3>4. Len(V[i]) < Len(Lifecycle)
      BY <3>1, <3>2, <3>3
    <3>5. \A j \in Identities : V'[j] = IF j = i THEN Append(V[i], a) ELSE V[j]
      BY <2>3, <2>4, <2>5, <3>1
    <3>6. V' = [V EXCEPT ![i] = Append(V[i], a)]
      BY <2>8, <3>5
    <3>7. Promise!Advance(i, a)
      BY <3>1, <3>2, <3>4, <3>6 DEF Promise!Advance, V
    <3>. QED
      BY <2>1, <3>7 DEF Promise!Next
  <2>. QED
    BY <1>2, <2>9, <2>10, CommitFinds
<1>. QED
  BY <1>1, <1>2, OnlyCommits

\* With locks, files, crashes and retries the store behaves as if every index
\* request and every transition were one atomic step or none.
THEOREM LifecycleImplemented == Spec => ImplementsLifecycle
<1>. QED
  BY InitImplements, StepImplements, Inductive, PTL
     DEF Spec, ImplementsLifecycle, Promise!Spec
=============================================================================
