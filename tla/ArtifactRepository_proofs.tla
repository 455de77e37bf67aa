----------------------- MODULE ArtifactRepository_proofs --------------------
(***************************************************************************)
(* Safety of ArtifactRepository for every set of artifacts, digests,       *)
(* actors and clients, every recovery window and every bound.              *)
(***************************************************************************)
EXTENDS ArtifactRepository, TLAPS

\* The steps of a call before the catalog is replaced.
Writing == {"intent", "blobs", "event", "anchor", "catalog"}

\* The repository lock is held by one call at most.
Serial == \A c, e \in Clients : call[c] # Idle /\ call[e] # Idle => c = e

\* What the lifecycle rule of an operation says of states and times alone.
Ready(a, op, at) ==
    /\ op = "admit" => State(a) = "absent"
    /\ op = "archive" => State(a) = "active"
    /\ op = "restore" => State(a) = "archived" \/ (State(a) = "tombstoned" /\ at <= Deadline(a))
    /\ op = "tombstone" => State(a) \in {"active", "archived"}
    /\ op = "finalize_delete" => State(a) = "tombstoned" /\ at >= Deadline(a)

\* How far a call has come, and what it may still rely on.
CallFits(c) ==
    LET r == call[c] IN
    /\ r.step \in Writing => Ready(r.art, r.op, r.at) /\ r.at <= clock
    /\ r.step = "intent" => Resumable(r.art, r.op, r.actor)
    /\ r.step \in {"anchor", "catalog"} => event[r.art] # NULL
    /\ r.step \in {"event", "anchor", "catalog"} /\ r.op = "admit" =>
           Verified(r.art) /\ r.art \in manifests
    /\ r.step = "cleanup" => State(r.art) = "deleted"

\* An interrupted restore was requested within the recovery window.
RestoreInTime ==
    \A a \in Artifacts :
        intent[a] # NULL /\ intent[a].op = "restore" /\ State(a) = "tombstoned"
        => intent[a].at <= Deadline(a)

\* The inductive invariant.
IInv ==
    /\ TypeOK
    /\ ResumedCallAgrees
    /\ CommittedBytesPresent
    /\ Serial
    /\ \A c \in Clients : CallFits(c)
    /\ RestoreInTime

-----------------------------------------------------------------------------
\* An empty repository, with no call in progress, satisfies the invariant.
LEMMA InitIInv == Init => IInv
  <1> SUFFICES ASSUME Init PROVE IInv
    OBVIOUS
  <1> USE ArtifactAssumption DEF Init
  <1>1. TypeOK
    BY DEF TypeOK, Entry, Idle
  <1>2. ResumedCallAgrees /\ Serial /\ RestoreInTime
    BY DEF ResumedCallAgrees, Serial, RestoreInTime, Idle
  <1>3. CommittedBytesPresent
    BY DEF CommittedBytesPresent, Live, State
  <1>4. \A c \in Clients : CallFits(c)
    BY DEF CallFits, Idle, Writing
  <1>5. QED
    BY <1>1, <1>2, <1>3, <1>4 DEF IInv

\* A call that gets the lock finds no other call, and reads the disk only.
LEMMA StartStep ==
    ASSUME IInv, NEW c \in Clients, NEW step \in {"intent", "cleanup"},
           NEW op \in Operations, NEW a \in Artifacts, NEW actor \in Actors, NEW at \in Nat,
           Start(c, step, op, a, actor, at),
           step = "intent" => Ready(a, op, at) /\ Resumable(a, op, actor),
           step = "cleanup" => State(a) = "deleted"
    PROVE  IInv'
  <1> USE ArtifactAssumption DEF Start, disk
  <1> DEFINE r == [step |-> step, op |-> op, art |-> a, actor |-> actor, at |-> at]
  <1>1. /\ call \in [Clients -> Call \cup {Idle}]
        /\ \A e \in Clients : call[e] = Idle
    BY DEF IInv, TypeOK, LockFree
  <1>2. /\ call' = [call EXCEPT ![c] = r]
        /\ call'[c] = r
        /\ \A e \in Clients \ {c} : call'[e] = Idle
    BY <1>1
  <1>3. TypeOK'
    BY <1>1, <1>2 DEF IInv, TypeOK, Call, Steps
  <1>4. ResumedCallAgrees'
    BY <1>1, <1>2 DEF IInv, ResumedCallAgrees, Written, Idle
  <1>5. CommittedBytesPresent' /\ RestoreInTime'
    BY DEF IInv, CommittedBytesPresent, RestoreInTime, Live, State, Verified, Deadline
  <1>6. Serial'
    BY <1>1, <1>2 DEF Serial
  <1>7. \A e \in Clients : CallFits(e)'
    <2> SUFFICES ASSUME NEW e \in Clients PROVE CallFits(e)'
      OBVIOUS
    <2>1. CASE e = c
      BY <2>1, <1>2 DEF CallFits, Writing, Ready, State, Deadline, Resumable
    <2>2. CASE e # c
      BY <2>2, <1>2 DEF CallFits, Writing, Idle
    <2>3. QED
      BY <2>1, <2>2
  <1>8. QED
    BY <1>3, <1>4, <1>5, <1>6, <1>7 DEF IInv

\* While a call runs, every other client is idle.
LEMMA Alone ==
    ASSUME IInv, NEW c \in Clients, call[c] # Idle
    PROVE  \A e \in Clients \ {c} : call[e] = Idle
  BY DEF IInv, Serial

\* A step that leaves the operation, artifact, actor and time of a call alone.
SameCall(c) ==
    /\ call' \in [Clients -> Call \cup {Idle}]
    /\ call'[c].op = call[c].op
    /\ call'[c].art = call[c].art
    /\ call'[c].actor = call[c].actor
    /\ call'[c].at = call[c].at

\* A call that moves to its next step leaves the others idle and keeps what it is
\* a call for.
LEMMA AdvanceStep ==
    ASSUME NEW c \in Clients, NEW s \in Steps, call \in [Clients -> Call \cup {Idle}],
           call[c] \in Call, call' = [call EXCEPT ![c].step = s]
    PROVE  /\ SameCall(c)
           /\ call'[c].step = s
           /\ \A e \in Clients \ {c} : call'[e] = call[e]
  <1> DEFINE q == [call[c] EXCEPT !.step = s]
  <1>1. q \in Call
    BY DEF Call
  <1>2. /\ q.step = s /\ q.op = call[c].op /\ q.art = call[c].art
        /\ q.actor = call[c].actor /\ q.at = call[c].at
    BY DEF Call
  <1>3. call' = [call EXCEPT ![c] = q]
    OBVIOUS
  <1> HIDE DEF q
  <1>4. call'[c] = q /\ \A e \in Clients \ {c} : call'[e] = call[e]
    BY <1>3
  <1>5. QED
    BY <1>1, <1>2, <1>3, <1>4 DEF SameCall

\* Once its intent is written, or adopted, a call agrees with the intent on disk.
LEMMA WriteIntentStep ==
    ASSUME IInv, NEW c \in Clients, WriteIntent(c) PROVE IInv'
  <1> USE ArtifactAssumption
  <1> DEFINE r == call[c]
             fresh == [op |-> r.op, actor |-> r.actor, at |-> r.at,
                       until |-> IF r.op = "tombstone" THEN r.at + Window ELSE 0]
  <1>1. /\ call \in [Clients -> Call \cup {Idle}]
        /\ intent \in [Artifacts -> Receipt \cup {NULL}]
        /\ r.step = "intent" /\ r \in Call
        /\ \A e \in Clients \ {c} : call[e] = Idle
    BY Alone DEF IInv, TypeOK, WriteIntent, Idle
  <1>2. fresh \in Receipt
    BY <1>1 DEF Receipt, Call
  <1>3. /\ intent' = [intent EXCEPT ![r.art] = IF @ # NULL THEN @ ELSE fresh]
        /\ UNCHANGED <<clock, catalog, event, anchor, manifests, blobs>>
        /\ call' = [call EXCEPT ![c].step = IF r.op = "admit" THEN "blobs" ELSE "event"]
    BY DEF WriteIntent
  <1>4. /\ call'[c].step = IF r.op = "admit" THEN "blobs" ELSE "event"
        /\ SameCall(c)
        /\ \A e \in Clients \ {c} : call'[e] = Idle
    <2> DEFINE next == IF r.op = "admit" THEN "blobs" ELSE "event"
    <2>1. next \in Steps /\ call' = [call EXCEPT ![c].step = next]
      BY <1>3 DEF Steps
    <2> HIDE DEF next
    <2>2. SameCall(c) /\ call'[c].step = next /\ \A e \in Clients \ {c} : call'[e] = call[e]
      BY <1>1, <2>1, AdvanceStep
    <2>3. QED
      BY <1>1, <2>2 DEF next
  <1>5. /\ Ready(r.art, r.op, r.at) /\ r.at <= clock
        /\ Resumable(r.art, r.op, r.actor)
    BY <1>1 DEF IInv, CallFits, Writing
  <1>6. /\ intent'[r.art] \in Receipt
        /\ intent'[r.art].op = r.op /\ intent'[r.art].actor = r.actor
    BY <1>1, <1>2, <1>3, <1>5 DEF Call, Resumable
  <1>7. TypeOK'
    BY <1>1, <1>2, <1>3, <1>4 DEF IInv, TypeOK, SameCall
  <1>8. ResumedCallAgrees'
    <2>1. \A a \in Artifacts : /\ event'[a] # NULL => event'[a] = intent'[a]
                               /\ a \in anchor' => event'[a] # NULL
      BY <1>1, <1>3 DEF IInv, ResumedCallAgrees
    <2>2. intent'[r.art] = [op |-> r.op, actor |-> r.actor, at |-> intent'[r.art].at,
                            until |-> intent'[r.art].until]
      BY <1>6 DEF Receipt
    <2>3. QED
      BY <1>1, <1>4, <1>6, <2>1, <2>2 DEF ResumedCallAgrees, Idle, Written, SameCall
  <1>9. CommittedBytesPresent'
    BY <1>3 DEF IInv, CommittedBytesPresent, Live, State, Verified
  <1>10. RestoreInTime'
    BY <1>1, <1>3, <1>5 DEF IInv, RestoreInTime, State, Deadline, Ready, Call
  <1>11. Serial'
    BY <1>4 DEF Serial
  <1>12. \A e \in Clients : CallFits(e)'
    BY <1>1, <1>3, <1>4, <1>5 DEF CallFits, Writing, Idle, Ready, State, Deadline, SameCall
  <1>13. QED
    BY <1>7, <1>8, <1>9, <1>10, <1>11, <1>12 DEF IInv

\* The common part of the proofs below: a call that is not idle is a record, the
\* others are idle, and the invariant speaks of the disk it finds.
LEMMA Running ==
    ASSUME IInv, NEW c \in Clients, call[c].step \in Steps
    PROVE  /\ call \in [Clients -> Call \cup {Idle}]
           /\ call[c] \in Call
           /\ \A e \in Clients \ {c} : call[e] = Idle
           /\ CallFits(c)
  <1>1. call \in [Clients -> Call \cup {Idle}] /\ call[c] # Idle
    BY DEF IInv, TypeOK, Idle, Steps
  <1>2. QED
    BY <1>1, Alone DEF IInv

\* Writing a declared file only adds bytes.
LEMMA WriteBlobStep ==
    ASSUME IInv, NEW c \in Clients, NEW d \in Digests, WriteBlob(c, d) PROVE IInv'
  <1> USE ArtifactAssumption DEF WriteBlob
  <1>1. TypeOK'
    BY DEF IInv, TypeOK
  <1>2. ResumedCallAgrees' /\ Serial' /\ RestoreInTime'
    BY DEF IInv, ResumedCallAgrees, Serial, RestoreInTime, State, Deadline, Written
  <1>3. CommittedBytesPresent'
    BY DEF IInv, CommittedBytesPresent, Live, State, Verified
  <1>4. \A e \in Clients : CallFits(e)'
    BY DEF IInv, CallFits, Ready, State, Deadline, Resumable, Verified
  <1>5. QED
    BY <1>1, <1>2, <1>3, <1>4 DEF IInv

\* The manifest is written when every declared byte is there.
LEMMA WriteManifestStep ==
    ASSUME IInv, NEW c \in Clients, WriteManifest(c) PROVE IInv'
  <1> USE ArtifactAssumption DEF WriteManifest
  <1>1. call[c].step = "blobs" /\ "blobs" \in Steps /\ "event" \in Steps
    BY DEF Steps
  <1>2. /\ call \in [Clients -> Call \cup {Idle}] /\ call[c] \in Call
        /\ \A e \in Clients \ {c} : call[e] = Idle
        /\ CallFits(c)
    BY <1>1, Running
  <1>3. /\ SameCall(c) /\ call'[c].step = "event"
        /\ \A e \in Clients \ {c} : call'[e] = Idle
    BY <1>1, <1>2, AdvanceStep
  <1>4. TypeOK'
    BY <1>2, <1>3 DEF IInv, TypeOK, SameCall, Call
  <1>5. ResumedCallAgrees'
    BY <1>1, <1>3 DEF IInv, ResumedCallAgrees, Idle, Written, SameCall
  <1>6. CommittedBytesPresent' /\ RestoreInTime'
    BY DEF IInv, CommittedBytesPresent, RestoreInTime, Live, State, Verified, Deadline
  <1>7. Serial'
    BY <1>3 DEF Serial
  <1>8. \A e \in Clients : CallFits(e)'
    BY <1>1, <1>2, <1>3 DEF CallFits, Writing, Idle, Ready, State, Deadline, SameCall, Verified
  <1>9. QED
    BY <1>4, <1>5, <1>6, <1>7, <1>8 DEF IInv

\* The receipt written past the head is the one the intent announced.
LEMMA WriteEventStep ==
    ASSUME IInv, NEW c \in Clients, WriteEvent(c) PROVE IInv'
  <1> USE ArtifactAssumption
  <1> DEFINE r == call[c]
             new == Written(r.art, r.op, r.actor)
  <1>1. r.step = "event" /\ "event" \in Steps /\ "anchor" \in Steps
    BY DEF WriteEvent, Steps
  <1>2. /\ call \in [Clients -> Call \cup {Idle}] /\ r \in Call
        /\ \A e \in Clients \ {c} : call[e] = Idle
        /\ CallFits(c)
    BY <1>1, Running
  <1>3. /\ event' = [event EXCEPT ![r.art] = new]
        /\ call' = [call EXCEPT ![c].step = "anchor"]
        /\ UNCHANGED <<clock, catalog, intent, anchor, manifests, blobs>>
    BY DEF WriteEvent
  <1>4. /\ SameCall(c) /\ call'[c].step = "anchor"
        /\ \A e \in Clients \ {c} : call'[e] = Idle
    BY <1>1, <1>2, <1>3, AdvanceStep
  <1>5. /\ r.art \in Artifacts
        /\ intent[r.art] = new
        /\ new \in Receipt
    BY <1>1, <1>2 DEF IInv, ResumedCallAgrees, TypeOK, Call
  <1>6. TypeOK'
    BY <1>3, <1>4, <1>5 DEF IInv, TypeOK, SameCall
  <1>7. ResumedCallAgrees'
    <2>1. \A a \in Artifacts : /\ event'[a] # NULL => event'[a] = intent'[a]
                               /\ a \in anchor' => event'[a] # NULL
      BY <1>3, <1>5 DEF IInv, ResumedCallAgrees, TypeOK
    <2>2. QED
      BY <1>3, <1>4, <1>5, <2>1 DEF ResumedCallAgrees, Idle, Written, SameCall
  <1>8. CommittedBytesPresent' /\ RestoreInTime'
    BY <1>3 DEF IInv, CommittedBytesPresent, RestoreInTime, Live, State, Verified, Deadline
  <1>9. Serial'
    BY <1>4 DEF Serial
  <1>10. \A e \in Clients : CallFits(e)'
    <2>1. event'[r.art] # NULL
      BY <1>3, <1>5 DEF IInv, TypeOK
    <2>2. QED
      BY <1>1, <1>2, <1>3, <1>4, <2>1 DEF CallFits, Writing, Idle, Ready, State, Deadline,
                                          SameCall, Verified
  <1>11. QED
    BY <1>6, <1>7, <1>8, <1>9, <1>10 DEF IInv

\* An anchor is written next to its receipt.
LEMMA WriteAnchorStep ==
    ASSUME IInv, NEW c \in Clients, WriteAnchor(c) PROVE IInv'
  <1> USE ArtifactAssumption DEF WriteAnchor
  <1>1. call[c].step = "anchor" /\ "anchor" \in Steps /\ "catalog" \in Steps
    BY DEF Steps
  <1>2. /\ call \in [Clients -> Call \cup {Idle}] /\ call[c] \in Call
        /\ \A e \in Clients \ {c} : call[e] = Idle
        /\ CallFits(c)
    BY <1>1, Running
  <1>3. /\ SameCall(c) /\ call'[c].step = "catalog"
        /\ \A e \in Clients \ {c} : call'[e] = Idle
    BY <1>1, <1>2, AdvanceStep
  <1>4. TypeOK'
    BY <1>2, <1>3 DEF IInv, TypeOK, SameCall, Call
  <1>5. ResumedCallAgrees'
    BY <1>1, <1>2, <1>3 DEF IInv, ResumedCallAgrees, Idle, Written, SameCall, CallFits
  <1>6. CommittedBytesPresent' /\ RestoreInTime'
    BY DEF IInv, CommittedBytesPresent, RestoreInTime, Live, State, Verified, Deadline
  <1>7. Serial'
    BY <1>3 DEF Serial
  <1>8. \A e \in Clients : CallFits(e)'
    BY <1>1, <1>2, <1>3 DEF CallFits, Writing, Idle, Ready, State, Deadline, SameCall, Verified
  <1>9. QED
    BY <1>4, <1>5, <1>6, <1>7, <1>8 DEF IInv

\* The receipt a commit makes the head is the one its call announced.
LEMMA CommittedReceipt ==
    ASSUME IInv, NEW c \in Clients, Commit(c)
    PROVE  LET r == call[c] IN
           /\ r \in Call
           /\ event[r.art] \in Receipt
           /\ event[r.art] = intent[r.art]
           /\ event[r.art].op = r.op
           /\ catalog[r.art].revision \in Nat
           /\ catalog' = [catalog EXCEPT ![r.art] = [revision |-> catalog[r.art].revision + 1,
                                                     head |-> event[r.art]]]
           /\ \A a \in Artifacts : a = r.art => State(a)' = Target(r.op)
           /\ \A a \in Artifacts \ {r.art} : State(a)' = State(a) /\ Deadline(a)' = Deadline(a)
  <1> DEFINE r == call[c]
  <1>1. r.step = "catalog" /\ "catalog" \in Steps
    BY DEF Commit, Steps
  <1>2. r \in Call /\ CallFits(c) /\ r.art \in Artifacts
    BY <1>1, Running DEF Call
  <1>3. /\ event[r.art] # NULL
        /\ event[r.art] = intent[r.art]
        /\ intent[r.art] = Written(r.art, r.op, r.actor)
    BY <1>1, <1>2 DEF CallFits, IInv, ResumedCallAgrees
  <1>4. event[r.art] \in Receipt /\ event[r.art].op = r.op
    BY <1>2, <1>3 DEF IInv, TypeOK, Written
  <1>5. /\ catalog \in [Artifacts -> Entry]
        /\ catalog[r.art].revision \in Nat
        /\ catalog' = [catalog EXCEPT ![r.art] = [revision |-> catalog[r.art].revision + 1,
                                                  head |-> event[r.art]]]
    BY <1>2 DEF IInv, TypeOK, Commit, Entry
  <1>6. /\ catalog'[r.art].revision # 0
        /\ catalog'[r.art].head = event[r.art]
        /\ \A a \in Artifacts \ {r.art} : catalog'[a] = catalog[a]
    BY <1>2, <1>5
  <1>7. catalog'[r.art].head.op = r.op
    BY <1>4, <1>6
  <1>8. \A a \in Artifacts : a = r.art => State(a)' = Target(r.op)
    BY <1>6, <1>7 DEF State
  <1>9. \A a \in Artifacts \ {r.art} : State(a)' = State(a) /\ Deadline(a)' = Deadline(a)
    BY <1>6 DEF State, Deadline
  <1>10. QED
    BY <1>2, <1>3, <1>4, <1>5, <1>8, <1>9

\* The commit of a call keeps the invariant: an admission has its manifest and its
\* bytes, and nothing is left past the new head.
LEMMA CommitStep ==
    ASSUME IInv, NEW c \in Clients, Commit(c) PROVE IInv'
  <1> USE ArtifactAssumption
  <1> DEFINE r == call[c]
  <1>1. r.step = "catalog" /\ "catalog" \in Steps
    BY DEF Commit, Steps
  <1>2. /\ call \in [Clients -> Call \cup {Idle}] /\ r \in Call
        /\ \A e \in Clients \ {c} : call[e] = Idle
        /\ CallFits(c)
    BY <1>1, Running
  <1>3. /\ event[r.art] \in Receipt
        /\ event[r.art].op = r.op
        /\ catalog[r.art].revision \in Nat
        /\ catalog' = [catalog EXCEPT ![r.art] = [revision |-> catalog[r.art].revision + 1,
                                                  head |-> event[r.art]]]
        /\ \A a \in Artifacts : a = r.art => State(a)' = Target(r.op)
        /\ \A a \in Artifacts \ {r.art} : State(a)' = State(a) /\ Deadline(a)' = Deadline(a)
    BY CommittedReceipt
  <1>4. /\ intent' = [intent EXCEPT ![r.art] = NULL]
        /\ event' = [event EXCEPT ![r.art] = NULL]
        /\ anchor' = anchor \ {r.art}
        /\ UNCHANGED <<clock, manifests, blobs>>
    BY DEF Commit
  <1>5. /\ call'[c] = Idle \/ call'[c].step = "cleanup"
        /\ call'[c].step = "cleanup" => r.op = "finalize_delete" /\ call'[c].art = r.art
        /\ call' \in [Clients -> Call \cup {Idle}]
        /\ \A e \in Clients \ {c} : call'[e] = Idle
    <2>1. CASE r.op = "finalize_delete"
      <3>1. call' = [call EXCEPT ![c].step = "cleanup"] /\ "cleanup" \in Steps
        BY <1>2, <2>1 DEF Commit, Steps
      <3>2. QED
        BY <1>2, <2>1, <3>1, AdvanceStep DEF SameCall
    <2>2. CASE r.op # "finalize_delete"
      <3>1. call' = [call EXCEPT ![c] = Idle]
        BY <2>2 DEF Commit
      <3>2. QED
        BY <1>2, <3>1 DEF Idle
    <2>3. QED
      BY <2>1, <2>2
  <1>6. TypeOK'
    <2> DEFINE entry == [revision |-> catalog[r.art].revision + 1, head |-> event[r.art]]
    <2>1. catalog' \in [Artifacts -> Entry]
      <3>1. entry \in Entry
        BY <1>3 DEF Entry
      <3>2. catalog' = [catalog EXCEPT ![r.art] = entry]
        BY <1>3
      <3> HIDE DEF entry
      <3>3. QED
        BY <3>1, <3>2 DEF IInv, TypeOK
    <2>2. QED
      BY <1>4, <1>5, <2>1 DEF IInv, TypeOK
  <1>7. ResumedCallAgrees'
    BY <1>2, <1>4, <1>5 DEF IInv, TypeOK, ResumedCallAgrees, Idle, Call
  <1>8. CommittedBytesPresent'
    <2> SUFFICES ASSUME NEW a \in Artifacts, Live(a)'
                 PROVE  Verified(a)' /\ a \in manifests'
      BY DEF CommittedBytesPresent
    <2>1. CASE a # r.art
      BY <1>3, <1>4, <2>1 DEF IInv, CommittedBytesPresent, Live, Verified
    <2>2. CASE a = r.art /\ r.op = "admit"
      BY <1>1, <1>2, <1>4, <2>2 DEF CallFits, Verified
    <2>3. CASE a = r.art /\ r.op # "admit"
      <3>1. r.op \in {"archive", "restore", "tombstone"}
        BY <1>2, <1>3, <2>3 DEF Live, Target, Call, Operations
      <3>2. Live(a)
        BY <1>1, <1>2, <2>3, <3>1 DEF CallFits, Ready, Writing, Live
      <3>3. QED
        BY <1>4, <3>2 DEF IInv, CommittedBytesPresent, Verified
    <2>4. QED
      BY <2>1, <2>2, <2>3
  <1>9. RestoreInTime'
    BY <1>3, <1>4 DEF IInv, TypeOK, RestoreInTime
  <1>10. Serial'
    BY <1>5 DEF Serial
  <1>11. \A e \in Clients : CallFits(e)'
    BY <1>2, <1>3, <1>5 DEF CallFits, Writing, Idle, Target, Call
  <1>12. QED
    BY <1>6, <1>7, <1>8, <1>9, <1>10, <1>11 DEF IInv

\* A byte that is unlinked belongs to no artifact that still owns its files.
LEMMA UnlinkStep ==
    ASSUME IInv, NEW c \in Clients, NEW d \in Digests, Unlink(c, d) PROVE IInv'
  <1> USE ArtifactAssumption DEF Unlink
  <1>1. call[c].step = "cleanup" /\ "cleanup" \in Steps
    BY DEF Steps
  <1>2. /\ call \in [Clients -> Call \cup {Idle}] /\ call[c] \in Call
        /\ \A e \in Clients \ {c} : call[e] = Idle
        /\ CallFits(c)
    BY <1>1, Running
  <1>3. TypeOK'
    BY DEF IInv, TypeOK
  <1>4. ResumedCallAgrees' /\ Serial' /\ RestoreInTime'
    BY DEF IInv, ResumedCallAgrees, Serial, RestoreInTime, State, Deadline, Written
  <1>5. CommittedBytesPresent'
    <2> SUFFICES ASSUME NEW a \in Artifacts, Live(a)'
                 PROVE  Verified(a)' /\ a \in manifests'
      BY DEF CommittedBytesPresent
    <2>1. Live(a) /\ Verified(a) /\ a \in manifests
      BY DEF IInv, CommittedBytesPresent, Live, State
    <2>2. a # call[c].art
      BY <1>1, <1>2, <2>1 DEF CallFits, Live
    <2>3. d \notin Files[a]
      BY <2>1, <2>2 DEF OtherOwnedDigests
    <2>4. QED
      BY <2>1, <2>3 DEF Verified
  <1>6. \A e \in Clients : CallFits(e)'
    BY <1>1, <1>2 DEF CallFits, Ready, State, Deadline, Writing, Idle
  <1>7. QED
    BY <1>3, <1>4, <1>5, <1>6 DEF IInv

\* A call ends, having finished or because its process died.
LEMMA ReleaseStep ==
    ASSUME IInv, NEW c \in Clients, FinishCleanup(c) \/ Crash(c) PROVE IInv'
  <1> USE ArtifactAssumption
  <1>1. /\ call' = [call EXCEPT ![c] = Idle]
        /\ UNCHANGED <<clock, catalog, intent, event, anchor, manifests, blobs>>
    BY DEF FinishCleanup, Crash, disk
  <1>2. /\ call'[c] = Idle /\ \A e \in Clients \ {c} : call'[e] = call[e]
        /\ call' \in [Clients -> Call \cup {Idle}]
    BY <1>1 DEF IInv, TypeOK
  <1>3. TypeOK'
    BY <1>1, <1>2 DEF IInv, TypeOK
  <1>4. ResumedCallAgrees' /\ Serial'
    BY <1>1, <1>2 DEF IInv, ResumedCallAgrees, Serial, Idle, Written
  <1>5. CommittedBytesPresent' /\ RestoreInTime'
    BY <1>1 DEF IInv, CommittedBytesPresent, RestoreInTime, Live, State, Verified, Deadline
  <1>6. \A e \in Clients : CallFits(e)'
    BY <1>1, <1>2 DEF IInv, CallFits, Ready, State, Deadline, Resumable, Verified, Writing, Idle
  <1>7. QED
    BY <1>3, <1>4, <1>5, <1>6 DEF IInv

\* The passage of time touches nothing the invariant speaks of but the clock.
LEMMA TickStep == IInv /\ Tick => IInv'
  <1> SUFFICES ASSUME IInv, Tick PROVE IInv'
    OBVIOUS
  <1> USE ArtifactAssumption DEF Tick, disk
  <1>1. TypeOK'
    BY DEF IInv, TypeOK
  <1>2. ResumedCallAgrees' /\ Serial' /\ RestoreInTime' /\ CommittedBytesPresent'
    BY DEF IInv, ResumedCallAgrees, Serial, RestoreInTime, State, Deadline, Written,
           CommittedBytesPresent, Live, Verified
  <1>3. \A e \in Clients : CallFits(e)'
    BY DEF CallFits, LockFree, Idle, Writing
  <1>4. QED
    BY <1>1, <1>2, <1>3 DEF IInv

\* Every step of the repository keeps the invariant: one lemma per action.
LEMMA NextIInv == IInv /\ [Next]_vars => IInv'
  <1> SUFFICES ASSUME IInv, [Next]_vars PROVE IInv'
    OBVIOUS
  <1>1. CASE Tick
    BY <1>1, TickStep
  <1>2. ASSUME NEW c \in Clients, NEW op \in Operations, NEW a \in Artifacts,
               NEW actor \in Actors, NEW at \in 0..MaxTime, Enter(c, op, a, actor, at)
        PROVE  IInv'
    <2>1. at \in Nat /\ Start(c, "intent", op, a, actor, at) /\ Resumable(a, op, actor)
      BY <1>2, ArtifactAssumption DEF Enter
    <2>2. Ready(a, op, at)
      <3>1. op = "admit" => State(a) = "absent"
        BY <1>2 DEF Enter, Eligible
      <3>2. op = "archive" => State(a) = "active"
        BY <1>2 DEF Enter, Eligible
      <3>3. op = "restore" =>
              State(a) = "archived" \/ (State(a) = "tombstoned" /\ at <= Deadline(a))
        BY <1>2 DEF Enter, Eligible
      <3>4. op = "tombstone" => State(a) \in {"active", "archived"}
        BY <1>2 DEF Enter, Eligible
      <3>5. op = "finalize_delete" => State(a) = "tombstoned" /\ at >= Deadline(a)
        BY <1>2 DEF Enter, Eligible
      <3>6. QED
        BY <3>1, <3>2, <3>3, <3>4, <3>5 DEF Ready
    <2>3. QED
      BY <2>1, <2>2, StartStep
  <1>3. ASSUME NEW c \in Clients, NEW op \in Operations, NEW a \in Artifacts,
               NEW actor \in Actors, NEW at \in 0..MaxTime, EnterCleanup(c, op, a, actor, at)
        PROVE  IInv'
    <2>1. at \in Nat /\ Start(c, "cleanup", op, a, actor, at) /\ State(a) = "deleted"
      BY <1>3, ArtifactAssumption DEF EnterCleanup, CleanupAccepted
    <2>2. QED
      BY <2>1, StartStep
  <1>4. ASSUME NEW c \in Clients, ClientStep(c) PROVE IInv'
    BY <1>4, WriteIntentStep, WriteBlobStep, WriteManifestStep, WriteEventStep,
       WriteAnchorStep, CommitStep, UnlinkStep, ReleaseStep DEF ClientStep
  <1>5. CASE UNCHANGED vars
    BY <1>5 DEF vars, disk, IInv, TypeOK, ResumedCallAgrees, CommittedBytesPresent, Serial,
                CallFits, RestoreInTime, Ready, Live, State, Deadline, Verified, Resumable,
                Written
  <1>6. QED
    BY <1>1, <1>2, <1>3, <1>4, <1>5 DEF Next

-----------------------------------------------------------------------------
\* IInv holds of every state the repository reaches.
THEOREM Inductive == Spec => []IInv
  BY InitIInv, NextIInv, PTL DEF Spec

\* Catalog, intents, receipts, anchors and calls keep their types.
THEOREM TypeCorrect == Spec => []TypeOK
  <1>1. IInv => TypeOK
    BY DEF IInv
  <1>2. QED
    BY <1>1, Inductive, PTL

\* No interleaving of admissions, finalizations and crashes leaves the catalog
\* listing an artifact that is not deleted without its manifest and its bytes.
THEOREM BytesSafe == Spec => []CommittedBytesPresent
  <1>1. IInv => CommittedBytesPresent
    BY DEF IInv
  <1>2. QED
    BY <1>1, Inductive, PTL

\* What crashed calls left past the head never contradicts the call that
\* resumes them.
THEOREM ResumptionAgrees == Spec => []ResumedCallAgrees
  <1>1. IInv => ResumedCallAgrees
    BY DEF IInv
  <1>2. QED
    BY <1>1, Inductive, PTL

\* A step that is no commit leaves every lifecycle state alone.
LEMMA OnlyCommitMoves ==
    ASSUME IInv, [Next]_vars, ~ \E c \in Clients : Commit(c)
    PROVE  catalog' = catalog
  <1>1. CASE Tick \/ UNCHANGED vars
    BY <1>1 DEF Tick, disk, vars
  <1>2. ASSUME NEW c \in Clients, NEW op \in Operations, NEW a \in Artifacts,
               NEW actor \in Actors, NEW at \in 0..MaxTime,
               Enter(c, op, a, actor, at) \/ EnterCleanup(c, op, a, actor, at)
        PROVE  catalog' = catalog
    BY <1>2 DEF Enter, EnterCleanup, Start, disk
  <1>3. ASSUME NEW c \in Clients, ClientStep(c) PROVE catalog' = catalog
    BY <1>3 DEF ClientStep, WriteIntent, WriteBlob, WriteManifest, WriteEvent, WriteAnchor,
                Unlink, FinishCleanup, Crash, disk
  <1>4. QED
    BY <1>1, <1>2, <1>3 DEF Next

\* One step: a tombstone is finalized from its deadline on, and restored only
\* by a request that was made up to it.
LEMMA DeadlineStep ==
    ASSUME IInv, [Next]_vars, NEW a \in Artifacts, State(a) = "tombstoned"
    PROVE  /\ State(a)' = "deleted" => clock >= Deadline(a)
           /\ State(a)' = "active" => catalog'[a].head.at <= Deadline(a)
  <1>1. CASE ~ \E c \in Clients : Commit(c)
    <2>1. catalog' = catalog
      BY <1>1, OnlyCommitMoves
    <2>2. State(a)' = "tombstoned"
      BY <2>1 DEF State
    <2>3. QED
      BY <2>2
  <1>2. ASSUME NEW c \in Clients, Commit(c)
        PROVE  /\ State(a)' = "deleted" => clock >= Deadline(a)
               /\ State(a)' = "active" => catalog'[a].head.at <= Deadline(a)
    <2> DEFINE r == call[c]
    <2>1. /\ r \in Call /\ r.art \in Artifacts
          /\ event[r.art] \in Receipt
          /\ event[r.art] = intent[r.art]
          /\ event[r.art].op = r.op
          /\ catalog' = [catalog EXCEPT ![r.art] = [revision |-> catalog[r.art].revision + 1,
                                                    head |-> event[r.art]]]
          /\ \A b \in Artifacts : b = r.art => State(b)' = Target(r.op)
          /\ \A b \in Artifacts \ {r.art} : State(b)' = State(b)
      BY <1>2, CommittedReceipt DEF Call
    <2>2. Ready(r.art, r.op, r.at) /\ r.at <= clock
      BY <1>2 DEF IInv, CallFits, Commit, Writing
    <2>3. CASE a # r.art
      BY <2>1, <2>3
    <2>4. CASE a = r.art
      <3>1. State(a)' = "deleted" => clock >= Deadline(a)
        <4>1. Target(r.op) = "deleted" => r.op = "finalize_delete"
          BY <2>1 DEF Target, Call, Operations
        <4>2. r.at \in Nat /\ clock \in Nat
          BY <2>1 DEF IInv, TypeOK, Call
        <4>3. Deadline(a) \in Nat
          <5>1. catalog[a] \in Entry /\ catalog[a].revision # 0
            BY DEF IInv, TypeOK, State
          <5>2. QED
            BY <5>1 DEF Entry, Receipt, Deadline
        <4>4. QED
          BY <2>1, <2>2, <2>4, <4>1, <4>2, <4>3 DEF Ready
      <3>2. State(a)' = "active" => catalog'[a].head.at <= Deadline(a)
        <4>1. Target(r.op) = "active" => r.op \in {"admit", "restore"}
          BY <2>1 DEF Target, Call, Operations
        <4>2. r.op # "admit"
          BY <2>2, <2>4 DEF Ready
        <4>3. catalog'[a].head = event[a]
          BY <2>1, <2>4 DEF IInv, TypeOK
        <4>4. r.op = "restore" => event[a].at <= Deadline(a)
          BY <2>1, <2>4, ArtifactAssumption DEF IInv, RestoreInTime
        <4>5. QED
          BY <2>1, <2>4, <4>1, <4>2, <4>3, <4>4
      <3>3. QED
        BY <3>1, <3>2
    <2>5. QED
      BY <2>3, <2>4
  <1>3. QED
    BY <1>1, <1>2

\* Finalization and restoration are separated by the recovery deadline in every
\* behaviour of the repository.
THEOREM DeadlinesHold == Spec => DeadlineSeparates
  <1>1. IInv /\ [Next]_vars =>
          [\A a \in Artifacts : State(a) = "tombstoned" =>
             /\ State(a)' = "deleted" => clock >= Deadline(a)
             /\ State(a)' = "active" => catalog'[a].head.at <= Deadline(a)]_vars
    BY DeadlineStep
  <1>2. QED
    BY <1>1, Inductive, PTL DEF Spec, DeadlineSeparates

-----------------------------------------------------------------------------
(* The repository implements ArtifactLifecycle.                             *)

\* What the refinement needs besides IInv: an intent keeps the time of the first
\* request and the deadline counted from it, and what a deletion step checked
\* of protection and references still holds when it commits.
IntentInTime(a) ==
    intent[a] # NULL =>
        /\ intent[a].at <= clock
        /\ intent[a].op = "tombstone" => intent[a].until = intent[a].at + Window

StillDeletable(c) ==
    call[c].step \in Writing /\ call[c].op \in {"tombstone", "finalize_delete"} =>
        call[c].art \notin Protected /\ Referrers(call[c].art) = {}

RInv ==
    /\ \A a \in Artifacts : IntentInTime(a)
    /\ \A c \in Clients : StillDeletable(c)

LEMMA InitRInv == Init => RInv
  BY DEF Init, RInv, IntentInTime, StillDeletable, Idle, Writing

\* Only Tick moves the clock, by one.
LEMMA ClockTicks == [Next]_vars => clock' = clock \/ clock' = clock + 1
  <1> SUFFICES ASSUME [Next]_vars PROVE clock' = clock \/ clock' = clock + 1
    OBVIOUS
  <1>1. CASE Tick
    BY <1>1 DEF Tick
  <1>2. ASSUME NEW c \in Clients, NEW op \in Operations, NEW a \in Artifacts,
               NEW actor \in Actors, NEW at \in 0..MaxTime,
               Enter(c, op, a, actor, at) \/ EnterCleanup(c, op, a, actor, at)
        PROVE  clock' = clock
    BY <1>2 DEF Enter, EnterCleanup, Start
  <1>3. ASSUME NEW c \in Clients, ClientStep(c) PROVE clock' = clock
    BY <1>3 DEF ClientStep, WriteIntent, WriteBlob, WriteManifest, WriteEvent, WriteAnchor,
                Commit, Unlink, FinishCleanup, Crash
  <1>4. CASE UNCHANGED vars
    BY <1>4 DEF vars
  <1>5. QED
    BY <1>1, <1>2, <1>3, <1>4 DEF Next

\* An intent is written with the time of its call; nothing else changes one.
LEMMA IntentsInTime ==
    ASSUME IInv, RInv, [Next]_vars, NEW a \in Artifacts PROVE IntentInTime(a)'
  <1>1. clock \in Nat /\ clock' \in Nat /\ clock <= clock'
    <2>1. clock' = clock \/ clock' = clock + 1
      BY ClockTicks
    <2>2. clock \in Nat
      BY DEF IInv, TypeOK
    <2>3. QED
      BY <2>1, <2>2
  <1>2. intent[a] \in Receipt \cup {NULL} /\ IntentInTime(a)
    BY DEF IInv, TypeOK, RInv
  <1>3. ASSUME NEW c \in Clients, WriteIntent(c) PROVE IntentInTime(a)'
    <2> DEFINE r == call[c]
               fresh == [op |-> r.op, actor |-> r.actor, at |-> r.at,
                         until |-> IF r.op = "tombstone" THEN r.at + Window ELSE 0]
    <2>1. r.step = "intent" /\ "intent" \in Steps /\ "intent" \in Writing
      BY <1>3 DEF WriteIntent, Steps, Writing
    <2>2. r \in Call /\ r.at <= clock
      BY <2>1, Running DEF CallFits
    <2>3. intent' = [intent EXCEPT ![r.art] = IF @ # NULL THEN @ ELSE fresh] /\ clock' = clock
      BY <1>3 DEF WriteIntent
    <2>4. intent'[a] = intent[a] \/ intent'[a] = fresh
      BY <2>3 DEF IInv, TypeOK
    <2>5. fresh.at = r.at /\ fresh.op = r.op
          /\ (r.op = "tombstone" => fresh.until = r.at + Window)
      OBVIOUS
    <2> HIDE DEF fresh, r
    <2>6. QED
      BY <1>2, <2>2, <2>3, <2>4, <2>5 DEF IntentInTime
  <1>4. ASSUME NEW c \in Clients, Commit(c) PROVE IntentInTime(a)'
    <2>1. intent'[a] = NULL \/ intent'[a] = intent[a]
      BY <1>4 DEF Commit, IInv, TypeOK
    <2>2. QED
      BY <1>2, <1>4, <2>1 DEF IntentInTime, Commit
  <1>5. CASE intent' = intent
    <2>1. CASE intent[a] = NULL
      BY <1>5, <2>1 DEF IntentInTime
    <2>2. CASE intent[a] # NULL
      <3>1. intent[a].at \in Nat
        BY <1>2, <2>2 DEF Receipt
      <3>2. QED
        BY <1>1, <1>2, <1>5, <2>2, <3>1 DEF IntentInTime
    <2>3. QED
      BY <2>1, <2>2
  <1>6. QED
    BY <1>3, <1>4, <1>5
       DEF Next, vars, disk, Tick, Enter, EnterCleanup, Start, ClientStep, WriteBlob,
           WriteManifest, WriteEvent, WriteAnchor, Unlink, FinishCleanup, Crash

\* A call that gets the lock was let in by the lifecycle rule; while it holds the
\* lock nobody else replaces the catalog.
LEMMA CallsStillDeletable ==
    ASSUME IInv, RInv, [Next]_vars, NEW e \in Clients PROVE StillDeletable(e)'
  <1>0. /\ StillDeletable(e)
        /\ call \in [Clients -> Call \cup {Idle}]
    BY DEF RInv, IInv, TypeOK
  <1>1. ASSUME NEW c \in Clients, NEW op \in Operations, NEW a \in Artifacts,
               NEW actor \in Actors, NEW at \in 0..MaxTime, Enter(c, op, a, actor, at)
        PROVE  StillDeletable(e)'
    <2>1. op \in {"tombstone", "finalize_delete"} => a \notin Protected /\ Referrers(a) = {}
      <3>1. CASE op = "tombstone"
        BY <1>1, <3>1 DEF Enter, Eligible, Deletable
      <3>2. CASE op = "finalize_delete"
        BY <1>1, <3>2 DEF Enter, Eligible, Deletable
      <3>3. QED
        BY <3>1, <3>2
    <2>2. /\ call' = [call EXCEPT ![c] = [step |-> "intent", op |-> op, art |-> a,
                                          actor |-> actor, at |-> at]]
          /\ catalog' = catalog
      BY <1>1 DEF Enter, Start, disk
    <2>3. CASE e = c
      BY <1>0, <2>1, <2>2, <2>3 DEF StillDeletable, Referrers, State
    <2>4. CASE e # c
      BY <1>0, <2>2, <2>4 DEF StillDeletable, Referrers, State
    <2>5. QED
      BY <2>3, <2>4
  <1>2. ASSUME NEW c \in Clients, Commit(c) PROVE StillDeletable(e)'
    <2>1. call[c].step = "catalog" /\ "catalog" \in Steps
      BY <1>2 DEF Commit, Steps
    <2>2. \A d \in Clients \ {c} : call[d] = Idle
      BY <2>1, Running
    <2>3. call'[e].step \notin Writing
      <3>1. CASE e = c
        <4>1. call[c] \in Call
          BY <2>1, Running
        <4>2. CASE call[c].op = "finalize_delete"
          BY <1>0, <1>2, <3>1, <4>1, <4>2 DEF Commit, Call, Writing
        <4>3. CASE call[c].op # "finalize_delete"
          BY <1>0, <1>2, <3>1, <4>3 DEF Commit, Idle, Writing
        <4>4. QED
          BY <4>2, <4>3
      <3>2. CASE e # c
        BY <1>0, <1>2, <2>2, <3>2 DEF Commit, Idle, Writing
      <3>3. QED
        BY <3>1, <3>2
    <2>4. QED
      BY <2>3 DEF StillDeletable
  <1>3. ASSUME NEW c \in Clients, WriteIntent(c) \/ WriteManifest(c) \/ WriteEvent(c) \/ WriteAnchor(c)
        PROVE  StillDeletable(e)'
    <2>1. call[c].step \in Writing /\ call[c].step \in Steps
      BY <1>3 DEF WriteIntent, WriteManifest, WriteEvent, WriteAnchor, Writing, Steps
    <2>2. call[c] \in Call
      BY <2>1, Running
    <2>3. PICK s \in Steps : call' = [call EXCEPT ![c].step = s]
      BY <1>3 DEF WriteIntent, WriteManifest, WriteEvent, WriteAnchor, Steps
    <2>4. SameCall(c) /\ \A d \in Clients \ {c} : call'[d] = call[d]
      BY <1>0, <2>2, <2>3, AdvanceStep
    <2>5. catalog' = catalog
      BY <1>3 DEF WriteIntent, WriteManifest, WriteEvent, WriteAnchor
    <2>6. Referrers(call[e].art)' = Referrers(call'[e].art)
      BY <2>5 DEF Referrers, State
    <2>7. CASE e = c
      BY <1>0, <2>1, <2>4, <2>6, <2>7 DEF StillDeletable, SameCall
    <2>8. CASE e # c
      BY <1>0, <2>4, <2>6, <2>8 DEF StillDeletable
    <2>9. QED
      BY <2>7, <2>8
  <1>4. ASSUME catalog' = catalog, call'[e] = call[e] \/ call'[e].step \notin Writing
        PROVE  StillDeletable(e)'
    BY <1>0, <1>4 DEF StillDeletable, Referrers, State
  <1>5. ASSUME NEW c \in Clients, NEW op \in Operations, NEW a \in Artifacts,
               NEW actor \in Actors, NEW at \in 0..MaxTime, EnterCleanup(c, op, a, actor, at)
        PROVE  StillDeletable(e)'
    <2>1. call'[e] = call[e] \/ call'[e].step = "cleanup"
      BY <1>0, <1>5 DEF EnterCleanup, Start
    <2>2. QED
      BY <1>4, <1>5, <2>1 DEF EnterCleanup, Start, disk, Writing
  <1>6. ASSUME NEW c \in Clients, FinishCleanup(c) \/ Crash(c) PROVE StillDeletable(e)'
    <2>1. call'[e] = call[e] \/ call'[e] = Idle
      BY <1>0, <1>6 DEF FinishCleanup, Crash
    <2>2. QED
      BY <1>4, <1>6, <2>1 DEF FinishCleanup, Crash, disk, Idle, Writing
  <1>7. ASSUME NEW c \in Clients, NEW d \in Digests, WriteBlob(c, d) \/ Unlink(c, d)
        PROVE  StillDeletable(e)'
    BY <1>4, <1>7 DEF WriteBlob, Unlink
  <1>8. CASE Tick \/ UNCHANGED vars
    BY <1>4, <1>8 DEF Tick, disk, vars
  <1>9. QED
    BY <1>1, <1>2, <1>3, <1>5, <1>6, <1>7, <1>8 DEF Next, ClientStep

LEMMA NextRInv == IInv /\ RInv /\ [Next]_vars => RInv'
  BY IntentsInTime, CallsStillDeletable DEF RInv

LEMMA InitImplements == Init => Lifecycle!Init
  <1> SUFFICES ASSUME Init PROVE Lifecycle!Init
    OBVIOUS
  <1>1. \A a \in Artifacts : State(a) = "absent"
    BY DEF Init, State
  <1>2. QED
    BY <1>1 DEF Init, Lifecycle!Init, Live

\* A commit is the atomic operation; time passes in both; every other step is
\* invisible.
LEMMA StepImplements ==
    IInv /\ IInv' /\ RInv /\ [Next]_vars =>
        [Lifecycle!Next]_<<clock, [a \in Artifacts |-> State(a)],
                           [a \in Artifacts |-> IF State(a) = "tombstoned" THEN Deadline(a) ELSE 0],
                           {a \in Artifacts : Live(a) /\ Verified(a)}>>
  <1> DEFINE S == [a \in Artifacts |-> State(a)]
             D == [a \in Artifacts |-> IF State(a) = "tombstoned" THEN Deadline(a) ELSE 0]
             B == {a \in Artifacts : Live(a) /\ Verified(a)}
  <1> SUFFICES ASSUME IInv, IInv', RInv, [Next]_vars
               PROVE  Lifecycle!Next \/ <<clock, S, D, B>>' = <<clock, S, D, B>>
    OBVIOUS
  <1>1. B = {a \in Artifacts : Live(a)} /\ B' = {a \in Artifacts : Live(a)}'
    BY DEF IInv, CommittedBytesPresent
  <1>2. CASE catalog' = catalog
    <2>1. S' = S /\ D' = D /\ B' = B
      <3>1. \A a \in Artifacts : State(a)' = State(a) /\ Deadline(a)' = Deadline(a)
        BY <1>2 DEF State, Deadline
      <3>2. \A a \in Artifacts : Live(a)' <=> Live(a)
        BY <3>1 DEF Live
      <3>3. QED
        BY <1>1, <3>1, <3>2
    <2>2. clock' = clock \/ clock' = clock + 1
      BY ClockTicks
    <2> HIDE DEF S, D, B
    <2>3. CASE clock' = clock
      BY <2>1, <2>3
    <2>4. CASE clock' = clock + 1
      <3>1. Lifecycle!Tick
        BY <2>1, <2>4 DEF Lifecycle!Tick, S, D, B
      <3>2. QED
        BY <3>1 DEF Lifecycle!Next
    <2>5. QED
      BY <2>2, <2>3, <2>4
  <1>3. ASSUME NEW c \in Clients, Commit(c) PROVE Lifecycle!Next
    <2>0. PICK a, op, at, until : /\ a = call[c].art /\ op = call[c].op
                                  /\ at = event[call[c].art].at
                                  /\ until = event[call[c].art].until
      OBVIOUS
    <2>1. call[c].step = "catalog" /\ call[c].step \in Writing /\ call[c].step \in Steps
      BY <1>3 DEF Commit, Steps, Writing
    <2>2. /\ a \in Artifacts /\ op \in Operations /\ call[c].at \in Nat
          /\ Ready(a, op, call[c].at) /\ call[c].at <= clock
          /\ op \in {"tombstone", "finalize_delete"} => a \notin Protected /\ Referrers(a) = {}
      BY <2>0, <2>1, Running DEF CallFits, Call, RInv, StillDeletable
    <2>3. /\ event[a] \in Receipt
          /\ event[a] = intent[a]
          /\ event[a].op = op
          /\ catalog[a].revision \in Nat
          /\ catalog' = [catalog EXCEPT ![a] = [revision |-> catalog[a].revision + 1,
                                                head |-> event[a]]]
          /\ State(a)' = Target(op)
          /\ \A b \in Artifacts \ {a} : State(b)' = State(b) /\ Deadline(b)' = Deadline(b)
      BY <1>3, <2>0, <2>2, CommittedReceipt
    <2>4. /\ Deadline(a)' = until
          /\ at \in Nat /\ at <= clock
          /\ op = "tombstone" => until = at + Window
      <3>1. catalog'[a].head = event[a]
        BY <2>2, <2>3 DEF IInv, TypeOK
      <3>2. intent[a] # NULL
        BY <2>3, ArtifactAssumption
      <3>3. event[a].at = at /\ event[a].until = until /\ at \in Nat
        BY <2>0, <2>3 DEF Receipt
      <3>4. IntentInTime(a)
        BY <2>2 DEF RInv
      <3>5. QED
        BY <2>3, <3>1, <3>2, <3>3, <3>4 DEF Deadline, IntentInTime
    <2>5. clock' = clock /\ clock \in Nat
      BY <1>3 DEF Commit, IInv, TypeOK
    <2>6. S' = [S EXCEPT ![a] = Target(op)]
      BY <2>2, <2>3
    <2>7. D' = [D EXCEPT ![a] = IF Target(op) = "tombstoned" THEN until ELSE 0]
      BY <2>2, <2>3, <2>4
    <2>8. /\ \A b \in Artifacts \ {a} : b \in B' <=> b \in B
          /\ a \in B' <=> Target(op) \notin {"absent", "deleted"}
          /\ a \in B <=> State(a) \notin {"absent", "deleted"}
          /\ B \subseteq Artifacts /\ B' \subseteq Artifacts
      BY <1>1, <2>2, <2>3 DEF Live
    <2>9. S[a] = State(a) /\ \A b \in Artifacts : S[b] = State(b)
      BY <2>2
    <2>10. D[a] = IF State(a) = "tombstoned" THEN Deadline(a) ELSE 0
      BY <2>2
    <2>11. D = [b \in Artifacts |-> D[b]]
      OBVIOUS
    <2>12. op \in {"tombstone", "finalize_delete"} => Lifecycle!Deletable(a)
      BY <2>2 DEF Lifecycle!Deletable, Referrers
    <2> HIDE DEF S, D, B
    <2>13. CASE op = "admit"
      <3>1. /\ State(a) = "absent" /\ Target(op) = "active"
            /\ D' = D /\ B' = B \cup {a}
        BY <2>2, <2>7, <2>8, <2>10, <2>11, <2>13 DEF Ready, Target
      <3>2. Lifecycle!Admit(a)
        BY <2>5, <2>6, <2>9, <3>1 DEF Lifecycle!Admit, Lifecycle!Move, S, D, B
      <3>3. QED
        BY <2>2, <3>2 DEF Lifecycle!Next
    <2>14. CASE op = "archive"
      <3>1. /\ State(a) = "active" /\ Target(op) = "archived"
            /\ D' = D /\ B' = B
        BY <2>2, <2>7, <2>8, <2>10, <2>11, <2>14 DEF Ready, Target
      <3>2. Lifecycle!Archive(a)
        BY <2>5, <2>6, <2>9, <3>1 DEF Lifecycle!Archive, Lifecycle!Move, S, D, B
      <3>3. QED
        BY <2>2, <3>2 DEF Lifecycle!Next
    <2>15. CASE op = "restore"
      <3>1. /\ State(a) \in {"archived", "tombstoned"} /\ Target(op) = "active"
            /\ D' = [D EXCEPT ![a] = 0] /\ B' = B
        BY <2>2, <2>7, <2>8, <2>15 DEF Ready, Target
      <3>2. Lifecycle!Restore(a)
        BY <2>5, <2>6, <2>9, <3>1 DEF Lifecycle!Restore, Lifecycle!Move, S, D, B
      <3>3. QED
        BY <2>2, <3>2 DEF Lifecycle!Next
    <2>16. CASE op = "tombstone"
      <3>1. /\ State(a) \in {"active", "archived"} /\ Target(op) = "tombstoned"
            /\ D' = [D EXCEPT ![a] = at + Window] /\ B' = B
        BY <2>2, <2>4, <2>7, <2>8, <2>16 DEF Ready, Target
      <3>2. at \in 0..clock
        BY <2>4, <2>5
      <3>3. Lifecycle!Tombstone(a)
        BY <2>5, <2>6, <2>9, <2>12, <2>16, <3>1, <3>2 DEF Lifecycle!Tombstone, Lifecycle!Move, S, D, B
      <3>4. QED
        BY <2>2, <3>3 DEF Lifecycle!Next
    <2>17. CASE op = "finalize_delete"
      <3>1. /\ State(a) = "tombstoned" /\ Target(op) = "deleted"
            /\ D' = [D EXCEPT ![a] = 0] /\ B' = B \ {a}
        BY <2>2, <2>7, <2>8, <2>17 DEF Ready, Target
      <3>2. clock >= D[a]
        <4>1. call[c].at >= Deadline(a)
          BY <2>2, <2>17 DEF Ready
        <4>2. Deadline(a) \in Nat
          <5>1. catalog[a] \in Entry /\ catalog[a].revision # 0
            BY <2>2, <3>1 DEF IInv, TypeOK, State
          <5>2. QED
            BY <5>1 DEF Entry, Receipt, Deadline
        <4>3. QED
          BY <2>2, <2>5, <2>10, <3>1, <4>1, <4>2
      <3>3. Lifecycle!FinalizeDelete(a)
        BY <2>5, <2>6, <2>9, <2>12, <2>17, <3>1, <3>2
           DEF Lifecycle!FinalizeDelete, Lifecycle!Move, S, D, B
      <3>4. QED
        BY <2>2, <3>3 DEF Lifecycle!Next
    <2>18. QED
      BY <2>2, <2>13, <2>14, <2>15, <2>16, <2>17 DEF Operations
  <1>4. QED
    BY <1>2, <1>3, OnlyCommitMoves

\* Files, locks, crashes and retries are invisible: the repository behaves like
\* one whose operations are atomic.
THEOREM LifecycleImplemented == Spec => ImplementsLifecycle
  <1>1. Spec => []RInv
    BY InitRInv, NextRInv, Inductive, PTL DEF Spec
  <1>2. QED
    BY <1>1, InitImplements, StepImplements, Inductive, PTL
       DEF Spec, ImplementsLifecycle, Lifecycle!Spec, Lifecycle!vars
=============================================================================
