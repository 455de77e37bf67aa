---------------------- MODULE StudioCodexFiles_proofs ----------------------
(***************************************************************************)
(* Proofs about what the session files of StudioCodex show.  A permission  *)
(* that a turn waits for is in its file, and no file shows a finished      *)
(* review while a turn may write: everybody writes the file as it was      *)
(* read, changed in one respect, and what a copy shows must still be true  *)
(* when it is written.  No job is forgotten: the status that a file shows  *)
(* is the one that the next step of its job waits for.                     *)
(***************************************************************************)
EXTENDS StudioCodex_proofs

Holds(t, s) == call[t].session = s /\ call[t].copy # NULL

\* A turn that waits for a permission.
Pending(s) == Running(s) /\ server[s].asks = "now"

OnFile(s) == files[s].pending = server[s].turns
InHand(s) == reader # NULL /\ reader.session = s /\ reader.event = "approval"

\* Copies whose writing would take the request from the file.
Forgets(t, s) == Holds(t, s) /\ call[t].copy.pending # server[s].turns
ReaderForgets(s) ==
    /\ reader # NULL /\ reader.session = s /\ reader.event # "approval"
    /\ reader.event = "other" => reader.copy.pending # server[s].turns

\* The permission is on file or about to be, and no copy forgets it.
Seen(s) ==
    Pending(s) =>
        /\ OnFile(s) \/ InHand(s)
        /\ InHand(s) => \A t \in Threads : ~Holds(t, s)
        /\ ~ReaderForgets(s)
        /\ \A t \in Threads : ~Forgets(t, s)

\* The request that began the turn, before and after it read the file again.
Begins(t, s) ==
    /\ call[t].session = s /\ call[t].turn = server[s].turns
    /\ call[t].phase \in MutablePhases
Answered(t, s) == call[t].at = "answered" /\ Begins(t, s)
Witness(t, s) == call[t].at \in {"answered", "recording"} /\ Begins(t, s)

\* Copies of a finished review that will be written as they are.
Keeps(t, s) ==
    /\ Holds(t, s) /\ call[t].copy.status = "review_complete"
    /\ \/ call[t].at = "stale"
       \/ call[t].at = "recording" /\ call[t].phase = "planning"
ReaderKeeps(s) ==
    /\ reader # NULL /\ reader.session = s /\ reader.copy.status = "review_complete"
    /\ reader.event \in {"approval", "other"}
Reviewed(s) == Status(s) = "review_complete"

\* A turn that may write has its request about to record it, if the file shows
\* a finished review; and to read the file, if a copy will show one.
Quiet(s) ==
    Writing(s) =>
        /\ Reviewed(s) => \E t \in Threads : Witness(t, s)
        /\ ReaderKeeps(s) \/ (\E t \in Threads : Keeps(t, s)) => \E t \in Threads : Answered(t, s)

\* A session that is about to be created has no file, and one creator.
Anew(s) ==
    \A t \in Threads : call[t].at = "starting" /\ call[t].session = s =>
        /\ files[s] = NULL
        /\ \A u \in Threads : call[u].at = "starting" /\ call[u].session = s => u = t

\* A step that takes none of this from a session.
Kept(s) == Anew(s) => Anew(s)' /\ (Seen(s) => Seen(s)') /\ (Quiet(s) => Quiet(s)')

Untouched == "stale" \notin faults

-----------------------------------------------------------------------------
LEMMA SeenStays ==
    ASSUME NEW s, Pending(s)' => Pending(s), OnFile(s) => OnFile(s)', InHand(s)' <=> InHand(s),
           ReaderForgets(s)' => ReaderForgets(s),
           \A t \in Threads : (Holds(t, s)' => Holds(t, s)) /\ (Forgets(t, s)' => Forgets(t, s)),
           Seen(s)
    PROVE  Seen(s)'
  BY DEF Seen

LEMMA QuietStays ==
    ASSUME NEW s, Writing(s)' => Writing(s), Reviewed(s)' => Reviewed(s),
           ReaderKeeps(s)' => ReaderKeeps(s),
           \A t \in Threads : /\ Keeps(t, s)' => Keeps(t, s)
                              /\ Witness(t, s) => Witness(t, s)'
                              /\ Answered(t, s) => Answered(t, s)',
           Quiet(s)
    PROVE  Quiet(s)'
  BY DEF Quiet

\* A session whose turn, file and notification stay is kept by a thread that
\* has not begun its turn and takes no copy.
LEMMA CallKept ==
    ASSUME NEW s \in Sessions, NEW t \in Threads, UNCHANGED <<files, reader>>, server'[s] = server[s],
           \A u \in Threads \ {t} : call'[u] = call[u],
           call[t].at \notin {"answered", "recording"},
           call'[t].at = "starting" /\ call'[t].session = s =>
               files[s] = NULL /\ \A u \in Threads : call[u].session # s,
           \/ call'[t].copy = NULL
           \/ /\ call'[t].copy = call[t].copy /\ call'[t].session = call[t].session
              /\ call'[t].at \notin {"stale", "recording"}
    PROVE  Kept(s)
<1>1. /\ Pending(s)' <=> Pending(s)
      /\ OnFile(s)' <=> OnFile(s)
      /\ InHand(s)' <=> InHand(s)
      /\ ReaderForgets(s)' <=> ReaderForgets(s)
      /\ Writing(s)' <=> Writing(s)
      /\ Reviewed(s)' <=> Reviewed(s)
      /\ ReaderKeeps(s)' <=> ReaderKeeps(s)
  BY DEF Pending, Running, OnFile, InHand, ReaderForgets, Writing, Reviewed, Status, Exists, ReaderKeeps
<1>2. ASSUME NEW u \in Threads
      PROVE  /\ Holds(u, s)' => Holds(u, s)
             /\ Forgets(u, s)' => Forgets(u, s)
             /\ Keeps(u, s)' => Keeps(u, s)
             /\ Witness(u, s) => Witness(u, s)'
             /\ Answered(u, s) => Answered(u, s)'
  <2>1. CASE u # t
    <3>1. call'[u] = call[u]
      BY <2>1
    <3>. QED
      BY <3>1 DEF Holds, Forgets, Keeps, Witness, Answered, Begins
  <2>2. CASE u = t
    BY <2>2 DEF Holds, Forgets, Keeps, Witness, Answered
  <2>. QED
    BY <2>1, <2>2
<1>3. ASSUME Anew(s) PROVE Anew(s)'
  BY <1>3 DEF Anew
<1>. QED
  BY <1>1, <1>2, <1>3, SeenStays, QuietStays DEF Kept

\* Nobody else holds a copy when one is taken.
LEMMA NoCopies ==
    ASSUME NEW s, NEW t, ~Copied(s, t)
    PROVE  (reader # NULL => reader.session # s) /\ \A u \in Threads \ {t} : ~Holds(u, s)
  BY DEF Copied, Holds

\* A thread that has not begun a turn takes a copy, and tells the server at most
\* the answer to a permission request.
LEMMA CopyKept ==
    ASSUME IInv, NEW s \in Sessions, NEW r \in Sessions, NEW t \in Threads, ~Copied(s, t),
           UNCHANGED <<files, reader>>,
           \A q \in Sessions : /\ server'[q].phase = server[q].phase
                               /\ server'[q].turns = server[q].turns
                               /\ server'[q].asks = "now" => server[q].asks = "now",
           \A u \in Threads \ {t} : call'[u] = call[u],
           call[t].at \notin {"answered", "recording"},
           call'[t].at \notin {"recording", "starting"},
           call'[t].session = s,
           call'[t].copy.status = files[s].status,
           Seen(s) /\ call'[t].copy.pending # files[s].pending => ~Pending(s)',
           files[s] # NULL
    PROVE  Kept(r)
<1>0. (reader # NULL => reader.session # s) /\ \A u \in Threads \ {t} : ~Holds(u, s)
  BY NoCopies
<1>1. /\ Pending(r)' => Pending(r)
      /\ OnFile(r)' <=> OnFile(r)
      /\ InHand(r)' <=> InHand(r)
      /\ ReaderForgets(r)' <=> ReaderForgets(r)
      /\ Writing(r)' <=> Writing(r)
      /\ Reviewed(r)' <=> Reviewed(r)
      /\ ReaderKeeps(r)' <=> ReaderKeeps(r)
  BY DEF Pending, Running, OnFile, InHand, ReaderForgets, Writing, Reviewed, Status, Exists, ReaderKeeps
<1>2. ASSUME NEW u \in Threads \ {t}
      PROVE  /\ Holds(u, r)' <=> Holds(u, r)
             /\ Forgets(u, r)' <=> Forgets(u, r)
             /\ Keeps(u, r)' <=> Keeps(u, r)
             /\ Witness(u, r)' <=> Witness(u, r)
             /\ Answered(u, r)' <=> Answered(u, r)
  <2>1. call'[u] = call[u] /\ server'[r].turns = server[r].turns
    OBVIOUS
  <2>. QED
    BY <2>1 DEF Holds, Forgets, Keeps, Witness, Answered, Begins
<1>3. ~Witness(t, r) /\ ~Answered(t, r)
  BY DEF Witness, Answered
<1>6. Anew(r) => Anew(r)'
  BY DEF Anew
<1>4. CASE r # s
  <2>1. ~Holds(t, r)' /\ ~Forgets(t, r)' /\ ~Keeps(t, r)'
    BY <1>4 DEF Holds, Forgets, Keeps
  <2>. QED
    BY <1>1, <1>2, <1>3, <1>6, <2>1, SeenStays, QuietStays DEF Kept
<1>5. CASE r = s
  <2>1. ASSUME Seen(s) PROVE Seen(s)'
    <3>1. ~InHand(s)' /\ ~ReaderForgets(s)'
      BY <1>0 DEF InHand, ReaderForgets
    <3>2. \A u \in Threads \ {t} : ~Forgets(u, s)'
      BY <1>0, <1>2, <1>5 DEF Forgets
    <3>3. Pending(s)' => OnFile(s)' /\ call'[t].copy.pending = files[s].pending
      BY <1>1, <1>5, <2>1, <3>1 DEF Seen
    <3>4. Pending(s)' => ~Forgets(t, s)'
      BY <3>3 DEF Forgets, OnFile
    <3>. QED
      BY <3>1, <3>2, <3>3, <3>4 DEF Seen
  <2>2. ASSUME Quiet(s), Writing(s)' PROVE Quiet(s)'
    <3>1. ~ReaderKeeps(s)' /\ \A u \in Threads \ {t} : ~Keeps(u, s)'
      BY <1>0, <1>2, <1>5 DEF ReaderKeeps, Keeps
    <3>2. Reviewed(s)' => \E u \in Threads \ {t} : Witness(u, s)'
      BY <1>1, <1>2, <1>3, <1>5, <2>2 DEF Quiet
    <3>3. \A u \in Threads \ {t} : Witness(u, s)' => Answered(u, s)'
      <4>1. \A u \in Threads \ {t} : Witness(u, s) => Answered(u, s)
        BY <1>0, NullAssumption DEF Witness, Answered, Begins, Holds, IInv, CallsFit, Fits
      <4>. QED
        BY <1>2, <1>5, <4>1
    <3>4. Keeps(t, s)' => Reviewed(s)'
      BY DEF Keeps, Reviewed, Status, Exists
    <3>. QED
      BY <3>1, <3>2, <3>3, <3>4 DEF Quiet
  <2>3. ~Writing(s)' => Quiet(s)'
    BY DEF Quiet
  <2>. QED
    BY <1>5, <1>6, <2>1, <2>2, <2>3 DEF Kept
<1>. QED
  BY <1>4, <1>5

\* A thread writes the file it holds, and holds nothing after that.
LEMMA WriteKept ==
    ASSUME IInv, NEW r \in Sessions, NEW t \in Threads, NEW s \in Known, NEW f,
           Holds(t, s), call[t].at # "answered", call'[t].at # "starting", Known \subseteq Known',
           files' = [files EXCEPT ![s] = f], UNCHANGED <<reader, server>>,
           \A u \in Threads \ {t} : call'[u] = call[u],
           call'[t].copy = NULL,
           f.pending = call[t].copy.pending,
           f.status = "review_complete" => Keeps(t, s)
    PROVE  Kept(r)
<1>0. /\ files'[s] = f /\ f # NULL /\ files[s] # NULL
      /\ \A q \in Sessions \ {s} : files'[q] = files[q]
  BY DEF IInv, FilesFit, Known
<1>1. /\ Pending(r)' <=> Pending(r)
      /\ InHand(r)' <=> InHand(r)
      /\ ReaderForgets(r)' <=> ReaderForgets(r)
      /\ Writing(r)' <=> Writing(r)
      /\ ReaderKeeps(r)' <=> ReaderKeeps(r)
  BY DEF Pending, Running, InHand, ReaderForgets, Writing, ReaderKeeps
<1>2. ASSUME NEW u \in Threads \ {t}
      PROVE  /\ Holds(u, r)' <=> Holds(u, r)
             /\ Forgets(u, r)' <=> Forgets(u, r)
             /\ Keeps(u, r)' <=> Keeps(u, r)
             /\ Witness(u, r)' <=> Witness(u, r)
             /\ Answered(u, r)' <=> Answered(u, r)
  <2>1. call'[u] = call[u] /\ server'[r].turns = server[r].turns
    OBVIOUS
  <2>. QED
    BY <2>1 DEF Holds, Forgets, Keeps, Witness, Answered, Begins
<1>3. ~Holds(t, r)' /\ ~Forgets(t, r)' /\ ~Keeps(t, r)' /\ ~Answered(t, r)
  BY DEF Holds, Forgets, Keeps, Answered
<1>4. CASE r # s
  <2>1. (OnFile(r)' <=> OnFile(r)) /\ (Reviewed(r)' <=> Reviewed(r))
    <3>1. files'[r] = files[r]
      BY <1>0, <1>4
    <3>. QED
      BY <3>1 DEF OnFile, Reviewed, Status, Exists
  <2>2. ~Witness(t, r)
    BY <1>4 DEF Witness, Begins, Holds
  <2>3. Anew(r) => Anew(r)'
    BY <1>0, <1>4 DEF Anew
  <2>. QED
    BY <1>1, <1>2, <1>3, <2>1, <2>2, <2>3, SeenStays, QuietStays DEF Kept
<1>5. CASE r = s
  <2>1. ASSUME Seen(s) PROVE Seen(s)'
    <3>1. Pending(s) => OnFile(s)' /\ ~InHand(s)
      BY <1>0, <2>1 DEF Seen, Forgets, OnFile
    <3>. QED
      BY <1>1, <1>2, <1>3, <1>5, <2>1, <3>1 DEF Seen
  <2>2. ASSUME Quiet(s) PROVE Quiet(s)'
    <3>1. Reviewed(s)' => Keeps(t, s)
      BY <1>0 DEF Reviewed, Status, Exists
    <3>2. (\E u \in Threads : Answered(u, s)) => \E u \in Threads : Answered(u, s)' /\ Witness(u, s)'
      BY <1>2, <1>3, <1>5 DEF Answered, Witness
    <3>. QED
      BY <1>1, <1>2, <1>3, <1>5, <2>2, <3>1, <3>2 DEF Quiet
  <2>3. Anew(s) => Anew(s)'
    BY <1>0 DEF Anew
  <2>. QED
    BY <1>5, <2>1, <2>2, <2>3 DEF Kept
<1>. QED
  BY <1>4, <1>5

-----------------------------------------------------------------------------
(* Steps of a thread that take no copy.                                    *)

LEMMA NotStale == ASSUME NEW K, Disturb(K), Untouched' PROVE "stale" \notin K
  BY DEF Disturb, Untouched

LEMMA AuthorizeKept ==
    ASSUME IInv, NEW r \in Sessions, NEW u \in Requesters, NEW s \in Sessions, Authorize(u, s)
    PROVE  Kept(r)
<1>1. /\ u \in Threads /\ \A t \in Threads \ {u} : call'[t] = call[t]
      /\ call'[u].copy = NULL /\ call'[u].session = s
  BY DEF Authorize, IInv, CallsFit, Threads, Idle
<1>2. files[s] = NULL /\ \A t \in Threads : call[t].session # s
  BY NullAssumption DEF Authorize, Exists, Engaged, Threads
<1>3. call[u].at = "idle" /\ UNCHANGED <<files, reader, server>>
  BY DEF Authorize, Idle
<1>. QED
  BY <1>1, <1>2, <1>3, CallKept

LEMMA RequestKept ==
    ASSUME IInv, NEW r \in Sessions, NEW u \in Requesters, NEW s \in Sessions,
           NEW phase \in DOMAIN AllowedFrom, Request(u, s, phase)
    PROVE  Kept(r)
<1>1. /\ u \in Threads /\ \A t \in Threads \ {u} : call'[t] = call[t]
      /\ call'[u].copy = NULL /\ call'[u].at # "starting" /\ call[u].at = "idle"
  BY DEF Request, Begun, IInv, CallsFit, Threads, Idle
<1>. QED
  BY <1>1, CallKept DEF Request

LEMMA ClaimKept ==
    ASSUME IInv, NEW r \in Sessions, NEW t \in Threads, Claim(t) PROVE Kept(r)
<1>1. /\ \A u \in Threads \ {t} : call'[u] = call[u]
      /\ call'[t].at \in {"asked", "failing", "idle"} /\ call[t].at = "claiming"
      /\ \/ call'[t].copy = NULL
         \/ call'[t].copy = call[t].copy /\ call'[t].session = call[t].session
  BY DEF Claim, IInv, CallsFit, Calls, Idle
<1>. QED
  BY <1>1, CallKept DEF Claim

LEMMA TakeTaskKept ==
    ASSUME IInv, NEW r \in Sessions, NEW w \in Workers, TakeTask(w) PROVE Kept(r)
<1>0. w \in Threads /\ call[w] = Idle /\ call[w].at = "idle" /\ call[w].copy = NULL
  BY DEF TakeTask, Threads, Idle
<1>1. ASSUME NEW k, call' = [call EXCEPT ![w] = k], k.copy = NULL, k.at # "starting" PROVE Kept(r)
  <2>1. call'[w] = k /\ \A t \in Threads \ {w} : call'[t] = call[t]
    BY <1>0, <1>1 DEF IInv, CallsFit
  <2>. QED
    BY <1>0, <1>1, <2>1, CallKept DEF TakeTask
<1>2. \A s, phase : /\ Begun(s, phase).copy = NULL /\ Begun(s, phase).at # "starting"
                    /\ [Begun(s, phase) EXCEPT !.at = "failing"].copy = NULL
                    /\ [Begun(s, phase) EXCEPT !.at = "failing"].at = "failing"
  BY DEF Begun, Idle
<1>3. ASSUME NEW S PROVE LET k == [Idle EXCEPT !.at = "recovering", !.todo = S]
                         IN  k.copy = NULL /\ k.at = "recovering"
  BY DEF Idle
<1>4. CASE UNCHANGED call
  BY <1>0, <1>4, CallKept DEF TakeTask
<1>5. ASSUME NEW s, NEW phase,
             \/ call' = [call EXCEPT ![w] = Begun(s, phase)]
             \/ call' = [call EXCEPT ![w] = [Begun(s, phase) EXCEPT !.at = "failing"]]
      PROVE  Kept(r)
  <2>1. CASE call' = [call EXCEPT ![w] = Begun(s, phase)]
    <3>. DEFINE k == Begun(s, phase)
    <3>1. k.copy = NULL /\ k.at # "starting" /\ call' = [call EXCEPT ![w] = k]
      BY <1>2, <2>1
    <3>. HIDE DEF k
    <3>. QED
      BY <1>1, <3>1
  <2>2. CASE call' = [call EXCEPT ![w] = [Begun(s, phase) EXCEPT !.at = "failing"]]
    <3>. DEFINE k == [Begun(s, phase) EXCEPT !.at = "failing"]
    <3>1. k.copy = NULL /\ k.at # "starting" /\ call' = [call EXCEPT ![w] = k]
      BY <1>2, <2>2
    <3>. HIDE DEF k
    <3>. QED
      BY <1>1, <3>1
  <2>. QED
    BY <1>5, <2>1, <2>2
<1>6. ASSUME NEW S, call' = [call EXCEPT ![w] = [Idle EXCEPT !.at = "recovering", !.todo = S]]
      PROVE  Kept(r)
  BY <1>1, <1>3, <1>6
<1>. QED
  BY <1>4, <1>5, <1>6 DEF TakeTask

LEMMA RaisedKept ==
    ASSUME IInv, NEW r \in Sessions, NEW t \in Threads, call[t].at = "asked", Raised(t),
           UNCHANGED <<files, reader, server>>
    PROVE  Kept(r)
<1>1. /\ \A u \in Threads \ {t} : call'[u] = call[u]
      /\ call'[t].at \in {"undoing", "failing", "idle"}
      /\ \/ call'[t].copy = NULL
         \/ call'[t].copy = call[t].copy /\ call'[t].session = call[t].session
  BY DEF Raised, IInv, CallsFit, Calls, Idle
<1>. QED
  BY <1>1, CallKept

LEMMA UndoKept ==
    ASSUME IInv, NEW r \in Sessions, NEW t \in Threads, Undo(t) PROVE Kept(r)
<1>1. /\ \A u \in Threads \ {t} : call'[u] = call[u]
      /\ call'[t].at \in {"failing", "idle"}
      /\ \/ call'[t].copy = NULL
         \/ call'[t].copy = call[t].copy /\ call'[t].session = call[t].session
  BY DEF Undo, IInv, CallsFit, Calls, Idle
<1>. QED
  BY <1>1, CallKept DEF Undo

LEMMA FreeFailedKept ==
    ASSUME IInv, NEW r \in Sessions, NEW w \in Workers, FreeFailed(w) PROVE Kept(r)
<1>1. /\ w \in Threads /\ \A u \in Threads \ {w} : call'[u] = call[u]
      /\ call'[w].copy = NULL /\ call'[w].at = "idle"
  BY DEF FreeFailed, IInv, CallsFit, Threads, Idle
<1>. QED
  BY <1>1, CallKept DEF FreeFailed

LEMMA RecoverQueueKept ==
    ASSUME IInv, NEW r \in Sessions, NEW w \in Workers, RecoverQueue(w) PROVE Kept(r)
<1>1. /\ w \in Threads /\ \A u \in Threads \ {w} : call'[u] = call[u]
      /\ call'[w].copy = NULL /\ call'[w].at = "recovering"
  BY DEF RecoverQueue, IInv, CallsFit, Threads, Idle
<1>. QED
  BY <1>1, CallKept DEF RecoverQueue

\* A new file for a session that no turn runs for.
LEMMA CreateSessionKept ==
    ASSUME IInv, NEW r \in Sessions, NEW u \in Requesters, CreateSession(u) PROVE Kept(r)
<1>. DEFINE s == call[u].session
<1>0. /\ u \in Threads /\ s \in Sessions /\ \A t \in Threads \ {u} : call'[t] = call[t]
      /\ call'[u].at = "asked" /\ call'[u].copy = call[u].copy /\ call'[u].session = s
      /\ call[u].at = "starting" /\ call[u].session = s
  BY DEF CreateSession, IInv, CallsFit, Fits, Calls, Threads
<1>1. \A q \in Sessions \ {s} : files'[q] = files[q]
  BY DEF CreateSession, IInv, FilesFit
<1>2. UNCHANGED <<reader, server>>
  BY DEF CreateSession
<1>. HIDE DEF s
<1>3. SUFFICES ASSUME Anew(r) PROVE Kept(r)
  BY DEF Kept
<1>4. Anew(r)'
  <2>1. \A t \in Threads : call'[t].at = "starting" =>
            t # u /\ call[t].at = "starting" /\ call'[t].session = call[t].session
    BY <1>0
  <2>2. r = s => \A t \in Threads : call'[t].at = "starting" => call'[t].session # r
    BY <1>0, <1>3, <2>1 DEF Anew
  <2>3. r # s => files'[r] = files[r]
    BY <1>1
  <2>. QED
    BY <1>3, <2>1, <2>2, <2>3 DEF Anew
<1>5. CASE r = s
  <2>1. ~Running(r)
    BY <1>0, <1>3, <1>5 DEF Anew, IInv, ServerFits, Known
  <2>2. ~Pending(r)' /\ ~Writing(r)'
    BY <1>2, <2>1, NullAssumption DEF Pending, Writing, Running, MutablePhases, Phases
  <2>. QED
    BY <1>4, <1>5, <2>2 DEF Kept, Seen, Quiet
<1>6. CASE r # s
  <2>1. /\ Pending(r)' <=> Pending(r)
        /\ OnFile(r)' <=> OnFile(r)
        /\ InHand(r)' <=> InHand(r)
        /\ ReaderForgets(r)' <=> ReaderForgets(r)
        /\ Writing(r)' <=> Writing(r)
        /\ Reviewed(r)' <=> Reviewed(r)
        /\ ReaderKeeps(r)' <=> ReaderKeeps(r)
    <3>1. files'[r] = files[r]
      BY <1>1, <1>6
    <3>. QED
      BY <1>2, <3>1 DEF Pending, Running, OnFile, InHand, ReaderForgets, Writing, Reviewed, Status, Exists,
         ReaderKeeps
  <2>2. ASSUME NEW t \in Threads
        PROVE  /\ Holds(t, r)' => Holds(t, r)
               /\ Forgets(t, r)' => Forgets(t, r)
               /\ Keeps(t, r)' => Keeps(t, r)
               /\ Witness(t, r) => Witness(t, r)'
               /\ Answered(t, r) => Answered(t, r)'
    <3>1. CASE t # u
      <4>1. call'[t] = call[t] /\ server' = server
        BY <1>0, <1>2, <3>1
      <4>. QED
        BY <4>1 DEF Holds, Forgets, Keeps, Witness, Answered, Begins
    <3>2. CASE t = u
      BY <1>0, <1>2, <3>2 DEF Holds, Forgets, Keeps, Witness, Answered
    <3>. QED
      BY <3>1, <3>2
  <2>. QED
    BY <1>4, <2>1, <2>2, SeenStays, QuietStays DEF Kept
<1>. QED
  BY <1>5, <1>6

-----------------------------------------------------------------------------
(* Steps that take a copy.                                                 *)

LEMMA OnlyCopied ==
    ASSUME NEW s, NEW t, Disturb(If(Copied(s, t), "stale")), Untouched' PROVE ~Copied(s, t)
  BY NotStale DEF If

LEMMA FileOfThread ==
    ASSUME IInv, NEW t \in Threads, call[t].at \notin {"idle", "recovering", "starting"}
    PROVE  call[t].session \in Known /\ call[t].session \in Sessions /\ files[call[t].session] # NULL
  BY DEF IInv, CallsFit, Fits, Known

LEMMA ReadFailedKept ==
    ASSUME IInv, NEW r \in Sessions, NEW w \in Workers, ReadFailed(w), Untouched' PROVE Kept(r)
<1>. DEFINE s == call[w].session
<1>0. w \in Threads /\ s \in Sessions /\ files[s] # NULL /\ ~Copied(s, w)
  BY FileOfThread, OnlyCopied DEF ReadFailed, Threads
<1>1. /\ \A u \in Threads \ {w} : call'[u] = call[u]
      /\ call'[w].at = "failed" /\ call'[w].session = s /\ call'[w].copy = files[s]
      /\ call[w].at = "failing" /\ UNCHANGED <<files, reader, server>>
  BY <1>0 DEF ReadFailed, IInv, CallsFit, Calls
<1>. HIDE DEF s
<1>. QED
  BY <1>0, <1>1, CopyKept

\* A request thread takes a copy of the file that it will write.
LEMMA StaleTaken ==
    ASSUME IInv, NEW u \in Requesters, NEW s, NEW f, NEW at \in {"stale", "archiving"}, call[u] = Idle,
           call' = [call EXCEPT ![u] = [Idle EXCEPT !.at = at, !.session = s, !.copy = f]]
    PROVE  /\ u \in Threads /\ \A t \in Threads \ {u} : call'[t] = call[t]
           /\ call'[u].at = at /\ call'[u].session = s /\ call'[u].copy = f
           /\ call[u].at = "idle"
  BY DEF Idle, IInv, CallsFit, Threads

LEMMA InterruptKept ==
    ASSUME IInv, NEW r \in Sessions, NEW u \in Requesters, NEW s \in Sessions, Interrupt(u, s), Untouched'
    PROVE  Kept(r)
<1>0. ~Copied(s, u)
  <2>1. "stale" \notin {"interrupt"} \cup If(Copied(s, u), "stale")
    BY NotStale DEF Interrupt
  <2>. QED
    BY <2>1 DEF If
<1>1. /\ u \in Threads /\ \A t \in Threads \ {u} : call'[t] = call[t]
      /\ call'[u].at = "stale" /\ call'[u].session = s /\ call'[u].copy = files[s]
      /\ call[u].at = "idle"
  BY StaleTaken DEF Interrupt
<1>2. \A q \in Sessions : /\ server'[q].phase = server[q].phase
                          /\ server'[q].turns = server[q].turns
                          /\ server'[q].asks = "now" => server[q].asks = "now"
  BY DEF Interrupt, IInv, ServerFits, Servers
<1>3. UNCHANGED <<files, reader>> /\ files[s] # NULL
  BY DEF Interrupt, Exists
<1>. QED
  BY <1>0, <1>1, <1>2, <1>3, CopyKept

LEMMA PollKept ==
    ASSUME IInv, NEW r \in Sessions, NEW u \in Requesters, NEW s \in Sessions, Poll(u, s), Untouched'
    PROVE  Kept(r)
<1>0. ~Copied(s, u)
  BY OnlyCopied DEF Poll
<1>1. /\ u \in Threads /\ \A t \in Threads \ {u} : call'[t] = call[t]
      /\ call'[u].at = "stale" /\ call'[u].session = s /\ call'[u].copy = files[s]
      /\ call[u].at = "idle"
  BY StaleTaken DEF Poll
<1>2. UNCHANGED <<files, reader, server>> /\ files[s] # NULL
  BY DEF Poll, Exists
<1>. QED
  BY <1>0, <1>1, <1>2, CopyKept

LEMMA ArchiveKept ==
    ASSUME IInv, NEW r \in Sessions, NEW u \in Requesters, NEW s \in Sessions, Archive(u, s), Untouched'
    PROVE  Kept(r)
<1>0. ~Copied(s, u)
  <2>1. "stale" \notin If(AtWork(s, NULL), "overlap") \cup If(Copied(s, u), "stale")
    BY NotStale DEF Archive
  <2>. QED
    BY <2>1 DEF If
<1>1. /\ u \in Threads /\ \A t \in Threads \ {u} : call'[t] = call[t]
      /\ call'[u].at = "archiving" /\ call'[u].session = s /\ call'[u].copy = files[s]
      /\ call[u].at = "idle"
  BY StaleTaken DEF Archive
<1>2. UNCHANGED <<files, reader, server>> /\ files[s] # NULL
  BY DEF Archive, Exists
<1>. QED
  BY <1>0, <1>1, <1>2, CopyKept

\* The answer takes the request from the file only when no turn waits for it.
LEMMA RespondKept ==
    ASSUME IInv, NEW r \in Sessions, NEW u \in Requesters, NEW s \in Sessions, Respond(u, s), Untouched'
    PROVE  Kept(r)
<1>. DEFINE f == [files[s] EXCEPT !.pending = NULL]
<1>0. ~Copied(s, u) /\ files[s] \in File /\ files[s] # NULL
  BY OnlyCopied, KnownFile DEF Respond, Exists, Known
<1>1. f.status = files[s].status /\ f.pending = NULL
  BY <1>0 DEF File
<1>2. call' = [call EXCEPT ![u] = [Idle EXCEPT !.at = "stale", !.session = s, !.copy = f]]
  BY DEF Respond
<1>. HIDE DEF f
<1>3. /\ u \in Threads /\ \A t \in Threads \ {u} : call'[t] = call[t]
      /\ call'[u].at = "stale" /\ call'[u].session = s /\ call'[u].copy = f
      /\ call[u].at = "idle"
  <2>1. call[u] = Idle
    BY DEF Respond
  <2>. QED
    BY <1>2, <2>1, StaleTaken
<1>4. \A q \in Sessions : /\ server'[q].phase = server[q].phase
                          /\ server'[q].turns = server[q].turns
                          /\ server'[q].asks = "now" => server[q].asks = "now"
  BY DEF Respond, IInv, ServerFits, Servers
<1>5. UNCHANGED <<files, reader>>
  BY DEF Respond
<1>6. ASSUME Seen(s), Pending(s)' PROVE FALSE
  <2>1. Pending(s)
    BY <1>4, <1>6 DEF Pending, Running
  <2>2. ~InHand(s)
    BY <1>0, NoCopies DEF InHand
  <2>3. server[s].turns = files[s].pending /\ server[s].asks = "now"
    BY <1>6, <2>1, <2>2 DEF Seen, OnFile, Pending
  <2>4. server'[s].asks = "answered"
    BY <2>3 DEF Respond, IInv, ServerFits, Servers
  <2>. QED
    BY <1>6, <2>4 DEF Pending
<1>. QED
  BY <1>0, <1>1, <1>3, <1>4, <1>5, <1>6, CopyKept

LEMMA RecoverNextKept ==
    ASSUME IInv, NEW r \in Sessions, NEW w \in Workers, RecoverNext(w), Untouched' PROVE Kept(r)
<1>0. /\ w \in Threads /\ call[w] \in Calls /\ call[w].todo \subseteq Sessions
      /\ call[w].at = "recovering" /\ UNCHANGED <<files, reader, server>>
  BY DEF Threads, IInv, CallsFit, Calls, RecoverNext
<1>1. CASE call' = [call EXCEPT ![w] = Idle]
  <2>1. call'[w].at = "idle" /\ call'[w].copy = NULL /\ \A t \in Threads \ {w} : call'[t] = call[t]
    BY <1>0, <1>1 DEF IInv, CallsFit, Idle
  <2>. QED
    BY <1>0, <2>1, CallKept
<1>2. ASSUME NEW s \in call[w].todo, Status(s) \in Restartable \cup Reviewable,
             faults' = faults \cup If(Copied(s, w), "stale") \cup If(AtWork(s, w), "reload"),
             call' = [call EXCEPT ![w] =
                         [@ EXCEPT !.at = "rewriting", !.session = s,
                                   !.copy = files[s],
                                   !.todo = call[w].todo \ {s}]]
      PROVE  Kept(r)
  <2>1. s \in Sessions /\ files[s] # NULL
    BY <1>0, <1>2, NullAssumption, StatusesNamed DEF Status, Exists, Restartable, Reviewable
  <2>2. ~Copied(s, w)
    BY <1>2 DEF Untouched, If
  <2>3. /\ call'[w].at = "rewriting" /\ call'[w].session = s /\ call'[w].copy = files[s]
        /\ \A t \in Threads \ {w} : call'[t] = call[t]
    BY <1>0, <1>2 DEF IInv, CallsFit, Calls
  <2>. QED
    BY <1>0, <2>1, <2>2, <2>3, CopyKept
<1>3. ASSUME NEW s \in call[w].todo, call' = [call EXCEPT ![w].todo = @ \ {s}] PROVE Kept(r)
  <2>1. /\ call'[w].at = "recovering" /\ call'[w].session = call[w].session
        /\ call'[w].copy = call[w].copy /\ \A t \in Threads \ {w} : call'[t] = call[t]
    BY <1>0, <1>3 DEF IInv, CallsFit, Calls
  <2>. QED
    BY <1>0, <2>1, CallKept
<1>. QED
  BY <1>1, <1>2, <1>3 DEF RecoverNext

\* The request that began a turn reads the file again.  A copy of a finished
\* review is then kept by a planning turn only, and while a turn of another
\* phase writes, the request of that turn is still to read it.
LEMMA ReadBackKept ==
    ASSUME IInv, NEW r \in Sessions, NEW t \in Threads, ReadBack(t), Untouched' PROVE Kept(r)
<1>. DEFINE s == call[t].session
<1>0. s \in Sessions /\ files[s] # NULL /\ ~Copied(s, t)
  BY FileOfThread, OnlyCopied DEF ReadBack
<1>1. /\ \A u \in Threads \ {t} : call'[u] = call[u]
      /\ call'[t].at = "recording" /\ call'[t].session = s /\ call'[t].copy = files[s]
      /\ call'[t].phase = call[t].phase /\ call'[t].turn = call[t].turn
      /\ call[t].at = "answered" /\ call[t].session = s /\ UNCHANGED <<files, reader, server>>
  BY DEF ReadBack, IInv, CallsFit, Calls
<1>. HIDE DEF s
<1>2. (reader # NULL => reader.session # s) /\ \A u \in Threads \ {t} : ~Holds(u, s)
  BY <1>0, NoCopies
<1>3. /\ Pending(r)' <=> Pending(r)
      /\ OnFile(r)' <=> OnFile(r)
      /\ InHand(r)' <=> InHand(r)
      /\ ReaderForgets(r)' <=> ReaderForgets(r)
      /\ Writing(r)' <=> Writing(r)
      /\ Reviewed(r)' <=> Reviewed(r)
      /\ ReaderKeeps(r)' <=> ReaderKeeps(r)
  BY <1>1 DEF Pending, Running, OnFile, InHand, ReaderForgets, Writing, Reviewed, Status, Exists, ReaderKeeps
<1>4. ASSUME NEW u \in Threads \ {t}
      PROVE  /\ Holds(u, r)' <=> Holds(u, r)
             /\ Forgets(u, r)' <=> Forgets(u, r)
             /\ Keeps(u, r)' <=> Keeps(u, r)
             /\ Witness(u, r)' <=> Witness(u, r)
             /\ Answered(u, r)' <=> Answered(u, r)
  <2>1. call'[u] = call[u] /\ server'[r].turns = server[r].turns
    BY <1>1
  <2>. QED
    BY <2>1 DEF Holds, Forgets, Keeps, Witness, Answered, Begins
<1>5. Anew(r) => Anew(r)'
  BY <1>1 DEF Anew
<1>6. Witness(t, r) => Witness(t, r)'
  BY <1>1 DEF Witness, Begins
<1>7. CASE r # s
  <2>1. ~Holds(t, r)' /\ ~Forgets(t, r)' /\ ~Keeps(t, r)' /\ ~Answered(t, r)
    BY <1>1, <1>7 DEF Holds, Forgets, Keeps, Answered, Begins
  <2>. QED
    BY <1>3, <1>4, <1>5, <1>6, <2>1, SeenStays, QuietStays DEF Kept
<1>8. CASE r = s
  <2>1. ASSUME Seen(r) PROVE Seen(r)'
    <3>1. ~InHand(r)' /\ ~ReaderForgets(r)'
      BY <1>2, <1>3, <1>8 DEF InHand, ReaderForgets
    <3>2. \A u \in Threads \ {t} : ~Forgets(u, r)'
      BY <1>2, <1>4, <1>8 DEF Forgets
    <3>3. Pending(r)' => OnFile(r)'
      BY <1>3, <2>1, <3>1 DEF Seen
    <3>4. Pending(r)' => ~Forgets(t, r)'
      BY <1>1, <1>8, <3>3 DEF Forgets, OnFile
    <3>. QED
      BY <3>1, <3>2, <3>3, <3>4 DEF Seen
  <2>2. ASSUME Quiet(r), Writing(r)' PROVE Quiet(r)'
    <3>1. ~ReaderKeeps(r)' /\ \A u \in Threads \ {t} : ~Keeps(u, r)'
      BY <1>2, <1>3, <1>4, <1>8 DEF ReaderKeeps, Keeps
    <3>2. Reviewed(r)' => \E u \in Threads : Witness(u, r) /\ Witness(u, r)'
      BY <1>3, <1>4, <1>6, <2>2 DEF Quiet
    <3>3. \A u \in Threads \ {t} : Witness(u, r) => Answered(u, r)'
      <4>1. \A u \in Threads \ {t} : Witness(u, r) => Answered(u, r)
        BY <1>2, <1>8, NullAssumption DEF Witness, Answered, Begins, Holds, IInv, CallsFit, Fits
      <4>. QED
        BY <1>4, <4>1
    <3>4. Keeps(t, r)' => Reviewed(r)' /\ ~Witness(t, r)
      BY <1>0, <1>1, <1>8 DEF Keeps, Reviewed, Status, Exists, Witness, Begins, MutablePhases
    <3>. QED
      BY <3>1, <3>2, <3>3, <3>4 DEF Quiet
  <2>3. ~Writing(r)' => Quiet(r)'
    BY DEF Quiet
  <2>. QED
    BY <1>5, <2>1, <2>2, <2>3 DEF Kept
<1>. QED
  BY <1>7, <1>8

-----------------------------------------------------------------------------
(* Steps that write the file.                                              *)

LEMMA RecordKept ==
    ASSUME IInv, NEW r \in Sessions, NEW t \in Threads, Record(t) PROVE Kept(r)
<1>. DEFINE s == call[t].session
            status == IF call[t].phase = "planning" THEN call[t].copy.status
                      ELSE StartedStatus[call[t].phase]
            turns == Current(s, call[t].copy.turns \cup {call[t].turn})
            f == [call[t].copy EXCEPT !.status = status, !.active = call[t].turn, !.turns = turns]
<1>0. /\ s \in Known /\ call[t].copy \in File /\ call[t].phase \in Phases
      /\ call[t].at = "recording"
  BY DEF Record, IInv, CallsFit, Fits
<1>1. Holds(t, s)
  BY <1>0, NullAssumption DEF Holds
<1>2. files' = [files EXCEPT ![s] = f] /\ UNCHANGED <<reader, server>> /\ Known \subseteq Known'
  BY RecordIInv DEF Record
<1>3. status = "review_complete" => Keeps(t, s)
  BY <1>0, <1>1 DEF Keeps, Phases, MutablePhases, StartedStatus
<1>. HIDE DEF status, turns
<1>4. f.pending = call[t].copy.pending /\ f.status = status
  BY <1>0 DEF File
<1>5. /\ \A u \in Threads \ {t} : call'[u] = call[u]
      /\ call'[t].copy = NULL /\ call'[t].at = "idle"
  BY DEF Record, IInv, CallsFit, Idle
<1>. HIDE DEF s, f
<1>. QED
  BY <1>0, <1>1, <1>2, <1>3, <1>4, <1>5, WriteKept

LEMMA RecordFailedKept ==
    ASSUME IInv, NEW r \in Sessions, NEW w \in Workers, RecordFailed(w) PROVE Kept(r)
<1>. DEFINE s == call[w].session
            f == [call[w].copy EXCEPT !.status = "failed", !.active = NULL]
<1>0. /\ w \in Threads /\ s \in Known /\ call[w].copy \in File
      /\ call[w].at = "failed"
  BY DEF RecordFailed, IInv, CallsFit, Fits, Threads
<1>1. Holds(w, s)
  BY <1>0, NullAssumption DEF Holds
<1>2. files' = [files EXCEPT ![s] = f] /\ UNCHANGED <<reader, server>> /\ Known \subseteq Known'
  BY RecordFailedIInv DEF RecordFailed
<1>3. f.pending = call[w].copy.pending /\ f.status = "failed"
  BY <1>0 DEF File
<1>4. /\ \A u \in Threads \ {w} : call'[u] = call[u]
      /\ call'[w].copy = NULL /\ call'[w].at = "freeing"
  BY <1>0 DEF RecordFailed, IInv, CallsFit, Calls
<1>. HIDE DEF s, f
<1>. QED
  BY <1>0, <1>1, <1>2, <1>3, <1>4, WriteKept

LEMMA WriteStaleKept ==
    ASSUME IInv, NEW r \in Sessions, NEW u \in Requesters, WriteStale(u) PROVE Kept(r)
<1>. DEFINE s == call[u].session
            turns == Current(s, call[u].copy.turns)
            f == [call[u].copy EXCEPT !.turns = turns]
<1>0. /\ u \in Threads /\ s \in Known /\ call[u].copy \in File
      /\ call[u].at = "stale"
  BY DEF WriteStale, IInv, CallsFit, Fits, Threads
<1>1. Holds(u, s)
  BY <1>0, NullAssumption DEF Holds
<1>2. files' = [files EXCEPT ![s] = f] /\ UNCHANGED <<reader, server>> /\ Known \subseteq Known'
  BY WriteStaleIInv DEF WriteStale
<1>. HIDE DEF turns
<1>3. f.pending = call[u].copy.pending /\ f.status = call[u].copy.status
  BY <1>0 DEF File
<1>4. f.status = "review_complete" => Keeps(u, s)
  BY <1>0, <1>1, <1>3 DEF Keeps
<1>5. /\ \A t \in Threads \ {u} : call'[t] = call[t]
      /\ call'[u].copy = NULL /\ call'[u].at = "idle"
  BY <1>0 DEF WriteStale, IInv, CallsFit, Idle
<1>. HIDE DEF s, f
<1>. QED
  BY <1>0, <1>1, <1>2, <1>3, <1>4, <1>5, WriteKept

LEMMA WriteArchivedKept ==
    ASSUME IInv, NEW r \in Sessions, NEW u \in Requesters, WriteArchived(u) PROVE Kept(r)
<1>. DEFINE s == call[u].session
            turns == Current(s, call[u].copy.turns)
            f == [call[u].copy EXCEPT !.status = "archived", !.turns = turns]
<1>0. /\ u \in Threads /\ s \in Known /\ call[u].copy \in File
      /\ call[u].at = "archiving"
  BY DEF WriteArchived, IInv, CallsFit, Fits, Threads
<1>1. Holds(u, s)
  BY <1>0, NullAssumption DEF Holds
<1>2. files' = [files EXCEPT ![s] = f] /\ UNCHANGED <<reader, server>> /\ Known \subseteq Known'
  BY WriteArchivedIInv DEF WriteArchived
<1>. HIDE DEF turns
<1>3. f.pending = call[u].copy.pending /\ f.status = "archived"
  BY <1>0 DEF File
<1>4. /\ \A t \in Threads \ {u} : call'[t] = call[t]
      /\ call'[u].copy = NULL /\ call'[u].at = "idle"
  BY <1>0 DEF WriteArchived, IInv, CallsFit, Idle
<1>. HIDE DEF s, f
<1>. QED
  BY <1>0, <1>1, <1>2, <1>3, <1>4, WriteKept

LEMMA RecoverWriteKept ==
    ASSUME IInv, NEW r \in Sessions, NEW w \in Workers, RecoverWrite(w) PROVE Kept(r)
<1>. DEFINE s == call[w].session
            status == IF call[w].copy.status \in Restartable THEN "queued_implementation"
                      ELSE "awaiting_review"
            turns == Current(s, call[w].copy.turns)
            f == [call[w].copy EXCEPT !.status = status, !.active = NULL, !.turns = turns]
<1>0. /\ w \in Threads /\ s \in Known /\ call[w].copy \in File
      /\ call[w].at = "rewriting"
  BY DEF RecoverWrite, IInv, CallsFit, Fits, Threads
<1>1. Holds(w, s)
  BY <1>0, NullAssumption DEF Holds
<1>2. files' = [files EXCEPT ![s] = f] /\ UNCHANGED <<reader, server>> /\ Known \subseteq Known'
  BY RecoverWriteIInv DEF RecoverWrite
<1>3. status # "review_complete"
  OBVIOUS
<1>. HIDE DEF status, turns
<1>4. f.pending = call[w].copy.pending /\ f.status = status
  BY <1>0 DEF File
<1>5. /\ \A u \in Threads \ {w} : call'[u] = call[u]
      /\ call'[w].copy = NULL /\ call'[w].at = "requeueing"
  BY <1>0 DEF RecoverWrite, IInv, CallsFit, Calls
<1>. HIDE DEF s, f
<1>. QED
  BY <1>0, <1>1, <1>2, <1>3, <1>4, <1>5, WriteKept

-----------------------------------------------------------------------------
(* Turns and notifications.                                                *)

\* What happens to one session leaves the others alone.
LEMMA ElsewhereKept ==
    ASSUME NEW r \in Sessions, files'[r] = files[r], server'[r] = server[r],
           \A u \in Threads : \/ call'[u] = call[u]
                              \/ call[u].session # r /\ call'[u].session # r,
           \/ reader' = reader
           \/ (reader # NULL => reader.session # r) /\ (reader' # NULL => reader'.session # r)
    PROVE  Kept(r)
<1>1. /\ Pending(r)' <=> Pending(r)
      /\ OnFile(r)' <=> OnFile(r)
      /\ InHand(r)' <=> InHand(r)
      /\ ReaderForgets(r)' <=> ReaderForgets(r)
      /\ Writing(r)' <=> Writing(r)
      /\ Reviewed(r)' <=> Reviewed(r)
      /\ ReaderKeeps(r)' <=> ReaderKeeps(r)
  BY DEF Pending, Running, OnFile, InHand, ReaderForgets, Writing, Reviewed, Status, Exists, ReaderKeeps
<1>2. ASSUME NEW u \in Threads
      PROVE  /\ Holds(u, r)' <=> Holds(u, r)
             /\ Forgets(u, r)' <=> Forgets(u, r)
             /\ Keeps(u, r)' <=> Keeps(u, r)
             /\ Witness(u, r)' <=> Witness(u, r)
             /\ Answered(u, r)' <=> Answered(u, r)
             /\ (call'[u].at = "starting" /\ call'[u].session = r)
                  <=> (call[u].at = "starting" /\ call[u].session = r)
  BY DEF Holds, Forgets, Keeps, Witness, Answered, Begins
<1>3. Anew(r) => Anew(r)'
  BY <1>2 DEF Anew
<1>. QED
  BY <1>1, <1>2, <1>3, SeenStays, QuietStays DEF Kept

\* A turn begins with nothing to ask, and with the answer in hand.
LEMMA AcceptKept ==
    ASSUME IInv, NEW r \in Sessions, NEW t \in Threads, Accept(t) PROVE Kept(r)
<1>. DEFINE s == call[t].session
<1>0. s \in Sessions
  BY FileOfThread DEF Accept
<1>1. /\ \A u \in Threads \ {t} : call'[u] = call[u]
      /\ call'[t].at = "answered" /\ call'[t].session = s /\ call'[t].phase = call[t].phase
      /\ call'[t].turn = server[s].turns + 1
  BY DEF Accept, IInv, CallsFit, Calls
<1>2. /\ \A q \in Sessions \ {s} : server'[q] = server[q]
      /\ server'[s].asks = "not yet" /\ server'[s].phase = call[t].phase
      /\ server'[s].turns = server[s].turns + 1
  BY <1>0 DEF Accept, Begin, IInv, ServerFits
<1>3. UNCHANGED <<files, reader>>
  BY DEF Accept
<1>4. call[t].session = s
  OBVIOUS
<1>. HIDE DEF s
<1>5. CASE r # s
  BY <1>1, <1>2, <1>3, <1>4, <1>5, ElsewhereKept
<1>6. CASE r = s
  <2>1. Seen(r)'
    BY <1>2, <1>6 DEF Seen, Pending
  <2>2. Quiet(r)'
    <3>1. Writing(r)' => Answered(t, r)' /\ Witness(t, r)'
      BY <1>1, <1>2, <1>6 DEF Writing, Answered, Witness, Begins
    <3>. QED
      BY <3>1 DEF Quiet
  <2>3. Anew(r) => Anew(r)'
    BY <1>1, <1>3 DEF Anew
  <2>. QED
    BY <2>1, <2>2, <2>3 DEF Kept
<1>. QED
  BY <1>5, <1>6

\* A turn that begins after its caller has left has nothing to ask either.
LEMMA AcceptLateShown ==
    ASSUME IInv, NEW r \in Sessions, NEW l \in late, AcceptLate(l)
    PROVE  Anew(r) /\ Seen(r) => Anew(r)' /\ Seen(r)'
<1>0. UNCHANGED <<files, call, reader>>
  BY DEF AcceptLate
<1>1. server'[r] = server[r] \/ server'[r].asks = "not yet"
  <2>1. CASE server' = server
    BY <2>1
  <2>2. CASE Begin(l.session, l.phase)
    <3>1. server'[r] = server[r] \/ r = l.session
      BY <2>2 DEF Begin, IInv, ServerFits
    <3>2. r = l.session => server'[r].asks = "not yet"
      BY <2>2 DEF Begin, IInv, ServerFits
    <3>. QED
      BY <3>1, <3>2
  <2>. QED
    BY <2>1, <2>2 DEF AcceptLate
<1>2. CASE server'[r] = server[r]
  BY <1>0, <1>2, ElsewhereKept DEF Kept
<1>3. CASE server'[r].asks = "not yet"
  BY <1>0, <1>3 DEF Seen, Pending, Anew
<1>. QED
  BY <1>1, <1>2, <1>3

\* A turn that ends does not wait for a permission.
LEMMA TurnCompletedKept ==
    ASSUME IInv, NEW r \in Sessions, NEW s \in Sessions,
           NEW outcome \in {"completed", "failed", "interrupted"}, TurnCompleted(s, outcome)
    PROVE  Kept(r)
<1>1. /\ UNCHANGED <<files, call, server>> /\ server[s].asks # "now" /\ reader = NULL
      /\ reader' = [session |-> s, event |-> outcome, copy |-> files[s]]
  BY DEF TurnCompleted, LockFree
<1>2. CASE r # s
  BY <1>1, <1>2, ElsewhereKept
<1>3. CASE r = s
  <2>1. ~Pending(r)' /\ ~ReaderKeeps(r)' /\ (Anew(r) => Anew(r)')
    BY <1>1, <1>3 DEF Pending, ReaderKeeps, Anew
  <2>2. /\ Writing(r)' <=> Writing(r)
        /\ Reviewed(r)' <=> Reviewed(r)
        /\ \A t \in Threads : /\ Keeps(t, r)' <=> Keeps(t, r)
                              /\ Witness(t, r)' <=> Witness(t, r)
                              /\ Answered(t, r)' <=> Answered(t, r)
    BY <1>1 DEF Writing, Reviewed, Status, Exists, Keeps, Holds, Witness, Answered, Begins
  <2>. QED
    BY <2>1, <2>2, QuietStays DEF Kept, Seen
<1>. QED
  BY <1>2, <1>3

\* A turn asks, and the reader has the request in hand before anybody else
\* reads the file.
LEMMA AskPermissionKept ==
    ASSUME IInv, NEW r \in Sessions, NEW s \in Sessions, AskPermission(s), Untouched' PROVE Kept(r)
<1>0. reader = NULL /\ \A t \in Threads : ~Holds(t, s)
  <2>1. "stale" \notin If(Unrecorded(s), "early") \cup If(Copied(s, NULL), "stale")
    BY NotStale DEF AskPermission
  <2>2. ~Copied(s, NULL)
    BY <2>1 DEF If
  <2>. QED
    BY <2>2, NullAssumption, NoCopies DEF AskPermission, LockFree
<1>1. /\ UNCHANGED <<files, call>>
      /\ reader' = [session |-> s, event |-> "approval", copy |-> files[s]]
      /\ \A q \in Sessions \ {s} : server'[q] = server[q]
      /\ server'[s].phase = server[s].phase /\ server'[s].turns = server[s].turns
      /\ reader' # NULL
  <2>1. server[s].phase # NULL
    BY NullAssumption DEF AskPermission, Phases, MutablePhases
  <2>2. files[s] \in File
    BY <2>1, KnownFile DEF IInv, ServerFits, Running
  <2>3. [session |-> s, event |-> "approval", copy |-> files[s]] \in Notification
    BY <2>2 DEF Notification, Events
  <2>4. UNCHANGED <<files, call>> /\ reader' = [session |-> s, event |-> "approval", copy |-> files[s]]
    BY DEF AskPermission
  <2>5. server[s] \in Servers /\ server' = [server EXCEPT ![s].asks = "now"]
    BY DEF AskPermission, IInv, ServerFits
  <2>6. /\ \A q \in Sessions \ {s} : server'[q] = server[q]
        /\ server'[s].phase = server[s].phase /\ server'[s].turns = server[s].turns
    BY <2>5 DEF IInv, ServerFits, Servers
  <2>. QED
    BY <2>3, <2>4, <2>6, NullAssumption
<1>2. CASE r # s
  BY <1>0, <1>1, <1>2, ElsewhereKept
<1>3. CASE r = s
  <2>1. Anew(r) => Anew(r)'
    BY <1>1 DEF Anew
  <2>2. \A t \in Threads : ~Holds(t, r)' /\ ~Forgets(t, r)' /\ ~Keeps(t, r)'
    BY <1>0, <1>1, <1>3 DEF Holds, Forgets, Keeps
  <2>3. InHand(r)' /\ ~ReaderForgets(r)'
    BY <1>1, <1>3 DEF InHand, ReaderForgets
  <2>4. ASSUME Quiet(r) PROVE Quiet(r)'
    <3>1. /\ Writing(r)' <=> Writing(r)
          /\ Reviewed(r)' <=> Reviewed(r)
          /\ \A t \in Threads : /\ Witness(t, r)' <=> Witness(t, r)
                                /\ Answered(t, r)' <=> Answered(t, r)
      BY <1>1, <1>3 DEF Writing, Reviewed, Status, Exists, Witness, Answered, Begins
    <3>2. Writing(r) => files[s] # NULL
      BY <1>3, NullAssumption DEF IInv, ServerFits, Known, Running, Writing, Phases, MutablePhases
    <3>3. Writing(r) /\ ReaderKeeps(r)' => Reviewed(r)
      BY <1>1, <1>3, <3>2 DEF ReaderKeeps, Reviewed, Status, Exists
    <3>4. \A t \in Threads : Witness(t, r) => Answered(t, r)
      BY <1>0, <1>3, NullAssumption DEF Witness, Answered, Begins, Holds, IInv, CallsFit, Fits
    <3>. QED
      BY <2>2, <2>4, <3>1, <3>3, <3>4 DEF Quiet
  <2>. QED
    BY <2>1, <2>2, <2>3, <2>4 DEF Kept, Seen
<1>. QED
  BY <1>2, <1>3

LEMMA OtherEventKept ==
    ASSUME NEW s, OtherEvent(s), Untouched' PROVE FALSE
  BY NotStale DEF OtherEvent

\* The reader writes the request that it has in hand, or the file as it was with
\* the request that was there, or the end of a turn that does not wait.
LEMMA ReceiveKept ==
    ASSUME IInv, NEW r \in Sessions, Receive PROVE Kept(r)
<1>. DEFINE s == reader.session
<1>0. /\ reader # NULL /\ s \in Sessions /\ reader.copy \in File /\ files[s] # NULL
      /\ reader.event \in Events
  BY DEF Receive, IInv, ReaderFits, Notification, Known
<1>1. /\ UNCHANGED call /\ reader' = NULL
      /\ files'[s] = Received /\ \A q \in Sessions \ {s} : files'[q] = files[q]
      /\ \A q \in Sessions \ {s} : server'[q] = server[q]
  BY <1>0 DEF Receive, IInv, FilesFit, ServerFits
<1>2. CASE r # s
  BY <1>0, <1>1, <1>2, ElsewhereKept
<1>3. CASE r = s
  <2>0. Anew(r) => Anew(r)'
    BY <1>0, <1>1, <1>3 DEF Anew
  <2>1. CASE reader.event \notin {"approval", "other"}
    <3>1. server'[s].phase = NULL
      BY <1>0, <2>1 DEF Receive, IInv, ServerFits, Servers
    <3>. QED
      BY <1>3, <2>0, <3>1, NullAssumption DEF Kept, Seen, Quiet, Pending, Running, Writing, MutablePhases, Phases
  <2>2. CASE reader.event \in {"approval", "other"}
    <3>1. server' = server
      BY <2>2 DEF Receive
    <3>2. files'[s].status = reader.copy.status
      BY <1>0, <1>1, <2>2 DEF Received, File
    <3>3. files'[s].pending = IF reader.event = "approval" THEN server[s].turns ELSE reader.copy.pending
      BY <1>0, <1>1, <2>2 DEF Received, File
    <3>4. /\ Pending(r)' <=> Pending(r)
          /\ Writing(r)' <=> Writing(r)
          /\ ~InHand(r)' /\ ~ReaderForgets(r)' /\ ~ReaderKeeps(r)'
      BY <1>1, <3>1 DEF Pending, Running, Writing, InHand, ReaderForgets, ReaderKeeps
    <3>5. ASSUME NEW t \in Threads
          PROVE  /\ Forgets(t, r)' <=> Forgets(t, r)
                 /\ Keeps(t, r)' <=> Keeps(t, r)
                 /\ Witness(t, r)' <=> Witness(t, r)
                 /\ Answered(t, r)' <=> Answered(t, r)
      BY <1>1, <3>1 DEF Holds, Forgets, Keeps, Witness, Answered, Begins
    <3>6. ASSUME Seen(r) PROVE Seen(r)'
      <4>1. Pending(r) => OnFile(r)'
        BY <1>0, <1>3, <2>2, <3>1, <3>3, <3>6 DEF Seen, ReaderForgets, OnFile
      <4>. QED
        BY <3>4, <3>5, <3>6, <4>1 DEF Seen
    <3>7. ASSUME Quiet(r) PROVE Quiet(r)'
      <4>1. Reviewed(r)' => ReaderKeeps(r)
        BY <1>0, <1>3, <2>2, <3>2, NullAssumption, StatusesNamed DEF Reviewed, Status, Exists, ReaderKeeps
      <4>2. \A t \in Threads : Answered(t, r) => Witness(t, r)
        BY DEF Answered, Witness
      <4>. QED
        BY <3>4, <3>5, <3>7, <4>1, <4>2 DEF Quiet
    <3>. QED
      BY <2>0, <3>6, <3>7 DEF Kept
  <2>. QED
    BY <2>1, <2>2
<1>. QED
  BY <1>2, <1>3

\* No turn survives a restart, and no thread.
LEMMA RestartKept ==
    ASSUME IInv, NEW r \in Sessions, Restart PROVE Kept(r)
<1>1. server'[r].phase = NULL
  BY DEF Restart, IInv, ServerFits, Servers
<1>2. ~Pending(r)' /\ ~Writing(r)'
  BY <1>1, NullAssumption DEF Pending, Running, Writing, MutablePhases, Phases
<1>3. Anew(r)'
  BY DEF Restart, Anew, Idle
<1>. QED
  BY <1>2, <1>3 DEF Kept, Seen, Quiet

LEMMA ReloadKept == ASSUME NEW r \in Sessions, Reload PROVE Kept(r)
  BY ElsewhereKept DEF Reload

-----------------------------------------------------------------------------
\* Every step in which nobody writes over what another will write keeps what
\* the files show; a turn that begins late keeps the requests only.
LEMMA NextKept ==
    ASSUME IInv, NEW r \in Sessions, [Next]_vars, Untouched'
    PROVE  /\ Anew(r) /\ Seen(r) => Anew(r)' /\ Seen(r)'
           /\ late = {} => Kept(r)
<1>. SUFFICES Kept(r) \/ (late # {} /\ (Anew(r) /\ Seen(r) => Anew(r)' /\ Seen(r)'))
  BY DEF Kept
<1>1. ASSUME NEW w \in Workers, WorkerStep(w) PROVE Kept(r)
  BY <1>1, TakeTaskKept, ReadFailedKept, RecordFailedKept, FreeFailedKept, RecoverNextKept,
     RecoverWriteKept, RecoverQueueKept DEF WorkerStep
<1>2. ASSUME NEW u \in Requesters, RequesterStep(u) PROVE Kept(r)
  BY <1>2, CreateSessionKept, WriteStaleKept, WriteArchivedKept DEF RequesterStep
<1>3. ASSUME NEW u \in Requesters, Human(u) PROVE Kept(r)
  BY <1>3, AuthorizeKept, RequestKept, InterruptKept, RespondKept, PollKept, ArchiveKept DEF Human
<1>4. ASSUME NEW t \in Threads, ThreadStep(t) PROVE Kept(r)
  BY <1>4, ClaimKept, UndoKept, ReadBackKept, RecordKept DEF ThreadStep
<1>5. ASSUME NEW t \in Threads, Accept(t) \/ Refuse(t) \/ Timeout(t) PROVE Kept(r)
  BY <1>5, AcceptKept, RaisedKept DEF Refuse, Timeout
<1>6. ASSUME NEW l \in late, AcceptLate(l)
      PROVE  late # {} /\ (Anew(r) /\ Seen(r) => Anew(r)' /\ Seen(r)')
  BY <1>6, AcceptLateShown
<1>7. ASSUME NEW s \in Sessions,
             \/ \E outcome \in {"completed", "failed", "interrupted"} : TurnCompleted(s, outcome)
             \/ AskPermission(s) \/ OtherEvent(s)
      PROVE  Kept(r)
  BY <1>7, TurnCompletedKept, AskPermissionKept, OtherEventKept
<1>8. CASE Receive \/ Restart \/ Reload
  BY <1>8, ReceiveKept, RestartKept, ReloadKept
<1>9. CASE UNCHANGED vars
  BY <1>9, ElsewhereKept DEF vars
<1>. QED
  BY <1>1, <1>2, <1>3, <1>4, <1>5, <1>6, <1>7, <1>8, <1>9 DEF Next

\* Without a timeout the server keeps no request whose caller has left.
LEMMA NothingLate ==
    ASSUME [Next]_vars, late = {}, "timeout" \notin faults' PROVE late' = {}
<1>1. ASSUME NEW w \in Workers, WorkerStep(w) PROVE late' = {}
  BY <1>1 DEF WorkerStep, TakeTask, ReadFailed, RecordFailed, FreeFailed, RecoverNext, RecoverWrite,
     RecoverQueue
<1>2. ASSUME NEW u \in Requesters, RequesterStep(u) \/ Human(u) PROVE late' = {}
  BY <1>2 DEF RequesterStep, Human, CreateSession, WriteStale, WriteArchived, Authorize, Request,
     Interrupt, Respond, Poll, Archive
<1>3. ASSUME NEW t \in Threads, ThreadStep(t) \/ Accept(t) \/ Refuse(t) \/ Timeout(t)
      PROVE  late' = {}
  BY <1>3 DEF ThreadStep, Claim, Undo, ReadBack, Record, Accept, Refuse, Timeout, Disturb
<1>4. ASSUME NEW s \in Sessions,
             \/ \E outcome \in {"completed", "failed", "interrupted"} : TurnCompleted(s, outcome)
             \/ AskPermission(s) \/ OtherEvent(s)
      PROVE  late' = {}
  BY <1>4 DEF TurnCompleted, AskPermission, OtherEvent
<1>5. CASE Receive \/ Restart \/ Reload \/ UNCHANGED vars
  BY <1>5 DEF Receive, Restart, Reload, vars
<1>. QED
  BY <1>1, <1>2, <1>3, <1>4, <1>5 DEF Next

\* What the files show, as long as nobody writes over what another will write.
Shown == Untouched => \A s \in Sessions : Anew(s) /\ Seen(s)
Punctual == "timeout" \notin faults
Settling == Untouched /\ Punctual => late = {} /\ \A s \in Sessions : Quiet(s)

LEMMA InitShown == Init => Shown /\ Settling
<1>. SUFFICES ASSUME Init, NEW s \in Sessions PROVE Anew(s) /\ Seen(s) /\ Quiet(s) /\ late = {}
  BY DEF Init, Shown, Settling
<1>1. server[s].phase = NULL
  BY DEF Init
<1>2. ~Pending(s) /\ ~Writing(s)
  BY <1>1, NullAssumption DEF Pending, Running, Writing, MutablePhases, Phases
<1>3. Anew(s)
  BY DEF Init, Anew, Idle
<1>. QED
  BY <1>2, <1>3 DEF Init, Seen, Quiet

LEMMA NextShown == ASSUME IInv, Shown, Settling, [Next]_vars PROVE Shown' /\ Settling'
<1>1. ASSUME Untouched' PROVE Untouched /\ \A s \in Sessions : Anew(s)' /\ Seen(s)'
  <2>1. Untouched
    BY <1>1, FaultsStay DEF Untouched
  <2>. QED
    BY <1>1, <2>1, NextKept DEF Shown
<1>2. ASSUME Untouched', Punctual' PROVE late' = {} /\ \A s \in Sessions : Quiet(s)'
  <2>1. Untouched /\ Punctual
    BY <1>1, <1>2, FaultsStay DEF Punctual
  <2>2. late = {} /\ \A s \in Sessions : Anew(s) /\ Quiet(s)
    BY <2>1 DEF Shown, Settling
  <2>3. late' = {}
    BY <1>2, <2>2, NothingLate DEF Punctual
  <2>4. \A s \in Sessions : Kept(s)
    BY <1>2, <2>2, NextKept
  <2>. QED
    BY <2>2, <2>3, <2>4 DEF Kept
<1>. QED
  BY <1>1, <1>2 DEF Shown, Settling

LEMMA AlwaysShown == Spec => [](Shown /\ Settling)
<1>. DEFINE Inv == Shown /\ Settling
<1>1. Init => Inv
  BY InitShown
<1>2. IInv /\ Inv /\ [Next]_vars => Inv'
  BY NextShown
<1>. HIDE DEF Inv
<1>3. Spec => []Inv
  BY <1>1, <1>2, Inductive, PTL DEF Spec
<1>. QED
  BY <1>3 DEF Inv

\* Whatever fails, is refused or interrupted, whatever comes late, and whenever
\* the server restarts or recovers: a permission that a turn waits for is in the
\* session's file or about to be written there.  Only a thread that writes the
\* file over what another has read or will write is excepted.
THEOREM RequestsShown == Spec => []RequestsVisible
<1>1. Shown => RequestsVisible
  BY DEF Shown, Untouched, Seen, Pending, OnFile, InHand, RequestsVisible
<1>. QED
  BY <1>1, AlwaysShown, PTL

\* Likewise, no session shows a finished review while one of its turns may write
\* to the worktree, but for the moment before the request that began this turn
\* has recorded it; a caller that has left, and so records nothing, is excepted.
THEOREM ReviewsQuiet == Spec => []ReviewedIsQuiet
<1>1. Settling => ReviewedIsQuiet
  BY DEF Settling, Untouched, Punctual, Quiet, Reviewed, Witness, Begins, Unrecorded, ReviewedIsQuiet
<1>. QED
  BY <1>1, AlwaysShown, PTL

-----------------------------------------------------------------------------
(* No job is forgotten: what JobsFinish needs besides fairness.            *)

\* The disturbances after which a job may be: two requests for a session at work,
\* a recovery while sessions are at work, an answer too late, a refused request,
\* a completion before its request is recorded, a file written over another's
\* change, a restart.  A failed or interrupted turn, or a server that is not there
\* for the recovery, is none of them.
Disruptive == Unserializing \cup {"refusal", "early", "stale", "restart"}
Smooth == faults \cap Disruptive = {}

\* A session that cannot be archived, or improves its skill, is at work: there is
\* a task for it, it is queued, a thread drives it on, or its turn runs.
Needs(s) == Status(s) \in Unarchivable \cup {"improving_skill"}
Driven(s) ==
    \/ In(tasks, s) \/ Queued(s) \/ Running(s)
    \/ \E t \in Threads :
         /\ call[t].session = s
         /\ call[t].at \in {"claiming", "asked", "answered", "recording", "rewriting", "requeueing"}

\* For a session that ended there is nothing under way.  One with a finished review
\* or an improved skill waits for a human, who may have asked already.
Over(s) == Status(s) \in {"failed", "interrupted", "archived"}

JobsCarried ==
    Smooth => \A s \in Sessions : /\ Needs(s) => Driven(s)
                                  /\ Over(s) => ~Driven(s)

\* Who owns the worktree uses it, or is about to: unless a turn failed or was
\* interrupted, which keeps the worktree.
Sound == faults \cap {"failure", "interrupt"} = {}
Uses(s) ==
    \/ Writing(s)
    \/ \E i \in DOMAIN tasks : tasks[i] = Implement(s)
    \/ \E t \in Threads : /\ call[t].session = s
                          /\ call[t].at \in {"claiming", "asked"}
                          /\ call[t].phase \in MutablePhases

OwnerWorks == Smooth /\ Sound /\ owner # NULL => Uses(owner)

\* The status from which the turn of a thread begins: a human's when nothing is
\* under way.
BeginsFrom(t, s) ==
    \/ call[t].phase = "planning" /\ Status(s) = "planning"
    \/ t \in Workers /\ call[t].phase = "implementation" /\ Status(s) = "queued_implementation"
    \/ t \in Workers /\ call[t].phase = "review" /\ Status(s) = "awaiting_review"
    \/ /\ t \in Requesters /\ call[t].phase # "planning"
       /\ Status(s) \in {"review_complete", "awaiting_skill_review"}

Turning(t, s) == call[t].session = s /\ call[t].at \in {"answered", "recording"}
Copies(t, s) == call[t].session = s /\ call[t].at \in {"recording", "stale", "rewriting"}

Leaving(t, s) == call[t].session = s /\ call[t].at = "archiving"

\* Nothing is under way for a session while it is archived.
LeftAlone(s) ==
    \A t \in Threads : Leaving(t, s) =>
        /\ ~In(tasks, s) /\ ~Queued(s) /\ ~Running(s)
        /\ \A u \in Threads \ {t} : call[u].session # s

ThreadFits(t, s) ==
    call[t].session = s =>
      /\ call[t].at \in {"starting", "claiming", "asked", "answered", "recording", "stale",
                         "archiving", "rewriting", "requeueing"}
      /\ call[t].at = "starting" => ~Exists(s)
      /\ call[t].at \in {"claiming", "asked", "answered", "recording"} => BeginsFrom(t, s)
      /\ call[t].at = "claiming" => call[t].phase \in MutablePhases /\ (t \in Workers => owner = s)
      /\ Turning(t, s) => server[s].phase = call[t].phase /\ server[s].turns = call[t].turn
      /\ Copies(t, s) => call[t].copy.status = Status(s) /\ call[t].copy.turns = files[s].turns
      /\ call[t].at = "rewriting" => Status(s) = "awaiting_skill_review"
      /\ call[t].at = "requeueing" => Status(s) = "awaiting_review" /\ call[t].phase = "review"

ThreadsFit(s) ==
    /\ \A t \in Threads : ThreadFits(t, s)
    /\ \A t, u \in Threads : Turning(t, s) /\ Turning(u, s) => t = u
    /\ \A t, u \in Threads : Copies(t, s) /\ Copies(u, s) => t = u

TaskFits(s) ==
    \A i \in DOMAIN tasks : tasks[i].session = s =>
        \/ tasks[i] = Implement(s) /\ Status(s) = "queued_implementation" /\ owner = s
        \/ tasks[i] = Review(s) /\ Status(s) = "awaiting_review"

\* A turn that its file does not know has its request about to record it.
TurnFits(s) ==
    /\ Running(s) =>
          \/ \E t \in Threads : Turning(t, s)
          \/ server[s].turns \in files[s].turns /\ Status(s) = StartedStatus[server[s].phase]
    /\ server[s].stop => "interrupt" \in faults

ReadFits(s) ==
    reader # NULL /\ reader.session = s =>
        /\ Running(s) /\ reader.copy = files[s]
        /\ \A t \in Threads : ~Turning(t, s) /\ ~Copies(t, s)
        /\ reader.event = "failed" => "failure" \in faults
        /\ reader.event = "interrupted" => "interrupt" \in faults

JobFits(s) ==
    /\ ThreadsFit(s)
    /\ TaskFits(s)
    /\ Queued(s) => Status(s) = "queued_implementation"
    /\ TurnFits(s)
    /\ ReadFits(s)
    /\ LeftAlone(s)
    /\ Needs(s) => Driven(s)
    /\ Sound => (owner = s => Uses(s))

\* A step that leaves a session where it is, or takes it out of the queue with
\* the worktree.
LEMMA JobAside ==
    ASSUME NEW r \in Sessions, JobFits(r), faults \subseteq faults',
           files'[r] = files[r], server'[r].phase = server[r].phase,
           server'[r].turns = server[r].turns, server'[r].stop = server[r].stop,
           \A t \in Threads : call'[t] = call[t] \/ (call[t].session # r /\ call'[t].session # r),
           \A i \in DOMAIN tasks' : tasks'[i].session = r =>
               \/ \E j \in DOMAIN tasks : tasks[j] = tasks'[i]
               \/ tasks'[i] = Implement(r) /\ Queued(r) /\ owner' = r,
           \A j \in DOMAIN tasks : tasks[j].session = r => \E i \in DOMAIN tasks' : tasks'[i] = tasks[j],
           Queued(r)' => Queued(r),
           Queued(r) => Queued(r)' \/ \E i \in DOMAIN tasks' : tasks'[i] = Implement(r),
           owner = r => owner' = r,
           owner' = r => owner = r \/ \E i \in DOMAIN tasks' : tasks'[i] = Implement(r),
           reader' = reader \/ reader' = NULL \/ reader'.session # r
    PROVE  JobFits(r)'
<1>0. /\ Status(r)' = Status(r) /\ Exists(r)' = Exists(r) /\ Running(r)' = Running(r)
      /\ Writing(r)' = Writing(r) /\ Needs(r)' = Needs(r)
  BY DEF Status, Exists, Running, Writing, Needs
<1>1. ASSUME NEW t \in Threads
      PROVE  /\ Turning(t, r)' <=> Turning(t, r)
             /\ Copies(t, r)' <=> Copies(t, r)
             /\ ThreadFits(t, r) => ThreadFits(t, r)'
  <2>1. CASE call'[t] = call[t]
    <3>1. /\ Turning(t, r)' <=> Turning(t, r)
          /\ Copies(t, r)' <=> Copies(t, r)
          /\ BeginsFrom(t, r)' <=> BeginsFrom(t, r)
      BY <1>0, <2>1 DEF Turning, Copies, BeginsFrom
    <3>. QED
      BY <1>0, <2>1, <3>1 DEF ThreadFits
  <2>2. CASE call[t].session # r /\ call'[t].session # r
    BY <2>2 DEF Turning, Copies, ThreadFits
  <2>. QED
    BY <2>1, <2>2
<1>2. ThreadsFit(r)'
  BY <1>1 DEF JobFits, ThreadsFit
<1>3. TaskFits(r)'
  BY <1>0 DEF JobFits, TaskFits
<1>4. TurnFits(r)'
  BY <1>0, <1>1 DEF JobFits, TurnFits
<1>5. ReadFits(r)'
  BY <1>0, <1>1 DEF JobFits, ReadFits
<1>6. In(tasks, r) \/ Queued(r) => In(tasks', r) \/ Queued(r)'
  BY DEF In, Implement
<1>7. Driven(r) => Driven(r)'
  BY <1>0, <1>6 DEF Driven
<1>8. Uses(r) => Uses(r)'
  <2>1. (\E i \in DOMAIN tasks : tasks[i] = Implement(r)) => \E i \in DOMAIN tasks' : tasks'[i] = Implement(r)
    BY DEF Implement
  <2>. QED
    BY <1>0, <2>1 DEF Uses
<1>9. Sound' => Sound
  BY DEF Sound
<1>10. (\E i \in DOMAIN tasks' : tasks'[i] = Implement(r)) => Uses(r)'
  BY DEF Uses
<1>11. LeftAlone(r)'
  <2>1. \A t \in Threads : Leaving(t, r)' => Leaving(t, r)
    BY DEF Leaving
  <2>2. In(tasks', r) => In(tasks, r) \/ Queued(r)
    BY DEF In
  <2>3. \A t \in Threads : call[t].session # r => call'[t].session # r
    OBVIOUS
  <2>. QED
    BY <1>0, <2>1, <2>2, <2>3 DEF JobFits, LeftAlone
<1>. QED
  BY <1>0, <1>2, <1>3, <1>4, <1>5, <1>7, <1>8, <1>9, <1>10, <1>11 DEF JobFits

-----------------------------------------------------------------------------
LEMMA SmoothDisturb ==
    ASSUME NEW K, Disturb(K), Smooth' PROVE K \cap Disruptive = {}
  BY DEF Disturb, Smooth

\* Where a step concerns one session, the others keep their place.
LEMMA Others ==
    ASSUME \A r \in Sessions : JobFits(r), faults \subseteq faults', NEW s,
           UNCHANGED <<tasks, queue>>, \A r \in Sessions \ {s} : owner' = r <=> owner = r,
           \A r \in Sessions \ {s} : files'[r] = files[r] /\ server'[r] = server[r],
           \A t \in Threads : \/ call'[t] = call[t]
                              \/ call[t].session \in {NULL, s} /\ call'[t].session \in {NULL, s},
           reader' = reader \/ reader' = NULL \/ reader'.session = s
    PROVE  \A r \in Sessions \ {s} : JobFits(r)'
<1>. SUFFICES ASSUME NEW r \in Sessions \ {s} PROVE JobFits(r)'
  OBVIOUS
<1>1. /\ Queued(r)' <=> Queued(r)
      /\ \A i \in DOMAIN tasks' : \E j \in DOMAIN tasks : tasks[j] = tasks'[i]
      /\ \A j \in DOMAIN tasks : \E i \in DOMAIN tasks' : tasks'[i] = tasks[j]
  BY DEF Queued
<1>2. \A t \in Threads : call'[t] = call[t] \/ (call[t].session # r /\ call'[t].session # r)
  BY NullAssumption
<1>. QED
  BY <1>1, <1>2, JobAside

\* One thread moves on; the file and the turn of its session stay.
LEMMA ThreadMoves ==
    ASSUME IInv, NEW s \in Sessions, JobFits(s), faults \subseteq faults',
           NEW t \in Threads, NEW k, call' = [call EXCEPT ![t] = k],
           files'[s] = files[s], server'[s].phase = server[s].phase,
           server'[s].turns = server[s].turns, server'[s].stop => "interrupt" \in faults',
           reader' = reader, ThreadFits(t, s)', Turning(t, s)' <=> Turning(t, s),
           Copies(t, s)' => Copies(t, s) \/ ~Copied(s, t),
           TaskFits(s)', Queued(s)' => Queued(s), Needs(s) => Driven(s)', owner = s => owner' = s,
           LeftAlone(s)', Sound => (owner' = s => Uses(s)')
    PROVE  JobFits(s)'
<1>0. call'[t] = k /\ \A u \in Threads \ {t} : call'[u] = call[u]
  BY DEF IInv, CallsFit
<1>1. /\ Status(s)' = Status(s) /\ Exists(s)' = Exists(s) /\ Running(s)' = Running(s)
      /\ Needs(s)' = Needs(s)
  BY DEF Status, Exists, Running, Needs
<1>2. ASSUME NEW u \in Threads \ {t}
      PROVE  /\ Turning(u, s)' <=> Turning(u, s)
             /\ Copies(u, s)' <=> Copies(u, s)
             /\ ThreadFits(u, s) => ThreadFits(u, s)'
  <2>1. /\ Turning(u, s)' <=> Turning(u, s)
        /\ Copies(u, s)' <=> Copies(u, s)
        /\ BeginsFrom(u, s)' <=> BeginsFrom(u, s)
    BY <1>0, <1>1 DEF Turning, Copies, BeginsFrom
  <2>. QED
    BY <1>0, <1>1, <2>1 DEF ThreadFits
<1>3. Sound' => Sound
  BY DEF Sound
<1>4. ~Copied(s, t) => (\A u \in Threads \ {t} : ~Copies(u, s)) /\ (reader = NULL \/ reader.session # s)
  BY NullAssumption DEF Copied, Copies, IInv, CallsFit, Fits
<1>5. ThreadsFit(s)'
  BY <1>2, <1>4 DEF JobFits, ThreadsFit
<1>6. TurnFits(s)'
  BY <1>1, <1>2 DEF JobFits, TurnFits
<1>7. ReadFits(s)'
  BY <1>1, <1>2, <1>4 DEF JobFits, ReadFits
<1>. QED
  BY <1>1, <1>3, <1>5, <1>6, <1>7 DEF JobFits

\* A thread that takes up a session, or goes on with it, leaves it driven.
LEMMA StillDriven ==
    ASSUME IInv, NEW s \in Sessions, NEW t \in Threads, NEW k, call' = [call EXCEPT ![t] = k],
           UNCHANGED <<tasks, queue>>, server'[s].phase = server[s].phase,
           \/ call[t].session # s
           \/ call[t].at \in {"starting", "stale"}
           \/ k.session = s /\ k.phase = call[t].phase /\ k.at \in {"claiming", "asked"}
    PROVE  (Driven(s) => Driven(s)') /\ (Uses(s) => Uses(s)')
<1>0. call'[t] = k /\ \A u \in Threads \ {t} : call'[u] = call[u]
  BY DEF IInv, CallsFit
<1>1. Driven(s) => Driven(s)'
  BY <1>0 DEF Driven, In, Queued, Running
<1>2. Uses(s) => Uses(s)'
  BY <1>0 DEF Uses, Writing
<1>. QED
  BY <1>1, <1>2

\* A thread that works on a session without leaving it shows that nobody does.
LEMMA NobodyLeaves ==
    ASSUME NEW s \in Sessions, JobFits(s), NEW t \in Threads, call[t].session = s,
           call[t].at # "archiving"
    PROVE  \A u \in Threads : ~Leaving(u, s)
  BY DEF JobFits, LeftAlone, Leaving

LEMMA StillHere ==
    ASSUME IInv, NEW s \in Sessions, JobFits(s), NEW t \in Threads, call[t].session = s,
           call[t].at # "archiving", NEW k, call' = [call EXCEPT ![t] = k], k.at # "archiving"
    PROVE  LeftAlone(s)'
<1>1. call'[t] = k /\ \A u \in Threads \ {t} : call'[u] = call[u]
  BY DEF IInv, CallsFit
<1>2. \A u \in Threads : ~Leaving(u, s)'
  BY <1>1, NobodyLeaves DEF Leaving
<1>. QED
  BY <1>2 DEF LeftAlone

LEMMA TaskStays ==
    ASSUME NEW s \in Sessions, TaskFits(s), UNCHANGED tasks, files'[s] = files[s],
           owner = s => owner' = s
    PROVE  TaskFits(s)'
  BY DEF TaskFits, Status, Exists

\* What a thread without a session is not.
LEMMA IdleFree ==
    ASSUME NEW s \in Sessions, NEW t \in Threads, call[t].session = NULL
    PROVE  call[t].session # s /\ ~Turning(t, s) /\ ~Copies(t, s)
  BY NullAssumption DEF Turning, Copies

LEMMA IdleSession == Idle.session = NULL /\ Idle.copy = NULL /\ Idle.at = "idle"
  BY DEF Idle

\* A thread without a session takes one up; nothing else moves.
LEMMA TakenUp ==
    ASSUME IInv, \A r \in Sessions : JobFits(r), faults \subseteq faults', NEW s \in Sessions,
           NEW t \in Threads, call[t].session = NULL, NEW k, call' = [call EXCEPT ![t] = k],
           k.session = s, UNCHANGED <<files, owner, queue, tasks, reader>>,
           \A r \in Sessions \ {s} : server'[r] = server[r],
           server'[s].phase = server[s].phase, server'[s].turns = server[s].turns,
           server'[s].stop => server[s].stop \/ "interrupt" \in faults',
           ThreadFits(t, s)', k.at \notin {"answered", "recording"},
           k.at \in {"stale", "rewriting"} => ~Copied(s, t),
           \A u \in Threads : ~Leaving(u, s), k.at = "archiving" => ~AtWork(s, NULL)
    PROVE  \A r \in Sessions : JobFits(r)'
<1>1. call'[t] = k /\ \A u \in Threads \ {t} : call'[u] = call[u]
  BY DEF IInv, CallsFit
<1>2. \A r \in Sessions \ {s} : JobFits(r)'
  BY <1>1, Others
<1>3. JobFits(s)'
  <2>1. call[t].session # s /\ ~Turning(t, s) /\ ~Copies(t, s)
    BY IdleFree
  <2>2. ~Turning(t, s)' /\ (Copies(t, s)' => ~Copied(s, t))
    BY <1>1 DEF Turning, Copies
  <2>3. (Driven(s) => Driven(s)') /\ (Uses(s) => Uses(s)') /\ (Queued(s)' => Queued(s))
    BY <2>1, StillDriven DEF Queued
  <2>4. TaskFits(s)' /\ (Needs(s) => Driven(s)) /\ (Sound => (owner = s => Uses(s)))
        /\ (server[s].stop => "interrupt" \in faults)
    BY TaskStays DEF JobFits, TurnFits
  <2>5. LeftAlone(s)'
    <3>1. \A u \in Threads \ {t} : ~Leaving(u, s)'
      BY <1>1 DEF Leaving
    <3>2. ASSUME Leaving(t, s)'
          PROVE  ~In(tasks, s)' /\ ~Queued(s)' /\ ~Running(s)' /\ \A u \in Threads \ {t} : call'[u].session # s
      <4>1. ~AtWork(s, NULL)
        BY <1>1, <3>2 DEF Leaving
      <4>. QED
        BY <1>1, <4>1, NullAssumption DEF AtWork, Engaged, Dispatched, Queued, Running, In
    <3>. QED
      BY <3>1, <3>2 DEF LeftAlone
  <2>. QED
    BY <2>1, <2>2, <2>3, <2>4, <2>5, ThreadMoves
<1>. QED
  BY <1>2, <1>3

LEMMA AuthorizeFits ==
    ASSUME IInv, \A s \in Sessions : JobFits(s), NEW u \in Requesters, NEW s \in Sessions,
           Authorize(u, s)
    PROVE  \A r \in Sessions : JobFits(r)'
<1>. DEFINE k == [Idle EXCEPT !.at = "starting", !.session = s]
<1>0. u \in Threads /\ k.session = s /\ k.at = "starting"
  BY DEF Threads, Idle
<1>1. call' = [call EXCEPT ![u] = k]
  BY DEF Authorize
<1>. HIDE DEF k
<1>2. /\ UNCHANGED <<files, owner, queue, tasks, reader, server, faults>>
      /\ call[u].session = NULL /\ ~Exists(s)
  BY IdleSession DEF Authorize, memory, workspace, bounds
<1>3. ThreadFits(u, s)'
  <2>1. call'[u] = k
    BY <1>0, <1>1 DEF IInv, CallsFit
  <2>. QED
    BY <1>0, <1>2, <2>1 DEF ThreadFits, Turning, Copies, Exists
<1>4. \A t \in Threads : ~Leaving(t, s)
  BY NullAssumption DEF Authorize, Engaged, Leaving
<1>. QED
  BY <1>0, <1>1, <1>2, <1>3, <1>4, TakenUp

\* A human asks when nothing is under way, which leaves two statuses.
LEMMA RequestFits ==
    ASSUME IInv, \A s \in Sessions : JobFits(s), NEW u \in Requesters, NEW s \in Sessions,
           NEW phase \in DOMAIN AllowedFrom, Request(u, s, phase), Smooth'
    PROVE  \A r \in Sessions : JobFits(r)'
<1>. DEFINE k == Begun(s, phase)
<1>0. u \in Threads /\ k.session = s /\ k.phase = phase /\ k.at \in {"claiming", "asked"}
      /\ (k.at = "claiming" => phase \in MutablePhases) /\ phase # "planning"
  BY DEF Threads, Begun, Idle, AllowedFrom
<1>1. call' = [call EXCEPT ![u] = k]
  BY DEF Request
<1>. HIDE DEF k
<1>2. /\ UNCHANGED <<files, owner, queue, tasks, reader, server>> /\ faults \subseteq faults'
      /\ call[u].session = NULL
  BY IdleSession DEF Request, memory, workspace, Disturb
<1>3. ~AtWork(s, NULL)
  BY SmoothDisturb DEF Request, If, Disruptive, Unserializing
<1>4. ~Driven(s)
  BY <1>3, NullAssumption DEF AtWork, Driven, Engaged, Dispatched, In
<1>5. Status(s) \in {"review_complete", "awaiting_skill_review"}
  <2>1. Status(s) \in {"queued_implementation", "review_complete", "awaiting_review",
                       "awaiting_skill_review"}
    <3>1. phase \in {"implementation", "correction", "skill_revision", "review"}
      BY DEF AllowedFrom
    <3>2. Status(s) \in AllowedFrom[phase]
      BY DEF Request
    <3>. QED
      BY <3>1, <3>2 DEF AllowedFrom
  <2>2. ~Needs(s)
    BY <1>4 DEF JobFits
  <2>. QED
    BY <2>1, <2>2 DEF Needs, Unarchivable
<1>6. ThreadFits(u, s)'
  <2>1. call'[u] = k /\ u \notin Workers /\ Status(s)' = Status(s)
    BY <1>0, <1>1, <1>2, ThreadsAssumption DEF IInv, CallsFit, Status, Exists
  <2>. QED
    BY <1>0, <1>2, <1>5, <2>1 DEF ThreadFits, Turning, Copies, BeginsFrom
<1>7. \A t \in Threads : ~Leaving(t, s)
  BY <1>3, NullAssumption DEF AtWork, Engaged, Leaving
<1>. QED
  BY <1>0, <1>1, <1>2, <1>6, <1>7, TakenUp

\* Who leaves a session holds a copy of its file.
LEMMA NoneLeaves ==
    ASSUME IInv, NEW s, NEW t, ~Copied(s, t) PROVE \A u \in Threads \ {t} : ~Leaving(u, s)
  BY NullAssumption DEF Copied, Leaving, IInv, CallsFit, Fits

\* A copy of the file, to be written later, that differs in the request at most.
LEMMA CopyTaken ==
    ASSUME IInv, \A r \in Sessions : JobFits(r), faults \subseteq faults', NEW s \in Sessions,
           NEW t \in Threads, call[t] = Idle, NEW f, f.status = files[s].status,
           f.turns = files[s].turns, Exists(s),
           call' = [call EXCEPT ![t] = [Idle EXCEPT !.at = "stale", !.session = s, !.copy = f]],
           UNCHANGED <<files, owner, queue, tasks, reader>>,
           \A r \in Sessions \ {s} : server'[r] = server[r],
           server'[s].phase = server[s].phase, server'[s].turns = server[s].turns,
           server'[s].stop => server[s].stop \/ "interrupt" \in faults', ~Copied(s, t)
    PROVE  \A r \in Sessions : JobFits(r)'
<1>. DEFINE k == [Idle EXCEPT !.at = "stale", !.session = s, !.copy = f]
<1>1. k.session = s /\ k.at = "stale" /\ k.copy = f /\ call[t].session = NULL
  BY DEF Idle
<1>. HIDE DEF k
<1>2. call' = [call EXCEPT ![t] = k]
  BY DEF k
<1>3. call'[t] = k
  BY <1>2 DEF IInv, CallsFit
<1>4. ThreadFits(t, s)'
  BY <1>1, <1>3 DEF ThreadFits, Turning, Copies, Status, Exists
<1>5. \A u \in Threads : ~Leaving(u, s)
  BY NoneLeaves DEF Idle, Leaving
<1>. QED
  BY <1>1, <1>2, <1>4, <1>5, TakenUp

LEMMA InterruptFits ==
    ASSUME IInv, \A s \in Sessions : JobFits(s), NEW u \in Requesters, NEW s \in Sessions,
           Interrupt(u, s), Smooth'
    PROVE  \A r \in Sessions : JobFits(r)'
<1>1. u \in Threads /\ ~Copied(s, u) /\ faults \subseteq faults' /\ "interrupt" \in faults'
  BY SmoothDisturb DEF Interrupt, If, Disruptive, Disturb, Threads
<1>2. /\ server'[s].phase = server[s].phase /\ server'[s].turns = server[s].turns
      /\ \A r \in Sessions \ {s} : server'[r] = server[r]
  BY DEF Interrupt, IInv, ServerFits, Servers
<1>. QED
  BY <1>1, <1>2, CopyTaken DEF Interrupt, memory, workspace

LEMMA RespondFits ==
    ASSUME IInv, \A s \in Sessions : JobFits(s), NEW u \in Requesters, NEW s \in Sessions,
           Respond(u, s), Smooth'
    PROVE  \A r \in Sessions : JobFits(r)'
<1>. DEFINE f == [files[s] EXCEPT !.pending = NULL]
<1>1. u \in Threads /\ ~Copied(s, u) /\ faults \subseteq faults'
  BY SmoothDisturb DEF Respond, If, Disruptive, Disturb, Threads
<1>2. /\ server'[s].phase = server[s].phase /\ server'[s].turns = server[s].turns
      /\ server'[s].stop = server[s].stop
      /\ \A r \in Sessions \ {s} : server'[r] = server[r]
  BY DEF Respond, IInv, ServerFits, Servers
<1>3. f.status = files[s].status /\ f.turns = files[s].turns
  <2>1. files[s] \in File
    BY DEF Respond, Exists, IInv, FilesFit
  <2>. QED
    BY <2>1 DEF File
<1>4. call' = [call EXCEPT ![u] = [Idle EXCEPT !.at = "stale", !.session = s, !.copy = f]]
  BY DEF Respond
<1>. HIDE DEF f
<1>5. UNCHANGED <<files, owner, queue, tasks, reader>> /\ call[u] = Idle /\ Exists(s)
  BY DEF Respond, memory, workspace
<1>. QED
  BY <1>1, <1>2, <1>3, <1>4, <1>5, CopyTaken

LEMMA PollFits ==
    ASSUME IInv, \A s \in Sessions : JobFits(s), NEW u \in Requesters, NEW s \in Sessions,
           Poll(u, s), Smooth'
    PROVE  \A r \in Sessions : JobFits(r)'
<1>1. u \in Threads /\ ~Copied(s, u) /\ faults \subseteq faults'
  BY SmoothDisturb DEF Poll, If, Disruptive, Disturb, Threads
<1>2. UNCHANGED <<files, owner, queue, tasks, reader, server>> /\ call[u] = Idle /\ Exists(s)
  BY DEF Poll, memory, workspace
<1>3. call' = [call EXCEPT ![u] = [Idle EXCEPT !.at = "stale", !.session = s, !.copy = files[s]]]
  BY DEF Poll
<1>. QED
  BY <1>1, <1>2, <1>3, CopyTaken

\* A request reads the file that no one else is about to write.
LEMMA ReadBackFits ==
    ASSUME IInv, \A s \in Sessions : JobFits(s), NEW t \in Threads, ReadBack(t), Smooth'
    PROVE  \A r \in Sessions : JobFits(r)'
<1>0. PICK s \in Sessions : s = call[t].session
  BY DEF ReadBack, IInv, CallsFit, Fits, Known
<1>. DEFINE k == [call[t] EXCEPT !.at = "recording", !.copy = files[s]]
<1>1. /\ call[t].at = "answered" /\ k.at = "recording" /\ k.session = s /\ k.copy = files[s]
      /\ k.phase = call[t].phase /\ k.turn = call[t].turn
  BY <1>0 DEF ReadBack, IInv, CallsFit, Calls
<1>2. call' = [call EXCEPT ![t] = k]
  BY <1>0 DEF ReadBack, IInv, CallsFit
<1>. HIDE DEF k
<1>3. call'[t] = k /\ \A u \in Threads \ {t} : call'[u] = call[u]
  BY <1>2 DEF IInv, CallsFit
<1>4. /\ UNCHANGED <<files, owner, queue, tasks, reader, server>>
      /\ ~Copied(s, t) /\ faults \subseteq faults'
  BY <1>0, SmoothDisturb DEF ReadBack, If, Disruptive, Disturb, memory, workspace
<1>5. Turning(t, s) /\ Turning(t, s)'
  BY <1>0, <1>1, <1>3 DEF Turning
<1>6. ThreadFits(t, s)'
  <2>1. ThreadFits(t, s)
    BY DEF JobFits, ThreadsFit
  <2>2. /\ Exists(s)' = Exists(s) /\ Status(s)' = Status(s) /\ (BeginsFrom(t, s)' <=> BeginsFrom(t, s))
        /\ k.copy.status = Status(s) /\ k.copy.turns = files[s].turns
    <3>1. Exists(s)
      BY <1>0, <1>1 DEF IInv, CallsFit, Fits, Known, Exists
    <3>. QED
      BY <1>1, <1>3, <1>4, <3>1 DEF BeginsFrom, Status, Exists
  <2>3. BeginsFrom(t, s) /\ server[s].phase = call[t].phase /\ server[s].turns = call[t].turn
    BY <1>0, <1>1, <1>5, <2>1 DEF ThreadFits
  <2>. QED
    BY <1>1, <1>3, <1>4, <2>2, <2>3 DEF ThreadFits
<1>7. /\ TaskFits(s)' /\ (Queued(s)' => Queued(s)) /\ (Needs(s) => Driven(s)')
      /\ (Sound => (owner' = s => Uses(s)')) /\ (server'[s].stop => "interrupt" \in faults')
  <2>1. TaskFits(s)' /\ (Queued(s)' => Queued(s)) /\ (server'[s].stop => "interrupt" \in faults')
    BY <1>4, TaskStays DEF JobFits, TurnFits, Queued
  <2>2. Driven(s)'
    BY <1>1, <1>3 DEF Driven
  <2>3. Uses(s) => Uses(s)'
    BY <1>1, <1>3, <1>4 DEF Uses, Writing
  <2>. QED
    BY <1>4, <2>1, <2>2, <2>3 DEF JobFits
<1>8. JobFits(s)'
  <2>1. LeftAlone(s)'
    BY <1>0, <1>1, <1>2, StillHere
  <2>. QED
    BY <1>2, <1>4, <1>5, <1>6, <1>7, <2>1, ThreadMoves
<1>9. \A r \in Sessions \ {s} : JobFits(r)'
  BY <1>0, <1>1, <1>3, <1>4, Others
<1>. QED
  BY <1>8, <1>9

\* A thread that is on the way to a turn has the session to itself, but for
\* requests that will write their copy of the file.
LEMMA BusyAlone ==
    ASSUME IInv, Apart, NEW s \in Sessions, JobFits(s), NEW t \in Threads, Busy(t, s)
    PROVE  /\ ~In(tasks, s) /\ ~Queued(s) /\ ~Running(s) /\ ~Writing(s)
           /\ reader = NULL \/ reader.session # s
           /\ \A u \in Threads \ {t} : call[u].session = s => call[u].at = "stale"
           /\ Uses(s) => call[t].at \in {"claiming", "asked"} /\ call[t].phase \in MutablePhases
<1>1. ~In(tasks, s) /\ ~Queued(s) /\ ~Running(s) /\ \A u \in Threads \ {t} : ~Busy(u, s)
  BY DEF Apart, OneJob
<1>2. ~Writing(s)
  BY <1>1, NullAssumption DEF Running, Writing, MutablePhases, Phases
<1>3. reader = NULL \/ reader.session # s
  BY <1>1 DEF JobFits, ReadFits
<1>4. ASSUME NEW u \in Threads, call[u].session = s, call[u].at \in {"answered", "recording"}
      PROVE  FALSE
  <2>1. server[s].phase = call[u].phase /\ call[u].phase \in Phases
    BY <1>4 DEF JobFits, ThreadsFit, ThreadFits, Turning, IInv, CallsFit, Fits
  <2>. QED
    BY <1>1, <2>1, NullAssumption DEF Running
<1>5. \A u \in Threads \ {t} : call[u].session = s => call[u].at = "stale"
  <2>1. \A u \in Threads : ~Leaving(u, s)
    BY NobodyLeaves DEF Busy
  <2>. QED
    BY <1>1, <1>4, <2>1 DEF JobFits, ThreadsFit, ThreadFits, Busy, Leaving
<1>6. Uses(s) => call[t].at \in {"claiming", "asked"} /\ call[t].phase \in MutablePhases
  BY <1>1, <1>2, <1>5 DEF Uses, In, Implement
<1>. QED
  BY <1>1, <1>2, <1>3, <1>5, <1>6

\* The claim of a task succeeds: its session has the worktree already.
LEMMA ClaimFits ==
    ASSUME IInv, Apart, \A s \in Sessions : JobFits(s), NEW t \in Threads, Claim(t)
    PROVE  \A r \in Sessions : JobFits(r)'
<1>0. call[t] \in Calls /\ call[t].session \in Sessions /\ call[t].at = "claiming"
  BY DEF Claim, IInv, CallsFit, Fits, Known
<1>1. PICK s \in Sessions : s = call[t].session
  BY <1>0
<1>2. /\ UNCHANGED <<files, queue, tasks, reader, server, faults>>
      /\ Status(s)' = Status(s) /\ Exists(s)' = Exists(s) /\ (Queued(s)' <=> Queued(s))
  BY DEF Claim, bounds, Status, Exists, Queued
<1>3. /\ ThreadFits(t, s) /\ BeginsFrom(t, s) /\ call[t].phase \in MutablePhases
      /\ t \in Workers => owner = s
      /\ server[s].stop => "interrupt" \in faults
      /\ Needs(s) => Driven(s)
  BY <1>0, <1>1 DEF JobFits, ThreadsFit, ThreadFits, TurnFits
<1>4. ~Turning(t, s) /\ ~Copies(t, s)
  BY <1>0 DEF Turning, Copies
<1>5. CASE owner \in {NULL, s} /\ owner' = s /\ call' = [call EXCEPT ![t].at = "asked"]
  <2>. DEFINE k == [call[t] EXCEPT !.at = "asked"]
  <2>1. k.at = "asked" /\ k.session = s /\ k.phase = call[t].phase
    BY <1>0, <1>1 DEF Calls
  <2>2. call' = [call EXCEPT ![t] = k]
    BY <1>0, <1>5 DEF IInv, CallsFit
  <2>. HIDE DEF k
  <2>3. call'[t] = k /\ \A u \in Threads \ {t} : call'[u] = call[u]
    BY <2>2 DEF IInv, CallsFit
  <2>4. \A r \in Sessions \ {s} : JobFits(r)'
    <3>1. \A r \in Sessions \ {s} : owner' = r <=> owner = r
      BY <1>5, NullAssumption
    <3>. QED
      BY <1>1, <1>2, <2>1, <2>3, <3>1, Others
  <2>5. ~Turning(t, s)' /\ ~Copies(t, s)'
    BY <2>1, <2>3 DEF Turning, Copies
  <2>6. ThreadFits(t, s)'
    <3>1. BeginsFrom(t, s)'
      BY <1>2, <1>3, <2>1, <2>3 DEF BeginsFrom
    <3>. QED
      BY <2>1, <2>3, <2>5, <3>1 DEF ThreadFits
  <2>7. TaskFits(s)'
    BY <1>2, <1>5, TaskStays DEF JobFits
  <2>8. Driven(s)' /\ Uses(s)'
    BY <1>3, <2>1, <2>3 DEF Driven, Uses
  <2>9. LeftAlone(s)'
    BY <1>0, <1>1, <2>1, <2>2, StillHere
  <2>. QED
    BY <1>2, <1>3, <1>4, <1>5, <2>2, <2>4, <2>5, <2>6, <2>7, <2>8, <2>9, ThreadMoves
<1>6. CASE owner \notin {NULL, s} /\ owner' = owner /\ call' = [call EXCEPT ![t] = Idle]
  <2>1. call'[t] = Idle /\ call'[t].session = NULL /\ \A u \in Threads \ {t} : call'[u] = call[u]
    BY <1>6, IdleSession DEF IInv, CallsFit
  <2>2. \A r \in Sessions \ {s} : JobFits(r)'
    BY <1>1, <1>2, <1>6, <2>1, Others
  <2>3. ~Turning(t, s)' /\ ~Copies(t, s)' /\ ThreadFits(t, s)'
    BY <2>1, NullAssumption DEF Turning, Copies, ThreadFits
  <2>4. ~Needs(s)
    <3>1. t \in Requesters /\ t \notin Workers
      BY <1>3, <1>6 DEF Threads
    <3>2. call[t].phase # "planning"
      BY <1>3 DEF MutablePhases
    <3>3. Status(s) \in {"review_complete", "awaiting_skill_review"}
      BY <1>3, <3>1, <3>2 DEF BeginsFrom
    <3>. QED
      BY <3>3 DEF Needs, Unarchivable
  <2>5. TaskFits(s)' /\ LeftAlone(s)'
    BY <1>0, <1>1, <1>2, <1>6, TaskStays, StillHere, IdleSession DEF JobFits
  <2>. QED
    BY <1>2, <1>3, <1>4, <1>6, <2>2, <2>3, <2>4, <2>5, ThreadMoves
<1>7. t \in Workers => owner = s
  BY <1>3
<1>. QED
  BY <1>1, <1>5, <1>6, <1>7 DEF Claim

\* A task that a worker begins finds its session as it was dispatched.
LEMMA TakeTaskFits ==
    ASSUME IInv, Apart, \A s \in Sessions : JobFits(s), NEW w \in Workers, TakeTask(w), Smooth'
    PROVE  \A r \in Sessions : JobFits(r)'
<1>. DEFINE task == Head(tasks)
            phase == IF task.do = "implement" THEN "implementation" ELSE "review"
<1>0. /\ w \in Threads /\ call[w].session = NULL /\ faults \subseteq faults'
      /\ UNCHANGED <<files, owner, queue, reader, server>>
  BY IdleSession DEF TakeTask, Threads, workspace, Disturb
<1>1. /\ tasks \in Seq(TasksOf(Known)) /\ tasks # <<>> /\ task = tasks[1] /\ 1 \in DOMAIN tasks
      /\ task \in TasksOf(Known)
  BY DEF TakeTask, IInv, TasksFit
<1>2. /\ \A i \in DOMAIN tasks' : \E j \in DOMAIN tasks : tasks[j] = tasks'[i]
      /\ \A j \in DOMAIN tasks \ {1} : \E i \in DOMAIN tasks' : tasks'[i] = tasks[j]
  <2>1. /\ tasks' = Tail(tasks) /\ DOMAIN tasks = 1..Len(tasks) /\ Len(tasks) \in Nat
        /\ DOMAIN tasks' = 1..(Len(tasks) - 1)
        /\ \A i \in 1..(Len(tasks) - 1) : tasks'[i] = tasks[i + 1] /\ i + 1 \in 1..Len(tasks)
    BY <1>1, HeadTailProperties, LenProperties DEF TakeTask
  <2>2. \A j \in 1..Len(tasks) : j # 1 => j - 1 \in 1..(Len(tasks) - 1) /\ (j - 1) + 1 = j
    BY <2>1
  <2>. QED
    BY <2>1, <2>2
<1>3. \A r \in Sessions : Queued(r)' <=> Queued(r)
  BY <1>0 DEF Queued
<1>4. ASSUME NEW r \in Sessions, task.session # r,
             \A t \in Threads : \/ call'[t] = call[t]
                                \/ call[t].session # r /\ call'[t].session # r
      PROVE  JobFits(r)'
  <2>1. \A j \in DOMAIN tasks : tasks[j].session = r => \E i \in DOMAIN tasks' : tasks'[i] = tasks[j]
    BY <1>1, <1>2, <1>4
  <2>. QED
    BY <1>0, <1>2, <1>3, <1>4, <2>1, JobAside
<1>5. CASE task.do = "recover"
  <2>1. task.session = NULL
    BY <1>1, <1>5 DEF TasksOf
  <2>2. \A t \in Threads : call'[t] = call[t] \/ (call[t].session = NULL /\ call'[t].session = NULL)
    <3>1. CASE UNCHANGED call
      BY <3>1
    <3>2. CASE call' = [call EXCEPT ![w] = [Idle EXCEPT !.at = "recovering",
                                                        !.todo = {s \in Sessions : Exists(s)}]]
      BY <1>0, <3>2 DEF IInv, CallsFit, Idle
    <3>. QED
      BY <1>5, <3>1, <3>2 DEF TakeTask
  <2>. QED
    BY <1>4, <2>1, <2>2, NullAssumption
<1>6. CASE task.do # "recover"
  <2>1. PICK s \in Known : s = task.session
    BY <1>1, <1>6 DEF TasksOf
  <2>2. s \in Sessions /\ In(tasks, s) /\ JobFits(s)
    BY <1>1, <2>1 DEF Known, In
  <2>3. /\ ~Running(s) /\ ~Writing(s) /\ (\A u \in Threads : ~Busy(u, s))
        /\ \A j \in DOMAIN tasks : tasks[j].session = s => tasks[j] = task
    <3>1. ~Running(s) /\ (\A u \in Threads : ~Busy(u, s)) /\ Once(tasks, s)
      BY <2>2 DEF Apart, OneJob
    <3>2. ~Writing(s)
      BY <3>1, NullAssumption DEF Running, Writing, MutablePhases, Phases
    <3>. QED
      BY <1>1, <2>1, <3>1, <3>2 DEF Once
  <2>4. \/ task = Implement(s) /\ phase = "implementation" /\ Status(s) = "queued_implementation" /\ owner = s
        \/ task = Review(s) /\ phase = "review" /\ Status(s) = "awaiting_review"
    BY <1>1, <2>1, <2>2 DEF JobFits, TaskFits, Implement, Review
  <2>. HIDE DEF phase, task
  <2>. DEFINE k == Begun(s, phase)
  <2>5. /\ k.session = s /\ k.phase = phase /\ k.at \in {"claiming", "asked"}
        /\ k.at = "claiming" <=> phase = "implementation"
    BY <2>4 DEF Begun, Idle, MutablePhases
  <2>6. call' = [call EXCEPT ![w] = k]
    <3>1. Status(s) \in AllowedFrom[phase]
      BY <2>4 DEF AllowedFrom
    <3>. QED
      BY <1>6, <2>1, <3>1 DEF TakeTask, task, phase
  <2>. HIDE DEF k
  <2>7. call'[w] = k /\ \A u \in Threads \ {w} : call'[u] = call[u]
    BY <1>0, <2>6 DEF IInv, CallsFit
  <2>8. \A r \in Sessions \ {s} : JobFits(r)'
    BY <1>0, <1>4, <2>1, <2>5, <2>7, NullAssumption
  <2>9. ~Turning(w, s) /\ ~Turning(w, s)' /\ ~Copies(w, s)'
    BY <1>0, <2>2, <2>5, <2>7, IdleFree DEF Turning, Copies
  <2>10. ThreadFits(w, s)'
    <3>1. BeginsFrom(w, s)' /\ (k.at = "claiming" => phase \in MutablePhases /\ owner' = s)
      BY <1>0, <2>4, <2>5, <2>7 DEF BeginsFrom, Status, Exists, MutablePhases
    <3>. QED
      BY <2>5, <2>7, <2>9, <3>1 DEF ThreadFits
  <2>11. TaskFits(s)' /\ (server[s].stop => "interrupt" \in faults)
    BY <1>0, <1>2, <2>2 DEF JobFits, TaskFits, TurnFits, Status, Exists
  <2>12. Driven(s)'
    BY <1>0, <2>5, <2>7 DEF Driven
  <2>13. Sound => (owner' = s => Uses(s)')
    <3>1. CASE phase = "implementation"
      BY <1>0, <2>5, <2>7, <3>1 DEF Uses, MutablePhases
    <3>2. CASE phase # "implementation"
      <4>1. \A i \in DOMAIN tasks : tasks[i] # Implement(s)
        BY <2>3, <2>4, <3>2 DEF Implement, Review
      <4>2. ~Uses(s)
        BY <2>3, <4>1 DEF Uses, Busy
      <4>. QED
        BY <1>0, <2>2, <4>2 DEF JobFits
    <3>. QED
      BY <3>1, <3>2
  <2>14. JobFits(s)'
    <3>1. \A u \in Threads : ~Leaving(u, s)'
      BY <2>2, <2>5, <2>7 DEF JobFits, LeftAlone, Leaving
    <3>2. LeftAlone(s)'
      BY <3>1 DEF LeftAlone
    <3>. QED
      BY <1>0, <1>3, <2>2, <2>6, <2>9, <2>10, <2>11, <2>12, <2>13, <3>2, ThreadMoves
  <2>. QED
    BY <2>8, <2>14
<1>. QED
  BY <1>5, <1>6

-----------------------------------------------------------------------------
\* A thread that stays without a session.
LEMMA OffJobs ==
    ASSUME IInv, \A s \in Sessions : JobFits(s), NEW t \in Threads, call[t].session = NULL, NEW k,
           k.session = NULL, call' = [call EXCEPT ![t] = k], faults' = faults,
           UNCHANGED <<files, owner, queue, tasks, reader, server>>
    PROVE  \A r \in Sessions : JobFits(r)'
<1>1. call'[t] = k /\ \A u \in Threads \ {t} : call'[u] = call[u]
  BY DEF IInv, CallsFit
<1>2. \A r \in Sessions \ {NULL} : JobFits(r)'
  BY <1>1, Others
<1>. QED
  BY <1>2, NullAssumption

\* The recovery finds at most improved skills that wait for their review.
LEMMA RecoverNextFits ==
    ASSUME IInv, \A s \in Sessions : JobFits(s), NEW w \in Workers, RecoverNext(w), Smooth'
    PROVE  \A r \in Sessions : JobFits(r)'
<1>0. /\ w \in Threads /\ call[w] \in Calls /\ call[w].at = "recovering"
      /\ UNCHANGED <<files, owner, queue, tasks, reader, server>>
  BY DEF RecoverNext, Threads, IInv, CallsFit, memory, workspace
<1>1. call[w].session = NULL
  <2>1. \A s \in Sessions : call[w].session # s
    BY <1>0 DEF JobFits, ThreadsFit, ThreadFits
  <2>. QED
    BY <1>0, <2>1 DEF Calls
<1>2. CASE call' = [call EXCEPT ![w] = Idle] /\ UNCHANGED faults
  BY <1>0, <1>1, <1>2, IdleSession, OffJobs
<1>3. ASSUME NEW s \in Sessions, call' = [call EXCEPT ![w].todo = @ \ {s}], UNCHANGED faults
      PROVE  \A r \in Sessions : JobFits(r)'
  <2>. DEFINE k == [call[w] EXCEPT !.todo = @ \ {s}]
  <2>1. k.session = NULL /\ call' = [call EXCEPT ![w] = k]
    BY <1>0, <1>1, <1>3 DEF Calls, IInv, CallsFit
  <2>. HIDE DEF k
  <2>. QED
    BY <1>0, <1>1, <1>3, <2>1, OffJobs
<1>4. ASSUME NEW s \in call[w].todo, s \in Sessions, Status(s) \in Restartable \cup Reviewable,
             faults' = faults \cup If(Copied(s, w), "stale") \cup If(AtWork(s, w), "reload"),
             call' = [call EXCEPT ![w] = [@ EXCEPT !.at = "rewriting", !.session = s,
                                                   !.copy = files[s],
                                                   !.todo = call[w].todo \ {s}]]
      PROVE  \A r \in Sessions : JobFits(r)'
  <2>1. ~Copied(s, w) /\ ~AtWork(s, w) /\ faults \subseteq faults'
    BY <1>4 DEF Smooth, If, Disruptive, Unserializing
  <2>2. ~Driven(s)
    <3>1. call[w].session # s
      BY <1>1, <1>4, NullAssumption
    <3>2. \A u \in Threads : call[u].session # s
      BY <2>1, <3>1 DEF AtWork, Engaged
    <3>. QED
      BY <2>1, <3>2 DEF AtWork, Driven, Dispatched, In
  <2>3. Status(s) = "awaiting_skill_review"
    BY <1>4, <2>2 DEF JobFits, Needs, Restartable, Reviewable, Unarchivable
  <2>. DEFINE k == [call[w] EXCEPT !.at = "rewriting", !.session = s, !.copy = files[s],
                                   !.todo = call[w].todo \ {s}]
  <2>4. k.at = "rewriting" /\ k.session = s /\ k.copy = files[s] /\ call' = [call EXCEPT ![w] = k]
    BY <1>0, <1>4 DEF Calls, IInv, CallsFit
  <2>. HIDE DEF k
  <2>5. call'[w] = k
    BY <1>0, <2>4 DEF IInv, CallsFit
  <2>6. ThreadFits(w, s)'
    <3>1. Exists(s)
      BY <1>4, StatusKnown, StatusesNamed DEF Known, Exists, Restartable, Reviewable
    <3>. QED
      BY <1>0, <2>3, <2>4, <2>5, <3>1 DEF ThreadFits, Turning, Copies, Status, Exists
  <2>7. \A u \in Threads : ~Leaving(u, s)
    BY <1>0, <2>1, NoneLeaves DEF Leaving
  <2>. QED
    BY <1>0, <1>1, <1>4, <2>1, <2>4, <2>6, <2>7, TakenUp
<1>. QED
  BY <1>0, <1>2, <1>3, <1>4 DEF RecoverNext, Calls

\* An improved skill is reviewed again: its status is the one of a review to come.
LEMMA RecoverWriteFits ==
    ASSUME IInv, Apart, \A s \in Sessions : JobFits(s), NEW w \in Workers, RecoverWrite(w)
    PROVE  \A r \in Sessions : JobFits(r)'
<1>0. /\ w \in Threads /\ call[w] \in Calls /\ call[w].at = "rewriting" /\ call[w].copy \in File
      /\ UNCHANGED <<owner, queue, tasks, reader, server, faults>>
  BY DEF RecoverWrite, Threads, IInv, CallsFit, Fits, memory, workspace, bounds
<1>1. PICK s \in Sessions : s = call[w].session
  BY <1>0 DEF IInv, CallsFit, Fits
<1>2. JobFits(s) /\ Busy(w, s)
  BY <1>0, <1>1 DEF Busy
<1>3. call[w].copy.status = "awaiting_skill_review"
  BY <1>0, <1>1, <1>2 DEF JobFits, ThreadsFit, ThreadFits, Copies
<1>4. /\ files'[s].status = "awaiting_review" /\ files'[s] \in File
      /\ \A r \in Sessions \ {s} : files'[r] = files[r]
  BY <1>0, <1>1, <1>3, NullAssumption, CurrentTyped, StatusesNamed
     DEF RecoverWrite, IInv, FilesFit, File, Restartable
<1>. DEFINE k == [call[w] EXCEPT !.at = "requeueing", !.copy = NULL, !.phase = "review"]
<1>5. k.at = "requeueing" /\ k.session = s /\ k.phase = "review" /\ call' = [call EXCEPT ![w] = k]
  BY <1>0, <1>1, <1>3 DEF RecoverWrite, Restartable, Calls, IInv, CallsFit
<1>. HIDE DEF k
<1>6. call'[w] = k /\ \A u \in Threads \ {w} : call'[u] = call[u]
  BY <1>0, <1>5 DEF IInv, CallsFit
<1>7. \A r \in Sessions \ {s} : JobFits(r)'
  BY <1>0, <1>1, <1>4, <1>5, <1>6, Others
<1>8. /\ ~In(tasks, s) /\ ~Queued(s)' /\ ~Running(s)' /\ (reader' = NULL \/ reader'.session # s)
      /\ ~Uses(s) /\ \A u \in Threads \ {w} : call[u].session # s
  <2>1. Copies(w, s)
    BY <1>0, <1>1 DEF Copies
  <2>2. \A u \in Threads \ {w} : call[u].session = s => call[u].at = "stale"
    BY <1>0, <1>2, BusyAlone
  <2>3. \A u \in Threads \ {w} : call[u].session # s
    BY <1>0, <1>2, <2>1, <2>2 DEF JobFits, ThreadsFit, Copies
  <2>. QED
    BY <1>0, <1>2, <2>3, BusyAlone DEF Queued, Running
<1>9. Status(s)' = "awaiting_review" /\ Exists(s)'
  BY <1>4, NullAssumption DEF Status, Exists
<1>10. JobFits(s)'
  <2>1. \A u \in Threads : ~Turning(u, s)' /\ ~Copies(u, s)' /\ ~Leaving(u, s)' /\ ThreadFits(u, s)'
    BY <1>5, <1>6, <1>8, <1>9 DEF Turning, Copies, Leaving, ThreadFits
  <2>2. ThreadsFit(s)' /\ TaskFits(s)' /\ ReadFits(s)' /\ LeftAlone(s)'
    BY <1>0, <1>8, <2>1 DEF ThreadsFit, TaskFits, ReadFits, LeftAlone, In
  <2>3. TurnFits(s)' /\ Driven(s)'
    BY <1>0, <1>2, <1>5, <1>6, <1>8 DEF JobFits, TurnFits, Driven
  <2>4. Sound' => (owner' = s => Uses(s)')
    BY <1>0, <1>2, <1>8 DEF JobFits, Sound
  <2>. QED
    BY <1>8, <2>2, <2>3, <2>4 DEF JobFits
<1>. QED
  BY <1>7, <1>10

\* What a task list holds after one more was dispatched.
LEMMA Appended ==
    ASSUME NEW S, NEW T \in Seq(S), NEW x \in S, NEW U, U = Append(T, x)
    PROVE  /\ \A i \in DOMAIN U : U[i] = x \/ \E j \in DOMAIN T : T[j] = U[i]
           /\ \A j \in DOMAIN T : \E i \in DOMAIN U : U[i] = T[j]
           /\ \E i \in DOMAIN U : U[i] = x
<1>1. /\ DOMAIN T = 1..Len(T) /\ Len(T) \in Nat
      /\ DOMAIN U = 1..(Len(T) + 1)
      /\ \A i \in 1..Len(T) : U[i] = T[i]
      /\ U[Len(T) + 1] = x
  BY AppendProperties, LenProperties
<1>. QED
  BY <1>1

LEMMA RecoverQueueFits ==
    ASSUME IInv, Apart, \A s \in Sessions : JobFits(s), NEW w \in Workers, RecoverQueue(w)
    PROVE  \A r \in Sessions : JobFits(r)'
<1>0. /\ w \in Threads /\ call[w].at = "requeueing"
      /\ UNCHANGED <<files, reader, server, faults>>
  BY DEF RecoverQueue, Threads, bounds
<1>1. PICK s \in Sessions : s = call[w].session
  BY <1>0 DEF IInv, CallsFit, Fits
<1>2. JobFits(s) /\ Busy(w, s) /\ ThreadFits(w, s)
  BY <1>0, <1>1 DEF Busy, JobFits, ThreadsFit
<1>3. Status(s) = "awaiting_review" /\ call[w].phase = "review"
  BY <1>0, <1>1, <1>2 DEF ThreadFits
<1>4. tasks' = Append(tasks, Review(s)) /\ UNCHANGED <<owner, queue>>
  BY <1>1, <1>3 DEF RecoverQueue, workspace
<1>5. /\ \A i \in DOMAIN tasks' : tasks'[i] = Review(s) \/ \E j \in DOMAIN tasks : tasks[j] = tasks'[i]
      /\ \A j \in DOMAIN tasks : \E i \in DOMAIN tasks' : tasks'[i] = tasks[j]
      /\ \E i \in DOMAIN tasks' : tasks'[i] = Review(s)
  <2>1. tasks \in Seq(TasksOf(Known)) /\ Review(s) \in TasksOf(Known)
    BY <1>0, <1>1 DEF IInv, TasksFit, TasksOf, Review, CallsFit, Fits
  <2>. QED
    BY <1>4, <2>1, Appended
<1>6. Review(s).session = s
  BY DEF Review
<1>. DEFINE k == [Idle EXCEPT !.at = "recovering", !.todo = call[w].todo]
<1>7. k.at = "recovering" /\ k.session = NULL /\ call' = [call EXCEPT ![w] = k]
  BY DEF RecoverQueue, Idle
<1>. HIDE DEF k
<1>8. call'[w] = k /\ \A u \in Threads \ {w} : call'[u] = call[u]
  BY <1>0, <1>7 DEF IInv, CallsFit
<1>9. \A r \in Sessions : Queued(r)' <=> Queued(r)
  BY <1>4 DEF Queued
<1>10. ASSUME NEW r \in Sessions \ {s} PROVE JobFits(r)'
  <2>1. \A t \in Threads : call'[t] = call[t] \/ (call[t].session # r /\ call'[t].session # r)
    BY <1>1, <1>7, <1>8, NullAssumption
  <2>2. \A i \in DOMAIN tasks' : tasks'[i].session = r => \E j \in DOMAIN tasks : tasks[j] = tasks'[i]
    BY <1>5, <1>6
  <2>. QED
    BY <1>0, <1>4, <1>5, <1>9, <2>1, <2>2, JobAside
<1>11. JobFits(s)'
  <2>1. ~Turning(w, s) /\ ~Turning(w, s)' /\ ~Copies(w, s)' /\ ThreadFits(w, s)'
    BY <1>0, <1>7, <1>8, NullAssumption DEF Turning, Copies, ThreadFits
  <2>2. ~In(tasks, s) /\ ~Uses(s)
    BY <1>0, <1>2, BusyAlone
  <2>3. TaskFits(s)'
    BY <1>0, <1>3, <1>5, <2>2 DEF TaskFits, In, Status, Exists
  <2>4. Driven(s)'
    BY <1>5, <1>6 DEF Driven, In
  <2>5. Sound => (owner' = s => Uses(s)')
    BY <1>2, <1>4, <2>2 DEF JobFits
  <2>6. server'[s].stop => "interrupt" \in faults'
    BY <1>0, <1>2 DEF JobFits, TurnFits
  <2>7. LeftAlone(s)'
    BY <1>0, <1>1, <1>2, <1>7, StillHere
  <2>. QED
    BY <1>0, <1>2, <1>4, <1>7, <1>9, <2>1, <2>3, <2>4, <2>5, <2>6, <2>7, ThreadMoves
<1>. QED
  BY <1>10, <1>11

-----------------------------------------------------------------------------
\* A session begins with its planning, which drives it on.
LEMMA CreateSessionFits ==
    ASSUME IInv, Apart, \A s \in Sessions : JobFits(s), NEW u \in Requesters, CreateSession(u)
    PROVE  \A r \in Sessions : JobFits(r)'
<1>0. /\ u \in Threads /\ call[u] \in Calls /\ call[u].at = "starting"
      /\ UNCHANGED <<owner, queue, tasks, reader, server, faults>>
  BY DEF CreateSession, Threads, IInv, CallsFit, memory, workspace, bounds
<1>1. PICK s \in Sessions : s = call[u].session
  BY <1>0 DEF IInv, CallsFit, Fits
<1>2. JobFits(s) /\ Busy(u, s)
  BY <1>0, <1>1 DEF Busy
<1>3. files[s] = NULL
  BY <1>0, <1>1, <1>2 DEF JobFits, ThreadsFit, ThreadFits, Exists
<1>4. files'[s] = NewFile /\ \A r \in Sessions \ {s} : files'[r] = files[r]
  BY <1>1 DEF CreateSession, IInv, FilesFit
<1>. DEFINE k == [call[u] EXCEPT !.at = "asked", !.phase = "planning"]
<1>5. k.at = "asked" /\ k.session = s /\ k.phase = "planning" /\ call' = [call EXCEPT ![u] = k]
  BY <1>0, <1>1 DEF CreateSession, Calls, IInv, CallsFit
<1>. HIDE DEF k
<1>6. call'[u] = k /\ \A t \in Threads \ {u} : call'[t] = call[t]
  BY <1>0, <1>5 DEF IInv, CallsFit
<1>7. \A r \in Sessions \ {s} : JobFits(r)'
  BY <1>0, <1>1, <1>4, <1>5, <1>6, Others
<1>8. /\ ~In(tasks, s) /\ ~Queued(s)' /\ ~Running(s)' /\ (reader' = NULL \/ reader'.session # s)
      /\ ~Uses(s) /\ \A t \in Threads \ {u} : call[t].session # s
  <2>1. \A t \in Threads \ {u} : call[t].session = s => call[t].at = "stale"
    BY <1>0, <1>2, BusyAlone
  <2>2. \A t \in Threads : call[t].at = "stale" => call[t].session # s
    BY <1>3 DEF IInv, CallsFit, Fits, Known
  <2>. QED
    BY <1>0, <1>2, <2>1, <2>2, BusyAlone DEF Queued, Running
<1>9. Status(s)' = "planning" /\ Exists(s)'
  <2>1. NewFile \in File /\ NewFile.status = "planning"
    BY StatusesNamed DEF NewFile, File
  <2>. QED
    BY <1>4, <2>1, NullAssumption DEF Status, Exists
<1>10. JobFits(s)'
  <2>1. \A t \in Threads : ~Turning(t, s)' /\ ~Copies(t, s)' /\ ~Leaving(t, s)' /\ ThreadFits(t, s)'
    BY <1>5, <1>6, <1>8, <1>9 DEF Turning, Copies, Leaving, ThreadFits, BeginsFrom
  <2>2. ThreadsFit(s)' /\ TaskFits(s)' /\ ReadFits(s)' /\ LeftAlone(s)'
    BY <1>0, <1>8, <2>1 DEF ThreadsFit, TaskFits, ReadFits, LeftAlone, In
  <2>3. TurnFits(s)' /\ Driven(s)'
    BY <1>0, <1>2, <1>5, <1>6, <1>8 DEF JobFits, TurnFits, Driven
  <2>4. Sound' => (owner' = s => Uses(s)')
    BY <1>0, <1>2, <1>8 DEF JobFits, Sound
  <2>. QED
    BY <1>8, <2>2, <2>3, <2>4 DEF JobFits
<1>. QED
  BY <1>7, <1>10

\* A turn begins; the thread that asked for it goes on to record it.
LEMMA AcceptFits ==
    ASSUME IInv, Apart, \A s \in Sessions : JobFits(s), NEW t \in Threads, Accept(t)
    PROVE  \A r \in Sessions : JobFits(r)'
<1>0. /\ call[t] \in Calls /\ call[t].at = "asked" /\ call[t].phase \in Phases
      /\ UNCHANGED <<files, owner, queue, tasks, reader, faults>>
  BY DEF Accept, IInv, CallsFit, Fits, memory, workspace, bounds
<1>1. PICK s \in Sessions : s = call[t].session
  BY <1>0 DEF IInv, CallsFit, Fits
<1>2. JobFits(s) /\ Busy(t, s) /\ ThreadFits(t, s)
  BY <1>0, <1>1 DEF Busy, JobFits, ThreadsFit
<1>3. BeginsFrom(t, s)
  BY <1>0, <1>1, <1>2 DEF ThreadFits
<1>4. /\ server'[s].phase = call[t].phase /\ server'[s].turns = server[s].turns + 1
      /\ server'[s].stop = FALSE
      /\ \A r \in Sessions \ {s} : server'[r] = server[r]
  BY <1>1 DEF Accept, Begin, IInv, ServerFits
<1>. DEFINE k == [call[t] EXCEPT !.at = "answered", !.turn = server[s].turns + 1]
<1>5. /\ k.at = "answered" /\ k.session = s /\ k.phase = call[t].phase
      /\ k.turn = server[s].turns + 1
  BY <1>0, <1>1 DEF Calls
<1>6. call' = [call EXCEPT ![t] = k]
  BY <1>0, <1>1 DEF Accept, IInv, CallsFit
<1>. HIDE DEF k
<1>7. call'[t] = k /\ \A u \in Threads \ {t} : call'[u] = call[u]
  BY <1>6 DEF IInv, CallsFit
<1>8. \A r \in Sessions \ {s} : JobFits(r)'
  BY <1>0, <1>1, <1>4, <1>5, <1>7, Others
<1>9. /\ ~In(tasks, s) /\ ~Queued(s)' /\ (reader' = NULL \/ reader'.session # s)
      /\ \A u \in Threads \ {t} : call[u].session = s => call[u].at = "stale"
      /\ Uses(s) => call[t].phase \in MutablePhases
  BY <1>0, <1>2, BusyAlone DEF Queued
<1>10. JobFits(s)'
  <2>0. Status(s)' = Status(s) /\ Exists(s)' = Exists(s)
    BY <1>0 DEF Status, Exists
  <2>1. Turning(t, s)' /\ ~Copies(t, s)' /\ ThreadFits(t, s)'
    <3>1. Turning(t, s)' /\ ~Copies(t, s)'
      BY <1>5, <1>7 DEF Turning, Copies
    <3>2. BeginsFrom(t, s)'
      BY <1>3, <1>5, <1>7, <2>0 DEF BeginsFrom
    <3>. QED
      BY <1>4, <1>5, <1>7, <3>1, <3>2 DEF ThreadFits
  <2>2. ASSUME NEW u \in Threads \ {t}
        PROVE  ~Turning(u, s)' /\ (Copies(u, s)' <=> Copies(u, s)) /\ ThreadFits(u, s)'
    <3>1. ~Turning(u, s)' /\ (Copies(u, s)' <=> Copies(u, s)) /\ ThreadFits(u, s)
      BY <1>2, <1>7, <1>9 DEF Turning, Copies, JobFits, ThreadsFit
    <3>. QED
      BY <1>0, <1>7, <1>9, <2>0, <3>1 DEF ThreadFits
  <2>3. ThreadsFit(s)'
    BY <1>2, <2>1, <2>2 DEF JobFits, ThreadsFit
  <2>4. TaskFits(s)' /\ ReadFits(s)' /\ TurnFits(s)'
    BY <1>0, <1>4, <1>9, <2>1 DEF TaskFits, ReadFits, TurnFits, In
  <2>5. Driven(s)'
    BY <1>5, <1>7 DEF Driven
  <2>6. Sound' => (owner' = s => Uses(s)')
    <3>1. call[t].phase \in MutablePhases => Uses(s)'
      BY <1>4 DEF Uses, Writing
    <3>. QED
      BY <1>0, <1>2, <1>9, <3>1 DEF JobFits, Sound
  <2>7. LeftAlone(s)'
    BY <1>0, <1>1, <1>2, <1>5, <1>6, StillHere
  <2>. QED
    BY <1>9, <2>3, <2>4, <2>5, <2>6, <2>7 DEF JobFits
<1>. QED
  BY <1>8, <1>10

\* A turn that runs and is about to be recorded has no other thread near it.
LEMMA TurningAlone ==
    ASSUME IInv, Apart, NEW s \in Sessions, JobFits(s), NEW t \in Threads, Turning(t, s)
    PROVE  /\ Running(s) /\ ~In(tasks, s) /\ ~Queued(s)
           /\ reader = NULL \/ reader.session # s
           /\ \A u \in Threads \ {t} : call[u].session = s => call[u].at = "stale"
           /\ Uses(s) => Writing(s)
<1>1. server[s].phase = call[t].phase /\ call[t].phase \in Phases
  BY DEF JobFits, ThreadsFit, ThreadFits, Turning, IInv, CallsFit, Fits
<1>2. Running(s)
  BY <1>1, NullAssumption DEF Running
<1>3. ~In(tasks, s) /\ ~Queued(s) /\ \A u \in Threads : ~Busy(u, s)
  BY <1>2 DEF Apart, OneJob
<1>4. \A u \in Threads \ {t} : call[u].session = s => call[u].at = "stale"
  <2>1. \A u \in Threads : ~Leaving(u, s)
    BY NobodyLeaves DEF Turning
  <2>. QED
    BY <1>3, <2>1 DEF JobFits, ThreadsFit, ThreadFits, Turning, Busy, Leaving
<1>5. Uses(s) => Writing(s)
  BY <1>3 DEF Uses, In, Implement, Busy
<1>. QED
  BY <1>2, <1>3, <1>4, <1>5 DEF JobFits, ReadFits

\* The turn gets into the file, with the status of its phase.
LEMMA RecordFits ==
    ASSUME IInv, Apart, \A s \in Sessions : JobFits(s), NEW t \in Threads, Record(t)
    PROVE  \A r \in Sessions : JobFits(r)'
<1>0. /\ call[t] \in Calls /\ call[t].at = "recording" /\ call[t].phase \in Phases
      /\ call[t].turn \in Turns /\ call[t].copy \in File
      /\ UNCHANGED <<owner, queue, tasks, reader, server, faults>>
  BY DEF Record, IInv, CallsFit, Fits, memory, workspace, bounds
<1>1. PICK s \in Sessions : s = call[t].session
  BY <1>0 DEF IInv, CallsFit, Fits
<1>2. JobFits(s) /\ Turning(t, s) /\ Copies(t, s) /\ ThreadFits(t, s)
  BY <1>0, <1>1 DEF Turning, Copies, JobFits, ThreadsFit
<1>3. /\ BeginsFrom(t, s) /\ server[s].phase = call[t].phase /\ server[s].turns = call[t].turn
      /\ call[t].copy.status = Status(s)
  BY <1>0, <1>1, <1>2 DEF ThreadFits
<1>4. /\ Running(s) /\ ~In(tasks, s) /\ ~Queued(s) /\ (reader = NULL \/ reader.session # s)
      /\ \A u \in Threads \ {t} : call[u].session # s
      /\ Uses(s) => Writing(s)
  <2>1. \A u \in Threads \ {t} : call[u].session = s => call[u].at = "stale"
    BY <1>2, TurningAlone
  <2>2. \A u \in Threads \ {t} : call[u].session # s
    BY <1>2, <2>1 DEF JobFits, ThreadsFit, Copies
  <2>. QED
    BY <1>2, <2>2, TurningAlone
<1>5. /\ files'[s].status = StartedStatus[call[t].phase]
      /\ call[t].turn \in files'[s].turns /\ files'[s] # NULL
      /\ \A r \in Sessions \ {s} : files'[r] = files[r]
  <2>. DEFINE turns == Current(s, call[t].copy.turns \cup {call[t].turn})
              f == [call[t].copy EXCEPT
                      !.status = IF call[t].phase = "planning" THEN @ ELSE StartedStatus[call[t].phase],
                      !.active = call[t].turn, !.turns = turns]
  <2>1. call[t].turn \in turns /\ turns \in SUBSET Turns
    BY <1>0, <1>3, <1>4, CurrentTyped DEF Current, File
  <2>. HIDE DEF turns
  <2>2. call[t].phase = "planning" => Status(s) = "planning"
    BY <1>3 DEF BeginsFrom
  <2>3. StartedStatus["planning"] = "planning" /\ StartedStatus[call[t].phase] \in Statuses
    BY <1>0, StatusesNamed DEF StartedStatus
  <2>4. f.status = StartedStatus[call[t].phase] /\ f.turns = turns /\ f \in File
    BY <1>0, <1>3, <2>1, <2>2, <2>3 DEF File
  <2>5. files' = [files EXCEPT ![s] = f]
    BY <1>0, <1>1 DEF Record, turns
  <2>. HIDE DEF f
  <2>. QED
    BY <2>1, <2>4, <2>5, NullAssumption DEF IInv, FilesFit
<1>6. call'[t] = Idle /\ call'[t].session = NULL /\ \A u \in Threads \ {t} : call'[u] = call[u]
  BY IdleSession DEF Record, IInv, CallsFit
<1>7. \A r \in Sessions \ {s} : JobFits(r)'
  BY <1>0, <1>1, <1>5, <1>6, Others
<1>8. JobFits(s)'
  <2>1. \A u \in Threads : ~Turning(u, s)' /\ ~Copies(u, s)' /\ ThreadFits(u, s)' /\ call'[u].session # s
    BY <1>4, <1>6, NullAssumption DEF Turning, Copies, ThreadFits
  <2>2. ThreadsFit(s)' /\ TaskFits(s)' /\ ReadFits(s)' /\ LeftAlone(s)' /\ ~Queued(s)'
    BY <1>0, <1>4, <2>1 DEF ThreadsFit, TaskFits, ReadFits, LeftAlone, Leaving, In, Queued
  <2>3. TurnFits(s)'
    BY <1>0, <1>2, <1>3, <1>5 DEF JobFits, TurnFits, Status, Exists
  <2>4. Driven(s)' /\ (Uses(s) => Uses(s)')
    BY <1>0, <1>4 DEF Driven, Running, Uses, Writing
  <2>5. Sound' => (owner' = s => Uses(s)')
    BY <1>0, <1>2, <2>4 DEF JobFits, Sound
  <2>. QED
    BY <2>2, <2>3, <2>4, <2>5 DEF JobFits
<1>. QED
  BY <1>7, <1>8

\* The copy that is written shows the status and the turns of the file.
LEMMA WriteStaleFits ==
    ASSUME IInv, \A s \in Sessions : JobFits(s), NEW u \in Requesters, WriteStale(u)
    PROVE  \A r \in Sessions : JobFits(r)'
<1>0. /\ u \in Threads /\ call[u].at = "stale" /\ call[u].copy \in File
      /\ UNCHANGED <<owner, queue, tasks, reader, server, faults>>
  BY DEF WriteStale, Threads, IInv, CallsFit, Fits, memory, workspace, bounds
<1>1. PICK s \in Sessions : s = call[u].session
  BY <1>0 DEF IInv, CallsFit, Fits
<1>2. JobFits(s) /\ Copies(u, s) /\ ThreadFits(u, s) /\ Exists(s)
  BY <1>0, <1>1 DEF Copies, JobFits, ThreadsFit, IInv, CallsFit, Fits, Known, Exists
<1>3. call[u].copy.status = Status(s) /\ call[u].copy.turns = files[s].turns
  BY <1>0, <1>1, <1>2 DEF ThreadFits
<1>4. /\ files'[s].status = Status(s) /\ files'[s].turns = Current(s, files[s].turns)
      /\ files'[s] # NULL /\ \A r \in Sessions \ {s} : files'[r] = files[r]
  <2>. DEFINE f == [call[u].copy EXCEPT !.turns = Current(s, @)]
  <2>1. f.status = Status(s) /\ f.turns = Current(s, files[s].turns) /\ f \in File
    BY <1>0, <1>3, CurrentTyped DEF File
  <2>2. files' = [files EXCEPT ![s] = f]
    BY <1>1 DEF WriteStale
  <2>. HIDE DEF f
  <2>. QED
    BY <2>1, <2>2, NullAssumption DEF IInv, FilesFit
<1>5. call'[u] = Idle /\ call'[u].session = NULL /\ \A t \in Threads \ {u} : call'[t] = call[t]
  BY <1>0, IdleSession DEF WriteStale, IInv, CallsFit
<1>6. \A r \in Sessions \ {s} : JobFits(r)'
  BY <1>0, <1>1, <1>4, <1>5, Others
<1>7. Status(s)' = Status(s) /\ Exists(s)' /\ Needs(s)' = Needs(s)
  BY <1>4 DEF Status, Exists, Needs
<1>8. JobFits(s)'
  <2>1. ASSUME NEW t \in Threads
        PROVE  ~Copies(t, s)' /\ (Turning(t, s)' <=> Turning(t, s)) /\ ThreadFits(t, s)'
    <3>1. CASE t = u
      BY <1>0, <1>5, <3>1, NullAssumption DEF Turning, Copies, ThreadFits
    <3>2. CASE t # u
      <4>0. ThreadsFit(s)
        BY <1>2 DEF JobFits
      <4>1. ~Copies(t, s) /\ ThreadFits(t, s)
        BY <1>0, <1>2, <3>2, <4>0 DEF ThreadsFit
      <4>2. call'[t] = call[t] /\ ~Copies(t, s)' /\ (Turning(t, s)' <=> Turning(t, s))
            /\ (BeginsFrom(t, s)' <=> BeginsFrom(t, s))
        BY <1>5, <1>7, <3>2, <4>1 DEF Turning, Copies, BeginsFrom
      <4>3. call[t].session = s => call[t].at # "starting"
        BY <1>2, <4>1 DEF ThreadFits
      <4>. QED
        BY <1>0, <1>7, <4>1, <4>2, <4>3 DEF ThreadFits
    <3>. QED
      BY <3>1, <3>2
  <2>2. ThreadsFit(s)' /\ (Queued(s)' <=> Queued(s))
    BY <1>0, <1>2, <2>1 DEF JobFits, ThreadsFit, Queued
  <2>3. TaskFits(s)'
    BY <1>0, <1>2, <1>7 DEF JobFits, TaskFits
  <2>4. ReadFits(s)'
    BY <1>0, <1>2 DEF JobFits, ReadFits
  <2>5. TurnFits(s)'
    BY <1>0, <1>2, <1>4, <1>7, <2>1 DEF JobFits, TurnFits, Running, Current
  <2>6. Driven(s) => Driven(s)'
    BY <1>0, <1>5 DEF Driven, In, Queued, Running
  <2>7. Uses(s) => Uses(s)'
    BY <1>0, <1>5 DEF Uses, Writing
  <2>8. LeftAlone(s)'
    <3>1. \A t \in Threads : ~Leaving(t, s)
      BY <1>0, <1>1, <1>2, NobodyLeaves
    <3>2. \A t \in Threads : ~Leaving(t, s)'
      BY <1>5, <3>1, NullAssumption DEF Leaving
    <3>. QED
      BY <3>2 DEF LeftAlone
  <2>. QED
    BY <1>0, <1>2, <1>7, <2>2, <2>3, <2>4, <2>5, <2>6, <2>7, <2>8 DEF JobFits, Sound
<1>. QED
  BY <1>6, <1>8

-----------------------------------------------------------------------------
\* The reader takes up a notification; nothing else moves but what the turn asks.
LEMMA NotifiedFits ==
    ASSUME \A s \in Sessions : JobFits(s), faults \subseteq faults', NEW s \in Sessions,
           UNCHANGED <<files, owner, queue, tasks, call>>,
           \A r \in Sessions \ {s} : server'[r] = server[r],
           server'[s].phase = server[s].phase, server'[s].turns = server[s].turns,
           server'[s].stop = server[s].stop, Running(s),
           reader'.session = s, reader'.copy = files[s], ~Copied(s, NULL), ~Unrecorded(s),
           NULL \notin Threads, \A t \in Threads : Copies(t, s) => call[t].copy # NULL,
           reader'.event = "failed" => "failure" \in faults',
           reader'.event = "interrupted" => "interrupt" \in faults'
    PROVE  \A r \in Sessions : JobFits(r)'
<1>1. \A r \in Sessions \ {s} : JobFits(r)'
  BY Others
<1>2. \A t \in Threads : ~Turning(t, s) /\ ~Copies(t, s)
  <2>1. \A t \in Threads : ~Copies(t, s)
    BY DEF Copied, Copies
  <2>2. \A t \in Threads : Turning(t, s) => call[t].turn = server[s].turns
    BY DEF JobFits, ThreadsFit, ThreadFits, Turning
  <2>. QED
    BY <2>1, <2>2 DEF Unrecorded, Turning
<1>3. /\ Status(s)' = Status(s) /\ Exists(s)' = Exists(s) /\ Needs(s)' = Needs(s)
      /\ Running(s)' = Running(s) /\ (Queued(s)' <=> Queued(s))
  BY DEF Status, Exists, Needs, Running, Queued
<1>4. ASSUME NEW t \in Threads
      PROVE  ~Turning(t, s)' /\ ~Copies(t, s)' /\ ThreadFits(t, s)'
  <2>1. ThreadFits(t, s) /\ (BeginsFrom(t, s)' <=> BeginsFrom(t, s))
    BY <1>3 DEF JobFits, ThreadsFit, BeginsFrom
  <2>2. ~Turning(t, s)' /\ ~Copies(t, s)'
    BY <1>2 DEF Turning, Copies
  <2>. QED
    BY <1>2, <1>3, <2>1, <2>2 DEF ThreadFits
<1>5. ThreadsFit(s)' /\ ReadFits(s)'
  BY <1>3, <1>4 DEF ThreadsFit, ReadFits
<1>6. TaskFits(s)' /\ TurnFits(s)'
  BY <1>2, <1>3 DEF JobFits, TaskFits, TurnFits
<1>7. (Driven(s) => Driven(s)') /\ (Uses(s) => Uses(s)')
  BY DEF Driven, In, Queued, Running, Uses, Writing
<1>8. LeftAlone(s)'
  BY <1>3 DEF JobFits, LeftAlone, Leaving, In
<1>. QED
  BY <1>1, <1>3, <1>5, <1>6, <1>7, <1>8 DEF JobFits, Sound

LEMMA TurnCompletedFits ==
    ASSUME IInv, \A s \in Sessions : JobFits(s), NEW s \in Sessions, NEW outcome,
           TurnCompleted(s, outcome), Smooth'
    PROVE  \A r \in Sessions : JobFits(r)'
<1>1. ~Copied(s, NULL) /\ ~Unrecorded(s) /\ faults \subseteq faults'
  BY SmoothDisturb DEF TurnCompleted, If, Disruptive, Disturb
<1>2. NULL \notin Threads /\ \A t \in Threads : Copies(t, s) => call[t].copy # NULL
  BY NullAssumption DEF IInv, CallsFit, Fits, Copies
<1>3. /\ reader'.session = s /\ reader'.copy = files[s] /\ reader'.event = outcome /\ Running(s)
      /\ UNCHANGED <<files, owner, queue, tasks, call, server>>
  BY DEF TurnCompleted, memory, workspace
<1>4. outcome = "failed" => "failure" \in faults'
  BY DEF TurnCompleted, Disturb, If
<1>5. outcome = "interrupted" => "interrupt" \in faults'
  BY <1>1 DEF TurnCompleted, Outcomes, JobFits, TurnFits
<1>. QED
  BY <1>1, <1>2, <1>3, <1>4, <1>5, NotifiedFits

LEMMA AskPermissionFits ==
    ASSUME IInv, \A s \in Sessions : JobFits(s), NEW s \in Sessions, AskPermission(s), Smooth'
    PROVE  \A r \in Sessions : JobFits(r)'
<1>1. ~Copied(s, NULL) /\ ~Unrecorded(s) /\ faults \subseteq faults'
  BY SmoothDisturb DEF AskPermission, If, Disruptive, Disturb
<1>2. NULL \notin Threads /\ \A t \in Threads : Copies(t, s) => call[t].copy # NULL
  BY NullAssumption DEF IInv, CallsFit, Fits, Copies
<1>3. /\ reader'.session = s /\ reader'.copy = files[s] /\ reader'.event = "approval"
      /\ UNCHANGED <<files, owner, queue, tasks, call>>
  BY DEF AskPermission, memory, workspace
<1>4. /\ server'[s].phase = server[s].phase /\ server'[s].turns = server[s].turns
      /\ server'[s].stop = server[s].stop
      /\ \A r \in Sessions \ {s} : server'[r] = server[r]
  BY DEF AskPermission, IInv, ServerFits, Servers
<1>5. Running(s)
  BY NullAssumption DEF AskPermission, Running, Phases, MutablePhases
<1>. QED
  BY <1>1, <1>2, <1>3, <1>4, <1>5, NotifiedFits

\* Only a session with nothing under way is archived, which ends it.
LEMMA ArchiveFits ==
    ASSUME IInv, \A s \in Sessions : JobFits(s), NEW u \in Requesters, NEW s \in Sessions,
           Archive(u, s), Smooth'
    PROVE  \A r \in Sessions : JobFits(r)'
<1>. DEFINE k == [Idle EXCEPT !.at = "archiving", !.session = s, !.copy = files[s]]
<1>1. k.at = "archiving" /\ k.session = s
  BY DEF Idle
<1>2. call' = [call EXCEPT ![u] = k]
  BY DEF Archive
<1>. HIDE DEF k
<1>3. /\ u \in Threads /\ faults \subseteq faults' /\ call[u].session = NULL
      /\ UNCHANGED <<files, owner, queue, tasks, reader, server>>
  BY IdleSession DEF Archive, Threads, Disturb, memory, workspace
<1>4. ~AtWork(s, NULL)
  BY SmoothDisturb DEF Archive, If, Disruptive, Unserializing
<1>5. \A t \in Threads : ~Leaving(t, s)
  BY <1>4, NullAssumption DEF AtWork, Engaged, Leaving
<1>6. ThreadFits(u, s)'
  <2>1. call'[u] = k
    BY <1>2, <1>3 DEF IInv, CallsFit
  <2>. QED
    BY <1>1, <2>1 DEF ThreadFits, Turning, Copies
<1>. QED
  BY <1>1, <1>2, <1>3, <1>4, <1>5, <1>6, TakenUp

LEMMA WriteArchivedFits ==
    ASSUME IInv, \A s \in Sessions : JobFits(s), NEW u \in Requesters, WriteArchived(u)
    PROVE  \A r \in Sessions : JobFits(r)'
<1>0. /\ u \in Threads /\ call[u].at = "archiving" /\ call[u].copy \in File
      /\ UNCHANGED <<owner, queue, tasks, reader, server, faults>>
  BY DEF WriteArchived, Threads, IInv, CallsFit, Fits, memory, workspace, bounds
<1>1. PICK s \in Sessions : s = call[u].session
  BY <1>0 DEF IInv, CallsFit, Fits
<1>2. JobFits(s) /\ Leaving(u, s)
  BY <1>0, <1>1 DEF Leaving
<1>3. /\ files'[s].status = "archived" /\ files'[s] # NULL
      /\ \A r \in Sessions \ {s} : files'[r] = files[r]
  <2>. DEFINE f == [call[u].copy EXCEPT !.status = "archived", !.turns = Current(s, @)]
  <2>1. f.status = "archived" /\ f \in File
    BY <1>0, CurrentTyped, StatusesNamed DEF File
  <2>2. files' = [files EXCEPT ![s] = f]
    BY <1>1 DEF WriteArchived
  <2>. HIDE DEF f
  <2>. QED
    BY <2>1, <2>2, NullAssumption DEF IInv, FilesFit
<1>4. call'[u] = Idle /\ call'[u].session = NULL /\ \A t \in Threads \ {u} : call'[t] = call[t]
  BY <1>0, IdleSession DEF WriteArchived, IInv, CallsFit
<1>5. \A r \in Sessions \ {s} : JobFits(r)'
  BY <1>0, <1>1, <1>3, <1>4, Others
<1>6. ~In(tasks, s) /\ ~Queued(s) /\ ~Running(s) /\ \A t \in Threads : call'[t].session # s
  BY <1>0, <1>2, <1>4, NullAssumption DEF JobFits, LeftAlone
<1>7. JobFits(s)'
  <2>1. ThreadsFit(s)' /\ TaskFits(s)' /\ LeftAlone(s)' /\ ~Queued(s)'
    BY <1>0, <1>6 DEF ThreadsFit, ThreadFits, Turning, Copies, TaskFits, LeftAlone, Leaving, In, Queued
  <2>2. TurnFits(s)' /\ ReadFits(s)'
    BY <1>0, <1>2, <1>6 DEF JobFits, TurnFits, ReadFits, Running
  <2>3. ~Needs(s)'
    BY <1>3 DEF Needs, Status, Exists, Unarchivable
  <2>4. ~Uses(s)
    <3>1. ~Writing(s)
      BY <1>6, NullAssumption DEF Running, Writing, MutablePhases, Phases
    <3>2. \A t \in Threads : call[t].session = s => call[t].at = "archiving"
      BY <1>0, <1>4, <1>6
    <3>. QED
      BY <1>6, <3>1, <3>2 DEF Uses, In, Implement
  <2>. QED
    BY <1>0, <1>2, <2>1, <2>2, <2>3, <2>4 DEF JobFits, Sound
<1>. QED
  BY <1>5, <1>7

LEMMA ReloadFits ==
    ASSUME IInv, \A s \in Sessions : JobFits(s), Reload PROVE \A r \in Sessions : JobFits(r)'
<1>. SUFFICES ASSUME NEW r \in Sessions PROVE JobFits(r)'
  OBVIOUS
<1>1. UNCHANGED <<files, owner, queue, call, reader, server>> /\ faults \subseteq faults'
  BY DEF Reload, workspace, Disturb
<1>2. Recover.session # r
  BY NullAssumption DEF Recover
<1>3. /\ \A i \in DOMAIN tasks' : tasks'[i] = Recover \/ \E j \in DOMAIN tasks : tasks[j] = tasks'[i]
      /\ \A j \in DOMAIN tasks : \E i \in DOMAIN tasks' : tasks'[i] = tasks[j]
  <2>1. tasks \in Seq(TasksOf(Known)) /\ Recover \in TasksOf(Known)
    BY DEF IInv, TasksFit, TasksOf, Recover
  <2>. QED
    BY <2>1, Appended DEF Reload
<1>4. Queued(r)' <=> Queued(r)
  BY <1>1 DEF Queued
<1>. QED
  BY <1>1, <1>2, <1>3, <1>4, JobAside

-----------------------------------------------------------------------------
\* The file becomes f: the session has no thread, no task and no place in the
\* queue left, but what it is given now.
LEMMA EndedFits ==
    ASSUME IInv, NEW s \in Sessions, TurnFits(s), NEW f \in File, files'[s] = f, UNCHANGED call,
           \A t \in Threads : call[t].session # s, reader' = NULL, faults' = faults,
           server'[s].phase = NULL, server'[s].stop = FALSE,
           \A i \in DOMAIN tasks' : tasks'[i].session = s =>
               \/ tasks'[i] = Implement(s) /\ f.status = "queued_implementation" /\ owner' = s
               \/ tasks'[i] = Review(s) /\ f.status = "awaiting_review",
           Queued(s)' => f.status = "queued_implementation",
           f.status \in Unarchivable \cup {"improving_skill"} => In(tasks, s)' \/ Queued(s)',
           Sound => (owner' = s => \E i \in DOMAIN tasks' : tasks'[i] = Implement(s))
    PROVE  JobFits(s)'
<1>1. Status(s)' = f.status /\ ~Running(s)'
  BY NullAssumption DEF Status, Exists, Running
<1>2. ThreadsFit(s)' /\ TaskFits(s)' /\ ReadFits(s)'
  BY <1>1 DEF ThreadsFit, ThreadFits, Turning, Copies, TaskFits, ReadFits
<1>3. TurnFits(s)' /\ LeftAlone(s)'
  BY <1>1 DEF TurnFits, LeftAlone, Leaving
<1>4. Needs(s)' => Driven(s)'
  BY <1>1 DEF Needs, Driven, In
<1>5. Sound' => (owner' = s => Uses(s)')
  BY DEF Sound, Uses
<1>. QED
  BY <1>1, <1>2, <1>3, <1>4, <1>5 DEF JobFits

Has(T, x) == \E i \in DOMAIN T : T[i] = x

\* What is dispatched after the rest.
LEMMA FollowedBy ==
    ASSUME NEW s \in Sessions, NEW more \in {<<>>, <<Review(s)>>},
           NEW T \in Seq(TasksOf(Sessions)), tasks' = T \o more
    PROVE  \A y : Has(tasks', y) <=> Has(T, y) \/ (y = Review(s) /\ more # <<>>)
<1>0. Review(s) \in TasksOf(Sessions)
  BY DEF TasksOf, Review
<1>. PICK U : U = tasks'
  OBVIOUS
<1>1. CASE more = <<>>
  <2>1. U = T
    BY <1>1
  <2>. QED
    BY <1>1, <2>1
<1>2. CASE more = <<Review(s)>>
  <2>1. U = Append(T, Review(s)) /\ more # <<>>
    BY <1>0, <1>2
  <2>2. /\ \A i \in DOMAIN U : U[i] = Review(s) \/ \E j \in DOMAIN T : T[j] = U[i]
        /\ \A j \in DOMAIN T : \E i \in DOMAIN U : U[i] = T[j]
        /\ \E i \in DOMAIN U : U[i] = Review(s)
    <3>1. T \in Seq(TasksOf(Sessions)) /\ Review(s) \in TasksOf(Sessions) /\ U = Append(T, Review(s))
      BY <1>0, <2>1
    <3>. QED
      BY ONLY <3>1, Appended
  <2>3. \A y : Has(U, y) => Has(T, y) \/ y = Review(s)
    BY <2>2 DEF Has
  <2>4. \A y : Has(T, y) => Has(U, y)
    BY <2>2 DEF Has
  <2>5. Has(U, Review(s))
    BY <2>2 DEF Has
  <2>. QED
    BY <2>1, <2>3, <2>4, <2>5
<1>. QED
  BY <1>1, <1>2

\* The worktree is passed to the first in the queue: all of them still wait.
LEMMA PassedOn ==
    ASSUME IInv, NEW f, \A i \in DOMAIN queue : i \in Candidates(f), NEW i \in Candidates(f),
           \A j \in Candidates(f) : i <= j, queue' = SubSeq(queue, i + 1, Len(queue))
    PROVE  /\ queue[i] \in Sessions /\ Queued(queue[i])
           /\ \A r \in Sessions : (Queued(r)' => Queued(r)) /\ (Queued(r) => Queued(r)' \/ r = queue[i])
<1>0. /\ DOMAIN queue = 1..Len(queue) /\ Len(queue) \in Nat /\ queue \in Seq(Sessions)
      /\ \A j \in DOMAIN queue : queue[j] \in Sessions
  BY LenProperties DEF IInv, WorkspaceFits
<1>1. i \in 1..Len(queue)
  BY <1>0 DEF Candidates
<1>2. 1 \in 1..Len(queue)
  BY <1>0, <1>1
<1>3. i = 1
  BY <1>0, <1>1, <1>2
<1>4. /\ DOMAIN queue' = 1..(Len(queue) - 1)
      /\ \A j \in 1..(Len(queue) - 1) : queue'[j] = queue[j + 1] /\ j + 1 \in 1..Len(queue)
  BY <1>0, <1>3
<1>. SUFFICES ASSUME NEW r \in Sessions
              PROVE  (Queued(r)' => Queued(r)) /\ (Queued(r) => Queued(r)' \/ r = queue[i])
  BY <1>0, <1>1 DEF Queued
<1>5. Queued(r)' => Queued(r)
  BY <1>0, <1>4 DEF Queued
<1>6. ASSUME NEW j \in 1..Len(queue), queue[j] = r, j # 1 PROVE Queued(r)'
  <2>1. j - 1 \in 1..(Len(queue) - 1) /\ (j - 1) + 1 = j
    BY <1>0, <1>6
  <2>2. queue'[j - 1] = r
    BY <1>4, <1>6, <2>1
  <2>. QED
    BY <1>4, <2>1, <2>2 DEF Queued
<1>. QED
  BY <1>0, <1>3, <1>5, <1>6 DEF Queued

LEMMA ReleaseServes ==
    ASSUME IInv, NEW s \in Sessions, owner = s, NEW f,
           \A r \in Sessions : Queued(r) => f[r] # NULL /\ f[r].status = "queued_implementation",
           NEW more \in {<<>>, <<Review(s)>>}, Release(s, f, more)
    PROVE  /\ ~Queued(s)' /\ (\A r \in Sessions : Queued(r)' => Queued(r))
           /\ \E given \in {NULL} \cup {r \in Sessions \ {s} : Queued(r)} :
                /\ owner' = given
                /\ \A r \in Sessions : Queued(r) => Queued(r)' \/ r = given
                /\ \A y : Has(tasks', y) <=> \/ Has(tasks, y)
                                             \/ y = Review(s) /\ more # <<>>
                                             \/ given # NULL /\ y = Implement(given)
<1>. DEFINE S == TasksOf(Sessions)
<1>0. /\ \A i \in DOMAIN queue : queue[i] \in Sessions /\ queue[i] # s
      /\ tasks \in Seq(S) /\ Review(s) \in S /\ \A r \in Sessions : Implement(r) \in S
      /\ s # NULL
  <2>1. TasksOf(Known) \subseteq S
    BY DEF TasksOf, Known
  <2>. QED
    BY <2>1, SeqGrows, LenProperties, NullAssumption
       DEF IInv, WorkspaceFits, NoIdleQueue, TasksFit, TasksOf, Review, Implement
<1>1. \A i \in DOMAIN queue : i \in Candidates(f)
  BY <1>0 DEF Candidates, Queued
<1>. HIDE DEF S
<1>2. ~Queued(s)
  BY <1>0 DEF Queued
<1>3. CASE Candidates(f) = {} /\ owner' = NULL /\ queue' = <<>> /\ tasks' = tasks \o more
  <2>1. \A r \in Sessions : ~Queued(r) /\ ~Queued(r)'
    BY <1>1, <1>3, NothingWaits DEF Queued
  <2>2. \A y : Has(tasks', y) <=> Has(tasks, y) \/ (y = Review(s) /\ more # <<>>)
    <3>1. tasks \in Seq(TasksOf(Sessions)) /\ tasks' = tasks \o more
      BY <1>0, <1>3 DEF S
    <3>. QED
      BY <3>1, FollowedBy
  <2>. QED
    BY <1>3, <2>1, <2>2
<1>4. ASSUME NEW i \in Candidates(f), \A j \in Candidates(f) : i <= j, owner' = queue[i],
             queue' = SubSeq(queue, i + 1, Len(queue)),
             tasks' = Append(tasks, Implement(queue[i])) \o more
      PROVE  /\ \A r \in Sessions : Queued(r)' => Queued(r)
             /\ queue[i] \in Sessions \ {s} /\ Queued(queue[i]) /\ queue[i] # NULL
             /\ \A r \in Sessions : Queued(r) => Queued(r)' \/ r = queue[i]
             /\ \A y : Has(tasks', y) <=> \/ Has(tasks, y)
                                          \/ y = Review(s) /\ more # <<>>
                                          \/ y = Implement(queue[i])
  <2>1. /\ queue[i] \in Sessions /\ Queued(queue[i])
        /\ \A r \in Sessions : (Queued(r)' => Queued(r)) /\ (Queued(r) => Queued(r)' \/ r = queue[i])
    BY <1>1, <1>4, PassedOn
  <2>2. queue[i] # s /\ queue[i] # NULL
    BY <1>2, <2>1, NullAssumption
  <2>3. PICK q : q = queue[i]
    OBVIOUS
  <2>4. PICK T : T = Append(tasks, Implement(q))
    OBVIOUS
  <2>5. T \in Seq(S) /\ Implement(q) \in S
    BY <1>0, <2>1, <2>3, <2>4, AppendProperties
  <2>6. tasks \in Seq(S) /\ Implement(q) \in S /\ T = Append(tasks, Implement(q))
    BY <1>0, <2>4, <2>5
  <2>7. \A y : Has(T, y) <=> Has(tasks, y) \/ y = Implement(q)
    <3>1. /\ \A n \in DOMAIN T : T[n] = Implement(q) \/ \E j \in DOMAIN tasks : tasks[j] = T[n]
          /\ \A j \in DOMAIN tasks : \E n \in DOMAIN T : T[n] = tasks[j]
          /\ \E n \in DOMAIN T : T[n] = Implement(q)
      BY ONLY <2>6, Appended
    <3>2. \A y : Has(T, y) => Has(tasks, y) \/ y = Implement(q)
      BY ONLY <3>1 DEF Has
    <3>3. \A y : Has(tasks, y) => Has(T, y)
      BY ONLY <3>1 DEF Has
    <3>4. Has(T, Implement(q))
      BY ONLY <3>1 DEF Has
    <3>. QED
      BY <3>2, <3>3, <3>4
  <2>8. tasks' = T \o more
    BY <1>4, <2>3, <2>4
  <2>9. \A y : Has(tasks', y) <=> Has(T, y) \/ (y = Review(s) /\ more # <<>>)
    <3>1. T \in Seq(TasksOf(Sessions))
      BY <2>5 DEF S
    <3>. QED
      BY <2>8, <3>1, FollowedBy
  <2>. QED
    BY <2>1, <2>2, <2>3, <2>7, <2>9
<1>5. CASE \E i \in Candidates(f) :
              /\ \A j \in Candidates(f) : i <= j
              /\ owner' = queue[i]
              /\ queue' = SubSeq(queue, i + 1, Len(queue))
              /\ tasks' = Append(tasks, Implement(queue[i])) \o more
  <2>1. PICK i \in Candidates(f) : /\ \A j \in Candidates(f) : i <= j
                                   /\ owner' = queue[i]
                                   /\ queue' = SubSeq(queue, i + 1, Len(queue))
                                   /\ tasks' = Append(tasks, Implement(queue[i])) \o more
    BY <1>5
  <2>. QED
    BY <1>2, <1>4, <2>1
<1>. QED
  BY <1>0, <1>3, <1>5 DEF Release

\* The reader has the session of its turn to itself, and the file knows the turn.
LEMMA ReaderAlone ==
    ASSUME IInv, Apart, NEW s \in Sessions, JobFits(s), reader # NULL, reader.session = s
    PROVE  /\ Running(s) /\ reader.copy = files[s] /\ files[s] \in File
           /\ \A t \in Threads : call[t].session # s
           /\ ~In(tasks, s) /\ ~Queued(s)
           /\ server[s].turns \in files[s].turns /\ server[s].phase \in Phases
           /\ Status(s) = StartedStatus[server[s].phase] /\ KnownPhase = server[s].phase
           /\ Writing(s) => owner = s
           /\ Uses(s) => Writing(s)
<1>1. /\ Running(s) /\ reader.copy = files[s] /\ files[s] \in File
      /\ \A t \in Threads : ~Turning(t, s) /\ ~Copies(t, s)
  <2>1. files[s] \in File
    BY NullAssumption DEF IInv, ReaderFits, FilesFit, Known
  <2>. QED
    BY <2>1 DEF JobFits, ReadFits
<1>2. ~In(tasks, s) /\ ~Queued(s) /\ \A t \in Threads : ~Busy(t, s)
  BY <1>1 DEF Apart, OneJob
<1>3. \A t \in Threads : call[t].session # s
  <2>1. \A t \in Threads : ~Leaving(t, s)
    BY <1>1 DEF JobFits, LeftAlone
  <2>. QED
    BY <1>1, <1>2, <2>1 DEF JobFits, ThreadsFit, ThreadFits, Turning, Copies, Busy, Leaving
<1>4. server[s].turns \in files[s].turns /\ Status(s) = StartedStatus[server[s].phase]
  BY <1>1 DEF JobFits, TurnFits
<1>5. server[s].phase \in Phases
  BY <1>1 DEF Running, IInv, ServerFits, Servers
<1>6. KnownPhase = server[s].phase
  BY <1>1, <1>4 DEF KnownPhase
<1>7. Writing(s) => owner = s
  BY DEF Apart, WritersOwn
<1>8. Uses(s) => Writing(s)
  BY <1>2, <1>3 DEF Uses, In, Implement
<1>. QED
  BY <1>1, <1>2, <1>3, <1>4, <1>5, <1>6, <1>7, <1>8

\* A notification within the turn leaves status and turns as they are.
LEMMA ReceiveWithinFits ==
    ASSUME IInv, Apart, \A s \in Sessions : JobFits(s), Receive, reader.event \in {"approval", "other"}
    PROVE  \A r \in Sessions : JobFits(r)'
<1>0. PICK s \in Sessions : s = reader.session /\ reader # NULL
  BY DEF Receive, IInv, ReaderFits, Notification
<1>1. /\ JobFits(s) /\ Running(s) /\ reader.copy = files[s] /\ files[s] \in File
      /\ \A t \in Threads : call[t].session # s
      /\ ~In(tasks, s) /\ ~Queued(s)
  BY <1>0, ReaderAlone
<1>2. UNCHANGED <<owner, queue, tasks, call, server, faults>> /\ reader' = NULL
  <2>1. Done = NULL
    BY DEF Done
  <2>2. Follow(reader.session, files')
    BY DEF Receive
  <2>3. UNCHANGED <<owner, queue, tasks>>
    BY <2>1, <2>2, NullAssumption DEF Follow, Phases, MutablePhases
  <2>. QED
    BY <2>3 DEF Receive, bounds
<1>3. /\ files'[s].status = files[s].status /\ files'[s].turns = files[s].turns
      /\ files'[s] # NULL /\ files[s] # NULL /\ \A r \in Sessions \ {s} : files'[r] = files[r]
  <2>1. Received.status = files[s].status /\ Received.turns = files[s].turns
    BY <1>1 DEF Received, File
  <2>2. Received \in File
    BY <1>0, ReceivedTyped
  <2>3. files' = [files EXCEPT ![s] = Received]
    BY <1>0 DEF Receive
  <2>. QED
    BY <1>1, <2>1, <2>2, <2>3, NullAssumption DEF IInv, FilesFit
<1>4. \A r \in Sessions \ {s} : JobFits(r)'
  BY <1>2, <1>3, Others
<1>5. JobFits(s)'
  <2>1. Status(s)' = Status(s) /\ Needs(s)' = Needs(s)
    BY <1>3 DEF Status, Exists, Needs
  <2>2. ThreadsFit(s)' /\ TaskFits(s)' /\ ReadFits(s)' /\ LeftAlone(s)' /\ ~Queued(s)'
    BY <1>1, <1>2 DEF ThreadsFit, ThreadFits, Turning, Copies, TaskFits, ReadFits, LeftAlone, Leaving, In,
       Queued
  <2>3. TurnFits(s)'
    BY <1>1, <1>2, <1>3, <2>1 DEF JobFits, TurnFits, Turning, Running
  <2>4. Driven(s)' /\ (Uses(s) => Uses(s)')
    BY <1>1, <1>2 DEF Driven, Running, Uses, Writing
  <2>. QED
    BY <1>1, <1>2, <2>1, <2>2, <2>3, <2>4 DEF JobFits, Sound
<1>. QED
  BY <1>4, <1>5

\* The turn ends: as failed or interrupted, or with what follows its phase.
LEMMA ReceiveEndFits ==
    ASSUME IInv, Apart, \A s \in Sessions : JobFits(s), Receive, reader.event \notin {"approval", "other"}
    PROVE  \A r \in Sessions : JobFits(r)'
<1>0. PICK s \in Sessions : s = reader.session /\ reader # NULL
  BY DEF Receive, IInv, ReaderFits, Notification
<1>1. /\ JobFits(s) /\ Running(s) /\ reader.copy = files[s] /\ files[s] \in File
      /\ \A t \in Threads : call[t].session # s
      /\ ~In(tasks, s) /\ ~Queued(s)
      /\ server[s].phase \in Phases /\ KnownPhase = server[s].phase
      /\ Writing(s) => owner = s
      /\ Uses(s) => Writing(s)
  BY <1>0, ReaderAlone
<1>2. UNCHANGED <<call, faults>> /\ reader' = NULL /\ Follow(s, files')
  BY <1>0 DEF Receive, bounds
<1>3. /\ server'[s].phase = NULL /\ server'[s].stop = FALSE
      /\ \A r \in Sessions \ {s} : server'[r] = server[r]
  <2>1. server' = [server EXCEPT ![s].phase = NULL, ![s].stop = FALSE]
    BY <1>0 DEF Receive
  <2>. QED
    BY <2>1 DEF IInv, ServerFits, Servers
<1>4. PICK f \in File : f = Received
  BY <1>0, ReceivedTyped
<1>5. files'[s] = f /\ \A r \in Sessions \ {s} : files'[r] = files[r]
  BY <1>0, <1>4 DEF Receive, IInv, FilesFit
<1>6. TurnFits(s)
  BY <1>1 DEF JobFits
<1>7. ASSUME UNCHANGED <<owner, queue, tasks>>,
             f.status \notin Unarchivable \cup {"improving_skill"}, Sound => owner # s
      PROVE  \A r \in Sessions : JobFits(r)'
  <2>1. \A r \in Sessions \ {s} : JobFits(r)'
    BY <1>2, <1>3, <1>5, <1>7, Others
  <2>2. \A i \in DOMAIN tasks' : tasks'[i].session # s
    BY <1>1, <1>7 DEF In
  <2>3. ~Queued(s)'
    BY <1>1, <1>7 DEF Queued
  <2>4. JobFits(s)'
    BY <1>1, <1>2, <1>3, <1>5, <1>6, <1>7, <2>2, <2>3, EndedFits
  <2>. QED
    BY <2>1, <2>4
<1>8. CASE reader.event # "completed"
  <2>1. reader.event \in {"failed", "interrupted"} /\ Done = NULL
    BY <1>0, <1>8 DEF IInv, ReaderFits, Notification, Events, Done
  <2>2. UNCHANGED <<owner, queue, tasks>>
    BY <1>2, <2>1, NullAssumption DEF Follow, Phases, MutablePhases
  <2>3. f.status = reader.event
    BY <1>1, <1>4, <1>8, <2>1 DEF Received, Ended, File
  <2>4. ~Sound
    BY <1>0, <1>1, <2>1 DEF JobFits, ReadFits, Sound
  <2>. QED
    BY <1>7, <2>1, <2>2, <2>3, <2>4 DEF Unarchivable
<1>9. CASE reader.event = "completed"
  <2>0. PICK phase \in Phases : phase = server[s].phase /\ Done = phase /\ Done # NULL
    BY <1>1, <1>9, NullAssumption DEF Done
  <2>1. f.status = CompletedStatus[phase]
    BY <1>1, <1>4, <1>9, <2>0 DEF Received, Ended, File
  <2>2. \A t \in Threads : call'[t] = call[t]
    BY <1>2
  <2>3. CASE phase = "review"
    <3>1. UNCHANGED <<owner, queue, tasks>>
      BY <1>2, <2>0, <2>3 DEF Follow
    <3>2. f.status = "review_complete"
      BY <2>1, <2>3 DEF CompletedStatus
    <3>3. Sound => owner # s
      BY <1>1, <2>0, <2>3 DEF JobFits, Writing, MutablePhases
    <3>. QED
      BY <1>7, <3>1, <3>2, <3>3 DEF Unarchivable
  <2>4. CASE phase = "planning"
    <3>1. f.status = "queued_implementation"
      BY <2>1, <2>4 DEF CompletedStatus
    <3>2. Enqueue(s)
      BY <1>2, <2>0, <2>4 DEF Follow
    <3>3. CASE owner \in {NULL, s} /\ owner' = s /\ tasks' = Append(tasks, Implement(s)) /\ UNCHANGED queue
      <4>1. Implement(s).session = s /\ \A r \in Sessions \ {s} : owner # r /\ owner' # r
        BY <3>3, NullAssumption DEF Implement
      <4>2. tasks \in Seq(TasksOf(Sessions)) /\ Implement(s) \in TasksOf(Sessions)
        BY SeqGrows DEF IInv, TasksFit, TasksOf, Known, Implement
      <4>3. /\ \A i \in DOMAIN tasks' : tasks'[i] = Implement(s) \/ \E j \in DOMAIN tasks : tasks[j] = tasks'[i]
            /\ \A j \in DOMAIN tasks : \E i \in DOMAIN tasks' : tasks'[i] = tasks[j]
            /\ \E i \in DOMAIN tasks' : tasks'[i] = Implement(s)
        BY <3>3, <4>2, Appended
      <4>4. \A r \in Sessions : Queued(r)' <=> Queued(r)
        BY <3>3 DEF Queued
      <4>5. ASSUME NEW r \in Sessions \ {s} PROVE JobFits(r)'
        <5>1. \A i \in DOMAIN tasks' : tasks'[i].session = r => \E j \in DOMAIN tasks : tasks[j] = tasks'[i]
          BY <4>1, <4>3
        <5>. QED
          BY <1>2, <1>3, <1>5, <2>2, <4>1, <4>3, <4>4, <5>1, JobAside
      <4>6. \A i \in DOMAIN tasks' : tasks'[i].session = s => tasks'[i] = Implement(s)
        BY <1>1, <4>3 DEF In
      <4>7. In(tasks, s)'
        BY <4>1, <4>3 DEF In
      <4>8. JobFits(s)'
        BY <1>1, <1>2, <1>3, <1>5, <1>6, <3>1, <3>3, <4>3, <4>4, <4>6, <4>7, EndedFits
      <4>. QED
        BY <4>5, <4>8
    <3>4. CASE owner \notin {NULL, s} /\ queue' = Append(queue, s) /\ UNCHANGED <<owner, tasks>>
      <4>1. /\ Len(queue) \in Nat /\ DOMAIN queue = 1..Len(queue)
            /\ DOMAIN queue' = 1..(Len(queue) + 1)
            /\ \A i \in 1..Len(queue) : queue'[i] = queue[i]
            /\ queue'[Len(queue) + 1] = s
        BY <3>4, AppendProperties, LenProperties DEF IInv, WorkspaceFits
      <4>2. Queued(s)' /\ \A r \in Sessions \ {s} : Queued(r)' <=> Queued(r)
        BY <4>1 DEF Queued
      <4>3. /\ \A i \in DOMAIN tasks' : \E j \in DOMAIN tasks : tasks[j] = tasks'[i]
            /\ \A j \in DOMAIN tasks : \E i \in DOMAIN tasks' : tasks'[i] = tasks[j]
        BY <3>4
      <4>4. ASSUME NEW r \in Sessions \ {s} PROVE JobFits(r)'
        BY <1>2, <1>3, <1>5, <2>2, <3>4, <4>2, <4>3, JobAside
      <4>5. \A i \in DOMAIN tasks' : tasks'[i].session # s
        BY <1>1, <3>4 DEF In
      <4>6. JobFits(s)'
        BY <1>1, <1>2, <1>3, <1>5, <1>6, <3>1, <3>4, <4>2, <4>5, EndedFits
      <4>. QED
        BY <4>4, <4>6
    <3>. QED
      BY <1>1, <3>2, <3>3, <3>4 DEF Enqueue
  <2>5. CASE phase \in MutablePhases
    <3>1. owner = s
      BY <1>1, <2>0, <2>5 DEF Writing
    <3>2. PICK more \in {<<>>, <<Review(s)>>} :
             /\ Release(s, files', more)
             /\ \/ more = <<>> /\ f.status = "awaiting_skill_review"
                \/ more # <<>> /\ f.status = "awaiting_review"
      <4>1. <<>> # <<Review(s)>>
        OBVIOUS
      <4>2. CASE phase = "skill_revision"
        <5>1. f.status = "awaiting_skill_review"
          BY <2>1, <4>2 DEF CompletedStatus
        <5>2. Done = "skill_revision" /\ Done \notin {NULL, "review"} /\ Done # "planning"
          BY <2>0, <4>2
        <5>3. Release(s, files', <<>>)
          BY <1>2, <5>2 DEF Follow
        <5>. QED
          BY <5>1, <5>3
      <4>3. CASE phase \in {"implementation", "correction"}
        <5>1. Release(s, files', <<Review(s)>>) /\ f.status = "awaiting_review"
          BY <1>2, <2>0, <2>1, <4>3 DEF Follow, CompletedStatus
        <5>. QED
          BY <4>1, <5>1
      <4>. QED
        BY <2>5, <4>2, <4>3 DEF MutablePhases
    <3>3. \A r \in Sessions : Queued(r) => files'[r] # NULL /\ files'[r].status = "queued_implementation"
      <4>. SUFFICES ASSUME NEW r \in Sessions, Queued(r)
                    PROVE  files'[r] # NULL /\ files'[r].status = "queued_implementation"
        OBVIOUS
      <4>1. r # s /\ Status(r) = "queued_implementation"
        BY <1>1 DEF JobFits
      <4>2. r \in Known
        BY <4>1, StatusKnown, StatusesNamed
      <4>. QED
        BY <1>5, <4>1, <4>2 DEF Known, Status, Exists
    <3>4. ~Queued(s)' /\ \A r \in Sessions : Queued(r)' => Queued(r)
      BY <3>1, <3>2, <3>3, ReleaseServes
    <3>5. PICK given \in {NULL} \cup {r \in Sessions \ {s} : Queued(r)} :
             /\ owner' = given
             /\ \A r \in Sessions : Queued(r) => Queued(r)' \/ r = given
             /\ \A y : Has(tasks', y) <=> \/ Has(tasks, y)
                                          \/ y = Review(s) /\ more # <<>>
                                          \/ given # NULL /\ y = Implement(given)
      BY <3>1, <3>2, <3>3, ReleaseServes
    <3>6. Review(s).session = s /\ (given # NULL => Implement(given).session = given)
      BY DEF Review, Implement
    <3>7. given # s /\ s # NULL
      BY <1>0, NullAssumption
    <3>8. ASSUME NEW r \in Sessions \ {s} PROVE JobFits(r)'
      <4>0. r # NULL
        BY NullAssumption
      <4>1. ASSUME NEW i \in DOMAIN tasks', tasks'[i].session = r
            PROVE  \/ \E j \in DOMAIN tasks : tasks[j] = tasks'[i]
                   \/ tasks'[i] = Implement(r) /\ Queued(r) /\ owner' = r
        <5>1. Has(tasks', tasks'[i])
          BY DEF Has
        <5>2. Has(tasks, tasks'[i]) \/ (given # NULL /\ tasks'[i] = Implement(given))
          BY <3>5, <3>6, <4>1, <5>1
        <5>3. CASE Has(tasks, tasks'[i])
          BY <5>3 DEF Has
        <5>4. CASE given # NULL /\ tasks'[i] = Implement(given)
          BY <3>5, <3>6, <4>1, <5>4
        <5>. QED
          BY <5>2, <5>3, <5>4
      <4>2. ASSUME NEW j \in DOMAIN tasks PROVE \E i \in DOMAIN tasks' : tasks'[i] = tasks[j]
        <5>1. Has(tasks, tasks[j])
          BY DEF Has
        <5>2. Has(tasks', tasks[j])
          BY <3>5, <5>1
        <5>. QED
          BY <5>2 DEF Has
      <4>3. given = r => \E i \in DOMAIN tasks' : tasks'[i] = Implement(r)
        <5>1. given = r => Has(tasks', Implement(r))
          BY <3>5, <4>0
        <5>. QED
          BY <5>1 DEF Has
      <4>4. Queued(r) => Queued(r)' \/ \E i \in DOMAIN tasks' : tasks'[i] = Implement(r)
        BY <3>5, <4>3
      <4>5. owner # r /\ (owner' = r => \E i \in DOMAIN tasks' : tasks'[i] = Implement(r))
        BY <3>1, <3>5, <4>3
      <4>. QED
        BY <1>2, <1>3, <1>5, <2>2, <3>4, <4>1, <4>2, <4>4, <4>5, JobAside
    <3>9. JobFits(s)'
      <4>1. ASSUME NEW i \in DOMAIN tasks', tasks'[i].session = s
            PROVE  tasks'[i] = Review(s) /\ more # <<>>
        <5>. PICK y : y = tasks'[i]
          OBVIOUS
        <5>1. Has(tasks', y)
          BY DEF Has
        <5>2. ~Has(tasks, y)
          BY <1>1, <4>1 DEF Has, In
        <5>3. ~(given # NULL /\ y = Implement(given))
          BY <3>6, <3>7, <4>1
        <5>. QED
          BY <3>5, <5>1, <5>2, <5>3
      <4>2. f.status = "awaiting_review" => In(tasks, s)'
        <5>1. f.status = "awaiting_review" => Has(tasks', Review(s))
          BY <3>2, <3>5
        <5>. QED
          BY <3>6, <5>1 DEF Has, In
      <4>3. f.status \in Unarchivable \cup {"improving_skill"} => In(tasks, s)'
        BY <3>2, <4>2 DEF Unarchivable
      <4>4. more # <<>> => f.status = "awaiting_review"
        BY <3>2
      <4>. QED
        BY <1>1, <1>2, <1>3, <1>5, <1>6, <3>4, <3>5, <3>7, <4>1, <4>3, <4>4, EndedFits
    <3>. QED
      BY <3>8, <3>9
  <2>. QED
    BY <2>3, <2>4, <2>5 DEF Phases
<1>. QED
  BY <1>8, <1>9

-----------------------------------------------------------------------------
\* The steps that only a disruption leads to.
LEMMA NotUnderWay ==
    ASSUME IInv, \A s \in Sessions : JobFits(s), NEW t \in Threads
    PROVE  call[t].at \notin {"undoing", "failing", "failed", "freeing"}
<1>1. ASSUME call[t].at \in {"undoing", "failing", "failed", "freeing"} PROVE FALSE
  <2>1. call[t].session \in Sessions
    BY <1>1 DEF IInv, CallsFit, Fits
  <2>. QED
    BY <1>1, <2>1 DEF JobFits, ThreadsFit, ThreadFits
<1>. QED
  BY <1>1

LEMMA NotRefused ==
    ASSUME IInv, Apart, NEW t \in Threads, Refuse(t), Smooth' PROVE FALSE
<1>1. call[t].session \in Sessions /\ Busy(t, call[t].session)
  BY DEF Refuse, Busy, IInv, CallsFit, Fits
<1>2. ~Running(call[t].session)
  BY <1>1 DEF Apart, OneJob
<1>. QED
  BY <1>2, SmoothDisturb DEF Refuse, If, Disruptive

\* Every step that disrupts nothing keeps every job in its place.
LEMMA NextFits ==
    ASSUME IInv, Apart, \A s \in Sessions : JobFits(s), [Next]_vars, Smooth'
    PROVE  \A r \in Sessions : JobFits(r)'
<1>1. ASSUME NEW w \in Workers, WorkerStep(w) PROVE \A r \in Sessions : JobFits(r)'
  <2>1. ~ReadFailed(w) /\ ~RecordFailed(w) /\ ~FreeFailed(w)
    BY NotUnderWay DEF Threads, ReadFailed, RecordFailed, FreeFailed
  <2>. QED
    BY <1>1, <2>1, TakeTaskFits, RecoverNextFits, RecoverWriteFits, RecoverQueueFits DEF WorkerStep
<1>2. ASSUME NEW u \in Requesters, RequesterStep(u) PROVE \A r \in Sessions : JobFits(r)'
  BY <1>2, CreateSessionFits, WriteStaleFits, WriteArchivedFits DEF RequesterStep
<1>3. ASSUME NEW u \in Requesters, Human(u) PROVE \A r \in Sessions : JobFits(r)'
  BY <1>3, AuthorizeFits, RequestFits, InterruptFits, RespondFits, PollFits, ArchiveFits DEF Human
<1>4. ASSUME NEW t \in Threads, ThreadStep(t) \/ Accept(t) \/ Refuse(t) \/ Timeout(t)
      PROVE  \A r \in Sessions : JobFits(r)'
  <2>1. ~Undo(t)
    BY NotUnderWay DEF Undo
  <2>2. ~Timeout(t)
    BY SmoothDisturb DEF Timeout, Disruptive, Unserializing
  <2>. QED
    BY <1>4, <2>1, <2>2, ClaimFits, ReadBackFits, RecordFits, AcceptFits, NotRefused DEF ThreadStep
<1>5. ASSUME NEW r \in late, AcceptLate(r) PROVE FALSE
  BY <1>5 DEF Apart
<1>6. ASSUME NEW s \in Sessions,
             \/ \E outcome \in {"completed", "failed", "interrupted"} : TurnCompleted(s, outcome)
             \/ AskPermission(s) \/ OtherEvent(s)
      PROVE  \A r \in Sessions : JobFits(r)'
  <2>1. ~OtherEvent(s)
    BY SmoothDisturb DEF OtherEvent, Disruptive
  <2>. QED
    BY <1>6, <2>1, TurnCompletedFits, AskPermissionFits
<1>7. CASE Receive \/ Restart \/ Reload
  <2>1. ~Restart
    BY SmoothDisturb DEF Restart, Disruptive
  <2>. QED
    BY <1>7, <2>1, ReceiveWithinFits, ReceiveEndFits, ReloadFits
<1>8. CASE UNCHANGED vars
  <2>1. UNCHANGED <<files, owner, queue, tasks, call, reader, server, faults>>
    BY <1>8 DEF vars
  <2>2. \A r \in Sessions \ {NULL} : JobFits(r)'
    BY <2>1, Others
  <2>. QED
    BY <2>2, NullAssumption
<1>. QED
  BY <1>1, <1>2, <1>3, <1>4, <1>5, <1>6, <1>7, <1>8 DEF Next

LEMMA InitFits == ASSUME Init, NEW s \in Sessions PROVE JobFits(s)
<1>1. DOMAIN queue = {} /\ DOMAIN tasks = {} /\ owner # s /\ reader = NULL
  BY NothingWaits, NullAssumption DEF Init
<1>2. \A t \in Threads : call[t].session # s
  BY NullAssumption DEF Init, Idle
<1>3. ~Running(s) /\ ~server[s].stop
  BY DEF Init, Running
<1>4. ~Needs(s)
  <2>1. Status(s) = NULL /\ NULL \notin Statuses
    BY NullAssumption DEF Init, Status, Exists
  <2>. QED
    BY <2>1, StatusesNamed DEF Needs, Unarchivable, Statuses, StartedStatus, Phases, MutablePhases
<1>. QED
  BY <1>1, <1>2, <1>3, <1>4 DEF JobFits, ThreadsFit, ThreadFits, Turning, Copies, TaskFits, TurnFits,
     ReadFits, LeftAlone, Leaving, Queued

JobsFit == Smooth => \A s \in Sessions : JobFits(s)

LEMMA AlwaysFit == Spec => []JobsFit
<1>1. Init => JobsFit
  BY InitFits DEF JobsFit
<1>2. IInv /\ (Calm => Apart) /\ JobsFit /\ [Next]_vars => JobsFit'
  <2>. SUFFICES ASSUME IInv, Calm => Apart, JobsFit, [Next]_vars, Smooth'
                PROVE  \A s \in Sessions : JobFits(s)'
    BY DEF JobsFit
  <2>1. Smooth
    BY FaultsStay DEF Smooth
  <2>2. Apart
    BY <2>1 DEF Smooth, Calm, Disruptive
  <2>. QED
    BY <2>1, <2>2, NextFits DEF JobsFit
<1>. QED
  BY <1>1, <1>2, Inductive, CalmIsApart, PTL DEF Spec

\* Whatever is under way for a session shows in its status.
LEMMA OverIsIdle ==
    ASSUME IInv, NEW s \in Sessions, JobFits(s), Over(s) PROVE ~Driven(s)
<1>1. ~In(tasks, s) /\ ~Queued(s)
  BY DEF JobFits, TaskFits, In, Over
<1>2. ASSUME NEW t \in Threads, ThreadFits(t, s), call[t].session = s
      PROVE  call[t].at \notin {"claiming", "asked", "answered", "recording", "rewriting", "requeueing"}
  BY <1>2 DEF ThreadFits, BeginsFrom, Over
<1>3. \A t \in Threads : call[t].session = s =>
          call[t].at \notin {"claiming", "asked", "answered", "recording", "rewriting", "requeueing"}
  BY <1>2 DEF JobFits, ThreadsFit
<1>4. ~Running(s)
  <2>1. ~\E t \in Threads : Turning(t, s)
    BY <1>3 DEF Turning
  <2>2. ASSUME Running(s), Status(s) = StartedStatus[server[s].phase] PROVE FALSE
    <3>1. server[s].phase \in Phases
      BY <2>2 DEF Running, IInv, ServerFits, Servers
    <3>. QED
      BY <2>2, <3>1 DEF Over, StartedStatus, Phases, MutablePhases
  <2>. QED
    BY <2>1, <2>2 DEF JobFits, TurnFits
<1>. QED
  BY <1>1, <1>3, <1>4 DEF Driven

\* No job is forgotten, and none goes on after its session ended: unless one of
\* the seven kinds of disturbance happened, a session that plans, implements,
\* corrects, reviews or improves its skill, or waits for the worktree or for its
\* review, has a task, a place in the queue, a running turn or a thread that
\* drives it on; and for a session that failed, was interrupted or is archived
\* there is none of these.
\* Failed and interrupted turns and an absent server are no exceptions.
THEOREM JobsAreCarried == Spec => []JobsCarried
<1>1. IInv /\ JobsFit => JobsCarried
  BY OverIsIdle DEF JobsFit, JobsCarried, JobFits
<1>. QED
  BY <1>1, AlwaysFit, Inductive, PTL

\* The worktree is not held for nothing: its owner writes to it or is about to,
\* unless one of the same seven kinds of disturbance happened, or a turn failed or
\* was interrupted.
THEOREM OwnersWork == Spec => []OwnerWorks
<1>1. IInv /\ JobsFit => OwnerWorks
  BY DEF JobsFit, OwnerWorks, JobFits, IInv, WorkspaceFits
<1>. QED
  BY <1>1, AlwaysFit, Inductive, PTL
=============================================================================
