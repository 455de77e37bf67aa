----------------------- MODULE ExperimentQueue_proofs -----------------------
(***************************************************************************)
(* Theorems about ExperimentQueue, for every set of experiments, keys and  *)
(* clients and every bound.  The inductive invariant adds to what the runs *)
(* check what the holder of the lock may rely on between the two files     *)
(* that it writes.                                                         *)
(***************************************************************************)
EXTENDS ExperimentQueue, TLAPS

\* No experiment has a job before it is queued, and none is ready again.
Early == {"draft", "validated", "ready"}

NoEarlyJobs ==
    \A job \in Jobs :
        entries[job] # NULL \/ (call # NULL /\ call.job = job)
            => Exists(Of(job)) /\ State(Of(job)) \notin Early

\* What the holder of the lock is about to write is backed by a receipt, is the
\* only job of its experiment and its key, and is what the record now says.
HasReceipt(job, status) ==
    \E i \in DOMAIN records[Of(job)] :
        /\ records[Of(job)][i].to = status
        /\ records[Of(job)][i].key \in
              {Admission(job)} \cup {Controlled(job, a) : a \in Actions}

CallUnambiguous ==
    call # NULL =>
        \A p \in Jobs :
            /\ entries[p] # NULL
            /\ p[1] = call.job[1] \/ p[2] = call.job[2]
            => p = call.job

CallHasReceipt == call # NULL => HasReceipt(call.job, call.status)

CallAgrees ==
    call # NULL /\ Of(call.job) \notin apart => State(Of(call.job)) = call.status

Inv ==
    /\ TypeOK
    /\ NoEarlyJobs
    /\ JobsUnambiguous
    /\ CallUnambiguous
    /\ EntriesHaveReceipts
    /\ CallHasReceipt
    /\ QueueAgrees
    /\ CallAgrees
    /\ ReceiptsFollowTable

-----------------------------------------------------------------------------
(* The tables.                                                             *)

LEMMA AllStates ==
    States = {"draft", "validated", "ready", "queued", "running", "paused",
              "completed", "failed", "cancelled", "reviewed", "archived"}
BY DEF States, TRANSITIONS

LEMMA TableTypes ==
    /\ \A s \in States : TRANSITIONS[s] \subseteq States
    /\ Statuses \subseteq States
    /\ \A a \in Actions : /\ AllowedFrom[a] \subseteq Queued
                          /\ LeadsTo[a] \in Statuses
BY AllStates DEF TRANSITIONS, Statuses, Queued, Actions, AllowedFrom, LeadsTo

\* What the actions allow for a status follows the table of transitions.
LEMMA ActionsFollowTable ==
    \A a \in Actions : \A s \in AllowedFrom[a] :
        s \in States /\ LeadsTo[a] \in TRANSITIONS[s]
BY AllStates DEF TRANSITIONS, Actions, AllowedFrom, LeadsTo

LEMMA LateStaysLate ==
    /\ \A s \in States \ Early : TRANSITIONS[s] \cap Early = {}
    /\ Statuses \cap Early = {}
BY AllStates DEF TRANSITIONS, Early, Statuses, Queued

LEMMA EndedStates ==
    /\ \A s \in Ended : TRANSITIONS[s] = {"reviewed"}
    /\ TRANSITIONS["reviewed"] = {"archived"}
    /\ TRANSITIONS["archived"] = {}
    /\ Statuses = Queued \cup Ended
    /\ Queued \cap Ended = {}
BY AllStates DEF TRANSITIONS, Ended, Statuses, Queued

-----------------------------------------------------------------------------
(* An appended receipt.                                                    *)

LEMMA Appended ==
    ASSUME TypeOK, NEW e \in Experiments, NEW s \in States,
           NEW key \in ReceiptKeys, records' = Append1(e, s, key)
    PROVE  /\ records' \in [Experiments -> Seq(Receipts)]
           /\ Exists(e)' /\ State(e)' = s
           /\ DOMAIN records'[e] = DOMAIN records[e] \cup {Len(records[e]) + 1}
           /\ Len(records'[e]) = Len(records[e]) + 1
           /\ \A i \in DOMAIN records[e] : records'[e][i] = records[e][i]
           /\ records'[e][Len(records[e]) + 1] = [to |-> s, key |-> key]
           /\ \A f \in Experiments \ {e} :
                /\ records'[f] = records[f]
                /\ Exists(f)' = Exists(f) /\ State(f)' = State(f)
<1> DEFINE r == [to |-> s, key |-> key]
<1>1. r \in Receipts
  BY DEF Receipts
<1>2. /\ records[e] \in Seq(Receipts)
      /\ records' = [records EXCEPT ![e] = Append(records[e], r)]
  BY DEF TypeOK, Append1
<1>3. records'[e] = Append(records[e], r)
  BY <1>2 DEF TypeOK
<1>4. records' \in [Experiments -> Seq(Receipts)]
  <2>1. Append(records[e], r) \in Seq(Receipts)
    BY <1>1, <1>2
  <2> HIDE DEF r
  <2> QED
    BY <1>2, <2>1 DEF TypeOK
<1>5. /\ Len(records'[e]) = Len(records[e]) + 1
      /\ DOMAIN records'[e] = DOMAIN records[e] \cup {Len(records[e]) + 1}
      /\ records'[e][Len(records[e]) + 1] = r
      /\ \A i \in DOMAIN records[e] : records'[e][i] = records[e][i]
  <2> HIDE DEF r
  <2> QED
    BY <1>1, <1>2, <1>3
<1>6. Exists(e)' /\ State(e)' = s
  <2>1. records'[e] # <<>>
    BY <1>5, <1>2
  <2> QED
    BY <1>5, <2>1 DEF Exists, State
<1>7. ASSUME NEW f \in Experiments \ {e}
      PROVE  /\ records'[f] = records[f]
             /\ Exists(f)' = Exists(f) /\ State(f)' = State(f)
  <2>1. records'[f] = records[f]
    BY <1>2 DEF TypeOK
  <2> QED
    BY <2>1 DEF Exists, State
<1> QED
  BY <1>4, <1>5, <1>6, <1>7

LEMMA StateType ==
    ASSUME TypeOK, NEW e \in Experiments, Exists(e)
    PROVE  /\ State(e) \in States
           /\ Len(records[e]) \in DOMAIN records[e]
           /\ DOMAIN records[e] = 1..Len(records[e])
           /\ Len(records[e]) \in Nat
<1>1. records[e] \in Seq(Receipts) /\ records[e] # <<>>
  BY DEF TypeOK, Exists
<1>2. /\ DOMAIN records[e] = 1..Len(records[e])
      /\ Len(records[e]) \in Nat /\ Len(records[e]) # 0
  BY <1>1
<1>3. records[e][Len(records[e])] \in Receipts
  BY <1>1, <1>2
<1> QED
  BY <1>2, <1>3 DEF State, Receipts

LEMMA KeyTypes ==
    /\ \A i \in Nat : Requested(i) \in ReceiptKeys
    /\ \A job \in Jobs : /\ Of(job) \in Experiments
                         /\ Admission(job) \in ReceiptKeys
                         /\ \A a \in Actions : Controlled(job, a) \in ReceiptKeys
BY DEF Requested, Admission, Controlled, ReceiptKeys, Jobs, Of

\* The chain of receipts follows the table if the new one does.
LEMMA TableKept ==
    ASSUME TypeOK, NEW e \in Experiments, NEW s \in States,
           NEW key \in ReceiptKeys, records' = Append1(e, s, key),
           apart \subseteq apart',
           Exists(e) => \/ s \in TRANSITIONS[State(e)]
                        \/ e \in apart' /\ key.by \in Actions,
           ReceiptsFollowTable
    PROVE  ReceiptsFollowTable'
<1> SUFFICES ASSUME NEW f \in Experiments,
                    NEW i \in DOMAIN records'[f], i > 1
             PROVE  \/ records'[f][i].to \in TRANSITIONS[records'[f][i - 1].to]
                    \/ f \in apart' /\ records'[f][i].key.by \in Actions
  BY DEF ReceiptsFollowTable
<1>1. CASE f # e
  <2>1. records'[f] = records[f]
    BY <1>1, Appended
  <2> QED
    BY <2>1 DEF ReceiptsFollowTable
<1>2. CASE f = e /\ i \in DOMAIN records[e]
  <2>1. i - 1 \in DOMAIN records[e]
    BY <1>2 DEF TypeOK
  <2>2. records'[e][i] = records[e][i] /\ records'[e][i - 1] = records[e][i - 1]
    BY <1>2, <2>1, Appended
  <2> QED
    BY <1>2, <2>2 DEF ReceiptsFollowTable
<1>3. CASE f = e /\ i = Len(records[e]) + 1
  <2>1. Len(records[e]) \in Nat /\ i - 1 = Len(records[e])
    BY <1>3 DEF TypeOK
  <2>2. Exists(e) /\ i - 1 \in DOMAIN records[e]
    BY <1>3, <2>1 DEF TypeOK, Exists
  <2>3. records'[e][i].to = s /\ records'[e][i].key = key
    <3>1. records'[e][Len(records[e]) + 1] = [to |-> s, key |-> key]
      BY Appended
    <3> QED
      BY <1>3, <3>1
  <2>4. records'[e][i - 1] = records[e][i - 1]
    BY <2>2, Appended
  <2>5. \/ s \in TRANSITIONS[records[e][Len(records[e])].to]
        \/ e \in apart' /\ key.by \in Actions
    BY <2>2 DEF State
  <2> QED
    BY <1>3, <2>1, <2>3, <2>4, <2>5
<1>4. f = e => i \in DOMAIN records[e] \/ i = Len(records[e]) + 1
  <2>1. DOMAIN records'[e] = DOMAIN records[e] \cup {Len(records[e]) + 1}
    BY Appended
  <2> QED
    BY <2>1
<1> QED
  BY <1>1, <1>2, <1>3, <1>4

\* Receipts stay where they are.
LEMMA ReceiptsKept ==
    ASSUME TypeOK, NEW e \in Experiments, NEW s \in States,
           NEW key \in ReceiptKeys, records' = Append1(e, s, key),
           NEW job \in Jobs, NEW status
    PROVE  HasReceipt(job, status) => HasReceipt(job, status)'
<1>1. Of(job) \in Experiments
  BY KeyTypes
<1>2. \A i \in DOMAIN records[Of(job)] :
         i \in DOMAIN records'[Of(job)] /\ records'[Of(job)][i] = records[Of(job)][i]
  <2>1. CASE Of(job) = e
    BY <2>1, Appended
  <2>2. CASE Of(job) # e
    BY <1>1, <2>2, Appended
  <2> QED
    BY <2>1, <2>2
<1> QED
  BY <1>2 DEF HasReceipt

\* The receipt of a control action or an admission is there at once.
LEMMA ReceiptOfCall ==
    ASSUME TypeOK, NEW job \in Jobs, NEW s \in States,
           NEW key \in {Admission(job)} \cup {Controlled(job, a) : a \in Actions},
           records' = Append1(Of(job), s, key)
    PROVE  HasReceipt(job, s)'
<1>1. Of(job) \in Experiments /\ key \in ReceiptKeys
  BY KeyTypes
<1>2. /\ Len(records[Of(job)]) + 1 \in DOMAIN records'[Of(job)]
      /\ records'[Of(job)][Len(records[Of(job)]) + 1] = [to |-> s, key |-> key]
  BY <1>1, Appended
<1> QED
  BY <1>2 DEF HasReceipt, Admission, Controlled

\* What an entry that is not torn from its record says of it.
LEMMA AgreedStatus ==
    ASSUME Inv, call = NULL, NEW job \in Jobs, entries[job] # NULL,
           Of(job) \notin apart, entries[job] \in Queued
    PROVE  State(Of(job)) = entries[job]
<1>1. /\ Of(job) \in Experiments \ apart /\ job[2] \in Keys
      /\ job = <<Of(job), job[2]>>
  BY KeyTypes DEF Jobs, Of
<1>2. ~Busy(Of(job))
  BY DEF Busy
<1>3. \/ entries[<<Of(job), job[2]>>] = State(Of(job))
      \/ entries[<<Of(job), job[2]>>] \in Ended
  BY <1>1, <1>2 DEF Inv, QueueAgrees
<1> QED
  BY <1>1, <1>3, EndedStates

-----------------------------------------------------------------------------
(* One lemma for each action.                                              *)

LEMMA Initially == Init => Inv
<1> SUFFICES ASSUME Init PROVE Inv
  OBVIOUS
<1>1. TypeOK
  BY BoundAssumption DEF Init, TypeOK
<1>2. \A job \in Jobs : entries[job] = NULL
  BY DEF Init
<1>3. \A e \in Experiments : records[e] = <<>>
  BY DEF Init
<1>4. QueueAgrees
  BY <1>2, <1>3 DEF QueueAgrees, Exists, Jobs
<1> QED
  BY <1>1, <1>2, <1>3, <1>4
     DEF Init, Inv, NoEarlyJobs, JobsUnambiguous, CallUnambiguous,
         EntriesHaveReceipts, CallHasReceipt, CallAgrees, ReceiptsFollowTable

LEMMA StutterStep == Inv /\ UNCHANGED vars => Inv'
BY DEF Inv, vars, TypeOK, NoEarlyJobs, JobsUnambiguous, CallUnambiguous,
       EntriesHaveReceipts, CallHasReceipt, HasReceipt, QueueAgrees, CallAgrees,
       ReceiptsFollowTable, Exists, State, Busy

LEMMA ReadStep ==
    ASSUME Inv, NEW c \in Clients, NEW e \in Experiments, Read(c, e)
    PROVE  Inv'
<1>1. Len(records[e]) \in Nat
  BY StateType DEF Inv, Read
<1>2. TypeOK'
  BY <1>1 DEF Inv, Read, TypeOK
<1> QED
  BY <1>2
     DEF Inv, Read, NoEarlyJobs, JobsUnambiguous, CallUnambiguous,
         EntriesHaveReceipts, CallHasReceipt, HasReceipt, QueueAgrees,
         CallAgrees, ReceiptsFollowTable, Exists, State, Busy

LEMMA CreateStep ==
    ASSUME Inv, NEW e \in Experiments, Create(e)
    PROVE  Inv'
<1> USE DEF Create
<1>1. TypeOK /\ "draft" \in States /\ Requested(1) \in ReceiptKeys
  BY AllStates, KeyTypes DEF Inv
<1>2. TypeOK'
  BY <1>1, Appended DEF TypeOK
<1>3. \A f \in Experiments \ {e} : Exists(f)' = Exists(f) /\ State(f)' = State(f)
  BY <1>1, Appended
<1>4. \A job \in Jobs : entries[job] # NULL => Of(job) \in Experiments \ {e}
  BY KeyTypes DEF Inv, NoEarlyJobs
<1>5. NoEarlyJobs'
  BY <1>3, <1>4 DEF Inv, NoEarlyJobs
<1>6. QueueAgrees'
  <2> SUFFICES ASSUME NEW f \in Experiments \ apart
               PROVE  /\ \A key \in Keys : entries[<<f, key>>] # NULL =>
                            \/ entries[<<f, key>>] = State(f)'
                            \/ entries[<<f, key>>] \in Ended
                                  /\ State(f)' \in {"reviewed", "archived"}
                      /\ Exists(f)' /\ State(f)' \in Queued =>
                            \E key \in Keys : entries[<<f, key>>] # NULL
    BY DEF QueueAgrees
  <2>1. CASE f = e
    <3>1. State(e)' = "draft" /\ "draft" \notin Queued
      BY <1>1, Appended DEF Queued
    <3>2. \A key \in Keys : entries[<<e, key>>] = NULL
      BY <1>4 DEF Jobs, Of
    <3> QED
      BY <2>1, <3>1, <3>2
  <2>2. CASE f # e
    BY <2>2, <1>3 DEF Inv, QueueAgrees, Busy
  <2> QED
    BY <2>1, <2>2
<1>7. EntriesHaveReceipts'
  BY <1>1, ReceiptsKept DEF Inv, EntriesHaveReceipts, HasReceipt
<1>8. ReceiptsFollowTable'
  BY <1>1, TableKept DEF Inv
<1> QED
  BY <1>2, <1>5, <1>6, <1>7, <1>8
     DEF Inv, JobsUnambiguous, CallUnambiguous, CallHasReceipt, CallAgrees

LEMMA TransitionStep ==
    ASSUME Inv, NEW c \in Clients, NEW e \in Experiments, NEW s \in States,
           Transition(c, e, s)
    PROVE  Inv'
<1> USE DEF Transition
<1> DEFINE new == Requested(Len(records[e]) + 1)
<1>1. /\ TypeOK /\ new \in ReceiptKeys
      /\ State(e) \in States /\ Exists(e)
      /\ s \in TRANSITIONS[State(e)]
      /\ records' = Append1(e, s, new)
      /\ call = NULL /\ call' = NULL /\ entries' = entries
  BY KeyTypes, StateType DEF Inv
<1> HIDE DEF new
<1>2. /\ apart \subseteq apart' /\ apart' \subseteq Experiments
      /\ departures' \in 0..MaxDepartures
      /\ e \notin apart' => State(e) \notin Queued /\ s \notin Queued
  BY <1>1, BoundAssumption DEF Depart, TypeOK
<1>3. TypeOK'
  <2>1. records' \in [Experiments -> Seq(Receipts)]
    BY <1>1, Appended
  <2> QED
    BY <1>1, <1>2, <2>1 DEF TypeOK
<1>4. /\ Exists(e)' /\ State(e)' = s
      /\ \A f \in Experiments \ {e} :
            Exists(f)' = Exists(f) /\ State(f)' = State(f)
  BY <1>1, Appended
<1>5. NoEarlyJobs'
  <2> SUFFICES ASSUME NEW job \in Jobs, entries[job] # NULL
               PROVE  Exists(Of(job))' /\ State(Of(job))' \notin Early
    BY <1>1 DEF NoEarlyJobs
  <2>1. Exists(Of(job)) /\ State(Of(job)) \notin Early /\ Of(job) \in Experiments
    BY KeyTypes DEF Inv, NoEarlyJobs
  <2>2. CASE Of(job) = e
    <3>1. s \notin Early
      BY <1>1, <2>1, <2>2, LateStaysLate
    <3> QED
      BY <1>4, <2>2, <3>1
  <2> QED
    BY <1>4, <2>1, <2>2
<1>6. QueueAgrees'
  <2> SUFFICES ASSUME NEW f \in Experiments \ apart'
               PROVE  /\ \A key \in Keys : entries[<<f, key>>] # NULL =>
                            \/ entries[<<f, key>>] = State(f)'
                            \/ entries[<<f, key>>] \in Ended
                                  /\ State(f)' \in {"reviewed", "archived"}
                      /\ Exists(f)' /\ State(f)' \in Queued =>
                            \E key \in Keys : entries[<<f, key>>] # NULL
    BY <1>1 DEF QueueAgrees
  <2>1. /\ \A key \in Keys : entries[<<f, key>>] # NULL =>
              \/ entries[<<f, key>>] = State(f)
              \/ entries[<<f, key>>] \in Ended
                    /\ State(f) \in {"reviewed", "archived"}
        /\ Exists(f) /\ State(f) \in Queued =>
              \E key \in Keys : entries[<<f, key>>] # NULL
    BY <1>1, <1>2 DEF Inv, QueueAgrees, Busy
  <2>2. CASE f = e
    <3>1. s \notin Queued /\ State(e) \notin Queued
      BY <1>2, <2>2
    <3>2. ASSUME NEW key \in Keys, entries[<<f, key>>] # NULL
          PROVE  /\ entries[<<f, key>>] \in Ended
                 /\ s \in {"reviewed", "archived"}
      <4>1. entries[<<f, key>>] \in Queued \cup Ended
        BY <3>2, <1>1, EndedStates DEF TypeOK, Jobs
      <4>2. \/ State(e) \in Ended /\ entries[<<f, key>>] \in Ended
            \/ /\ entries[<<f, key>>] \in Ended
               /\ State(e) \in {"reviewed", "archived"}
        BY <2>1, <2>2, <3>1, <3>2, <4>1
      <4> QED
        BY <1>1, <4>2, EndedStates
    <3> QED
      BY <1>4, <2>2, <3>1, <3>2
  <2>3. CASE f # e
    BY <1>4, <2>1, <2>3
  <2> QED
    BY <2>2, <2>3
<1>7. EntriesHaveReceipts'
  BY <1>1, ReceiptsKept DEF Inv, EntriesHaveReceipts, HasReceipt
<1>8. ReceiptsFollowTable'
  BY <1>1, <1>2, TableKept DEF Inv
<1> QED
  BY <1>1, <1>3, <1>5, <1>6, <1>7, <1>8
     DEF Inv, JobsUnambiguous, CallUnambiguous, CallHasReceipt, CallAgrees

LEMMA EnqueueStep ==
    ASSUME Inv, NEW c \in Clients, NEW job \in Jobs, Enqueue(c, job)
    PROVE  Inv'
<1> DEFINE e == Of(job)
<1> USE DEF Enqueue
<1>1. /\ TypeOK /\ e \in Experiments /\ Admission(job) \in ReceiptKeys
      /\ "queued" \in States /\ "queued" \in Statuses
      /\ Exists(e) /\ State(e) = "ready" /\ "ready" \in Early
      /\ "queued" \in TRANSITIONS["ready"] /\ "queued" \notin Early
      /\ records' = Append1(e, "queued", Admission(job))
      /\ call = NULL /\ call' = [job |-> job, status |-> "queued"]
      /\ entries' = entries /\ apart' = apart /\ departures' = departures
      /\ seen' = seen
  BY KeyTypes, AllStates
     DEF Inv, Early, Statuses, Queued, TRANSITIONS
<1> HIDE DEF Enqueue
<1>2. /\ records' \in [Experiments -> Seq(Receipts)]
      /\ Exists(e)' /\ State(e)' = "queued"
      /\ \A f \in Experiments \ {e} :
            Exists(f)' = Exists(f) /\ State(f)' = State(f)
  BY <1>1, Appended
<1>3. TypeOK'
  <2>1. call' \in Calls
    BY <1>1 DEF Calls
  <2> QED
    BY <1>1, <1>2, <2>1 DEF TypeOK
<1>4. \A p \in Jobs : entries[p] # NULL => p[1] # job[1] /\ p[2] # job[2]
  <2> SUFFICES ASSUME NEW p \in Jobs, entries[p] # NULL
               PROVE  p[1] # job[1] /\ p[2] # job[2]
    OBVIOUS
  <2>1. State(Of(p)) \notin Early
    BY DEF Inv, NoEarlyJobs
  <2>2. p[1] # job[1]
    BY <1>1, <2>1 DEF Of
  <2>3. p[1] \in Experiments /\ p = <<p[1], p[2]>>
    BY DEF Jobs
  <2>4. p[2] # job[2]
    BY <2>3 DEF Enqueue
  <2> QED
    BY <2>2, <2>4
<1>5. NoEarlyJobs'
  <2> SUFFICES ASSUME NEW p \in Jobs, entries[p] # NULL \/ p = job
               PROVE  Exists(Of(p))' /\ State(Of(p))' \notin Early
    BY <1>1 DEF NoEarlyJobs
  <2>1. CASE p = job
    BY <1>1, <1>2, <2>1
  <2>2. CASE entries[p] # NULL
    <3>1. Of(p) # e /\ Of(p) \in Experiments
      BY <1>4, <2>2, KeyTypes DEF Of
    <3>2. Exists(Of(p)) /\ State(Of(p)) \notin Early
      BY <2>2 DEF Inv, NoEarlyJobs
    <3> QED
      BY <1>2, <3>1, <3>2
  <2> QED
    BY <2>1, <2>2
<1>6. JobsUnambiguous' /\ CallUnambiguous'
  BY <1>1, <1>4 DEF Inv, JobsUnambiguous, CallUnambiguous
<1>7. EntriesHaveReceipts'
  BY <1>1, ReceiptsKept DEF Inv, EntriesHaveReceipts, HasReceipt
<1>8. CallHasReceipt'
  <2>1. HasReceipt(job, "queued")'
    BY <1>1, ReceiptOfCall
  <2> QED
    BY <1>1, <2>1 DEF CallHasReceipt, HasReceipt
<1>9. QueueAgrees'
  <2>1. \A f \in Experiments \ {e} : ~Busy(f) /\ ~Busy(f)'
    BY <1>1 DEF Busy
  <2>2. Busy(e)'
    BY <1>1, NullAssumption DEF Busy, Calls
  <2> QED
    BY <1>1, <1>2, <2>1, <2>2 DEF Inv, QueueAgrees
<1>10. CallAgrees'
  BY <1>1, <1>2 DEF CallAgrees
<1>11. ReceiptsFollowTable'
  BY <1>1, TableKept DEF Inv
<1> QED
  BY <1>3, <1>5, <1>6, <1>7, <1>8, <1>9, <1>10, <1>11 DEF Inv

LEMMA ControlStep ==
    ASSUME Inv, NEW job \in Jobs, NEW action \in Actions, Control(job, action)
    PROVE  Inv'
<1> DEFINE e == Of(job)
           s == LeadsTo[action]
<1>1. /\ TypeOK /\ e \in Experiments /\ Controlled(job, action) \in ReceiptKeys
      /\ s \in States /\ s \in Statuses /\ s \notin Early
      /\ records' = Append1(e, s, Controlled(job, action))
      /\ call = NULL /\ call' = [job |-> job, status |-> s]
      /\ call' \in Calls /\ call' # NULL
      /\ entries' = entries /\ apart' = apart /\ departures' = departures
      /\ seen' = seen
  BY KeyTypes, TableTypes, LateStaysLate, NullAssumption
     DEF Inv, Control, Calls
<1>2. /\ entries[job] \in AllowedFrom[action]
      /\ entries[job] \in Queued /\ entries[job] # NULL
  BY TableTypes, NullAssumption DEF Control, Accepted, Statuses
<1>3. /\ records' \in [Experiments -> Seq(Receipts)]
      /\ Exists(e)' /\ State(e)' = s
      /\ \A f \in Experiments \ {e} :
            Exists(f)' = Exists(f) /\ State(f)' = State(f)
  BY <1>1, Appended
<1> HIDE DEF s
<1>4. TypeOK'
  BY <1>1, <1>3 DEF TypeOK
<1>5. NoEarlyJobs'
  <2> SUFFICES ASSUME NEW p \in Jobs, entries[p] # NULL \/ p = job
               PROVE  Exists(Of(p))' /\ State(Of(p))' \notin Early
    BY <1>1 DEF NoEarlyJobs
  <2>1. CASE Of(p) = e
    BY <1>1, <1>3, <2>1
  <2>2. CASE Of(p) # e
    <3>1. entries[p] # NULL /\ Of(p) \in Experiments
      BY <2>2, KeyTypes
    <3>2. Exists(Of(p)) /\ State(Of(p)) \notin Early
      BY <3>1 DEF Inv, NoEarlyJobs
    <3> QED
      BY <1>3, <2>2, <3>1, <3>2
  <2> QED
    BY <2>1, <2>2
<1>6. JobsUnambiguous' /\ CallUnambiguous'
  BY <1>1, <1>2 DEF Inv, JobsUnambiguous, CallUnambiguous
<1>7. EntriesHaveReceipts'
  BY <1>1, ReceiptsKept DEF Inv, EntriesHaveReceipts, HasReceipt
<1>8. CallHasReceipt'
  <2>1. HasReceipt(job, s)'
    BY <1>1, ReceiptOfCall
  <2> QED
    BY <1>1, <2>1 DEF CallHasReceipt, HasReceipt
<1>9. QueueAgrees'
  <2>1. \A f \in Experiments \ {e} : ~Busy(f) /\ ~Busy(f)'
    BY <1>1 DEF Busy
  <2>2. Busy(e)'
    BY <1>1 DEF Busy
  <2> QED
    BY <1>1, <1>3, <2>1, <2>2 DEF Inv, QueueAgrees
<1>10. CallAgrees'
  BY <1>1, <1>3 DEF CallAgrees
<1>11. /\ s \in TRANSITIONS[State(e)] \/ e \in apart'
       /\ Controlled(job, action).by \in Actions
  BY <1>1, <1>2, AgreedStatus, ActionsFollowTable DEF s, Controlled
<1>12. ReceiptsFollowTable'
  BY <1>1, <1>11, TableKept DEF Inv
<1> QED
  BY <1>4, <1>5, <1>6, <1>7, <1>8, <1>9, <1>10, <1>12 DEF Inv

LEMMA WriteEntryStep ==
    ASSUME Inv, WriteEntry
    PROVE  Inv'
<1> DEFINE job == call.job
           e == Of(job)
<1>1. /\ call \in Calls /\ call # NULL /\ job \in Jobs /\ call.status \in Statuses
      /\ call' = NULL /\ records' = records /\ apart' = apart
      /\ departures' = departures /\ seen' = seen
      /\ entries \in [Jobs -> Statuses \cup {NULL}]
      /\ entries' = [entries EXCEPT ![job] = call.status]
      /\ call.status # NULL
  BY NullAssumption DEF Inv, TypeOK, WriteEntry, Calls
<1>2. /\ entries'[job] = call.status
      /\ \A p \in Jobs \ {job} : entries'[p] = entries[p]
  BY <1>1
<1>3. \A f \in Experiments : Exists(f)' = Exists(f) /\ State(f)' = State(f)
  BY <1>1 DEF Exists, State
<1> HIDE DEF job
<1>4. TypeOK'
  BY <1>1 DEF Inv, TypeOK
<1>5. NoEarlyJobs'
  BY <1>1, <1>2, <1>3, KeyTypes DEF Inv, NoEarlyJobs, job
<1>6. JobsUnambiguous'
  BY <1>1, <1>2 DEF Inv, JobsUnambiguous, CallUnambiguous, job
<1>7. EntriesHaveReceipts'
  BY <1>1, <1>2 DEF Inv, EntriesHaveReceipts, CallHasReceipt, HasReceipt, job
<1>8. QueueAgrees'
  <2> SUFFICES ASSUME NEW f \in Experiments \ apart
               PROVE  /\ \A key \in Keys : entries'[<<f, key>>] # NULL =>
                            \/ entries'[<<f, key>>] = State(f)
                            \/ entries'[<<f, key>>] \in Ended
                                  /\ State(f) \in {"reviewed", "archived"}
                      /\ Exists(f) /\ State(f) \in Queued =>
                            \E key \in Keys : entries'[<<f, key>>] # NULL
    BY <1>1, <1>3 DEF QueueAgrees
  <2>1. CASE f = e
    <3>1. State(f) = call.status
      BY <1>1, <2>1 DEF Inv, CallAgrees, job
    <3>2. ASSUME NEW key \in Keys, <<f, key>> # job
          PROVE  entries'[<<f, key>>] = NULL
      <4>1. <<f, key>> \in Jobs /\ <<f, key>>[1] = job[1]
        BY <2>1 DEF Jobs, Of
      <4> QED
        BY <1>1, <1>2, <3>2, <4>1 DEF Inv, CallUnambiguous, job
    <3>3. job[2] \in Keys /\ job = <<f, job[2]>>
      BY <1>1, <2>1 DEF Jobs, Of
    <3> QED
      BY <1>1, <1>2, <3>1, <3>2, <3>3
  <2>2. CASE f # e
    <3>1. ~Busy(f)
      BY <2>2 DEF Busy, job
    <3>2. \A key \in Keys : entries'[<<f, key>>] = entries[<<f, key>>]
      BY <1>2, <2>2 DEF Jobs, Of
    <3> QED
      BY <3>1, <3>2 DEF Inv, QueueAgrees
  <2> QED
    BY <2>1, <2>2
<1> QED
  BY <1>1, <1>4, <1>5, <1>6, <1>7, <1>8
     DEF Inv, CallUnambiguous, CallHasReceipt, CallAgrees, ReceiptsFollowTable

LEMMA CrashStep ==
    ASSUME Inv, Crash
    PROVE  Inv'
<1>1. /\ TypeOK /\ call.job \in Jobs /\ Of(call.job) \in Experiments
      /\ call # NULL /\ call' = NULL /\ entries' = entries
      /\ records' = records /\ seen' = seen
      /\ apart' = apart \cup {Of(call.job)}
      /\ departures' \in 0..MaxDepartures
  BY KeyTypes, BoundAssumption DEF Inv, TypeOK, Crash, Depart, Calls
<1>2. TypeOK'
  BY <1>1 DEF TypeOK
<1>3. \A f \in Experiments : Exists(f)' = Exists(f) /\ State(f)' = State(f)
  BY <1>1 DEF Exists, State
<1>4. QueueAgrees'
  <2>1. \A f \in Experiments \ apart' : ~Busy(f) /\ f \notin apart
    BY <1>1 DEF Busy
  <2> QED
    BY <1>1, <1>3, <2>1 DEF Inv, QueueAgrees
<1>5. NoEarlyJobs'
  BY <1>1, <1>3, KeyTypes DEF Inv, NoEarlyJobs
<1>6. ReceiptsFollowTable'
  BY <1>1 DEF Inv, ReceiptsFollowTable
<1> QED
  BY <1>1, <1>2, <1>4, <1>5, <1>6
     DEF Inv, JobsUnambiguous, CallUnambiguous, EntriesHaveReceipts,
         CallHasReceipt, HasReceipt, CallAgrees

-----------------------------------------------------------------------------

LEMMA NextStep == Inv /\ [Next]_vars => Inv'
<1> SUFFICES ASSUME Inv, [Next]_vars PROVE Inv'
  OBVIOUS
<1>1. ASSUME NEW e \in Experiments, Create(e) PROVE Inv'
  BY <1>1, CreateStep
<1>2. ASSUME NEW c \in Clients, NEW e \in Experiments, Read(c, e) PROVE Inv'
  BY <1>2, ReadStep
<1>3. ASSUME NEW c \in Clients, NEW e \in Experiments, NEW s \in States,
             Transition(c, e, s)
      PROVE  Inv'
  BY <1>3, TransitionStep
<1>4. ASSUME NEW c \in Clients, NEW job \in Jobs, Enqueue(c, job) PROVE Inv'
  BY <1>4, EnqueueStep
<1>5. ASSUME NEW job \in Jobs, NEW action \in Actions, Control(job, action)
      PROVE  Inv'
  BY <1>5, ControlStep
<1>6. CASE WriteEntry
  BY <1>6, WriteEntryStep
<1>7. CASE Crash
  BY <1>7, CrashStep
<1>8. CASE UNCHANGED vars
  BY <1>8, StutterStep
<1> QED
  BY <1>1, <1>2, <1>3, <1>4, <1>5, <1>6, <1>7, <1>8 DEF Next

\* Queue, records and the call under the lock are consistent in every reachable
\* state: the invariant that the other theorems follow from.
THEOREM Inductive == Spec => []Inv
BY Initially, NextStep, PTL DEF Spec

\* Types, for every instance.
THEOREM TypeCorrect == Spec => []TypeOK
<1>1. Inv => TypeOK
  BY DEF Inv
<1> QED
  BY <1>1, Inductive, PTL

\* An experiment is never queued twice, and a key never names two jobs, whatever
\* crashes and however stale the revisions of the clients are.
THEOREM NeverQueuedTwice == Spec => []JobsUnambiguous
<1>1. Inv => JobsUnambiguous
  BY DEF Inv
<1> QED
  BY <1>1, Inductive, PTL

\* What the queue shows is in the receipts, crashes included: the record is
\* written first.
THEOREM QueueIsBacked == Spec => []EntriesHaveReceipts
<1>1. Inv => EntriesHaveReceipts
  BY DEF Inv
<1> QED
  BY <1>1, Inductive, PTL

\* Record and queue agree between calls until something sets them apart.
THEOREM Agreement == Spec => []QueueAgrees
<1>1. Inv => QueueAgrees
  BY DEF Inv
<1> QED
  BY <1>1, Inductive, PTL

\* Receipts of clients and admissions follow the table of transitions in every
\* reachable state, whatever crashed before; those of queue actions, which do not
\* read it, as long as nothing moved the record without its entry.  Nothing is
\* said of a queue action on an experiment that was set apart.
THEOREM TableFollowed == Spec => []ReceiptsFollowTable
<1>1. Inv => ReceiptsFollowTable
  BY DEF Inv
<1> QED
  BY <1>1, Inductive, PTL

\* No step of any client, process or crash rewrites a receipt, and no client with
\* an old revision appends one, by a transition or by an admission.
THEOREM AppendOnly == Spec => ReceiptsAppendOnly
<1> DEFINE Kept == \A e \in Experiments :
             /\ Len(records'[e]) >= Len(records[e])
             /\ \A i \in DOMAIN records[e] : records'[e][i] = records[e][i]
             /\ \A i \in DOMAIN records'[e] \ DOMAIN records[e] :
                  records'[e][i].key.by \in {"client", "admission"} =>
                    ~Exists(e) \/ \E c \in Clients : UpToDate(c, e)
<1>1. ASSUME Inv, NEW e \in Experiments, NEW s \in States,
             NEW key \in ReceiptKeys, records' = Append1(e, s, key),
             key.by \in {"client", "admission"} =>
               ~Exists(e) \/ \E c \in Clients : UpToDate(c, e)
      PROVE  Kept
  <2>1. TypeOK
    BY <1>1 DEF Inv
  <2>2. /\ Len(records'[e]) = Len(records[e]) + 1
        /\ \A i \in DOMAIN records[e] : records'[e][i] = records[e][i]
        /\ \A f \in Experiments \ {e} : records'[f] = records[f]
        /\ DOMAIN records'[e] = DOMAIN records[e] \cup {Len(records[e]) + 1}
        /\ records'[e][Len(records[e]) + 1] = [to |-> s, key |-> key]
    BY <1>1, <2>1, Appended
  <2>3. \A f \in Experiments : Len(records[f]) \in Nat
    BY <2>1 DEF TypeOK
  <2>4. \A f \in Experiments \ {e} :
          /\ Len(records'[f]) >= Len(records[f])
          /\ \A i \in DOMAIN records[f] : records'[f][i] = records[f][i]
          /\ DOMAIN records'[f] = DOMAIN records[f]
    BY <2>2, <2>3
  <2>5. Len(records'[e]) >= Len(records[e])
    BY <2>2, <2>3
  <2>6. ASSUME NEW i \in DOMAIN records'[e] \ DOMAIN records[e],
               records'[e][i].key.by \in {"client", "admission"}
        PROVE  ~Exists(e) \/ \E c \in Clients : UpToDate(c, e)
    <3>1. records'[e][i].key = key
      BY <2>2
    <3> QED
      BY <1>1, <2>6, <3>1
  <2> QED
    BY <2>2, <2>4, <2>5, <2>6
<1>2. ASSUME Inv, [Next]_vars PROVE [Kept]_records
  <2>1. ASSUME NEW e \in Experiments, Create(e) PROVE Kept
    BY <1>1, <1>2, <2>1, AllStates, KeyTypes DEF Create
  <2>2. ASSUME NEW c \in Clients, NEW e \in Experiments, NEW s \in States,
               Transition(c, e, s)
        PROVE  Kept
    <3>1. Requested(Len(records[e]) + 1) \in ReceiptKeys
      BY <1>2, <2>2, KeyTypes, StateType DEF Inv, Transition
    <3> QED
      BY <1>1, <1>2, <2>2, <3>1 DEF Transition
  <2>3. ASSUME NEW c \in Clients, NEW job \in Jobs, Enqueue(c, job) PROVE Kept
    BY <1>1, <1>2, <2>3, AllStates, KeyTypes DEF Enqueue
  <2>4. ASSUME NEW job \in Jobs, NEW action \in Actions, Control(job, action)
        PROVE  Kept
    <3>1. Controlled(job, action).by \notin {"client", "admission"}
      BY DEF Controlled, Actions, AllowedFrom
    <3> QED
      BY <1>1, <1>2, <2>4, <3>1, TableTypes, KeyTypes DEF Control
  <2>5. CASE UNCHANGED records
    BY <2>5
  <2> QED
    BY <1>2, <2>1, <2>2, <2>3, <2>4, <2>5 DEF Next, vars, Read, WriteEntry, Crash
<1> QED
  BY <1>2, Inductive, PTL DEF Spec, ReceiptsAppendOnly

-----------------------------------------------------------------------------
(* The refinement of ExperimentLedger.                                     *)

\* The receipt before the last one: where the experiment of a call comes from.
Before(e) == records[e][Len(records[e]) - 1].to

\* The holder of the lock has appended one receipt, and moves its job, from
\* where experiment and job are, as an admission or an action would.
CallIsNext ==
    call # NULL =>
        /\ Len(records[Of(call.job)]) > 1
        /\ State(Of(call.job)) = call.status
        /\ \/ /\ call.status = "queued"
              /\ entries[call.job] = NULL
              /\ Before(Of(call.job)) = "ready"
           \/ \E a \in Actions :
                /\ entries[call.job] \in AllowedFrom[a]
                /\ call.status = LeadsTo[a]
                /\ Of(call.job) \in apart
                     \/ Before(Of(call.job)) = entries[call.job]

RInv == Inv /\ CallIsNext

\* What a client sees of an experiment while nobody writes its entry.
LEMMA SettledAlone ==
    ASSUME NEW e \in Experiments, ~Busy(e), TypeOK
    PROVE  /\ Exists(e) => Settled(e) = State(e)
           /\ ~Exists(e) => Settled(e) = NULL
BY DEF Settled, State, TypeOK

\* A receipt that starts a call does not count yet.
LEMMA SettledAppended ==
    ASSUME TypeOK, call = NULL, NEW job \in Jobs, NEW s \in States,
           NEW key \in ReceiptKeys, Exists(Of(job)),
           records' = Append1(Of(job), s, key),
           call' # NULL, call'.job = job
    PROVE  /\ \A e \in Experiments : Settled(e)' = Settled(e)
           /\ Before(Of(job))' = State(Of(job))
           /\ Len(records'[Of(job)]) > 1
<1>1. Of(job) \in Experiments
  BY KeyTypes
<1>2. /\ Len(records[Of(job)]) \in Nat /\ Len(records[Of(job)]) # 0
      /\ Len(records[Of(job)]) \in DOMAIN records[Of(job)]
  BY <1>1, StateType DEF TypeOK, Exists
<1>3. /\ Len(records'[Of(job)]) = Len(records[Of(job)]) + 1
      /\ records'[Of(job)][Len(records[Of(job)])] = records[Of(job)][Len(records[Of(job)])]
      /\ Exists(Of(job))'
  BY <1>1, <1>2, Appended
<1>4. Len(records'[Of(job)]) - 1 = Len(records[Of(job)])
  BY <1>2, <1>3
<1>5. Before(Of(job))' = State(Of(job))
  BY <1>3, <1>4 DEF Before, State
<1>6. Busy(Of(job))' /\ \A e \in Experiments : ~Busy(e)
  BY DEF Busy
<1>7. Settled(Of(job))' = State(Of(job))
  BY <1>3, <1>4, <1>6 DEF Settled, State
<1>8. Settled(Of(job)) = State(Of(job))
  BY <1>1, <1>6, SettledAlone
<1>9. ASSUME NEW e \in Experiments \ {Of(job)} PROVE Settled(e)' = Settled(e)
  <2>1. records'[e] = records[e]
    BY <1>1, Appended
  <2>2. ~Busy(e)' /\ ~Busy(e)
    BY <1>6 DEF Busy
  <2> QED
    BY <2>1, <2>2 DEF Settled, Exists
<1>10. Len(records'[Of(job)]) > 1
  BY <1>2, <1>3
<1> QED
  BY <1>5, <1>7, <1>8, <1>9, <1>10

\* The state of an experiment that another step does not touch.
LEMMA SettledElsewhere ==
    ASSUME TypeOK, NEW e \in Experiments, NEW s \in States,
           NEW key \in ReceiptKeys, records' = Append1(e, s, key),
           call = NULL, call' = NULL
    PROVE  /\ Settled(e)' = s
           /\ \A f \in Experiments \ {e} : Settled(f)' = Settled(f)
<1>1. \A f \in Experiments : ~Busy(f)' /\ ~Busy(f)
  BY DEF Busy
<1>2. /\ Exists(e)' /\ State(e)' = s
      /\ \A f \in Experiments \ {e} : records'[f] = records[f]
  BY Appended
<1>3. records'[e] \in Seq(Receipts)
  BY Appended
<1>4. Settled(e)' = State(e)'
  BY <1>1, <1>2, <1>3 DEF Settled, State
<1> QED
  BY <1>1, <1>2, <1>4 DEF Settled, Exists

-----------------------------------------------------------------------------

LEMMA CallIsNextStep == RInv /\ [Next]_vars => CallIsNext'
<1> SUFFICES ASSUME RInv, [Next]_vars PROVE CallIsNext'
  OBVIOUS
<1>1. TypeOK
  BY DEF RInv, Inv
<1>2. ASSUME NEW e \in Experiments, Create(e) PROVE CallIsNext'
  BY <1>2 DEF Create, CallIsNext
<1>3. ASSUME NEW c \in Clients, NEW e \in Experiments, Read(c, e)
      PROVE  CallIsNext'
  BY <1>3 DEF Read, RInv, CallIsNext, State, Before
<1>4. ASSUME NEW c \in Clients, NEW e \in Experiments, NEW s \in States,
             Transition(c, e, s)
      PROVE  CallIsNext'
  BY <1>4 DEF Transition, CallIsNext
<1>5. ASSUME NEW c \in Clients, NEW job \in Jobs, Enqueue(c, job)
      PROVE  CallIsNext'
  <2>1. /\ "queued" \in States /\ Admission(job) \in ReceiptKeys
        /\ Of(job) \in Experiments
    BY AllStates, KeyTypes
  <2>2. call' = [job |-> job, status |-> "queued"]
    BY <1>5 DEF Enqueue
  <2>3. call' # NULL
    BY <2>2, NullAssumption DEF Calls, Statuses, Queued
  <2>4. /\ Before(Of(job))' = "ready" /\ Len(records'[Of(job)]) > 1
    BY <1>1, <1>5, <2>1, <2>2, <2>3, SettledAppended DEF Enqueue
  <2>5. State(Of(job))' = "queued"
    BY <1>1, <1>5, <2>1, Appended DEF Enqueue
  <2>6. entries'[job] = NULL
    BY <1>5 DEF Enqueue, Jobs, Of
  <2> QED
    BY <2>2, <2>4, <2>5, <2>6 DEF CallIsNext, State, Before
<1>6. ASSUME NEW job \in Jobs, NEW action \in Actions, Control(job, action)
      PROVE  CallIsNext'
  <2>1. /\ LeadsTo[action] \in States /\ Controlled(job, action) \in ReceiptKeys
        /\ Of(job) \in Experiments /\ LeadsTo[action] \in Statuses
        /\ AllowedFrom[action] \subseteq Queued
    BY TableTypes, KeyTypes
  <2>2. call' = [job |-> job, status |-> LeadsTo[action]]
    BY <1>6 DEF Control
  <2>3. call' # NULL
    BY <2>1, <2>2, NullAssumption DEF Calls
  <2>4. /\ entries[job] \in AllowedFrom[action] /\ entries[job] # NULL
        /\ call = NULL /\ UNCHANGED <<entries, apart>>
    BY <1>6, <2>1, NullAssumption DEF Control, Accepted, Statuses
  <2>5. Exists(Of(job))
    BY <2>4 DEF RInv, Inv, NoEarlyJobs
  <2>6. /\ Before(Of(job))' = State(Of(job)) /\ Len(records'[Of(job)]) > 1
    BY <1>1, <1>6, <2>1, <2>2, <2>3, <2>5, SettledAppended DEF Control
  <2>7. State(Of(job))' = LeadsTo[action]
    BY <1>1, <1>6, <2>1, Appended DEF Control
  <2>8. Of(job) \in apart \/ State(Of(job)) = entries[job]
    BY <2>1, <2>4, AgreedStatus DEF RInv
  <2> QED
    BY <2>2, <2>4, <2>6, <2>7, <2>8 DEF CallIsNext
<1>7. CASE WriteEntry
  BY <1>7 DEF WriteEntry, CallIsNext
<1>8. CASE Crash
  BY <1>8 DEF Crash, CallIsNext
<1>9. CASE UNCHANGED vars
  BY <1>9 DEF vars, RInv, CallIsNext, State, Before
<1> QED
  BY <1>2, <1>3, <1>4, <1>5, <1>6, <1>7, <1>8, <1>9 DEF Next

THEOREM CallsAreNext == Spec => []RInv
<1>1. Init => RInv
  BY Initially DEF Init, RInv, CallIsNext
<1>2. RInv /\ [Next]_vars => RInv'
  BY NextStep, CallIsNextStep DEF RInv
<1> QED
  BY <1>1, <1>2, PTL DEF Spec

-----------------------------------------------------------------------------
(* One lemma for each action, as a step of the ledger.                     *)

\* Nothing a user is promised moves.
LEMMA LedgerStutters ==
    ASSUME \A e \in Experiments : Settled(e)' = Settled(e),
           UNCHANGED <<entries, apart>>
    PROVE  UNCHANGED Ledger!ledger
BY DEF Ledger!ledger

LEMMA SettledUnchanged ==
    ASSUME UNCHANGED <<records, call>>
    PROVE  \A e \in Experiments : Settled(e)' = Settled(e)
BY DEF Settled, Busy, Exists

\* The function that the ledger keeps, when one experiment has moved.
LEMMA LedgerMoves ==
    ASSUME NEW e \in Experiments, NEW s, Settled(e)' = s,
           \A f \in Experiments \ {e} : Settled(f)' = Settled(f)
    PROVE  [f \in Experiments |-> Settled(f)]'
             = [[f \in Experiments |-> Settled(f)] EXCEPT ![e] = s]
OBVIOUS

LEMMA CreateMoves ==
    ASSUME RInv, NEW e \in Experiments, Create(e)
    PROVE  Ledger!Next
<1>1. /\ TypeOK /\ "draft" \in States /\ Requested(1) \in ReceiptKeys
      /\ call = NULL /\ call' = NULL /\ ~Exists(e)
  BY AllStates, KeyTypes DEF RInv, Inv, Create
<1>2. /\ Settled(e)' = "draft"
      /\ \A f \in Experiments \ {e} : Settled(f)' = Settled(f)
  BY <1>1, SettledElsewhere DEF Create
<1>3. Settled(e) = NULL
  BY <1>1, SettledAlone DEF Busy
<1>4. Ledger!Create(e)
  BY <1>2, <1>3, LedgerMoves DEF Create, Ledger!Create
<1> QED
  BY <1>4 DEF Ledger!Next

LEMMA TransitionMoves ==
    ASSUME RInv, NEW c \in Clients, NEW e \in Experiments, NEW s \in States,
           Transition(c, e, s)
    PROVE  Ledger!Next
<1>1. /\ TypeOK /\ Requested(Len(records[e]) + 1) \in ReceiptKeys
      /\ call = NULL /\ call' = NULL /\ Exists(e)
      /\ s \in TRANSITIONS[State(e)] /\ UNCHANGED entries
  BY KeyTypes, StateType DEF RInv, Inv, Transition
<1>2. /\ Settled(e)' = s
      /\ \A f \in Experiments \ {e} : Settled(f)' = Settled(f)
  BY <1>1, SettledElsewhere DEF Transition
<1>3. Settled(e) = State(e)
  BY <1>1, SettledAlone DEF Busy
<1>4. State(e) # NULL
  BY <1>1, StateType, NullAssumption
<1>5. CASE {State(e), s} \cap Queued = {}
  <2>1. UNCHANGED apart
    BY <1>5 DEF Transition
  <2>2. Ledger!Move(e, s)
    BY <1>1, <1>2, <1>3, <1>4, <1>5, <2>1, LedgerMoves DEF Ledger!Move
  <2> QED
    BY <2>2 DEF Ledger!Next, States
<1>6. CASE {State(e), s} \cap Queued # {}
  <2>1. apart' = apart \cup {e}
    BY <1>6 DEF Transition, Depart
  <2>2. Ledger!Tear(e, s)
    BY <1>1, <1>2, <1>3, <1>4, <2>1, LedgerMoves DEF Ledger!Tear
  <2> QED
    BY <2>2 DEF Ledger!Next, States
<1> QED
  BY <1>5, <1>6

\* An admission and an action announce a move, which takes effect later.
LEMMA CallMoves ==
    ASSUME RInv,
           \/ \E c \in Clients, job \in Jobs : Enqueue(c, job)
           \/ \E job \in Jobs, action \in Actions : Control(job, action)
    PROVE  UNCHANGED Ledger!ledger
<1>1. TypeOK
  BY DEF RInv, Inv
<1>2. ASSUME NEW c \in Clients, NEW job \in Jobs, Enqueue(c, job)
      PROVE  UNCHANGED Ledger!ledger
  <2>1. /\ "queued" \in States /\ Admission(job) \in ReceiptKeys
        /\ call' = [job |-> job, status |-> "queued"]
    BY <1>2, AllStates, KeyTypes DEF Enqueue
  <2>2. call' # NULL
    BY <2>1, NullAssumption DEF Calls, Statuses, Queued
  <2> QED
    BY <1>1, <1>2, <2>1, <2>2, SettledAppended, LedgerStutters DEF Enqueue
<1>3. ASSUME NEW job \in Jobs, NEW action \in Actions, Control(job, action)
      PROVE  UNCHANGED Ledger!ledger
  <2>1. /\ LeadsTo[action] \in States /\ Controlled(job, action) \in ReceiptKeys
        /\ LeadsTo[action] \in Statuses /\ AllowedFrom[action] \subseteq Queued
        /\ call' = [job |-> job, status |-> LeadsTo[action]]
    BY <1>3, TableTypes, KeyTypes DEF Control
  <2>2. call' # NULL
    BY <2>1, NullAssumption DEF Calls
  <2>3. entries[job] # NULL
    BY <1>3, <2>1, NullAssumption DEF Control, Accepted, Statuses
  <2>4. Exists(Of(job))
    BY <2>3 DEF RInv, Inv, NoEarlyJobs
  <2> QED
    BY <1>1, <1>3, <2>1, <2>2, <2>4, SettledAppended, LedgerStutters DEF Control
<1> QED
  BY <1>2, <1>3

\* What the end of a call, by its entry or by a crash, does to what counts.
LEMMA CallEnds ==
    ASSUME RInv, call # NULL, call' = NULL, UNCHANGED records,
           NEW e \in Experiments, e = Of(call.job)
    PROVE  /\ call.job \in Jobs /\ call.status \in Statuses
           /\ Settled(e) = Before(e) /\ Settled(e) \in States
           /\ Settled(e)' = call.status
           /\ \A f \in Experiments \ {e} : Settled(f)' = Settled(f)
<1>1. /\ TypeOK /\ call \in Calls
      /\ call.job \in Jobs /\ call.status \in Statuses
  BY KeyTypes DEF RInv, Inv, TypeOK, Calls
<1>2. /\ Len(records[e]) > 1 /\ State(e) = call.status
  BY DEF RInv, CallIsNext
<1>3. /\ records[e] \in Seq(Receipts) /\ Len(records[e]) \in Nat
  BY <1>1 DEF TypeOK
<1>4. Exists(e) /\ Exists(e)'
  BY <1>2, <1>3 DEF Exists
<1>5. /\ Busy(e) /\ ~Busy(e)'
      /\ \A f \in Experiments \ {e} : ~Busy(f) /\ ~Busy(f)'
  BY DEF Busy
<1>6. Settled(e) = Before(e)
  BY <1>4, <1>5 DEF Settled, Before
<1>7. Len(records[e]) - 1 \in DOMAIN records[e]
  BY <1>2, <1>3
<1>8. records[e][Len(records[e]) - 1] \in Receipts
  BY <1>3, <1>7
<1>9. Before(e) \in States
  BY <1>8 DEF Before, Receipts
<1>10. Len(records[e]) - 0 = Len(records[e])
  BY <1>3
<1>11. Settled(e)' = State(e)
  BY <1>4, <1>5, <1>10 DEF Settled, State
<1>12. \A f \in Experiments \ {e} : Settled(f)' = Settled(f)
  BY <1>5 DEF Settled, Exists
<1> QED
  BY <1>1, <1>2, <1>6, <1>9, <1>11, <1>12

\* Experiment and job move when the entry is written.
LEMMA WriteEntryMoves ==
    ASSUME RInv, WriteEntry
    PROVE  Ledger!Next
<1>0. PICK e \in Experiments : e = Of(call.job)
  BY KeyTypes DEF WriteEntry, RInv, Inv, TypeOK, Calls
<1>1. /\ call # NULL /\ call' = NULL /\ UNCHANGED <<records, apart>>
      /\ entries' = [entries EXCEPT ![call.job] = call.status]
  BY DEF WriteEntry
<1>2. /\ call.job \in Jobs
      /\ Settled(e) = Before(e)
      /\ Settled(e)' = call.status
      /\ \A f \in Experiments \ {e} : Settled(f)' = Settled(f)
  BY <1>0, <1>1, CallEnds
<1>3. Ledger!Both(call.job, call.status)
  BY <1>0, <1>1, <1>2, LedgerMoves DEF Ledger!Both, Of
<1>4. CASE /\ call.status = "queued"
           /\ entries[call.job] = NULL
           /\ Before(e) = "ready"
  <2>1. ASSUME NEW p \in Jobs, p[1] = call.job[1] \/ p[2] = call.job[2]
        PROVE  entries[p] = NULL
    BY <1>1, <1>4, <2>1 DEF RInv, Inv, CallUnambiguous
  <2>2. Ledger!Admit(call.job)
    BY <1>0, <1>2, <1>3, <1>4, <2>1 DEF Ledger!Admit, Of, Jobs
  <2> QED
    BY <1>2, <2>2 DEF Ledger!Next, Jobs
<1>5. CASE \E a \in Actions :
             /\ entries[call.job] \in AllowedFrom[a]
             /\ call.status = LeadsTo[a]
             /\ e \in apart \/ Before(e) = entries[call.job]
  <2>1. PICK a \in Actions :
             /\ entries[call.job] \in AllowedFrom[a]
             /\ call.status = LeadsTo[a]
             /\ e \in apart \/ Before(e) = entries[call.job]
    BY <1>5
  <2>2. Ledger!Act(call.job, a)
    BY <1>0, <1>2, <1>3, <2>1 DEF Ledger!Act, Of
  <2> QED
    BY <1>2, <2>2 DEF Ledger!Next, Jobs
<1> QED
  BY <1>0, <1>1, <1>4, <1>5 DEF RInv, CallIsNext

\* A crash before the entry sets the experiment apart from its job.
LEMMA CrashMoves ==
    ASSUME RInv, Crash
    PROVE  Ledger!Next
<1>0. PICK e \in Experiments : e = Of(call.job)
  BY KeyTypes DEF Crash, RInv, Inv, TypeOK, Calls
<1>1. /\ call # NULL /\ call' = NULL /\ UNCHANGED <<records, entries>>
      /\ apart' = apart \cup {e}
  BY <1>0 DEF Crash, Depart
<1>2. /\ call.status \in Statuses
      /\ Settled(e) = Before(e) /\ Settled(e) \in States
      /\ Settled(e)' = call.status
      /\ \A f \in Experiments \ {e} : Settled(f)' = Settled(f)
  BY <1>0, <1>1, CallEnds
<1>3. call.status \in States /\ Settled(e) # NULL
  BY <1>2, TableTypes, NullAssumption
<1>4. e \in apart \/ call.status \in TRANSITIONS[Settled(e)]
  <2>1. \/ call.status = "queued" /\ Before(e) = "ready"
        \/ \E a \in Actions :
             /\ entries[call.job] \in AllowedFrom[a]
             /\ call.status = LeadsTo[a]
             /\ e \in apart \/ Before(e) = entries[call.job]
    BY <1>0, <1>1 DEF RInv, CallIsNext
  <2>2. "queued" \in TRANSITIONS["ready"]
    BY DEF TRANSITIONS
  <2> QED
    BY <1>2, <2>1, <2>2, ActionsFollowTable
<1>5. Ledger!Tear(e, call.status)
  BY <1>1, <1>2, <1>3, <1>4, LedgerMoves DEF Ledger!Tear
<1> QED
  BY <1>2, <1>3, <1>5 DEF Ledger!Next, States

LEMMA NextMoves == RInv /\ [Next]_vars => [Ledger!Next]_Ledger!ledger
<1> SUFFICES ASSUME RInv, [Next]_vars PROVE Ledger!Next \/ UNCHANGED Ledger!ledger
  OBVIOUS
<1>1. ASSUME NEW e \in Experiments, Create(e) PROVE Ledger!Next
  BY <1>1, CreateMoves
<1>2. ASSUME NEW c \in Clients, NEW e \in Experiments, Read(c, e)
      PROVE  UNCHANGED Ledger!ledger
  BY <1>2, SettledUnchanged, LedgerStutters DEF Read
<1>3. ASSUME NEW c \in Clients, NEW e \in Experiments, NEW s \in States,
             Transition(c, e, s)
      PROVE  Ledger!Next
  BY <1>3, TransitionMoves
<1>4. ASSUME \/ \E c \in Clients, job \in Jobs : Enqueue(c, job)
             \/ \E job \in Jobs, action \in Actions : Control(job, action)
      PROVE  UNCHANGED Ledger!ledger
  BY <1>4, CallMoves
<1>5. CASE WriteEntry
  BY <1>5, WriteEntryMoves
<1>6. CASE Crash
  BY <1>6, CrashMoves
<1>7. CASE UNCHANGED vars
  BY <1>7, SettledUnchanged, LedgerStutters DEF vars
<1> QED
  BY <1>1, <1>2, <1>3, <1>4, <1>5, <1>6, <1>7 DEF Next

LEMMA InitiallyLedger == Init => Ledger!Init
<1> SUFFICES ASSUME Init PROVE Ledger!Init
  OBVIOUS
<1>1. \A e \in Experiments : Settled(e) = NULL
  BY DEF Init, Settled, Exists
<1> QED
  BY <1>1 DEF Init, Ledger!Init, Jobs

\* To its users the store is a ledger in which experiment and job move in one
\* step, although they are two files: only an experiment that was set apart from
\* its job, by a death between the files or past the queue, moves otherwise.
THEOREM LedgerImplemented == Spec => ImplementsLedger
BY InitiallyLedger, NextMoves, CallsAreNext, PTL
   DEF Spec, ImplementsLedger, Ledger!Spec
=============================================================================
