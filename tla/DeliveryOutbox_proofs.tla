------------------------ MODULE DeliveryOutbox_proofs ------------------------
(***************************************************************************)
(* Proofs about the delivery outboxes, for every set of events and of      *)
(* workers, every number of attempts and every number of faults.           *)
(***************************************************************************)
EXTENDS DeliveryOutbox, TLAPS

-----------------------------------------------------------------------------
(* Rows *)

\* The three rows of an event are told apart, from one another and from those
\* of other events.
LEMMA RowsApart ==
    ASSUME NEW e \in Events, NEW f \in Events
    PROVE  /\ Job(e) \in Jobs /\ Direct(e) \in Messages /\ Derived(e) \in Messages
           /\ Job(e) # Direct(f) /\ Job(e) # Derived(f) /\ Direct(e) # Derived(f)
           /\ Job(e) = Job(f) => e = f
           /\ Derived(e) = Derived(f) => e = f
    BY DEF Jobs, Messages, Job, Direct, Derived

LEMMA JobsAndMessages == Jobs \cap Messages = {} /\ Rows = Jobs \cup Messages
    BY DEF Rows, Jobs, Messages, Job, Direct, Derived

LEMMA NoRowIsNone == NoRow \notin Rows
<1>1. \A e \in Events : Job(e)[2] = "effects" /\ DOMAIN Job(e) = 1..2
    BY DEF Job
<1>2. \A e \in Events : DOMAIN Direct(e) = 1..2 /\ DOMAIN Derived(e) = 1..2
    BY DEF Direct, Derived
<1>3. DOMAIN NoRow = {}
    BY DEF NoRow
<1>4. 1..2 # {}
    OBVIOUS
<1> QED
    BY <1>1, <1>2, <1>3, <1>4 DEF Rows, Jobs, Messages

-----------------------------------------------------------------------------
(* Type correctness *)

LEMMA TypeInit == Init => TypeOK
<1>1. AbsentRow \in RowRecords
    BY DEF AbsentRow, RowRecords
<1>2. Idle \in WorkerRecords
    BY DEF Idle, WorkerRecords
<1> QED
    BY <1>1, <1>2, FaultsAssumption DEF Init, TypeOK, Idle

\* What a worker is at, and what is written when it lets go of it.
LEMMA RowAtHand ==
    ASSUME TypeOK, NEW w \in Workers, worker[w].step # "idle"
    PROVE  worker[w].row \in Rows
    BY DEF TypeOK, WorkerRecords

LEMMA AtRow ==
    ASSUME TypeOK, NEW w \in Workers, worker[w].step # "idle"
    PROVE  /\ worker[w].row \in Rows
           /\ outbox[worker[w].row] \in RowRecords
           /\ \A status \in Settled \cup Unsettled :
                 /\ Released(w, status) \in RowRecords
                 /\ Released(w, status).status = status
                 /\ Released(w, status).owner = NoWorker
                 /\ Released(w, status).lease = "free"
                 /\ Released(w, status).due = outbox[worker[w].row].due
                 /\ Released(w, status).attempts = outbox[worker[w].row].attempts
<1>1. worker[w].row \in Rows
    BY DEF TypeOK, WorkerRecords
<1>2. outbox[worker[w].row] \in RowRecords
    BY <1>1 DEF TypeOK
<1> QED
    BY <1>1, <1>2 DEF Released, RowRecords

\* The outcomes of the workers, row by row.
LEMMA SentRow ==
    ASSUME TypeOK, NEW w \in Workers, NotificationSent(w)
    PROVE  LET r == worker[w].row IN
           /\ r \in Messages /\ Holds(w)
           /\ outbox' = [outbox EXCEPT ![r] = Released(w, "SENT")]
           /\ outbox'[r] \in RowRecords
           /\ outbox'[r].status = "SENT"
           /\ outbox'[r].lease = "free" /\ outbox'[r].owner = NoWorker
           /\ outbox'[r].attempts = outbox[r].attempts
           /\ \A q \in Rows : q # r => outbox'[q] = outbox[q]
    BY AtRow DEF NotificationSent, Settled, TypeOK

\* A row that waits for its next attempt.
LEMMA DelayedRow ==
    ASSUME NEW status \in Settled \cup Unsettled, NEW attempts \in Nat
    PROVE  LET row == Delayed(status, attempts) IN
           /\ row \in RowRecords
           /\ row.status = status /\ row.owner = NoWorker /\ row.lease = "free"
           /\ row.attempts = attempts
    BY DEF Delayed, RowRecords

LEMMA NotificationRetriedRow ==
    ASSUME TypeOK, NEW w \in Workers, NotificationRetried(w)
    PROVE  LET r == worker[w].row IN
           /\ r \in Messages /\ Holds(w)
           /\ outbox' \in [Rows -> RowRecords]
           /\ outbox'[r].status = IF worker[w].attempts + 1 >= MaxAttempts
                                  THEN "DEAD_LETTER" ELSE "RETRY_WAIT"
           /\ outbox'[r].lease = "free" /\ outbox'[r].owner = NoWorker
           /\ outbox'[r].attempts = outbox[r].attempts + 1
           /\ \A q \in Rows : q # r => outbox'[q] = outbox[q]
<1> DEFINE r == worker[w].row
           status == IF worker[w].attempts + 1 >= MaxAttempts
                     THEN "DEAD_LETTER" ELSE "RETRY_WAIT"
           row == Delayed(status, outbox[r].attempts + 1)
<1>1. r \in Rows /\ outbox[r] \in RowRecords
    BY AtRow DEF NotificationRetried
<1>2. r \in Messages /\ Holds(w) /\ outbox' = [outbox EXCEPT ![r] = row]
    BY <1>1 DEF NotificationRetried, TypeOK
<1>3. status \in Settled \cup Unsettled /\ outbox[r].attempts + 1 \in Nat
    BY <1>1 DEF Settled, Unsettled, RowRecords
<1>4. /\ row \in RowRecords /\ row.status = status
      /\ row.owner = NoWorker /\ row.lease = "free"
      /\ row.attempts = outbox[r].attempts + 1
    BY <1>3, DelayedRow
<1>5. outbox'[r] = row /\ \A q \in Rows : q # r => outbox'[q] = outbox[q]
    BY <1>1, <1>2 DEF TypeOK
<1>6. outbox' \in [Rows -> RowRecords]
    BY <1>1, <1>2, <1>4 DEF TypeOK
<1> QED
    BY <1>2, <1>4, <1>5, <1>6

LEMMA EffectsRetriedRow ==
    ASSUME TypeOK, NEW w \in Workers, EffectsRetried(w)
    PROVE  LET r == worker[w].row IN
           /\ r \in Jobs /\ Holds(w)
           /\ outbox' \in [Rows -> RowRecords]
           /\ outbox'[r].status = "RETRY_WAIT"
           /\ outbox'[r].lease = "free" /\ outbox'[r].owner = NoWorker
           /\ \A q \in Rows : q # r => outbox'[q] = outbox[q]
<1> DEFINE r == worker[w].row
           row == Delayed("RETRY_WAIT", outbox[r].attempts)
<1>1. r \in Rows /\ outbox[r] \in RowRecords
    BY AtRow DEF EffectsRetried
<1>2. r \in Jobs /\ Holds(w) /\ outbox' = [outbox EXCEPT ![r] = row]
    BY <1>1 DEF EffectsRetried, TypeOK
<1>3. outbox[r].attempts \in Nat
    BY <1>1 DEF RowRecords
<1>4. /\ row \in RowRecords /\ row.status = "RETRY_WAIT"
      /\ row.owner = NoWorker /\ row.lease = "free"
    BY <1>3, DelayedRow DEF Unsettled
<1>5. outbox'[r] = row /\ \A q \in Rows : q # r => outbox'[q] = outbox[q]
    BY <1>1, <1>2 DEF TypeOK
<1>6. outbox' \in [Rows -> RowRecords]
    BY <1>1, <1>2, <1>4 DEF TypeOK
<1> QED
    BY <1>2, <1>4, <1>5, <1>6

LEMMA EffectsCompletedRows ==
    ASSUME TypeOK, NEW w \in Workers, NEW e \in Events, NEW heard \in BOOLEAN,
           EffectsCompleted(w, e, heard)
    PROVE  /\ worker[w].row = Job(e) /\ Holds(w)
           /\ outbox' \in [Rows -> RowRecords]
           /\ outbox'[Job(e)].status = "COMPLETED" /\ outbox'[Job(e)].lease = "free"
           /\ outbox'[Job(e)].owner = NoWorker
           /\ outbox'[Derived(e)] = IF e \in Notified /\ outbox[Derived(e)].status = "ABSENT"
                                    THEN PendingRow ELSE outbox[Derived(e)]
           /\ \A q \in Rows \ {Job(e), Derived(e)} : outbox'[q] = outbox[q]
<1>1. /\ worker[w].row = Job(e) /\ Holds(w)
      /\ outbox' = [outbox EXCEPT
                       ![Job(e)] = Released(w, "COMPLETED"),
                       ![Derived(e)] = IF e \in Notified /\ @.status = "ABSENT"
                                       THEN PendingRow ELSE @]
    BY DEF EffectsCompleted
<1>2. Job(e) \in Rows /\ Derived(e) \in Rows /\ Job(e) # Derived(e)
    BY RowsApart, JobsAndMessages
<1>3. /\ Released(w, "COMPLETED") \in RowRecords
      /\ Released(w, "COMPLETED").status = "COMPLETED"
      /\ Released(w, "COMPLETED").owner = NoWorker
      /\ Released(w, "COMPLETED").lease = "free"
    BY AtRow DEF EffectsCompleted, Settled
<1>4. PendingRow \in RowRecords
    BY DEF PendingRow, AbsentRow, RowRecords, Unsettled
<1>5. /\ outbox'[Job(e)] = Released(w, "COMPLETED")
      /\ outbox'[Derived(e)] = IF e \in Notified /\ outbox[Derived(e)].status = "ABSENT"
                               THEN PendingRow ELSE outbox[Derived(e)]
      /\ \A q \in Rows \ {Job(e), Derived(e)} : outbox'[q] = outbox[q]
    BY <1>1, <1>2 DEF TypeOK
<1>6. outbox' \in [Rows -> RowRecords]
    <2>1. DOMAIN outbox' = Rows /\ outbox' = [q \in Rows |-> outbox'[q]]
        BY <1>1 DEF TypeOK
    <2>2. \A q \in Rows : outbox'[q] \in RowRecords
        BY <1>3, <1>4, <1>5 DEF TypeOK
    <2> QED
        BY <2>1, <2>2
<1> QED
    BY <1>1, <1>3, <1>5, <1>6

LEMMA ClaimedRow ==
    ASSUME TypeOK, NEW w \in Workers, NEW r \in Rows, Claimed(w, r)
    PROVE  /\ outbox[r].status \in Unsettled
           /\ outbox' \in [Rows -> RowRecords]
           /\ outbox'[r].status = "PROCESSING" /\ outbox'[r].owner = w
           /\ outbox'[r].attempts = outbox[r].attempts
           /\ \A q \in Rows : q # r => outbox'[q] = outbox[q]
<1> DEFINE row == [outbox[r] EXCEPT !.status = "PROCESSING", !.owner = w, !.lease = "live"]
<1>1. outbox' = [outbox EXCEPT ![r] = row]
    BY DEF Claimed, TypeOK
<1>2. outbox[r] \in RowRecords
    BY DEF TypeOK
<1>3. /\ row \in RowRecords /\ row.status = "PROCESSING" /\ row.owner = w
      /\ row.attempts = outbox[r].attempts
    BY <1>2 DEF RowRecords, Unsettled
<1>4. outbox'[r] = row /\ \A q \in Rows : q # r => outbox'[q] = outbox[q]
    BY <1>1 DEF TypeOK
<1>5. outbox' \in [Rows -> RowRecords]
    BY <1>1, <1>3 DEF TypeOK
<1>6. outbox[r].status \in Unsettled
    BY DEF Claimed, Claimable
<1> QED
    BY <1>3, <1>4, <1>5, <1>6

LEMMA ClaimedWorker ==
    ASSUME TypeOK, NEW w \in Workers, NEW r \in Rows, Claimed(w, r)
    PROVE  /\ worker'[w] = [step |-> "claimed", row |-> r, attempts |-> outbox[r].attempts]
           /\ worker'[w].row = r /\ worker'[w].attempts = outbox[r].attempts
           /\ worker'[w].step = "claimed"
           /\ \A v \in Workers : v # w => worker'[v] = worker[v]
<1>1. worker' = [worker EXCEPT ![w] = [step |-> "claimed", row |-> r,
                                       attempts |-> outbox[r].attempts]]
    BY DEF Claimed
<1>2. /\ worker'[w] = [step |-> "claimed", row |-> r, attempts |-> outbox[r].attempts]
      /\ \A v \in Workers : v # w => worker'[v] = worker[v]
    BY <1>1 DEF TypeOK
<1> QED
    BY <1>2

LEMMA TimeRow ==
    ASSUME TypeOK, NEW r \in Rows,
           LeaseExpires(r) \/ LeaseOutlived(r) \/ RetryFallsDue(r)
    PROVE  /\ outbox' \in [Rows -> RowRecords]
           /\ outbox'[r].status = outbox[r].status /\ outbox'[r].owner = outbox[r].owner
           /\ outbox'[r].attempts = outbox[r].attempts
           /\ outbox[r].lease = "live" \/ outbox'[r].lease = outbox[r].lease
           /\ outbox[r].lease = "live" \/ outbox[r].status \in Unsettled
           /\ \A q \in Rows : q # r => outbox'[q] = outbox[q]
<1>1. outbox[r] \in RowRecords
    BY DEF TypeOK
<1>2. CASE outbox[r].lease = "live" /\ outbox' = [outbox EXCEPT ![r].lease = "expired"]
    BY <1>1, <1>2 DEF TypeOK, RowRecords
<1>3. CASE outbox[r].status \in Unsettled /\ outbox' = [outbox EXCEPT ![r].due = TRUE]
    <2>1. [outbox[r] EXCEPT !.due = TRUE] \in RowRecords
        BY <1>1 DEF RowRecords
    <2>2. outbox' = [outbox EXCEPT ![r] = [outbox[r] EXCEPT !.due = TRUE]]
        BY <1>3 DEF TypeOK
    <2> QED
        BY <1>1, <1>3, <2>1, <2>2 DEF TypeOK, RowRecords
<1> QED
    BY <1>2, <1>3 DEF LeaseExpires, LeaseOutlived, RetryFallsDue

LEMMA AppliedRows ==
    ASSUME TypeOK, NEW e \in Events, NEW written \in SUBSET {Job(e), Direct(e)},
           EventApplied(e, written)
    PROVE  /\ outbox' \in [Rows -> RowRecords]
           /\ PendingRow.status = "PENDING" /\ PendingRow.owner = NoWorker
           /\ PendingRow.lease = "free" /\ PendingRow.attempts = 0
           /\ \A q \in Rows :
                 \/ outbox'[q] = outbox[q]
                 \/ /\ q \in {Job(e), Direct(e)} /\ outbox[q].status = "ABSENT"
                    /\ outbox'[q] = PendingRow
<1>1. /\ PendingRow \in RowRecords
      /\ PendingRow.status = "PENDING" /\ PendingRow.owner = NoWorker
      /\ PendingRow.lease = "free" /\ PendingRow.attempts = 0
    BY DEF PendingRow, AbsentRow, RowRecords, Unsettled
<1>2. outbox' = [q \in Rows |-> IF q \in written THEN PendingRow ELSE outbox[q]]
    BY DEF EventApplied
<1>3. \A q \in written : outbox[q].status = "ABSENT"
    BY DEF EventApplied
<1> QED
    BY <1>1, <1>2, <1>3 DEF TypeOK

\* The workers, when one of them moves on to another step or is done.
WorkersTyped ==
    /\ worker \in [Workers -> WorkerRecords]
    /\ \A w \in Workers : worker[w].row = NoRow <=> worker[w].step = "idle"

LEMMA StepTyping ==
    ASSUME TypeOK, NEW w \in Workers, worker[w].step # "idle",
           NEW step \in {"claimed", "ok", "failed"},
           worker' = [worker EXCEPT ![w].step = step]
    PROVE  /\ WorkersTyped'
           /\ worker'[w].step = step /\ worker'[w].row = worker[w].row
           /\ worker'[w].attempts = worker[w].attempts
           /\ \A v \in Workers : v # w => worker'[v] = worker[v]
<1> DEFINE moved == [worker[w] EXCEPT !.step = step]
<1>1. worker[w] \in WorkerRecords /\ worker[w].row # NoRow
    BY DEF TypeOK
<1>2. /\ moved \in WorkerRecords /\ moved.step = step
      /\ moved.row = worker[w].row /\ moved.attempts = worker[w].attempts
    BY <1>1 DEF WorkerRecords
<1>3. worker' = [worker EXCEPT ![w] = moved]
    BY DEF TypeOK
<1> HIDE DEF moved
<1> QED
    BY <1>1, <1>2, <1>3 DEF WorkersTyped, TypeOK

LEMMA RestTyping ==
    ASSUME TypeOK, NEW w \in Workers, Rests(w)
    PROVE  /\ WorkersTyped'
           /\ worker'[w].step = "idle"
           /\ \A v \in Workers : v # w => worker'[v] = worker[v]
<1>1. Idle \in WorkerRecords /\ Idle.step = "idle" /\ Idle.row = NoRow
    BY DEF Idle, WorkerRecords
<1>2. worker' = [worker EXCEPT ![w] = Idle]
    BY DEF Rests
<1> QED
    BY <1>1, <1>2 DEF WorkersTyped, TypeOK

LEMMA CompletionTyping ==
    ASSUME TypeOK, NEW w \in Workers, NEW e \in Events, NEW heard \in BOOLEAN,
           EffectsCompleted(w, e, heard)
    PROVE  /\ WorkersTyped'
           /\ worker'[w].step \in {"idle", "failed"}
           /\ \A v \in Workers : v # w => worker'[v] = worker[v]
<1>1. CASE heard
    BY <1>1, RestTyping DEF EffectsCompleted, Rests
<1>2. CASE ~heard
    <2>1. worker' = [worker EXCEPT ![w].step = "failed"] /\ worker[w].step # "idle"
        BY <1>2 DEF EffectsCompleted, TypeOK
    <2> QED
        BY <2>1, StepTyping
<1> QED
    BY <1>1, <1>2

LEMMA TypeStep == TypeOK /\ [Next]_vars => TypeOK'
<1> SUFFICES ASSUME TypeOK, [Next]_vars PROVE TypeOK'
    OBVIOUS
<1>1. CASE \E e \in Events, written \in SUBSET Rows :
               /\ written \in (SUBSET {Job(e), Direct(e)}) \ {{}}
               /\ EventApplied(e, written)
    <2>1. PICK e \in Events, written \in SUBSET Rows :
                   /\ written \in SUBSET {Job(e), Direct(e)}
                   /\ EventApplied(e, written)
        BY <1>1
    <2> QED
        BY <2>1, AppliedRows DEF EventApplied, TypeOK
<1>2. CASE \E w \in Workers, r \in Rows : Claimed(w, r)
    <2>1. PICK w \in Workers, r \in Rows : Claimed(w, r)
        BY <1>2
    <2>2. outbox' \in [Rows -> RowRecords] /\ outbox[r].attempts \in Nat
        BY <2>1, ClaimedRow DEF TypeOK, RowRecords
    <2>3. [step |-> "claimed", row |-> r, attempts |-> outbox[r].attempts] \in WorkerRecords
        BY <2>2 DEF WorkerRecords
    <2> QED
        BY <2>1, <2>2, <2>3, NoRowIsNone DEF Claimed, TypeOK
<1>3. CASE \E w \in Workers : Dispatch(w)
    <2>1. PICK w \in Workers : Dispatch(w)
        BY <1>3
    <2>2. CASE \E taken \in BOOLEAN, answer \in {"ok", "failed"} : Published(w, taken, answer)
        <3>1. PICK taken \in BOOLEAN, answer \in {"ok", "failed"} : Published(w, taken, answer)
            BY <2>2
        <3>2. WorkersTyped'
            BY <3>1, StepTyping DEF Published
        <3> QED
            BY <3>1, <3>2 DEF Published, TypeOK, WorkersTyped
    <2>3. CASE NotificationSent(w)
        BY <2>3, SentRow, AtRow, RestTyping
        DEF NotificationSent, Settled, TypeOK, WorkersTyped
    <2>4. CASE NotificationRetried(w)
        BY <2>4, NotificationRetriedRow, RestTyping
        DEF NotificationRetried, TypeOK, WorkersTyped
    <2>5. CASE \E answer \in {"ok", "failed"} : EffectsBuilt(w, answer)
        <3>1. PICK answer \in {"ok", "failed"} : EffectsBuilt(w, answer)
            BY <2>5
        <3>2. WorkersTyped'
            BY <3>1, StepTyping DEF EffectsBuilt
        <3> QED
            BY <3>1, <3>2 DEF EffectsBuilt, TypeOK, WorkersTyped
    <2>6. CASE \E e \in Events, heard \in BOOLEAN : EffectsCompleted(w, e, heard)
        <3>1. PICK e \in Events, heard \in BOOLEAN : EffectsCompleted(w, e, heard)
            BY <2>6
        <3>2. WorkersTyped'
            BY <3>1, CompletionTyping
        <3> QED
            BY <3>1, <3>2, EffectsCompletedRows DEF EffectsCompleted, TypeOK, WorkersTyped
    <2>7. CASE EffectsFailed(w)
        <3>1. WorkersTyped'
            BY <2>7, StepTyping DEF EffectsFailed
        <3> QED
            BY <2>7, <3>1 DEF EffectsFailed, TypeOK, WorkersTyped
    <2>8. CASE EffectsRetried(w)
        BY <2>8, EffectsRetriedRow, RestTyping DEF EffectsRetried, TypeOK, WorkersTyped
    <2>9. CASE Conflicted(w)
        BY <2>9, RestTyping DEF Conflicted, TypeOK, WorkersTyped
    <2> QED
        BY <2>1, <2>2, <2>3, <2>4, <2>5, <2>6, <2>7, <2>8, <2>9 DEF Dispatch
<1>4. CASE \E w \in Workers : Abandoned(w)
    <2>1. PICK w \in Workers : Abandoned(w)
        BY <1>4
    <2>2. WorkersTyped' /\ faults' \in Nat
        BY <2>1, RestTyping DEF Abandoned, TypeOK
    <2> QED
        BY <2>1, <2>2 DEF Abandoned, TypeOK, WorkersTyped
<1>5. CASE \E r \in Rows : LeaseExpires(r) \/ LeaseOutlived(r) \/ RetryFallsDue(r)
    <2>1. outbox' \in [Rows -> RowRecords]
        BY <1>5, TimeRow
    <2> QED
        BY <1>5, <2>1 DEF LeaseExpires, LeaseOutlived, RetryFallsDue, TypeOK
<1>6. CASE UNCHANGED vars
    BY <1>6 DEF vars, TypeOK
<1> QED
    BY <1>1, <1>2, <1>3, <1>4, <1>5, <1>6 DEF Next

\* Rows and workers keep their shape.
THEOREM Typing == Spec => []TypeOK
    BY TypeInit, TypeStep, PTL DEF Spec

-----------------------------------------------------------------------------
(* What the lease is worth *)

\* Only a row that is being processed has a lease.
LeasedWhileProcessing ==
    \A r \in Rows : outbox[r].lease # "free" => outbox[r].status = "PROCESSING"

\* A worker that is about to record a message as sent has handed it over.
AcceptedBeforeSent ==
    \A w \in Workers :
        worker[w].step = "ok" /\ worker[w].row \in Messages => worker[w].row \in accepted

\* As long as a worker owns its row, the count it has read is that of the row.
CountUpToDate ==
    \A w \in Workers :
        worker[w].step # "idle" /\ outbox[worker[w].row].owner = w =>
            worker[w].attempts = outbox[worker[w].row].attempts

\* A message has attempts left exactly until it is given up.
AttemptsLeft ==
    \A m \in Messages :
        /\ outbox[m].status \in {"ABSENT", "SENT"} \cup Unsettled =>
               outbox[m].attempts < MaxAttempts
        /\ outbox[m].status = "DEAD_LETTER" => outbox[m].attempts = MaxAttempts
        /\ outbox[m].status # "COMPLETED"

Leases == TypeOK /\ LeasedWhileProcessing

LEMMA LeasesInit == Init => Leases
    BY TypeInit DEF Init, Leases, LeasedWhileProcessing, AbsentRow

LEMMA LeasesStep == Leases /\ [Next]_vars => Leases'
<1> SUFFICES ASSUME Leases, [Next]_vars PROVE LeasedWhileProcessing'
    BY TypeStep DEF Leases
<1> USE DEF Leases, LeasedWhileProcessing
<1>1. CASE \E e \in Events, written \in SUBSET Rows :
               /\ written \in (SUBSET {Job(e), Direct(e)}) \ {{}}
               /\ EventApplied(e, written)
    <2>1. PICK e \in Events, written \in SUBSET Rows :
                   /\ written \in SUBSET {Job(e), Direct(e)}
                   /\ EventApplied(e, written)
        BY <1>1
    <2> QED
        BY <2>1, AppliedRows
<1>2. CASE \E w \in Workers, r \in Rows : Claimed(w, r)
    BY <1>2, ClaimedRow
<1>3. CASE \E w \in Workers : Dispatch(w)
    <2>1. PICK w \in Workers : Dispatch(w)
        BY <1>3
    <2>2. CASE NotificationSent(w)
        BY <2>2, SentRow
    <2>3. CASE NotificationRetried(w)
        BY <2>3, NotificationRetriedRow
    <2>4. CASE \E e \in Events, heard \in BOOLEAN : EffectsCompleted(w, e, heard)
        <3>1. PICK e \in Events, heard \in BOOLEAN : EffectsCompleted(w, e, heard)
            BY <2>4
        <3>2. Job(e) \in Rows /\ Derived(e) \in Rows
            BY RowsApart, JobsAndMessages
        <3>3. PendingRow.lease = "free"
            BY DEF PendingRow, AbsentRow
        <3> QED
            BY <3>1, <3>2, <3>3, EffectsCompletedRows
    <2>5. CASE EffectsRetried(w)
        BY <2>5, EffectsRetriedRow
    <2>6. CASE UNCHANGED outbox
        BY <2>6
    <2> QED
        BY <2>1, <2>2, <2>3, <2>4, <2>5, <2>6
        DEF Dispatch, Published, EffectsBuilt, EffectsFailed, Conflicted
<1>4. CASE \E r \in Rows : LeaseExpires(r) \/ LeaseOutlived(r) \/ RetryFallsDue(r)
    BY <1>4, TimeRow
<1>5. CASE UNCHANGED outbox
    BY <1>5
<1> QED
    BY <1>1, <1>2, <1>3, <1>4, <1>5 DEF Next, Abandoned, vars

\* A settled row is not touched by any step: the claims look for unsettled
\* rows, an outcome is written only under a lease, and only a row that is being
\* processed has one.
LEMMA SettledStep ==
    Leases /\ [Next]_vars =>
        \A r \in Rows : outbox[r].status \in Settled => outbox'[r] = outbox[r]
<1> SUFFICES ASSUME Leases, [Next]_vars, NEW r \in Rows, outbox[r].status \in Settled
             PROVE  outbox'[r] = outbox[r]
    OBVIOUS
<1> USE DEF Leases
<1>1. outbox[r].status \notin Unsettled \cup {"ABSENT"} /\ outbox[r].status # "PROCESSING"
    BY DEF Settled, Unsettled
<1>2. CASE \E e \in Events, written \in SUBSET Rows :
               /\ written \in (SUBSET {Job(e), Direct(e)}) \ {{}}
               /\ EventApplied(e, written)
    <2>1. PICK e \in Events, written \in SUBSET Rows :
                   /\ written \in SUBSET {Job(e), Direct(e)}
                   /\ EventApplied(e, written)
        BY <1>2
    <2> QED
        BY <1>1, <2>1, AppliedRows
<1>3. CASE \E w \in Workers, q \in Rows : Claimed(w, q)
    BY <1>1, <1>3, ClaimedRow
<1>4. CASE \E w \in Workers : Dispatch(w)
    <2>1. PICK w \in Workers : Dispatch(w)
        BY <1>4
    <2>2. CASE NotificationSent(w)
        BY <1>1, <2>2, SentRow DEF Holds
    <2>3. CASE NotificationRetried(w)
        BY <1>1, <2>3, NotificationRetriedRow DEF Holds
    <2>4. CASE \E e \in Events, heard \in BOOLEAN : EffectsCompleted(w, e, heard)
        BY <1>1, <2>4, EffectsCompletedRows DEF Holds
    <2>5. CASE EffectsRetried(w)
        BY <1>1, <2>5, EffectsRetriedRow DEF Holds
    <2>6. CASE UNCHANGED outbox
        BY <2>6
    <2> QED
        BY <2>1, <2>2, <2>3, <2>4, <2>5, <2>6
        DEF Dispatch, Published, EffectsBuilt, EffectsFailed, Conflicted
<1>5. CASE \E q \in Rows : LeaseExpires(q) \/ LeaseOutlived(q) \/ RetryFallsDue(q)
    <2>1. outbox[r].lease # "live"
        BY <1>1 DEF LeasedWhileProcessing
    <2> QED
        BY <1>1, <1>5, <2>1, TimeRow
<1>6. CASE UNCHANGED outbox
    BY <1>6
<1> QED
    BY <1>2, <1>3, <1>4, <1>5, <1>6 DEF Next, Abandoned, vars

\* What is settled stays settled, whichever worker comes late.
THEOREM SettledStays == Spec => SettledForGood
<1>1. Spec => []Leases
    BY LeasesInit, LeasesStep, PTL DEF Spec
<1>2. Leases /\ [Next]_vars =>
          [\A r \in Rows : outbox[r].status \in Settled => outbox'[r] = outbox[r]]_vars
    BY SettledStep
<1> QED
    BY <1>1, <1>2, PTL DEF Spec, SettledForGood

-----------------------------------------------------------------------------
(* Effects *)

Effects == TypeOK /\ EffectsExactlyOnce

LEMMA EffectsInit == Init => Effects
<1>1. \A e \in Events : Job(e) \in Rows /\ Derived(e) \in Rows
    BY RowsApart, JobsAndMessages
<1> QED
    BY <1>1, TypeInit DEF Init, Effects, EffectsExactlyOnce, AbsentRow

\* Two rows of an event decide about it: whether its job is completed and
\* whether its derived message is there.
LEMMA EffectsFrame ==
    ASSUME EffectsExactlyOnce, UNCHANGED derived,
           \A e \in Events :
               /\ outbox'[Job(e)].status = "COMPLETED" <=> outbox[Job(e)].status = "COMPLETED"
               /\ outbox'[Derived(e)].status = "ABSENT" <=> outbox[Derived(e)].status = "ABSENT"
    PROVE  EffectsExactlyOnce'
    BY DEF EffectsExactlyOnce

LEMMA EffectsStep == Effects /\ [Next]_vars => Effects'
<1> SUFFICES ASSUME Effects, [Next]_vars PROVE EffectsExactlyOnce'
    BY TypeStep DEF Effects
<1> USE DEF Effects
<1>r. \A e \in Events : Job(e) \in Rows /\ Derived(e) \in Rows
    BY RowsApart, JobsAndMessages
<1>1. CASE \E e \in Events, written \in SUBSET Rows :
               /\ written \in (SUBSET {Job(e), Direct(e)}) \ {{}}
               /\ EventApplied(e, written)
    <2>1. PICK e \in Events, written \in SUBSET Rows :
                   /\ written \in SUBSET {Job(e), Direct(e)}
                   /\ EventApplied(e, written)
        BY <1>1
    <2>2. \A f \in Events : Derived(f) # Job(e) /\ Derived(f) # Direct(e)
        BY RowsApart
    <2>3. UNCHANGED derived
        BY <2>1 DEF EventApplied
    <2> QED
        BY <1>r, <2>1, <2>2, <2>3, AppliedRows, EffectsFrame
<1>2. CASE \E w \in Workers, r \in Rows : Claimed(w, r)
    <2>1. PICK w \in Workers, r \in Rows : Claimed(w, r)
        BY <1>2
    <2>2. UNCHANGED derived
        BY <2>1 DEF Claimed
    <2> QED
        BY <1>r, <2>1, <2>2, ClaimedRow, EffectsFrame DEF Unsettled
<1>3. CASE \E w \in Workers : Dispatch(w)
    <2>1. PICK w \in Workers : Dispatch(w)
        BY <1>3
    <2>2. CASE NotificationSent(w)
        <3>1. UNCHANGED derived
            BY <2>2 DEF NotificationSent
        <3> QED
            BY <1>r, <2>2, <3>1, SentRow, JobsAndMessages, RowsApart, EffectsFrame DEF Holds
    <2>3. CASE NotificationRetried(w)
        <3>1. UNCHANGED derived
            BY <2>3 DEF NotificationRetried
        <3> QED
            BY <1>r, <2>3, <3>1, NotificationRetriedRow, JobsAndMessages, RowsApart,
               EffectsFrame DEF Holds
    <2>4. CASE \E e \in Events, heard \in BOOLEAN : EffectsCompleted(w, e, heard)
        <3>1. PICK e \in Events, heard \in BOOLEAN : EffectsCompleted(w, e, heard)
            BY <2>4
        <3>2. outbox[Job(e)].status = "PROCESSING"
            BY <3>1 DEF EffectsCompleted, Holds
        <3>3. e \notin derived /\ outbox[Derived(e)].status = "ABSENT"
            BY <3>2 DEF EffectsExactlyOnce
        <3>4. derived' = derived \cup ({e} \cap Recorded)
            BY <3>1 DEF EffectsCompleted
        <3>5. /\ outbox'[Job(e)].status = "COMPLETED"
              /\ outbox'[Derived(e)].status # "ABSENT" <=> e \in Notified
            BY <3>1, <3>3, EffectsCompletedRows DEF PendingRow, AbsentRow
        <3>6. \A f \in Events : f # e =>
                  outbox'[Job(f)] = outbox[Job(f)] /\ outbox'[Derived(f)] = outbox[Derived(f)]
            BY <1>r, <3>1, RowsApart, EffectsCompletedRows
        <3> QED
            BY <3>3, <3>4, <3>5, <3>6 DEF EffectsExactlyOnce
    <2>5. CASE EffectsRetried(w)
        <3>1. UNCHANGED derived
            BY <2>5 DEF EffectsRetried
        <3> QED
            BY <1>r, <2>5, <3>1, EffectsRetriedRow, JobsAndMessages, RowsApart,
               EffectsFrame DEF Holds
    <2>6. CASE UNCHANGED <<outbox, derived>>
        BY <2>6, EffectsFrame
    <2> QED
        BY <2>1, <2>2, <2>3, <2>4, <2>5, <2>6
        DEF Dispatch, Published, EffectsBuilt, EffectsFailed, Conflicted
<1>4. CASE \E r \in Rows : LeaseExpires(r) \/ LeaseOutlived(r) \/ RetryFallsDue(r)
    <2>1. UNCHANGED derived
        BY <1>4 DEF LeaseExpires, LeaseOutlived, RetryFallsDue
    <2> QED
        BY <1>r, <1>4, <2>1, TimeRow, EffectsFrame
<1>5. CASE UNCHANGED <<outbox, derived>>
    BY <1>5, EffectsFrame
<1> QED
    BY <1>1, <1>2, <1>3, <1>4, <1>5 DEF Next, Abandoned, vars

\* The effects of an event are in the database exactly when its job is
\* completed, and exactly once.
THEOREM EffectsOnce == Spec => []EffectsExactlyOnce
<1>1. Effects => EffectsExactlyOnce
    BY DEF Effects
<1> QED
    BY <1>1, EffectsInit, EffectsStep, PTL DEF Spec

-----------------------------------------------------------------------------
(* Messages *)

Handover == TypeOK /\ AcceptedBeforeSent /\ SentOnlyIfAccepted

LEMMA HandoverInit == Init => Handover
    BY TypeInit, JobsAndMessages
    DEF Init, Handover, AcceptedBeforeSent, SentOnlyIfAccepted, AbsentRow, Idle

\* Only the worker of a row makes it SENT.
LEMMA SentStep ==
    ASSUME Handover, [Next]_vars, NEW m \in Messages,
           outbox'[m].status = "SENT", outbox[m].status # "SENT"
    PROVE  \E w \in Workers : NotificationSent(w) /\ worker[w].row = m
<1> USE DEF Handover
<1>m. m \in Rows /\ m \notin Jobs
    BY JobsAndMessages
<1>1. CASE \E e \in Events, written \in SUBSET Rows :
               /\ written \in (SUBSET {Job(e), Direct(e)}) \ {{}}
               /\ EventApplied(e, written)
    <2>1. PICK e \in Events, written \in SUBSET Rows :
                   /\ written \in SUBSET {Job(e), Direct(e)}
                   /\ EventApplied(e, written)
        BY <1>1
    <2> QED
        BY <1>m, <2>1, AppliedRows
<1>2. CASE \E w \in Workers, r \in Rows : Claimed(w, r)
    BY <1>m, <1>2, ClaimedRow
<1>3. CASE \E w \in Workers : Dispatch(w)
    <2>1. PICK w \in Workers : Dispatch(w)
        BY <1>3
    <2>2. CASE NotificationSent(w)
        BY <1>m, <2>2, SentRow
    <2>3. CASE NotificationRetried(w)
        BY <1>m, <2>3, NotificationRetriedRow
    <2>4. CASE \E e \in Events, heard \in BOOLEAN : EffectsCompleted(w, e, heard)
        <3>1. PICK e \in Events, heard \in BOOLEAN : EffectsCompleted(w, e, heard)
            BY <2>4
        <3>2. PendingRow.status = "PENDING" /\ Job(e) # m
            BY <1>m, RowsApart DEF PendingRow, AbsentRow
        <3> QED
            BY <1>m, <3>1, <3>2, EffectsCompletedRows
    <2>5. CASE EffectsRetried(w)
        BY <1>m, <2>5, EffectsRetriedRow
    <2>6. CASE UNCHANGED outbox
        BY <2>6
    <2> QED
        BY <2>1, <2>2, <2>3, <2>4, <2>5, <2>6
        DEF Dispatch, Published, EffectsBuilt, EffectsFailed, Conflicted
<1>4. CASE \E r \in Rows : LeaseExpires(r) \/ LeaseOutlived(r) \/ RetryFallsDue(r)
    BY <1>m, <1>4, TimeRow
<1>5. CASE UNCHANGED outbox
    BY <1>5
<1> QED
    BY <1>1, <1>2, <1>3, <1>4, <1>5 DEF Next, Abandoned, vars

\* Only a publication the platform has taken brings a worker to "ok".
LEMMA AcceptedStep == Handover /\ [Next]_vars => AcceptedBeforeSent' /\ accepted \subseteq accepted'
<1> SUFFICES ASSUME Handover, [Next]_vars
             PROVE  AcceptedBeforeSent' /\ accepted \subseteq accepted'
    OBVIOUS
<1> USE DEF Handover, AcceptedBeforeSent
<1>1. CASE \E w \in Workers, r \in Rows : Claimed(w, r)
    <2>1. PICK w \in Workers, r \in Rows : Claimed(w, r)
        BY <1>1
    <2>2. /\ worker'[w].step = "claimed"
          /\ \A v \in Workers : v # w => worker'[v] = worker[v]
        BY <2>1, ClaimedWorker
    <2>3. worker'[w].step # "ok"
        BY <2>2
    <2>4. accepted' = accepted
        BY <2>1 DEF Claimed
    <2> QED
        BY <2>2, <2>3, <2>4
<1>2. CASE \E w \in Workers : Dispatch(w) \/ Abandoned(w)
    <2>1. PICK w \in Workers : Dispatch(w) \/ Abandoned(w)
        BY <1>2
    <2>2. CASE \E taken \in BOOLEAN, answer \in {"ok", "failed"} : Published(w, taken, answer)
        <3>1. PICK taken \in BOOLEAN, answer \in {"ok", "failed"} : Published(w, taken, answer)
            BY <2>2
        <3>2. /\ worker'[w].step = answer /\ worker'[w].row = worker[w].row
              /\ \A v \in Workers : v # w => worker'[v] = worker[v]
            BY <3>1, StepTyping DEF Published
        <3>3. /\ accepted \subseteq accepted'
              /\ answer = "ok" => worker[w].row \in accepted'
            BY <3>1 DEF Published
        <3> QED
            BY <3>2, <3>3
    <2>3. CASE \E answer \in {"ok", "failed"} : EffectsBuilt(w, answer)
        <3>1. PICK answer \in {"ok", "failed"} : EffectsBuilt(w, answer)
            BY <2>3
        <3>2. /\ worker'[w].row = worker[w].row /\ worker[w].row \notin Messages
              /\ accepted' = accepted
              /\ \A v \in Workers : v # w => worker'[v] = worker[v]
            BY <3>1, StepTyping, JobsAndMessages DEF EffectsBuilt
        <3> QED
            BY <3>2
    <2>4. CASE EffectsFailed(w)
        <3>1. /\ worker'[w].step = "failed" /\ accepted' = accepted
              /\ \A v \in Workers : v # w => worker'[v] = worker[v]
            BY <2>4, StepTyping DEF EffectsFailed
        <3> QED
            BY <3>1
    <2>5. CASE \E e \in Events, heard \in BOOLEAN : EffectsCompleted(w, e, heard)
        <3>1. /\ worker'[w].step \in {"idle", "failed"} /\ accepted' = accepted
              /\ \A v \in Workers : v # w => worker'[v] = worker[v]
            BY <2>5, CompletionTyping DEF EffectsCompleted
        <3> QED
            BY <3>1
    <2>6. CASE Rests(w) /\ UNCHANGED accepted
        <3>1. /\ worker'[w].step = "idle" /\ accepted' = accepted
              /\ \A v \in Workers : v # w => worker'[v] = worker[v]
            BY <2>6, RestTyping
        <3> QED
            BY <3>1
    <2>7. NotificationSent(w) \/ NotificationRetried(w) \/ EffectsRetried(w)
              \/ Conflicted(w) \/ Abandoned(w) => Rests(w) /\ UNCHANGED accepted
        BY DEF NotificationSent, NotificationRetried, EffectsRetried, Conflicted, Abandoned
    <2> QED
        BY <2>1, <2>2, <2>3, <2>4, <2>5, <2>6, <2>7 DEF Dispatch
<1>3. CASE UNCHANGED <<worker, accepted>>
    BY <1>3
<1> QED
    BY <1>1, <1>2, <1>3
    DEF Next, EventApplied, LeaseExpires, LeaseOutlived, RetryFallsDue, vars

LEMMA HandoverStep == Handover /\ [Next]_vars => Handover'
<1> SUFFICES ASSUME Handover, [Next]_vars PROVE SentOnlyIfAccepted'
    BY TypeStep, AcceptedStep DEF Handover
<1> SUFFICES ASSUME NEW m \in Messages, outbox'[m].status = "SENT" PROVE m \in accepted'
    BY DEF SentOnlyIfAccepted
<1>1. accepted \subseteq accepted'
    BY AcceptedStep
<1>2. CASE outbox[m].status = "SENT"
    BY <1>1, <1>2 DEF Handover, SentOnlyIfAccepted
<1>3. CASE outbox[m].status # "SENT"
    BY <1>1, <1>3, SentStep DEF Handover, AcceptedBeforeSent, NotificationSent
<1> QED
    BY <1>2, <1>3

\* What is recorded as sent, the platform has.
THEOREM SentIsAccepted == Spec => []SentOnlyIfAccepted
<1>1. Handover => SentOnlyIfAccepted
    BY DEF Handover
<1> QED
    BY <1>1, HandoverInit, HandoverStep, PTL DEF Spec

-----------------------------------------------------------------------------
(* Attempts *)

Counted == TypeOK /\ CountUpToDate /\ AttemptsLeft

LEMMA CountedInit == Init => Counted
    BY TypeInit, JobsAndMessages, AttemptsAssumption
    DEF Init, Counted, CountUpToDate, AttemptsLeft, AbsentRow, Idle

\* A row either loses its owner or keeps owner and count, and a worker either is
\* done or keeps what it has read.
LEMMA CountFrame ==
    ASSUME TypeOK, CountUpToDate,
           \A r \in Rows :
               \/ outbox'[r].owner = NoWorker
               \/ outbox'[r].owner = outbox[r].owner /\ outbox'[r].attempts = outbox[r].attempts,
           \A w \in Workers :
               \/ worker'[w].step = "idle"
               \/ /\ worker[w].step # "idle" /\ worker'[w].row = worker[w].row
                  /\ worker'[w].attempts = worker[w].attempts
    PROVE  CountUpToDate'
<1> SUFFICES ASSUME NEW w \in Workers, worker'[w].step # "idle",
                    outbox'[worker'[w].row].owner = w
             PROVE  worker'[w].attempts = outbox'[worker'[w].row].attempts
    BY DEF CountUpToDate
<1>1. /\ worker[w].step # "idle" /\ worker'[w].row = worker[w].row
      /\ worker'[w].attempts = worker[w].attempts
    OBVIOUS
<1>2. worker[w].row \in Rows
    BY <1>1, AtRow
<1>3. /\ outbox[worker[w].row].owner = w
      /\ outbox'[worker[w].row].attempts = outbox[worker[w].row].attempts
    BY <1>1, <1>2, NoWorkerAssumption
<1> QED
    BY <1>1, <1>3 DEF CountUpToDate

\* What a step of a worker leaves of the workers.
LEMMA WorkersStep ==
    ASSUME TypeOK, NEW w \in Workers, Dispatch(w) \/ Abandoned(w)
    PROVE  \A v \in Workers :
               \/ worker'[v].step = "idle"
               \/ /\ worker[v].step # "idle" /\ worker'[v].row = worker[v].row
                  /\ worker'[v].attempts = worker[v].attempts
               \/ worker'[v] = worker[v]
<1>1. CASE Rests(w)
    BY <1>1, RestTyping
<1>2. CASE \E step \in {"claimed", "ok", "failed"} :
               worker[w].step # "idle" /\ worker' = [worker EXCEPT ![w].step = step]
    BY <1>2, StepTyping
<1>3. CASE \E e \in Events, heard \in BOOLEAN : EffectsCompleted(w, e, heard)
    <2>1. PICK e \in Events, heard \in BOOLEAN : EffectsCompleted(w, e, heard)
        BY <1>3
    <2>2. CASE heard
        BY <2>1, <2>2, <1>1 DEF EffectsCompleted, Rests
    <2>3. CASE ~heard
        <3>1. worker[w].step # "idle" /\ worker' = [worker EXCEPT ![w].step = "failed"]
            BY <2>1, <2>3 DEF EffectsCompleted, TypeOK
        <3> QED
            BY <3>1, <1>2
    <2> QED
        BY <2>2, <2>3
<1>4. NotificationSent(w) \/ NotificationRetried(w) \/ EffectsRetried(w)
          \/ Conflicted(w) \/ Abandoned(w) => Rests(w)
    BY DEF NotificationSent, NotificationRetried, EffectsRetried, Conflicted, Abandoned
<1>5. (\E taken \in BOOLEAN, answer \in {"ok", "failed"} : Published(w, taken, answer))
          \/ (\E answer \in {"ok", "failed"} : EffectsBuilt(w, answer)) \/ EffectsFailed(w) =>
          \E step \in {"claimed", "ok", "failed"} :
              worker[w].step # "idle" /\ worker' = [worker EXCEPT ![w].step = step]
    BY DEF Published, EffectsBuilt, EffectsFailed
<1> QED
    BY <1>1, <1>2, <1>3, <1>4, <1>5 DEF Dispatch

LEMMA CountStep == Counted /\ [Next]_vars => CountUpToDate'
<1> SUFFICES ASSUME Counted, [Next]_vars PROVE CountUpToDate'
    OBVIOUS
<1> USE DEF Counted
<1>r. \A e \in Events : Job(e) \in Rows /\ Direct(e) \in Rows /\ Derived(e) \in Rows
    BY RowsApart, JobsAndMessages
<1>1. CASE \E e \in Events, written \in SUBSET Rows :
               /\ written \in (SUBSET {Job(e), Direct(e)}) \ {{}}
               /\ EventApplied(e, written)
    <2>1. PICK e \in Events, written \in SUBSET Rows :
                   /\ written \in SUBSET {Job(e), Direct(e)}
                   /\ EventApplied(e, written)
        BY <1>1
    <2>2. UNCHANGED worker
        BY <2>1 DEF EventApplied
    <2> QED
        BY <2>1, <2>2, AppliedRows, CountFrame
<1>2. CASE \E w \in Workers, r \in Rows : Claimed(w, r)
    <2>1. PICK w \in Workers, r \in Rows : Claimed(w, r)
        BY <1>2
    <2>2. SUFFICES ASSUME NEW v \in Workers, worker'[v].step # "idle",
                          outbox'[worker'[v].row].owner = v
                   PROVE  worker'[v].attempts = outbox'[worker'[v].row].attempts
        BY DEF CountUpToDate
    <2>3. CASE v = w
        <3>1. worker'[w].row = r /\ worker'[w].attempts = outbox[r].attempts
            BY <2>1, ClaimedWorker
        <3> QED
            BY <2>1, <2>3, <3>1, ClaimedRow
    <2>4. CASE v # w
        <3>1. worker'[v] = worker[v] /\ outbox'[r].owner = w
            <4>1. worker'[v] = worker[v]
                BY <2>1, <2>4, ClaimedWorker
            <4>2. outbox'[r].owner = w
                BY <2>1, ClaimedRow
            <4> QED
                BY <4>1, <4>2
        <3>2. worker[v].row \in Rows /\ worker[v].row # r
            <4>1. worker[v].step # "idle" /\ outbox'[worker[v].row].owner = v
                BY <2>2, <3>1
            <4>2. worker[v].row \in Rows
                BY <4>1, RowAtHand
            <4> QED
                BY <2>4, <3>1, <4>1, <4>2
        <3>3. outbox'[worker[v].row] = outbox[worker[v].row]
            <4>1. \A q \in Rows : q # r => outbox'[q] = outbox[q]
                <5>1. /\ outbox \in [Rows -> RowRecords]
                      /\ \E row : outbox' = [outbox EXCEPT ![r] = row]
                    BY <2>1 DEF TypeOK, Claimed
                <5> QED
                    BY <5>1
            <4> QED
                BY <3>2, <4>1
        <3> QED
            BY <2>2, <3>1, <3>3 DEF CountUpToDate
    <2> QED
        BY <2>3, <2>4
<1>3. CASE \E w \in Workers : Dispatch(w) \/ Abandoned(w)
    <2>1. PICK w \in Workers : Dispatch(w) \/ Abandoned(w)
        BY <1>3
    <2>2. CASE NotificationSent(w)
        BY <2>1, <2>2, SentRow, WorkersStep, CountFrame
    <2>3. CASE NotificationRetried(w)
        BY <2>1, <2>3, NotificationRetriedRow, WorkersStep, CountFrame
    <2>4. CASE \E e \in Events, heard \in BOOLEAN : EffectsCompleted(w, e, heard)
        <3>1. PICK e \in Events, heard \in BOOLEAN : EffectsCompleted(w, e, heard)
            BY <2>4
        <3>2. PendingRow.owner = NoWorker
            BY DEF PendingRow, AbsentRow
        <3>3. \A r \in Rows :
                  \/ outbox'[r].owner = NoWorker
                  \/ outbox'[r] = outbox[r]
            BY <1>r, <3>1, <3>2, EffectsCompletedRows
        <3> QED
            BY <2>1, <3>3, WorkersStep, CountFrame
    <2>5. CASE EffectsRetried(w)
        BY <2>1, <2>5, EffectsRetriedRow, WorkersStep, CountFrame
    <2>6. CASE UNCHANGED outbox
        BY <2>1, <2>6, WorkersStep, CountFrame
    <2> QED
        BY <2>1, <2>2, <2>3, <2>4, <2>5, <2>6
        DEF Dispatch, Published, EffectsBuilt, EffectsFailed, Conflicted, Abandoned
<1>4. CASE \E r \in Rows : LeaseExpires(r) \/ LeaseOutlived(r) \/ RetryFallsDue(r)
    <2>1. UNCHANGED worker
        BY <1>4 DEF LeaseExpires, LeaseOutlived, RetryFallsDue
    <2> QED
        BY <1>4, <2>1, TimeRow, CountFrame
<1>5. CASE UNCHANGED vars
    BY <1>5, CountFrame DEF vars
<1> QED
    BY <1>1, <1>2, <1>3, <1>4, <1>5 DEF Next

LEMMA AttemptsStep == Counted /\ [Next]_vars => AttemptsLeft'
<1> SUFFICES ASSUME Counted, [Next]_vars, NEW m \in Messages
             PROVE  /\ outbox'[m].status \in {"ABSENT", "SENT"} \cup Unsettled =>
                           outbox'[m].attempts < MaxAttempts
                    /\ outbox'[m].status = "DEAD_LETTER" => outbox'[m].attempts = MaxAttempts
                    /\ outbox'[m].status # "COMPLETED"
    BY DEF AttemptsLeft
<1> USE DEF Counted
<1>m. m \in Rows /\ m \notin Jobs /\ outbox[m].attempts \in Nat
    BY JobsAndMessages DEF TypeOK, RowRecords
<1>l. /\ outbox[m].status \in {"ABSENT", "SENT"} \cup Unsettled =>
             outbox[m].attempts < MaxAttempts
      /\ outbox[m].status = "DEAD_LETTER" => outbox[m].attempts = MaxAttempts
      /\ outbox[m].status # "COMPLETED"
    BY DEF AttemptsLeft
<1>p. /\ PendingRow.status = "PENDING" /\ PendingRow.attempts = 0
      /\ 0 < MaxAttempts
    BY AttemptsAssumption DEF PendingRow, AbsentRow
<1>s. CASE outbox'[m] = outbox[m] \/ outbox'[m] = PendingRow
    BY <1>s, <1>l, <1>p
<1>1. CASE \E e \in Events, written \in SUBSET Rows :
               /\ written \in (SUBSET {Job(e), Direct(e)}) \ {{}}
               /\ EventApplied(e, written)
    <2>1. PICK e \in Events, written \in SUBSET Rows :
                   /\ written \in SUBSET {Job(e), Direct(e)}
                   /\ EventApplied(e, written)
        BY <1>1
    <2> QED
        BY <1>m, <1>s, <2>1, AppliedRows
<1>2. CASE \E w \in Workers, r \in Rows : Claimed(w, r)
    <2>1. PICK w \in Workers, r \in Rows : Claimed(w, r)
        BY <1>2
    <2>2. CASE r = m
        BY <1>l, <2>1, <2>2, ClaimedRow DEF Unsettled
    <2> QED
        BY <1>m, <1>s, <2>1, <2>2, ClaimedRow
<1>3. CASE \E w \in Workers : Dispatch(w)
    <2>1. PICK w \in Workers : Dispatch(w)
        BY <1>3
    <2>2. CASE NotificationSent(w)
        <3>1. CASE worker[w].row = m
            BY <1>l, <2>2, <3>1, SentRow DEF Holds, Unsettled
        <3> QED
            BY <1>m, <1>s, <2>2, <3>1, SentRow
    <2>3. CASE NotificationRetried(w)
        <3>1. CASE worker[w].row = m
            <4>1. /\ outbox[m].status = "PROCESSING"
                  /\ worker[w].attempts = outbox[m].attempts
                BY <2>3, <3>1 DEF NotificationRetried, Holds, CountUpToDate
            <4>2. outbox[m].attempts < MaxAttempts
                BY <1>l, <4>1 DEF Unsettled
            <4>3. /\ outbox'[m].attempts = outbox[m].attempts + 1
                  /\ outbox'[m].status = IF outbox[m].attempts + 1 >= MaxAttempts
                                         THEN "DEAD_LETTER" ELSE "RETRY_WAIT"
                BY <2>3, <3>1, <4>1, NotificationRetriedRow
            <4> QED
                BY <1>m, <4>2, <4>3, AttemptsAssumption DEF Unsettled
        <3> QED
            BY <1>m, <1>s, <2>3, <3>1, NotificationRetriedRow
    <2>4. CASE \E e \in Events, heard \in BOOLEAN : EffectsCompleted(w, e, heard)
        <3>1. PICK e \in Events, heard \in BOOLEAN : EffectsCompleted(w, e, heard)
            BY <2>4
        <3>2. Job(e) # m
            BY <1>m, RowsApart
        <3> QED
            BY <1>m, <1>s, <3>1, <3>2, EffectsCompletedRows
    <2>5. CASE EffectsRetried(w)
        BY <1>m, <1>s, <2>5, EffectsRetriedRow
    <2>6. CASE UNCHANGED outbox
        BY <1>s, <2>6
    <2> QED
        BY <2>1, <2>2, <2>3, <2>4, <2>5, <2>6
        DEF Dispatch, Published, EffectsBuilt, EffectsFailed, Conflicted
<1>4. CASE \E r \in Rows : LeaseExpires(r) \/ LeaseOutlived(r) \/ RetryFallsDue(r)
    <2>1. outbox'[m].status = outbox[m].status /\ outbox'[m].attempts = outbox[m].attempts
        BY <1>m, <1>4, TimeRow
    <2> QED
        BY <1>l, <2>1
<1>5. CASE UNCHANGED outbox
    BY <1>s, <1>5
<1> QED
    BY <1>1, <1>2, <1>3, <1>4, <1>5 DEF Next, Abandoned, vars

\* A message is given up after exactly MaxAttempts failures, although the count
\* the decision is taken from and the count that is increased are read apart.
THEOREM AttemptsAreBounded == Spec => []AttemptsBounded
<1>1. Counted => AttemptsBounded
    <2> SUFFICES ASSUME Counted, NEW m \in Messages
                 PROVE  /\ outbox[m].attempts <= MaxAttempts
                        /\ outbox[m].status = "DEAD_LETTER" <=> outbox[m].attempts = MaxAttempts
        BY DEF AttemptsBounded
    <2>1. /\ outbox[m].attempts \in Nat
          /\ outbox[m].status \in {"ABSENT", "SENT", "DEAD_LETTER", "COMPLETED"} \cup Unsettled
        BY JobsAndMessages DEF Counted, TypeOK, RowRecords, Settled
    <2>2. /\ outbox[m].status \in {"ABSENT", "SENT"} \cup Unsettled =>
                 outbox[m].attempts < MaxAttempts
          /\ outbox[m].status = "DEAD_LETTER" => outbox[m].attempts = MaxAttempts
          /\ outbox[m].status # "COMPLETED"
        BY DEF Counted, AttemptsLeft
    <2> QED
        BY <2>1, <2>2, AttemptsAssumption
<1>2. Counted /\ [Next]_vars => Counted'
    BY TypeStep, CountStep, AttemptsStep DEF Counted
<1> QED
    BY <1>1, <1>2, CountedInit, PTL DEF Spec

-----------------------------------------------------------------------------
(* The ledger *)

\* What the ledger shows of the rows.
EffectsTold == [e \in Events |-> Told(outbox[Job(e)].status)]
MessagesTold == [m \in Messages |-> Told(outbox[m].status)]
FailuresTold == [m \in Messages |-> outbox[m].attempts]

\* A worker is at a row that was written.
AtWrittenRow ==
    \A w \in Workers : worker[w].step # "idle" => outbox[worker[w].row].status # "ABSENT"

\* Nobody has tried what was not written.
AbsentUntried == \A r \in Rows : outbox[r].status = "ABSENT" => outbox[r].attempts = 0

Present == TypeOK /\ AtWrittenRow /\ AbsentUntried

LedgerInv == Present /\ Counted /\ Effects /\ Handover

LEMMA ToldStatuses ==
    /\ Told("ABSENT") = "none"
    /\ \A status \in Unsettled : Told(status) = "due"
    /\ Told("COMPLETED") = "done" /\ Told("SENT") = "sent" /\ Told("DEAD_LETTER") = "dead"
    BY DEF Told, Unsettled

LEMMA SameMessages ==
    /\ Ledger!Messages = Messages
    /\ \A e \in Events : <<e, "direct">> = Direct(e) /\ <<e, "derived">> = Derived(e)
    BY DEF Ledger!Messages, Messages, Direct, Derived

\* No row goes away, and what is not there is not tried.
LEMMA RowsStay ==
    ASSUME TypeOK, [Next]_vars, NEW r \in Rows, outbox'[r].status = "ABSENT"
    PROVE  outbox[r].status = "ABSENT" /\ outbox'[r].attempts = outbox[r].attempts
<1>1. CASE \E e \in Events, written \in SUBSET Rows :
               /\ written \in (SUBSET {Job(e), Direct(e)}) \ {{}}
               /\ EventApplied(e, written)
    <2>1. PICK e \in Events, written \in SUBSET Rows :
                   /\ written \in SUBSET {Job(e), Direct(e)}
                   /\ EventApplied(e, written)
        BY <1>1
    <2> QED
        BY <2>1, AppliedRows
<1>2. CASE \E w \in Workers, q \in Rows : Claimed(w, q)
    BY <1>2, ClaimedRow
<1>3. CASE \E w \in Workers : Dispatch(w)
    <2>1. PICK w \in Workers : Dispatch(w)
        BY <1>3
    <2>2. CASE NotificationSent(w)
        BY <2>2, SentRow
    <2>3. CASE NotificationRetried(w)
        BY <2>3, NotificationRetriedRow
    <2>4. CASE \E e \in Events, heard \in BOOLEAN : EffectsCompleted(w, e, heard)
        <3>1. PICK e \in Events, heard \in BOOLEAN : EffectsCompleted(w, e, heard)
            BY <2>4
        <3>2. PendingRow.status = "PENDING"
            BY DEF PendingRow, AbsentRow
        <3> QED
            BY <3>1, <3>2, EffectsCompletedRows
    <2>5. CASE EffectsRetried(w)
        BY <2>5, EffectsRetriedRow
    <2>6. CASE UNCHANGED outbox
        BY <2>6
    <2> QED
        BY <2>1, <2>2, <2>3, <2>4, <2>5, <2>6
        DEF Dispatch, Published, EffectsBuilt, EffectsFailed, Conflicted
<1>4. CASE \E q \in Rows : LeaseExpires(q) \/ LeaseOutlived(q) \/ RetryFallsDue(q)
    BY <1>4, TimeRow
<1>5. CASE UNCHANGED outbox
    BY <1>5
<1> QED
    BY <1>1, <1>2, <1>3, <1>4, <1>5 DEF Next, Abandoned, vars

LEMMA PresentInit == Init => Present
    BY TypeInit DEF Init, Present, AtWrittenRow, AbsentUntried, AbsentRow, Idle

LEMMA PresentStep == Present /\ [Next]_vars => Present'
<1> SUFFICES ASSUME Present, [Next]_vars PROVE AtWrittenRow'
    <2>1. ASSUME Present, [Next]_vars PROVE AbsentUntried'
        BY <2>1, RowsStay DEF Present, AbsentUntried
    <2> QED
        BY <2>1, TypeStep DEF Present
<1> SUFFICES ASSUME NEW w \in Workers, worker'[w].step # "idle"
             PROVE  outbox'[worker'[w].row].status # "ABSENT"
    BY DEF AtWrittenRow
<1> USE DEF Present
<1>1. CASE worker[w].step # "idle" /\ worker'[w].row = worker[w].row
    <2>1. worker[w].row \in Rows /\ outbox[worker[w].row].status # "ABSENT"
        BY <1>1, RowAtHand DEF AtWrittenRow
    <2> QED
        BY <1>1, <2>1, RowsStay
<1>2. CASE \E v \in Workers, r \in Rows : Claimed(v, r)
    <2>1. PICK v \in Workers, r \in Rows : Claimed(v, r)
        BY <1>2
    <2>2. CASE v = w
        <3>1. outbox'[r].status = "PROCESSING"
            BY <2>1, ClaimedRow
        <3>2. worker'[w].row = r
            BY <2>1, <2>2, ClaimedWorker
        <3> QED
            BY <3>1, <3>2
    <2>3. CASE v # w
        <3>1. worker'[w] = worker[w]
            BY <2>1, <2>3, ClaimedWorker
        <3> QED
            BY <1>1, <3>1
    <2> QED
        BY <2>2, <2>3
<1>3. CASE \E v \in Workers : Dispatch(v) \/ Abandoned(v)
    <2>1. PICK v \in Workers : Dispatch(v) \/ Abandoned(v)
        BY <1>3
    <2>2. \/ worker[w].step # "idle" /\ worker'[w].row = worker[w].row
          \/ worker'[w] = worker[w]
        BY <2>1, WorkersStep
    <2> QED
        BY <1>1, <2>2
<1>4. CASE UNCHANGED worker
    BY <1>1, <1>4
<1> QED
    BY <1>2, <1>3, <1>4
    DEF Next, vars, EventApplied, LeaseExpires, LeaseOutlived, RetryFallsDue

\* A step that changes no status for the reader and no count of a message is none.
LEMMA SameTold ==
    ASSUME UNCHANGED <<derived, accepted>>,
           \A r \in Rows : Told(outbox'[r].status) = Told(outbox[r].status),
           \A m \in Messages : outbox'[m].attempts = outbox[m].attempts
    PROVE  UNCHANGED <<EffectsTold, MessagesTold, derived, accepted, FailuresTold>>
    BY RowsApart, JobsAndMessages DEF EffectsTold, MessagesTold, FailuresTold

\* An accepted event (createDeliveryEffects, createNotificationOutbox) opens its entries.
LEMMA AppliedStep ==
    ASSUME Present, NEW e \in Events, NEW written \in SUBSET {Job(e), Direct(e)},
           written # {}, EventApplied(e, written)
    PROVE  \E parts \in SUBSET {"effects", "direct"} : Ledger!Applied(e, parts)
<1> DEFINE parts == {kind \in {"effects", "direct"} : <<e, kind>> \in written}
<1>1. /\ Job(e) \in Rows /\ Direct(e) \in Messages /\ Direct(e) \in Rows
      /\ outbox[Job(e)].status = "ABSENT" /\ outbox[Direct(e)].status = "ABSENT"
    BY RowsApart, JobsAndMessages DEF EventApplied
<1>2. /\ "effects" \in parts <=> Job(e) \in written
      /\ "direct" \in parts <=> Direct(e) \in written
      /\ parts # {}
    BY DEF Job, Direct
<1>3. \A q \in Rows : outbox'[q] = IF q \in written THEN PendingRow ELSE outbox[q]
    BY DEF EventApplied
<1>4. PendingRow.status = "PENDING" /\ PendingRow.attempts = 0
    BY AppliedRows DEF Present
<1>5. Told("PENDING") = "due" /\ Told("ABSENT") = "none"
    BY ToldStatuses DEF Unsettled
<1> HIDE DEF parts
<1>6. EffectsTold[e] = "none" /\ MessagesTold[<<e, "direct">>] = "none"
    BY <1>1, <1>5, SameMessages DEF EffectsTold, MessagesTold
<1>7. EffectsTold' = IF "effects" \in parts THEN [EffectsTold EXCEPT ![e] = "due"]
                                            ELSE EffectsTold
    <2>1. \A f \in Events :
              Told(outbox'[Job(f)].status) = IF f = e /\ "effects" \in parts
                                             THEN "due" ELSE Told(outbox[Job(f)].status)
        <3> TAKE f \in Events
        <3>1. Job(f) \in Rows /\ Job(f) # Direct(e) /\ (Job(f) = Job(e) => f = e)
            BY RowsApart, JobsAndMessages
        <3> QED
            BY <1>2, <1>3, <1>4, <1>5, <3>1
    <2> QED
        BY <2>1 DEF EffectsTold
<1>8. MessagesTold' = IF "direct" \in parts
                      THEN [MessagesTold EXCEPT ![<<e, "direct">>] = "due"]
                      ELSE MessagesTold
    <2>1. \A m \in Messages :
              Told(outbox'[m].status) = IF m = Direct(e) /\ "direct" \in parts
                                        THEN "due" ELSE Told(outbox[m].status)
        <3> TAKE m \in Messages
        <3>1. m \in Rows /\ m # Job(e)
            BY RowsApart, JobsAndMessages
        <3> QED
            BY <1>2, <1>3, <1>4, <1>5, <3>1
    <2>2. <<e, "direct">> = Direct(e)
        BY SameMessages
    <2> QED
        BY <1>1, <2>1, <2>2 DEF MessagesTold
<1>9. FailuresTold' = FailuresTold
    <2>1. \A m \in Messages : outbox'[m].attempts = outbox[m].attempts
        <3> TAKE m \in Messages
        <3>1. m \in Rows /\ m # Job(e)
            BY RowsApart, JobsAndMessages
        <3>2. m \in written => outbox[m].status = "ABSENT"
            BY <1>1, <3>1
        <3> QED
            BY <1>3, <1>4, <3>1, <3>2 DEF Present, AbsentUntried
    <2> QED
        BY <2>1 DEF FailuresTold
<1>10. UNCHANGED <<derived, accepted>>
    BY DEF EventApplied
<1>11. parts \in SUBSET {"effects", "direct"}
    BY DEF parts
<1> QED
    BY <1>2, <1>6, <1>7, <1>8, <1>9, <1>10, <1>11
    DEF Ledger!Applied, EffectsTold, MessagesTold, FailuresTold

\* The acknowledgement of a publication (MarkNotificationOutboxSent).
LEMMA SentInLedger ==
    ASSUME LedgerInv, NEW w \in Workers, NotificationSent(w)
    PROVE  Ledger!Sent(worker[w].row)
<1> DEFINE r == worker[w].row
<1>1. /\ r \in Messages /\ r \in Rows /\ Holds(w)
      /\ outbox'[r].status = "SENT" /\ outbox'[r].attempts = outbox[r].attempts
      /\ \A q \in Rows : q # r => outbox'[q] = outbox[q]
    BY SentRow, JobsAndMessages DEF LedgerInv, Present
<1>2. r \in accepted
    BY <1>1 DEF NotificationSent, LedgerInv, Handover, AcceptedBeforeSent
<1>3. Told(outbox[r].status) = "due" /\ Told(outbox'[r].status) = "sent"
    BY <1>1, ToldStatuses DEF Holds, Unsettled
<1> HIDE DEF r
<1>4. EffectsTold' = EffectsTold
    BY <1>1, RowsApart, JobsAndMessages DEF EffectsTold
<1>5. MessagesTold[r] = "due" /\ MessagesTold' = [MessagesTold EXCEPT ![r] = "sent"]
    BY <1>1, <1>3, JobsAndMessages DEF MessagesTold
<1>6. FailuresTold' = FailuresTold
    BY <1>1, JobsAndMessages DEF FailuresTold
<1>7. UNCHANGED <<derived, accepted>>
    BY DEF NotificationSent
<1> QED
    BY <1>2, <1>4, <1>5, <1>6, <1>7
    DEF Ledger!Sent, EffectsTold, MessagesTold, FailuresTold, r

\* A publication that failed (MarkNotificationOutboxRetry): the count that was read with the
\* claim, from which the decision is taken, is still that of the row.
LEMMA FailedInLedger ==
    ASSUME LedgerInv, NEW w \in Workers, NotificationRetried(w)
    PROVE  Ledger!Failed(worker[w].row)
<1> DEFINE r == worker[w].row
           n == outbox[r].attempts
<1>1. /\ r \in Messages /\ r \in Rows /\ Holds(w)
      /\ outbox'[r].status = IF worker[w].attempts + 1 >= MaxAttempts
                             THEN "DEAD_LETTER" ELSE "RETRY_WAIT"
      /\ outbox'[r].attempts = n + 1
      /\ \A q \in Rows : q # r => outbox'[q] = outbox[q]
    BY NotificationRetriedRow, JobsAndMessages DEF LedgerInv, Present
<1>2. worker[w].attempts = n /\ n \in Nat /\ n < MaxAttempts
    <2>1. worker[w].step # "idle" /\ outbox[r].owner = w /\ outbox[r].status \in Unsettled
        BY <1>1 DEF NotificationRetried, Holds, Unsettled
    <2>2. outbox[r] \in RowRecords
        BY <1>1 DEF LedgerInv, Present, TypeOK
    <2>3. n \in Nat
        BY <2>2 DEF RowRecords
    <2> QED
        BY <1>1, <2>1, <2>3 DEF LedgerInv, Counted, CountUpToDate, AttemptsLeft
<1>3. outbox'[r].status = IF n + 1 = MaxAttempts THEN "DEAD_LETTER" ELSE "RETRY_WAIT"
    BY <1>1, <1>2, AttemptsAssumption
<1>4. /\ Told(outbox[r].status) = "due"
      /\ Told(outbox'[r].status) = IF n + 1 = MaxAttempts THEN "dead" ELSE "due"
    BY <1>1, <1>3, ToldStatuses DEF Holds, Unsettled
<1> HIDE DEF r, n
<1>5. EffectsTold' = EffectsTold
    BY <1>1, RowsApart, JobsAndMessages DEF EffectsTold
<1>6. /\ MessagesTold[r] = "due"
      /\ MessagesTold' = IF n + 1 = MaxAttempts THEN [MessagesTold EXCEPT ![r] = "dead"]
                                                ELSE MessagesTold
    <2>1. MessagesTold[r] = "due"
        BY <1>1, <1>4 DEF MessagesTold
    <2>2. \A m \in Messages : Told(outbox'[m].status) =
              IF m = r THEN IF n + 1 = MaxAttempts THEN "dead" ELSE "due"
                       ELSE Told(outbox[m].status)
        BY <1>1, <1>4, JobsAndMessages
    <2>3. CASE n + 1 = MaxAttempts
        BY <1>1, <2>1, <2>2, <2>3 DEF MessagesTold
    <2>4. CASE n + 1 # MaxAttempts
        BY <1>1, <1>4, <2>1, <2>2, <2>4 DEF MessagesTold
    <2> QED
        BY <2>1, <2>3, <2>4
<1>7. FailuresTold' = [FailuresTold EXCEPT ![r] = @ + 1] /\ FailuresTold'[r] = n + 1
    <2>1. \A m \in Messages : outbox'[m].attempts = IF m = r THEN n + 1 ELSE outbox[m].attempts
        BY <1>1, JobsAndMessages
    <2>2. FailuresTold[r] = n
        BY <1>1 DEF FailuresTold, n
    <2> QED
        BY <1>1, <2>1, <2>2 DEF FailuresTold
<1>8. UNCHANGED <<derived, accepted>>
    BY DEF NotificationRetried
<1> QED
    BY <1>5, <1>6, <1>7, <1>8
    DEF Ledger!Failed, EffectsTold, MessagesTold, FailuresTold, r

\* The transaction that ends a job (CompleteDeliveryEffects).
LEMMA CompletedInLedger ==
    ASSUME LedgerInv, NEW w \in Workers, NEW e \in Events, NEW heard \in BOOLEAN,
           EffectsCompleted(w, e, heard)
    PROVE  Ledger!Completed(e)
<1>1. /\ worker[w].row = Job(e) /\ Holds(w)
      /\ outbox'[Job(e)].status = "COMPLETED"
      /\ outbox'[Derived(e)] = IF e \in Notified /\ outbox[Derived(e)].status = "ABSENT"
                               THEN PendingRow ELSE outbox[Derived(e)]
      /\ \A q \in Rows \ {Job(e), Derived(e)} : outbox'[q] = outbox[q]
    BY EffectsCompletedRows DEF LedgerInv, Present
<1>2. /\ Job(e) \in Rows /\ Derived(e) \in Rows /\ Derived(e) \in Messages
      /\ Job(e) # Derived(e)
    BY RowsApart, JobsAndMessages
<1>3. outbox[Job(e)].status = "PROCESSING"
    BY <1>1 DEF Holds
<1>4. outbox[Derived(e)].status = "ABSENT" /\ outbox[Derived(e)].attempts = 0
    BY <1>2, <1>3 DEF LedgerInv, Effects, EffectsExactlyOnce, Present, AbsentUntried
<1>5. PendingRow.status = "PENDING" /\ PendingRow.attempts = 0
    BY DEF PendingRow, AbsentRow
<1>6. /\ Told("PROCESSING") = "due" /\ Told("COMPLETED") = "done"
      /\ Told("ABSENT") = "none" /\ Told("PENDING") = "due"
    BY ToldStatuses DEF Unsettled
<1>7. EffectsTold[e] = "due" /\ EffectsTold' = [EffectsTold EXCEPT ![e] = "done"]
    <2>1. \A f \in Events : Told(outbox'[Job(f)].status) =
                                IF f = e THEN "done" ELSE Told(outbox[Job(f)].status)
        <3> TAKE f \in Events
        <3>1. Job(f) \in Rows /\ Job(f) # Derived(e) /\ (Job(f) = Job(e) => f = e)
            BY RowsApart, JobsAndMessages
        <3> QED
            BY <1>1, <1>6, <3>1
    <2> QED
        BY <1>3, <1>6, <2>1 DEF EffectsTold
<1>8. \A m \in Messages :
          /\ Told(outbox'[m].status) = IF m = Derived(e) /\ e \in Notified
                                       THEN "due" ELSE Told(outbox[m].status)
          /\ outbox'[m].attempts = outbox[m].attempts
    <2> TAKE m \in Messages
    <2>1. m \in Rows /\ m # Job(e)
        BY RowsApart, JobsAndMessages
    <2>2. CASE m = Derived(e)
        BY <1>1, <1>4, <1>5, <1>6, <2>2
    <2>3. CASE m # Derived(e)
        BY <1>1, <2>1, <2>3
    <2> QED
        BY <2>2, <2>3
<1>9. IF e \in Notified
        THEN /\ MessagesTold[<<e, "derived">>] = "none"
             /\ MessagesTold' = [MessagesTold EXCEPT ![<<e, "derived">>] = "due"]
        ELSE UNCHANGED MessagesTold
    <2>1. <<e, "derived">> = Derived(e)
        BY SameMessages
    <2>2. CASE e \in Notified
        BY <1>2, <1>4, <1>6, <1>8, <2>1, <2>2 DEF MessagesTold
    <2>3. CASE e \notin Notified
        BY <1>8, <2>3 DEF MessagesTold
    <2> QED
        BY <2>2, <2>3
<1>10. FailuresTold' = FailuresTold
    BY <1>8 DEF FailuresTold
<1>11. derived' = derived \cup ({e} \cap Recorded) /\ accepted' = accepted
    BY DEF EffectsCompleted
<1> QED
    BY <1>7, <1>9, <1>10, <1>11
    DEF Ledger!Completed, EffectsTold, MessagesTold, FailuresTold

\* The platform takes a message (DispatchNotificationOutbox), from a worker that may have lost its
\* lease.
LEMMA AcceptedInLedger ==
    ASSUME LedgerInv, NEW w \in Workers, NEW taken \in BOOLEAN,
           NEW answer \in {"ok", "failed"}, Published(w, taken, answer)
    PROVE  \/ \E m \in Messages : Ledger!Accepted(m)
           \/ UNCHANGED <<EffectsTold, MessagesTold, derived, accepted, FailuresTold>>
<1>1. UNCHANGED <<outbox, derived>>
    BY DEF Published
<1>2. UNCHANGED <<EffectsTold, MessagesTold, FailuresTold>>
    BY <1>1 DEF EffectsTold, MessagesTold, FailuresTold
<1>3. CASE ~taken
    BY <1>1, <1>2, <1>3 DEF Published
<1>4. CASE taken
    <2> DEFINE m == worker[w].row
    <2>1. m \in Messages /\ outbox[m].status # "ABSENT"
        BY DEF Published, LedgerInv, Present, AtWrittenRow
    <2>2. outbox[m] \in RowRecords
        BY <2>1, JobsAndMessages DEF LedgerInv, Present, TypeOK
    <2>3. outbox[m].status \in Unsettled \cup Settled
        BY <2>1, <2>2 DEF RowRecords
    <2>4. MessagesTold[m] # "none"
        BY <2>1, <2>3, ToldStatuses DEF MessagesTold, Settled
    <2>5. accepted' = accepted \cup {m}
        BY <1>4 DEF Published
    <2> HIDE DEF m
    <2>6. Ledger!Accepted(m)
        BY <1>1, <1>2, <2>4, <2>5
        DEF Ledger!Accepted, EffectsTold, MessagesTold, FailuresTold
    <2> QED
        BY <2>1, <2>6
<1> QED
    BY <1>3, <1>4

\* Claims, leases and delays are not told.
LEMMA UntoldSteps ==
    ASSUME TypeOK,
           \/ \E w \in Workers, r \in Rows : Claimed(w, r)
           \/ \E w \in Workers : EffectsRetried(w)
           \/ \E r \in Rows : LeaseExpires(r) \/ LeaseOutlived(r) \/ RetryFallsDue(r)
    PROVE  UNCHANGED <<EffectsTold, MessagesTold, derived, accepted, FailuresTold>>
<1>1. CASE \E w \in Workers, r \in Rows : Claimed(w, r)
    <2>1. PICK w \in Workers, r \in Rows : Claimed(w, r)
        BY <1>1
    <2>2. /\ outbox[r].status \in Unsettled /\ outbox'[r].status = "PROCESSING"
          /\ outbox'[r].attempts = outbox[r].attempts
          /\ \A q \in Rows : q # r => outbox'[q] = outbox[q]
        BY <2>1, ClaimedRow
    <2>3. Told(outbox'[r].status) = Told(outbox[r].status)
        BY <2>2, ToldStatuses DEF Unsettled
    <2>4. UNCHANGED <<derived, accepted>>
        BY <2>1 DEF Claimed
    <2> QED
        BY <2>2, <2>3, <2>4, SameTold, JobsAndMessages
<1>2. CASE \E w \in Workers : EffectsRetried(w)
    <2>1. PICK w \in Workers : EffectsRetried(w)
        BY <1>2
    <2> DEFINE r == worker[w].row
    <2>2. /\ r \in Jobs /\ outbox[r].status = "PROCESSING" /\ outbox'[r].status = "RETRY_WAIT"
          /\ \A q \in Rows : q # r => outbox'[q] = outbox[q]
        BY <2>1, EffectsRetriedRow DEF Holds
    <2>3. Told(outbox'[r].status) = Told(outbox[r].status)
        BY <2>2, ToldStatuses DEF Unsettled
    <2>4. UNCHANGED <<derived, accepted>>
        BY <2>1 DEF EffectsRetried
    <2> HIDE DEF r
    <2> QED
        BY <2>2, <2>3, <2>4, SameTold, JobsAndMessages
<1>3. CASE \E r \in Rows : LeaseExpires(r) \/ LeaseOutlived(r) \/ RetryFallsDue(r)
    <2>1. PICK r \in Rows : LeaseExpires(r) \/ LeaseOutlived(r) \/ RetryFallsDue(r)
        BY <1>3
    <2>2. /\ outbox'[r].status = outbox[r].status /\ outbox'[r].attempts = outbox[r].attempts
          /\ \A q \in Rows : q # r => outbox'[q] = outbox[q]
        BY <2>1, TimeRow
    <2>3. UNCHANGED <<derived, accepted>>
        BY <2>1 DEF LeaseExpires, LeaseOutlived, RetryFallsDue
    <2> QED
        BY <2>2, <2>3, SameTold, JobsAndMessages
<1> QED
    BY <1>1, <1>2, <1>3

\* Every step is a step of the ledger or none at all.
LEMMA StepOfLedger ==
    ASSUME LedgerInv, [Next]_vars
    PROVE  \/ Ledger!Next
           \/ UNCHANGED <<EffectsTold, MessagesTold, derived, accepted, FailuresTold>>
<1>t. TypeOK
    BY DEF LedgerInv, Present
<1>1. CASE \E e \in Events, written \in SUBSET Rows :
               /\ written \in (SUBSET {Job(e), Direct(e)}) \ {{}}
               /\ EventApplied(e, written)
    <2>1. PICK e \in Events, written \in SUBSET Rows :
                   /\ written \in (SUBSET {Job(e), Direct(e)}) \ {{}}
                   /\ EventApplied(e, written)
        BY <1>1
    <2>2. written \in SUBSET {Job(e), Direct(e)} /\ written # {}
        BY <2>1
    <2>3. \E parts \in SUBSET {"effects", "direct"} : Ledger!Applied(e, parts)
        BY <2>1, <2>2, AppliedStep DEF LedgerInv
    <2> QED
        BY <2>3 DEF Ledger!Next
<1>2. CASE \E w \in Workers : Dispatch(w)
    <2>1. PICK w \in Workers : Dispatch(w)
        BY <1>2
    <2>2. CASE NotificationSent(w)
        <3>1. worker[w].row \in Ledger!Messages
            BY <2>2, SameMessages DEF NotificationSent
        <3>2. \E m \in Ledger!Messages : Ledger!Sent(m)
            BY <2>2, <3>1, SentInLedger
        <3> QED
            BY <3>2 DEF Ledger!Next
    <2>3. CASE NotificationRetried(w)
        <3>1. worker[w].row \in Ledger!Messages
            BY <2>3, SameMessages DEF NotificationRetried
        <3>2. \E m \in Ledger!Messages : Ledger!Failed(m)
            BY <2>3, <3>1, FailedInLedger
        <3> QED
            BY <3>2 DEF Ledger!Next
    <2>4. CASE \E e \in Events, heard \in BOOLEAN : EffectsCompleted(w, e, heard)
        BY <2>4, CompletedInLedger DEF Ledger!Next
    <2>5. CASE \E taken \in BOOLEAN, answer \in {"ok", "failed"} : Published(w, taken, answer)
        BY <2>5, AcceptedInLedger, SameMessages DEF Ledger!Next
    <2>6. CASE EffectsRetried(w)
        BY <1>t, <2>6, UntoldSteps
    <2>7. CASE UNCHANGED <<outbox, derived, accepted>>
        BY <2>7 DEF EffectsTold, MessagesTold, FailuresTold
    <2> QED
        BY <2>1, <2>2, <2>3, <2>4, <2>5, <2>6, <2>7
        DEF Dispatch, EffectsBuilt, EffectsFailed, Conflicted
<1>3. CASE \/ \E w \in Workers, r \in Rows : Claimed(w, r)
           \/ \E r \in Rows : LeaseExpires(r) \/ LeaseOutlived(r) \/ RetryFallsDue(r)
    BY <1>t, <1>3, UntoldSteps
<1>4. CASE UNCHANGED <<outbox, derived, accepted>>
    BY <1>4 DEF EffectsTold, MessagesTold, FailuresTold
<1> QED
    BY <1>1, <1>2, <1>3, <1>4 DEF Next, Abandoned, vars

\* Whatever the number of events, workers and faults, the outboxes implement the ledger.
THEOREM Implementation == Spec => ImplementsLedger
<1>1. Init => Ledger!Init
    <2> SUFFICES ASSUME Init PROVE Ledger!Init
        OBVIOUS
    <2>1. \A r \in Rows : Told(outbox[r].status) = "none" /\ outbox[r].attempts = 0
        BY ToldStatuses DEF Init, AbsentRow
    <2>2. /\ EffectsTold = [e \in Events |-> "none"]
          /\ MessagesTold = [m \in Messages |-> "none"]
          /\ FailuresTold = [m \in Messages |-> 0]
        BY <2>1, RowsApart, JobsAndMessages DEF EffectsTold, MessagesTold, FailuresTold
    <2> QED
        BY <2>2, SameMessages
        DEF Init, Ledger!Init, EffectsTold, MessagesTold, FailuresTold
<1>2. Init => LedgerInv
    BY PresentInit, CountedInit, EffectsInit, HandoverInit DEF LedgerInv
<1>3. LedgerInv /\ [Next]_vars => LedgerInv'
    BY PresentStep, TypeStep, CountStep, AttemptsStep, EffectsStep, HandoverStep
    DEF LedgerInv, Counted
<1>4. LedgerInv /\ [Next]_vars => [Ledger!Next]_(Ledger!ledger)
    BY StepOfLedger DEF Ledger!ledger, EffectsTold, MessagesTold, FailuresTold
<1> QED
    BY <1>1, <1>2, <1>3, <1>4, PTL DEF Spec, ImplementsLedger, Ledger!Spec

=============================================================================
