--------------------------- MODULE DeliveryOutbox ---------------------------
(***************************************************************************)
(* What follows an accepted delivery event: a job in                       *)
(* pm_delivery_effects_outbox, which derives an automation or warning      *)
(* event and its message, and messages in pm_notification_outbox, which    *)
(* are published to the platform.                                          *)
(*                                                                         *)
(* Both tables are worked off in the same way.  A worker is one execution  *)
(* of an activity, with an owner id of its own: it claims one row for the  *)
(* time of a lease, works on it outside of any transaction, and records    *)
(* the outcome only while it still holds the lease.  It may be gone at any *)
(* point: a crash, the timeout of the activity, or a license that is       *)
(* refused at one of the checks between its steps.                         *)
(***************************************************************************)
EXTENDS Naturals

CONSTANTS
    Events,         \* delivery events a rule or a recipient is interested in
    Recorded,       \* ... whose job derives an event (automation, warning)
    Notified,       \* ... whose job derives a message (automation, roles)
    Workers,        \* executions of the dispatching activities
    NoWorker,       \* the empty owner of a row
    MaxAttempts,    \* failed publications that make a message a dead letter
    MaxFaults       \* bound: workers that vanish or outlive their lease

ASSUME NoWorkerAssumption == NoWorker \notin Workers
\* A job is only written for an event with something to derive.
ASSUME KindsAssumption == Recorded \cup Notified = Events
ASSUME AttemptsAssumption == MaxAttempts \in Nat \ {0}
ASSUME FaultsAssumption == MaxFaults \in Nat

VARIABLES
    outbox,     \* the rows of both tables
    derived,    \* source events whose derived events are in the history
    worker,     \* what each worker is at
    accepted,   \* messages the platform has accepted, by idempotency key
    faults      \* counts against MaxFaults

vars == <<outbox, derived, worker, accepted, faults>>

-----------------------------------------------------------------------------

\* Per event the effects job, the message of the event itself and the message
\* the job derives.
Job(e) == <<e, "effects">>
Direct(e) == <<e, "direct">>
Derived(e) == <<e, "derived">>

Jobs == {Job(e) : e \in Events}
Messages == {Direct(e) : e \in Events} \cup {Derived(e) : e \in Events}
Rows == Jobs \cup Messages
NoRow == <<>>

Unsettled == {"PENDING", "PROCESSING", "RETRY_WAIT"}
Settled == {"SENT", "DEAD_LETTER", "COMPLETED"}

\* locked_until is "free" (NULL), "live" (in the future) or "expired"; "due" is
\* whether next_retry_at has passed.
AbsentRow == [status |-> "ABSENT", owner |-> NoWorker, lease |-> "free",
              due |-> TRUE, attempts |-> 0]
PendingRow == [AbsentRow EXCEPT !.status = "PENDING"]

Idle == [step |-> "idle", row |-> NoRow, attempts |-> 0]

Init == /\ outbox = [r \in Rows |-> AbsentRow]
        /\ derived = {}
        /\ worker = [w \in Workers |-> Idle]
        /\ accepted = {}
        /\ faults = 0

-----------------------------------------------------------------------------
(* Producing *)

\* The transaction of an event writes its job, where a rule matches, and its
\* message, where it has recipients.
EventApplied(e, written) ==
    /\ \A r \in {Job(e), Direct(e)} : outbox[r].status = "ABSENT"
    /\ outbox' = [r \in Rows |-> IF r \in written THEN PendingRow ELSE outbox[r]]
    /\ UNCHANGED <<derived, worker, accepted, faults>>

-----------------------------------------------------------------------------
(* Claiming *)

\* Mutant: a row that is being processed is never taken over.
ClaimableUnprocessed(r) == /\ outbox[r].status \in {"PENDING", "RETRY_WAIT"}
                           /\ outbox[r].due
                           /\ outbox[r].lease # "live"

\* A row whose worker let its lease run out is taken over.
Claimable(r) == /\ outbox[r].status \in Unsettled
                /\ outbox[r].due
                /\ outbox[r].lease # "live"

\* Mutant: a row is taken over as if nobody had tried it before.
ClaimedAfresh(w, r) ==
    /\ worker[w].step = "idle"
    /\ Claimable(r)
    /\ outbox' = [outbox EXCEPT ![r].status = "PROCESSING", ![r].owner = w,
                                ![r].lease = "live", ![r].attempts = 0]
    /\ worker' = [worker EXCEPT ![w] = [step |-> "claimed", row |-> r, attempts |-> 0]]
    /\ UNCHANGED <<derived, accepted, faults>>

Claimed(w, r) ==
    /\ worker[w].step = "idle"
    /\ Claimable(r)
    /\ outbox' = [outbox EXCEPT ![r].status = "PROCESSING", ![r].owner = w,
                                ![r].lease = "live"]
    /\ worker' = [worker EXCEPT ![w] = [step |-> "claimed", row |-> r,
                                        attempts |-> outbox[r].attempts]]
    /\ UNCHANGED <<derived, accepted, faults>>

\* The condition under which an outcome is written: locked_by and locked_until
\* still are those of this claim.
Holds(w) == LET row == outbox[worker[w].row] IN
            /\ row.status = "PROCESSING"
            /\ row.owner = w
            /\ row.lease = "live"

\* The row of w is released in state "status".
Released(w, status) == [outbox[worker[w].row] EXCEPT !.status = status,
                                                     !.owner = NoWorker,
                                                     !.lease = "free"]

\* A row that waits for another attempt, or is given up.
Delayed(status, attempts) ==
    [status |-> status, owner |-> NoWorker, lease |-> "free", due |-> FALSE,
     attempts |-> attempts]

Rests(w) == worker' = [worker EXCEPT ![w] = Idle]

-----------------------------------------------------------------------------
(* Notifications *)

\* Mutant: whatever the platform answers counts as success.
PublishedAndForgotten(w, taken, answer) ==
    /\ worker[w].step = "claimed"
    /\ worker[w].row \in Messages
    /\ answer = "ok" => taken
    /\ accepted' = IF taken THEN accepted \cup {worker[w].row} ELSE accepted
    /\ worker' = [worker EXCEPT ![w].step = "ok"]
    /\ UNCHANGED <<outbox, derived, faults>>

\* The platform takes a message or not, once for every idempotency key.  The
\* answer may get lost, but it says "ok" only where the message was taken.
Published(w, taken, answer) ==
    /\ worker[w].step = "claimed"
    /\ worker[w].row \in Messages
    /\ answer = "ok" => taken
    /\ accepted' = IF taken THEN accepted \cup {worker[w].row} ELSE accepted
    /\ worker' = [worker EXCEPT ![w].step = answer]
    /\ UNCHANGED <<outbox, derived, faults>>

\* Mutant: the acknowledgement does not ask for the lease.
NotificationSentUnheld(w) ==
    /\ worker[w].step = "ok"
    /\ worker[w].row \in Messages
    /\ outbox' = [outbox EXCEPT ![worker[w].row] = Released(w, "SENT")]
    /\ Rests(w)
    /\ UNCHANGED <<derived, accepted, faults>>

NotificationSent(w) ==
    /\ worker[w].step = "ok"
    /\ worker[w].row \in Messages
    /\ Holds(w)
    /\ outbox' = [outbox EXCEPT ![worker[w].row] = Released(w, "SENT")]
    /\ Rests(w)
    /\ UNCHANGED <<derived, accepted, faults>>

\* Mutant: a failed publication is counted without the lease.
NotificationRetriedUnheld(w) ==
    LET dead == worker[w].attempts + 1 >= MaxAttempts IN
    /\ worker[w].step = "failed"
    /\ worker[w].row \in Messages
    /\ outbox' = [outbox EXCEPT ![worker[w].row] =
                    Delayed(IF dead THEN "DEAD_LETTER" ELSE "RETRY_WAIT", @.attempts + 1)]
    /\ Rests(w)
    /\ UNCHANGED <<derived, accepted, faults>>

\* Whether the message is dead is decided by the count read with the claim; the
\* count that is increased is the one of the row.
NotificationRetried(w) ==
    LET dead == worker[w].attempts + 1 >= MaxAttempts IN
    /\ worker[w].step = "failed"
    /\ worker[w].row \in Messages
    /\ Holds(w)
    /\ outbox' = [outbox EXCEPT ![worker[w].row] =
                    Delayed(IF dead THEN "DEAD_LETTER" ELSE "RETRY_WAIT", @.attempts + 1)]
    /\ Rests(w)
    /\ UNCHANGED <<derived, accepted, faults>>

-----------------------------------------------------------------------------
(* Effects *)

\* The recipients of all roles are looked up in the directory: all or nothing.
EffectsBuilt(w, answer) ==
    /\ worker[w].step = "claimed"
    /\ worker[w].row \in Jobs
    /\ worker' = [worker EXCEPT ![w].step = answer]
    /\ UNCHANGED <<outbox, derived, accepted, faults>>

\* One transaction writes the derived events, whose ids are fixed and which
\* cannot be written twice, the message, unless its key is there already, and
\* the end of the job.  A worker that does not hear of the commit goes on as if
\* the transaction had failed.
EffectsCompleted(w, e, heard) ==
    /\ worker[w].step = "ok"
    /\ worker[w].row = Job(e)
    /\ Holds(w)
    /\ e \notin derived
    /\ derived' = derived \cup ({e} \cap Recorded)
    /\ outbox' = [outbox EXCEPT
                    ![Job(e)] = Released(w, "COMPLETED"),
                    ![Derived(e)] = IF e \in Notified /\ @.status = "ABSENT"
                                    THEN PendingRow ELSE @]
    /\ worker' = [worker EXCEPT ![w] = IF heard THEN Idle ELSE [@ EXCEPT !.step = "failed"]]
    /\ UNCHANGED <<accepted, faults>>

\* A transaction that fails, for want of the lease too, is answered by a retry.
EffectsFailed(w) ==
    /\ worker[w].step = "ok"
    /\ worker[w].row \in Jobs
    /\ worker' = [worker EXCEPT ![w].step = "failed"]
    /\ UNCHANGED <<outbox, derived, accepted, faults>>

\* Mutant: the retry does not ask for the lease.
EffectsRetriedUnheld(w) ==
    /\ worker[w].step = "failed"
    /\ worker[w].row \in Jobs
    /\ outbox' = [outbox EXCEPT ![worker[w].row] =
                    Delayed("RETRY_WAIT", @.attempts)]
    /\ Rests(w)
    /\ UNCHANGED <<derived, accepted, faults>>

\* A job is never given up; its count of attempts only sets the delay.
EffectsRetried(w) ==
    /\ worker[w].step = "failed"
    /\ worker[w].row \in Jobs
    /\ Holds(w)
    /\ outbox' = [outbox EXCEPT ![worker[w].row] =
                    Delayed("RETRY_WAIT", @.attempts)]
    /\ Rests(w)
    /\ UNCHANGED <<derived, accepted, faults>>

-----------------------------------------------------------------------------
(* Losing a lease, and time *)

\* An outcome that comes after the lease is an ErrConflict and ends the worker.
Conflicted(w) ==
    /\ worker[w].step = "failed" \/ (worker[w].step = "ok" /\ worker[w].row \in Messages)
    /\ ~Holds(w)
    /\ Rests(w)
    /\ UNCHANGED <<outbox, derived, accepted, faults>>

Abandoned(w) ==
    /\ worker[w].step # "idle"
    /\ faults < MaxFaults
    /\ Rests(w)
    /\ faults' = faults + 1
    /\ UNCHANGED <<outbox, derived, accepted>>

\* The owner of row r is still at work on it.
AtWork(r) == \E w \in Workers : worker[w].row = r /\ outbox[r].owner = w

LeaseExpires(r) ==
    /\ outbox[r].lease = "live"
    /\ ~AtWork(r)
    /\ outbox' = [outbox EXCEPT ![r].lease = "expired"]
    /\ UNCHANGED <<derived, worker, accepted, faults>>

\* The timeout of an activity is shorter than the lease, so only a worker that
\* was held up, in the scheduler or in the network, outlives its lease.
LeaseOutlived(r) ==
    /\ outbox[r].lease = "live"
    /\ AtWork(r)
    /\ faults < MaxFaults
    /\ outbox' = [outbox EXCEPT ![r].lease = "expired"]
    /\ faults' = faults + 1
    /\ UNCHANGED <<derived, worker, accepted>>

RetryFallsDue(r) ==
    /\ outbox[r].status \in Unsettled
    /\ ~outbox[r].due
    /\ outbox' = [outbox EXCEPT ![r].due = TRUE]
    /\ UNCHANGED <<derived, worker, accepted, faults>>

-----------------------------------------------------------------------------

Dispatch(w) ==
    \/ \E taken \in BOOLEAN, answer \in {"ok", "failed"} : Published(w, taken, answer)
    \/ NotificationSent(w)
    \/ NotificationRetried(w)
    \/ \E answer \in {"ok", "failed"} : EffectsBuilt(w, answer)
    \/ \E e \in Events, heard \in BOOLEAN : EffectsCompleted(w, e, heard)
    \/ EffectsFailed(w)
    \/ EffectsRetried(w)
    \/ Conflicted(w)

Next ==
    \/ \E e \in Events, written \in SUBSET Rows :
           /\ written \in (SUBSET {Job(e), Direct(e)}) \ {{}}
           /\ EventApplied(e, written)
    \/ \E w \in Workers, r \in Rows : Claimed(w, r)
    \/ \E w \in Workers : Dispatch(w)
    \/ \E w \in Workers : Abandoned(w)
    \/ \E r \in Rows : LeaseExpires(r) \/ LeaseOutlived(r) \/ RetryFallsDue(r)

Spec == Init /\ [][Next]_vars

\* Rows are claimed oldest first, so none is passed over for ever.  A worker
\* moves on or is gone, leases run out and delays pass.  The directory and the
\* database are not down whenever a job needs them.
Fairness ==
    /\ \A r \in Rows : SF_vars(\E w \in Workers : Claimed(w, r))
    /\ \A w \in Workers : WF_vars(Dispatch(w))
    /\ \A r \in Rows : WF_vars(LeaseExpires(r)) /\ WF_vars(RetryFallsDue(r))
    /\ \A e \in Events :
          /\ SF_vars(\E w \in Workers : worker[w].row = Job(e) /\ EffectsBuilt(w, "ok"))
          /\ SF_vars(\E w \in Workers : EffectsCompleted(w, e, TRUE))

FairSpec == Spec /\ Fairness

-----------------------------------------------------------------------------
(* Properties *)

RowRecords == [status: {"ABSENT"} \cup Unsettled \cup Settled,
               owner: Workers \cup {NoWorker}, lease: {"free", "live", "expired"},
               due: BOOLEAN, attempts: Nat]

WorkerRecords == [step: {"idle", "claimed", "ok", "failed"},
                  row: Rows \cup {NoRow}, attempts: Nat]

\* The shape of the rows and of the workers: the statuses are those the claims
\* know, and a worker has a row exactly while it is at work.
TypeOK ==
    /\ outbox \in [Rows -> RowRecords]
    /\ derived \subseteq Events
    /\ worker \in [Workers -> WorkerRecords]
    /\ \A w \in Workers : worker[w].row = NoRow <=> worker[w].step = "idle"
    /\ accepted \subseteq Messages
    /\ faults \in Nat

\* The derived events and the derived message of an event are in the database
\* exactly when its job is completed: a job that failed half-way, was taken over
\* or was retried by a worker that did not hear of its own commit leaves neither
\* less nor more.
EffectsExactlyOnce ==
    \A e \in Events :
        LET done == outbox[Job(e)].status = "COMPLETED" IN
        /\ e \in derived <=> done /\ e \in Recorded
        /\ outbox[Derived(e)].status # "ABSENT" <=> done /\ e \in Notified

\* No message is recorded as sent that the platform does not have, whoever
\* recorded it and however often the row changed hands.
SentOnlyIfAccepted ==
    \A m \in Messages : outbox[m].status = "SENT" => m \in accepted

\* A message is given up after exactly MaxAttempts failures.  The decision is
\* taken from the count read with the claim, the count that is increased is that
\* of the row: only the lease keeps the two together.
AttemptsBounded ==
    \A m \in Messages :
        /\ outbox[m].attempts <= MaxAttempts
        /\ outbox[m].status = "DEAD_LETTER" <=> outbox[m].attempts = MaxAttempts

\* What is settled stays as it is: a late worker neither sends a dead letter nor
\* revives a message that was sent.
SettledForGood ==
    [][\A r \in Rows : outbox[r].status \in Settled => outbox'[r] = outbox[r]]_vars

\* What a reader of the two tables is told of a row.
Told(status) == CASE status = "ABSENT" -> "none"
                  [] status \in Unsettled -> "due"
                  [] status = "COMPLETED" -> "done"
                  [] status = "SENT" -> "sent"
                  [] status = "DEAD_LETTER" -> "dead"

Ledger == INSTANCE DeliveryLedger WITH
    effects <- [e \in Events |-> Told(outbox[Job(e)].status)],
    message <- [m \in Messages |-> Told(outbox[m].status)],
    history <- derived,
    failures <- [m \in Messages |-> outbox[m].attempts]

\* Claims, leases, takeovers, late answers and commits nobody heard of do not show: the two
\* tables (ClaimNotificationOutbox and MarkNotificationOutboxRetry, ClaimDeliveryEffects and
\* CompleteDeliveryEffects) change like a ledger in which every outcome happens at once.  No
\* takeover forgets a failure or adds one, and no late outcome changes what was settled.
ImplementsLedger == Ledger!Spec

\* No message is left behind, whatever happened to the workers that had it.
NotificationsSettle ==
    \A m \in Messages :
        outbox[m].status # "ABSENT" ~> outbox[m].status \in {"SENT", "DEAD_LETTER"}

\* No job is given up, however often the directory failed it.
EffectsSettle ==
    \A e \in Events : outbox[Job(e)].status # "ABSENT" ~> outbox[Job(e)].status = "COMPLETED"

=============================================================================
