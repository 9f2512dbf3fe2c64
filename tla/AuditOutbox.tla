---------------------------- MODULE AuditOutbox -----------------------------
(***************************************************************************)
(* The delivery of audit events.  Business transactions write rows into    *)
(* prj_audit_outbox.  A dispatcher claims a batch of them, reports them to *)
(* the platform one by one and records each outcome.  Every replica of the *)
(* API runs one dispatcher.                                                *)
(*                                                                         *)
(* The rows of a batch share the moment of their claim: the lease of the   *)
(* last ones may be over before it is their turn.  Outcomes are recorded   *)
(* by the id of the row alone.                                             *)
(***************************************************************************)
EXTENDS Naturals, FiniteSets

CONSTANTS
    Audits,         \* audit events
    Dispatchers,    \* one for every replica
    NoAudit,        \* the absent event
    BatchSize,      \* rows of a claim at most
    MaxTries,       \* claims after which a failure is final
    MaxFaults,      \* bound: crashes and outcomes that are not written
    MaxResets       \* bound: final failures an operator releases again

ASSUME NoAuditAssumption == NoAudit \notin Audits
ASSUME TriesAssumption == MaxTries \in Nat \ {0} /\ BatchSize \in Nat \ {0}
ASSUME BoundsAssumption == MaxFaults \in Nat /\ MaxResets \in Nat

VARIABLES
    outbox,     \* the rows of prj_audit_outbox
    dispatcher, \* the batch of each dispatcher and what it is at
    recorded,   \* records of an event at the platform: none, one or "many" (2)
    faults,     \* counts against MaxFaults
    resets      \* counts against MaxResets

vars == <<outbox, dispatcher, recorded, faults, resets>>

-----------------------------------------------------------------------------

\* locked_at is "free" (NULL), "live" (the lease runs) or "expired"; "due" is
\* whether next_attempt_at has passed.  Attempts from MaxTries on are told apart
\* by nobody and count as MaxTries.
FreshRow(status) == [status |-> status, lease |-> "free", due |-> TRUE, attempts |-> 0]

\* todo: claimed and not yet reported.  at: the event whose outcome is pending.
\* read: the attempts MarkFailed has read.
Ready(todo) == [todo |-> todo, at |-> NoAudit, step |-> "next", read |-> 0]
Waiting == Ready({})
At(todo, a, step, read) == [todo |-> todo, at |-> a, step |-> step, read |-> read]

Init == /\ outbox = [a \in Audits |-> FreshRow("absent")]
        /\ dispatcher = [d \in Dispatchers |-> Waiting]
        /\ recorded = [a \in Audits |-> 0]
        /\ faults = 0
        /\ resets = 0

Least(m, n) == IF m < n THEN m ELSE n

\* A business transaction commits with its audit event.
AuditWritten(a) ==
    /\ outbox[a].status = "absent"
    /\ outbox' = [outbox EXCEPT ![a].status = "pending"]
    /\ UNCHANGED <<dispatcher, recorded, faults, resets>>

-----------------------------------------------------------------------------
(* The dispatcher *)

\* Mutant: a claim does not take over the last attempt of a crashed dispatcher.
ClaimableWithinBudget(a) ==
    /\ outbox[a].due
    /\ outbox[a].lease # "live"
    /\ outbox[a].status \in {"pending", "retry", "processing"}
    /\ outbox[a].attempts < MaxTries

Claimable(a) ==
    /\ outbox[a].due
    /\ outbox[a].lease # "live"
    /\ outbox[a].status \in {"pending", "retry", "processing"}
    /\ \/ outbox[a].attempts < MaxTries
       \/ outbox[a].status = "processing" /\ outbox[a].lease = "expired"

\* Rows another transaction has locked are skipped, so a batch may be any part
\* of what is claimable.
Claimed(d, batch) ==
    /\ dispatcher[d] = Waiting
    /\ batch # {} /\ Cardinality(batch) <= BatchSize
    /\ \A a \in batch : Claimable(a)
    /\ outbox' = [a \in Audits |->
                    IF a \in batch
                    THEN [status |-> "processing", lease |-> "live", due |-> TRUE,
                          attempts |-> Least(outbox[a].attempts + 1, MaxTries)]
                    ELSE outbox[a]]
    /\ dispatcher' = [dispatcher EXCEPT ![d] = Ready(batch)]
    /\ UNCHANGED <<recorded, faults, resets>>

\* Mutant: a report counts as delivered whatever the platform answers.
ReportedAndForgotten(d, a, taken, answer) ==
    /\ dispatcher[d].step = "next"
    /\ a \in dispatcher[d].todo
    /\ answer = "ok" => taken
    /\ recorded' = [recorded EXCEPT ![a] = IF taken THEN Least(@ + 1, 2) ELSE @]
    /\ dispatcher' = [dispatcher EXCEPT ![d] = At(@.todo \ {a}, a, "ok", 0)]
    /\ UNCHANGED <<outbox, faults, resets>>

\* Every report carries an event_id of its own, so the platform, which drops
\* what has an event_id it knows, records each report it takes.  The answer may
\* get lost.
Reported(d, a, taken, answer) ==
    /\ dispatcher[d].step = "next"
    /\ a \in dispatcher[d].todo
    /\ answer = "ok" => taken
    /\ recorded' = [recorded EXCEPT ![a] = IF taken THEN Least(@ + 1, 2) ELSE @]
    /\ dispatcher' = [dispatcher EXCEPT ![d] = At(@.todo \ {a}, a, answer, 0)]
    /\ UNCHANGED <<outbox, faults, resets>>

\* The next event of the batch, or the next batch.
Proceeds(d) == dispatcher' = [dispatcher EXCEPT ![d] = Ready(@.todo)]

\* The row of event a when its outcome has been written.
Released(a, status, due) == [status |-> status, lease |-> "free", due |-> due,
                             attempts |-> outbox[a].attempts]

MarkedDelivered(d) ==
    /\ dispatcher[d].step = "ok"
    /\ outbox' = [outbox EXCEPT ![dispatcher[d].at] = Released(dispatcher[d].at, "delivered", @.due)]
    /\ Proceeds(d)
    /\ UNCHANGED <<recorded, faults, resets>>

\* MarkFailed first reads the attempts of the row ...
AttemptsRead(d) ==
    /\ dispatcher[d].step = "failed"
    /\ dispatcher' = [dispatcher EXCEPT
                        ![d] = At(@.todo, @.at, "read", outbox[@.at].attempts)]
    /\ UNCHANGED <<outbox, recorded, faults, resets>>

\* Mutant: one attempt more is waited for.
MarkedFailedLate(d) ==
    /\ dispatcher[d].step = "read"
    /\ outbox' = [outbox EXCEPT ![dispatcher[d].at] =
                    Released(dispatcher[d].at,
                             IF dispatcher[d].read > MaxTries THEN "failed" ELSE "retry", FALSE)]
    /\ Proceeds(d)
    /\ UNCHANGED <<recorded, faults, resets>>

\* Mutant: the last attempt but one is taken for the last.
MarkedFailedEarly(d) ==
    /\ dispatcher[d].step = "read"
    /\ outbox' = [outbox EXCEPT ![dispatcher[d].at] =
                    Released(dispatcher[d].at,
                             IF dispatcher[d].read + 1 >= MaxTries THEN "failed" ELSE "retry", FALSE)]
    /\ Proceeds(d)
    /\ UNCHANGED <<recorded, faults, resets>>

\* ... and then decides by them, in a statement of its own.
MarkedFailed(d) ==
    /\ dispatcher[d].step = "read"
    /\ outbox' = [outbox EXCEPT ![dispatcher[d].at] =
                    Released(dispatcher[d].at,
                             IF dispatcher[d].read >= MaxTries THEN "failed" ELSE "retry", FALSE)]
    /\ Proceeds(d)
    /\ UNCHANGED <<recorded, faults, resets>>

\* An outcome that cannot be written is logged and left to the lease.
MarkLost(d) ==
    /\ dispatcher[d].step # "next"
    /\ faults < MaxFaults
    /\ Proceeds(d)
    /\ faults' = faults + 1
    /\ UNCHANGED <<outbox, recorded, resets>>

Crashed(d) ==
    /\ dispatcher[d] # Waiting
    /\ faults < MaxFaults
    /\ dispatcher' = [dispatcher EXCEPT ![d] = Waiting]
    /\ faults' = faults + 1
    /\ UNCHANGED <<outbox, recorded, resets>>

-----------------------------------------------------------------------------
(* The operator, and time *)

\* Mutant: any event can be released for another round.
FailedReleasedAny(a) ==
    /\ resets < MaxResets
    /\ outbox[a].status # "absent"
    /\ outbox' = [outbox EXCEPT ![a] = FreshRow("retry")]
    /\ resets' = resets + 1
    /\ UNCHANGED <<dispatcher, recorded, faults>>

FailedReleased(a) ==
    /\ resets < MaxResets
    /\ outbox[a].status = "failed"
    /\ outbox' = [outbox EXCEPT ![a] = FreshRow("retry")]
    /\ resets' = resets + 1
    /\ UNCHANGED <<dispatcher, recorded, faults>>

\* Nothing bounds the time a batch takes by the lease.
LeaseExpires(a) ==
    /\ outbox[a].lease = "live"
    /\ outbox' = [outbox EXCEPT ![a].lease = "expired"]
    /\ UNCHANGED <<dispatcher, recorded, faults, resets>>

RetryFallsDue(a) ==
    /\ outbox[a].status = "retry"
    /\ ~outbox[a].due
    /\ outbox' = [outbox EXCEPT ![a].due = TRUE]
    /\ UNCHANGED <<dispatcher, recorded, faults, resets>>

-----------------------------------------------------------------------------

DeliverOnce(d) ==
    \/ \E a \in Audits, taken \in BOOLEAN, answer \in {"ok", "failed"} :
           Reported(d, a, taken, answer)
    \/ MarkedDelivered(d)
    \/ AttemptsRead(d)
    \/ MarkedFailed(d)

Next ==
    \/ \E a \in Audits : AuditWritten(a)
    \/ \E d \in Dispatchers, batch \in SUBSET Audits : Claimed(d, batch)
    \/ \E d \in Dispatchers : DeliverOnce(d) \/ MarkLost(d) \/ Crashed(d)
    \/ \E a \in Audits : FailedReleased(a) \/ LeaseExpires(a) \/ RetryFallsDue(a)

Spec == Init /\ [][Next]_vars

\* Rows are claimed in the order they fall due, so none is passed over for ever;
\* a dispatcher works through its batch; time passes.
Fairness ==
    /\ \A a \in Audits :
          /\ SF_vars(\E d \in Dispatchers, batch \in SUBSET Audits :
                        a \in batch /\ Claimed(d, batch))
          /\ WF_vars(LeaseExpires(a))
          /\ WF_vars(RetryFallsDue(a))
    /\ \A d \in Dispatchers : WF_vars(DeliverOnce(d))

FairSpec == Spec /\ Fairness

-----------------------------------------------------------------------------
(* Properties *)

RowRecords == [status: {"absent", "pending", "processing", "retry", "delivered", "failed"},
               lease: {"free", "live", "expired"}, due: BOOLEAN, attempts: 0..MaxTries]

DispatcherRecords == [todo: SUBSET Audits, at: Audits \cup {NoAudit},
                      step: {"next", "ok", "failed", "read"}, read: 0..MaxTries]

\* The shape of the rows and of the dispatchers; the statuses are those the
\* claim and the operator know.
TypeOK ==
    /\ outbox \in [Audits -> RowRecords]
    /\ dispatcher \in [Dispatchers -> DispatcherRecords]
    /\ \A d \in Dispatchers : dispatcher[d].at = NoAudit <=> dispatcher[d].step = "next"
    /\ recorded \in [Audits -> 0..2]
    /\ faults \in 0..MaxFaults
    /\ resets \in 0..MaxResets

\* The local copy of an event is only ticked off when the platform has one.
DeliveredOnlyIfRecorded ==
    \A a \in Audits : outbox[a].status = "delivered" => recorded[a] > 0

\* Every event that is not delivered either waits in a state from which a claim
\* takes it, at once or after its lease or its delay, or is at a dispatcher, or is
\* shown to the operator, who can release it.  An event outside of both is lost without a trace: it is
\* neither claimed nor listed (Claim, ListFailed and RetryFailed).
NoneStranded ==
    \A a \in Audits :
        outbox[a].status \in {"pending", "retry"} =>
            \/ outbox[a].attempts < MaxTries
            \/ \E d \in Dispatchers : a \in dispatcher[d].todo \cup {dispatcher[d].at}

\* An event that was delivered is not taken up again.
DeliveredForGood ==
    [][\A a \in Audits : outbox[a].status = "delivered" => outbox'[a] = outbox[a]]_vars

\* A failure is final, and needs the operator, only after all of the attempts.
FailedOnlyAfterAllTries ==
    \A a \in Audits : outbox[a].status = "failed" => outbox[a].attempts = MaxTries

\* Every event comes to be delivered or is shown to the operator.
AuditsSettle ==
    \A a \in Audits :
        outbox[a].status # "absent" ~> outbox[a].status \in {"delivered", "failed"}

\* The platform keeps one record of an event, however often it was reported
\* (GORMStore: delivered at least once, and the platform deduplicates by event_id).
RecordedOnce == \A a \in Audits : recorded[a] <= 1

=============================================================================
