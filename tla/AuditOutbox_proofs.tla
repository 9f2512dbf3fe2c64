------------------------- MODULE AuditOutbox_proofs --------------------------
(***************************************************************************)
(* Proofs about the audit outbox: for any number of replicas, what it      *)
(* shares with the other outboxes; for a single one, what the missing      *)
(* check of the lease costs as soon as there are two.                      *)
(***************************************************************************)
EXTENDS AuditOutbox, TLAPS

-----------------------------------------------------------------------------
(* Records *)

LEMMA LeastBound ==
    ASSUME NEW n \in 0..MaxTries
    PROVE  Least(n + 1, MaxTries) \in 0..MaxTries
    BY TriesAssumption DEF Least

\* The states of a dispatcher.
LEMMA DispatcherTyping ==
    ASSUME NEW todo \in SUBSET Audits
    PROVE  /\ Ready(todo) \in DispatcherRecords
           /\ Ready(todo).todo = todo /\ Ready(todo).at = NoAudit /\ Ready(todo).step = "next"
           /\ \A a \in Audits, step \in {"ok", "failed", "read"}, read \in 0..MaxTries :
                 /\ At(todo, a, step, read) \in DispatcherRecords
                 /\ At(todo, a, step, read).todo = todo /\ At(todo, a, step, read).at = a
                 /\ At(todo, a, step, read).step = step /\ At(todo, a, step, read).read = read
    BY TriesAssumption DEF Ready, At, DispatcherRecords

LEMMA FreshTyping ==
    ASSUME NEW status \in {"absent", "pending", "retry"}
    PROVE  /\ FreshRow(status) \in RowRecords
           /\ FreshRow(status).status = status /\ FreshRow(status).lease = "free"
           /\ FreshRow(status).attempts = 0
    BY TriesAssumption DEF FreshRow, RowRecords

\* A row whose outcome has been written.
LEMMA ReleasedTyping ==
    ASSUME TypeOK, NEW a \in Audits, NEW due \in BOOLEAN,
           NEW status \in {"retry", "delivered", "failed"}
    PROVE  /\ Released(a, status, due) \in RowRecords
           /\ Released(a, status, due).status = status
           /\ Released(a, status, due).lease = "free"
           /\ Released(a, status, due).attempts = outbox[a].attempts
<1>1. outbox[a].attempts \in 0..MaxTries
    BY DEF TypeOK, RowRecords
<1> QED
    BY <1>1 DEF Released, RowRecords

LEMMA AtAudit ==
    ASSUME TypeOK, NEW d \in Dispatchers
    PROVE  /\ dispatcher[d].todo \in SUBSET Audits
           /\ dispatcher[d].step # "next" => dispatcher[d].at \in Audits
           /\ dispatcher[d].read \in 0..MaxTries
    BY NoAuditAssumption DEF TypeOK, DispatcherRecords

LEMMA RowTyping ==
    ASSUME TypeOK, NEW a \in Audits
    PROVE  outbox[a] \in RowRecords /\ outbox[a].attempts \in 0..MaxTries /\ outbox[a].due \in BOOLEAN
    BY DEF TypeOK, RowRecords

-----------------------------------------------------------------------------
(* The steps, row by row *)

\* The three outcomes leave one row behind and all others alone.
LEMMA MarkStep ==
    ASSUME TypeOK, NEW d \in Dispatchers, MarkedDelivered(d) \/ MarkedFailed(d)
    PROVE  LET a == dispatcher[d].at IN
           /\ a \in Audits
           /\ outbox' \in [Audits -> RowRecords]
           /\ outbox'[a].status =
                  IF dispatcher[d].step = "ok" THEN "delivered"
                  ELSE IF dispatcher[d].read >= MaxTries THEN "failed" ELSE "retry"
           /\ outbox'[a].lease = "free" /\ outbox'[a].attempts = outbox[a].attempts
           /\ \A b \in Audits : b # a => outbox'[b] = outbox[b]
<1> DEFINE a == dispatcher[d].at
<1>1. a \in Audits
    BY AtAudit DEF MarkedDelivered, MarkedFailed
<1>2. CASE MarkedDelivered(d)
    <2>1. outbox' = [outbox EXCEPT ![a] = Released(a, "delivered", outbox[a].due)]
        BY <1>1, <1>2 DEF MarkedDelivered, TypeOK
    <2>2. outbox[a].due \in BOOLEAN /\ dispatcher[d].step = "ok"
        BY <1>1, <1>2, RowTyping DEF MarkedDelivered
    <2> DEFINE due == outbox[a].due
    <2>3. due \in BOOLEAN /\ outbox' = [outbox EXCEPT ![a] = Released(a, "delivered", due)]
        BY <2>1, <2>2
    <2> HIDE DEF due
    <2>4. /\ outbox' \in [Audits -> RowRecords] /\ outbox'[a].status = "delivered"
          /\ outbox'[a].lease = "free" /\ outbox'[a].attempts = outbox[a].attempts
          /\ \A b \in Audits : b # a => outbox'[b] = outbox[b]
        <3> DEFINE row == Released(a, "delivered", due)
        <3>1. /\ row \in RowRecords /\ row.status = "delivered"
              /\ row.lease = "free" /\ row.attempts = outbox[a].attempts
            BY <1>1, <2>3, ReleasedTyping
        <3>2. outbox' = [outbox EXCEPT ![a] = row]
            BY <2>3
        <3> HIDE DEF row
        <3> QED
            BY <1>1, <3>1, <3>2 DEF TypeOK
    <2> QED
        BY <1>1, <2>2, <2>4
<1>3. CASE MarkedFailed(d)
    <2> DEFINE status == IF dispatcher[d].read >= MaxTries THEN "failed" ELSE "retry"
    <2>1. outbox' = [outbox EXCEPT ![a] = Released(a, status, FALSE)]
        BY <1>3 DEF MarkedFailed
    <2>2. status \in {"failed", "retry"} /\ dispatcher[d].step = "read"
        BY <1>3 DEF MarkedFailed
    <2> HIDE DEF status
    <2>3. /\ outbox' \in [Audits -> RowRecords] /\ outbox'[a].status = status
          /\ outbox'[a].lease = "free" /\ outbox'[a].attempts = outbox[a].attempts
          /\ \A b \in Audits : b # a => outbox'[b] = outbox[b]
        <3> DEFINE row == Released(a, status, FALSE)
        <3>1. /\ row \in RowRecords /\ row.status = status
              /\ row.lease = "free" /\ row.attempts = outbox[a].attempts
            BY <1>1, <2>2, RowTyping DEF Released, RowRecords
        <3>2. outbox' = [outbox EXCEPT ![a] = row]
            BY <2>1
        <3> HIDE DEF row
        <3> QED
            BY <1>1, <3>1, <3>2 DEF TypeOK
    <2> QED
        BY <1>1, <2>2, <2>3 DEF status
<1> QED
    BY <1>2, <1>3

LEMMA ClaimedStep ==
    ASSUME TypeOK, NEW d \in Dispatchers, NEW batch \in SUBSET Audits, Claimed(d, batch)
    PROVE  /\ outbox' \in [Audits -> RowRecords]
           /\ \A a \in batch : Claimable(a) /\ outbox'[a].status = "processing"
           /\ \A a \in Audits \ batch : outbox'[a] = outbox[a]
           /\ dispatcher' \in [Dispatchers -> DispatcherRecords]
           /\ dispatcher[d] = Waiting /\ dispatcher'[d] = Ready(batch)
           /\ \A c \in Dispatchers : c # d => dispatcher'[c] = dispatcher[c]
<1> DEFINE row(a) == [status |-> "processing", lease |-> "live", due |-> TRUE,
                      attempts |-> Least(outbox[a].attempts + 1, MaxTries)]
<1>1. outbox' = [a \in Audits |-> IF a \in batch THEN row(a) ELSE outbox[a]]
    BY DEF Claimed
<1>2. \A a \in Audits : row(a) \in RowRecords /\ row(a).status = "processing"
    BY RowTyping, LeastBound DEF RowRecords
<1> HIDE DEF row
<1>3. outbox' \in [Audits -> RowRecords]
    BY <1>1, <1>2 DEF TypeOK
<1>4. /\ \A a \in batch : outbox'[a].status = "processing"
      /\ \A a \in Audits \ batch : outbox'[a] = outbox[a]
    BY <1>1, <1>2
<1>5. /\ \A a \in batch : Claimable(a)
      /\ dispatcher[d] = Waiting /\ dispatcher' = [dispatcher EXCEPT ![d] = Ready(batch)]
    BY DEF Claimed
<1>6. dispatcher' \in [Dispatchers -> DispatcherRecords] /\ dispatcher'[d] = Ready(batch)
      /\ \A c \in Dispatchers : c # d => dispatcher'[c] = dispatcher[c]
    BY <1>5, DispatcherTyping DEF TypeOK
<1> QED
    BY <1>3, <1>4, <1>5, <1>6

\* Rows that change without a dispatcher.
LEMMA RowStep ==
    ASSUME TypeOK, NEW a \in Audits,
           AuditWritten(a) \/ FailedReleased(a) \/ LeaseExpires(a) \/ RetryFallsDue(a)
    PROVE  /\ outbox' \in [Audits -> RowRecords]
           /\ \A b \in Audits : b # a => outbox'[b] = outbox[b]
           /\ \/ /\ outbox[a].status = "absent" /\ outbox'[a].status = "pending"
                 /\ outbox'[a].attempts = outbox[a].attempts /\ outbox'[a].lease = outbox[a].lease
              \/ /\ outbox[a].status = "failed" /\ outbox'[a].status = "retry"
                 /\ outbox'[a].attempts = 0 /\ outbox'[a].lease = "free"
              \/ /\ outbox'[a].status = outbox[a].status
                 /\ outbox'[a].attempts = outbox[a].attempts
                 /\ \/ outbox[a].lease = "live"
                    \/ outbox[a].status = "retry" /\ outbox'[a].lease = outbox[a].lease
<1>1. outbox[a] \in RowRecords
    BY RowTyping
<1>2. CASE AuditWritten(a)
    BY <1>1, <1>2 DEF AuditWritten, TypeOK, RowRecords
<1>3. CASE FailedReleased(a)
    <2>1. outbox' = [outbox EXCEPT ![a] = FreshRow("retry")] /\ outbox[a].status = "failed"
        BY <1>3 DEF FailedReleased
    <2> QED
        BY <2>1, FreshTyping DEF TypeOK
<1>4. CASE LeaseExpires(a)
    BY <1>1, <1>4 DEF LeaseExpires, TypeOK, RowRecords
<1>5. CASE RetryFallsDue(a)
    BY <1>1, <1>5 DEF RetryFallsDue, TypeOK, RowRecords
<1> QED
    BY <1>2, <1>3, <1>4, <1>5

-----------------------------------------------------------------------------
(* The dispatchers *)

\* What a dispatcher does between two claims: it takes an event of its batch up
\* for a report, reads, or is done with one.
LEMMA DispatcherStep ==
    ASSUME TypeOK, NEW d \in Dispatchers, DeliverOnce(d) \/ MarkLost(d) \/ Crashed(d)
    PROVE  /\ dispatcher' \in [Dispatchers -> DispatcherRecords]
           /\ \A c \in Dispatchers : c # d => dispatcher'[c] = dispatcher[c]
           /\ dispatcher'[d].at = NoAudit <=> dispatcher'[d].step = "next"
           /\ \/ \E a \in dispatcher[d].todo, answer \in {"ok", "failed"} :
                    /\ dispatcher'[d] = At(dispatcher[d].todo \ {a}, a, answer, 0)
                    /\ \E taken \in BOOLEAN : Reported(d, a, taken, answer)
              \/ /\ dispatcher[d].step = "failed"
                 /\ dispatcher'[d] = At(dispatcher[d].todo, dispatcher[d].at, "read",
                                        outbox[dispatcher[d].at].attempts)
                 /\ UNCHANGED outbox
              \/ dispatcher[d].step # "next" /\ dispatcher'[d] = Ready(dispatcher[d].todo)
              \/ dispatcher'[d] = Waiting /\ UNCHANGED outbox
<1>t. /\ dispatcher[d].todo \in SUBSET Audits
      /\ dispatcher[d].step # "next" => dispatcher[d].at \in Audits
      /\ Waiting = Ready({}) /\ {} \in SUBSET Audits
    BY AtAudit DEF Waiting
<1>1. CASE \E a \in Audits, taken \in BOOLEAN, answer \in {"ok", "failed"} :
               Reported(d, a, taken, answer)
    <2>1. PICK a \in Audits, taken \in BOOLEAN, answer \in {"ok", "failed"} :
                   Reported(d, a, taken, answer)
        BY <1>1
    <2>2. /\ a \in dispatcher[d].todo
          /\ dispatcher' = [dispatcher EXCEPT ![d] = At(dispatcher[d].todo \ {a}, a, answer, 0)]
        BY <2>1 DEF Reported, TypeOK
    <2>3. /\ At(dispatcher[d].todo \ {a}, a, answer, 0) \in DispatcherRecords
          /\ At(dispatcher[d].todo \ {a}, a, answer, 0).at = a
          /\ At(dispatcher[d].todo \ {a}, a, answer, 0).step = answer
        BY <1>t, <2>2, TriesAssumption DEF At, DispatcherRecords
    <2> QED
        BY <2>1, <2>2, <2>3, NoAuditAssumption DEF TypeOK
<1>2. CASE AttemptsRead(d)
    <2> DEFINE next == At(dispatcher[d].todo, dispatcher[d].at, "read",
                          outbox[dispatcher[d].at].attempts)
    <2>1. /\ dispatcher[d].step = "failed" /\ dispatcher[d].at \in Audits
          /\ dispatcher' = [dispatcher EXCEPT ![d] = next] /\ UNCHANGED outbox
        BY <1>2, <1>t DEF AttemptsRead, TypeOK
    <2>2. outbox[dispatcher[d].at].attempts \in 0..MaxTries
        BY <2>1, RowTyping
    <2>3. next \in DispatcherRecords /\ next.at = dispatcher[d].at /\ next.step = "read"
        BY <1>t, <2>1, <2>2 DEF At, DispatcherRecords
    <2> HIDE DEF next
    <2>4. /\ dispatcher' \in [Dispatchers -> DispatcherRecords] /\ dispatcher'[d] = next
          /\ \A c \in Dispatchers : c # d => dispatcher'[c] = dispatcher[c]
        BY <2>1, <2>3 DEF TypeOK
    <2> QED
        BY <2>1, <2>3, <2>4, NoAuditAssumption DEF next
<1>3. CASE dispatcher[d].step # "next" /\ Proceeds(d)
    <2>1. dispatcher' = [dispatcher EXCEPT ![d] = Ready(dispatcher[d].todo)]
        BY <1>3 DEF Proceeds, TypeOK
    <2> QED
        BY <1>t, <1>3, <2>1, DispatcherTyping DEF TypeOK
<1>4. CASE Crashed(d)
    <2>1. dispatcher' = [dispatcher EXCEPT ![d] = Waiting] /\ UNCHANGED outbox
        BY <1>4 DEF Crashed
    <2>2. Waiting \in DispatcherRecords /\ Waiting.at = NoAudit /\ Waiting.step = "next"
        BY <1>t, DispatcherTyping
    <2> QED
        BY <2>1, <2>2 DEF TypeOK
<1>5. MarkedDelivered(d) \/ MarkedFailed(d) \/ MarkLost(d) =>
          dispatcher[d].step # "next" /\ Proceeds(d)
    BY DEF MarkedDelivered, MarkedFailed, MarkLost
<1> QED
    BY <1>1, <1>2, <1>3, <1>4, <1>5 DEF DeliverOnce

-----------------------------------------------------------------------------
(* Any number of replicas *)

LEMMA TypeInit == Init => TypeOK
<1>1. FreshRow("absent") \in RowRecords
    BY FreshTyping
<1>2. Waiting \in DispatcherRecords /\ Waiting.at = NoAudit /\ Waiting.step = "next"
    BY DispatcherTyping DEF Waiting
<1> QED
    BY <1>1, <1>2, BoundsAssumption DEF Init, TypeOK

LEMMA TypeStep == TypeOK /\ [Next]_vars => TypeOK'
<1> SUFFICES ASSUME TypeOK, [Next]_vars PROVE TypeOK'
    OBVIOUS
<1>1. CASE \E a \in Audits :
               AuditWritten(a) \/ FailedReleased(a) \/ LeaseExpires(a) \/ RetryFallsDue(a)
    <2>1. PICK a \in Audits :
                   AuditWritten(a) \/ FailedReleased(a) \/ LeaseExpires(a) \/ RetryFallsDue(a)
        BY <1>1
    <2>2. outbox' \in [Audits -> RowRecords]
        BY <2>1, RowStep
    <2>3. resets' \in 0..MaxResets /\ UNCHANGED <<dispatcher, recorded, faults>>
        BY <2>1, BoundsAssumption
        DEF AuditWritten, FailedReleased, LeaseExpires, RetryFallsDue, TypeOK
    <2> QED
        BY <2>2, <2>3 DEF TypeOK
<1>2. CASE \E d \in Dispatchers, batch \in SUBSET Audits : Claimed(d, batch)
    <2>1. PICK d \in Dispatchers, batch \in SUBSET Audits : Claimed(d, batch)
        BY <1>2
    <2>2. Ready(batch).at = NoAudit /\ Ready(batch).step = "next"
        BY DispatcherTyping
    <2>3. \A c \in Dispatchers : dispatcher'[c].at = NoAudit <=> dispatcher'[c].step = "next"
        BY <2>1, <2>2, ClaimedStep DEF TypeOK
    <2>4. outbox' \in [Audits -> RowRecords] /\ dispatcher' \in [Dispatchers -> DispatcherRecords]
        BY <2>1, ClaimedStep
    <2> QED
        BY <2>1, <2>3, <2>4 DEF Claimed, TypeOK
<1>3. CASE \E d \in Dispatchers : DeliverOnce(d) \/ MarkLost(d) \/ Crashed(d)
    <2>1. PICK d \in Dispatchers : DeliverOnce(d) \/ MarkLost(d) \/ Crashed(d)
        BY <1>3
    <2>2. /\ dispatcher' \in [Dispatchers -> DispatcherRecords]
          /\ \A c \in Dispatchers : dispatcher'[c].at = NoAudit <=> dispatcher'[c].step = "next"
        BY <2>1, DispatcherStep DEF TypeOK
    <2>3. outbox' \in [Audits -> RowRecords]
        <3>1. CASE MarkedDelivered(d) \/ MarkedFailed(d)
            BY <3>1, MarkStep
        <3>2. CASE UNCHANGED outbox
            BY <3>2 DEF TypeOK
        <3> QED
            BY <2>1, <3>1, <3>2 DEF DeliverOnce, Reported, AttemptsRead, MarkLost, Crashed
    <2>4. recorded' \in [Audits -> 0..2] /\ resets' = resets
        <3>1. CASE \E a \in Audits, taken \in BOOLEAN, answer \in {"ok", "failed"} :
                       Reported(d, a, taken, answer)
            <4>1. PICK a \in Audits, taken \in BOOLEAN, answer \in {"ok", "failed"} :
                           Reported(d, a, taken, answer)
                BY <3>1
            <4>2. \A n \in 0..2 : Least(n + 1, 2) \in 0..2
                BY DEF Least
            <4> QED
                BY <4>1, <4>2 DEF Reported, TypeOK
        <3>2. CASE UNCHANGED <<recorded, resets>>
            BY <3>2 DEF TypeOK
        <3> QED
            BY <2>1, <3>1, <3>2
            DEF DeliverOnce, MarkedDelivered, AttemptsRead, MarkedFailed, MarkLost, Crashed
    <2>5. faults' \in 0..MaxFaults
        <3>1. faults' = faults \/ (faults < MaxFaults /\ faults' = faults + 1)
            BY <2>1
            DEF DeliverOnce, Reported, MarkedDelivered, AttemptsRead, MarkedFailed, MarkLost,
                Crashed
        <3>2. faults \in 0..MaxFaults
            BY DEF TypeOK
        <3> QED
            BY <3>1, <3>2, BoundsAssumption
    <2> QED
        BY <2>2, <2>3, <2>4, <2>5 DEF TypeOK
<1>4. CASE UNCHANGED vars
    BY <1>4 DEF vars, TypeOK
<1> QED
    BY <1>1, <1>2, <1>3, <1>4 DEF Next

\* Rows and dispatchers keep their shape.
THEOREM Typing == Spec => []TypeOK
    BY TypeInit, TypeStep, PTL DEF Spec

\* A dispatcher that is about to tick an event off has handed it over.
RecordedBeforeDelivered ==
    \A d \in Dispatchers : dispatcher[d].step = "ok" => recorded[dispatcher[d].at] > 0

Delivery == TypeOK /\ RecordedBeforeDelivered /\ DeliveredOnlyIfRecorded

LEMMA DeliveryInit == Init => Delivery
<1>1. FreshRow("absent").status = "absent" /\ Waiting.step = "next"
    BY DispatcherTyping, FreshTyping DEF Waiting
<1> QED
    BY <1>1, TypeInit DEF Init, Delivery, RecordedBeforeDelivered, DeliveredOnlyIfRecorded

\* The platform forgets nothing.
LEMMA RecordedGrows ==
    TypeOK /\ [Next]_vars => \A a \in Audits : recorded[a] > 0 => recorded'[a] > 0
<1> SUFFICES ASSUME TypeOK, [Next]_vars, NEW b \in Audits, recorded[b] > 0
             PROVE  recorded'[b] > 0
    OBVIOUS
<1>1. CASE \E d \in Dispatchers, a \in Audits, taken \in BOOLEAN, answer \in {"ok", "failed"} :
               Reported(d, a, taken, answer)
    <2>1. \A n \in 0..2 : n > 0 => Least(n + 1, 2) > 0
        BY DEF Least
    <2>2. recorded[b] \in 0..2
        BY DEF TypeOK
    <2>3. recorded'[b] = recorded[b] \/ recorded'[b] = Least(recorded[b] + 1, 2)
        BY <1>1 DEF Reported, TypeOK
    <2> QED
        BY <2>1, <2>2, <2>3
<1>2. CASE UNCHANGED recorded
    BY <1>2
<1> QED
    BY <1>1, <1>2
    DEF Next, DeliverOnce, MarkedDelivered, AttemptsRead, MarkedFailed, MarkLost, Crashed,
        AuditWritten, Claimed, FailedReleased, LeaseExpires, RetryFallsDue, vars

\* Where a row becomes delivered, a dispatcher had the platform's "ok".
LEMMA DeliveredStep ==
    ASSUME TypeOK, [Next]_vars, NEW a \in Audits,
           outbox'[a].status = "delivered", outbox[a].status # "delivered"
    PROVE  \E d \in Dispatchers : dispatcher[d].step = "ok" /\ dispatcher[d].at = a
<1>1. CASE \E b \in Audits :
               AuditWritten(b) \/ FailedReleased(b) \/ LeaseExpires(b) \/ RetryFallsDue(b)
    BY <1>1, RowStep
<1>2. CASE \E d \in Dispatchers, batch \in SUBSET Audits : Claimed(d, batch)
    BY <1>2, ClaimedStep
<1>3. CASE \E d \in Dispatchers : MarkedDelivered(d) \/ MarkedFailed(d)
    <2>1. PICK d \in Dispatchers : MarkedDelivered(d) \/ MarkedFailed(d)
        BY <1>3
    <2>2. dispatcher[d].at = a
        BY <2>1, MarkStep
    <2>3. dispatcher[d].step = "ok"
        BY <2>1, <2>2, MarkStep
    <2> QED
        BY <2>2, <2>3
<1>4. CASE UNCHANGED outbox
    BY <1>4
<1> QED
    BY <1>1, <1>2, <1>3, <1>4
    DEF Next, DeliverOnce, Reported, AttemptsRead, MarkLost, Crashed, vars

LEMMA DeliveryStep == Delivery /\ [Next]_vars => Delivery'
<1> SUFFICES ASSUME Delivery, [Next]_vars
             PROVE  RecordedBeforeDelivered' /\ DeliveredOnlyIfRecorded'
    BY TypeStep DEF Delivery
<1> USE DEF Delivery
<1>1. RecordedBeforeDelivered'
    <2> SUFFICES ASSUME NEW c \in Dispatchers, dispatcher'[c].step = "ok"
                 PROVE  recorded'[dispatcher'[c].at] > 0
        BY DEF RecordedBeforeDelivered
    <2>1. CASE dispatcher'[c] = dispatcher[c]
        <3>1. dispatcher[c].at \in Audits /\ recorded[dispatcher[c].at] > 0
            BY <2>1, AtAudit DEF RecordedBeforeDelivered
        <3> QED
            BY <2>1, <3>1, RecordedGrows
    <2>2. CASE \E batch \in SUBSET Audits : Claimed(c, batch)
        BY <2>2, ClaimedStep, DispatcherTyping
    <2>3. CASE DeliverOnce(c) \/ MarkLost(c) \/ Crashed(c)
        <3>1. CASE \E a \in dispatcher[c].todo, answer \in {"ok", "failed"} :
                       /\ dispatcher'[c] = At(dispatcher[c].todo \ {a}, a, answer, 0)
                       /\ \E taken \in BOOLEAN : Reported(c, a, taken, answer)
            <4>1. PICK a \in dispatcher[c].todo, answer \in {"ok", "failed"}, taken \in BOOLEAN :
                           /\ dispatcher'[c] = At(dispatcher[c].todo \ {a}, a, answer, 0)
                           /\ Reported(c, a, taken, answer)
                BY <3>1
            <4>2. answer = "ok" /\ dispatcher'[c].at = a
                BY <4>1 DEF At
            <4>3. a \in Audits /\ taken
                BY <4>1, <4>2, AtAudit DEF Reported
            <4>4. recorded'[a] = Least(recorded[a] + 1, 2) /\ recorded[a] \in 0..2
                BY <4>1, <4>3 DEF Reported, TypeOK
            <4> QED
                BY <4>2, <4>4 DEF Least
        <3>2. \A t : Ready(t).step # "ok"
            BY DEF Ready
        <3>3. \A t, a, n : At(t, a, "read", n).step # "ok"
            BY DEF At
        <3>4. \/ dispatcher'[c] = Ready(dispatcher[c].todo) \/ dispatcher'[c] = Ready({})
              \/ dispatcher'[c] = At(dispatcher[c].todo, dispatcher[c].at, "read",
                                    outbox[dispatcher[c].at].attempts)
              \/ \E a \in dispatcher[c].todo, answer \in {"ok", "failed"} :
                    /\ dispatcher'[c] = At(dispatcher[c].todo \ {a}, a, answer, 0)
                    /\ \E taken \in BOOLEAN : Reported(c, a, taken, answer)
            BY <2>3, DispatcherStep DEF Waiting
        <3> QED
            BY <3>1, <3>2, <3>3, <3>4
    <2> QED
        BY <2>1, <2>2, <2>3, ClaimedStep, DispatcherStep
        DEF Next, AuditWritten, FailedReleased, LeaseExpires, RetryFallsDue, vars
<1>2. DeliveredOnlyIfRecorded'
    <2> SUFFICES ASSUME NEW a \in Audits, outbox'[a].status = "delivered"
                 PROVE  recorded'[a] > 0
        BY DEF DeliveredOnlyIfRecorded
    <2>1. recorded[a] > 0
        BY DeliveredStep DEF DeliveredOnlyIfRecorded, RecordedBeforeDelivered
    <2> QED
        BY <2>1, RecordedGrows
<1> QED
    BY <1>1, <1>2

\* What is ticked off locally, the platform has.
THEOREM DeliveredIsRecorded == Spec => []DeliveredOnlyIfRecorded
<1>1. Delivery => DeliveredOnlyIfRecorded
    BY DEF Delivery
<1> QED
    BY <1>1, DeliveryInit, DeliveryStep, PTL DEF Spec

-----------------------------------------------------------------------------
(* A single replica *)

SingleReplica == \A c, d \in Dispatchers : c = d

\* Nobody but the dispatcher that has claimed a row changes it until its outcome
\* is written, although no statement asks who holds it.
BatchIsHeld ==
    \A d \in Dispatchers :
        /\ dispatcher[d].at \notin dispatcher[d].todo
        /\ \A a \in Audits : a \in dispatcher[d].todo \cup {dispatcher[d].at} =>
               outbox[a].status = "processing"
        /\ dispatcher[d].step = "read" =>
               dispatcher[d].read = outbox[dispatcher[d].at].attempts

\* What a status says of the attempts and of the lease.
RowsInOrder ==
    \A a \in Audits :
        /\ outbox[a].status = "absent" => outbox[a].attempts = 0
        /\ outbox[a].status \in {"pending", "retry"} => outbox[a].attempts < MaxTries
        /\ outbox[a].status = "failed" => outbox[a].attempts = MaxTries
        /\ outbox[a].lease = "live" => outbox[a].status = "processing"

Holding == TypeOK /\ BatchIsHeld /\ RowsInOrder

LEMMA HoldingInit == Init => Holding
<1> SUFFICES ASSUME Init PROVE BatchIsHeld /\ RowsInOrder
    BY TypeInit DEF Holding
<1>1. /\ FreshRow("absent").status = "absent" /\ FreshRow("absent").attempts = 0
      /\ FreshRow("absent").lease = "free"
    BY FreshTyping
<1>2. Waiting.todo = {} /\ Waiting.at = NoAudit /\ Waiting.step = "next"
    BY DispatcherTyping DEF Waiting
<1> QED
    BY <1>1, <1>2, NoAuditAssumption DEF Init, BatchIsHeld, RowsInOrder

\* A row changes without a dispatcher.
LEMMA HoldingRowStep ==
    ASSUME Holding, NEW a \in Audits,
           AuditWritten(a) \/ FailedReleased(a) \/ LeaseExpires(a) \/ RetryFallsDue(a)
    PROVE  BatchIsHeld' /\ RowsInOrder'
<1> USE DEF Holding
<1>1. UNCHANGED dispatcher
    BY DEF AuditWritten, FailedReleased, LeaseExpires, RetryFallsDue
<1>2. outbox[a].status = "processing" =>
          outbox'[a].status = "processing" /\ outbox'[a].attempts = outbox[a].attempts
    BY RowStep
<1>3. BatchIsHeld'
    <2> SUFFICES ASSUME NEW d \in Dispatchers
                 PROVE  /\ dispatcher[d].at \notin dispatcher[d].todo
                        /\ \A b \in Audits : b \in dispatcher[d].todo \cup {dispatcher[d].at} =>
                               outbox'[b].status = "processing"
                        /\ dispatcher[d].step = "read" =>
                               dispatcher[d].read = outbox'[dispatcher[d].at].attempts
        BY <1>1 DEF BatchIsHeld
    <2>1. \A b \in Audits : outbox[b].status = "processing" =>
              outbox'[b].status = "processing" /\ outbox'[b].attempts = outbox[b].attempts
        BY <1>2, RowStep
    <2>2. dispatcher[d].step = "read" => dispatcher[d].at \in Audits
        BY AtAudit
    <2> QED
        BY <2>1, <2>2 DEF BatchIsHeld
<1>4. RowsInOrder'
    <2> SUFFICES ASSUME NEW b \in Audits
                 PROVE  /\ outbox'[b].status = "absent" => outbox'[b].attempts = 0
                        /\ outbox'[b].status \in {"pending", "retry"} =>
                               outbox'[b].attempts < MaxTries
                        /\ outbox'[b].status = "failed" => outbox'[b].attempts = MaxTries
                        /\ outbox'[b].lease = "live" => outbox'[b].status = "processing"
        BY DEF RowsInOrder
    <2>1. CASE b # a
        BY <2>1, RowStep DEF RowsInOrder
    <2>2. CASE b = a
        <3>1. (LeaseExpires(a) \/ RetryFallsDue(a)) /\ outbox'[a].lease = "live" => outbox[a].lease = "live"
            BY RowTyping DEF LeaseExpires, RetryFallsDue, TypeOK, RowRecords
        <3> QED
            BY <2>2, <3>1, RowStep, TriesAssumption DEF RowsInOrder
    <2> QED
        BY <2>1, <2>2
<1> QED
    BY <1>3, <1>4

\* A batch is claimed: the single dispatcher had none.
LEMMA HoldingClaimed ==
    ASSUME SingleReplica, Holding, NEW d \in Dispatchers, NEW batch \in SUBSET Audits,
           Claimed(d, batch)
    PROVE  BatchIsHeld' /\ RowsInOrder'
<1> USE DEF Holding
<1>1. /\ dispatcher'[d].todo = batch /\ dispatcher'[d].at = NoAudit
      /\ dispatcher'[d].step = "next"
    BY ClaimedStep, DispatcherTyping
<1>2. /\ \A a \in batch : outbox'[a].status = "processing"
      /\ \A a \in Audits \ batch : outbox'[a] = outbox[a]
    BY ClaimedStep
<1>3. BatchIsHeld'
    BY <1>1, <1>2, NoAuditAssumption DEF SingleReplica, BatchIsHeld
<1>4. RowsInOrder'
    BY <1>2 DEF RowsInOrder
<1> QED
    BY <1>3, <1>4

\* An outcome is written.  The attempts that were read still are those of the row.
LEMMA HoldingMark ==
    ASSUME SingleReplica, Holding, NEW d \in Dispatchers, MarkedDelivered(d) \/ MarkedFailed(d)
    PROVE  BatchIsHeld' /\ RowsInOrder'
<1> USE DEF Holding
<1> DEFINE a == dispatcher[d].at
<1>1. /\ a \in Audits
      /\ outbox'[a].status =
             IF dispatcher[d].step = "ok" THEN "delivered"
             ELSE IF dispatcher[d].read >= MaxTries THEN "failed" ELSE "retry"
      /\ outbox'[a].lease = "free" /\ outbox'[a].attempts = outbox[a].attempts
      /\ \A b \in Audits : b # a => outbox'[b] = outbox[b]
    BY MarkStep
<1>2. dispatcher[d].step = "ok" \/ dispatcher[d].read = outbox[a].attempts
    BY DEF MarkedDelivered, MarkedFailed, BatchIsHeld
<1>3. a \notin dispatcher[d].todo
    BY DEF BatchIsHeld
<1>4. dispatcher' = [dispatcher EXCEPT ![d] = Ready(dispatcher[d].todo)]
    BY DEF MarkedDelivered, MarkedFailed, Proceeds, TypeOK
<1>5. /\ dispatcher'[d].todo = dispatcher[d].todo /\ dispatcher'[d].at = NoAudit
      /\ dispatcher'[d].step = "next"
    BY <1>4, DispatcherTyping, AtAudit DEF TypeOK
<1>6. outbox[a].attempts \in 0..MaxTries /\ MaxTries \in Nat
    BY <1>1, RowTyping, TriesAssumption
<1> HIDE DEF a
<1>7. BatchIsHeld'
    <2>1. \A b \in Audits : b \in dispatcher[d].todo => outbox'[b].status = "processing"
        BY <1>1, <1>3 DEF BatchIsHeld
    <2>2. NoAudit \notin dispatcher[d].todo
        BY AtAudit, NoAuditAssumption
    <2> QED
        BY <1>5, <2>1, <2>2, NoAuditAssumption DEF SingleReplica, BatchIsHeld
<1>8. RowsInOrder'
    <2>1. /\ outbox'[a].status # "absent" /\ outbox'[a].lease # "live"
          /\ outbox'[a].status \in {"pending", "retry"} => outbox'[a].attempts < MaxTries
          /\ outbox'[a].status = "failed" => outbox'[a].attempts = MaxTries
        BY <1>1, <1>2, <1>6
    <2> QED
        BY <1>1, <2>1 DEF RowsInOrder
<1> QED
    BY <1>7, <1>8

\* The other steps of a dispatcher leave the rows alone.
LEMMA HoldingDispatcherStep ==
    ASSUME SingleReplica, Holding, NEW d \in Dispatchers, UNCHANGED outbox,
           DeliverOnce(d) \/ MarkLost(d) \/ Crashed(d)
    PROVE  BatchIsHeld' /\ RowsInOrder'
<1> USE DEF Holding
<1> DEFINE now == dispatcher[d]
           next == dispatcher'[d]
<1>t. /\ now.todo \in SUBSET Audits
      /\ now.step # "next" => now.at \in Audits
      /\ {} \in SUBSET Audits
      /\ now.at \notin now.todo
      /\ \A a \in Audits : a \in now.todo \cup {now.at} => outbox[a].status = "processing"
    BY AtAudit DEF BatchIsHeld
<1>1. /\ next.at \notin next.todo
      /\ \A a \in Audits : a \in next.todo \cup {next.at} => a \in now.todo \cup {now.at}
      /\ next.step = "read" => next.read = outbox[next.at].attempts
    <2>1. CASE \E a \in now.todo, answer \in {"ok", "failed"} :
                  next = At(now.todo \ {a}, a, answer, 0)
        BY <2>1, <1>t DEF At
    <2>2. CASE now.step = "failed" /\ next = At(now.todo, now.at, "read", outbox[now.at].attempts)
        BY <2>2, <1>t DEF At
    <2>3. CASE next = Ready(now.todo) \/ next = Waiting
        BY <2>3, <1>t, NoAuditAssumption DEF Ready, Waiting
    <2> QED
        BY <2>1, <2>2, <2>3, DispatcherStep
<1>2. BatchIsHeld'
    BY <1>1, <1>t DEF SingleReplica, BatchIsHeld
<1>3. RowsInOrder'
    BY DEF RowsInOrder
<1> QED
    BY <1>2, <1>3

LEMMA HoldingStep ==
    ASSUME SingleReplica
    PROVE  Holding /\ [Next]_vars => Holding'
<1> SUFFICES ASSUME Holding, [Next]_vars PROVE BatchIsHeld' /\ RowsInOrder'
    BY TypeStep DEF Holding
<1>1. CASE \E a \in Audits :
               AuditWritten(a) \/ FailedReleased(a) \/ LeaseExpires(a) \/ RetryFallsDue(a)
    BY <1>1, HoldingRowStep
<1>2. CASE \E d \in Dispatchers, batch \in SUBSET Audits : Claimed(d, batch)
    BY <1>2, HoldingClaimed
<1>3. CASE \E d \in Dispatchers : DeliverOnce(d) \/ MarkLost(d) \/ Crashed(d)
    <2>1. PICK d \in Dispatchers : DeliverOnce(d) \/ MarkLost(d) \/ Crashed(d)
        BY <1>3
    <2>2. CASE MarkedDelivered(d) \/ MarkedFailed(d)
        BY <2>2, HoldingMark
    <2>3. CASE UNCHANGED outbox
        BY <2>1, <2>3, HoldingDispatcherStep
    <2> QED
        BY <2>1, <2>2, <2>3 DEF DeliverOnce, Reported, AttemptsRead, MarkLost, Crashed
<1>4. CASE UNCHANGED vars
    BY <1>4 DEF vars, Holding, BatchIsHeld, RowsInOrder
<1> QED
    BY <1>1, <1>2, <1>3, <1>4 DEF Next

\* With one replica no event is lost between the claim and the list of failures.
THEOREM NothingIsStranded ==
    ASSUME SingleReplica
    PROVE  Spec => []NoneStranded
<1>1. Holding => NoneStranded
    BY DEF Holding, RowsInOrder, NoneStranded
<1>2. Holding /\ [Next]_vars => Holding'
    BY HoldingStep
<1> QED
    BY <1>1, <1>2, HoldingInit, PTL DEF Spec

\* With one replica a failure is final only after all of the attempts.
THEOREM FailureIsLast ==
    ASSUME SingleReplica
    PROVE  Spec => []FailedOnlyAfterAllTries
<1>1. Holding => FailedOnlyAfterAllTries
    BY DEF Holding, RowsInOrder, FailedOnlyAfterAllTries
<1>2. Holding /\ [Next]_vars => Holding'
    BY HoldingStep
<1> QED
    BY <1>1, <1>2, HoldingInit, PTL DEF Spec

\* With one replica a delivered event stays delivered.
THEOREM DeliveryIsFinal ==
    ASSUME SingleReplica
    PROVE  Spec => DeliveredForGood
<1>1. ASSUME Holding, [Next]_vars, NEW a \in Audits, outbox[a].status = "delivered"
      PROVE  outbox'[a] = outbox[a]
    <2> USE DEF Holding
    <2>1. CASE \E b \in Audits :
                   AuditWritten(b) \/ FailedReleased(b) \/ LeaseExpires(b) \/ RetryFallsDue(b)
        <3>1. PICK b \in Audits :
                       AuditWritten(b) \/ FailedReleased(b) \/ LeaseExpires(b) \/ RetryFallsDue(b)
            BY <2>1
        <3>2. b # a
            BY <1>1, <3>1
            DEF AuditWritten, FailedReleased, LeaseExpires, RetryFallsDue, RowsInOrder
        <3> QED
            BY <1>1, <3>1, <3>2, RowStep
    <2>2. CASE \E d \in Dispatchers, batch \in SUBSET Audits : Claimed(d, batch)
        BY <1>1, <2>2, ClaimedStep DEF Claimable
    <2>3. CASE \E d \in Dispatchers : MarkedDelivered(d) \/ MarkedFailed(d)
        <3>1. PICK d \in Dispatchers : MarkedDelivered(d) \/ MarkedFailed(d)
            BY <2>3
        <3>2. dispatcher[d].at # a
            BY <1>1 DEF BatchIsHeld
        <3> QED
            BY <1>1, <3>1, <3>2, MarkStep
    <2>4. CASE UNCHANGED outbox
        BY <2>4
    <2> QED
        BY <1>1, <2>1, <2>2, <2>3, <2>4
        DEF Next, DeliverOnce, Reported, AttemptsRead, MarkLost, Crashed, vars
<1>2. Holding /\ [Next]_vars => Holding'
    BY HoldingStep
<1>3. Holding /\ [Next]_vars =>
          [\A a \in Audits : outbox[a].status = "delivered" => outbox'[a] = outbox[a]]_vars
    BY <1>1
<1> QED
    BY <1>2, <1>3, HoldingInit, PTL DEF Spec, DeliveredForGood

=============================================================================
