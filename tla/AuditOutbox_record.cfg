\* A single replica and one event, nothing fails but the answer of the platform.
CONSTANTS
    a1 = a1
    a2 = a2
    d1 = d1
    d2 = d2
    NoAudit = NoAudit
    Audits <- OneAudit
    Dispatchers <- OneReplica
    BatchSize = 2
    MaxTries = 2
    MaxFaults = 0
    MaxResets = 1

SPECIFICATION Spec

\* The outbox comes to rest.
CHECK_DEADLOCK FALSE

INVARIANTS
    RecordedOnce
