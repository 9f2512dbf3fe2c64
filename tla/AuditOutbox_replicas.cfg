\* Two replicas and one event, nothing fails but the platform.
CONSTANTS
    a1 = a1
    a2 = a2
    d1 = d1
    d2 = d2
    NoAudit = NoAudit
    Audits <- OneAudit
    Dispatchers <- TwoReplicas
    BatchSize = 2
    MaxTries = 2
    MaxFaults = 0
    MaxResets = 1

SPECIFICATION Spec

\* The outbox comes to rest.
CHECK_DEADLOCK FALSE

INVARIANTS
    NoneStranded
