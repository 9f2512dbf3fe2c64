\* A single replica, two events in one batch, two tries.
CONSTANTS
    a1 = a1
    a2 = a2
    d1 = d1
    d2 = d2
    NoAudit = NoAudit
    Audits <- TwoAudits
    Dispatchers <- OneReplica
    BatchSize = 2
    MaxTries = 2
    MaxFaults = 2
    MaxResets = 1

SPECIFICATION FairSpec

\* The outbox comes to rest.
CHECK_DEADLOCK FALSE

INVARIANTS
    DeliveredOnlyIfRecorded
    NoneStranded
    FailedOnlyAfterAllTries

PROPERTIES
    DeliveredForGood
    AuditsSettle
