\* One event, three rows, two workers; the second failure is final.
CONSTANTS
    e1 = e1
    w1 = w1
    w2 = w2
    NoWorker = NoWorker
    Events <- MCEvents
    Recorded <- MCEvents
    Notified <- MCEvents
    Workers <- MCWorkers
    MaxAttempts = 2
    MaxFaults = 2

SPECIFICATION FairSpec

\* The outbox comes to rest.
CHECK_DEADLOCK FALSE

INVARIANTS
    EffectsExactlyOnce
    SentOnlyIfAccepted
    AttemptsBounded

PROPERTIES
    SettledForGood
    ImplementsLedger
    NotificationsSettle
    EffectsSettle
