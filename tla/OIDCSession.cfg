\* One login and two requests: two requests are what a lost update, a stale
\* write-back and the row lock need.
CONSTANTS
    Logins = {l1}
    Requests = {r1, r2}
    NoLogin = NoLogin
    NoRequest = NoRequest
    MaxToken = 2
    MaxRevision = 2
    MaxFaults = 1
SPECIFICATION FairSpec
INVARIANTS
    RotationKept
    OneSessionPerLogin
PROPERTIES
    DeadForGood
    CredentialsKept
    LogoutTakesEffect
    RowsUnlocked
CHECK_DEADLOCK FALSE
