CONSTANTS
    a = a
    b = b
    r = r
    svc = svc
    Thread = {t1, t2}
    Context <- TwoClients
    Configs <- Usual
    MaxDelay = 1
    MaxClock = 5
    MaxAdmitted = 5
SPECIFICATION Spec
INVARIANTS
    TypeOK
    WindowsKept
    TokenBucketKept
    QuotaExact
    EntriesEarned
PROPERTY RefusalExplained
CHECK_DEADLOCK FALSE
