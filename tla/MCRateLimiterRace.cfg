CONSTANTS
    a = a
    b = b
    r = r
    svc = svc
    Thread = {t1, t2}
    Context <- OneClient
    Configs <- Legacies
    MaxDelay = 1
    MaxClock = 5
    MaxAdmitted = 6
SPECIFICATION Spec
INVARIANT TokenBucketEnforced
CHECK_DEADLOCK FALSE
