CONSTANTS
    a = a
    b = b
    r = r
    svc = svc
    Thread = {t1, t2}
    Context <- OneClient
    Configs <- SameScope
    MaxDelay = 1
    MaxClock = 6
    MaxAdmitted = 5
SPECIFICATION Spec
INVARIANT WindowsKept
CHECK_DEADLOCK FALSE
