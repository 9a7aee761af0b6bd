CONSTANTS
    Request = {r1, r2}
    Method = {"GET"}
    Targets <- OneTarget
    Strategy = "round-robin"
    HashOf <- SameHash
    Modulus = 4
    RetryMaxAttempts = 2
    IdempotentOnly = TRUE
    RetryUnsafeMethods = FALSE
    BackoffMs = 0
    ReadTimeout = 1
    RequestTimeout = 1
    DrainTimeout = 1
    ActiveChecks = TRUE
    Answer = {"ok", "5xx", "error"}
    ClientsLeave = FALSE
    RecycleIds = TRUE
    CounterModulus = 1
    MetricModulus = 1
    PassiveFailureThreshold = 1
    PassiveSuccessThreshold = 1
    BreakerFailureThreshold = 1
    OpenMs = 1
    HalfOpenMaxRequests = 1
    U32Max = 1
SPECIFICATION LiveSpec
PROPERTIES
    RequestsEnd
    DrainEnds
    TargetRecovers
CHECK_DEADLOCK FALSE
