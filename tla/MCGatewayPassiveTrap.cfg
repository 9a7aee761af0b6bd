CONSTANTS
    Request = {r1}
    Method = {"GET"}
    Targets <- OneTarget
    Strategy = "round-robin"
    HashOf <- SameHash
    Modulus = 4
    RetryMaxAttempts = 2
    IdempotentOnly = TRUE
    RetryUnsafeMethods = FALSE
    BackoffMs = 0
    ReadTimeout = 1
    RequestTimeout = 1
    DrainTimeout = 0
    ActiveChecks = FALSE
    Answer = {"ok", "429", "5xx", "error"}
    ClientsLeave = FALSE
    RecycleIds = TRUE
    CounterModulus = 1
    MetricModulus = 1
    PassiveFailureThreshold = 1
    PassiveSuccessThreshold = 1
    BreakerFailureThreshold = 2
    OpenMs = 1
    HalfOpenMaxRequests = 1
    U32Max = 2
SPECIFICATION LiveSpec
PROPERTY TargetRecovers
CHECK_DEADLOCK FALSE
