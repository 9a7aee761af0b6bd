CONSTANTS
    Request = {r1, r2}
    Method = {"GET", "PUT"}
    Targets <- TwoTargets
    Strategy = "round-robin"
    HashOf <- SameHash
    Modulus = 4
    RetryMaxAttempts = 3
    IdempotentOnly = TRUE
    RetryUnsafeMethods = FALSE
    BackoffMs = 1
    ReadTimeout = 1
    RequestTimeout = 2
    DrainTimeout = 1
    ActiveChecks = FALSE
    Answer = {"ok", "429", "5xx", "error"}
    ClientsLeave = TRUE
    RecycleIds = FALSE
    CounterModulus = 4
    MetricModulus = 4
    PassiveFailureThreshold = 1
    PassiveSuccessThreshold = 1
    BreakerFailureThreshold = 1
    OpenMs = 1
    HalfOpenMaxRequests = 1
    U32Max = 2
SYMMETRY Symmetry
SPECIFICATION Spec
INVARIANTS
    TypeOK
    InFlightExact
    UnsafeSentOnce
    LoopReturns
    BoundedOverrun
    CountersExplained
PROPERTIES
    RegistrySpec
    OneVerdictPerAttempt
    DrainLeavesOnlyEntering
CHECK_DEADLOCK FALSE
