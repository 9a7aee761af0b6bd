CONSTANTS
    r1 = r1
    r2 = r2
    Request = {r1, r2}
    Absent = Absent
    Hash <- MCHash
    Modulus = 8
    Scenarios <- AllScenarios
    Context <- AllContexts
    Configs <- AllConfigs
    MaxDelay = 1
    MaxClock = 1
    MaxAdmitted = 3
SPECIFICATION Spec
INVARIANTS
    UpstreamFound
    RouteMostSpecific
    SharesExact
    WeightedShare
    AccessExplained
    BindingsMonotone
    LaterModeNoEffect
    RewriteReversible
    HeadersExplained
PROPERTIES
    RefusedForOwnRequests
    LimiterSpec
CHECK_DEADLOCK FALSE
