CONSTANTS
    Key = {k1, k2}
    PassiveFailureThreshold = 3
    PassiveSuccessThreshold = 1
    BreakerFailureThreshold = 2
    OpenMs = 2
    HalfOpenMaxRequests = 2
    U32Max = 4
SYMMETRY Symmetry
SPECIFICATION Spec
INVARIANTS
    TypeOK
    HalfOpenBudget
    TrippedRemembersFailures
    PassiveVerdictExplained
    FailureCountsAgree
    ClosedIsUsable
PROPERTIES
    HalfOpenFailureReopens
    BreakerSpec
