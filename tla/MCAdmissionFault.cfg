CONSTANTS
    r1 = r1
    r2 = r2
    Request = {r1, r2}
    Absent = Absent
    Hash <- MCHash
    Modulus = 8
    Scenarios <- HalfAborted
    Context <- AllContexts
    Configs <- AllConfigs
    MaxDelay = 1
    MaxClock = 1
    MaxAdmitted = 3
SPECIFICATION LiveSpec
PROPERTY FaultsLift
CHECK_DEADLOCK FALSE
