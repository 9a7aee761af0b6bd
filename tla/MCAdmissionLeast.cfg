CONSTANTS
    r1 = r1
    r2 = r2
    Request = {r1, r2}
    Absent = Absent
    Hash <- MCHash
    Modulus = 8
    Scenarios <- LeastConnections
    Context <- AllContexts
    Configs <- AllConfigs
    MaxDelay = 1
    MaxClock = 1
    MaxAdmitted = 3
SPECIFICATION Spec
PROPERTY LeastBusyChosen
CHECK_DEADLOCK FALSE
