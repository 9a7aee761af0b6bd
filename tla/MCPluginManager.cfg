CONSTANTS
    Configs <- AllLists
    FailingInit = {"faulty"}
    Request = {r1, r2}
    ContractVersion = 1
SYMMETRY Symmetry
SPECIFICATION Spec
INVARIANTS
    TornDownOnce
    ServesAllConfigured
    HandlerRunsPipeline
CHECK_DEADLOCK FALSE
