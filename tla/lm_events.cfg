SPECIFICATION Spec
CONSTANTS
    Apps = {a1}
    Clients = {t1}
    Contexts = {c1}
    Null = null
    Calls = {"Spawn", "Set", "Kill"}
    Targets = {"ACTIVE", "PAUSED", "SUSPENDED"}
    RuntimeOutcomes = {"done", "nothing", "error"}
    Faults = {"display"}
    PoolThreads = 1
    Steps <- DfsSteps
    Orderly = TRUE
    MaxCalls = 4
    MaxInstances = 1
INVARIANTS EventsTellHistory
\* A call of the runtime may come to nothing.
CHECK_DEADLOCK FALSE
