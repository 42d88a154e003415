SPECIFICATION FairSpec
CONSTANTS
    Apps = {a1}
    Clients = {t1}
    Contexts = {c1}
    Null = null
    Calls = {"Spawn", "Set", "Unload"}
    Targets = {"ACTIVE", "LOADING"}
    RuntimeOutcomes = {"done"}
    Faults = {}
    PoolThreads = 1
    Steps <- DfsSteps
    Orderly = TRUE
    MaxCalls = 3
    MaxInstances = 1
PROPERTIES UnloadCompletes
\* A refused request stops the queue.
CHECK_DEADLOCK FALSE
