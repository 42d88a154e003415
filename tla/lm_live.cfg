SPECIFICATION FairSpec
CONSTANTS
    Apps = {a1, a2}
    Clients = {t1}
    Contexts = {c1, c2}
    Null = null
    Calls = {"Spawn", "Unload", "Teardown"}
    Targets = {"ACTIVE"}
    RuntimeOutcomes = {"done"}
    Faults = {}
    PoolThreads = 1
    Steps <- DfsSteps
    Orderly = TRUE
    MaxCalls = 3
    MaxInstances = 2
PROPERTIES CallsReturn QueueDrains UnloadCompletes
\* The plugin may be torn down.
CHECK_DEADLOCK FALSE
