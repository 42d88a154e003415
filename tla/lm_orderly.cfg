SPECIFICATION Spec
CONSTANTS
    Apps = {a1}
    Clients = {t1}
    Contexts = {c1, c2}
    Null = null
    Calls = {"Spawn", "Set", "Unload"}
    Targets = {"ACTIVE", "HIBERNATED"}
    RuntimeOutcomes = {"done"}
    Faults = {"crash", "rerun"}
    PoolThreads = 2
    Steps <- DfsSteps
    Orderly = TRUE
    MaxCalls = 4
    MaxInstances = 2
SYMMETRY Symmetry
INVARIANTS OnlyWalksMeetDeleted OneContextPerApp StateMatchesRuntime
\* A container may crash before it runs.
CHECK_DEADLOCK FALSE
