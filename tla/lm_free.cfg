SPECIFICATION Spec
CONSTANTS
    Apps = {a1}
    Clients = {t1, t2}
    Contexts = {c1, c2}
    Null = null
    Calls = {"Spawn", "Unload", "Relaunch"}
    Targets = {"PAUSED"}
    RuntimeOutcomes = {"done"}
    Faults = {}
    PoolThreads = 2
    Steps <- DfsSteps
    Orderly = FALSE
    MaxCalls = 3
    MaxInstances = 2
SYMMETRY Symmetry
INVARIANTS UnloadedHasNoContainer
PROPERTIES ImplementsLifecycle FindsOnlyUnloaded
\* The bound on instances stops a launch.
CHECK_DEADLOCK FALSE
