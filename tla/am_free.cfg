SPECIFICATION Spec
CONSTANTS
    Apps = {a1, a2}
    Calls = {"Launch", "Preload", "Close", "Terminate", "Kill", "GetLoaded"}
    Policies = {"none", "suspend", "hibernate"}
    PackageOutcomes = {"locked", "noPath", "failed"}
    PoolThreads = 1
    Patient = FALSE
    Frugal = FALSE
    Steps <- DfsSteps
    MaxCalls = 3
    MaxInstances = 3
INVARIANTS NoEventMissed
\* A cycle of locks may stop a call.
CHECK_DEADLOCK FALSE
