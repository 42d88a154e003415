SPECIFICATION FairSpec
CONSTANTS
    Apps = {a1, a2}
    Calls = {"Launch", "Terminate"}
    Policies = {"none"}
    PackageOutcomes = {"locked"}
    PoolThreads = 2
    Patient = FALSE
    Frugal = TRUE
    Steps <- DfsSteps
    MaxCalls = 2
    MaxInstances = 2
\* A cycle of locks stops a call.
CHECK_DEADLOCK FALSE
PROPERTIES CallsReturn
