SPECIFICATION FairSpec
CONSTANTS
    Apps = {a1, a2}
    Calls = {"Launch", "Preload", "Close", "Terminate", "Kill", "GetLoaded"}
    Policies = {"suspend", "hibernate"}
    PackageOutcomes = {"locked", "failed"}
    PoolThreads = 1
    Patient = TRUE
    Frugal = TRUE
    Steps <- DfsSteps
    MaxCalls = 5
    MaxInstances = 3
INVARIANTS PackageLockedOnce
PROPERTIES CloseFindsPaused CallsReturn ActiveIsTold
\* Without a call in progress the system may stop.
CHECK_DEADLOCK FALSE
