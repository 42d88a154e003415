SPECIFICATION RuntimeSpec
CONSTANTS
    Instances = {i1, i2}
    FirstUid = 1
    LastUid = 1
    MinAvailable = 1
    SpecUid = 3
    RtPoolThreads = 1
    RuntimeFaults = {"crash"}
    MaxWaiting = 0
\* Instances are run once.
CHECK_DEADLOCK FALSE
INVARIANTS GoneGivesBack
