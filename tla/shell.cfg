SPECIFICATION Spec
CONSTANTS
    SmallNodes = {"x", "y", "z"}
    WmCallers = {w1, w2}
    WmNames = {"n"}
    WmFaults = {"list", "create", "wait", "listener"}
    MaxCreates = 3
    RsCallers = {s1, s2, s3}
    RsApps = {a1}
    RsPoolThreads = 4
    RsFaults = {"type", "init", "display", "kill", "listener"}
    RsOneEach = TRUE
    MaxShellCalls = 3
    MaxOutside = 1
    MaxActivations = 2
INVARIANTS
    PathIsRight
    ClientsAreHeard
    AtRestAllAgree
    LaunchBarsDestroy
    NeverMisused
    AllGivenBack
    JobsTellCrashes
    LocksAreKept
    ReplyTells
PROPERTIES
    CallsReturn
    DeathTakesDown
\* Each part stops when its bounds are used up.
CHECK_DEADLOCK FALSE
