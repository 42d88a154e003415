SPECIFICATION Spec
CONSTANTS
    Instances = {i1, i2}
    FirstUid = 1
    LastUid = 1
    MinAvailable = 1
    SpecUid = 1
    RtPoolThreads = 1
    RuntimeFaults = {"start", "crash", "verity", "umount", "specchange"}
    MaxWaiting = 0
    Retries = {0, 1}
    MaxDownloads = 3
    Devices = {d1, d2}
    PartitionCount = 1
    UsbPoolThreads = 2
    UsbFaults = {"path", "mount", "busy"}
    MaxUsbEvents = 2
    StoreClients = {c1, c2}
    Namespaces = {"n1", "n2"}
    Keys = {"k"}
    ValueLengths = {0, 1, 2}
    NamespaceLimits = {1}
    MaxSize = 4
    MaxValue = 1
    DefaultLimit = 2
    MaxBoots = 2
    Settings = {"privacyMode", "captions"}
    PrivacyMode = "privacyMode"
    SettingsPoolThreads = 2
    SettingsFaults = {"set", "rbus"}
    MaxChanges = 3
    RestartLimits = {0, 1, 2, 3}
    MaxFailures = 5
    MaxEvents = 4
\* Each service stops when its bounds are used up.
CHECK_DEADLOCK FALSE
INVARIANTS
    UidsDistinct
    CancelBinds
    MountsMatchDevices
    SettingsFollow
    EventsKeepOrder
PROPERTIES
    TerminatedToldLast
    StopIsTold
    StoreIsSound
    RestartsBounded
