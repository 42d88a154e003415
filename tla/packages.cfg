SPECIFICATION PkgSpec
CONSTANTS
    StoredApps = {"a", "a."}
    WellNamed = {"a"}
    Owners = {"u"}
    DiskSize = 3
    STORAGE_MAX_SIZE = 2
    StorageFaults = {"mkdir", "unlink", "rmdir", "chown", "set", "delete"}
    Packages <- OneVersionEach
    Handlers = {"h"}
    LibraryFaults = {"install", "uninstall", "lock", "unlock"}
    MaxLocks = 2
    MaxRestarts = 1
\* A device without space, whose restarts are used up, may stop.
CHECK_DEADLOCK FALSE
INVARIANTS
    PromiseFits
    RecordsMatchDirectories
    InstalledHasStorage
    LockedWhileCounted
PROPERTIES
    InstallDelivers
