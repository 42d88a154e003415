------------------------------ MODULE Requests ------------------------------
(***************************************************************************)
(* Any one request of a plugin, carried out step by step, with every       *)
(* outcome of the calls it makes.  RequestSteps says what the steps are,   *)
(* the ...Requests modules which of them each request consists of.         *)
(***************************************************************************)
EXTENDS Integers, Sequences

Shell      == INSTANCE RDKShellRequests
Windows    == INSTANCE WindowManagerRequests
Apps       == INSTANCE AppManagerRequests
Containers == INSTANCE ContainerRequests
Devices    == INSTANCE UsbDeviceRequests
Lifecycles == INSTANCE LifecycleRequests
Runtimes   == INSTANCE RuntimeRequests
Packages   == INSTANCE PackageRequests
Settings   == INSTANCE SettingsRequests
Stores     == INSTANCE StoreRequests
Clients    == INSTANCE ClientRequests

VARIABLES
    serving,        \* the request: plugin and name
    todo,           \* the steps still to take
    good,           \* its result so far
    holding,        \* locks taken, and what was begun and is not ended
    looked,         \* the locks of holding under which it has looked
    stale,          \* it has looked and given the lock back since
    done,           \* history: what was done
    failed,         \* history: what failed and was not made good
    slips,          \* history: how locks were misused
    replied

requestVars == <<serving, todo, good, holding, looked, stale, done, failed, slips, replied>>

-----------------------------------------------------------------------------
Catalogue == [
    RDKShell |-> Shell!Catalogue, RDKWindowManager |-> Windows!Catalogue,
    AppManager |-> Apps!Catalogue, OCIContainer |-> Containers!Catalogue,
    USBDevice |-> Devices!Catalogue, SharedStorage |-> Stores!SharedCatalogue,
    Telemetry |-> Clients!TelemetryCatalogue, LifecycleManager |-> Lifecycles!Catalogue,
    RuntimeManager |-> Runtimes!Catalogue, PackageManager |-> Packages!Catalogue,
    UserSettings |-> Settings!Catalogue, PersistentStore |-> Stores!FileCatalogue,
    CloudStore |-> Stores!ServiceCatalogue, ResourceManager |-> Clients!ResourceCatalogue]

\* Which lock may be taken while which other is held.
Nests == {
    <<"gSuspendedOrHibernatedApplicationsMutex", "gHibernateBlockedMutex">>,
    <<"mAdminLock", "connector mAdminLock">>}
Locks == {
    "gRdkShellMutex", "gLaunchDestroyMutex", "gPluginDataMutex", "gDestroyMutex", "gExitReasonMutex",
    "gSuspendedOrHibernatedApplicationsMutex", "gHibernateBlockedMutex",
    "gRdkWindowManagerMutex", "mAdminLock", "connector mAdminLock", "_adminLock",
    "mRuntimeManagerImplLock", "mMutex", "gRequestMutex", "_clientLock"}

RequestInit ==
    /\ \E plugin \in DOMAIN Catalogue : \E name \in DOMAIN Catalogue[plugin] :
           /\ serving = <<plugin, name>>
           /\ todo = Catalogue[plugin][name]
    /\ good = TRUE
    /\ holding = {} /\ looked = {} /\ stale = FALSE
    /\ done = {} /\ failed = {} /\ slips = {}
    /\ replied = FALSE

-----------------------------------------------------------------------------
(* One step.  Whatever it uses has to be under the lock that guards it.     *)

Next1 == Head(todo)
Is(do)        == ~replied /\ todo # <<>> /\ Next1.do = do
GoesOn(steps) == todo' = steps \o Tail(todo)
HeldLocks     == holding \cap Locks

Unguarded == IF Next1.under \in holding \union {""} THEN {} ELSE {"unguarded"}
Acts(more) ==
    slips' = slips \union Unguarded \union more \union (IF stale THEN {"stale"} ELSE {})

TakesLock ==
    /\ Is("take") /\ GoesOn(<<>>)
    /\ holding' = holding \union {Next1.of}
    /\ slips' = slips
         \union (IF Next1.of \in HeldLocks THEN {"taken twice"} ELSE {})
         \union (IF Next1.of \in Locks /\ \E l \in HeldLocks : <<l, Next1.of>> \notin Nests
                 THEN {"out of order"} ELSE {})
    /\ UNCHANGED <<serving, good, looked, stale, done, failed, replied>>

FreesLock ==
    /\ Is("free") /\ GoesOn(<<>>)
    /\ holding' = holding \ {Next1.of} /\ looked' = looked \ {Next1.of}
    /\ stale' = (stale \/ Next1.of \in looked)
    /\ slips' = slips \union (IF Next1.of \in holding THEN {} ELSE {"not held"})
    /\ UNCHANGED <<serving, good, done, failed, replied>>

LooksAtState ==
    /\ Is("look") /\ GoesOn(<<>>)
    /\ looked' = looked \union {Next1.under}
    /\ slips' = slips \union Unguarded
    /\ UNCHANGED <<serving, good, holding, stale, done, failed, replied>>

\* A call waited for must not need a lock that is held meanwhile.
Waits == IF Is("await") /\ HeldLocks # {} THEN {"waits"} ELSE {}

Evaluates == Is("try") \/ Is("await") \/ Is("retry")
CallsOut  == Evaluates \/ Is("ignore") \/ Is("undo")

CallSucceeds ==
    /\ CallsOut /\ GoesOn(<<>>)
    /\ good' = (good \/ Evaluates)
    /\ done' = IF Is("undo") THEN done \ {Next1.of} ELSE done \union {Next1.of}
    /\ failed' = IF Is("retry") THEN failed \ {Next1.of} ELSE failed
    /\ Acts(Waits)
    /\ UNCHANGED <<serving, holding, looked, stale, replied>>

CallFails ==
    /\ CallsOut /\ GoesOn(<<>>)
    /\ good' = (good /\ ~Evaluates)
    /\ failed' = failed \union {Next1.of}
    /\ Acts(Waits)
    /\ UNCHANGED <<serving, holding, looked, stale, done, replied>>

TakesEffect ==
    /\ Is("effect") /\ GoesOn(<<>>)
    /\ done' = done \union {Next1.of} /\ Acts({})
    /\ UNCHANGED <<serving, good, holding, looked, stale, failed, replied>>

SetsResult ==
    /\ Is("set") /\ GoesOn(<<>>) /\ good' = Next1.of
    /\ UNCHANGED <<serving, holding, looked, stale, done, failed, slips, replied>>

Branches ==
    /\ \/ Is("ifGood") /\ GoesOn(IF good THEN Next1.then ELSE Next1.else)
       \/ Is("either") /\ \E way \in {Next1.then, Next1.else} : GoesOn(way)
       \/ Is("repeat") /\ \E way \in {<<>>, Next1.of, Next1.of \o Next1.of} : GoesOn(way)
       \/ Is("returned") /\ GoesOn(<<>>)
       \/ Is("throw") /\ GoesOn(<<>>)
    /\ UNCHANGED <<serving, good, holding, looked, stale, done, failed, slips, replied>>

\* The rest of the function is left out.
AfterBody == LET end == CHOOSE i \in DOMAIN todo :
                    /\ todo[i].do = "returned"
                    /\ \A j \in 1..(i - 1) : todo[j].do # "returned"
             IN SubSeq(todo, end + 1, Len(todo))

LeavesBody ==
    /\ Is("return") \/ Is("leave")
    /\ todo' = AfterBody /\ good' = (IF Is("return") THEN Next1.of ELSE good)
    /\ UNCHANGED <<serving, holding, looked, stale, done, failed, slips, replied>>

Replies ==
    /\ ~replied /\ todo = <<>>
    /\ replied' = TRUE
    /\ UNCHANGED <<serving, todo, good, holding, looked, stale, done, failed, slips>>

RequestNext ==
    \/ TakesLock \/ FreesLock \/ LooksAtState \/ CallSucceeds \/ CallFails \/ TakesEffect
    \/ SetsResult \/ Branches \/ LeavesBody \/ Replies

RequestSpec == RequestInit /\ [][RequestNext]_requestVars

-----------------------------------------------------------------------------
(* What is claimed, and which requests are known not to keep to it. *)

Among(requests) == serving[1] \in DOMAIN requests /\ serving[2] \in requests[serving[1]]

\* What is begun and never ended: the interface of a plugin that is asked for
\* its memory, the active configuration of a USB device, getline's buffer.
Leaked == {"pluginMemoryInterface", "active config descriptor", "line"}

\* The factory mode changes the easter eggs and reads the active plugins with
\* no lock, SharedStorage its listeners with another one than Dispatch, and
\* AppManager's records are walked by the handler of state changes.  The list
\* of contexts of LifecycleManager loses some to a job, and the thread of
\* PackageManager resets the download in progress.
Unlocked == [
    RDKShell      |-> {"launchFactoryApp", "launchFactoryAppShortcut", "toggleFactoryApp"},
    SharedStorage |-> {"Register", "Unregister"},
    AppManager    |-> {"GetInstalledApps", "KillApp", "LaunchApp", "PreloadApp", "TerminateApp"},
    LifecycleManager |-> {
        "AppReady", "CloseApp", "GetLoadedApps", "IsAppLoaded", "KillApp", "SendIntentToActiveApp",
        "SetTargetAppState", "SpawnApp", "UnloadApp"},
    PackageManager |-> {"Cancel", "Delete", "Pause", "Progress", "RateLimit", "Resume"}]

\* The marks of destroys, the active plugins, the clients and the values a
\* client has are looked at in one section and relied upon after it.
RelyOnOldLook == [
    RDKShell |-> {
        "createDisplay", "exitAgingMode", "hibernate", "hibernateThread", "launchApplication",
        "launchResidentApp", "toggleFactoryApp", "resumeApplication", "setBounds", "setFocus", "setScale",
        "setVirtualResolution", "setVisibility", "suspendApplication"},
    RDKWindowManager |-> {"CreateDisplay"}]

\* Whatever fails on the way, a request uses what a lock guards under that
\* lock and on what it sees there, takes no lock twice or out of order,
\* waits for no other thread with a lock held, and replies with nothing
\* taken: each with the requests above excepted.
LocksAreKept ==
    /\ slips \subseteq {"unguarded", "stale"}
    /\ "unguarded" \in slips => Among(Unlocked)
    /\ "stale" \in slips => Among(RelyOnOldLook)
    /\ replied => holding \subseteq Leaked

\* Requests that report success although something failed: what is called on
\* the way is not looked at, or the result of the last call replaces the
\* others'.
NotLookedAt == [
    RDKShell |-> {
        "hideAllClients", "launchApplication", "launchFactoryApp", "launchFactoryAppShortcut",
        "launchResidentApp", "toggleFactoryApp", "exitAgingMode", "resetInactivityTime",
        "setInactivityInterval", "setBounds", "setFocus", "setVisibility"},
    RDKWindowManager |-> {"ResetInactivityTime", "SetInactivityInterval", "CreateDisplay"},
    Telemetry |-> {"setRFCReportProfiles"},
    RuntimeManager |-> {
        "Annotate", "GetInfo", "Hibernate", "Kill", "Resume", "Run", "Suspend", "Terminate", "Wake"},
    UserSettings |-> {"GetMigrationState", "GetMigrationStates", "GetPrivacyMode"},
    LifecycleManager |-> {"GetLoadedApps"}]
Overwritten == [
    RDKShell |-> {"addKeyIntercepts", "generateKey", "resumeApplication", "suspendApplication"},
    RDKWindowManager |-> {"AddKeyIntercepts", "GenerateKey"}]

\* Requests that report failure although something was done: of several
\* alike the earlier ones stay, or a later part fails and the earlier is not
\* taken back.
FirstOnes == [
    RDKShell |-> {
        "addKeyIntercepts", "addKeyListener", "removeKeyListener", "generateKey", "enableInputEvents",
        "setAVBlocked"},
    RDKWindowManager |-> {
        "AddKeyIntercepts", "AddKeyListener", "RemoveKeyListener", "GenerateKey", "EnableInputEvents"}]
NotTakenBack == [
    RDKShell |-> {
        "createDisplay", "kill", "launchApplication", "launchFactoryApp", "launchFactoryAppShortcut",
        "launchResidentApp", "toggleFactoryApp", "removeEasterEggs", "resumeApplication",
        "suspendApplication", "setBounds", "setFocus", "setVisibility"},
    RDKWindowManager |-> {"CreateDisplay"},
    AppManager |-> {"KillApp", "LaunchApp", "PreloadApp", "TerminateApp"},
    OCIContainer |-> {"StartContainer"},
    RuntimeManager |-> {"Run"},
    PackageManager |-> {"Install", "Uninstall", "Unlock", "UnregisterDownloads"},
    PersistentStore |-> {"FlushCache", "SetNamespaceStorageLimit", "SetValue"}]

\* A reply tells what happened: success means that nothing failed on the way
\* that was not made good, failure that nothing was done; again with the
\* requests above excepted.
ReplyTells ==
    replied => /\ good /\ failed # {} => Among(NotLookedAt) \/ Among(Overwritten)
               /\ ~good /\ done # {} => Among(FirstOnes) \/ Among(NotTakenBack)
=============================================================================
