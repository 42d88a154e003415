# entservices-infra1: TLA+ models of the application services

This directory models the infrastructure plugins of `src/` (C++, Thunder
plugins) in TLA+, checks the models with TLC and proves theorems about them
with TLAPS. `PROJECT.json` lists the components, the runs, the properties with
the mutant of the code each of them detects, the hazards, and for every
definition the source lines it stands for.

## 1. The system

A set-top box starts, hides and stops applications through a chain of plugins,
and offers them services. Each plugin is a library loaded by the Thunder
framework; plugins call each other through COM interfaces and send events
through jobs of a worker pool.

    AppManager ── LifecycleManager ── RuntimeManager ── OCIContainer ── Dobby
        │                │                  │
    PackageManager   RDKWindowManager   StorageManager ── PersistentStore
                                                              │
    RDKShell (plugins of Thunder as applications)        UserSettings ── Telemetry
    Monitor   Analytics   USBMassStorage ── USBDevice

| Component | State | Operations | What is hard | Model |
|---|---|---|---|---|
| LifecycleManager | contexts of loaded applications, queue of requests, one transition thread, semaphores per context | SpawnApp, SetTargetAppState, UnloadApp, KillApp, CloseApp; events of runtime and window manager | the thread waits for semaphores with the queue's mutex held; contexts are deleted by pool jobs; failed requests are retried | `LifecycleManager`, `StatePath`, `AppLifecycle`; `LifecycleRequests` |
| AppManager | record of applications, package lock per application, connector with a lock of its own | LaunchApp, PreloadApp, CloseApp, TerminateApp, KillApp, GetLoadedApps; lifecycle events | two locks held across calls to other plugins, a timed wait, iterators kept across unlocks | `AppManager`, `LifecycleService`; `AppManagerRequests` |
| PackageManager, installer and handler | install state and lock count per package | Install, Uninstall, Lock, Unlock, start-up | no lock at all: a call can be overtaken at every call it makes; partial failure | `PackageManager`; `PackageRequests` |
| PackageManager, downloader | queue, download in progress, one thread | Download, Cancel, Pause, Resume | the entry in progress is read and marked without the lock; retries | `PackageDownloader`; `PackageRequests` |
| StorageManager | storage record per application, directories, quotas in PersistentStore | CreateStorage, GetStorage, DeleteStorage, Clear, ClearAll | system calls that fail half-way, promised space, restart | `StorageManager` |
| RuntimeManager, OCIContainer | user ids, runtime records, containers of Dobby | Run, Suspend, Resume, Hibernate, Wake, Terminate, Kill; Dobby's state changes | failures known by an error text; events through two pools | `RuntimeManager`; `RuntimeRequests`, `ContainerRequests` |
| PersistentStore | three tables of a SQLite file and their backup | SetValue, DeleteKey, DeleteNamespace, SetNamespaceStorageLimit, start-up | two statements without a transaction, limits by triggers, corrupt files | `PersistentStore`; `StoreRequests` |
| SharedStorage, CloudStore | listeners, interfaces of the stores below | the store's requests, forwarded to the device's store or to a service | references to two plugins that may go; success that a later call overwrites | `StoreRequests` |
| UserSettings, Telemetry | values in PersistentStore; the privacy mode T2 was told | setters, getters, change events | a change overtakes the activation that reads it | `UserSettings`; `SettingsRequests`, `ClientRequests` |
| USBDevice, USBMassStorage | attached devices, mounts | hot-plug callbacks, mounting at boot, in jobs and on demand | three kinds of threads mount without a common lock | `USBMassStorage`; `UsbDeviceRequests` |
| Monitor | restart count and window per plugin | probes, activations, deactivations | a count that must bind restarts | `Monitor` |
| Analytics | queue of actions, queue of events without time, one thread | SendEvent, destructor | the time becomes known while events wait | `Analytics` |
| RDKWindowManager | queue of display requests, render thread | CreateDisplay, Initialize, Deinitialize; keys, focus, visibility | requests served by a thread that comes and goes | `WindowManager`; `WindowManagerRequests` |
| RDKShell | marks of launches and destroys, records, listeners, queues to the render thread | launch, suspend, destroy; handlers of plugin state changes; 87 more requests | calls hold pool threads while they wait for jobs of the same pool; every step may fail; seven mutexes | `RDKShell`; `RDKShellRequests` |
| ResourceManager | the Essos resource manager | requests forwarded to it | the manager may be absent | `ClientRequests` |
| every plugin | pointers, references and registrations | Initialize, Deinitialize, the end of its process | anything may be missing or die half-way | `PluginPrograms`, `PluginActivation` |
| the rest | | | | see section 5 |

## 2. Modules

The modules follow the components; what composes with what is in the EXTENDS:

| Module | What it is |
|---|---|
| `LifecycleStates`, `StatePath` | the states and the transition table of `StateHandler::initialize`; the backwards depth-first search of `isValidTransition` |
| `LifecycleManager` | the plugin: API threads, transition thread, pool jobs, environment |
| `LifecycleProperties` | what is claimed about it |
| `AppLifecycle` | the abstract specification that it implements, and AppManager with what it sees of it: one application at a time moves along the table to its goal |
| `AppManager` | extends `LifecycleService`, which is LifecycleManager reduced to what AppManager meets of it |
| `PackageManager` | extends `StorageManager`: a package is installed into the library and into storage |
| `PackageDownloader`, `RuntimeManager`, `PersistentStore`, `Monitor`, `Analytics`, `WindowManager`, `RDKShell` | one plugin each; `RuntimeManager` has OCIContainer and Dobby below it |
| `USBMassStorage`, `UserSettings` | two plugins each, and the jobs between them |
| `PluginPrograms`, `PluginActivation` | activation and deactivation of seventeen plugins: what each does, as sequences of steps, and the machine that carries the steps out |
| `RequestSteps`, `Requests` | the steps requests are put together from; the machine that carries out any one request, and what is claimed of all of them |
| `RDKShellRequests`, `WindowManagerRequests`, `AppManagerRequests`, `LifecycleRequests`, `RuntimeRequests`, `ContainerRequests`, `PackageRequests`, `SettingsRequests`, `UsbDeviceRequests` | the requests of one plugin each |
| `StoreRequests`, `ClientRequests` | the requests of PersistentStore, SharedStorage and CloudStore; of Telemetry and ResourceManager |
| `MC...` | instances for TLC; `MCStatePath` also holds a claim. `MCServices` and `MCShell` put parts that share nothing into one run: a variable `part`, chosen at the start, says which of them runs |
| `..._proofs` | theorems |

One action is one stretch of code between two points at which another thread
can intervene; where a function holds one lock from beginning to end it is one
action. Variables have the names of the fields they stand for; a comment
`external` marks what belongs to a library or the environment, `history` what
only a property reads, `bound` a counter that limits a run.

### LifecycleManager and the code

| In the model | In the code |
|---|---|
| `heap`, `mAppId`, `mAppInstanceId`, `mState`, `mTargetLifecycleState`, `mForce`, `sems` | the fields of `ApplicationContext`; `heap` says whether the object is live, found by the job that is going to delete it, or deleted, `sems` holds the counts of its four semaphores, and instance 0 is the empty instance id |
| `mLoadedApplications`, `gRequests`, `gRequestSemaphore`, `sRunning` | the variables of these names |
| `worker` | the thread started in `StateTransitionHandler::initialize`: `scan` and `asleep` around its loop, `step` inside `changeState` before a state handler, `waitRunning`, `waitFrame`, `waitTerminated` inside its `sem_wait`; `path` is what is left of the path. It holds `gRequestMutex` everywhere but in `asleep` and `exited` (`MutexFree`) |
| `client[t]` | an API call in progress: it has looked its context up (`spawn`), waits for `gRequestMutex` in `addRequest` (`add`), waits for the instance id (`waitLoading`), or is between the two halves of `CloseApp` (`relaunch`) |
| `jobs` | jobs submitted to the worker pool; with `PoolThreads = n` any of the first n may get the plugin's lock next |
| `container`, `window` | the environment: RuntimeManager with Dobby, and the window manager |

A call that finds no context changes nothing and is left out.

An UNLOADED job deletes its context in three steps under `mAdminLock`, so that
no other job is dispatched meanwhile (`AdminLockFree`): the lookup
(`HandleStateChange`), the deletion (`DeleteContext`) and the erasure from the
list (`EraseContext`). A launch takes another lock and the other calls none, so
a context may be launched anew between the first two, and a call may walk the
list between the last two. A step that follows a pointer to a deleted context,
kept in a request or a call (`HoldsDeleted`) or met in the list
(`WalksOverDeleted`), may find the old values, and the model goes on with them;
or the action `Crash` ends the behaviour, as the undefined behaviour may. A walk
over the list is one step: what a concurrent `push_back` or `erase` does to an
iterator, and reading a string while another thread writes it, are data races
the model leaves out.

The runtime's answers are parameters. `RuntimeOutcomes`: a call succeeds
(`done`), reports success without effect (`nothing`, which the code cannot tell
apart because the `success` flag is not looked at), or fails (`error`).
`Faults`: a container stops on its own (`crash`), the display cannot be made
(`display`), a resumed container reports RUNNING once more (`rerun`).

`MCLifecycleManager` and `MCAppManager` give the constant `Steps` the paths that
`StatePath` computes for the plugin's own table, so the search is composed with
its callers in every run. In the proofs `Steps` is arbitrary but for
`StepsAssumption`, which TLC evaluates on that value.

`SendIntentToActiveApp`, `GetLoadedApps`, `AppReady` and the registration of
listeners change nothing the state machine reads back; they are among the
requests of `LifecycleRequests`.

### AppManager and the code

Every API function of AppManager holds its `mAdminLock` from beginning to end,
so `call` is the one call in progress and waiting clients are not part of the
state. Locks are not variables; who holds them follows from program counters:

* the connector's lock: a call in `add` or `spawned`, or the handler in `walk`;
* LifecycleManager's `mAdminLock`: a state change job from its dispatch to the
  end of the handler, which is called with that lock held (`event`);
* `gRequestMutex`: the transition thread unless it is `asleep`.

`LifecycleService` keeps the queue, the thread, the jobs and these locks of
LifecycleManager, and drops what AppManager does not meet: several contexts of
one application, failures of the runtime, and frames. `mAppInfo[a]` keeps of a
record the instance id, the state last reported, the current action and whether
a package version is known. The policy files are read anew at every call and may
say anything (`Policies`). `PackageOutcomes` are the outcomes of `Lock` of the
PackageManager: `locked`, `failed`, and `noPath` for a lock without a path to
the package. The timed wait of `closeApp` may end at any time, which stands for
the notification, the timeout and a spurious wake-up.

Both plugins hand jobs to the worker pool of their process. Whether they share a
process is a matter of configuration (the `root` object of their `conf.in`), so
the jobs are kept in two queues, `amJobs` and `lmJobs`: that allows every order
of one shared pool and of two.

Clients are restricted by two parameters, because the interesting claims need
it: `Patient` clients wait until an earlier call has taken effect (`Settled`, no
job pending), `Frugal` clients launch only what is not already visible. In all
runs a client leaves alone an application that is being unloaded; what happens
otherwise is the subject of `LifecycleManager` with `Orderly = FALSE`.

Known of the code and outside the claims: GetLoadedApps right after TerminateApp
makes a record that stays (`LifecycleInterfaceConnector.cpp:618`), and
TerminateApp unlocks the package while the application still runs
(`AppManagerImplementation.cpp:727`).

### PackageManager and StorageManager

`PackageManager` extends `StorageManager`: one client installs and uninstalls
(`installer` is where its call is), `Handlers` are threads inside `Lock` and
`Unlock`. `mState` is the map of that name (`state`, `locks`, path), `installed`
and `libLocks` belong to the package library, which is external: an uninstall
removes all versions of an application, locks change only by Lock and Unlock and
are gone after a restart. `torn` are packages a restart caught between storage
and library. Requests of StorageManager hold `mStorageManagerImplLock`, so each
is one action; whether it succeeded is its parameter `ok`. `StorageFaults` and
`LibraryFaults` name the system and library calls that may fail.
`StorageRestart` rebuilds the records from the directories and the quotas in
PersistentStore; ids that `isValidAppStorageDirectory` refuses lose their record
(`WellNamed`). Applications keep to their quota. After a restart, listeners are
taken to ask ListPackages; GetVersion picks the first version.

### The services of MCServices

* **RuntimeManager.** A request holds `mRuntimeManagerImplLock` and is one
  action; `ociJobs` and `rtJobs` are the two worker pools an event passes; `told`
  and `gone` are histories. A container that is asked to stop ends by
  `DobbyFinishes`, or by itself (`crash`); the file systems of a package may fail
  (`verity`, `umount`). The failure of a bundle is the business of a thread of
  OMI: it looks the container up (`VerityFails`), tells of the failure
  (`FailureTold`) and stops the container (`FailedIsStopped`), and `failing` is
  where it is; Dobby's listener and every request may come in between. Ids are 0
  when the pool is depleted, and where `/tmp/specchange` exists (`specchange`) a
  container gets the one id `SpecUid` whatever the pool gave; `given` is whether
  a container has the id it was given.
* **PackageDownloader.** `thread` is the downloader's program counter; `Cancel`
  marks the download, and its second half (`CancelTransfer`) may meet another
  download. A wake-up may be lost between the look at the queue and the wait, as
  in the code. A transfer ends; 5xx is taken for success as the code does.
* **USBMassStorage.** `mounting[t]` is where a thread is in `DeviceMount`: the
  thread of the boot, a job, or a client in GetMountPoints. The device name that
  OnDevicePluggedIn looks for is empty in the code, so that it never finds the
  device mounted already; the model keeps that. A job that unmounts
  (`unmounting`) takes the partitions one after the other, tells listeners, and
  erases the records last; boot thread and clients mount meanwhile. Records may
  be erased though a partition stayed mounted (`busy`). Any of the first
  `UsbPoolThreads` jobs may be the next; `failed` are devices a mount failed
  for or whose jobs came in the wrong order (`OutOfOrder`).
* **PersistentStore.** `names`, `items`, `limits` are the tables; `storeCall` is
  the second statement a client has still to execute. SQLite executes one
  statement at a time. Backups succeed.
* **UserSettings.** `storeJobs`, `settingsJobs` are the two hops of a change,
  each through a pool of `SettingsPoolThreads` threads; `overtaken` are the
  settings of which a job overtook another, until the next change of a setting
  that has none left (`StartsAnew`);
  `telemetry` is how far Telemetry's activation is, `missed` a history: an
  activation that has read the mode was overtaken, or rbus failed. PrivacyMode is
  modelled as itself, the other settings alike.
* **Monitor.** One observed plugin. `restartCount` doubles in the code
  (`_restartCount += _restartCount + 1`, `Monitor.h:505`), so with a limit of 10
  Monitor gives up after five failures although the trace at `Monitor.h:787`
  says "more than"; `RestartsBounded` claims only that restarts within a window
  stay within the limit, which that satisfies.
* **Analytics.** `mActionQueue` and `mEventQueue` are the queues; the thread asks
  for the time only when the first is empty and its wait has timed out. Whether
  a backend was loaded is open (`mBackends`): without one an event is discarded
  when it is sent, and what waits for the time when the thread ends goes with the
  object. `lost` is a history of both.

### WindowManager and RDKShell

`WindowManager` has callers of CreateDisplay, each between the sections under
`gRdkWindowManagerMutex`, and the render thread. A caller's `sem_wait` may end
with an error (`WaitFails`), which leaves its request in the queue, and
`addListener` may fail, of which the caller is not told; `unheard` are the clients
of such callers. `sRunning` is static, true at first, and nothing sets it again:
`Initialize` may come a second time in one process, but its render thread then
ends at once and calls wait for ever, as do requests that come after the last
frame. The two claims are therefore made until the first `Deinitialize`.

`RDKShell` models launch, suspend and destroy of applications that are Thunder
plugins. A call runs on one of `RsPoolThreads` threads of the pool, hands the
activation or deactivation to another one (`change`) and waits. `thunder` is the
framework: it refuses a change while one is in progress, tells Deactivated
first, Deinitialized before the plugin is DEACTIVATED, and deinitialises a
plugin that failed to initialise. Sections under `gRdkShellMutex` are atomic.
The compositor may refuse to make or to kill a display and to add or to remove a
listener (a listener it always refuses for a client without a display), and
RDKShell does not look: `deniedDisplays` and `deniedListeners` are histories of
the applications for which it refused when last asked. A display not killed
stays until it is killed. That `sem_wait` fails in RDKShell is not modelled.
`MaxOutside` deactivations come from elsewhere, a crash for instance.

### Activation and deactivation

`PluginPrograms` lists, for each of seventeen plugins, what `Initialize` and
`Deinitialize` of the plugin do with pointers, references and registrations, and
what its implementation does when it is created, configured and destroyed. A
program is a sequence of steps that bear the names of what the code calls
(`AddRef`, `Release`, `Register`, `Root`, `Query` for `QueryInterface`,
`ByCallsign` for `QueryInterfaceByCallsign`); alternatives are steps with a
`then` and an `else`.

`PluginActivation` is the machine that carries one program out (`hosted` says
whose). `members` are the pointers that are not null, `held` the references they
count, a bag; `registered` is who listens to whom. The process of the
implementation (`process`, when it is `apart` from the framework's) may be
missing, may crash at any step, and ends by itself when nothing of it is in use;
queries of other plugins find them or not. A job may deactivate the plugin any
time later. A step that uses a null pointer, or one given back, sets `misused`
and ends the behaviour. `cleansUp` is the mode of the framework: after an
`Initialize` that failed it calls `Deinitialize` itself or does not. Plugins are
written for one of the two: those that call `Deinitialize` themselves would do
it twice under the other mode (`CleansUpItself`), those that do not would leave
all they hold (`LeavesToFramework`); each is hosted by a framework of its mode,
the others by either.

Known of the code and excepted from the claims, by name:

* `QueriesUnchecked`: five plugins use the result of a query without a look at
  it; they are safe unless the process dies before `Initialize` is over.
* `KnownLeaks`: references counted once too often or never released
  (AppManager's four plugins, RuntimeManager's RDKWindowManager, PackageManager,
  SharedStorage, `_service` of Telemetry), and registrations with another plugin
  that outlive the object (USBMassStorage, UserSettings, LifecycleManager); what
  NativeJS leaves when its thread was not started or not seen.
* `LeavesLate`: three plugins leave the notification of the process's death
  after they have terminated the process, and so submit a deactivation of their
  own end.
* `Watching` excludes five plugins that never ask to be told of that death.

### Requests

Most of what the plugins offer is requests that keep no state of their own: they
check parameters, take locks, call a library or another plugin and make a reply
of the results. `RequestSteps` has a step for each of these (`Takes`, `Frees`,
`Try`, `Awaits`, `Undo`, `Ignore`, `Looks`, `IfGood`, `Either`, `Repeat`,
`Return`), and the `...Requests` modules say of which steps each of 295 requests
of fourteen plugins consists, in the order of the code, early returns included.
A lock is named as in the code; so is what is begun and has to be ended (a
descriptor, an interface, a buffer). `Under(l, step)` says that the step uses what
lock `l` guards.

`Requests` carries any one request out (`serving`), with every outcome of every
call: a call succeeds with effect or fails without. `good` is the result so far,
`done` and `failed` tell what was done and what failed and was not made good,
`holding` which locks are held and what is begun; `looked` and `stale` tell that
something was read under a lock which has since been given back, and `slips` is
how a lock was misused. Loops run at most twice (`Repeat`): no step depends on
the round. What a request reads of its parameters, and of state others change,
is a choice (`Either`). One request at a time suffices, because what others do
meanwhile enters only through these choices and through the rules for locks: a
request that keeps to the locks cannot tell whether it is alone.

`LocksAreKept` and `ReplyTells` are claimed of all requests but those named in
the sets of `Requests.tla`, which say what reviewers should know of this code:

| Set | What these requests do |
|---|---|
| `Unlocked` (25) | use shared state without its lock: the factory mode of RDKShell, the listeners of SharedStorage, AppManager's records, LifecycleManager's list of contexts, the download in progress |
| `RelyOnOldLook` (15) | look under a lock, give it back, and rely on what they saw: marks of destroys, the list of clients, the values a client has |
| `Leaked` | three things begun and never ended: the interface of a plugin asked for its memory, the configuration descriptor of a USB device, the buffer of `getline` |
| `NotLookedAt` | report success although a call on the way failed. In RuntimeManager this is the `success` flag of OCIContainer, which is not looked at |
| `Overwritten` | report the result of the last of several calls |
| `FirstOnes` | report failure although the earlier ones of several were done |
| `NotTakenBack` | report failure although an earlier part was done and stays: a package locked, a user id taken, a namespace made, storage deleted |

A request outside these sets that came to behave like one of them would violate
the invariants. An exception under `gRdkShellMutex` (`addAnimationList`,
`RDKShell.cpp:7374`) is taken for the end of the process; where Thunder catches
it the mutex stays locked, and `LocksAreKept` does not hold for that request.

## 3. Runs

| Run | Instance | States | What it shows |
|---|---|---|---|
| `lm_free` | one application, two clients without discipline, two contexts, two pool threads, 3 calls, relaunch included | 3.4 million | every instance follows `AppLifecycle` (`ImplementsLifecycle`), whatever is used after deletion elsewhere; a job finds a context to delete only while it is unloaded (`FindsOnlyUnloaded`); an unloaded instance has no container |
| `lm_orderly` | one client that leaves an application alone once it unloads it; crashes and repeated RUNNING; 4 calls | 1.0 million | nothing but a walk over the list meets a deleted context, and none is launched anew while it is deleted (`OnlyWalksMeetDeleted`), one context per application, states agree with container and window, and only what has drawn a frame is ACTIVE (`StateMatchesRuntime`) |
| `lm_events` | one application, any outcome of the runtime, display failures | 139,000 | state change events tell the history of an instance without a gap |
| `lm_live` | two applications in one queue, teardown at any time, fairness | 27,600 | calls return; the queue drains, and after `terminate` the thread ends so that it can be joined (`QueueDrains`); an unload is completed; all of it unless a walk meets a deleted context |
| `am_free` | two applications, all calls, all policies and lock outcomes, impatient clients | 440,000 | records end up agreeing with LifecycleManager |
| `am_patient` | two applications, patient and frugal clients, 5 calls, closing suspends, fairness | 31,000 | package locks go with records, `closeApp` acts only on a paused application, no cycle of locks, every launch is reported |
| `packages` | two applications, one with an id that is not well named, a disk of 3 units, one handler thread, two locks, one restart, every fault | 453,000 | promised space is there, records and directories agree, what is installed has storage, locks are counted, an install that reports success delivers |
| `services` | seven services, see below; fairness for one of them | 683,000 | nine claims, at least one for each service |
| `shell` | five parts, see below; fairness | 298,000 | eleven claims |
| `lm_refused`, `am_cycle`, `rt_user_ids` | small | violation | see findings |

What `services` claims: running containers differ in the user ids they were
given (`UidsDistinct`), listeners hear TERMINATED last (`TerminatedToldLast`) and
of every stop (`StopIsTold`); a cancelled download makes no attempt but the one
begun (`CancelBinds`); what is on record is mounted in one place until an unmount
passes it, and no device is missed in the end (`MountsMatchDevices`); the store
stays within its limits and a restart finds its tables (`StoreIsSound`); a
listener that has heard of a setting knows its value and T2 the privacy mode,
unless news of it came in the wrong order (`SettingsFollow`); restarts within a
window are limited (`RestartsBounded`); no event is sent twice or overtaken by
one of its kind, and none is lost but without a backend or at the end of the
thread (`EventsKeepOrder`).

What `shell` claims of its parts:

| Part | Instance | Claims |
|---|---|---|
| `path` | the plugin's table, and every predecessor table over three states | a path is found exactly when there is one, and repeats no state (`PathIsRight`) |
| `windows` | two callers of CreateDisplay, three calls, any number of activations, failing waits, displays and listeners | every client of a display is heard (`ClientsAreHeard`), calls return (`CallsReturn`), until the first `Deinitialize` |
| `shell` | three callers on one application, three calls, one outside deactivation, four pool threads, displays and listeners refused | records, displays and plugins agree when nothing is under way (`AtRestAllAgree`); launches bar destroys (`LaunchBarsDestroy`); calls return (`CallsReturn`) |
| `plugins` | any of seventeen plugins, two activations | no null pointer and nothing given back is used (`NeverMisused`); a plugin that is down holds nothing (`AllGivenBack`); only crashes submit deactivations (`JobsTellCrashes`); a plugin whose process dies does not stay up (`DeathTakesDown`) |
| `requests` | any of 295 requests | `LocksAreKept`, `ReplyTells` |

**Bounds.** `MaxCalls` counts API calls and `MaxInstances` instance ids; nothing
else of LifecycleManager is bounded by hand. Three calls on one application are
the shortest sequence in which a call meets a context that is being deleted and
another one that replaces it; with two instances a job of the first can arrive in
the life of the second, which is what `FindsOnlyUnloaded` and
`UnloadedHasNoContainer` are about. The queue has one thread, so two applications
suffice to have a request wait behind another's, and two pool threads to reorder
jobs. In `AppManager` five calls cover launch, close, resume, terminate and
launch anew.

`packages`: with three units of disk and quotas of one or two, two applications
can promise more than there is. One restart can fall between any two steps.
`services`: two instances and one user id make the pool run dry, with
`MaxWaiting = 0` a request comes when no job waits and no failure of a bundle is
under way (stops come at any time); `SpecUid` is an id of the pool in `services`,
so that what `/tmp/specchange` gives may meet what the pool gives, and another
one in `rt_user_ids`; two threads of a pool (`UsbPoolThreads`,
`SettingsPoolThreads`) are enough for one job to overtake another;
three downloads are one in progress, one waiting and one more; two devices
compete for one mount directory; two clients interleave the statements of the
store, of which two namespaces with one limit, values of length 0 to 2 and sizes
of at most 4 reach every trigger; three changes overtake one activation of
Telemetry; limits of 0 to 3 with five failures let the doubling count give up;
four events, stamped or not, overtake one another in every way. `shell`: three
states make every shape of branch and cycle the search can meet; one application
suffices because marks and records are per application (two were tried as well);
three calls (`MaxShellCalls`) are one for each caller: a launch, a destroy and what
races with both; four threads hold three calls and a job; two activations are the fewest in which
a job, a process or a registration of an earlier one meets a later one.

Deadlock is not checked where a bound or a fault can stop the system for good;
the configurations say which. The liveness properties then say that nothing is
left unfinished.

**Fairness.** The operating system runs a thread that can run: weak fairness on
the transition thread, on calls in progress, on the handler, on the render
thread, on the steps of an activation, on pool threads that take the oldest job
or, in `PluginActivation`, some job. Nobody is obliged to call. In `LifecycleManager`, a container that was told to start or
stop does so and one that runs draws a frame; in `RuntimeManager` Dobby finishes
what it was told. These are assumptions about Dobby and the window manager, and
`CallsReturn`, `UnloadCompletes` and `StopIsTold` are false without them.

**What needs a restriction.**

* `OneContextPerApp` and `OnlyWalksMeetDeleted` fail with clients that are not
  orderly, `StateMatchesRuntime` with a runtime that ignores calls. The walk that
  `OnlyWalksMeetDeleted` leaves open is in the code, and no discipline of the
  caller closes it. `FindsOnlyUnloaded` is about the lookup: with free clients a
  context may be launched anew before it is deleted, which `lm_free` reaches.
* `NoEventMissed` and `CloseFindsPaused` fail with a second pool thread that lets
  one state change overtake another; `PackageLockedOnce` with clients that launch
  a visible application or where closing unloads.
* `PromiseFits` fails when quotas cannot be read at start-up (fault `get`);
  `LockedWhileCounted` with two handler threads, which AppManager's `mAdminLock`
  excludes.
* `TerminatedToldLast` needs pools of one thread, and leaves out onFailure, which
  may be heard before, between and after the two events of the end;
  `UidsDistinct` excepts the id 0 of a depleted pool, containers that are being
  stopped, whose id is given back before they end, and those started with the
  id of `/tmp/specchange`, which share it.
* `SettingsFollow` excepts settings of which one job overtook another, whose
  listeners may be left with the older value; an activation that was overtaken; and
  a failure of rbus, which is only logged. With a store that fails to read,
  Telemetry tells T2 the default.
* `MountsMatchDevices` excepts the records an unmount under way has passed (until
  listeners are told they stay on record), and devices for which a mount failed or
  whose jobs came in the wrong order.
* `EventsKeepOrder` excepts events for which no backend was loaded and those that
  still wait for the time when the thread ends.
* `ClientsAreHeard` excepts clients for which a caller could not wait or listen.
* RDKShell: `RsOneEach`, one launch and one destroy of an application at a time.
  The marks are names, not calls, so overlapping launches break
  `LaunchBarsDestroy` and may leave a display. `AtRestAllAgree` excepts the display
  or listener the compositor refused when last asked. With two callers on two threads
  the calls wait for ever, as TLC shows: threads must outnumber calls. The faults
  `clone` and `typeActive` leave a display behind and are not in the run.

### Findings

* `lm_refused`: a request for which there is no path (for instance
  `SetTargetAppState(LOADING)`) is never erased from the queue, so that an
  `UnloadApp` behind it is never carried out.
* `am_cycle`: `TerminateApp` right after `LaunchApp` can close a cycle of the
  connector's lock, LifecycleManager's `mAdminLock` and `gRequestMutex`.
* `rt_user_ids`: `Terminate` of an instance whose container has ended by itself
  succeeds without giving the user id back, because OCIContainer leaves the error
  text empty by which RuntimeManager, and its test, recognise the case.

## 4. Proofs

The theorems hold for every value of the constants that satisfies the
assumptions of the module (the `ASSUME`s, which TLC evaluates on the values of
the runs) and what is said here. The theorems of
the modules `Lifecycle...` are about LifecycleManager, for
every number of applications, clients, contexts and pool threads, every set of
calls, outcomes and faults, orderly clients or not.

* `TypeCorrect`, `OnPathAlways` (`LifecycleManager_proofs`). The inductive
  invariant is `Inv == TypeOK /\ OnPath`. `TypeOK` is not inductive by itself:
  the thread reads the head of the queue, the first element of the path and the
  context of the request without looking whether they exist, and that they do
  while `changeState` runs is what `OnPath` says. There is a lemma per action;
  actions of clients, pool threads and environment preserve `OnPath` through
  `OnPathFrame` and its variants, because they append to the queue at most and
  never touch the state of a context.
* `Refinement` (`LifecycleManager_proofs`): `Spec` implements
  `AppLifecycle!Spec` under the mapping of `LifecycleProperties!Abstract`. By
  `OnPath` a step of the thread is a `Move` along an edge; the last one reaches
  the goal; failing steps and refused requests are `Abandon`; all else stutters.
* `LateEventsSafe` (`LifecycleManager_proofs`): a job finds a context to delete
  only in state UNLOADED. The invariant `DInv` adds that contexts have different instance
  ids, and that every job that would delete a context is `Harmless`: it names an
  instance id already generated, and the context with that id, if there is one,
  is unloaded. A launch takes a new id, so a late job no longer finds the context.
  What happens between the lookup and the deletion is no part of it.
  `getContext` is a `CHOOSE` of the first match in a list; that there is one
  (`FirstPlace`) follows from the well-foundedness of strict inclusion on the
  finite set of earlier places.
* `UnloadedAlwaysStopped` (`LifecycleManager_proofs`): an instance that is
  UNLOADED has no container left, whatever crashes, fails or is called meanwhile.
  Semaphores outlive an instance, so a signal left over from the last one would
  let `changeState` through too early. The invariant `UInv` follows the one
  TERMINATED event of an instance: it is queued (`ToldOnce`), counted by the
  semaphore of its own context or spent on the way to UNLOADED (`Signalled`).
  For that a container must start once (`StartedOnce`, from the table: LOADING
  leads to INITIALIZING only) and a new instance must have none (`NotYet`).
* `OneContextAlways` (`LifecycleOrderly_proofs`), if one thread makes the calls:
  SpawnApp looks the application up, lets the lock go and takes it again to add
  the context, so the invariant (`NoneYet`) is that nothing of that application
  is loaded while a call is between the two.
* `DeletedNeverHeld`, `StateAlwaysMatches` (`LifecycleOrderly_proofs`), for
  `OrderlyUse`: one thread makes the calls, makes none on an application it asked
  to unload, and asks for its end by UnloadApp and KillApp only. Without it both
  fail. `SInv` says where pointers to a context are kept: in calls, in the queue,
  in the list. A request to terminate is the last one for its context
  (`EndIsLast`) and known by the target set before it (`EndIsKnown`); UNLOADED is
  the end of its path (`PathEnds`); so when the context is unloaded nothing but
  the list points to it, nobody can launch it anew while it is looked up and
  deleted, and what is left is the list until the erasure (`Pointers`). A
  behaviour that crashed did so in a walk over the list while a deleted context
  was in it (`CrashedOnWalk`). `RInv` follows the container: what an
  instance can be asked for in each state (`Fits`), and that a queued event tells
  of a container that has run (`Right`). The second also assumes a runtime that
  does what it is asked (`RuntimeOutcomes`).
* `HistoryAlwaysTold` (`LifecycleOrderly_proofs`), for one pool thread (with two a
  job may overtake the one before it) and any clients, outcomes and faults. What
  is queued of an instance is then the end of its history (`Chained`), and the
  last of it tells the state of the context or announces TERMINATING
  (`AllTold`). A transition given up after the announcement stays at the head of
  the queue; that it goes on with the same step when it is taken up again, and
  does not enter another state behind an announcement already made, is due to the
  paths: what precedes TERMINATING on any of them leads straight to TERMINATING
  (`TerminatesAlike`; `PathAlike` carries it along a path). The search of
  StateHandler finds such paths: the runs evaluate it as `SearchAssumption`.
* `EventsNeverMissed`, `PackagesLockedOnce`, `CloseAlwaysPaused`
  (`AppManager_proofs`), for every number of applications, instances and calls,
  every policy and every path function with `StepsAssumption`. `Base` (types;
  the request in progress is at the head of the queue; what contexts, jobs, the
  call and records know of one another) is inductive for every set of clients and
  every number of pool threads. `EventsNeverMissed` needs one pool thread: `News`
  says that the last that was said of an instance is true, be it in the last job
  about it, in the event in hand, or in the record; a record of another instance
  is that of a call that holds the connector's lock. `CloseAlwaysPaused` needs
  patient clients too: nothing but the suspension that closeApp asked for moves
  the application while it waits (`Closing`), so any PAUSED it is told of is
  true. `PackagesLockedOnce` assumes what `am_patient` gives its clients
  (`Thrifty`: patient, frugal, closing suspends, a locked package has a path),
  and any number of pool threads. `OneLock` says which records may be without a
  loaded application; that a context marked for unloading is under way to its end
  (`Leaving`) shows that there are none when a client calls next.
* `Refinement` (`AppManager_proofs`): `AppManager!Spec` implements the same
  `AppLifecycle!Spec`, for every number of applications, clients and pool
  threads. An application without a context counts as UNLOADED (`StateOf`), and
  what is moving is the application of the request whose thread is under way. The
  invariant is `Base`: the path in hand leads to what the head of the queue asks
  for. What is left to show is that calls, connector, jobs and handler stutter,
  although they add and remove contexts and requests: a context appears as
  UNLOADED and goes as UNLOADED, and a request is added behind the one under way.
* `CrashesTold` (`PluginActivation_proofs`): `JobsTellCrashes` for every number
  of activations and the fourteen plugins it speaks of, wherever their process
  dies and whatever fails. A process ends by itself when it is told to or when
  nothing of it is in use, so a plugin that is registered for its end must do
  neither: `Calm3` are the steps that do not terminate the process nor let go of
  the implementation, `Guards` the sequences that are calm up to the step that
  unregisters, alternatives included. `ProgramsKeepTheRules` goes through the
  programs of the fourteen plugins: what they do before they register (`Pre`),
  then, and in `Deinitialize`, three levels of nesting deep. The invariant
  `Kept` says where the machine is (`Where`): in such a program, in a call of
  the implementation with the rest of the program behind it (`InCall`), or not
  registered yet (`BeforeWatch`); and that a process that is watched is in use
  and not told to end (`InUse`). The three plugins of `LeavesLate` break the
  rule in `Deinitialize`, and the claim excepts them.
* `RestartsStayBounded` (`Services_proofs`): within a window the plugin is
  restarted no more often than the limit says. The invariant `CountInv` relates
  the history to the count, `tries <= restartCount + 1`: twice the count and one
  is at least the number of tries, so refusing by the count refuses soon enough.
* `UidsAlwaysDistinct` (`RuntimeManager_proofs`), for every range of ids and
  every fault. The invariant `UidInv` says that an id is in the pool once or with
  one instance (`IdsOnce`), and that a container with the id it was given that is
  not being stopped has the id its instance owns (`Owns`). Nothing is assumed of
  the id of `/tmp/specchange`.
* `TerminationEndsAll` (`RuntimeManager_proofs`), assuming one pool thread: two
  may dispatch the jobs in the other order. The two events of the end of a
  container are submitted together, once it is gone and its `Run` is over, so
  nothing can be said of the instance later (`Gone`). They stay neighbours in
  OCIContainer's queue (`EndInOci`); `SaidBefore` carries TERMINATED over to
  RuntimeManager's queue and to the listeners, past jobs of other instances
  and past the failure of its bundle (`EndInRt`, `EndTold`).
* `CancelAlwaysBinds` (`Services_proofs`): after Cancel a download makes
  at most the attempt that may have begun. The invariant adds that ids in the
  queue are new (`QueueFresh`) and that a late attempt implies that the mark has
  not been seen yet (`LateOnce`).
* `SettingsAlwaysFollow` (`Services_proofs`), assuming that the store can be read
  (without `get` in `SettingsFaults`), for every number of threads. As long as no
  job about a setting overtook another (it is not `overtaken`), what was said
  last of a setting is what is
  stored: by the last job of the store about it, else by the last job of
  UserSettings, else by the listener (`SettingNews`). A mode Telemetry has read is
  out of date only while a change is on its way, and that makes the activation
  late (`ModeNews`).
* `MountsAlwaysMatch` (`Services_proofs`), for every finite set of devices and
  every fault. Whatever directory a thread finds, mkdir makes it once, so mounts
  differ by their paths, and a mount is on record once (`RecordsInv`) until an
  unmount passes it. As long as no job about a device came out of order, the last
  event about a device that is plugged in says so (`EventsTell`); so a job that
  unmounts it is never the last, and the device is announced, on the list of the
  boot, being mounted, or on record (`Attended`). The thread of a client is of no
  importance to that: another job or the boot takes care of the device.
* `EventsAlwaysKeepOrder` (`Services_proofs`). An event is in one of four places:
  sent, waiting for the time, in the thread's hand, in the queue of actions,
  unless it is `lost`.
  `FlowInv` says that these hold what was accepted, each in order, and that
  of two events of one kind the one farther on is the older. An event without a
  timestamp is sent only past an empty waiting queue, for that is empty once the
  time is valid.
* `StoreAlwaysSound` (`Services_proofs`), for all sizes and limits. A sum of
  lengths is a number of bytes (`Bytes`), so that a deletion, an insertion and a
  replacement are steps on finite sets. `StoreInv` says that the tables and the
  backup are within the limits of the configuration, and that the backup is what
  the store was last opened with.
* `DestroyNeverUnderLaunch`, `RestAlwaysAgrees` (`RDKShell_proofs`), for every
  number of callers, applications, threads and calls, assuming `RsOneEach` and, the second,
  `FewFaults`: all faults but `clone` and `typeActive`. `MarkInv` says who controls a change
  (`ControlInv`) and that the marks tell exactly which calls are under way
  (`MarksTell`); the first theorem follows. `RestInv` adds, for every point a
  call or a change can be at, which records exist (`EntriesTell`), that requests
  to the render thread belong to who waits for them (`NewWaits`), and where a
  display or listener may be without a plugin and the reverse, but for what the
  compositor refused (`DisplaysTell`). When nothing
  is under way these exceptions vanish, which is the claim.
* `ClientsAlwaysHeard` (`RDKShell_proofs`), for every number of callers and every
  set of spellings, until the first `Deinitialize`. `HeardOrTold`: a display
  without a listener is `unheard`, or that of a
  caller who has been told of it and has not yet added the listener, and who was
  told of a display finds it. All of that begins with the one `Initialize`
  (`BeforeInitialize`), and requests in the queue have a caller that waits
  (`CallersOK`).
* `RecordsAlwaysMatch`, `InstalledAlwaysHasStorage`, `InstallAlwaysDelivers`,
  `CountedAlwaysLocked` (`PackageManager_proofs`), for every disk, set of
  packages and fault. There is a lemma for each request of StorageManager that
  says what it keeps (`StorageInv`: types, and that records match directories) and
  which directories it may drop. `PkgInv` adds `Delivering`: while the library
  installs, the storage made for the package stays. `InstallDelivers` follows
  from it, and so does `InstalledHasStorage` at the end of an install. `FirstOf`
  is a `CHOOSE` of the least version; `FirstVersion` proves there is one from
  the well-foundedness of `<` on Nat. The last theorem assumes
  `OneHandler`, as the run does: two threads that lock and unlock one package at
  once do break it. `LockInv` adds that a package whose Lock or Unlock is in the
  library is not counted (`InLibrary`).
* `PromisesAlwaysFit` (`PackageManager_proofs`), assuming that PersistentStore can
  be read (without `get` in `StorageFaults`). Sums of sizes are numbers of units,
  taken (`Taken`) or promised (`Rests`). A unit an application writes was promised
  to it (`WriteSpace`), what is freed may be promised again (`FreedUnits`), and a
  new record is made only where its quota is free beyond all promises
  (`UnitsReserved`). For a restart not to promise more than there was,
  PersistentStore must hold no quota that a record lacks, nor one of a directory
  that is without a record but would get one (`QuotasKept`): the second is why a
  CreateStorage that drops a record and then finds no space does no harm.

Only model-checked: all liveness (temporal reasoning about fairness is outside
what the prover does); the path search, which is recursive (`PathIsRight`);
`NeverMisused` and `AllGivenBack`, which depend on the value of every reference
count at every step of every program, and `LocksAreKept` and `ReplyTells`, whose
programs are the requests of fourteen plugins: the provers would have to carry
out each of them, as TLC does. `Requests` has no constants, so `shell` checks
every request with every outcome; what bounds it is that a `Repeat` makes at most
two rounds. `PathIsRight` is checked on the plugin's own table in full, and
`MaxActivations = 2` lets every plugin be activated again after an activation
that failed or a process that died.

## 5. Not modelled

`PROJECT.json` lists every component with what is left out of it. In general:

* Configuration and specification generators (`DobbySpecGenerator`,
  `AIConfiguration`), transports (web sockets, gRPC, RustAdapter, WebBridge),
  and message output: text and I/O without state that outlives a call.
* The compositor, libusb, Dobby, Essos, T2, SQLite and the package library are
  external. They appear as far as the code asks them and relies on the answers.
* Interleavings between two requests of the catalogue. Where state makes them
  interesting the plugin has a module of its own; elsewhere `LocksAreKept` says
  whether a request is exposed to them. Two are known in RDKShell:
  `sFactoryAppLaunchStatus` is tested and set without a lock, and
  `waitForHibernateUnblocked` returns before the focus is set.
* Activation of RDKShell, Monitor, ResourceManager, RustAdapter and WebBridge.
* Requests of StorageManager's facade, USBMassStorage's GetPartitionInfo,
  Analytics, NativeJS and MessageControl: a call passed on, or text.
* Data: expiry times of the store, names of events, sizes in bytes. Rows of the
  store keep their length, because limits are about it.

## 6. Further work

The lost wake-up of the downloader (a thread that sleeps with a non-empty queue until the next
Download), which is listed as a hazard without a property.
