----------------------------- MODULE AppManager -----------------------------
(***************************************************************************)
(* The AppManager plugin: its records of applications, the package locks   *)
(* it takes, and the LifecycleInterfaceConnector through which it drives   *)
(* LifecycleManager and hears of state changes.                            *)
(*                                                                         *)
(* Every API function holds mAdminLock from beginning to end, so there is  *)
(* one call in progress at most, and clients that wait for the lock are    *)
(* not part of the state.  The connector has a lock of its own: calls hold *)
(* it while they are inside LifecycleManager, and the handler of a state   *)
(* change, which comes in with the mAdminLock of LifecycleManager held,    *)
(* needs it.                                                               *)
(***************************************************************************)
EXTENDS LifecycleService

CONSTANTS
    Calls,              \* which API functions the clients use
    Policies,           \* what the policy files may say
    PackageOutcomes,    \* what Lock of the PackageManager may come to
    Patient,            \* clients wait until an earlier call has taken effect
    Frugal,             \* clients launch only what is not PAUSED or ACTIVE
    MaxCalls            \* bound: API calls in a behaviour

ASSUME ConstantsAssumption ==
    /\ Calls \subseteq {"Launch", "Preload", "Close", "Terminate", "Kill", "GetLoaded"}
    /\ Policies \subseteq {"none", "suspend", "hibernate"}
    /\ PackageOutcomes \subseteq {"locked", "noPath", "failed"}
    /\ Patient \in BOOLEAN /\ Frugal \in BOOLEAN
    /\ PoolThreads \in Nat \ {0} /\ MaxCalls \in Nat /\ MaxInstances \in Nat

VARIABLES
    mAppInfo,   \* the map from application ids to records
    call,       \* the call in progress, which holds mAdminLock
    locks,      \* per application, the lock count of its package
    amJobs,     \* the jobs through which listeners are told
    told,       \* per application, the state its listeners were last told
    calls       \* counter for the bound

vars == <<serviceVars, mAppInfo, call, locks, amJobs, told, calls>>

AppStates == LifecycleStates \cup {"UNKNOWN"}
NewInfo   == [inst |-> 0, new |-> "UNKNOWN", action |-> "NONE", version |-> FALSE]
Idle      == [pc |-> "idle"]

Init ==
    /\ ServiceInit
    /\ mAppInfo = <<>>
    /\ call = Idle
    /\ locks = [a \in Apps |-> 0]
    /\ amJobs = <<>>
    /\ told = [a \in Apps |-> "UNKNOWN"]
    /\ calls = 0

Known(a) == a \in DOMAIN mAppInfo
InState(a, S) == Known(a) /\ mAppInfo[a].new \in S

\* A call inside LifecycleManager and the handler at its map hold the lock.
FreeWhileSpawning == call.pc # "add" /\ event.pc # "walk"
ConnectorFree     == call.pc \notin {"add", "spawned"} /\ event.pc # "walk"

\* mAppInfo[a], which makes a record when there is none.
Info(a) == IF Known(a) THEN mAppInfo[a] ELSE NewInfo
SetInfo(a, r) == mAppInfo' = With(mAppInfo, a, r)

\* updateCurrentAction
Act(a, action) == mAppInfo' = IF Known(a) THEN [mAppInfo EXCEPT ![a].action = action] ELSE mAppInfo

-----------------------------------------------------------------------------
(* The beginning of a call. *)

\* What the clients refrain from.
May(op, a) ==
    /\ ~(Loaded(a) /\ context[a].unloading)
    /\ Patient => Settled /\ amJobs = <<>>
    /\ Frugal /\ op \in {"Launch", "Preload"} =>
           \/ ~Loaded(a)
           \/ op = "Launch" /\ InState(a, {"SUSPENDED", "PAUSED", "HIBERNATED"})

Begin(op, a) ==
    /\ call = Idle
    /\ op \in Calls
    /\ May(op, a)
    /\ calls < MaxCalls
    /\ calls' = calls + 1
    /\ call' = [pc |-> IF op \in {"Launch", "Preload"} THEN "isLoaded" ELSE "connect",
                op |-> op, app |-> a, loaded |-> FALSE, target |-> "UNLOADED", then |-> "return"]
    /\ UNCHANGED <<serviceVars, mAppInfo, locks, amJobs, told>>

\* isAppLoaded, the first thing packageLock does.
IsAppLoaded ==
    /\ call.pc = "isLoaded"
    /\ ConnectorFree
    /\ call' = [call EXCEPT !.pc = "package", !.loaded = Loaded(call.app)]
    /\ UNCHANGED <<serviceVars, mAppInfo, locks, amJobs, told, calls>>

\* A loaded application that is hidden or stopped keeps the lock it has.
NeverSkip   == FALSE
SkipLock    == call.loaded /\ InState(call.app, {"SUSPENDED", "PAUSED", "HIBERNATED"})
WithPackage == SetInfo(call.app, [Info(call.app) EXCEPT !.version = TRUE])

PackageLock ==
    /\ call.pc = "package"
    /\ \/ /\ SkipLock
          /\ call' = [call EXCEPT !.pc = "connect"]
          /\ UNCHANGED <<mAppInfo, locks>>
       \/ /\ ~SkipLock
          /\ \E o \in PackageOutcomes :
                /\ locks' = IF o = "failed" THEN locks ELSE [locks EXCEPT ![call.app] = @ + 1]
                /\ IF o = "locked"
                   THEN WithPackage /\ call' = [call EXCEPT !.pc = "connect"]
                   ELSE UNCHANGED mAppInfo /\ call' = Idle
    /\ UNCHANGED <<serviceVars, amJobs, told, calls>>

-----------------------------------------------------------------------------
(* The connector: each call of it begins by taking its lock. *)

Request(s, then) == call' = [call EXCEPT !.pc = "add", !.target = s, !.then = then]
Fail == call' = Idle /\ UNCHANGED context

Connect(op) == call.pc = "connect" /\ call.op = op /\ ConnectorFree

unchangedByConnect == <<gRequests, worker, signalled, lmJobs, event, lastInstance,
                        locks, amJobs, told, calls>>

Spawn(s, action) ==
    /\ Act(call.app, action)
    /\ EnsureContext(call.app)
    /\ Request(s, "spawned")

SpawnOrSuspend(s, action) ==
    \E p \in Policies : IF p = "none" THEN Spawn(s, action) ELSE Spawn("SUSPENDED", "SUSPEND")

\* The instance is the one the record holds.
OnInstance(Effect, s, then) ==
    IF HasInstance(call.app, mAppInfo[call.app].inst)
    THEN Effect /\ Request(s, then) ELSE Fail

launch ==
    /\ Connect("Launch")
    /\ IF Loaded(call.app) /\ InState(call.app, {"SUSPENDED"})
       THEN /\ Act(call.app, "RESUME")
            /\ OnInstance(UNCHANGED context, "ACTIVE", "return")
       ELSE SpawnOrSuspend("ACTIVE", "LAUNCH")
    /\ UNCHANGED unchangedByConnect

preLoadApp ==
    /\ Connect("Preload")
    /\ SpawnOrSuspend("PAUSED", "PRELOAD")
    /\ UNCHANGED unchangedByConnect

\* killApp, unlike terminateApp, records the action only of an application
\* that has an instance.
terminateApp(op) ==
    /\ Connect(op)
    /\ IF op = "Kill" /\ Info(call.app).inst = 0 THEN UNCHANGED mAppInfo ELSE Act(call.app, op)
    /\ IF Known(call.app) THEN OnInstance(MarkUnloading(call.app), "TERMINATING", "unlock") ELSE Fail
    /\ UNCHANGED unchangedByConnect

closeApp ==
    /\ Connect("Close")
    /\ Act(call.app, "CLOSE")
    /\ IF Known(call.app) THEN OnInstance(UNCHANGED context, "PAUSED", "waitPause") ELSE Fail
    /\ UNCHANGED unchangedByConnect

\* The wait for PAUSED ends when the handler notifies it, with its timeout
\* or for no reason; the connector's lock was given up for it.
AnyState == TRUE
IsPaused == InState(call.app, {"PAUSED"})

closeAppWaited ==
    /\ call.pc = "waitPause"
    /\ ConnectorFree
    /\ IF IsPaused
       THEN \E p \in Policies :
               CASE p = "none"      -> OnInstance(MarkUnloading(call.app), "TERMINATING", "return")
                 [] p = "suspend"   -> OnInstance(UNCHANGED context, "SUSPENDED", "return")
                 [] p = "hibernate" -> OnInstance(UNCHANGED context, "SUSPENDED", "hibernate")
       ELSE Fail
    /\ UNCHANGED <<unchangedByConnect, mAppInfo>>

\* addRequest of LifecycleManager, and what the call does next.
AddRequest ==
    /\ call.pc = "add"
    /\ Add(call.app, call.target)
    /\ call' = CASE call.then = "return"    -> Idle
                 [] call.then = "hibernate" -> [call EXCEPT !.target = "HIBERNATED", !.then = "return"]
                 [] OTHER                   -> [call EXCEPT !.pc = call.then]
    /\ UNCHANGED <<context, worker, signalled, lmJobs, event, lastInstance,
                   mAppInfo, locks, amJobs, told, calls>>

\* SpawnApp returns the instance id: the caller, which still has the
\* connector's lock, stores it.
StoreInstance == SetInfo(call.app, [Info(call.app) EXCEPT !.inst = context[call.app].inst])

SpawnReturn ==
    /\ call.pc = "spawned"
    /\ context[call.app].ready
    /\ StoreInstance
    /\ call' = Idle
    /\ UNCHANGED <<serviceVars, locks, amJobs, told, calls>>

\* packageUnLock, without the connector's lock.  The PackageManager refuses
\* to unlock an unknown version or a package that is not locked.
UnlockDone == Info(call.app).version /\ locks[call.app] > 0

PackageUnLock ==
    /\ call.pc = "unlock"
    /\ IF UnlockDone
       THEN /\ locks' = [locks EXCEPT ![call.app] = @ - 1]
            /\ mAppInfo' = Without(mAppInfo, call.app)
       ELSE UNCHANGED <<locks, mAppInfo>>
    /\ call' = Idle
    /\ UNCHANGED <<serviceVars, amJobs, told, calls>>

\* Every loaded application gets a record, made if need be.
getLoadedApps ==
    /\ Connect("GetLoaded")
    /\ mAppInfo' = [a \in DOMAIN context \cup DOMAIN mAppInfo |->
                        IF Loaded(a)
                        THEN [Info(a) EXCEPT !.inst = context[a].inst, !.new = context[a].state]
                        ELSE mAppInfo[a]]
    /\ call' = Idle
    /\ UNCHANGED <<context, unchangedByConnect>>

-----------------------------------------------------------------------------
(* State changes: the handler takes the connector's lock, walks the map    *)
(* and has a job tell the listeners of the changes they should hear of.    *)

HandlerLocks ==
    /\ event.pc = "notify"
    /\ ConnectorFree
    /\ event' = [event EXCEPT !.pc = "walk"]
    /\ UNCHANGED <<context, gRequests, worker, signalled, lmJobs, lastInstance,
                   mAppInfo, call, locks, amJobs, told, calls>>

NotifyLoading(a, s) == s = "LOADING"
ShouldNotify(a, s) ==
    s \in {"LOADING", "ACTIVE"} \/ (s = "PAUSED" /\ mAppInfo[a].action = "CLOSE")

OnAppLifecycleStateChanged ==
    LET j == event.job
    IN  /\ event.pc = "walk"
        /\ IF Known(j.app) /\ mAppInfo[j.app].inst = j.inst
           THEN /\ mAppInfo' = [mAppInfo EXCEPT ![j.app].new = j.new]
                /\ amJobs' = IF ShouldNotify(j.app, j.new)
                             THEN Append(amJobs, [app |-> j.app, new |-> j.new]) ELSE amJobs
           ELSE UNCHANGED <<mAppInfo, amJobs>>
        /\ event' = NoEvent
        /\ UNCHANGED <<context, gRequests, worker, signalled, lmJobs, lastInstance,
                       call, locks, told, calls>>

\* The job that tells the listeners takes mAdminLock.
Tell(k) ==
    /\ call = Idle
    /\ k \in DOMAIN amJobs
    /\ told' = [told EXCEPT ![amJobs[k].app] = amJobs[k].new]
    /\ amJobs' = TakeOut(amJobs, k)
    /\ UNCHANGED <<serviceVars, mAppInfo, call, locks, calls>>

-----------------------------------------------------------------------------
CallGoesOn ==
    \/ IsAppLoaded \/ PackageLock
    \/ launch \/ preLoadApp \/ closeApp \/ closeAppWaited \/ getLoadedApps
    \/ \E op \in {"Terminate", "Kill"} : terminateApp(op)
    \/ AddRequest \/ SpawnReturn \/ PackageUnLock

Handler == HandlerLocks \/ OnAppLifecycleStateChanged

appVars == <<mAppInfo, call, locks, amJobs, told, calls>>

Rest == call = Idle /\ Settled /\ amJobs = <<>> /\ UNCHANGED vars

Next ==
    \/ \E op \in Calls, a \in Apps : Begin(op, a)
    \/ CallGoesOn
    \/ Handler
    \/ \E k \in 1..PoolThreads : Tell(k)
    \/ ServiceNext /\ UNCHANGED appVars
    \/ Rest

Spec == Init /\ [][Next]_vars

(***************************************************************************)
(* Every thread that can run does so in the end; nobody has to call.       *)
(***************************************************************************)
Fairness ==
    /\ WF_vars(CallGoesOn)
    /\ WF_vars(Handler)
    /\ WF_vars(Tell(1))
    /\ WF_vars(WorkerNext /\ UNCHANGED appVars)
    /\ WF_vars(Dispatch(1) /\ UNCHANGED appVars)

FairSpec == Spec /\ Fairness

-----------------------------------------------------------------------------
ContextType == [inst : Nat, state : LifecycleStates, unloading : BOOLEAN, ready : BOOLEAN]
InfoType    == [inst : Nat, new : AppStates, version : BOOLEAN,
                action : {"NONE", "LAUNCH", "PRELOAD", "SUSPEND", "RESUME", "CLOSE",
                          "Terminate", "Kill"}]
CallType    == [pc : {"isLoaded", "package", "connect", "add", "spawned", "waitPause", "unlock"},
                op : Calls, app : Apps, loaded : BOOLEAN, target : LifecycleStates,
                then : {"return", "spawned", "unlock", "waitPause", "hibernate"}]
JobType     == [kind : {"SIGNAL", "STATE"}, app : Apps, inst : Nat,
                old : LifecycleStates, new : LifecycleStates]

ServiceTypeOK ==
    /\ DOMAIN context \subseteq Apps
    /\ context \in [DOMAIN context -> ContextType]
    /\ gRequests \in Seq([app : Apps, target : LifecycleStates])
    /\ worker \in [pc : {"asleep", "step", "wait"}, path : Seq(LifecycleStates)]
    /\ signalled \subseteq Apps
    /\ lmJobs \in Seq(JobType)
    /\ event = NoEvent \/ event \in [pc : {"notify", "walk"}, job : JobType]
    /\ lastInstance \in Nat

\* Every variable keeps its type.
TypeOK ==
    /\ ServiceTypeOK
    /\ DOMAIN mAppInfo \subseteq Apps
    /\ mAppInfo \in [DOMAIN mAppInfo -> InfoType]
    /\ call = Idle \/ call \in CallType
    /\ locks \in [Apps -> Nat]
    /\ amJobs \in Seq([app : Apps, new : AppStates])
    /\ told \in [Apps -> AppStates]
    /\ calls \in Nat

-----------------------------------------------------------------------------
(* Safety. *)

\* LaunchApp and PreloadApp keep the connector's lock until the instance id
\* of SpawnApp is stored, so that the handler misses no state change: when
\* LifecycleManager has nothing left to tell, a record agrees with it.  The
\* handler relies on the order of the jobs, which one pool thread keeps.
NoEventMissed ==
    Settled /\ call = Idle =>
        \A a \in DOMAIN mAppInfo :
            Loaded(a) =>
                /\ mAppInfo[a].inst = context[a].inst
                /\ mAppInfo[a].new = context[a].state

\* The packages AppManager has locked are those of its records, each locked
\* once, when clients launch only what is not already visible and closing
\* suspends: packageLock, which decides by the state the events reported,
\* locks none twice, and packageUnLock gives none up it does not forget.
PackageLockedOnce ==
    call = Idle =>
        \A a \in Apps : locks[a] = IF Known(a) /\ mAppInfo[a].version THEN 1 ELSE 0

\* closeApp asks for suspension or unloading only once the application is
\* PAUSED, however the timed wait ended.
CloseFindsPaused ==
    [][call.pc = "waitPause" /\ call'.pc = "add" => context[call.app].state = "PAUSED"]_vars

\* The state of an application: UNLOADED is one without a context, too.
StateOf(a) == IF Loaded(a) THEN context[a].state ELSE "UNLOADED"

NoApp    == "none"
Abstract == INSTANCE AppLifecycle WITH
    Contexts <- Apps,
    Null     <- NoApp,
    state    <- [a \in Apps |-> StateOf(a)],
    moving   <- IF MutexFree THEN NoApp ELSE Cur,
    goal     <- IF MutexFree THEN NoApp ELSE Head(gRequests).target

\* Whatever AppManager asks for and however its calls, the jobs and the
\* transition thread interleave, one application at a time is moved, along
\* the table and to the state asked for: contexts come and go as UNLOADED
\* only, and no call disturbs the request under way.
ImplementsLifecycle == Abstract!Spec

-----------------------------------------------------------------------------
(* Liveness. *)

\* A call returns: no cycle arises between the connector's lock, mAdminLock
\* of LifecycleManager and gRequestMutex.
CallsReturn == call # Idle ~> call = Idle

\* Listeners hear of every launch: an application that is ACTIVE is reported
\* to be, or it is no longer.
ActiveIsTold ==
    \A a \in Apps :
        Known(a) /\ Loaded(a) /\ context[a].state = "ACTIVE"
            ~> ~Loaded(a) \/ context[a].state # "ACTIVE" \/ told[a] = "ACTIVE"
=============================================================================
