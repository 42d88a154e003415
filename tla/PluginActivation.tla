-------------------------- MODULE PluginActivation --------------------------
(***************************************************************************)
(* The framework activates and deactivates one plugin, whose steps         *)
(* PluginPrograms lists, while the process that hosts the plugin's         *)
(* implementation may die at any point.                                    *)
(*                                                                         *)
(* The implementation lives in a process of its own (apart) or in the      *)
(* framework's.  The framework either calls Deinitialize after an          *)
(* Initialize that failed (cleansUp) or does not; each plugin is written   *)
(* for one of the two, and is hosted by a framework that does so.          *)
(***************************************************************************)
EXTENDS PluginPrograms, Naturals, Bags, BagsExt

CONSTANT
    MaxActivations   \* bound: activations of the plugin

ASSUME PluginActivationAssumption == MaxActivations \in Nat

PluginNames == DOMAIN Programs

\* Deinitialize, run twice, uses the service it has let go, or is not run by
\* the plugin itself.
LeavesToFramework ==
    {"LifecycleManager", "PackageManager", "Telemetry", "CloudStore", "PersistentStore", "SharedStorage"}
CleansUpItself ==
    {"AppManager", "RuntimeManager", "StorageManager", "USBMassStorage", "UserSettings"}

VARIABLES
    hosted,         \* which plugin
    apart,          \* its implementation has a process of its own
    cleansUp,       \* the framework's mode
    stage,          \* "down", "initialize", "up" or "deinitialize"
    steps,          \* what is left of the plugin's function
    failedInit,     \* Initialize returns a message
    members,        \* pointers that are not null, each with its side
    held,           \* the references they count: a bag of the same
    registered,     \* what is registered with what: <<side, object, what>>
    misused,        \* a null pointer has been used, or one given back
    activation,     \* how many there have been
    process,        \* the activation whose process lives, or 0
    connectionId,   \* the plugin's mConnectionId
    ending,         \* Terminate has been called
    jobs,           \* deactivations submitted: of which activation
    deaths          \* crashes of the process: <<activation, stage>>

hostVars == <<hosted, apart, cleansUp>>
pointerVars == <<members, held, registered, misused>>
processVars == <<process, connectionId, ending, jobs, deaths>>
pluginVars == <<hostVars, stage, steps, failedInit, pointerVars, activation, processVars>>

PluginInit ==
    /\ hosted \in PluginNames
    /\ apart \in IF hosted = "MessageControl" THEN {FALSE} ELSE BOOLEAN
    /\ cleansUp \in BOOLEAN
    /\ hosted \in LeavesToFramework => cleansUp
    /\ hosted \in CleansUpItself => ~cleansUp
    /\ stage = "down" /\ steps = Nothing /\ failedInit = FALSE
    /\ members = {} /\ held = EmptyBag /\ registered = {} /\ misused = FALSE
    /\ activation = 0
    /\ process = 0 /\ connectionId = 0 /\ ending = FALSE
    /\ jobs = {} /\ deaths = {}

-----------------------------------------------------------------------------
(* While the implementation is in a call, the end of the call is among the *)
(* steps.                                                                   *)

Return(good, bad) == Step("return", "", good, bad)
Returns(i) == i \in DOMAIN steps /\ steps[i].do = "return"
Side == IF \E i \in DOMAIN steps : Returns(i) THEN "implementation" ELSE "plugin"

Now == Head(steps)
Does(d) == ~misused /\ steps # Nothing /\ Now.do = d
Continues(then) == steps' = then \o Tail(steps)
Mine(x) == <<Side, x>>

Alive == ~apart \/ process # 0         \* a call of the implementation arrives

\* References the plugin holds to its implementation, by any interface.
Interfaces == {"impl", "configure", "mLifecycleManagerState", "mPackageInstaller", "mPackageHandler",
    "_userSettingsInspector", "_store2", "_storeCache", "_storeInspector", "_storeLimit"}
IsInterface(m) == m[1] = "plugin" /\ m[2] \in Interfaces
LastOf(x) ==
    /\ IsInterface(Mine(x)) /\ held[Mine(x)] = 1
    /\ \A m \in BagToSet(held) : IsInterface(m) => m = Mine(x)

Usable(x) == Mine(x) \in members /\ Mine(x) \in BagToSet(held)

-----------------------------------------------------------------------------
(* Pointers and references. *)

Gains(x) == members' = members \union {Mine(x)} /\ held' = BagAdd(held, Mine(x))

Keeps ==
    /\ Does("keep")
    /\ Gains(Now.of) /\ Continues(Nothing)
    /\ UNCHANGED <<hostVars, stage, failedInit, registered, misused, activation, processVars>>

Points ==
    /\ Does("point")
    /\ members' = members \union {Mine(Now.of)} /\ Continues(Nothing)
    /\ UNCHANGED <<hostVars, stage, failedInit, held, registered, misused, activation, processVars>>

SetsNull ==
    /\ Does("forget")
    /\ members' = members \ {Mine(Now.of)} /\ Continues(Nothing)
    /\ UNCHANGED <<hostVars, stage, failedInit, held, registered, misused, activation, processVars>>

CountsOnce ==
    /\ Does("addRef") /\ Usable(Now.of)
    /\ held' = BagAdd(held, Mine(Now.of)) /\ Continues(Nothing)
    /\ UNCHANGED <<hostVars, stage, failedInit, members, registered, misused, activation, processVars>>

\* With its last reference the implementation is destroyed; what it was
\* told to tell is forgotten with it.
GivesBack ==
    /\ Does("release") \/ Does("drop")
    /\ Usable(Now.of)
    /\ held' = BagRemove(held, Mine(Now.of))
    /\ members' = IF Now.do = "drop" THEN members \ {Mine(Now.of)} ELSE members
    /\ IF LastOf(Now.of) /\ Alive
       THEN Continues(Programs[hosted].Destroyed \o <<Return(Nothing, Nothing)>>)
       ELSE Continues(Nothing)
    /\ registered' = IF LastOf(Now.of) THEN {r \in registered : ~IsInterface(r)} ELSE registered
    /\ UNCHANGED <<hostVars, stage, failedInit, misused, activation, processVars>>

\* A proxy of a dead process takes no registration.
Registers ==
    /\ Does("register")
    /\ Now.of = "this" \/ Usable(Now.of)
    /\ registered' = IF IsInterface(Mine(Now.of)) /\ ~Alive THEN registered
                     ELSE registered \union {<<Side, Now.of, Now.then[1]>>}
    /\ Continues(Nothing)
    /\ UNCHANGED <<hostVars, stage, failedInit, members, held, misused, activation, processVars>>

Unregisters ==
    /\ Does("unregister")
    /\ Now.of = "this" \/ Usable(Now.of)
    /\ registered' = registered \ {<<Side, Now.of, Now.then[1]>>}
    /\ Continues(Nothing)
    /\ UNCHANGED <<hostVars, stage, failedInit, members, held, misused, activation, processVars>>

\* Whatever comes after the use of a null pointer is undefined.
Misuses ==
    /\ \E d \in {"addRef", "release", "drop", "register", "unregister", "call"} : Does(d)
    /\ Now.of # "this" /\ ~Usable(Now.of)
    /\ misused' = TRUE
    /\ UNCHANGED <<hostVars, stage, steps, failedInit, members, held, registered, activation, processVars>>

-----------------------------------------------------------------------------
(* Queries and calls. *)

\* Root starts the process and makes the implementation in it.
RootStarts ==
    /\ Does("root")
    /\ process' = IF apart THEN activation ELSE 0
    /\ connectionId' = process'
    /\ Continues(Programs[hosted].Created \o <<Return(<<Plain("found", Now.of)>> \o Now.then, Now.else)>>)
    /\ UNCHANGED <<hostVars, stage, failedInit, pointerVars, activation, ending, jobs, deaths>>

RootFails ==
    /\ Does("root")
    /\ Continues(Now.else)
    /\ UNCHANGED <<hostVars, stage, failedInit, pointerVars, activation, processVars>>

RootFinds ==
    /\ Does("found")
    /\ Gains(Now.of) /\ Continues(Nothing)
    /\ UNCHANGED <<hostVars, stage, failedInit, registered, misused, activation, processVars>>

\* The implementation has all the interfaces it is asked for.
QueryFinds ==
    /\ Does("query") /\ Alive
    /\ Gains(Now.of) /\ Continues(Now.then)
    /\ UNCHANGED <<hostVars, stage, failedInit, registered, misused, activation, processVars>>

QueryMisses ==
    /\ Does("query") /\ ~Alive
    /\ Continues(Now.else)
    /\ UNCHANGED <<hostVars, stage, failedInit, pointerVars, activation, processVars>>

\* Another plugin is there or not.
CallsignFinds ==
    /\ Does("byCallsign")
    /\ Gains(Now.of) /\ Continues(Now.then)
    /\ UNCHANGED <<hostVars, stage, failedInit, registered, misused, activation, processVars>>

CallsignMisses ==
    /\ Does("byCallsign")
    /\ Continues(Now.else)
    /\ UNCHANGED <<hostVars, stage, failedInit, pointerVars, activation, processVars>>

Calls ==
    /\ Does("call") /\ Usable(Now.of)
    /\ IF Alive THEN Continues(Now.body \o <<Return(Now.then, Now.else)>>) ELSE Continues(Now.else)
    /\ UNCHANGED <<hostVars, stage, failedInit, pointerVars, activation, processVars>>

ReturnsGood ==
    /\ Does("return")
    /\ Continues(Now.then)
    /\ UNCHANGED <<hostVars, stage, failedInit, pointerVars, activation, processVars>>

\* The rest of the call, and then what is done when it has failed.
AfterCall ==
    LET end == CHOOSE i \in DOMAIN steps : Returns(i) /\ \A j \in 1..(i - 1) : ~Returns(j)
    IN steps[end].else \o SubSeq(steps, end + 1, Len(steps))

ReturnsBad ==
    /\ Does("refuse")
    /\ steps' = AfterCall
    /\ UNCHANGED <<hostVars, stage, failedInit, pointerVars, activation, processVars>>

-----------------------------------------------------------------------------
(* Control. *)

Tests ==
    /\ \/ Does("if") /\ Continues(IF Mine(Now.of) \in members THEN Now.then ELSE Nothing)
       \/ Does("ifFailed") /\ Continues(IF failedInit THEN Now.then ELSE Nothing)
       \/ Does("sometimes") /\ \E then \in {Now.then, Nothing} : Continues(then)
    /\ UNCHANGED <<hostVars, stage, failedInit, pointerVars, activation, processVars>>

Fails ==
    /\ Does("fail")
    /\ failedInit' = TRUE /\ Continues(Nothing)
    /\ UNCHANGED <<hostVars, stage, pointerVars, activation, processVars>>

Exits ==
    /\ Does("exit")
    /\ steps' = Nothing
    /\ UNCHANGED <<hostVars, stage, failedInit, pointerVars, activation, processVars>>

Terminates ==
    /\ Does("terminate")
    /\ ending' = (connectionId # 0 /\ process = connectionId) /\ Continues(Nothing)
    /\ UNCHANGED <<hostVars, stage, failedInit, pointerVars, activation, process, connectionId, jobs, deaths>>

ClearsId ==
    /\ Does("clearId")
    /\ connectionId' = 0 /\ Continues(Nothing)
    /\ UNCHANGED <<hostVars, stage, failedInit, pointerVars, activation, process, ending, jobs, deaths>>

-----------------------------------------------------------------------------
(* The framework. *)

\* Of an earlier activation nothing is known any more.
Activate ==
    /\ stage = "down" /\ process = 0 /\ ~misused /\ activation < MaxActivations
    /\ stage' = "initialize" /\ steps' = Programs[hosted].Initialize /\ failedInit' = FALSE
    /\ members' = {} /\ held' = EmptyBag /\ registered' = {}
    /\ activation' = activation + 1
    /\ UNCHANGED <<hostVars, misused, processVars>>

InitializeEnds ==
    /\ stage = "initialize" /\ ~misused /\ steps = Nothing
    /\ \/ ~failedInit /\ stage' = "up" /\ UNCHANGED steps
       \/ failedInit /\ ~cleansUp /\ stage' = "down" /\ UNCHANGED steps
       \/ failedInit /\ cleansUp /\ stage' = "deinitialize" /\ steps' = Programs[hosted].Deinitialize
    /\ UNCHANGED <<hostVars, failedInit, pointerVars, activation, processVars>>

Deactivate ==
    /\ stage = "up" /\ ~misused
    /\ stage' = "deinitialize" /\ steps' = Programs[hosted].Deinitialize
    /\ UNCHANGED <<hostVars, failedInit, pointerVars, activation, processVars>>

DeinitializeEnds ==
    /\ stage = "deinitialize" /\ ~misused /\ steps = Nothing
    /\ stage' = "down"
    /\ UNCHANGED <<hostVars, steps, failedInit, pointerVars, activation, processVars>>

\* A job deactivates whatever is up when it runs, and nothing in between.
RunsJob(a) ==
    /\ a \in jobs /\ ~misused
    /\ jobs' = jobs \ {a}
    /\ IF stage = "up"
       THEN stage' = "deinitialize" /\ steps' = Programs[hosted].Deinitialize
       ELSE UNCHANGED <<stage, steps>>
    /\ UNCHANGED <<hostVars, failedInit, pointerVars, activation, process, connectionId, ending, deaths>>

-----------------------------------------------------------------------------
(* The end of the process, for whatever reason. *)

\* Notification::Deactivated of the plugin.
DeactivatedByOther ==
    IF <<"plugin", "service", "death">> \in registered /\ process # connectionId
    THEN {activation} ELSE {}
Deactivated ==
    IF <<"plugin", "service", "death">> \in registered /\ process = connectionId
    THEN {activation} ELSE {}

ProcessEnds ==
    /\ process' = 0 /\ ending' = FALSE
    /\ jobs' = jobs \union Deactivated
    /\ members' = {m \in members : m[1] = "plugin"}
    /\ held' = [m \in {n \in BagToSet(held) : n[1] = "plugin"} |-> held[m]]
    /\ registered' = {r \in registered : r[1] = "plugin" /\ ~IsInterface(r)}
    /\ steps' = IF Side = "implementation" THEN AfterCall ELSE steps
    /\ UNCHANGED <<hostVars, stage, failedInit, misused, activation, connectionId>>

\* It has been told to, or nothing of it is in use.
ProcessExits ==
    /\ process # 0 /\ ~misused
    /\ ending \/ (Side = "plugin" /\ ~Does("found") /\ \A m \in BagToSet(held) : ~IsInterface(m))
    /\ ProcessEnds /\ UNCHANGED deaths

Crash ==
    /\ process # 0 /\ ~ending /\ ~misused
    /\ ProcessEnds /\ deaths' = deaths \union {<<activation, stage>>}

-----------------------------------------------------------------------------
PluginStep ==
    \/ Keeps \/ Points \/ SetsNull \/ CountsOnce \/ GivesBack \/ Registers \/ Unregisters \/ Misuses
    \/ RootStarts \/ RootFails \/ RootFinds \/ QueryFinds \/ QueryMisses
    \/ CallsignFinds \/ CallsignMisses \/ Calls \/ ReturnsGood \/ ReturnsBad
    \/ Tests \/ Fails \/ Exits \/ Terminates \/ ClearsId
    \/ InitializeEnds \/ DeinitializeEnds

RunsSomeJob == \E a \in 1..MaxActivations : RunsJob(a)

PluginNext == PluginStep \/ Activate \/ Deactivate \/ RunsSomeJob \/ ProcessExits \/ Crash

\* Threads go on, and the worker pool takes its jobs.
PluginFairness == WF_pluginVars(PluginStep) /\ WF_pluginVars(RunsSomeJob)
PluginSpec == PluginInit /\ [][PluginNext]_pluginVars /\ PluginFairness

-----------------------------------------------------------------------------
(* What is claimed. *)

\* No plugin uses a pointer that is null or that it has given back, wherever
\* its process dies, its implementation is missing or another plugin is not
\* there.  Five plugins do not look whether their queries succeeded: they
\* are safe as long as the process does not die before Initialize is over.
QueriesUnchecked == {"LifecycleManager", "USBMassStorage", "UserSettings", "Telemetry", "SharedStorage"}
NeverMisused ==
    misused => hosted \in QueriesUnchecked /\ <<activation, "initialize">> \in deaths

\* What is not given back, and why: references counted once too often or
\* never released, which keep SharedStorage's and PackageManager's
\* implementations alive with all they hold; registrations with another
\* plugin that outlive the object registered; and what is skipped when a
\* thread was not started or not seen.
KnownLeaks ==
    UNION {
        {"AppManager"} \X {"LifecycleManager", "LifecycleManagerState", "PackageInstaller", "StorageManager"},
        {"RuntimeManager"} \X {"RDKWindowManager"},
        {"PackageManager"} \X {"mPackageInstaller", "mPackageHandler", "mCurrentservice", "StorageManager"},
        {"SharedStorage"} \X {"_storeInspector", "_storeLimit", "_storeCache", "_service",
            "_psObject", "_psInspector", "_psLimit", "_psCache", "_csObject"},
        {<<"Telemetry", "_service">>},
        {<<"USBMassStorage", "USBDevice">>, <<"UserSettings", "PersistentStore">>},
        {<<"LifecycleManager", "RuntimeManager">>, <<"NativeJS", "this">>}}

AtRest == stage = "down" /\ process = 0 /\ ~misused

\* A plugin that is down, because it was deactivated or because Initialize
\* failed somewhere, holds no reference and no registration any more, nor
\* does its implementation, but for the known leaks.
AllGivenBack ==
    AtRest => \A m \in BagToSet(held) \union {<<r[1], r[2]>> : r \in registered} :
                  <<hosted, m[2]>> \in KnownLeaks

\* Only a crash submits a deactivation, never the end that Deinitialize asks
\* for itself: the plugin has left the notification by then.  Three plugins
\* leave it last.
LeavesLate == {"OCIContainer", "RDKWindowManager", "USBDevice"}
JobsTellCrashes ==
    hosted \notin LeavesLate => \A a \in jobs : \E d \in deaths : d[1] = a

\* A plugin whose process dies while it is up does not stay up.  The others
\* never ask to be told.
Watching == PluginNames \ {"LifecycleManager", "RuntimeManager", "StorageManager", "Analytics", "NativeJS"}
DeathTakesDown ==
    \A a \in 1..MaxActivations :
        hosted \in Watching /\ activation = a /\ stage = "up" /\ <<a, "up">> \in deaths
            ~> stage # "up" \/ activation # a
=============================================================================
