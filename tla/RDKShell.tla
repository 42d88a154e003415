------------------------------ MODULE RDKShell ------------------------------
(***************************************************************************)
(* RDKShell: launch, suspend and destroy of applications that are plugins  *)
(* of Thunder.  A call runs on a thread of the worker pool, hands the      *)
(* activation or deactivation to another thread of the pool and waits.     *)
(* That thread, or whoever else changes the plugin's state, calls the      *)
(* handlers of MonitorClients, which wait for the render thread.           *)
(***************************************************************************)
EXTENDS Naturals, FiniteSets

CONSTANTS
    RsCallers,      \* threads of the pool with a call of the plugin's interface
    RsApps,         \* callsigns
    RsPoolThreads,  \* threads of the pool
    RsFaults,       \* what goes wrong outside
    RsOneEach,      \* one launch and one destroy of an application at a time
    MaxShellCalls,  \* bound: calls
    MaxOutside      \* bound: deactivations by others

Nobody == "nobody"

ASSUME RDKShellAssumption ==
    /\ RsCallers \cap RsApps = {} /\ Nobody \notin RsCallers \cup RsApps
    /\ RsPoolThreads \in Nat
    /\ RsFaults \subseteq {"type", "typeActive", "clone", "init", "display", "kill", "listener"}
    /\ RsOneEach \in BOOLEAN
    /\ MaxShellCalls \in Nat /\ MaxOutside \in Nat

VARIABLES
    thunder,             \* external: the state of each plugin
    suspendedApps,       \* external: plugins whose IStateControl says SUSPENDED
    shellDisplays,       \* external: the compositor's clients
    shellListeners,      \* clients with mEventListener
    deniedDisplays,      \* history: clients whose display the compositor did not
                         \* make, or did not kill, when last asked
    deniedListeners,     \* history: those for which the listener was not added, or
                         \* not removed, when last asked
    gActivePluginsData,
    gStateNotifications, \* callsigns with a StateControlNotification
    launchEnabled,       \* those whose mLaunchEnabled is set
    gLaunchApplications, gDestroyApplications, gExternalDestroyApplications,
    createRequests,      \* who waits in gCreateDisplayRequests
    killRequests,        \* who waits in gKillClientRequests
    change,              \* per plugin, its activation or deactivation and whose it is
    call,                \* per caller, its call
    gDestroyMutex,       \* who holds it
    shellCalls, outside  \* bounds

marks == <<gLaunchApplications, gDestroyApplications, gExternalDestroyApplications>>
clientVars == <<shellDisplays, shellListeners, deniedDisplays, deniedListeners, gActivePluginsData>>
stateVars == <<suspendedApps, gStateNotifications, launchEnabled>>
queueVars == <<createRequests, killRequests>>
shellVars == <<thunder, stateVars, clientVars, marks, queueVars, change, call, gDestroyMutex,
               shellCalls, outside>>

NoChange == [at |-> "none", by |-> Nobody]
NoCall == [at |-> "idle", op |-> "none", app |-> Nobody, suspend |-> FALSE,
           launchType |-> "unknown", retried |-> FALSE]

ShellInit ==
    /\ thunder = [a \in RsApps |-> "absent"]
    /\ suspendedApps = {} /\ gStateNotifications = {} /\ launchEnabled = {}
    /\ shellDisplays = {} /\ shellListeners = {} /\ gActivePluginsData = {}
    /\ deniedDisplays = {} /\ deniedListeners = {}
    /\ gLaunchApplications = {} /\ gDestroyApplications = {} /\ gExternalDestroyApplications = {}
    /\ createRequests = {} /\ killRequests = {}
    /\ change = [a \in RsApps |-> NoChange]
    /\ call = [c \in RsCallers |-> NoCall]
    /\ gDestroyMutex = Nobody
    /\ shellCalls = 0 /\ outside = 0

-----------------------------------------------------------------------------
(* Calls, jobs and requests. *)

Doing(c, where) == call[c].at = where
App(c) == call[c].app
GoesTo(c, where) == call' = [call EXCEPT ![c].at = where]
Ends(c) == call' = [call EXCEPT ![c] = NoCall]

InProgress(op, a) == \E c \in RsCallers : call[c].op = op /\ App(c) = a

\* A call keeps its thread while its job runs on another.
Busy == Cardinality({c \in RsCallers : call[c].at # "idle"})
        + Cardinality({c \in RsCallers : Doing(c, "inJob")})
ThreadFree == Busy < RsPoolThreads

Begins(c, op, a, suspend, where) ==
    /\ Doing(c, "idle") /\ ThreadFree /\ shellCalls < MaxShellCalls
    /\ RsOneEach => ~InProgress(op, a)
    /\ shellCalls' = shellCalls + 1
    /\ call' = [call EXCEPT ![c] = [NoCall EXCEPT !.at = where, !.op = op, !.app = a, !.suspend = suspend]]

\* Requests are told apart by who waits for them.
ClientOf(p) == IF p \in RsApps THEN p ELSE App(p)

\* isClientExists.  The render thread moves a request from the queue to the
\* compositor's clients in one section, so that the two looks are one.
isClientExists(a) == a \in shellDisplays \/ \E p \in createRequests : ClientOf(p) = a

\* A plugin answers QueryInterface until it is released.
HasStateControl(a) == thunder[a] \in {"activated", "deactivation"}

-----------------------------------------------------------------------------
(* launchWrapper. *)

\* A launch is refused, without effect, while the application is destroyed.
LaunchBegins(c, a, suspend) ==
    /\ a \notin gDestroyApplications
    /\ Begins(c, "launch", a, suspend, "finding")
    /\ gLaunchApplications' = gLaunchApplications \cup {a}
    /\ UNCHANGED <<thunder, stateVars, clientVars, gDestroyApplications, gExternalDestroyApplications,
                   queueVars, change, gDestroyMutex, outside>>

\* When the type is an active plugin itself, Thunder is not asked for the
\* callsign, and a plugin that is not active is taken to be new.
FindsPlugin(c) ==
    /\ Doing(c, "finding")
    /\ \E typeActive \in {FALSE} \cup (IF "typeActive" \in RsFaults THEN {TRUE} ELSE {}) :
          LET found == App(c) \in gActivePluginsData \/ (~typeActive /\ thunder[App(c)] # "absent")
          IN  call' = [call EXCEPT ![c].at = IF found THEN "configuring" ELSE "cloning",
                                   ![c].launchType = IF found THEN "unknown" ELSE "create"]
    /\ UNCHANGED <<thunder, stateVars, clientVars, marks, queueVars, change, gDestroyMutex, shellCalls, outside>>

FindsNoType(c) ==
    /\ Doing(c, "finding") /\ "type" \in RsFaults
    /\ App(c) \notin gActivePluginsData /\ thunder[App(c)] = "absent"
    /\ Ends(c)
    /\ gLaunchApplications' = gLaunchApplications \ {App(c)}
    /\ UNCHANGED <<thunder, stateVars, clientVars, gDestroyApplications, gExternalDestroyApplications,
                   queueVars, change, gDestroyMutex, shellCalls, outside>>

\* cloneService, with its retry; the launch goes on whatever comes of it.
Clones(c) ==
    /\ Doing(c, "cloning") /\ ThreadFree
    /\ \E cloned \in {TRUE} \cup (IF "clone" \in RsFaults THEN {FALSE} ELSE {}) :
          thunder' = IF cloned /\ thunder[App(c)] = "absent"
                     THEN [thunder EXCEPT ![App(c)] = "deactivated"] ELSE thunder
    /\ GoesTo(c, "looking")
    /\ UNCHANGED <<stateVars, clientVars, marks, queueVars, change, gDestroyMutex, shellCalls, outside>>

LooksForDisplay(c) ==
    /\ Doing(c, "looking")
    /\ GoesTo(c, IF isClientExists(App(c)) THEN "configuring" ELSE "pushing")
    /\ UNCHANGED <<thunder, stateVars, clientVars, marks, queueVars, change, gDestroyMutex, shellCalls, outside>>

PushesDisplay(c) ==
    /\ Doing(c, "pushing")
    /\ createRequests' = createRequests \cup {c}
    /\ GoesTo(c, "waiting")
    /\ UNCHANGED <<thunder, stateVars, clientVars, marks, killRequests, change, gDestroyMutex, shellCalls, outside>>

\* The configuration is set and the state asked for: a plugin that is active,
\* or about to be, is not activated.
Configures(c) ==
    /\ Doing(c, "configuring")
    /\ call' = IF call[c].launchType # "create" /\ thunder[App(c)] \in {"activation", "activated"}
               THEN [call EXCEPT ![c].at = "arranging"]
               ELSE [call EXCEPT ![c].at = "submitted",
                                 ![c].launchType = IF @ = "create" THEN "create" ELSE "activate"]
    /\ UNCHANGED <<thunder, stateVars, clientVars, marks, queueVars, change, gDestroyMutex, shellCalls, outside>>

\* What becomes of a launch whose activation failed: it tries once more.
AfterFailure(k) == IF k.retried THEN [k EXCEPT !.at = "finishing"]
                                ELSE [k EXCEPT !.at = "submitted", !.retried = TRUE]

\* The job of activate.  Thunder refuses a plugin that is being changed.
ActivateJob(c) ==
    LET a == App(c) IN
    /\ Doing(c, "submitted") /\ call[c].op = "launch" /\ ThreadFree
    /\ IF thunder[a] = "deactivated"
       THEN /\ thunder' = [thunder EXCEPT ![a] = "activation"]
            /\ change' = [change EXCEPT ![a] = [at |-> "initialize", by |-> c]]
            /\ GoesTo(c, "inJob")
       ELSE /\ call' = [call EXCEPT ![c] = IF thunder[a] = "activated" THEN [@ EXCEPT !.at = "arranging"]
                                           ELSE AfterFailure(@)]
            /\ UNCHANGED <<thunder, change>>
    /\ UNCHANGED <<stateVars, clientVars, marks, queueVars, gDestroyMutex, shellCalls, outside>>

\* The notification is made once, and told to report the launch when it is
\* there already.
Arranges(c) ==
    LET a == App(c) IN
    /\ Doing(c, "arranging")
    /\ IF a \in gStateNotifications
       THEN launchEnabled' = launchEnabled \cup {a} /\ UNCHANGED gStateNotifications
       ELSE /\ gStateNotifications' = gStateNotifications \cup (IF HasStateControl(a) THEN {a} ELSE {})
            /\ UNCHANGED launchEnabled
    /\ GoesTo(c, "setting")
    /\ UNCHANGED <<thunder, suspendedApps, clientVars, marks, queueVars, change, gDestroyMutex, shellCalls, outside>>

\* A plugin told to suspend or resume reports the change, if it is one:
\* StateControlNotification::StateChange.
TellsPlugin(a, suspend) ==
    LET changes == thunder[a] = "activated" /\ (a \in suspendedApps) # suspend
    IN  /\ suspendedApps' = IF ~changes THEN suspendedApps
                            ELSE IF suspend THEN suspendedApps \cup {a} ELSE suspendedApps \ {a}
        /\ launchEnabled' = launchEnabled \ (IF changes THEN {a} ELSE {})

SetsState(c) ==
    /\ Doing(c, "setting")
    /\ TellsPlugin(App(c), call[c].suspend)
    /\ GoesTo(c, "finishing")
    /\ UNCHANGED <<thunder, gStateNotifications, clientVars, marks, queueVars, change, gDestroyMutex, shellCalls, outside>>

LaunchEnds(c) ==
    /\ Doing(c, "finishing")
    /\ Ends(c)
    /\ gLaunchApplications' = gLaunchApplications \ {App(c)}
    /\ UNCHANGED <<thunder, stateVars, clientVars, gDestroyApplications, gExternalDestroyApplications,
                   queueVars, change, gDestroyMutex, shellCalls, outside>>

-----------------------------------------------------------------------------
(* destroyWrapper and suspendWrapper. *)

\* The mark is set without looking whether a launch has just set the other.
MarkUnseen(a) == gDestroyApplications' = gDestroyApplications \cup {a}

\* A destroy is refused, without effect, while the application is launched.
Mark(a) == a \notin gLaunchApplications /\ gDestroyApplications' = gDestroyApplications \cup {a}

DestroyBegins(c, a) ==
    /\ Mark(a)
    /\ Begins(c, "destroy", a, FALSE, "locking")
    /\ UNCHANGED <<thunder, stateVars, clientVars, gLaunchApplications, gExternalDestroyApplications,
                   queueVars, change, gDestroyMutex, outside>>

DestroyLocks(c) ==
    /\ Doing(c, "locking") /\ gDestroyMutex = Nobody
    /\ gDestroyMutex' = c
    /\ GoesTo(c, "submitted")
    /\ UNCHANGED <<thunder, stateVars, clientVars, marks, queueVars, change, shellCalls, outside>>

\* The job of deactivate.  Thunder refuses a plugin that is not active.
DeactivateJob(c) ==
    LET a == App(c) IN
    /\ Doing(c, "submitted") /\ call[c].op = "destroy" /\ ThreadFree
    /\ IF thunder[a] = "activated"
       THEN /\ thunder' = [thunder EXCEPT ![a] = "deactivation"]
            /\ change' = [change EXCEPT ![a] = [at |-> "deactivated", by |-> c]]
            /\ GoesTo(c, "inJob")
       ELSE GoesTo(c, "unlocking") /\ UNCHANGED <<thunder, change>>
    /\ UNCHANGED <<stateVars, clientVars, marks, queueVars, gDestroyMutex, shellCalls, outside>>

DestroyUnlocks(c) ==
    /\ Doing(c, "unlocking")
    /\ gDestroyMutex' = Nobody
    /\ GoesTo(c, "erasing")
    /\ UNCHANGED <<thunder, stateVars, clientVars, marks, queueVars, change, shellCalls, outside>>

DestroyEnds(c) ==
    /\ Doing(c, "erasing")
    /\ Ends(c)
    /\ gDestroyApplications' = gDestroyApplications \ {App(c)}
    /\ UNCHANGED <<thunder, stateVars, clientVars, gLaunchApplications, gExternalDestroyApplications,
                   queueVars, change, gDestroyMutex, shellCalls, outside>>

\* A suspend is refused, without effect, while the application goes away.
SuspendBegins(c, a) ==
    /\ a \notin gDestroyApplications \cup gExternalDestroyApplications
    /\ Begins(c, "suspend", a, TRUE, "suspending")
    /\ UNCHANGED <<thunder, stateVars, clientVars, marks, queueVars, change, gDestroyMutex, outside>>

Suspends(c) ==
    /\ Doing(c, "suspending") /\ gDestroyMutex = Nobody
    /\ TellsPlugin(App(c), TRUE)
    /\ Ends(c)
    /\ UNCHANGED <<thunder, gStateNotifications, clientVars, marks, queueVars, change, gDestroyMutex, shellCalls, outside>>

-----------------------------------------------------------------------------
(* The handlers of MonitorClients, called by Thunder with the state of the *)
(* plugin held.                                                            *)

Changing(a, where) == change[a].at = where
ChangesTo(a, where) == change' = [change EXCEPT ![a].at = where]

\* The plugin goes without a call of RDKShell: it crashed, or somebody else
\* deactivated it.
GoesOutside(a) ==
    /\ thunder[a] = "activated" /\ outside < MaxOutside
    /\ thunder' = [thunder EXCEPT ![a] = "deactivation"]
    /\ change' = [change EXCEPT ![a] = [at |-> "deactivated", by |-> Nobody]]
    /\ outside' = outside + 1
    /\ UNCHANGED <<stateVars, clientVars, marks, queueVars, call, gDestroyMutex, shellCalls>>

\* handleInitialize.
InitializeLooks(a) ==
    /\ Changing(a, "initialize")
    /\ ChangesTo(a, IF isClientExists(a) THEN "created" ELSE "pushing")
    /\ UNCHANGED <<thunder, stateVars, clientVars, marks, queueVars, call, gDestroyMutex, shellCalls, outside>>

InitializePushes(a) ==
    /\ Changing(a, "pushing")
    /\ createRequests' = createRequests \cup {a}
    /\ ChangesTo(a, "waiting")
    /\ UNCHANGED <<thunder, stateVars, clientVars, marks, killRequests, call, gDestroyMutex, shellCalls, outside>>

\* What addListener and removeListener answer is not looked at.  The first
\* fails where the client has no display.
Listens(a, listens, mayFail) ==
    \/ /\ shellListeners' = IF listens THEN shellListeners \cup {a} ELSE shellListeners \ {a}
       /\ deniedListeners' = deniedListeners \ {a}
    \/ /\ mayFail \/ "listener" \in RsFaults
       /\ deniedListeners' = deniedListeners \cup {a}
       /\ UNCHANGED shellListeners

InitializeRegisters(a) ==
    /\ Changing(a, "created")
    /\ Listens(a, TRUE, a \notin shellDisplays)
    /\ gActivePluginsData' = gActivePluginsData \cup {a}
    /\ ChangesTo(a, "starting")
    /\ UNCHANGED <<thunder, stateVars, shellDisplays, deniedDisplays, marks, queueVars, call, gDestroyMutex,
                   shellCalls, outside>>

\* The plugin's own Initialize; one that fails is deinitialised.
PluginStarts(a) ==
    /\ Changing(a, "starting")
    /\ thunder' = [thunder EXCEPT ![a] = "activated"]
    /\ change' = [change EXCEPT ![a] = NoChange]
    /\ call' = [call EXCEPT ![change[a].by].at = "arranging"]
    /\ UNCHANGED <<stateVars, clientVars, marks, queueVars, gDestroyMutex, shellCalls, outside>>

PluginFails(a) ==
    /\ Changing(a, "starting") /\ "init" \in RsFaults
    /\ ChangesTo(a, "deinitialize")
    /\ UNCHANGED <<thunder, stateVars, clientVars, marks, queueVars, call, gDestroyMutex, shellCalls, outside>>

handleDeactivated(a) ==
    /\ Changing(a, "deactivated")
    /\ gExternalDestroyApplications' =
          gExternalDestroyApplications \cup (IF a \in gDestroyApplications THEN {} ELSE {a})
    /\ gStateNotifications' = gStateNotifications \ {a}
    /\ launchEnabled' = launchEnabled \ {a}
    /\ ChangesTo(a, "deinitialize")
    /\ UNCHANGED <<thunder, suspendedApps, clientVars, gLaunchApplications, gDestroyApplications, queueVars,
                   call, gDestroyMutex, shellCalls, outside>>

\* handleDeinitialized.
DeinitializePushes(a) ==
    /\ Changing(a, "deinitialize")
    /\ killRequests' = killRequests \cup {a}
    /\ ChangesTo(a, "killing")
    /\ UNCHANGED <<thunder, stateVars, clientVars, marks, createRequests, call, gDestroyMutex, shellCalls, outside>>

\* The mark of an application that went by itself stays.
ForgetsLess(a) ==
    /\ gActivePluginsData' = gActivePluginsData \ {a}
    /\ gExternalDestroyApplications' = gExternalDestroyApplications

Forgets(a) ==
    /\ gActivePluginsData' = gActivePluginsData \ {a}
    /\ gExternalDestroyApplications' = gExternalDestroyApplications \ {a}

DeinitializeForgets(a) ==
    /\ Changing(a, "killed")
    /\ Listens(a, FALSE, FALSE) /\ Forgets(a)
    /\ ChangesTo(a, "forgotten")
    /\ UNCHANGED <<thunder, stateVars, shellDisplays, deniedDisplays, gLaunchApplications, gDestroyApplications, queueVars,
                   call, gDestroyMutex, shellCalls, outside>>

\* Thunder releases the plugin and answers the job.
PluginGone(a) ==
    LET c == change[a].by IN
    /\ Changing(a, "forgotten")
    /\ thunder' = [thunder EXCEPT ![a] = "deactivated"]
    /\ suspendedApps' = suspendedApps \ {a}
    /\ change' = [change EXCEPT ![a] = NoChange]
    /\ call' = IF c = Nobody THEN call
               ELSE [call EXCEPT ![c] = IF @.op = "launch" THEN AfterFailure(@)
                                                           ELSE [@ EXCEPT !.at = "unlocking"]]
    /\ UNCHANGED <<gStateNotifications, launchEnabled, clientVars, marks, queueVars, gDestroyMutex,
                   shellCalls, outside>>

-----------------------------------------------------------------------------
(* The render thread: the displays to make, then the clients to kill. *)

Answers == [a \in RsApps |->
    IF a \in createRequests THEN [change[a] EXCEPT !.at = "created"]
    ELSE IF a \in killRequests THEN [change[a] EXCEPT !.at = "killed"]
    ELSE change[a]]

\* createDisplay and kill may be refused; what they return is set as mResult,
\* which neither launchWrapper nor the handlers look at.
ShellFrame ==
    /\ createRequests # {} \/ killRequests # {}
    /\ \E made \in SUBSET createRequests, killed \in SUBSET killRequests :
          LET Clients(requests) == {ClientOf(p) : p \in requests} IN
          /\ made = createRequests \/ "display" \in RsFaults
          /\ killed = killRequests \/ "kill" \in RsFaults
          /\ shellDisplays' = (shellDisplays \cup Clients(made)) \ killed
          /\ deniedDisplays' = ((deniedDisplays \cup Clients(createRequests)) \ (Clients(made) \cup killed))
                                \cup (killRequests \ killed)
    /\ change' = Answers
    /\ call' = [c \in RsCallers |-> IF c \in createRequests THEN [call[c] EXCEPT !.at = "configuring"]
                                                            ELSE call[c]]
    /\ createRequests' = {} /\ killRequests' = {}
    /\ UNCHANGED <<thunder, stateVars, shellListeners, deniedListeners, gActivePluginsData, marks, gDestroyMutex,
                   shellCalls, outside>>

-----------------------------------------------------------------------------
ShellStep(c) ==
    \/ FindsPlugin(c) \/ FindsNoType(c) \/ Clones(c) \/ LooksForDisplay(c) \/ PushesDisplay(c)
    \/ Configures(c) \/ ActivateJob(c) \/ Arranges(c) \/ SetsState(c) \/ LaunchEnds(c)
    \/ DestroyLocks(c) \/ DeactivateJob(c) \/ DestroyUnlocks(c) \/ DestroyEnds(c)
    \/ Suspends(c)

ChangeStep(a) ==
    \/ InitializeLooks(a) \/ InitializePushes(a) \/ InitializeRegisters(a) \/ PluginStarts(a) \/ PluginFails(a)
    \/ handleDeactivated(a) \/ DeinitializePushes(a) \/ DeinitializeForgets(a)
    \/ PluginGone(a)

ShellNext ==
    \/ \E c \in RsCallers, a \in RsApps :
          (\E suspend \in BOOLEAN : LaunchBegins(c, a, suspend)) \/ DestroyBegins(c, a) \/ SuspendBegins(c, a)
    \/ \E c \in RsCallers : ShellStep(c)
    \/ \E a \in RsApps : GoesOutside(a) \/ ChangeStep(a)
    \/ ShellFrame

\* The threads of the pool and the render thread go on.
ShellFairness ==
    /\ \A c \in RsCallers : WF_shellVars(ShellStep(c))
    /\ \A a \in RsApps : WF_shellVars(ChangeStep(a))
    /\ WF_shellVars(ShellFrame)

ShellSpec == ShellInit /\ [][ShellNext]_shellVars /\ ShellFairness

-----------------------------------------------------------------------------
(* What is claimed. *)

\* Once nothing is under way for an application, what RDKShell believes, what
\* the compositor has and what Thunder runs agree: a plugin that is active
\* has its entry, its display and its listener, one that is not has none of
\* them, and no mark is left that would refuse a later call - after launches
\* and destroys that raced, failed starts, retries and crashes at any point.
\* Only a display the compositor refused to make or to kill, and a listener
\* it refused to add or to remove, when last asked are not as they should be.
AtRestAllAgree ==
    \A a \in RsApps :
        (Changing(a, "none") /\ \A c \in RsCallers : App(c) # a) =>
            /\ a \in gActivePluginsData <=> thunder[a] = "activated"
            /\ a \notin deniedDisplays => (a \in shellDisplays <=> thunder[a] = "activated")
            /\ a \notin deniedListeners => (a \in shellListeners <=> thunder[a] = "activated")
            /\ a \notin gLaunchApplications \cup gDestroyApplications \cup gExternalDestroyApplications

\* A destroy does not take a plugin away under a launch of it: while one
\* call is past its check of the other's mark, the other is not.
LaunchBarsDestroy == \A a \in RsApps : ~(InProgress("launch", a) /\ InProgress("destroy", a))

\* Every call returns, although each waits for a job that needs a thread of
\* the same pool and a handler that waits for the render thread, as long as
\* there are more threads than calls.
ShellCallsReturn == \A c \in RsCallers : ~Doing(c, "idle") ~> Doing(c, "idle")
=============================================================================
