-------------------------- MODULE LifecycleManager --------------------------
(***************************************************************************)
(* The LifecycleManager plugin: API calls made by client threads, the one  *)
(* thread that carries out state transition requests, and the worker pool  *)
(* jobs through which events of the runtime, of the window manager and of  *)
(* the transitions themselves come back.                                   *)
(*                                                                         *)
(* The transition thread holds gRequestMutex for the whole of a transition,*)
(* its waits for the runtime included; an API call that adds a request     *)
(* waits for that mutex.  Contexts are C++ objects: they are allocated,    *)
(* entered in mLoadedApplications, deleted and then erased from the list;  *)
(* a pointer to a deleted one may remain in the list for a moment, and in  *)
(* a request or in a call in progress for ever.                            *)
(***************************************************************************)
EXTENDS LifecycleStates, FiniteSets

CONSTANTS
    Apps,               \* application ids
    Clients,            \* threads that call the API
    Contexts,           \* ApplicationContext objects that can be allocated
    Null,               \* the null context pointer
    Calls,              \* which API operations the clients use
    Targets,            \* target states the clients ask for
    RuntimeOutcomes,    \* what a call of the RuntimeManager may come to
    Faults,             \* further events of the environment
    PoolThreads,        \* threads of the worker pool that run jobs
    Steps,              \* Steps[s][t]: the path found from state s to state t
    Orderly,            \* clients leave an application alone once they unload it
    MaxCalls,           \* bound: API calls in a behaviour
    MaxInstances        \* bound: instance ids generated in a behaviour

\* What changeState relies on: a path is empty or one to the target.
ASSUME StepsAssumption ==
    /\ Steps \in [LifecycleStates -> [LifecycleStates -> Seq(LifecycleStates)]]
    /\ \A s, t \in LifecycleStates : Steps[s][t] # <<>> => IsPath(s, t, Steps[s][t])

ASSUME ConstantsAssumption ==
    /\ Null \notin Contexts
    /\ Calls \subseteq {"Spawn", "Set", "Unload", "Kill", "Relaunch", "Teardown"}
    /\ Targets \subseteq LifecycleStates
    /\ RuntimeOutcomes \subseteq {"done", "nothing", "error"}
    /\ Faults \subseteq {"crash", "display", "rerun"}
    /\ PoolThreads \in Nat \ {0}
    /\ Orderly \in BOOLEAN
    /\ MaxCalls \in Nat
    /\ MaxInstances \in Nat

VARIABLES
    heap,                   \* heap[c]: "unused", "live", "found" by the thread
                            \* that is about to delete it, or "deleted"
    mLoadedApplications,    \* the list of contexts
    mAppId, mAppInstanceId, \* per context; instance 0 is the empty string
    mState,                 \* per context, the value of the State object
    mTargetLifecycleState,  \* per context
    mForce,                 \* per context, ApplicationKillParams::mForce
    sems,                   \* per context, the counts of its semaphores
    gRequests,              \* the vector of requests
    gRequestSemaphore,      \* its semaphore
    sRunning,               \* cleared by terminate
    worker,                 \* the transition thread: pc and the steps to go
    client,                 \* per client thread, the call in progress
    jobs,                   \* the jobs submitted to the worker pool
    container,              \* per instance, the state of its container
    window,                 \* instances that have rendered a frame
    lastInstance, calls     \* counters for the two bounds

contextVars == <<heap, mLoadedApplications, mAppId, mAppInstanceId, mState,
                 mTargetLifecycleState, mForce, sems>>
requestVars == <<gRequests, gRequestSemaphore, sRunning>>
runtimeVars == <<container, window>>
vars == <<contextVars, requestVars, worker, client, jobs, runtimeVars,
          lastInstance, calls>>

Instances == 1..MaxInstances
Waits     == {"waitRunning", "waitFrame", "waitTerminated"}
InStep    == {"step"} \cup Waits

Requests  == [ctx : Contexts, target : LifecycleStates]
Idle      == [pc |-> "idle", ctx |-> Null, target |-> "UNLOADED", app |-> Null, then |-> "return"]

RuntimeEvent(name, i) == [kind |-> name, inst |-> i, old |-> "UNLOADED", new |-> "UNLOADED"]
StateEventLate(i, o, n) == [kind |-> "STATE", inst |-> i, old |-> n, new |-> n]
StateEvent(i, o, n)   == [kind |-> "STATE", inst |-> i, old |-> o, new |-> n]
Events == [kind : {"STATE", "RUNNING", "TERMINATED", "READY"}, inst : Nat,
           old : LifecycleStates, new : LifecycleStates]

Init ==
    /\ heap = [c \in Contexts |-> "unused"]
    /\ mLoadedApplications = <<>>
    /\ mAppId = [c \in Contexts |-> Null]
    /\ mAppInstanceId = [c \in Contexts |-> 0]
    /\ mState = [c \in Contexts |-> "UNLOADED"]
    /\ mTargetLifecycleState = [c \in Contexts |-> "UNLOADED"]
    /\ mForce = [c \in Contexts |-> FALSE]
    /\ sems = [c \in Contexts |-> [loading |-> 0, running |-> 0, frame |-> 0, terminating |-> 0]]
    /\ gRequests = <<>>
    /\ gRequestSemaphore = 0
    /\ sRunning = TRUE
    /\ worker = [pc |-> "scan", path |-> <<>>]
    /\ client = [t \in Clients |-> Idle]
    /\ jobs = <<>>
    /\ container = [i \in Instances |-> "none"]
    /\ window = {}
    /\ lastInstance = 0
    /\ calls = 0

-----------------------------------------------------------------------------
(* Lookups, semaphores and jobs. *)

Loaded == {mLoadedApplications[k] : k \in DOMAIN mLoadedApplications}

Deleted(c) == c \in Contexts /\ heap[c] = "deleted"

\* getContext: the first context of the list that matches, or null.  A call
\* reads every context up to that one, without a lock (see Crash).
FirstOf(places) ==
    IF places = {} THEN Null
    ELSE mLoadedApplications[CHOOSE k \in places : \A j \in places : k <= j]
NoContextOfApp(a)  == Null
getContextOfApp(a) == FirstOf({k \in DOMAIN mLoadedApplications : mAppId[mLoadedApplications[k]] = a})
getContext(i)      == FirstOf({k \in DOMAIN mLoadedApplications :
                                   i # 0 /\ mAppInstanceId[mLoadedApplications[k]] = i})

Without(q, k) == SubSeq(q, 1, k - 1) \o SubSeq(q, k + 1, Len(q))

PostLost(c, s) == UNCHANGED sems
Post(c, s) == sems' = [sems EXCEPT ![c][s] = @ + 1]
TakeUnchecked(c, s) == sems' = [sems EXCEPT ![c][s] = @ - 1]
Take(c, s) == sems[c][s] > 0 /\ sems' = [sems EXCEPT ![c][s] = @ - 1]

\* onStateChangeEvent, onRuntimeManagerEvent, onWindowManagerEvent: dispatchEvent
Submit(e) == jobs' = Append(jobs, e)

\* gRequestMutex is held by the transition thread from the moment it looks
\* at the queue until it goes to sleep.
MutexFree == worker.pc \notin {"scan"} \cup InStep

-----------------------------------------------------------------------------
(* The transition thread. *)

Cur     == Head(gRequests).ctx
CurInst == mAppInstanceId[Cur]
GoingTo(s) == worker.pc = "step" /\ Head(worker.path) = s

\* The path from the present state, found before the loop.
PathFromUnloaded(target) == Steps["UNLOADED"][target]
Path(target)             == Steps[mState[Cur]][target]

\* The queue after a step: a request is erased when its path is done.
AfterStep == IF Len(worker.path) = 1 THEN Tail(gRequests) ELSE gRequests

\* setState, then the next step of the path or the next request.
Enter(s) ==
    /\ mState' = [mState EXCEPT ![Cur] = s]
    /\ worker' = [pc |-> IF Len(worker.path) = 1 THEN "scan" ELSE "step",
                  path |-> Tail(worker.path)]
    /\ gRequests' = AfterStep

\* A step failed: the loop is left and the request stays at the head.
GiveUp ==
    /\ worker' = [pc |-> "asleep", path |-> <<>>]
    /\ UNCHANGED <<mState, gRequests>>

Block(pc) ==
    /\ worker' = [worker EXCEPT !.pc = pc]
    /\ UNCHANGED <<mState, gRequests>>

TakeRequest ==
    /\ worker.pc = "scan"
    /\ gRequests # <<>>
    /\ LET target == Head(gRequests).target
           path   == Path(target)
       IN  \/ /\ mState[Cur] = target
              /\ gRequests' = Tail(gRequests)
              /\ UNCHANGED worker
           \/ /\ mState[Cur] # target
              /\ worker' = IF path = <<>> THEN [pc |-> "asleep", path |-> <<>>]
                                          ELSE [pc |-> "step", path |-> path]
              /\ UNCHANGED gRequests
    /\ UNCHANGED <<contextVars, gRequestSemaphore, sRunning, client, jobs,
                   runtimeVars, lastInstance, calls>>

QueueEmpty ==
    /\ worker.pc = "scan"
    /\ gRequests = <<>>
    /\ worker' = [worker EXCEPT !.pc = "asleep"]
    /\ UNCHANGED <<contextVars, requestVars, client, jobs, runtimeVars,
                   lastInstance, calls>>

WakeUp ==
    /\ worker.pc = "asleep"
    /\ gRequestSemaphore > 0
    /\ gRequestSemaphore' = gRequestSemaphore - 1
    /\ worker' = [worker EXCEPT !.pc = IF sRunning THEN "scan" ELSE "exited"]
    /\ UNCHANGED <<contextVars, gRequests, sRunning, client, jobs, runtimeVars,
                   lastInstance, calls>>

unchangedByStep == <<heap, mLoadedApplications, mAppId, mTargetLifecycleState,
                     mForce, gRequestSemaphore, sRunning, client, window, calls>>

EnterLoading ==
    /\ GoingTo("LOADING")
    /\ lastInstance < MaxInstances
    /\ lastInstance' = lastInstance + 1
    /\ mAppInstanceId' = [mAppInstanceId EXCEPT ![Cur] = lastInstance + 1]
    /\ Post(Cur, "loading")
    /\ Enter("LOADING")
    /\ Submit(StateEvent(lastInstance + 1, mState[Cur], "LOADING"))
    /\ UNCHANGED <<unchangedByStep, container>>

\* What the outcome of run is, the state waits for the application to run.
StartInitializing ==
    /\ GoingTo("INITIALIZING")
    /\ \E o \in RuntimeOutcomes :
           container' = IF o = "done" THEN [container EXCEPT ![CurInst] = "starting"]
                                      ELSE container
    /\ Block("waitRunning")
    /\ UNCHANGED <<unchangedByStep, mAppInstanceId, sems, jobs, lastInstance>>

EnterInitializing ==
    /\ worker.pc = "waitRunning"
    /\ Take(Cur, "running")
    /\ Enter("INITIALIZING")
    /\ Submit(StateEvent(CurInst, mState[Cur], "INITIALIZING"))
    /\ UNCHANGED <<unchangedByStep, mAppInstanceId, container, lastInstance>>

Alive(i) == container[i] \in {"starting", "running", "paused", "frozen", "resumed"}

\* A call that reaches the container moves it from one of `from' to `to'.
Move(o, from, to) ==
    container' = IF o = "done" /\ container[CurInst] \in from
                 THEN [container EXCEPT ![CurInst] = to] ELSE container

\* From SUSPENDED the container is resumed and the result ignored.
EnterPaused ==
    /\ GoingTo("PAUSED")
    /\ \/ /\ mState[Cur] \in {"INITIALIZING", "ACTIVE"}
          /\ UNCHANGED container
       \/ /\ mState[Cur] = "SUSPENDED"
          /\ \E o \in RuntimeOutcomes :
                 Move(o, {"paused"}, IF "rerun" \in Faults THEN "resumed" ELSE "running")
    /\ Enter("PAUSED")
    /\ Submit(StateEvent(CurInst, mState[Cur], "PAUSED"))
    /\ UNCHANGED <<unchangedByStep, mAppInstanceId, sems, lastInstance>>

\* renderReady
IsRenderReady == CurInst \in window

EnterActive ==
    /\ \/ GoingTo("ACTIVE") /\ IsRenderReady /\ UNCHANGED sems
       \/ worker.pc = "waitFrame" /\ Take(Cur, "frame")
    /\ Enter("ACTIVE")
    /\ Submit(StateEvent(CurInst, mState[Cur], "ACTIVE"))
    /\ UNCHANGED <<unchangedByStep, mAppInstanceId, container, lastInstance>>

NotRendered ==
    /\ GoingTo("ACTIVE")
    /\ \/ ~IsRenderReady /\ Block("waitFrame")
       \/ "display" \in Faults /\ GiveUp
    /\ UNCHANGED <<unchangedByStep, mAppInstanceId, container, sems, jobs, lastInstance>>

\* suspend, or wake from HIBERNATED; hibernate.
EnterByRuntime(s, o) ==
    /\ GoingTo(s)
    /\ IF s = "HIBERNATED"             THEN Move(o, {"paused"}, "frozen")
       ELSE IF mState[Cur] = "HIBERNATED" THEN Move(o, {"frozen"}, "paused")
       ELSE Move(o, {"running", "resumed"}, "paused")
    /\ IF o = "error"
       THEN GiveUp /\ UNCHANGED jobs
       ELSE Enter(s) /\ Submit(StateEvent(CurInst, mState[Cur], s))
    /\ UNCHANGED <<unchangedByStep, mAppInstanceId, sems, lastInstance>>

\* TERMINATING is announced before the container is asked to stop.
StartTerminating(o) ==
    /\ GoingTo("TERMINATING")
    /\ Submit(StateEvent(CurInst, mState[Cur], "TERMINATING"))
    /\ container' = IF o = "done" /\ Alive(CurInst)
                    THEN [container EXCEPT ![CurInst] =
                              IF mForce[Cur] THEN "killing" ELSE "stopping"]
                    ELSE container
    /\ IF o = "error" THEN GiveUp ELSE Block("waitTerminated")
    /\ UNCHANGED <<unchangedByStep, mAppInstanceId, sems, lastInstance>>

EnterTerminating ==
    /\ worker.pc = "waitTerminated"
    /\ Take(Cur, "terminating")
    /\ Enter("TERMINATING")
    /\ UNCHANGED <<unchangedByStep, mAppInstanceId, container, jobs, lastInstance>>

EnterUnloaded ==
    /\ GoingTo("UNLOADED")
    /\ Enter("UNLOADED")
    /\ Submit(StateEvent(CurInst, mState[Cur], "UNLOADED"))
    /\ UNCHANGED <<unchangedByStep, mAppInstanceId, sems, container, lastInstance>>

WorkerNext ==
    \/ TakeRequest \/ QueueEmpty \/ WakeUp
    \/ EnterLoading \/ StartInitializing \/ EnterInitializing
    \/ EnterPaused \/ EnterActive \/ NotRendered
    \/ \E s \in {"SUSPENDED", "HIBERNATED"}, o \in RuntimeOutcomes : EnterByRuntime(s, o)
    \/ \E o \in RuntimeOutcomes : StartTerminating(o)
    \/ EnterTerminating \/ EnterUnloaded

-----------------------------------------------------------------------------
(* API calls. *)

\* sem_post(&gRequestSemaphore)
NoPost      == gRequestSemaphore
PostRequest == gRequestSemaphore + 1

Begin(op) == op \in Calls /\ sRunning /\ calls < MaxCalls /\ calls' = calls + 1
May(c)    == ~(Orderly /\ c # Null /\ mTargetLifecycleState[c] = "TERMINATING")

unchangedByCall == <<mState, mAppInstanceId, gRequests, worker, jobs, runtimeVars, lastInstance>>

SpawnLookup(t, a, s) ==
    client' = [client EXCEPT ![t] = [pc |-> "spawn", ctx |-> getContextOfApp(a),
                                     target |-> s, app |-> a, then |-> "return"]]

SpawnApp(t, a, s) ==
    /\ Begin("Spawn")
    /\ client[t].pc = "idle"
    /\ May(getContextOfApp(a))
    /\ SpawnLookup(t, a, s)
    /\ UNCHANGED <<unchangedByCall, heap, mLoadedApplications, mAppId, mTargetLifecycleState,
                   mForce, sems, gRequestSemaphore, sRunning>>

\* The rest of SpawnApp up to launch: a context is made when none was found.
SpawnPrepare(t) ==
    /\ client[t].pc = "spawn"
    /\ \/ /\ client[t].ctx = Null
          /\ \E c \in Contexts :
                /\ heap[c] = "unused"
                /\ heap' = [heap EXCEPT ![c] = "live"]
                /\ mAppId' = [mAppId EXCEPT ![c] = client[t].app]
                /\ mLoadedApplications' = Append(mLoadedApplications, c)
                /\ mTargetLifecycleState' = [mTargetLifecycleState EXCEPT ![c] = client[t].target]
                /\ client' = [client EXCEPT ![t].pc = "add", ![t].ctx = c,
                                            ![t].then = "waitLoading"]
       \/ /\ client[t].ctx # Null
          /\ mTargetLifecycleState' =
                 [mTargetLifecycleState EXCEPT ![client[t].ctx] = client[t].target]
          /\ client' = [client EXCEPT ![t].pc = "add"]
          /\ UNCHANGED <<heap, mAppId, mLoadedApplications>>
    /\ UNCHANGED <<unchangedByCall, mForce, sems, gRequestSemaphore, sRunning, calls>>

\* addRequest, and the return of the call unless it has more to do.
AddRequest(t) ==
    /\ client[t].pc = "add"
    /\ MutexFree
    /\ gRequests' = Append(gRequests, [ctx |-> client[t].ctx, target |-> client[t].target])
    /\ gRequestSemaphore' = PostRequest
    /\ client' = [client EXCEPT ![t] = IF client[t].then = "return" THEN Idle
                                       ELSE [@ EXCEPT !.pc = client[t].then]]
    /\ UNCHANGED <<contextVars, sRunning, worker, jobs, runtimeVars,
                   lastInstance, calls>>

\* SpawnApp of a new context returns once the instance id is there.
SpawnReturn(t) ==
    /\ client[t].pc = "waitLoading"
    /\ Take(client[t].ctx, "loading")
    /\ client' = [client EXCEPT ![t] = Idle]
    /\ UNCHANGED <<unchangedByCall, heap, mLoadedApplications, mAppId, mTargetLifecycleState,
                   mForce, gRequestSemaphore, sRunning, calls>>

\* SetTargetAppState, UnloadApp and KillApp find the context by instance.
\* A call that finds none returns an error and changes nothing.
CallOnInstance(t, op, i, s) ==
    LET c == getContext(i)
    IN  /\ Begin(op)
        /\ client[t].pc = "idle"
        /\ c # Null
        /\ May(c)
        /\ mTargetLifecycleState' = [mTargetLifecycleState EXCEPT ![c] = s]
        /\ mForce' = IF op = "Set" THEN mForce ELSE [mForce EXCEPT ![c] = (op # "Unload")]
        /\ client' = [client EXCEPT ![t] =
                          [pc |-> "add", ctx |-> c, target |-> s, app |-> mAppId[c],
                           then |-> IF op = "Relaunch" THEN "relaunch" ELSE "return"]]
        /\ UNCHANGED <<unchangedByCall, heap, mLoadedApplications, mAppId, sems,
                       gRequestSemaphore, sRunning>>

SetTargetAppState(t, i, s) == CallOnInstance(t, "Set", i, s)
UnloadApp(t, i)            == CallOnInstance(t, "Unload", i, "TERMINATING")
KillApp(t, i)              == CallOnInstance(t, "Kill", i, "TERMINATING")

\* CloseApp with KILL_AND_RUN or KILL_AND_ACTIVATE: KillApp, then SpawnApp.
CloseApp(t, a) ==
    /\ getContextOfApp(a) # Null
    /\ CallOnInstance(t, "Relaunch", mAppInstanceId[getContextOfApp(a)], "TERMINATING")

CloseAppSpawns(t) ==
    /\ client[t].pc = "relaunch"
    /\ \E s \in {"PAUSED", "ACTIVE"} : SpawnLookup(t, client[t].app, s)
    /\ UNCHANGED <<unchangedByCall, heap, mLoadedApplications, mAppId, mTargetLifecycleState,
                   mForce, sems, gRequestSemaphore, sRunning, calls>>

\* RequestHandler::terminate, when the plugin is deactivated.
Terminate ==
    /\ "Teardown" \in Calls
    /\ sRunning
    /\ MutexFree
    /\ sRunning' = FALSE
    /\ gRequestSemaphore' = PostRequest
    /\ UNCHANGED <<contextVars, gRequests, worker, client, jobs, runtimeVars,
                   lastInstance, calls>>

ClientNext(t) ==
    \/ \E a \in Apps, s \in Targets : SpawnApp(t, a, s)
    \/ SpawnPrepare(t) \/ AddRequest(t) \/ SpawnReturn(t) \/ CloseAppSpawns(t)
    \/ \E i \in Instances, s \in Targets : SetTargetAppState(t, i, s)
    \/ \E i \in Instances : UnloadApp(t, i) \/ KillApp(t, i)
    \/ \E a \in Apps : CloseApp(t, a)

-----------------------------------------------------------------------------
(* Jobs of the worker pool.  A pool of n threads has taken the first n     *)
(* jobs; which of them gets the plugin's mAdminLock first is open.         *)

\* The events that delete the context.
EndsOnAnnouncement(e) == e.new = "TERMINATING"
Ends(e)               == e.new = "UNLOADED"

\* A pool thread holds mAdminLock from here until the context is erased.
AdminLockFree == \A c \in Loaded : heap[c] = "live"

HandleStateChange(e) ==
    LET c == getContext(e.inst)
    IN  /\ IF Ends(e) /\ c # Null THEN heap' = [heap EXCEPT ![c] = "found"] ELSE UNCHANGED heap
        /\ UNCHANGED sems

unchangedByDelete == <<mAppId, mAppInstanceId, mState, mTargetLifecycleState, mForce, sems,
                       requestVars, worker, client, jobs, runtimeVars, lastInstance, calls>>

\* delete context, whatever became of it since it was looked up.
DeleteContext(c) ==
    /\ heap[c] = "found"
    /\ heap' = [heap EXCEPT ![c] = "deleted"]
    /\ UNCHANGED <<unchangedByDelete, mLoadedApplications>>

EraseContext(c) ==
    /\ Deleted(c)
    /\ \E k \in DOMAIN mLoadedApplications :
           /\ mLoadedApplications[k] = c
           /\ mLoadedApplications' = Without(mLoadedApplications, k)
    /\ UNCHANGED <<unchangedByDelete, heap>>

SignalsSwapped(kind) == CASE kind = "RUNNING"    -> "running"
                          [] kind = "TERMINATED" -> "frame"
                          [] kind = "READY"      -> "terminating"
Signals(kind) == CASE kind = "RUNNING"    -> "running"
                   [] kind = "TERMINATED" -> "terminating"
                   [] kind = "READY"      -> "frame"

HandleSignal(e) ==
    LET c == getContext(e.inst)
    IN  /\ IF c # Null THEN Post(c, Signals(e.kind)) ELSE UNCHANGED sems
        /\ UNCHANGED heap

Dispatch(k) ==
    /\ k \in DOMAIN jobs
    /\ AdminLockFree
    /\ IF jobs[k].kind = "STATE" THEN HandleStateChange(jobs[k]) ELSE HandleSignal(jobs[k])
    /\ jobs' = Without(jobs, k)
    /\ UNCHANGED <<mLoadedApplications, mAppId, mAppInstanceId, mState, mTargetLifecycleState,
                   mForce, requestVars, worker, client, runtimeVars, lastInstance, calls>>

-----------------------------------------------------------------------------
(* The environment: containers and the window manager. *)

ContainerGoes(i, from, to, name) ==
    /\ container[i] \in from
    /\ container' = [container EXCEPT ![i] = to]
    /\ Submit(RuntimeEvent(name, i))
    /\ UNCHANGED <<contextVars, requestVars, worker, client, window,
                   lastInstance, calls>>

ContainerRuns(i)    == ContainerGoes(i, {"starting", "resumed"}, "running", "RUNNING")
ContainerStops(i)   == ContainerGoes(i, {"stopping", "killing"}, "stopped", "TERMINATED")
ContainerCrashes(i) == /\ "crash" \in Faults
                       /\ ContainerGoes(i, {"starting", "running", "paused", "frozen", "resumed"},
                                        "stopped", "TERMINATED")

FirstFrame(i) ==
    /\ container[i] = "running"
    /\ i \notin window
    /\ window' = window \cup {i}
    /\ Submit(RuntimeEvent("READY", i))
    /\ UNCHANGED <<contextVars, requestVars, worker, client, container,
                   lastInstance, calls>>

-----------------------------------------------------------------------------
(* Deleted contexts.  A thread that goes on with one finds the old values  *)
(* still in memory, or the process crashes.                                *)

\* A request or a call has kept a pointer to one.
HoldsDeleted ==
    \/ worker.pc \in {"scan"} \cup InStep /\ gRequests # <<>> /\ Deleted(Cur)
    \/ \E t \in Clients : client[t].pc \in {"spawn", "waitLoading", "relaunch"}
                              /\ Deleted(client[t].ctx)

\* GetLoadedApps, IsAppLoaded and the lookups of the other calls, for
\* whatever application, meet the one that is not yet erased.
WalksOverDeleted ==
    /\ \E c \in Loaded : Deleted(c)
    /\ \E t \in Clients : client[t].pc = "relaunch" \/ (client[t].pc = "idle" /\ sRunning)

Crash ==
    /\ HoldsDeleted \/ WalksOverDeleted
    /\ worker' = [pc |-> "crashed", path |-> <<>>]
    /\ UNCHANGED <<contextVars, requestVars, client, jobs, runtimeVars,
                   lastInstance, calls>>

\* Nothing is left to do: the clients have returned and the thread sleeps.
Rest ==
    /\ worker.pc = "crashed" \/ /\ worker.pc \in {"asleep", "exited"}
                                /\ \A t \in Clients : client[t].pc = "idle"
    /\ UNCHANGED vars

Running == worker.pc # "crashed"

Next ==
    \/ Running /\ \/ WorkerNext
                  \/ \E t \in Clients : ClientNext(t)
                  \/ \E k \in 1..PoolThreads : Dispatch(k)
                  \/ \E c \in Contexts : DeleteContext(c) \/ EraseContext(c)
                  \/ \E i \in Instances : \/ ContainerRuns(i) \/ ContainerStops(i)
                                          \/ ContainerCrashes(i) \/ FirstFrame(i)
                  \/ Terminate
                  \/ Crash
    \/ Rest

Spec == Init /\ [][Next]_vars

(***************************************************************************)
(* Fairness: the operating system runs every thread that can run; a call   *)
(* in progress goes on but nobody is obliged to make one; a container that *)
(* was told to start or stop does so and an application that runs draws.   *)
(***************************************************************************)
Fairness ==
    /\ WF_vars(Running /\ WorkerNext)
    /\ \A t \in Clients :
          WF_vars(Running /\ (SpawnPrepare(t) \/ AddRequest(t) \/ SpawnReturn(t) \/ CloseAppSpawns(t)))
    /\ WF_vars(Running /\ Dispatch(1))
    /\ WF_vars(Running /\ \E c \in Contexts : DeleteContext(c) \/ EraseContext(c))
    /\ \A i \in Instances :
          WF_vars(Running /\ (ContainerRuns(i) \/ ContainerStops(i) \/ FirstFrame(i)))

FairSpec == Spec /\ Fairness
=============================================================================
