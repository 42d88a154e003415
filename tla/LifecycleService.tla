-------------------------- MODULE LifecycleService --------------------------
(***************************************************************************)
(* The LifecycleManager plugin as AppManager meets it: calls that look a   *)
(* context up and add a request, one thread that carries requests out with *)
(* gRequestMutex held, and pool jobs that take the plugin's mAdminLock,    *)
(* tell the runtime's answers to that thread and the state changes to the  *)
(* listener.  LifecycleManager has the details; here an application has at *)
(* most one context, the runtime always answers and frames are rendered.   *)
(***************************************************************************)
EXTENDS LifecycleStates

CONSTANTS
    Apps,           \* application ids
    PoolThreads,    \* threads of the worker pools
    Steps,          \* Steps[s][t]: the path found from state s to state t
    MaxInstances    \* bound: instance ids generated in a behaviour

ASSUME StepsAssumption ==
    /\ Steps \in [LifecycleStates -> [LifecycleStates -> Seq(LifecycleStates)]]
    /\ \A s, t \in LifecycleStates : Steps[s][t] # <<>> => IsPath(s, t, Steps[s][t])

VARIABLES
    context,        \* the loaded applications and their contexts
    gRequests,      \* the queue of requests
    worker,         \* the transition thread: pc and the steps to go
    signalled,      \* applications whose runtime semaphore is posted
    lmJobs,         \* jobs of the plugin's worker pool
    event,          \* the state change job that holds mAdminLock, if any
    lastInstance    \* counter for the bound

serviceVars == <<context, gRequests, worker, signalled, lmJobs, event, lastInstance>>

Signal(a)               == [kind |-> "SIGNAL", app |-> a, inst |-> 0, old |-> "UNLOADED", new |-> "UNLOADED"]
StateChange(a, i, o, n) == [kind |-> "STATE", app |-> a, inst |-> i, old |-> o, new |-> n]
NoEvent                 == [pc |-> "none", job |-> <<>>]

ServiceInit ==
    /\ context = <<>>
    /\ gRequests = <<>>
    /\ worker = [pc |-> "asleep", path |-> <<>>]
    /\ signalled = {}
    /\ lmJobs = <<>>
    /\ event = NoEvent
    /\ lastInstance = 0

Loaded(a)          == a \in DOMAIN context
HasInstance(a, i)  == Loaded(a) /\ i # 0 /\ context[a].inst = i
MutexFree          == worker.pc = "asleep"
With(f, a, v)      == [x \in DOMAIN f \cup {a} |-> IF x = a THEN v ELSE f[x]]
Without(f, a)      == [x \in DOMAIN f \ {a} |-> f[x]]
TakeOut(q, k)      == SubSeq(q, 1, k - 1) \o SubSeq(q, k + 1, Len(q))

\* The plugin has nothing left to do.
Settled == gRequests = <<>> /\ MutexFree /\ lmJobs = <<>> /\ event = NoEvent

-----------------------------------------------------------------------------
(* The effects of the calls, for the caller's actions. *)

\* SpawnApp: a context is made when the application has none.
NewContext   == [inst |-> 0, state |-> "UNLOADED", unloading |-> FALSE, ready |-> FALSE]
EnsureContext(a) == context' = IF Loaded(a) THEN context ELSE With(context, a, NewContext)

MarkUnloading(a) == context' = [context EXCEPT ![a].unloading = TRUE]

\* addRequest
Add(a, s) == MutexFree /\ gRequests' = Append(gRequests, [app |-> a, target |-> s])

-----------------------------------------------------------------------------
(* The transition thread. *)

Cur   == Head(gRequests).app
State == context[Cur].state

TakeRequest ==
    /\ worker.pc = "asleep"
    /\ gRequests # <<>>
    /\ LET path == Steps[State][Head(gRequests).target]
       IN  \/ /\ State = Head(gRequests).target
              /\ gRequests' = Tail(gRequests)
              /\ UNCHANGED worker
           \/ /\ State # Head(gRequests).target
              /\ path # <<>>
              /\ worker' = [pc |-> "step", path |-> path]
              /\ UNCHANGED gRequests
    /\ UNCHANGED <<context, signalled, lmJobs, event, lastInstance>>

\* setState, the event and the next step.
Enter(s, c, events) ==
    /\ context' = [context EXCEPT ![Cur] = [c EXCEPT !.state = s]]
    /\ lmJobs' = lmJobs \o events
    /\ worker' = [pc |-> IF Len(worker.path) = 1 THEN "asleep" ELSE "step",
                  path |-> Tail(worker.path)]
    /\ gRequests' = IF Len(worker.path) = 1 THEN Tail(gRequests) ELSE gRequests
    /\ UNCHANGED event

Changed(i, s) == <<StateChange(Cur, i, State, s)>>

\* sem_post(&mReachedLoadingStateSemaphore), after the instance id is set.
NotPosted(c, i) == [c EXCEPT !.inst = i]
Posted(c, i)    == [c EXCEPT !.inst = i, !.ready = TRUE]

EnterLoading ==
    /\ worker.pc = "step" /\ Head(worker.path) = "LOADING"
    /\ lastInstance < MaxInstances
    /\ lastInstance' = lastInstance + 1
    /\ Enter("LOADING", Posted(context[Cur], lastInstance + 1), Changed(lastInstance + 1, "LOADING"))
    /\ UNCHANGED signalled

\* run or terminate of the runtime, which answers through a job.
AskRuntime ==
    /\ worker.pc = "step" /\ Head(worker.path) \in {"INITIALIZING", "TERMINATING"}
    /\ worker' = [worker EXCEPT !.pc = "wait"]
    /\ lmJobs' = lmJobs \o (IF Head(worker.path) = "TERMINATING"
                            THEN Changed(context[Cur].inst, "TERMINATING") ELSE <<>>)
                        \o <<Signal(Cur)>>
    /\ UNCHANGED <<context, gRequests, signalled, event, lastInstance>>

EnterAnswered ==
    /\ worker.pc = "wait"
    /\ Cur \in signalled
    /\ signalled' = signalled \ {Cur}
    /\ Enter(Head(worker.path), context[Cur],
             IF Head(worker.path) = "INITIALIZING"
             THEN Changed(context[Cur].inst, "INITIALIZING") ELSE <<>>)
    /\ UNCHANGED lastInstance

EnterOther ==
    /\ worker.pc = "step" /\ Head(worker.path) \notin {"LOADING", "INITIALIZING", "TERMINATING"}
    /\ Enter(Head(worker.path), context[Cur], Changed(context[Cur].inst, Head(worker.path)))
    /\ UNCHANGED <<signalled, lastInstance>>

-----------------------------------------------------------------------------
(* Jobs: mAdminLock is held while the listener is told a state change. *)

\* The events that delete the context.
Ends(j)               == j.new = "UNLOADED"

Dispatch(k) ==
    /\ event = NoEvent
    /\ k \in DOMAIN lmJobs
    /\ lmJobs' = TakeOut(lmJobs, k)
    /\ LET j == lmJobs[k]
       IN  \/ /\ j.kind = "SIGNAL"
              /\ signalled' = signalled \cup {j.app}
              /\ UNCHANGED <<context, event>>
           \/ /\ j.kind = "STATE"
              /\ context' = IF Ends(j) /\ HasInstance(j.app, j.inst)
                            THEN Without(context, j.app) ELSE context
              /\ event' = [pc |-> "notify", job |-> j]
              /\ UNCHANGED signalled
    /\ UNCHANGED <<gRequests, worker, lastInstance>>

WorkerNext  == TakeRequest \/ EnterLoading \/ AskRuntime \/ EnterAnswered \/ EnterOther
ServiceNext == WorkerNext \/ \E k \in 1..PoolThreads : Dispatch(k)
=============================================================================
