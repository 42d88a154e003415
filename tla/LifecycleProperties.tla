------------------------ MODULE LifecycleProperties ------------------------
(***************************************************************************)
(* What is claimed about LifecycleManager.                                 *)
(***************************************************************************)
EXTENDS LifecycleManager

ContextsOK ==
    /\ heap \in [Contexts -> {"unused", "live", "found", "deleted"}]
    /\ mLoadedApplications \in Seq(Contexts)
    /\ mAppId \in [Contexts -> Apps \cup {Null}]
    /\ mAppInstanceId \in [Contexts -> 0..lastInstance]
    /\ mState \in [Contexts -> LifecycleStates]
    /\ mTargetLifecycleState \in [Contexts -> LifecycleStates]
    /\ mForce \in [Contexts -> BOOLEAN]
    /\ sems \in [Contexts -> [loading : Nat, running : Nat, frame : Nat, terminating : Nat]]

RequestsOK ==
    /\ gRequests \in Seq(Requests)
    /\ gRequestSemaphore \in Nat
    /\ sRunning \in BOOLEAN
    /\ worker \in [pc : {"scan", "asleep", "exited", "crashed"} \cup InStep,
                   path : Seq(LifecycleStates)]

ClientsOK ==
    /\ client \in [Clients -> [pc : {"idle", "spawn", "add", "waitLoading", "relaunch"},
                               ctx : Contexts \cup {Null}, target : LifecycleStates,
                               app : Apps \cup {Null},
                               then : {"return", "waitLoading", "relaunch"}]]
    /\ \A t \in Clients : client[t].pc \in {"add", "waitLoading"} => client[t].ctx \in Contexts
    /\ calls \in Nat

EventsOK ==
    /\ jobs \in Seq(Events)
    /\ container \in [Instances -> {"none", "starting", "running", "paused", "frozen",
                                    "resumed", "stopping", "killing", "stopped"}]
    /\ window \in SUBSET Instances
    /\ lastInstance \in 0..MaxInstances

\* Every variable keeps its type; a request always names a context.
TypeOK == ContextsOK /\ RequestsOK /\ ClientsOK /\ EventsOK

-----------------------------------------------------------------------------
(* Safety. *)

Abstract == INSTANCE AppLifecycle WITH
    state  <- mState,
    moving <- IF worker.pc \in InStep THEN Cur ELSE Null,
    goal   <- IF worker.pc \in InStep THEN Head(gRequests).target ELSE Null

\* changeState, through all its waits and failures, moves one application at
\* a time along the table and completes a request only in the state it asked
\* for: requests added meanwhile, late events and crashes never let a
\* transition continue with another context or from another state.
ImplementsLifecycle == Abstract!Spec

\* While changeState is in its loop, the request it works for is at the head
\* of the queue and the rest of its path leads from the present state of that
\* context to the requested one; it waits only for what the next step needs.
OnPath ==
    worker.pc \in InStep =>
        /\ gRequests # <<>>
        /\ worker.path # <<>>
        /\ Walk(mState[Cur], worker.path)
        /\ worker.path[Len(worker.path)] = Final(Head(gRequests).target)
        /\ worker.pc = "waitRunning"    => Head(worker.path) = "INITIALIZING"
        /\ worker.pc = "waitFrame"      => Head(worker.path) = "ACTIVE"
        /\ worker.pc = "waitTerminated" => Head(worker.path) = "TERMINATING"

\* handleStateChangeEvent runs on a pool thread some time after the event
\* was submitted and looks the context up again: it never finds one that has
\* been launched anew since then.  (Between the lookup and the deletion, a
\* relaunch still may come.)
FindsOnlyUnloaded ==
    [][\A c \in Contexts : heap'[c] = "found" /\ heap[c] # "found" => mState[c] = "UNLOADED"]_vars

\* When clients stop using an application once they have asked to unload it,
\* nobody launches anew the context that handleStateChangeEvent is about to
\* delete, and no request or call keeps a pointer to it.  What is left is the
\* moment between the deletion and the erasure: the process crashes only
\* when a call walks the list then.
OnlyWalksMeetDeleted ==
    /\ \A c \in Contexts : heap[c] \in {"found", "deleted"} => mState[c] = "UNLOADED"
    /\ ~HoldsDeleted
    /\ worker.pc = "crashed" => \E c \in Loaded : Deleted(c)

\* An instance that reached UNLOADED has no container left: sem_wait on
\* mAppTerminatingSemaphore is not satisfied by an event of another instance
\* or by one that was consumed before.
UnloadedHasNoContainer ==
    \A c \in Contexts :
        mState[c] = "UNLOADED" /\ mAppInstanceId[c] # 0 =>
            container[mAppInstanceId[c]] \in {"none", "stopped"}

\* The lifecycle state agrees with the container it stands for, unless the
\* container stopped on its own or is being stopped, and only an instance
\* that has rendered a frame is ACTIVE, whether renderReady said so or the
\* thread waited for onReady.
StateMatchesRuntime ==
    \A c \in Contexts :
        LET k == container[mAppInstanceId[c]]
        IN  /\ mAppInstanceId[c] # 0 /\ k \notin {"stopping", "killing", "stopped"} =>
                /\ mState[c] \in {"INITIALIZING", "PAUSED", "ACTIVE"} => k \in {"running", "resumed"}
                /\ mState[c] = "SUSPENDED"  => k = "paused"
                /\ mState[c] = "HIBERNATED" => k = "frozen"
            /\ mState[c] = "ACTIVE" => mAppInstanceId[c] \in window

\* The state change events of an instance, in the order of submission, tell
\* its history without a gap and up to its present state; only the
\* announcement of TERMINATING may be repeated when stopping failed.
StateJobs(i) == {k \in DOMAIN jobs : jobs[k].kind = "STATE" /\ jobs[k].inst = i}
EventsTellHistory ==
    /\ \A i \in Instances : \A k, m \in StateJobs(i) :
          k < m /\ (\A j \in StateJobs(i) : ~(k < j /\ j < m)) =>
              \/ jobs[m].old = jobs[k].new
              \/ jobs[k].new = "TERMINATING" /\ jobs[m].new = "TERMINATING"
    /\ \A c \in Contexts : \A k \in StateJobs(mAppInstanceId[c]) :
          (\A j \in StateJobs(mAppInstanceId[c]) : j <= k) =>
              \/ jobs[k].new = mState[c]
              \/ jobs[k].new = "TERMINATING" /\ jobs[k].old = mState[c]

\* The path to TERMINATING begins with TERMINATING: the thread that gave a
\* transition up goes on from s with the step it failed in.
Alike(s) == Steps[s]["TERMINATING"] # <<>> /\ Head(Steps[s]["TERMINATING"]) = "TERMINATING"

\* A path enters TERMINATING only from such states.
TerminatesAlike ==
    \A s, t \in LifecycleStates : \A k \in DOMAIN Steps[s][t] :
        Steps[s][t][k] = "TERMINATING" => Alike(IF k = 1 THEN s ELSE Steps[s][t][k - 1])

\* As long as API calls are serialised, there is one context per application.
OneContextPerApp ==
    \A c, d \in Loaded : mAppId[c] = mAppId[d] => c = d

-----------------------------------------------------------------------------
(* Liveness. *)

\* The plugin is torn down, or the process has crashed (see Crash).
Ended == ~sRunning \/ worker.pc = "crashed"

\* Until the plugin has ended, every API call returns, SpawnApp too, which
\* waits until LoadingState has posted the semaphore: the comments call
\* SpawnApp and UnloadApp asynchronous.
CallsReturn == \A t \in Clients : client[t].pc # "idle" ~> client[t].pc = "idle" \/ Ended

\* The queue of requests becomes empty again and again: no transition waits
\* for ever for a semaphore, and none keeps the head of the queue for ever.
\* Nor does one keep StateTransitionHandler::terminate from joining its thread.
QueueDrains ==
    /\ []<>(gRequests = <<>> \/ Ended)
    /\ ~sRunning ~> worker.pc \in {"exited", "crashed"}

Unloading(c) ==
    \E t \in Clients : client[t].pc = "add" /\ client[t].ctx = c /\ client[t].target = "TERMINATING"

\* UnloadApp: an application that was asked to unload is terminated and its
\* context removed in the end, whatever is queued before the request.
UnloadCompletes == \A c \in Contexts : Unloading(c) ~> c \notin Loaded \/ Ended
=============================================================================
