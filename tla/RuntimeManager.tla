--------------------------- MODULE RuntimeManager ---------------------------
(***************************************************************************)
(* The RuntimeManager plugin with the container service below it: user ids *)
(* for application instances, containers started and stopped through       *)
(* OCIContainer and Dobby, and Dobby's state changes on their way up, by a *)
(* job of OCIContainer and then one of RuntimeManager, to the listeners.   *)
(*                                                                         *)
(* A request holds mRuntimeManagerImplLock throughout, so it is one step.  *)
(* Only the STARTING event of Run is sent before the lock is taken.  A     *)
(* request that Dobby refuses changes nothing unless said otherwise.       *)
(***************************************************************************)
EXTENDS Naturals, Sequences, FiniteSets

CONSTANTS
    Instances,          \* application instance ids; each is run once
    FirstUid, LastUid,  \* the range of user ids, 30001 to 31000 in the code
    MinAvailable,       \* what the pool must hold for an id to be given, 5 in the code
    SpecUid,            \* the id of every container while /tmp/specchange exists, 30490 in the code
    RtPoolThreads,      \* threads of the worker pools
    RuntimeFaults,      \* what may go wrong
    MaxWaiting          \* bound: jobs waiting and failures under way when a request other than a stop comes

ASSUME RuntimeAssumption ==
    /\ FirstUid \in Nat \ {0} /\ LastUid \in Nat /\ FirstUid <= LastUid
    /\ MinAvailable \in Nat \ {0}
    /\ RtPoolThreads \in Nat \ {0}
    /\ SpecUid \in Nat \ {0}
    /\ RuntimeFaults \subseteq {"start", "crash", "verity", "umount", "specchange"}
    /\ MaxWaiting \in Nat

VARIABLES
    mUserIdMap,             \* the id given to an instance, 0 without one
    mUserIdAvailablePool,   \* the ids left, oldest first
    mRuntimeAppInfo,        \* the runtime state on record, kept for good
    containers,             \* external: Dobby's containers, their states, user ids and if these were given
    failing,                \* per instance, how far the thread of OMI is with a damaged bundle
    ociJobs, rtJobs,        \* jobs of OCIContainer and of RuntimeManager
    runs,                   \* per instance, how far Run is
    told,                   \* per instance, what listeners were told last, but for onFailure
    gone                    \* history: Terminate succeeded without a container

idVars == <<mUserIdMap, mUserIdAvailablePool>>
runtimeVars == <<idVars, mRuntimeAppInfo, containers, failing, ociJobs, rtJobs, runs, told, gone>>

Nothing == [state |-> "none", uid |-> 0, given |-> FALSE]

RuntimeInit ==
    /\ mUserIdMap = [i \in Instances |-> 0]
    /\ mUserIdAvailablePool = [k \in 1..(LastUid - FirstUid + 1) |-> FirstUid + k - 1]
    /\ mRuntimeAppInfo = [i \in Instances |-> "none"]
    /\ containers = [i \in Instances |-> Nothing]
    /\ failing = [i \in Instances |-> "not"]
    /\ ociJobs = <<>> /\ rtJobs = <<>>
    /\ runs = [i \in Instances |-> "not"]
    /\ told = [i \in Instances |-> "nothing"]
    /\ gone = {}

Exists(i) == containers[i].state # "none"
Enter(i, state) == containers' = [containers EXCEPT ![i].state = state]
SetInfo(i, state) == mRuntimeAppInfo' = [mRuntimeAppInfo EXCEPT ![i] = state]
FewWait ==
    Len(ociJobs) + Len(rtJobs) + Cardinality({i \in Instances : failing[i] # "not"}) <= MaxWaiting
Event(e, i) == [event |-> e, inst |-> i]

-----------------------------------------------------------------------------
(* User ids. *)

\* getUserId: 0 when the pool runs short, and that is not kept.
Given(i) ==
    IF mUserIdMap[i] # 0 THEN mUserIdMap[i]
    ELSE IF Len(mUserIdAvailablePool) < MinAvailable THEN 0
    ELSE Head(mUserIdAvailablePool)

getUserId(i) ==
    /\ mUserIdMap' = [mUserIdMap EXCEPT ![i] = Given(i)]
    /\ mUserIdAvailablePool' = IF mUserIdMap[i] # Given(i) THEN Tail(mUserIdAvailablePool)
                               ELSE mUserIdAvailablePool

clearUserId(i) ==
    /\ mUserIdMap' = [mUserIdMap EXCEPT ![i] = 0]
    /\ mUserIdAvailablePool' = IF mUserIdMap[i] # 0 THEN Append(mUserIdAvailablePool, mUserIdMap[i])
                               ELSE mUserIdAvailablePool

-----------------------------------------------------------------------------
(* Requests. *)

Run(i) ==
    /\ FewWait
    /\ runs[i] = "not"
    /\ runs' = [runs EXCEPT ![i] = "announced"]
    /\ rtJobs' = Append(rtJobs, Event("STARTING", i))
    /\ UNCHANGED <<idVars, mRuntimeAppInfo, containers, failing, ociJobs, told, gone>>

\* The rest of Run, with the lock.  The id stays with the instance also
\* when no container comes of it, or one with the id of /tmp/specchange.  A
\* failure of the display or of StorageManager is only logged.
RunStarts(i) ==
    /\ runs[i] = "announced"
    /\ runs' = [runs EXCEPT ![i] = "done"]
    /\ getUserId(i)
    /\ \/ /\ \E given \in {TRUE, "specchange" \notin RuntimeFaults} :
                containers' = [containers EXCEPT ![i] =
                    [state |-> "starting", uid |-> IF given THEN Given(i) ELSE SpecUid, given |-> given]]
          /\ SetInfo(i, "STARTING")
       \/ /\ "start" \in RuntimeFaults
          /\ UNCHANGED <<containers, mRuntimeAppInfo>>
    /\ UNCHANGED <<failing, ociJobs, rtJobs, told, gone>>

unchangedByRequest == <<failing, ociJobs, rtJobs, runs, told>>

Suspend(i) ==
    /\ FewWait
    /\ containers[i].state = "running"
    /\ Enter(i, "pausing")
    /\ UNCHANGED <<idVars, mRuntimeAppInfo, gone, unchangedByRequest>>

Resume(i) ==
    /\ FewWait
    /\ containers[i].state = "paused"
    /\ Enter(i, "resuming")
    /\ UNCHANGED <<idVars, mRuntimeAppInfo, gone, unchangedByRequest>>

Hibernate(i) ==
    /\ FewWait
    /\ containers[i].state \in {"running", "paused"}
    /\ Enter(i, "hibernating")
    /\ SetInfo(i, "HIBERNATING")
    /\ UNCHANGED <<idVars, gone, unchangedByRequest>>

Wake(i) ==
    /\ FewWait
    /\ containers[i].state = "hibernated"
    /\ mRuntimeAppInfo[i] \in {"HIBERNATING", "HIBERNATED"}
    /\ Enter(i, "awakening")
    /\ SetInfo(i, "WAKING")
    /\ UNCHANGED <<idVars, gone, unchangedByRequest>>

\* A stop that Dobby accepts gives the id back although the container is
\* still there.
Stop(i) ==
    /\ Exists(i)
    /\ Enter(i, "stopping")
    /\ clearUserId(i)
    /\ SetInfo(i, "TERMINATING")
    /\ UNCHANGED <<gone, unchangedByRequest>>

\* What stopContainer says of a container that Dobby does not know: nothing.
StopErrorReason == ""

\* Terminate and Kill both end in a stop.  Terminate of a container that is
\* not there succeeds, and is meant to give the id back.
TerminateNothing(i) ==
    /\ runs[i] = "done" /\ ~Exists(i)
    /\ IF StopErrorReason = "Container not found" THEN clearUserId(i) ELSE UNCHANGED idVars
    /\ gone' = gone \cup {i}
    /\ UNCHANGED <<mRuntimeAppInfo, containers, unchangedByRequest>>

\* Dobby may refuse a stop.
RefusedThenCleared(i) == clearUserId(i)
Refused(i) == UNCHANGED idVars

StopRefused(i) ==
    /\ Exists(i)
    /\ Refused(i)
    /\ UNCHANGED <<mRuntimeAppInfo, containers, gone, unchangedByRequest>>

-----------------------------------------------------------------------------
(* Dobby, and the events on their way up. *)

\* stateListener: the new state, then start or stop if it is one.  The
\* unmounting of the bundle may fail before a stop is told.
StoppedEarly(i, unmounted) == <<Event("onStopped", i), Event("STOPPED", i)>>
StoppedIf(i, unmounted)    == <<Event("STOPPED", i)>> \o IF unmounted THEN <<Event("onStopped", i)>> ELSE <<>>
StartedEvents(i)           == <<Event("RUNNING", i), Event("onStarted", i)>>
StoppedEvents(i, unmounted) == <<Event("STOPPED", i), Event("onStopped", i)>>

Submit(events) ==
    /\ ociJobs' = ociJobs \o events
    /\ UNCHANGED <<idVars, mRuntimeAppInfo, rtJobs, runs, told, gone>>

StateListener(events) == Submit(events) /\ UNCHANGED failing

Stopped(i) ==
    \E unmounted \in {TRUE, "umount" \notin RuntimeFaults} :
        /\ containers' = [containers EXCEPT ![i] = Nothing]
        /\ StateListener(StoppedEvents(i, unmounted))

\* External: a container finishes what it was told.
DobbyFinishes(i) ==
    \/ /\ FewWait
       /\ containers[i].state \in {"starting", "resuming", "awakening"}
       /\ Enter(i, "running")
       /\ StateListener(StartedEvents(i))
    \/ /\ FewWait
       /\ containers[i].state = "pausing"
       /\ Enter(i, "paused")
       /\ StateListener(<<Event("PAUSED", i)>>)
    \/ /\ FewWait
       /\ containers[i].state = "hibernating"
       /\ Enter(i, "hibernated")
       /\ StateListener(<<Event("HIBERNATED", i)>>)
    \/ containers[i].state = "stopping" /\ Stopped(i)

\* External: a container ends by itself.
ContainerCrashes(i) ==
    /\ "crash" \in RuntimeFaults
    /\ Exists(i) /\ containers[i].state # "stopping"
    /\ Stopped(i)

\* onVerityFailed, in the thread of OMI, which finds the bundle of a running
\* container damaged: it looks for the container, tells of the failure, and
\* stops what it found.  Dobby's listener may tell anything in between.
\* (Between the two things it tells of one state as well; told, which leaves
\* failures out, is the same in the order STOPPED, onStopped, onFailed.)
FailingAt(i, pc) == failing' = [failing EXCEPT ![i] = pc]

VerityFails(i) ==
    /\ "verity" \in RuntimeFaults
    /\ FewWait
    /\ failing[i] = "not" /\ containers[i].state = "running"
    /\ FailingAt(i, "found")
    /\ UNCHANGED <<idVars, mRuntimeAppInfo, containers, ociJobs, rtJobs, runs, told, gone>>

FailureTold(i) ==
    /\ failing[i] = "found"
    /\ FailingAt(i, "told")
    /\ Submit(<<Event("onFailed", i)>>)
    /\ UNCHANGED containers

\* Dobby refuses to stop what has ended meanwhile, and may refuse otherwise.
FailedIsStopped(i) ==
    /\ failing[i] = "told"
    /\ FailingAt(i, "not")
    /\ (Exists(i) /\ Enter(i, "stopping")) \/ UNCHANGED containers
    /\ UNCHANGED <<idVars, mRuntimeAppInfo, ociJobs, rtJobs, runs, told, gone>>

TakenJob(q, k) == SubSeq(q, 1, k - 1) \o SubSeq(q, k + 1, Len(q))

\* OCIContainer's Dispatch tells DobbyEventListener, which translates the
\* event and submits the next job.
RuntimeEvent(e) ==
    CASE e = "PAUSED"    -> "SUSPENDED"
      [] e = "STOPPED"   -> "TERMINATED"
      [] e = "onStopped" -> "onTerminated"
      [] e = "onFailed"  -> "onFailure"
      [] OTHER           -> e

OciDispatch(k) ==
    /\ k <= Len(ociJobs)
    /\ ociJobs' = TakenJob(ociJobs, k)
    /\ rtJobs' = Append(rtJobs, Event(RuntimeEvent(ociJobs[k].event), ociJobs[k].inst))
    /\ UNCHANGED <<idVars, mRuntimeAppInfo, containers, failing, runs, told, gone>>

\* What listeners are told.  A failure may be told at any time, also after
\* the end, and told leaves it out.
RtDispatch(k) ==
    /\ k <= Len(rtJobs)
    /\ told' = IF rtJobs[k].event = "onFailure" THEN told
               ELSE [told EXCEPT ![rtJobs[k].inst] = rtJobs[k].event]
    /\ rtJobs' = TakenJob(rtJobs, k)
    /\ UNCHANGED <<idVars, mRuntimeAppInfo, containers, failing, ociJobs, runs, gone>>

-----------------------------------------------------------------------------
RuntimeRequest(i) ==
    \/ Run(i) \/ RunStarts(i)
    \/ Suspend(i) \/ Resume(i) \/ Hibernate(i) \/ Wake(i)
    \/ Stop(i) \/ TerminateNothing(i) \/ StopRefused(i)

RuntimeNext ==
    \/ \E i \in Instances :
          \/ RuntimeRequest(i)
          \/ DobbyFinishes(i) \/ ContainerCrashes(i)
          \/ VerityFails(i) \/ FailureTold(i) \/ FailedIsStopped(i)
    \/ \E k \in 1..RtPoolThreads : OciDispatch(k) \/ RtDispatch(k)

RuntimeSpec == RuntimeInit /\ [][RuntimeNext]_runtimeVars

-----------------------------------------------------------------------------
(* What is claimed. *)

\* Two containers that run with the ids they were given never share one,
\* unless the pool was depleted (0) or one of them is being stopped.
\* Containers started while /tmp/specchange exists share theirs.
UidsDistinct ==
    \A i, j \in Instances :
        /\ i # j /\ containers[i].given /\ containers[j].given
        /\ containers[i].uid = containers[j].uid /\ containers[i].uid # 0
        => "stopping" \in {containers[i].state, containers[j].state}

\* The termination of an instance is the last thing listeners hear of its
\* state, right after the state TERMINATED, and by then its container is
\* gone.  With one pool thread; the failure of a bundle, of which another
\* thread tells, may be heard before, between and after.
TerminatedToldLast ==
    [][\A i \in Instances :
          /\ told[i] = "onTerminated" => told'[i] = "onTerminated" /\ ~Exists(i)'
          /\ told'[i] = "onTerminated" => told[i] \in {"TERMINATED", "onTerminated"}]_runtimeVars

\* Listeners hear of the end of a container that was told to stop, however
\* the unmounting of its bundle goes.
StopIsTold ==
    \A i \in Instances : containers[i].state = "stopping" ~> told[i] = "onTerminated"

\* When Terminate succeeds because there is no container any more, the
\* instance gives its user id back, as the branch for "Container not found"
\* does.
GoneGivesBack == \A i \in gone : mUserIdMap[i] = 0
=============================================================================
