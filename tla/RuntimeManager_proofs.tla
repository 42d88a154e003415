------------------------- MODULE RuntimeManager_proofs -------------------------
(***************************************************************************)
(* UidsDistinct for every number of instances, every range of user ids and *)
(* every number of pool threads: an id is in the pool once, or given to    *)
(* one instance; and a container that is not being stopped runs with the   *)
(* id its instance has, with none, or with that of /tmp/specchange.        *)
(*                                                                         *)
(* TerminatedToldLast with one pool thread: the end of a container leads   *)
(* to two jobs, next to each other and the last of its instance, in        *)
(* OCIContainer's queue and then in RuntimeManager's, but for those about  *)
(* the failure of a bundle, which another thread tells.                    *)
(***************************************************************************)
EXTENDS RuntimeManager, SequenceTheorems, TLAPS

Uids == Nat \ {0}
PoolIndices == 1..Len(mUserIdAvailablePool)
\* What Dobby and OMI do to a container.
DobbyEvent(i) ==
    \/ DobbyFinishes(i) \/ ContainerCrashes(i)
    \/ VerityFails(i) \/ FailureTold(i) \/ FailedIsStopped(i)

States == {"none", "starting", "running", "pausing", "paused", "resuming", "hibernating", "hibernated",
           "awakening", "stopping"}

\* getUserId and clearUserId keep an id in one place.
IdsOnce ==
    /\ mUserIdMap \in [Instances -> Nat]
    /\ mUserIdAvailablePool \in Seq(Uids)
    /\ \A k, l \in PoolIndices : mUserIdAvailablePool[k] = mUserIdAvailablePool[l] => k = l
    /\ \A k \in PoolIndices, i \in Instances : mUserIdMap[i] # mUserIdAvailablePool[k]
    /\ \A i, j \in Instances : mUserIdMap[i] = mUserIdMap[j] /\ mUserIdMap[i] # 0 => i = j

\* What container c of instance i runs with.
Owns(i, c) ==
    /\ c.state = "none" => c.uid = 0
    /\ c.given /\ c.state # "stopping" => c.uid \in {0, mUserIdMap[i]}

UidInv ==
    /\ IdsOnce
    /\ containers \in [Instances -> [state : States, uid : Nat, given : BOOLEAN]]
    /\ \A i \in Instances : Owns(i, containers[i])

LEMMA UserIdGiven ==
    ASSUME IdsOnce, NEW i \in Instances, getUserId(i)
    PROVE  /\ IdsOnce'
           /\ Given(i) \in Nat /\ mUserIdMap' = [mUserIdMap EXCEPT ![i] = Given(i)]
<1> DEFINE q == mUserIdAvailablePool
<1>1. CASE mUserIdMap[i] # 0 \/ Len(q) < MinAvailable
  <2>1. Given(i) = mUserIdMap[i]
    BY <1>1 DEF Given
  <2>2. UNCHANGED idVars
    BY <2>1 DEF getUserId, IdsOnce, idVars
  <2> QED BY <2>1, <2>2 DEF IdsOnce, PoolIndices, idVars, getUserId
<1>2. CASE mUserIdMap[i] = 0 /\ ~(Len(q) < MinAvailable)
  <2>1. /\ Len(q) \in Nat \ {0} /\ q # <<>>
        /\ 1 \in PoolIndices /\ Head(q) = q[1] /\ q[1] \in Uids
    BY <1>2, RuntimeAssumption DEF IdsOnce, PoolIndices
  <2>2. Given(i) = q[1] /\ q[1] # 0
    BY <1>2, <2>1 DEF Given, Uids
  <2>3. q' = Tail(q) /\ mUserIdMap' = [mUserIdMap EXCEPT ![i] = q[1]]
    BY <1>2, <2>2 DEF getUserId
  <2>4. /\ q' \in Seq(Uids)
        /\ \A k \in 1..Len(q') : k + 1 \in PoolIndices /\ q'[k] = q[k + 1]
    BY <2>1, <2>3 DEF IdsOnce, PoolIndices
  <2>5. ASSUME NEW k \in 1..Len(q')
        PROVE  /\ \A l \in 1..Len(q') : q'[k] = q'[l] => k = l
               /\ \A j \in Instances : mUserIdMap'[j] # q'[k]
    <3>1. k + 1 \in PoolIndices /\ q'[k] = q[k + 1] /\ k + 1 # 1
      BY <2>4
    <3>2. q'[k] # q[1] /\ \A j \in Instances : mUserIdMap[j] # q'[k]
      BY <2>1, <3>1 DEF IdsOnce
    <3>3. \A j \in Instances : mUserIdMap'[j] # q'[k]
      BY <2>3, <3>2 DEF IdsOnce
    <3>4. \A l \in 1..Len(q') : q'[k] = q'[l] => k + 1 = l + 1
      BY <2>4, <3>1 DEF IdsOnce
    <3> QED BY <3>3, <3>4
  <2>6. mUserIdMap' \in [Instances -> Nat]
    BY <2>1, <2>3 DEF IdsOnce, Uids
  <2>7. \A j \in Instances : mUserIdMap[j] # q[1]
    BY <2>1 DEF IdsOnce
  <2>8. \A j, h \in Instances : mUserIdMap'[j] = mUserIdMap'[h] /\ mUserIdMap'[j] # 0 => j = h
    BY <2>3, <2>7 DEF IdsOnce
  <2> QED BY <2>1, <2>2, <2>3, <2>4, <2>5, <2>6, <2>8 DEF IdsOnce, PoolIndices, Uids
<1> QED BY <1>1, <1>2

LEMMA UserIdCleared ==
    ASSUME IdsOnce, NEW i \in Instances, clearUserId(i)
    PROVE  IdsOnce' /\ mUserIdMap' = [mUserIdMap EXCEPT ![i] = 0]
<1> DEFINE q == mUserIdAvailablePool
           u == mUserIdMap[i]
<1>1. mUserIdMap' = [mUserIdMap EXCEPT ![i] = 0] /\ mUserIdMap' \in [Instances -> Nat]
  BY DEF clearUserId, IdsOnce
<1>2. \A j, h \in Instances : mUserIdMap'[j] = mUserIdMap'[h] /\ mUserIdMap'[j] # 0 => j = h
  BY <1>1 DEF IdsOnce
<1>3. CASE u = 0
  <2>1. q' = q /\ mUserIdMap' = mUserIdMap
    BY <1>1, <1>3 DEF clearUserId, IdsOnce
  <2> QED BY <1>1, <2>1 DEF IdsOnce, PoolIndices
<1>4. CASE u # 0
  <2>1. u \in Uids /\ q' = Append(q, u)
    BY <1>4 DEF clearUserId, IdsOnce, Uids
  <2>2. /\ q' \in Seq(Uids) /\ Len(q) \in Nat /\ Len(q') = Len(q) + 1 /\ q'[Len(q) + 1] = u
        /\ \A k \in PoolIndices : q'[k] = q[k]
    BY <2>1 DEF IdsOnce, PoolIndices
  <2>3. ASSUME NEW k \in 1..Len(q'), NEW l \in 1..Len(q'), q'[k] = q'[l]  PROVE k = l
    <3>1. \A m \in PoolIndices : q'[m] # u
      BY <2>2 DEF IdsOnce
    <3>2. \A m \in 1..Len(q') : m \in PoolIndices \/ m = Len(q) + 1
      BY <2>2 DEF PoolIndices
    <3>3. CASE k = Len(q) + 1 \/ l = Len(q) + 1
      BY <2>2, <2>3, <3>1, <3>2, <3>3
    <3>4. CASE k \in PoolIndices /\ l \in PoolIndices
      BY <2>2, <2>3, <3>4 DEF IdsOnce
    <3> QED BY <3>2, <3>3, <3>4
  <2>4. ASSUME NEW k \in 1..Len(q'), NEW j \in Instances  PROVE mUserIdMap'[j] # q'[k]
    <3>1. CASE k \in PoolIndices
      <4>1. q'[k] = q[k] /\ q[k] \in Uids /\ mUserIdMap[j] # q[k]
        BY <2>2, <3>1 DEF IdsOnce, PoolIndices
      <4> QED BY <1>1, <4>1 DEF IdsOnce, Uids
    <3>2. CASE k = Len(q) + 1
      BY <1>1, <1>4, <2>2, <3>2 DEF IdsOnce
    <3> QED BY <2>2, <3>1, <3>2 DEF PoolIndices
  <2> QED BY <1>1, <1>2, <2>2, <2>3, <2>4 DEF IdsOnce, PoolIndices
<1> QED BY <1>3, <1>4

\* A container that enters a state keeps its id, and one that ends has none.
LEMMA ContainerMoves ==
    ASSUME UidInv, NEW i \in Instances, UNCHANGED idVars,
           \/ containers' = [containers EXCEPT ![i] = Nothing]
           \/ Exists(i) /\ \E s \in States \ {"none"} :
                 Enter(i, s) /\ (containers[i].state = "stopping" => s = "stopping")
    PROVE  UidInv'
<1>1. IdsOnce' /\ mUserIdMap' = mUserIdMap
  BY DEF UidInv, IdsOnce, PoolIndices, idVars
<1>2. CASE containers' = [containers EXCEPT ![i] = Nothing]
  BY <1>1, <1>2 DEF UidInv, IdsOnce, Owns, Nothing, States
<1>3. ASSUME NEW s \in States \ {"none"}, Exists(i), Enter(i, s), containers[i].state = "stopping" => s = "stopping"
      PROVE  UidInv'
  <2>1. containers' \in [Instances -> [state : States, uid : Nat, given : BOOLEAN]]
    BY <1>3 DEF UidInv, Enter
  <2>2. Owns(i, containers[i])'
    BY <1>1, <1>3 DEF UidInv, Owns, Enter, Exists
  <2>3. \A j \in Instances : j # i => containers'[j] = containers[j]
    BY <1>3 DEF UidInv, Enter
  <2> QED BY <1>1, <2>1, <2>2, <2>3 DEF UidInv, Owns
<1> QED BY <1>2, <1>3

\* A container is started with the id just given, or stopped and its id taken
\* back.
LEMMA RunOwns ==
    ASSUME UidInv, NEW i \in Instances, RunStarts(i)
    PROVE  UidInv'
<1>1. IdsOnce' /\ Given(i) \in Nat /\ mUserIdMap' = [mUserIdMap EXCEPT ![i] = Given(i)]
  BY UserIdGiven DEF UidInv, RunStarts
<1>2. PICK given \in BOOLEAN :
         \/ containers' = [containers EXCEPT ![i] =
                              [state |-> "starting", uid |-> IF given THEN Given(i) ELSE SpecUid, given |-> given]]
         \/ containers' = containers
  BY DEF RunStarts
<1> PICK c : c = [state |-> "starting", uid |-> IF given THEN Given(i) ELSE SpecUid, given |-> given]
  OBVIOUS
<1>3. mUserIdMap[i] # 0 => Given(i) = mUserIdMap[i]
  BY DEF Given
<1>4. c \in [state : States, uid : Nat, given : BOOLEAN] /\ c.state = "starting" /\ (c.given => c.uid = Given(i))
  BY <1>1, RuntimeAssumption DEF States
<1>5. containers' \in [Instances -> [state : States, uid : Nat, given : BOOLEAN]]
  BY <1>2, <1>4 DEF UidInv
<1>6. ASSUME NEW j \in Instances  PROVE Owns(j, containers[j])'
  <2>1. CASE j = i /\ containers'[j] = c
    BY <1>1, <1>4, <2>1 DEF UidInv, IdsOnce, Owns
  <2>2. CASE containers'[j] = containers[j]
    BY <1>1, <1>3, <2>2 DEF UidInv, IdsOnce, Owns
  <2>3. containers'[j] = containers[j] \/ (j = i /\ containers'[j] = c)
    BY <1>2 DEF UidInv
  <2> QED BY <2>1, <2>2, <2>3
<1> QED BY <1>1, <1>5, <1>6 DEF UidInv

LEMMA StopOwns ==
    ASSUME UidInv, NEW i \in Instances, Stop(i)
    PROVE  UidInv'
<1>1. IdsOnce' /\ mUserIdMap' = [mUserIdMap EXCEPT ![i] = 0]
  BY UserIdCleared DEF UidInv, Stop
<1>2. containers' = [containers EXCEPT ![i].state = "stopping"]
  BY DEF Stop, Enter
<1> QED BY <1>1, <1>2 DEF UidInv, IdsOnce, Owns, States

LEMMA UidStep ==
    ASSUME UidInv, [RuntimeNext]_runtimeVars
    PROVE  UidInv'
<1>1. ASSUME UNCHANGED <<mUserIdMap, mUserIdAvailablePool, containers>>  PROVE UidInv'
  BY <1>1 DEF UidInv, IdsOnce, PoolIndices, Owns
<1>2. ASSUME NEW i \in Instances, RuntimeRequest(i)  PROVE UidInv'
  <2>1. CASE Run(i) \/ StopRefused(i)
    BY <1>1, <2>1 DEF Run, StopRefused, Refused, idVars
  <2>2. CASE TerminateNothing(i)
    BY <1>1, <2>2 DEF TerminateNothing, StopErrorReason, idVars
  <2>3. CASE Suspend(i) \/ Resume(i) \/ Hibernate(i) \/ Wake(i)
    BY <2>3, ContainerMoves DEF Suspend, Resume, Hibernate, Wake, Exists, States
  <2> QED BY <1>2, <2>1, <2>2, <2>3, RunOwns, StopOwns DEF RuntimeRequest
<1>3. ASSUME NEW i \in Instances, DobbyEvent(i)
      PROVE  UidInv'
  <2>1. CASE DobbyFinishes(i)
    BY <2>1, ContainerMoves DEF DobbyFinishes, Stopped, StateListener, Submit, Exists, States
  <2>2. CASE ContainerCrashes(i)
    BY <2>2, ContainerMoves DEF ContainerCrashes, Stopped, StateListener, Submit
  <2>3. CASE VerityFails(i) \/ FailureTold(i)
    BY <1>1, <2>3 DEF VerityFails, FailureTold, Submit, idVars
  <2>4. CASE FailedIsStopped(i)
    <3>1. CASE UNCHANGED containers
      BY <1>1, <2>4, <3>1 DEF FailedIsStopped, idVars
    <3>2. CASE Exists(i) /\ Enter(i, "stopping")
      BY <2>4, <3>2, ContainerMoves DEF FailedIsStopped, States
    <3> QED BY <2>4, <3>1, <3>2 DEF FailedIsStopped
  <2> QED BY <1>3, <2>1, <2>2, <2>3, <2>4 DEF DobbyEvent
<1>4. ASSUME NEW k \in 1..RtPoolThreads, OciDispatch(k) \/ RtDispatch(k)  PROVE UidInv'
  BY <1>1, <1>4 DEF OciDispatch, RtDispatch, idVars
<1>5. CASE UNCHANGED runtimeVars
  BY <1>1, <1>5 DEF runtimeVars, idVars
<1> QED BY <1>2, <1>3, <1>4, <1>5 DEF RuntimeNext, DobbyEvent

LEMMA UidStart == RuntimeInit => UidInv
<1> SUFFICES ASSUME RuntimeInit  PROVE UidInv
  OBVIOUS
<1>1. /\ mUserIdAvailablePool \in Seq(Uids)
      /\ \A k, l \in PoolIndices : mUserIdAvailablePool[k] = mUserIdAvailablePool[l] => k = l
      /\ \A k \in PoolIndices : mUserIdAvailablePool[k] \in Uids
  BY RuntimeAssumption DEF RuntimeInit, Uids, PoolIndices
<1>2. IdsOnce
  BY <1>1 DEF RuntimeInit, IdsOnce, Uids
<1> QED BY <1>2 DEF RuntimeInit, UidInv, Nothing, Owns, States

\* Two containers run with one user id of the pool only while one of them is
\* being stopped, whatever other containers were started with the id of
\* /tmp/specchange.
THEOREM UidsAlwaysDistinct == RuntimeSpec => []UidsDistinct
<1>1. RuntimeInit => UidInv
  BY UidStart
<1>2. UidInv /\ [RuntimeNext]_runtimeVars => UidInv'
  BY UidStep
<1>3. UidInv => UidsDistinct
  BY DEF UidInv, IdsOnce, Owns, UidsDistinct
<1> QED BY <1>1, <1>2, <1>3, PTL DEF RuntimeSpec

-----------------------------------------------------------------------------
(***************************************************************************)
(* TerminatedToldLast with one pool thread: with two, the jobs may change  *)
(* places.                                                                 *)
(*                                                                         *)
(* The two events of the end of a container are submitted together, when   *)
(* it is gone for good; so nothing about the instance follows them, and    *)
(* nothing comes between them, in either queue or on the way from one to   *)
(* the other.                                                              *)
(***************************************************************************)
OciEvents == {"RUNNING", "onStarted", "PAUSED", "HIBERNATED", "STOPPED", "onStopped", "onFailed"}
RtEvents  == {"STARTING", "RUNNING", "onStarted", "SUSPENDED", "HIBERNATED", "TERMINATED", "onTerminated",
              "onFailure"}
OciJob == [event : OciEvents, inst : Instances]
RtJob  == [event : RtEvents, inst : Instances]

Gone(i) == runs[i] = "done" /\ ~Exists(i)

QueuesOK ==
    /\ ociJobs \in Seq(OciJob) /\ rtJobs \in Seq(RtJob)
    /\ told \in [Instances -> RtEvents \cup {"nothing"}]
    /\ runs \in [Instances -> {"not", "announced", "done"}]
    /\ \A i \in Instances : Exists(i) => runs[i] = "done"

\* A job about the state of instance i.
Of(job, i)     == job.inst = i /\ job.event \notin {"onFailed", "onFailure"}
NoJob(q, i)    == \A k \in DOMAIN q : ~Of(q[k], i)
Follows(q, k)  == {l \in DOMAIN q : l > k}

\* v is what was said, or will be said next, of i: by the last job of
\* RuntimeManager about it, or by what listeners were told.
LastSaid(i, v) ==
    /\ \A k \in DOMAIN rtJobs :
          Of(rtJobs[k], i) /\ (\A l \in Follows(rtJobs, k) : ~Of(rtJobs[l], i)) => rtJobs[k].event = v
    /\ NoJob(rtJobs, i) => told[i] = v

\* v is what listeners hear of i right before the k-th job.
SaidBefore(k, i, v) ==
    /\ \A j \in DOMAIN rtJobs :
          /\ j < k /\ Of(rtJobs[j], i)
          /\ \A l \in Follows(rtJobs, j) : l < k => ~Of(rtJobs[l], i)
          => rtJobs[j].event = v
    /\ (\A j \in DOMAIN rtJobs : j < k => ~Of(rtJobs[j], i)) => told[i] = v

EndInOci ==
    \A k \in DOMAIN ociJobs : ociJobs[k].event = "onStopped" =>
        LET i == ociJobs[k].inst
        IN  /\ Gone(i)
            /\ \A l \in Follows(ociJobs, k) : ~Of(ociJobs[l], i)
            /\ IF k = 1 THEN LastSaid(i, "TERMINATED") ELSE ociJobs[k - 1] = Event("STOPPED", i)

EndInRt ==
    \A k \in DOMAIN rtJobs : rtJobs[k].event = "onTerminated" =>
        LET i == rtJobs[k].inst
        IN  /\ Gone(i) /\ NoJob(ociJobs, i)
            /\ \A l \in Follows(rtJobs, k) : ~Of(rtJobs[l], i)
            /\ SaidBefore(k, i, "TERMINATED")

EndTold ==
    \A i \in Instances : told[i] = "onTerminated" => Gone(i) /\ NoJob(ociJobs, i) /\ NoJob(rtJobs, i)

EndInv == QueuesOK /\ EndInOci /\ EndInRt /\ EndTold

-----------------------------------------------------------------------------
(* Queues. *)

LEMMA FrontTaken ==
    ASSUME NEW S, NEW q \in Seq(S), 1 <= Len(q)
    PROVE  /\ TakenJob(q, 1) \in Seq(S)
           /\ 1 \in DOMAIN q /\ q[1] \in S
           /\ \A k \in DOMAIN TakenJob(q, 1) : k \in Nat \ {0} /\ k + 1 \in DOMAIN q /\ TakenJob(q, 1)[k] = q[k + 1]
           /\ \A k \in DOMAIN q : /\ k \in Nat \ {0}
                                  /\ k # 1 => k - 1 \in DOMAIN TakenJob(q, 1) /\ TakenJob(q, 1)[k - 1] = q[k]
<1> DEFINE b == SubSeq(q, 2, Len(q))
<1>1. DOMAIN q = 1..Len(q) /\ Len(q) \in Nat /\ \A i \in 1..Len(q) : q[i] \in S
  BY LenProperties, ElementOfSeq
<1>2. SubSeq(q, 1, 0) = <<>>
  OBVIOUS
<1>3. b \in Seq(S) /\ Len(b) = Len(q) - 1 /\ \A i \in 1..(Len(q) - 1) : b[i] = q[i + 1]
  <2>1. 2 \in Int /\ Len(q) \in Int /\ \A i \in 2..Len(q) : q[i] \in S
    BY <1>1
  <2>2. /\ b \in Seq(S) /\ Len(b) = IF 2 <= Len(q) THEN Len(q) - 2 + 1 ELSE 0
        /\ \A i \in 1..(Len(q) - 2 + 1) : b[i] = q[2 + i - 1]
    BY <2>1, SubSeqProperties
  <2>3. Len(b) = Len(q) - 1
    BY <1>1, <2>2
  <2>4. \A i \in 1..(Len(q) - 1) : i \in 1..(Len(q) - 2 + 1) /\ 2 + i - 1 = i + 1
    BY <1>1
  <2> QED BY <2>2, <2>3, <2>4
<1>4. TakenJob(q, 1) = b
  <2>1. TakenJob(q, 1) = <<>> \o b
    BY <1>2 DEF TakenJob
  <2> HIDE DEF b
  <2> QED BY <1>3, <2>1
<1> HIDE DEF b
<1>5. DOMAIN b = 1..(Len(q) - 1)
  BY <1>3
<1> QED BY <1>1, <1>3, <1>4, <1>5

LEMMA OneAppended ==
    ASSUME NEW S, NEW q \in Seq(S), NEW e \in S
    PROVE  /\ Append(q, e) \in Seq(S)
           /\ \A k \in DOMAIN q : k \in Nat \ {0} /\ k < Len(q) + 1 /\ k \in DOMAIN Append(q, e) /\ Append(q, e)[k] = q[k]
           /\ Len(q) + 1 \in DOMAIN Append(q, e) /\ Append(q, e)[Len(q) + 1] = e
           /\ \A k \in DOMAIN Append(q, e) : k \in Nat \ {0} /\ (k \in DOMAIN q \/ k = Len(q) + 1)
OBVIOUS

LEMMA TwoAppended ==
    ASSUME NEW S, NEW q \in Seq(S), NEW e \in S, NEW f \in S
    PROVE  /\ q \o <<e, f>> = Append(Append(q, e), f)
           /\ q \o <<e>> = Append(q, e)
OBVIOUS

\* What runs, and what has ended for good.
LEMMA GoneStays ==
    ASSUME UidInv, QueuesOK, [RuntimeNext]_runtimeVars
    PROVE  /\ runs' \in [Instances -> {"not", "announced", "done"}]
           /\ \A i \in Instances : Exists(i)' => runs'[i] = "done"
           /\ \A i \in Instances : Gone(i) => Gone(i)'
<1> USE DEF QueuesOK
<1>1. ASSUME UNCHANGED <<runs, containers>>
      PROVE  /\ runs' \in [Instances -> {"not", "announced", "done"}]
             /\ \A i \in Instances : Exists(i)' => runs'[i] = "done"
             /\ \A i \in Instances : Gone(i) => Gone(i)'
  BY <1>1 DEF Gone, Exists
<1>2. ASSUME NEW i \in Instances, NEW c, UNCHANGED runs, containers' = [containers EXCEPT ![i] = c], Exists(i)
      PROVE  /\ runs' \in [Instances -> {"not", "announced", "done"}]
             /\ \A j \in Instances : Exists(j)' => runs'[j] = "done"
             /\ \A j \in Instances : Gone(j) => Gone(j)'
  <2>1. \A j \in Instances : j # i => containers'[j] = containers[j]
    BY <1>2 DEF UidInv
  <2> QED BY <1>2, <2>1 DEF Gone, Exists
<1>3. ASSUME NEW i \in Instances, NEW s, UNCHANGED runs, Enter(i, s), Exists(i)
      PROVE  /\ runs' \in [Instances -> {"not", "announced", "done"}]
             /\ \A j \in Instances : Exists(j)' => runs'[j] = "done"
             /\ \A j \in Instances : Gone(j) => Gone(j)'
  <2>1. containers' = [containers EXCEPT ![i].state = s]
    BY <1>3 DEF Enter
  <2>2. \A j \in Instances : j # i => containers'[j] = containers[j]
    BY <2>1 DEF UidInv
  <2> QED BY <1>3, <2>2 DEF Gone, Exists
<1>4. ASSUME NEW i \in Instances, RuntimeRequest(i)
      PROVE  /\ runs' \in [Instances -> {"not", "announced", "done"}]
             /\ \A j \in Instances : Exists(j)' => runs'[j] = "done"
             /\ \A j \in Instances : Gone(j) => Gone(j)'
  <2>1. CASE Run(i)
    <3>1. runs[i] = "not" /\ runs' = [runs EXCEPT ![i] = "announced"] /\ UNCHANGED containers
      BY <2>1 DEF Run
    <3> QED BY <3>1 DEF Gone, Exists
  <2>2. CASE RunStarts(i)
    <3>1. runs[i] = "announced" /\ runs' = [runs EXCEPT ![i] = "done"]
          /\ ((\E c : containers' = [containers EXCEPT ![i] = c]) \/ UNCHANGED containers)
      BY <2>2 DEF RunStarts
    <3>2. \A j \in Instances : j # i => containers'[j] = containers[j]
      BY <3>1 DEF UidInv
    <3> QED BY <3>1, <3>2 DEF Gone, Exists
  <2>3. CASE Suspend(i) \/ Resume(i) \/ Hibernate(i) \/ Wake(i)
    BY <1>3, <2>3 DEF Suspend, Resume, Hibernate, Wake, Exists, unchangedByRequest
  <2>4. CASE Stop(i)
    BY <1>3, <2>4 DEF Stop, unchangedByRequest
  <2>5. CASE TerminateNothing(i) \/ StopRefused(i)
    BY <1>1, <2>5 DEF TerminateNothing, StopRefused, unchangedByRequest
  <2> QED BY <1>4, <2>1, <2>2, <2>3, <2>4, <2>5 DEF RuntimeRequest
<1>5. ASSUME NEW i \in Instances, DobbyEvent(i)
      PROVE  /\ runs' \in [Instances -> {"not", "announced", "done"}]
             /\ \A j \in Instances : Exists(j)' => runs'[j] = "done"
             /\ \A j \in Instances : Gone(j) => Gone(j)'
  <2>1. ASSUME NEW s, Enter(i, s), Exists(i), UNCHANGED runs
        PROVE  /\ runs' \in [Instances -> {"not", "announced", "done"}]
               /\ \A j \in Instances : Exists(j)' => runs'[j] = "done"
               /\ \A j \in Instances : Gone(j) => Gone(j)'
    BY <1>3, <2>1
  <2>2. ASSUME Stopped(i), Exists(i)
        PROVE  /\ runs' \in [Instances -> {"not", "announced", "done"}]
               /\ \A j \in Instances : Exists(j)' => runs'[j] = "done"
               /\ \A j \in Instances : Gone(j) => Gone(j)'
    BY <1>2, <2>2 DEF Stopped, StateListener, Submit
  <2>3. CASE DobbyFinishes(i)
    BY <2>1, <2>2, <2>3 DEF DobbyFinishes, StateListener, Submit, Exists
  <2>4. CASE ContainerCrashes(i)
    BY <2>2, <2>4 DEF ContainerCrashes
  <2>5. CASE VerityFails(i) \/ FailureTold(i)
    BY <1>1, <2>5 DEF VerityFails, FailureTold, Submit
  <2>6. CASE FailedIsStopped(i)
    BY <1>1, <2>1, <2>6 DEF FailedIsStopped
  <2> QED BY <1>5, <2>3, <2>4, <2>5, <2>6 DEF DobbyEvent
<1>6. CASE \E k \in 1..RtPoolThreads : OciDispatch(k) \/ RtDispatch(k)
  BY <1>1, <1>6 DEF OciDispatch, RtDispatch
<1>7. CASE UNCHANGED runtimeVars
  BY <1>1, <1>7 DEF runtimeVars
<1> QED BY <1>4, <1>5, <1>6, <1>7 DEF RuntimeNext, DobbyEvent

LEMMA JobsTyped ==
    ASSUME EndInv
    PROVE  /\ \A k \in DOMAIN ociJobs : ociJobs[k].inst \in Instances
           /\ \A k \in DOMAIN rtJobs : rtJobs[k].inst \in Instances
<1>1. ociJobs \in Seq(OciJob) /\ rtJobs \in Seq(RtJob)
  BY DEF EndInv, QueuesOK
<1>2. (\A k \in DOMAIN ociJobs : ociJobs[k] \in OciJob) /\ (\A k \in DOMAIN rtJobs : rtJobs[k] \in RtJob)
  BY <1>1
<1> QED BY <1>2 DEF OciJob, RtJob

LEMMA JobsStay ==
    ASSUME EndInv, UNCHANGED <<ociJobs, rtJobs, told>>, \A i \in Instances : Gone(i) => Gone(i)'
    PROVE  EndInOci' /\ EndInRt' /\ EndTold'
<1>1. \A k \in DOMAIN ociJobs : ociJobs[k].inst \in Instances
  BY JobsTyped
<1>2. \A k \in DOMAIN rtJobs : rtJobs[k].inst \in Instances
  BY JobsTyped
<1>3. EndInOci'
  <2> SUFFICES ASSUME NEW k \in DOMAIN ociJobs, ociJobs[k].event = "onStopped", NEW j, j = ociJobs[k].inst
               PROVE  /\ Gone(j)' /\ \A l \in Follows(ociJobs, k) : ~Of(ociJobs[l], j)
                      /\ IF k = 1 THEN LastSaid(j, "TERMINATED")' ELSE ociJobs[k - 1] = Event("STOPPED", j)
    BY DEF EndInOci
  <2>1. /\ j \in Instances /\ Gone(j) /\ \A l \in Follows(ociJobs, k) : ~Of(ociJobs[l], j)
        /\ IF k = 1 THEN LastSaid(j, "TERMINATED") ELSE ociJobs[k - 1] = Event("STOPPED", j)
    BY <1>1 DEF EndInv, EndInOci
  <2>2. LastSaid(j, "TERMINATED") => LastSaid(j, "TERMINATED")'
    BY DEF LastSaid, NoJob, Follows
  <2> QED BY <2>1, <2>2
<1>4. EndInRt'
  <2> SUFFICES ASSUME NEW k \in DOMAIN rtJobs, rtJobs[k].event = "onTerminated", NEW j, j = rtJobs[k].inst
               PROVE  /\ Gone(j)' /\ NoJob(ociJobs, j) /\ \A l \in Follows(rtJobs, k) : ~Of(rtJobs[l], j)
                      /\ SaidBefore(k, j, "TERMINATED")'
    BY DEF EndInRt
  <2>1. /\ j \in Instances /\ Gone(j) /\ NoJob(ociJobs, j) /\ \A l \in Follows(rtJobs, k) : ~Of(rtJobs[l], j)
        /\ SaidBefore(k, j, "TERMINATED")
    BY <1>2 DEF EndInv, EndInRt
  <2>2. SaidBefore(k, j, "TERMINATED") => SaidBefore(k, j, "TERMINATED")'
    BY DEF SaidBefore, Follows
  <2> QED BY <2>1, <2>2
<1>5. EndTold'
  BY DEF EndInv, EndTold, NoJob
<1> QED BY <1>3, <1>4, <1>5

\* A job about another instance says nothing of this one.
LEMMA SaidStays ==
    ASSUME EndInv, NEW e \in RtJob, rtJobs' = Append(rtJobs, e), told' = told, NEW i \in Instances, ~Of(e, i), NEW v
    PROVE  /\ LastSaid(i, v) => LastSaid(i, v)'
           /\ \A k \in DOMAIN rtJobs : SaidBefore(k, i, v) => SaidBefore(k, i, v)'
           /\ \A k \in DOMAIN rtJobs : (\A l \in Follows(rtJobs, k) : ~Of(rtJobs[l], i))
                                          => \A l \in Follows(rtJobs', k) : ~Of(rtJobs'[l], i)
           /\ NoJob(rtJobs, i) => NoJob(rtJobs', i)
<1> DEFINE n == Len(rtJobs) + 1
<1>1. /\ rtJobs' \in Seq(RtJob)
      /\ \A k \in DOMAIN rtJobs : k \in Nat \ {0} /\ k < n /\ k \in DOMAIN rtJobs' /\ rtJobs'[k] = rtJobs[k]
      /\ n \in DOMAIN rtJobs' /\ rtJobs'[n] = e
      /\ \A k \in DOMAIN rtJobs' : k \in Nat \ {0} /\ (k \in DOMAIN rtJobs \/ k = n)
  BY OneAppended DEF EndInv, QueuesOK
<1> HIDE DEF n
<1>2. NoJob(rtJobs, i) <=> NoJob(rtJobs', i)
  BY <1>1 DEF NoJob
<1>3. ASSUME NEW k \in DOMAIN rtJobs
      PROVE (\A l \in Follows(rtJobs, k) : ~Of(rtJobs[l], i)) <=> \A l \in Follows(rtJobs', k) : ~Of(rtJobs'[l], i)
  BY <1>1 DEF Follows
<1>4. ASSUME LastSaid(i, v) PROVE LastSaid(i, v)'
  <2>1. ASSUME NEW k \in DOMAIN rtJobs', Of(rtJobs'[k], i), \A l \in Follows(rtJobs', k) : ~Of(rtJobs'[l], i)
        PROVE  rtJobs'[k].event = v
    <3>1. k \in DOMAIN rtJobs /\ rtJobs'[k] = rtJobs[k]
      BY <1>1, <2>1
    <3> QED BY <1>3, <1>4, <2>1, <3>1 DEF LastSaid
  <2>2. NoJob(rtJobs', i) => told'[i] = v
    BY <1>2, <1>4 DEF LastSaid
  <2> QED BY <2>1, <2>2 DEF LastSaid
<1>5. ASSUME NEW k \in DOMAIN rtJobs, SaidBefore(k, i, v) PROVE SaidBefore(k, i, v)'
  <2>1. ASSUME NEW j \in DOMAIN rtJobs', j < k, Of(rtJobs'[j], i),
               \A l \in Follows(rtJobs', j) : l < k => ~Of(rtJobs'[l], i)
        PROVE  rtJobs'[j].event = v
    <3>1. j \in DOMAIN rtJobs /\ rtJobs'[j] = rtJobs[j]
      BY <1>1, <2>1
    <3>2. \A l \in Follows(rtJobs, j) : l < k => ~Of(rtJobs[l], i)
      BY <1>1, <2>1, <3>1 DEF Follows
    <3> QED BY <1>5, <2>1, <3>1, <3>2 DEF SaidBefore
  <2>2. (\A j \in DOMAIN rtJobs' : j < k => ~Of(rtJobs'[j], i)) => told'[i] = v
    BY <1>1, <1>5 DEF SaidBefore
  <2> QED BY <2>1, <2>2 DEF SaidBefore
<1> QED BY <1>2, <1>3, <1>4, <1>5

\* A new instance is announced.
LEMMA RunEnds ==
    ASSUME EndInv, NEW i \in Instances, Run(i), \A j \in Instances : Gone(j) => Gone(j)'
    PROVE  EndInOci' /\ EndInRt' /\ EndTold' /\ rtJobs' \in Seq(RtJob)
<1> DEFINE n == Len(rtJobs) + 1
<1> PICK e : e = Event("STARTING", i)
  OBVIOUS
<1>1. /\ runs[i] = "not" /\ rtJobs' = Append(rtJobs, e) /\ UNCHANGED <<ociJobs, told>>
  BY DEF Run
<1>2. e \in RtJob /\ e.inst = i /\ e.event = "STARTING"
  BY DEF Event, RtJob, RtEvents
<1>3. /\ rtJobs' \in Seq(RtJob)
      /\ \A k \in DOMAIN rtJobs : k \in Nat \ {0} /\ k < n /\ k \in DOMAIN rtJobs' /\ rtJobs'[k] = rtJobs[k]
      /\ n \in DOMAIN rtJobs' /\ rtJobs'[n] = e
      /\ \A k \in DOMAIN rtJobs' : k \in Nat \ {0} /\ (k \in DOMAIN rtJobs \/ k = n)
  BY <1>1, <1>2, OneAppended DEF EndInv, QueuesOK
<1> HIDE DEF n
<1>4. \A j \in Instances : Gone(j) => ~Of(e, j)
  BY <1>1, <1>2 DEF Gone, Of
<1>5. \A k \in DOMAIN ociJobs : ociJobs[k].inst \in Instances
  BY JobsTyped
<1>6. \A k \in DOMAIN rtJobs : rtJobs[k].inst \in Instances
  BY JobsTyped
<1>7. EndInOci'
  <2> SUFFICES ASSUME NEW k \in DOMAIN ociJobs, ociJobs[k].event = "onStopped", NEW j, j = ociJobs[k].inst
               PROVE  /\ Gone(j)' /\ \A l \in Follows(ociJobs, k) : ~Of(ociJobs[l], j)
                      /\ IF k = 1 THEN LastSaid(j, "TERMINATED")' ELSE ociJobs[k - 1] = Event("STOPPED", j)
    BY <1>1 DEF EndInOci
  <2>1. /\ j \in Instances /\ Gone(j) /\ \A l \in Follows(ociJobs, k) : ~Of(ociJobs[l], j)
        /\ IF k = 1 THEN LastSaid(j, "TERMINATED") ELSE ociJobs[k - 1] = Event("STOPPED", j)
    BY <1>5 DEF EndInv, EndInOci
  <2>2. LastSaid(j, "TERMINATED") => LastSaid(j, "TERMINATED")'
    BY <1>1, <1>2, <1>4, <2>1, SaidStays
  <2> QED BY <2>1, <2>2
<1>8. EndInRt'
  <2> SUFFICES ASSUME NEW k \in DOMAIN rtJobs', rtJobs'[k].event = "onTerminated", NEW j, j = rtJobs'[k].inst
               PROVE  /\ Gone(j)' /\ NoJob(ociJobs, j) /\ \A l \in Follows(rtJobs', k) : ~Of(rtJobs'[l], j)
                      /\ SaidBefore(k, j, "TERMINATED")'
    BY <1>1 DEF EndInRt
  <2>1. k \in DOMAIN rtJobs /\ rtJobs'[k] = rtJobs[k]
    BY <1>2, <1>3
  <2>2. /\ j \in Instances /\ Gone(j) /\ NoJob(ociJobs, j) /\ \A l \in Follows(rtJobs, k) : ~Of(rtJobs[l], j)
        /\ SaidBefore(k, j, "TERMINATED")
    BY <1>6, <2>1 DEF EndInv, EndInRt
  <2> QED BY <1>1, <1>2, <1>4, <2>1, <2>2, SaidStays
<1>9. EndTold'
  <2> SUFFICES ASSUME NEW j \in Instances, told[j] = "onTerminated"
               PROVE  Gone(j)' /\ NoJob(ociJobs, j) /\ NoJob(rtJobs', j)
    BY <1>1 DEF EndTold
  <2>1. Gone(j) /\ NoJob(ociJobs, j) /\ NoJob(rtJobs, j)
    BY DEF EndInv, EndTold
  <2> QED BY <1>1, <1>2, <1>4, <2>1, SaidStays
<1> QED BY <1>3, <1>7, <1>8, <1>9

\* Events are submitted of the state of a container that exists until then,
\* or of its failure; the end of one comes with both its events.
LEMMA EndSubmitted ==
    ASSUME EndInv, NEW i \in Instances, NEW e \in OciJob, NEW f \in OciJob,
           \A j \in Instances : Gone(j) => ~Of(e, j) /\ ~Of(f, j),
           ociJobs' = Append(ociJobs, e) \/ ociJobs' = Append(Append(ociJobs, e), f),
           e.inst = i, f.inst = i, e.event # "onStopped",
           f.event = "onStopped" => Gone(i)' /\ e = Event("STOPPED", i),
           UNCHANGED <<rtJobs, told>>, \A j \in Instances : Gone(j) => Gone(j)'
    PROVE  EndInOci' /\ EndInRt' /\ EndTold' /\ ociJobs' \in Seq(OciJob)
<1> DEFINE n == Len(ociJobs)
           p == Append(ociJobs, e)
<1>1. /\ p \in Seq(OciJob) /\ Len(p) = n + 1
      /\ \A k \in DOMAIN ociJobs : k \in Nat \ {0} /\ k < n + 1 /\ k \in DOMAIN p /\ p[k] = ociJobs[k]
      /\ p[n + 1] = e
      /\ \A k \in DOMAIN p : k \in Nat \ {0} /\ (k \in DOMAIN ociJobs \/ k = n + 1)
  BY OneAppended DEF EndInv, QueuesOK
<1>2. n \in Nat /\ \A k \in 1..n : k \in DOMAIN ociJobs
  BY DEF EndInv, QueuesOK
<1> HIDE DEF n, p
<1>3. /\ Append(p, f) \in Seq(OciJob)
      /\ \A k \in DOMAIN p : k \in DOMAIN Append(p, f) /\ Append(p, f)[k] = p[k]
      /\ Append(p, f)[n + 2] = f
      /\ \A k \in DOMAIN Append(p, f) : k \in Nat \ {0} /\ (k \in DOMAIN p \/ k = n + 2)
  <2>1. Len(p) + 1 = n + 2
    BY <1>1, <1>2
  <2> QED BY <1>1, <2>1, OneAppended
<1>4. ociJobs' = p \/ ociJobs' = Append(p, f)
  BY DEF p
<1>5. /\ ociJobs' \in Seq(OciJob)
      /\ \A k \in DOMAIN ociJobs : k \in Nat \ {0} /\ k < n + 1 /\ k \in DOMAIN ociJobs' /\ ociJobs'[k] = ociJobs[k]
      /\ \A k \in DOMAIN ociJobs' : \/ k \in DOMAIN ociJobs
                                    \/ k = n + 1 /\ ociJobs'[k] = e
                                    \/ k = n + 2 /\ ociJobs'[k] = f /\ ociJobs'[n + 1] = e
  <2>1. CASE ociJobs' = p
    BY <1>1, <2>1
  <2>2. CASE ociJobs' = Append(p, f)
    <3> PICK q : q = Append(p, f)
      OBVIOUS
    <3>1. /\ q \in Seq(OciJob)
          /\ \A k \in DOMAIN p : k \in DOMAIN q /\ q[k] = p[k]
          /\ q[n + 2] = f
          /\ \A k \in DOMAIN q : k \in Nat \ {0} /\ (k \in DOMAIN p \/ k = n + 2)
      BY <1>3
    <3>2. ociJobs' = q
      BY <2>2
    <3>3. q[n + 1] = e
      <4>1. n + 1 \in DOMAIN p
        BY <1>1, <1>2
      <4> QED BY <1>1, <3>1, <4>1
    <3>4. \A k \in DOMAIN ociJobs : k \in Nat \ {0} /\ k < n + 1 /\ k \in DOMAIN q /\ q[k] = ociJobs[k]
      BY <1>1, <3>1
    <3>5. ASSUME NEW k \in DOMAIN q
          PROVE  \/ k \in DOMAIN ociJobs
                 \/ k = n + 1 /\ q[k] = e
                 \/ k = n + 2 /\ q[k] = f /\ q[n + 1] = e
      BY <1>1, <3>1, <3>3
    <3> QED BY <3>1, <3>2, <3>4, <3>5
  <2> QED BY <1>4, <2>1, <2>2
<1>7. ASSUME NEW j \in Instances, Gone(j), NoJob(ociJobs, j) PROVE NoJob(ociJobs', j)
  BY <1>5, <1>7 DEF NoJob
<1>8. EndInOci'
  <2> SUFFICES ASSUME NEW k \in DOMAIN ociJobs', ociJobs'[k].event = "onStopped", NEW j, j = ociJobs'[k].inst
               PROVE  /\ Gone(j)' /\ \A l \in Follows(ociJobs', k) : ~Of(ociJobs'[l], j)
                      /\ IF k = 1 THEN LastSaid(j, "TERMINATED")' ELSE ociJobs'[k - 1] = Event("STOPPED", j)
    BY DEF EndInOci
  <2>1. CASE k \in DOMAIN ociJobs
    <3>1. ociJobs'[k] = ociJobs[k] /\ k \in Nat \ {0} /\ (k # 1 => k - 1 \in DOMAIN ociJobs)
      BY <1>2, <1>5, <2>1
    <3>2. /\ j \in Instances /\ Gone(j) /\ \A l \in Follows(ociJobs, k) : ~Of(ociJobs[l], j)
          /\ IF k = 1 THEN LastSaid(j, "TERMINATED") ELSE ociJobs[k - 1] = Event("STOPPED", j)
      BY <2>1, <3>1, JobsTyped DEF EndInv, EndInOci
    <3>3. LastSaid(j, "TERMINATED") => LastSaid(j, "TERMINATED")'
      BY DEF LastSaid, NoJob, Follows
    <3>4. \A l \in Follows(ociJobs', k) : ~Of(ociJobs'[l], j)
      BY <1>5, <3>2 DEF Follows
    <3> QED BY <1>5, <3>1, <3>2, <3>3, <3>4
  <2>2. CASE k \notin DOMAIN ociJobs
    <3>1. k = n + 2 /\ ociJobs'[k] = f /\ ociJobs'[n + 1] = e
      BY <1>5, <2>2
    <3>2. k # 1 /\ k - 1 = n + 1 /\ \A l \in DOMAIN ociJobs' : ~(l > k)
      BY <1>2, <1>5, <3>1
    <3> QED BY <3>1, <3>2 DEF Follows
  <2> QED BY <2>1, <2>2
<1>9. EndInRt'
  <2> SUFFICES ASSUME NEW k \in DOMAIN rtJobs, rtJobs[k].event = "onTerminated", NEW j, j = rtJobs[k].inst
               PROVE  /\ Gone(j)' /\ NoJob(ociJobs', j) /\ \A l \in Follows(rtJobs, k) : ~Of(rtJobs[l], j)
                      /\ SaidBefore(k, j, "TERMINATED")'
    BY DEF EndInRt
  <2>1. /\ j \in Instances /\ Gone(j) /\ NoJob(ociJobs, j) /\ \A l \in Follows(rtJobs, k) : ~Of(rtJobs[l], j)
        /\ SaidBefore(k, j, "TERMINATED")
    BY JobsTyped DEF EndInv, EndInRt
  <2>2. SaidBefore(k, j, "TERMINATED") => SaidBefore(k, j, "TERMINATED")'
    BY DEF SaidBefore, Follows
  <2> QED BY <1>7, <2>1, <2>2
<1>10. EndTold'
  <2> SUFFICES ASSUME NEW j \in Instances, told[j] = "onTerminated"
               PROVE  Gone(j)' /\ NoJob(ociJobs', j) /\ NoJob(rtJobs, j)
    BY DEF EndTold
  <2>1. Gone(j) /\ NoJob(ociJobs, j) /\ NoJob(rtJobs, j)
    BY DEF EndInv, EndTold
  <2> QED BY <1>7, <2>1
<1> QED BY <1>5, <1>8, <1>9, <1>10

\* What a job of OCIContainer says becomes the last job of RuntimeManager.
LEMMA OciEnds ==
    ASSUME EndInv, OciDispatch(1), \A j \in Instances : Gone(j) => Gone(j)'
    PROVE  /\ EndInOci' /\ EndInRt' /\ EndTold'
           /\ ociJobs' \in Seq(OciJob) /\ rtJobs' \in Seq(RtJob)
<1> DEFINE n == Len(rtJobs) + 1
<1> PICK e, f : e = ociJobs[1] /\ f = Event(RuntimeEvent(e.event), e.inst)
  OBVIOUS
<1>1. /\ 1 <= Len(ociJobs) /\ ociJobs' = TakenJob(ociJobs, 1)
      /\ rtJobs' = Append(rtJobs, f) /\ UNCHANGED told
  BY DEF OciDispatch
<1>2. /\ ociJobs' \in Seq(OciJob)
      /\ 1 \in DOMAIN ociJobs /\ e \in OciJob
      /\ \A k \in DOMAIN ociJobs' : k \in Nat \ {0} /\ k + 1 \in DOMAIN ociJobs /\ ociJobs'[k] = ociJobs[k + 1]
      /\ \A k \in DOMAIN ociJobs : /\ k \in Nat \ {0}
                                   /\ k # 1 => k - 1 \in DOMAIN ociJobs' /\ ociJobs'[k - 1] = ociJobs[k]
  BY <1>1, FrontTaken DEF EndInv, QueuesOK
<1>3. e.inst \in Instances /\ e.event \in OciEvents
  BY <1>2 DEF OciJob
<1>4. /\ f \in RtJob /\ f.inst = e.inst /\ \A j : Of(f, j) <=> Of(e, j)
      /\ f.event = "onTerminated" => e.event = "onStopped"
      /\ e.event = "STOPPED" => f.event = "TERMINATED"
  <2>1. /\ RuntimeEvent(e.event) \in RtEvents
        /\ RuntimeEvent(e.event) = "onTerminated" => e.event = "onStopped"
        /\ e.event = "STOPPED" => RuntimeEvent(e.event) = "TERMINATED"
        /\ RuntimeEvent(e.event) \in {"onFailed", "onFailure"} <=> e.event \in {"onFailed", "onFailure"}
    BY <1>3 DEF RuntimeEvent, OciEvents, RtEvents
  <2>2. f \in RtJob /\ f.inst = e.inst /\ f.event = RuntimeEvent(e.event)
    BY <1>3, <2>1 DEF Event, RtJob
  <2> QED BY <2>1, <2>2 DEF Of
<1>5. /\ rtJobs' \in Seq(RtJob)
      /\ \A k \in DOMAIN rtJobs : k \in Nat \ {0} /\ k < n /\ k \in DOMAIN rtJobs' /\ rtJobs'[k] = rtJobs[k]
      /\ n \in DOMAIN rtJobs' /\ rtJobs'[n] = f
      /\ \A k \in DOMAIN rtJobs' : k \in Nat \ {0} /\ (k \in DOMAIN rtJobs \/ k = n)
  BY <1>1, <1>4, OneAppended DEF EndInv, QueuesOK
<1> HIDE DEF n
<1>6. \A j : NoJob(ociJobs, j) => NoJob(ociJobs', j) /\ ~Of(e, j)
  BY <1>2 DEF NoJob
<1>7. EndInOci'
  <2> SUFFICES ASSUME NEW k \in DOMAIN ociJobs', ociJobs'[k].event = "onStopped", NEW j, j = ociJobs'[k].inst
               PROVE  /\ Gone(j)' /\ \A l \in Follows(ociJobs', k) : ~Of(ociJobs'[l], j)
                      /\ IF k = 1 THEN LastSaid(j, "TERMINATED")' ELSE ociJobs'[k - 1] = Event("STOPPED", j)
    BY DEF EndInOci
  <2>1. k \in Nat \ {0} /\ k + 1 \in DOMAIN ociJobs /\ ociJobs'[k] = ociJobs[k + 1] /\ k + 1 # 1 /\ (k + 1) - 1 = k
    BY <1>2
  <2>2. /\ j \in Instances /\ Gone(j) /\ \A l \in Follows(ociJobs, k + 1) : ~Of(ociJobs[l], j)
        /\ ociJobs[k] = Event("STOPPED", j)
    BY <2>1, JobsTyped DEF EndInv, EndInOci
  <2>3. \A l \in Follows(ociJobs', k) : ~Of(ociJobs'[l], j)
    <3> SUFFICES ASSUME NEW l \in DOMAIN ociJobs', l > k PROVE ~Of(ociJobs'[l], j)
      BY DEF Follows
    <3>1. l \in Nat /\ l + 1 \in DOMAIN ociJobs /\ ociJobs'[l] = ociJobs[l + 1] /\ l + 1 > k + 1
      BY <1>2, <2>1
    <3> QED BY <2>2, <3>1 DEF Follows
  <2>4. CASE k = 1
    <3>1. Of(e, j) /\ e.event = "STOPPED"
      BY <2>2, <2>4 DEF Event, Of
    <3>2. Of(f, j) /\ f.event = "TERMINATED"
      BY <1>4, <3>1
    <3>3. ASSUME NEW m \in DOMAIN rtJobs', Of(rtJobs'[m], j), \A l \in Follows(rtJobs', m) : ~Of(rtJobs'[l], j)
          PROVE  rtJobs'[m].event = "TERMINATED"
      <4>1. ~(n > m)
        BY <1>5, <3>2, <3>3 DEF Follows
      <4>2. m = n
        BY <1>5, <4>1
      <4> QED BY <1>5, <3>2, <4>2
    <3>4. ~NoJob(rtJobs', j)
      BY <1>5, <3>2 DEF NoJob
    <3>5. LastSaid(j, "TERMINATED")'
      BY <3>3, <3>4 DEF LastSaid
    <3> QED BY <2>2, <2>3, <2>4, <3>5
  <2>5. CASE k # 1
    <3>1. k \in DOMAIN ociJobs
      BY <1>2, <2>1, <2>5 DEF EndInv, QueuesOK
    <3>2. ociJobs'[k - 1] = ociJobs[k]
      BY <1>2, <2>5, <3>1
    <3> QED BY <2>2, <2>3, <2>5, <3>2
  <2> QED BY <2>4, <2>5
<1>8. EndInRt'
  <2> SUFFICES ASSUME NEW k \in DOMAIN rtJobs', rtJobs'[k].event = "onTerminated", NEW j, j = rtJobs'[k].inst
               PROVE  /\ Gone(j)' /\ NoJob(ociJobs', j) /\ \A l \in Follows(rtJobs', k) : ~Of(rtJobs'[l], j)
                      /\ SaidBefore(k, j, "TERMINATED")'
    BY DEF EndInRt
  <2>1. CASE k \in DOMAIN rtJobs
    <3>1. rtJobs'[k] = rtJobs[k]
      BY <1>5, <2>1
    <3>2. /\ j \in Instances /\ Gone(j) /\ NoJob(ociJobs, j) /\ \A l \in Follows(rtJobs, k) : ~Of(rtJobs[l], j)
          /\ SaidBefore(k, j, "TERMINATED")
      BY <2>1, <3>1, JobsTyped DEF EndInv, EndInRt
    <3>3. ~Of(f, j)
      BY <1>4, <1>6, <3>2
    <3>4. told' = told
      BY <1>1
    <3>5. /\ SaidBefore(k, j, "TERMINATED")'
          /\ \A l \in Follows(rtJobs', k) : ~Of(rtJobs'[l], j)
      <4>1. rtJobs' = Append(rtJobs, f) /\ f \in RtJob
        BY <1>1, <1>4
      <4>2. SaidBefore(k, j, "TERMINATED") => SaidBefore(k, j, "TERMINATED")'
        BY <2>1, <3>2, <3>3, <3>4, <4>1, SaidStays
      <4>3. \A l \in Follows(rtJobs', k) : ~Of(rtJobs'[l], j)
        <5> SUFFICES ASSUME NEW l \in DOMAIN rtJobs', l > k PROVE ~Of(rtJobs'[l], j)
          BY DEF Follows
        <5>1. CASE l \in DOMAIN rtJobs
          BY <1>5, <3>2, <5>1 DEF Follows
        <5>2. CASE l = n
          BY <1>5, <3>3, <5>2
        <5> QED BY <1>5, <5>1, <5>2
      <4> QED BY <3>2, <4>2, <4>3
    <3> QED BY <1>6, <3>2, <3>5
  <2>2. CASE k \notin DOMAIN rtJobs
    <3>1. k = n /\ j = e.inst /\ e.event = "onStopped"
      BY <1>4, <1>5, <2>2
    <3>2. /\ Gone(j) /\ \A l \in Follows(ociJobs, 1) : ~Of(ociJobs[l], j)
          /\ LastSaid(j, "TERMINATED")
      BY <1>2, <3>1 DEF EndInv, EndInOci
    <3>3. NoJob(ociJobs', j)
      <4> SUFFICES ASSUME NEW l \in DOMAIN ociJobs' PROVE ~Of(ociJobs'[l], j)
        BY DEF NoJob
      <4>1. l + 1 \in DOMAIN ociJobs /\ ociJobs'[l] = ociJobs[l + 1] /\ l + 1 > 1
        BY <1>2
      <4> QED BY <3>2, <4>1 DEF Follows
    <3>4. \A l \in Follows(rtJobs', k) : ~Of(rtJobs'[l], j)
      BY <1>5, <3>1 DEF Follows
    <3>5. SaidBefore(k, j, "TERMINATED")'
      <4>1. ASSUME NEW m \in DOMAIN rtJobs', m < k, Of(rtJobs'[m], j),
                   \A l \in Follows(rtJobs', m) : l < k => ~Of(rtJobs'[l], j)
            PROVE  rtJobs'[m].event = "TERMINATED"
        <5>1. m \in DOMAIN rtJobs /\ rtJobs'[m] = rtJobs[m]
          BY <1>5, <3>1, <4>1
        <5>2. \A l \in Follows(rtJobs, m) : ~Of(rtJobs[l], j)
          <6> SUFFICES ASSUME NEW l \in DOMAIN rtJobs, l > m PROVE ~Of(rtJobs[l], j)
            BY DEF Follows
          <6>1. l \in DOMAIN rtJobs' /\ l < k /\ rtJobs'[l] = rtJobs[l]
            BY <1>5, <3>1
          <6> QED BY <4>1, <6>1 DEF Follows
        <5> QED BY <3>2, <4>1, <5>1, <5>2 DEF LastSaid
      <4>2. (\A m \in DOMAIN rtJobs' : m < k => ~Of(rtJobs'[m], j)) => told'[j] = "TERMINATED"
        <5>1. (\A m \in DOMAIN rtJobs' : m < k => ~Of(rtJobs'[m], j)) => NoJob(rtJobs, j)
          BY <1>5, <3>1 DEF NoJob
        <5> QED BY <1>1, <3>2, <5>1 DEF LastSaid
      <4> QED BY <4>1, <4>2 DEF SaidBefore
    <3> QED BY <1>3, <3>1, <3>2, <3>3, <3>4, <3>5
  <2> QED BY <2>1, <2>2
<1>9. EndTold'
  <2> SUFFICES ASSUME NEW j \in Instances, told[j] = "onTerminated"
               PROVE  Gone(j)' /\ NoJob(ociJobs', j) /\ NoJob(rtJobs', j)
    BY <1>1 DEF EndTold
  <2>1. Gone(j) /\ NoJob(ociJobs, j) /\ NoJob(rtJobs, j)
    BY DEF EndInv, EndTold
  <2>2. ~Of(f, j)
    BY <1>4, <1>6, <2>1
  <2> QED BY <1>1, <1>4, <1>6, <2>1, <2>2, SaidStays
<1> QED BY <1>2, <1>5, <1>7, <1>8, <1>9

\* What listeners are told of an instance is what was to be said of it next.
LEMMA SaidShifts ==
    ASSUME EndInv, RtDispatch(1), NEW j \in Instances, NEW v
    PROVE  /\ LastSaid(j, v) => LastSaid(j, v)'
           /\ \A k \in DOMAIN rtJobs' : SaidBefore(k + 1, j, v) => SaidBefore(k, j, v)'
           /\ NoJob(rtJobs, j) => NoJob(rtJobs', j) /\ told'[j] = told[j]
<1> PICK e : e = rtJobs[1]
  OBVIOUS
<1>1. /\ 1 <= Len(rtJobs) /\ rtJobs' = TakenJob(rtJobs, 1)
      /\ told' = IF e.event = "onFailure" THEN told ELSE [told EXCEPT ![e.inst] = e.event]
  BY DEF RtDispatch
<1>2. /\ 1 \in DOMAIN rtJobs /\ e \in RtJob
      /\ \A k \in DOMAIN rtJobs' : k \in Nat \ {0} /\ k + 1 \in DOMAIN rtJobs /\ rtJobs'[k] = rtJobs[k + 1]
      /\ \A k \in DOMAIN rtJobs : /\ k \in Nat \ {0}
                                  /\ k # 1 => k - 1 \in DOMAIN rtJobs' /\ rtJobs'[k - 1] = rtJobs[k]
  BY <1>1, FrontTaken DEF EndInv, QueuesOK
<1>3. told'[j] = IF Of(e, j) THEN e.event ELSE told[j]
  <2>1. e.event # "onFailed"
    BY <1>2 DEF RtJob, RtEvents
  <2> QED BY <1>1, <2>1 DEF EndInv, QueuesOK, Of
<1>4. ASSUME NoJob(rtJobs', j), ~Of(e, j) PROVE NoJob(rtJobs, j)
  <2> SUFFICES ASSUME NEW l \in DOMAIN rtJobs PROVE ~Of(rtJobs[l], j)
    BY DEF NoJob
  <2> QED BY <1>2, <1>4 DEF NoJob
<1>5. ASSUME NoJob(rtJobs, j) PROVE NoJob(rtJobs', j) /\ ~Of(e, j)
  BY <1>2, <1>5 DEF NoJob
<1>6. ASSUME LastSaid(j, v) PROVE LastSaid(j, v)'
  <2>1. ASSUME NEW m \in DOMAIN rtJobs', Of(rtJobs'[m], j), \A l \in Follows(rtJobs', m) : ~Of(rtJobs'[l], j)
        PROVE  rtJobs'[m].event = v
    <3>1. m + 1 \in DOMAIN rtJobs /\ rtJobs'[m] = rtJobs[m + 1]
      BY <1>2
    <3>2. ASSUME NEW l \in DOMAIN rtJobs, l > m + 1 PROVE ~Of(rtJobs[l], j)
      <4>1. l - 1 \in DOMAIN rtJobs' /\ rtJobs'[l - 1] = rtJobs[l] /\ l - 1 > m
        BY <1>2, <3>2
      <4> QED BY <2>1, <4>1 DEF Follows
    <3>3. \A l \in Follows(rtJobs, m + 1) : ~Of(rtJobs[l], j)
      BY <3>2 DEF Follows
    <3> QED BY <1>6, <2>1, <3>1, <3>3 DEF LastSaid
  <2>2. ASSUME NoJob(rtJobs', j) PROVE told'[j] = v
    <3>1. CASE Of(e, j)
      <4>1. ASSUME NEW l \in DOMAIN rtJobs, l > 1 PROVE ~Of(rtJobs[l], j)
        BY <1>2, <2>2, <4>1 DEF NoJob
      <4>2. \A l \in Follows(rtJobs, 1) : ~Of(rtJobs[l], j)
        BY <4>1 DEF Follows
      <4> QED BY <1>2, <1>3, <1>6, <3>1, <4>2 DEF LastSaid
    <3>2. CASE ~Of(e, j)
      BY <1>3, <1>4, <1>6, <2>2, <3>2 DEF LastSaid
    <3> QED BY <3>1, <3>2
  <2> QED BY <2>1, <2>2 DEF LastSaid
<1>7. ASSUME NEW k \in DOMAIN rtJobs', SaidBefore(k + 1, j, v) PROVE SaidBefore(k, j, v)'
  <2>0. k \in Nat
    BY <1>2
  <2>1. ASSUME NEW m \in DOMAIN rtJobs', m < k, Of(rtJobs'[m], j),
               \A l \in Follows(rtJobs', m) : l < k => ~Of(rtJobs'[l], j)
        PROVE  rtJobs'[m].event = v
    <3>1. m + 1 \in DOMAIN rtJobs /\ rtJobs'[m] = rtJobs[m + 1] /\ m + 1 < k + 1
      BY <1>2, <2>0, <2>1
    <3>2. ASSUME NEW l \in DOMAIN rtJobs, l > m + 1, l < k + 1 PROVE ~Of(rtJobs[l], j)
      <4>1. l - 1 \in DOMAIN rtJobs' /\ rtJobs'[l - 1] = rtJobs[l] /\ l - 1 > m /\ l - 1 < k
        BY <1>2, <2>0, <3>2
      <4> QED BY <2>1, <4>1 DEF Follows
    <3>3. \A l \in Follows(rtJobs, m + 1) : l < k + 1 => ~Of(rtJobs[l], j)
      BY <3>2 DEF Follows
    <3> QED BY <1>7, <2>1, <3>1, <3>3 DEF SaidBefore
  <2>2. ASSUME \A m \in DOMAIN rtJobs' : m < k => ~Of(rtJobs'[m], j) PROVE told'[j] = v
    <3>1. ASSUME NEW l \in DOMAIN rtJobs, l > 1, l < k + 1 PROVE ~Of(rtJobs[l], j)
      <4>1. l - 1 \in DOMAIN rtJobs' /\ rtJobs'[l - 1] = rtJobs[l] /\ l - 1 < k
        BY <1>2, <2>0, <3>1
      <4> QED BY <2>2, <4>1
    <3>2. CASE Of(e, j)
      <4>1. \A l \in Follows(rtJobs, 1) : l < k + 1 => ~Of(rtJobs[l], j)
        BY <3>1 DEF Follows
      <4>2. 1 < k + 1
        BY <1>2
      <4> QED BY <1>2, <1>3, <1>7, <3>2, <4>1, <4>2 DEF SaidBefore
    <3>3. CASE ~Of(e, j)
      <4>1. \A m \in DOMAIN rtJobs : m < k + 1 => ~Of(rtJobs[m], j)
        BY <1>2, <3>1, <3>3
      <4> QED BY <1>3, <1>7, <3>3, <4>1 DEF SaidBefore
    <3> QED BY <3>2, <3>3
  <2> QED BY <2>1, <2>2 DEF SaidBefore
<1> QED BY <1>3, <1>5, <1>6, <1>7

\* The first job of RuntimeManager reaches the listeners.
LEMMA RtEnds ==
    ASSUME EndInv, RtDispatch(1), \A j \in Instances : Gone(j) => Gone(j)'
    PROVE  /\ EndInOci' /\ EndInRt' /\ EndTold'
           /\ rtJobs' \in Seq(RtJob) /\ told' \in [Instances -> RtEvents \cup {"nothing"}]
<1> PICK e : e = rtJobs[1]
  OBVIOUS
<1>1. /\ 1 <= Len(rtJobs) /\ rtJobs' = TakenJob(rtJobs, 1)
      /\ told' = IF e.event = "onFailure" THEN told ELSE [told EXCEPT ![e.inst] = e.event]
      /\ ociJobs' = ociJobs
  BY DEF RtDispatch
<1>2. /\ rtJobs' \in Seq(RtJob)
      /\ 1 \in DOMAIN rtJobs /\ e \in RtJob
      /\ \A k \in DOMAIN rtJobs' : k \in Nat \ {0} /\ k + 1 \in DOMAIN rtJobs /\ rtJobs'[k] = rtJobs[k + 1]
      /\ \A k \in DOMAIN rtJobs : /\ k \in Nat \ {0}
                                  /\ k # 1 => k - 1 \in DOMAIN rtJobs' /\ rtJobs'[k - 1] = rtJobs[k]
  BY <1>1, FrontTaken DEF EndInv, QueuesOK
<1>3. e.inst \in Instances /\ e.event \in RtEvents
  BY <1>2 DEF RtJob
<1>4. told' \in [Instances -> RtEvents \cup {"nothing"}]
  BY <1>1, <1>3 DEF EndInv, QueuesOK
<1>5. EndInOci'
  <2> SUFFICES ASSUME NEW k \in DOMAIN ociJobs, ociJobs[k].event = "onStopped", NEW j, j = ociJobs[k].inst
               PROVE  /\ Gone(j)' /\ \A l \in Follows(ociJobs, k) : ~Of(ociJobs[l], j)
                      /\ IF k = 1 THEN LastSaid(j, "TERMINATED")' ELSE ociJobs[k - 1] = Event("STOPPED", j)
    BY <1>1 DEF EndInOci
  <2>1. /\ j \in Instances /\ Gone(j) /\ \A l \in Follows(ociJobs, k) : ~Of(ociJobs[l], j)
        /\ IF k = 1 THEN LastSaid(j, "TERMINATED") ELSE ociJobs[k - 1] = Event("STOPPED", j)
    BY JobsTyped DEF EndInv, EndInOci
  <2>2. LastSaid(j, "TERMINATED") => LastSaid(j, "TERMINATED")'
    BY <2>1, SaidShifts
  <2> QED BY <2>1, <2>2
<1>6. EndInRt'
  <2> SUFFICES ASSUME NEW k \in DOMAIN rtJobs', rtJobs'[k].event = "onTerminated", NEW j, j = rtJobs'[k].inst
               PROVE  /\ Gone(j)' /\ NoJob(ociJobs, j) /\ \A l \in Follows(rtJobs', k) : ~Of(rtJobs'[l], j)
                      /\ SaidBefore(k, j, "TERMINATED")'
    BY <1>1 DEF EndInRt
  <2>1. k \in Nat /\ k + 1 \in DOMAIN rtJobs /\ rtJobs'[k] = rtJobs[k + 1]
    BY <1>2
  <2>2. /\ j \in Instances /\ Gone(j) /\ NoJob(ociJobs, j) /\ \A l \in Follows(rtJobs, k + 1) : ~Of(rtJobs[l], j)
        /\ SaidBefore(k + 1, j, "TERMINATED")
    BY <2>1, JobsTyped DEF EndInv, EndInRt
  <2>3. \A l \in Follows(rtJobs', k) : ~Of(rtJobs'[l], j)
    <3> SUFFICES ASSUME NEW l \in DOMAIN rtJobs', l > k PROVE ~Of(rtJobs'[l], j)
      BY DEF Follows
    <3>1. l + 1 \in DOMAIN rtJobs /\ rtJobs'[l] = rtJobs[l + 1] /\ l + 1 > k + 1
      BY <1>2, <2>1
    <3> QED BY <2>2, <3>1 DEF Follows
  <2>4. SaidBefore(k, j, "TERMINATED")'
    BY <2>2, SaidShifts
  <2> QED BY <2>2, <2>3, <2>4
<1>7. EndTold'
  <2> SUFFICES ASSUME NEW j \in Instances, told'[j] = "onTerminated"
               PROVE  Gone(j)' /\ NoJob(ociJobs, j) /\ NoJob(rtJobs', j)
    BY <1>1 DEF EndTold
  <2>1. CASE Of(e, j)
    <3>1. e.event = "onTerminated" /\ e.inst = j
      BY <1>1, <2>1 DEF EndInv, QueuesOK, Of
    <3>2. Gone(j) /\ NoJob(ociJobs, j) /\ \A l \in Follows(rtJobs, 1) : ~Of(rtJobs[l], j)
      BY <1>2, <2>1, <3>1 DEF EndInv, EndInRt
    <3>3. ASSUME NEW l \in DOMAIN rtJobs' PROVE ~Of(rtJobs'[l], j)
      <4>1. l + 1 \in DOMAIN rtJobs /\ rtJobs'[l] = rtJobs[l + 1] /\ l + 1 > 1
        BY <1>2
      <4> QED BY <3>2, <4>1 DEF Follows
    <3> QED BY <3>2, <3>3 DEF NoJob
  <2>2. CASE ~Of(e, j)
    <3>1. told[j] = "onTerminated"
      BY <1>1, <1>3, <2>2 DEF EndInv, QueuesOK, Of, RtEvents
    <3>2. Gone(j) /\ NoJob(ociJobs, j) /\ NoJob(rtJobs, j)
      BY <3>1 DEF EndInv, EndTold
    <3> QED BY <3>2, SaidShifts
  <2> QED BY <2>1, <2>2
<1> QED BY <1>2, <1>4, <1>5, <1>6, <1>7

-----------------------------------------------------------------------------
(* Every step, and what follows. *)

LEMMA EndStep ==
    ASSUME UidInv, EndInv, RtPoolThreads = 1, [RuntimeNext]_runtimeVars
    PROVE  EndInv'
<1>1. /\ runs' \in [Instances -> {"not", "announced", "done"}]
      /\ \A i \in Instances : Exists(i)' => runs'[i] = "done"
      /\ \A i \in Instances : Gone(i) => Gone(i)'
  BY GoneStays DEF EndInv
<1>2. ociJobs \in Seq(OciJob) /\ rtJobs \in Seq(RtJob) /\ told \in [Instances -> RtEvents \cup {"nothing"}]
      /\ runs \in [Instances -> {"not", "announced", "done"}] /\ \A i \in Instances : Exists(i) => runs[i] = "done"
  BY DEF EndInv, QueuesOK
<1> SUFFICES /\ EndInOci' /\ EndInRt' /\ EndTold'
             /\ ociJobs' \in Seq(OciJob) /\ rtJobs' \in Seq(RtJob)
             /\ told' \in [Instances -> RtEvents \cup {"nothing"}]
  BY <1>1 DEF EndInv, QueuesOK
<1>3. CASE UNCHANGED <<ociJobs, rtJobs, told>>
  BY <1>1, <1>2, <1>3, JobsStay
<1>4. ASSUME NEW i \in Instances, Run(i)
      PROVE  /\ EndInOci' /\ EndInRt' /\ EndTold' /\ rtJobs' \in Seq(RtJob)
             /\ UNCHANGED <<ociJobs, told>>
  <2>1. UNCHANGED <<ociJobs, told>>
    BY <1>4 DEF Run
  <2> QED BY <1>1, <1>4, <2>1, RunEnds
<1>5. ASSUME NEW i \in Instances, RuntimeRequest(i), ~Run(i)
      PROVE  UNCHANGED <<ociJobs, rtJobs, told>>
  BY <1>5 DEF RuntimeRequest, RunStarts, Suspend, Resume, Hibernate, Wake, Stop, TerminateNothing, StopRefused,
              unchangedByRequest
<1>6. ASSUME NEW i \in Instances, NEW e \in OciEvents, e # "onStopped", Exists(i) \/ e = "onFailed",
             Submit(<<Event(e, i)>>)
      PROVE  EndInOci' /\ EndInRt' /\ EndTold' /\ ociJobs' \in Seq(OciJob) /\ UNCHANGED <<rtJobs, told>>
  <2> PICK a : a = Event(e, i)
    OBVIOUS
  <2>1. a \in OciJob /\ a.inst = i /\ a.event # "onStopped"
    BY <1>6 DEF Event, OciJob
  <2>2. UNCHANGED <<rtJobs, told>> /\ ociJobs' = Append(ociJobs, a)
    BY <1>2, <1>6, <2>1, TwoAppended DEF Submit
  <2>3. \A j \in Instances : Gone(j) => ~Of(a, j)
    BY <1>6 DEF Gone, Of, Event
  <2> QED BY <1>1, <2>1, <2>2, <2>3, EndSubmitted
<1>7. ASSUME NEW i \in Instances, NEW e \in OciEvents, NEW f \in OciEvents, e # "onStopped", Exists(i),
             f = "onStopped" => Gone(i)' /\ e = "STOPPED", Submit(<<Event(e, i), Event(f, i)>>)
      PROVE  EndInOci' /\ EndInRt' /\ EndTold' /\ ociJobs' \in Seq(OciJob) /\ UNCHANGED <<rtJobs, told>>
  <2> PICK a, b : a = Event(e, i) /\ b = Event(f, i)
    OBVIOUS
  <2>1. /\ a \in OciJob /\ a.inst = i /\ a.event # "onStopped"
        /\ b \in OciJob /\ b.inst = i /\ b.event = f
    BY <1>7 DEF Event, OciJob
  <2>2. UNCHANGED <<rtJobs, told>> /\ ociJobs' = Append(Append(ociJobs, a), b)
    BY <1>2, <1>7, <2>1, TwoAppended DEF Submit
  <2>3. b.event = "onStopped" => Gone(i)' /\ a = Event("STOPPED", i)
    BY <1>7, <2>1
  <2>4. \A j \in Instances : Gone(j) => ~Of(a, j) /\ ~Of(b, j)
    BY <1>7, <2>1 DEF Gone, Of
  <2> QED BY <1>1, <2>1, <2>2, <2>3, <2>4, EndSubmitted
<1>8. ASSUME NEW i \in Instances, Exists(i), Stopped(i)
      PROVE  EndInOci' /\ EndInRt' /\ EndTold' /\ ociJobs' \in Seq(OciJob) /\ UNCHANGED <<rtJobs, told>>
  <2>1. /\ containers' = [containers EXCEPT ![i] = Nothing] /\ runs' = runs
        /\ Submit(<<Event("STOPPED", i), Event("onStopped", i)>>)
    BY <1>8 DEF Stopped, StoppedEvents, StateListener, Submit
  <2>2. Gone(i)'
    BY <1>2, <1>8, <2>1 DEF Gone, Exists, Nothing, UidInv
  <2>3. "STOPPED" \in OciEvents /\ "onStopped" \in OciEvents
    BY DEF OciEvents
  <2> QED BY <1>7, <1>8, <2>1, <2>2, <2>3
<1>9. ASSUME NEW i \in Instances, DobbyFinishes(i) \/ ContainerCrashes(i) \/ FailureTold(i)
      PROVE  EndInOci' /\ EndInRt' /\ EndTold' /\ ociJobs' \in Seq(OciJob) /\ UNCHANGED <<rtJobs, told>>
  <2>1. {"RUNNING", "onStarted", "PAUSED", "HIBERNATED", "onFailed"} \subseteq OciEvents
    BY DEF OciEvents
  <2>2. CASE StateListener(StartedEvents(i)) /\ Exists(i)
    BY <1>7, <2>1, <2>2 DEF StartedEvents, StateListener
  <2>3. CASE StateListener(<<Event("PAUSED", i)>>) /\ Exists(i)
    BY <1>6, <2>1, <2>3 DEF StateListener
  <2>4. CASE StateListener(<<Event("HIBERNATED", i)>>) /\ Exists(i)
    BY <1>6, <2>1, <2>4 DEF StateListener
  <2>5. CASE FailureTold(i)
    BY <1>6, <2>1, <2>5 DEF FailureTold
  <2>6. CASE Stopped(i) /\ Exists(i)
    BY <1>8, <2>6
  <2> QED BY <1>9, <2>2, <2>3, <2>4, <2>5, <2>6 DEF DobbyFinishes, ContainerCrashes, Exists
<1>15. ASSUME NEW i \in Instances, VerityFails(i) \/ FailedIsStopped(i)
       PROVE  UNCHANGED <<ociJobs, rtJobs, told>>
  BY <1>15 DEF VerityFails, FailedIsStopped
<1>10. CASE OciDispatch(1)
  <2>1. told' = told
    BY <1>10 DEF OciDispatch
  <2> QED BY <1>1, <1>2, <1>10, <2>1, OciEnds
<1>11. CASE RtDispatch(1)
  <2>1. ociJobs' = ociJobs
    BY <1>11 DEF RtDispatch
  <2> QED BY <1>1, <1>2, <1>11, <2>1, RtEnds
<1>12. CASE UNCHANGED runtimeVars
  BY <1>3, <1>12 DEF runtimeVars
<1>13. \A k \in 1..RtPoolThreads : k = 1
  OBVIOUS
<1>14. ASSUME NEW i \in Instances, RuntimeRequest(i)
       PROVE  /\ EndInOci' /\ EndInRt' /\ EndTold'
              /\ ociJobs' \in Seq(OciJob) /\ rtJobs' \in Seq(RtJob)
              /\ told' \in [Instances -> RtEvents \cup {"nothing"}]
  <2>1. CASE Run(i)
    BY <1>2, <1>4, <2>1
  <2>2. CASE ~Run(i)
    BY <1>3, <1>5, <1>14, <2>2
  <2> QED BY <2>1, <2>2
<1> QED BY <1>2, <1>3, <1>9, <1>10, <1>11, <1>12, <1>13, <1>14, <1>15 DEF RuntimeNext

\* TerminatedToldLast: with one pool thread the termination of an instance is
\* the last thing listeners hear of its state, right after TERMINATED, and
\* by then its container is gone, for any number of instances, any pool of
\* user ids and every failure of Dobby and of the unmounting of the bundle.
THEOREM TerminationEndsAll == RtPoolThreads = 1 => (RuntimeSpec => TerminatedToldLast)
<1> SUFFICES ASSUME RtPoolThreads = 1 PROVE RuntimeSpec => TerminatedToldLast
  OBVIOUS
<1>1. RuntimeInit => EndInv
  <2> SUFFICES ASSUME RuntimeInit PROVE EndInv
    OBVIOUS
  <2>1. QueuesOK
    BY DEF RuntimeInit, QueuesOK, Exists, Nothing
  <2>2. DOMAIN ociJobs = {} /\ DOMAIN rtJobs = {}
    BY DEF RuntimeInit
  <2> QED BY <2>1, <2>2 DEF RuntimeInit, EndInv, EndInOci, EndInRt, EndTold
<1>2. UidInv /\ EndInv /\ [RuntimeNext]_runtimeVars => EndInv'
  BY EndStep
<1>3. ASSUME UidInv, EndInv, UidInv', EndInv', [RuntimeNext]_runtimeVars, NEW i \in Instances
      PROVE  /\ told[i] = "onTerminated" => told'[i] = "onTerminated" /\ ~Exists(i)'
             /\ told'[i] = "onTerminated" => told[i] \in {"TERMINATED", "onTerminated"}
  <2>1. told[i] = "onTerminated" => NoJob(rtJobs, i) /\ Gone(i) /\ Gone(i)'
    BY <1>3, GoneStays DEF EndInv, EndTold
  <2>2. CASE told' = told
    BY <2>1, <2>2 DEF Gone
  <2>3. CASE RtDispatch(1)
    <3>1. told[i] = "onTerminated" => told'[i] = told[i] /\ ~Exists(i)'
      BY <1>3, <2>1, <2>3, SaidShifts DEF Gone
    <3>2. ASSUME told'[i] = "onTerminated", told[i] # "onTerminated" PROVE told[i] = "TERMINATED"
      <4> PICK e : e = rtJobs[1]
        OBVIOUS
      <4>1. /\ 1 <= Len(rtJobs)
            /\ told' = IF e.event = "onFailure" THEN told ELSE [told EXCEPT ![e.inst] = e.event]
        BY <2>3 DEF RtDispatch
      <4>2. e.inst = i /\ e.event = "onTerminated"
        BY <1>3, <3>2, <4>1 DEF EndInv, QueuesOK
      <4>3. 1 \in DOMAIN rtJobs /\ \A k \in DOMAIN rtJobs : ~(k < 1)
        BY <1>3, <4>1 DEF EndInv, QueuesOK
      <4>4. SaidBefore(1, i, "TERMINATED")
        BY <1>3, <4>2, <4>3 DEF EndInv, EndInRt
      <4> QED BY <4>3, <4>4 DEF SaidBefore
    <3> QED BY <3>1, <3>2
  <2>4. told' = told \/ RtDispatch(1)
    <3>1. \A k \in 1..RtPoolThreads : k = 1
      OBVIOUS
    <3> QED BY <1>3, <3>1 DEF RuntimeNext, runtimeVars, RuntimeRequest, Run, RunStarts, Suspend, Resume, Hibernate,
                        Wake, Stop, TerminateNothing, StopRefused, unchangedByRequest, DobbyFinishes,
                        ContainerCrashes, VerityFails, FailureTold, FailedIsStopped, Stopped, StateListener,
                        Submit, OciDispatch
  <2> QED BY <2>2, <2>3, <2>4
<1>4. UidInv /\ EndInv /\ UidInv' /\ EndInv' /\ [RuntimeNext]_runtimeVars
      => [\A i \in Instances :
             /\ told[i] = "onTerminated" => told'[i] = "onTerminated" /\ ~Exists(i)'
             /\ told'[i] = "onTerminated" => told[i] \in {"TERMINATED", "onTerminated"}]_runtimeVars
  BY <1>3
<1> QED BY <1>1, <1>2, <1>4, UidStart, UidStep, PTL DEF RuntimeSpec, TerminatedToldLast
=============================================================================
