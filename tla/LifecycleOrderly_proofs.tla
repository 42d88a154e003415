---------------------- MODULE LifecycleOrderly_proofs ----------------------
(***************************************************************************)
(* What holds when API calls are serialised and clients leave an           *)
(* application alone once they asked to unload it: there is one context    *)
(* per application, a context that is to be deleted stays unloaded, no     *)
(* pointer to it is kept beyond its deletion, and the lifecycle state of a *)
(* context agrees with its container.  And what holds when the worker pool *)
(* runs one job at a time: the state change events of an instance tell its *)
(* history.                                                                *)
(***************************************************************************)
EXTENDS LifecycleManager_proofs

\* The API calls are made by one thread.
OneClient == \A s, t \in Clients : s = t

\* It asks for the end of an application by UnloadApp and KillApp only, and
\* makes no further call on one it asked to end.
OrderlyUse == OneClient /\ Orderly /\ "Relaunch" \notin Calls /\ "TERMINATING" \notin Targets

-----------------------------------------------------------------------------
(* Where pointers to contexts are kept. *)

Uses(t, c) == client[t].pc # "idle" /\ client[t].ctx = c
Asked(c)   == \E k \in DOMAIN gRequests : gRequests[k].ctx = c

\* UNLOADED is entered by the last step of a request to terminate.
PathEnds ==
    worker.pc \in InStep =>
        \A i \in DOMAIN worker.path : worker.path[i] = "UNLOADED" =>
            i = Len(worker.path) /\ Head(gRequests).target = "TERMINATING"

\* A request to terminate is the last one for its context, and known to
\* the clients by the target they have set.
EndIsLast ==
    \A k, m \in DOMAIN gRequests :
        k < m /\ gRequests[k].ctx = gRequests[m].ctx => gRequests[k].target # "TERMINATING"

EndIsKnown ==
    \A k \in DOMAIN gRequests : gRequests[k].target = "TERMINATING" =>
        /\ mTargetLifecycleState[gRequests[k].ctx] = "TERMINATING"
        /\ \A t \in Clients : ~Uses(t, gRequests[k].ctx)

\* A call about to add a request has set the target to it; only UnloadApp
\* and KillApp, which return then, ask for TERMINATING.
CallOK(t) ==
    client[t].pc # "idle" =>
        /\ client[t].pc # "relaunch" /\ client[t].then # "relaunch"
        /\ client[t].pc # "add" \/ client[t].then # "return" => client[t].target # "TERMINATING"
        /\ client[t].pc = "spawn" => client[t].target # "TERMINATING"
        /\ client[t].pc = "add" => mTargetLifecycleState[client[t].ctx] = client[t].target

\* Nothing points to a context before it is made, nor after it was unloaded.
Pointers(c) ==
    /\ heap[c] = "unused" => /\ c \notin Loaded /\ mAppInstanceId[c] = 0
                             /\ ~Asked(c) /\ \A t \in Clients : ~Uses(t, c)
    /\ heap[c] \in {"found", "deleted"} => mState[c] = "UNLOADED" /\ mAppInstanceId[c] # 0
    /\ mState[c] = "UNLOADED" /\ mAppInstanceId[c] # 0 =>
           /\ mTargetLifecycleState[c] = "TERMINATING"
           /\ ~Asked(c) /\ \A t \in Clients : ~Uses(t, c)

SInv ==
    /\ PathEnds
    /\ EndIsLast
    /\ EndIsKnown
    /\ \A t \in Clients : CallOK(t)
    /\ \A c \in Contexts : Pointers(c)

\* A lookup that found nothing stays true until the context is made.
NoneYet ==
    \A t \in Clients : client[t].pc = "spawn" /\ client[t].ctx = Null =>
        \A c \in Loaded : mAppId[c] # client[t].app

-----------------------------------------------------------------------------
(* Elements of a queue after a step. *)

LEMMA HeadElement ==
    ASSUME NEW S, NEW q \in Seq(S), q # <<>>
    PROVE  /\ 1 \in DOMAIN q /\ Head(q) = q[1] /\ Head(q) \in S
           /\ Len(q) \in Nat \ {0} /\ DOMAIN q = 1..Len(q)
<1>1. Len(q) \in Nat \ {0} /\ DOMAIN q = 1..Len(q)
  BY EmptySeq, LenProperties
<1>2. Head(q) = q[1]
  BY <1>1, SubSeqFull, HeadTailOfSubSeq
<1>3. 1 \in DOMAIN q
  BY <1>1
<1>4. q[1] \in S
  BY <1>1, <1>3, ElementOfSeq
<1>5. QED
  BY <1>1, <1>2, <1>3, <1>4

LEMMA TailElement ==
    ASSUME NEW S, NEW q \in Seq(S), q # <<>>, NEW k \in DOMAIN Tail(q)
    PROVE  k \in Nat /\ k + 1 \in DOMAIN q /\ Tail(q)[k] = q[k + 1] /\ Tail(q) \in Seq(S)
<1>1. Len(q) \in Nat \ {0} /\ DOMAIN q = 1..Len(q)
  BY HeadElement
<1>2. /\ Tail(q) \in Seq(S) /\ Len(Tail(q)) = Len(q) - 1
      /\ \A i \in 1..(Len(q) - 1) : Tail(q)[i] = q[i + 1]
  BY <1>1
<1>3. k \in 1..(Len(q) - 1)
  BY <1>2, LenProperties
<1>4. QED
  BY <1>1, <1>2, <1>3

\* The queue keeps its requests or loses the first one.
LEMMA RequestLeft ==
    ASSUME Inv, gRequests' = gRequests \/ (gRequests # <<>> /\ gRequests' = Tail(gRequests))
    PROVE  \E n \in {0, 1} : \A k \in DOMAIN gRequests' :
               k \in Nat /\ k + n \in DOMAIN gRequests /\ gRequests'[k] = gRequests[k + n]
<1>1. gRequests \in Seq(Requests)
  BY DEF Inv, TypeOK, RequestsOK
<1>2. CASE gRequests' = gRequests
  <2>1. \A k \in DOMAIN gRequests' :
            k \in Nat /\ k + 0 \in DOMAIN gRequests /\ gRequests'[k] = gRequests[k + 0]
    BY <1>1, <1>2, LenProperties
  <2>2. QED
    BY <2>1
<1>3. CASE gRequests # <<>> /\ gRequests' = Tail(gRequests)
  <2>1. \A k \in DOMAIN gRequests' :
            k \in Nat /\ k + 1 \in DOMAIN gRequests /\ gRequests'[k] = gRequests[k + 1]
    BY <1>1, <1>3, TailElement
  <2>2. QED
    BY <2>1
<1>4. QED
  BY <1>2, <1>3

-----------------------------------------------------------------------------
(* The transition thread. *)

\* What remains of the queue keeps what was known of it.
LEMMA QueueKeeps ==
    ASSUME Inv, SInv, UNCHANGED <<mTargetLifecycleState, client>>,
           gRequests' = gRequests \/ (gRequests # <<>> /\ gRequests' = Tail(gRequests))
    PROVE  EndIsLast' /\ EndIsKnown' /\ (\A t \in Clients : CallOK(t)') /\ \A c : Asked(c)' => Asked(c)
<1>1. PICK n \in {0, 1} : \A k \in DOMAIN gRequests' :
          k \in Nat /\ k + n \in DOMAIN gRequests /\ gRequests'[k] = gRequests[k + n]
  BY RequestLeft
<1>2. EndIsLast'
  <2>1. ASSUME NEW k \in DOMAIN gRequests', NEW m \in DOMAIN gRequests', k < m,
               gRequests'[k].ctx = gRequests'[m].ctx
        PROVE  gRequests'[k].target # "TERMINATING"
    <3>1. k + n < m + n
      BY <1>1, <2>1
    <3>2. QED
      BY <1>1, <2>1, <3>1 DEF SInv, EndIsLast
  <2>2. QED
    BY <2>1 DEF EndIsLast
<1>3. EndIsKnown'
  BY <1>1 DEF SInv, EndIsKnown, Uses
<1>4. \A t \in Clients : CallOK(t)'
  BY DEF SInv, CallOK
<1>5. \A c : Asked(c)' => Asked(c)
  BY <1>1 DEF Asked
<1>6. QED
  BY <1>2, <1>3, <1>4, <1>5

\* Steps that enter no state.
LEMMA WaitKeeps ==
    ASSUME Inv, SInv, PathEnds',
           UNCHANGED <<heap, mLoadedApplications, mAppInstanceId, mState, mTargetLifecycleState, client>>,
           gRequests' = gRequests \/ (gRequests # <<>> /\ gRequests' = Tail(gRequests))
    PROVE  SInv'
<1>1. EndIsLast' /\ EndIsKnown' /\ (\A t \in Clients : CallOK(t)') /\ \A c : Asked(c)' => Asked(c)
  BY QueueKeeps
<1>2. \A c \in Contexts : Pointers(c)'
  BY <1>1 DEF SInv, Pointers, Uses, Loaded
<1>3. QED
  BY <1>1, <1>2 DEF SInv

\* The context that changeState works on is neither new nor deleted.
LEMMA CurIsLive ==
    ASSUME Inv, SInv, gRequests # <<>>
    PROVE  /\ Cur \in Contexts /\ Asked(Cur)
           /\ heap[Cur] \notin {"unused", "found", "deleted"}
           /\ mState[Cur] = "UNLOADED" => mAppInstanceId[Cur] = 0
<1>1. gRequests \in Seq(Requests)
  BY DEF Inv, TypeOK, RequestsOK
<1>2. 1 \in DOMAIN gRequests /\ Head(gRequests) = gRequests[1] /\ Head(gRequests) \in Requests
  BY <1>1, HeadElement
<1>3. Cur \in Contexts /\ Asked(Cur)
  BY <1>2 DEF Cur, Asked, Requests
<1>4. Pointers(Cur)
  BY <1>3 DEF SInv
<1>5. QED
  BY <1>3, <1>4 DEF Pointers

\* The rest of a path.
LEMMA RestOfPath ==
    ASSUME Inv, SInv, worker.pc \in InStep, NEW s, Enter(s)
    PROVE  PathEnds'
<1>1. worker.path \in Seq(LifecycleStates) /\ worker.path # <<>>
  BY CurInContexts
<1>2. CASE Len(worker.path) = 1
  BY <1>2 DEF Enter, PathEnds, InStep, Waits
<1>3. CASE Len(worker.path) # 1
  <2>1. /\ worker'.path = Tail(worker.path) /\ gRequests' = gRequests
        /\ Len(worker'.path) = Len(worker.path) - 1
        /\ Len(worker.path) \in Nat
    BY <1>1, <1>3, HeadElement DEF Enter, AfterStep
  <2>2. ASSUME NEW i \in DOMAIN worker'.path, worker'.path[i] = "UNLOADED"
        PROVE  i = Len(worker'.path) /\ Head(gRequests').target = "TERMINATING"
    <3>1. i \in Nat /\ i + 1 \in DOMAIN worker.path /\ worker.path[i + 1] = "UNLOADED"
      BY <1>1, <2>1, <2>2, TailElement
    <3>2. i + 1 = Len(worker.path) /\ Head(gRequests).target = "TERMINATING"
      BY <3>1 DEF SInv, PathEnds
    <3>3. QED
      BY <2>1, <3>1, <3>2
  <2>3. QED
    BY <2>2 DEF PathEnds
<1>4. QED
  BY <1>2, <1>3

\* Entering a state; UNLOADED only for a request to terminate, its last step.
LEMMA EnterKeepsOrder ==
    ASSUME Inv, SInv, worker.pc \in InStep, NEW s \in LifecycleStates,
           Head(worker.path) = s, Enter(s),
           UNCHANGED <<heap, mLoadedApplications, mTargetLifecycleState, client>>,
           \A c \in Contexts : c # Cur => mAppInstanceId'[c] = mAppInstanceId[c]
    PROVE  SInv'
<1>1. /\ gRequests \in Seq(Requests) /\ gRequests # <<>>
      /\ worker.path \in Seq(LifecycleStates) /\ worker.path # <<>>
      /\ Cur \in Contexts /\ mState \in [Contexts -> LifecycleStates]
  BY CurInContexts DEF Inv, TypeOK, ContextsOK
<1>2. /\ mState'[Cur] = s
      /\ \A c \in Contexts : c # Cur => mState'[c] = mState[c]
  BY <1>1 DEF Enter
<1>3. gRequests' = gRequests \/ (gRequests # <<>> /\ gRequests' = Tail(gRequests))
  BY <1>1 DEF Enter, AfterStep
<1>4. PathEnds'
  BY RestOfPath
<1>5. EndIsLast' /\ EndIsKnown' /\ (\A t \in Clients : CallOK(t)') /\ \A c : Asked(c)' => Asked(c)
  BY <1>3, QueueKeeps
<1>6. \A c \in Contexts : c # Cur => Pointers(c)'
  BY <1>2, <1>5 DEF SInv, Pointers, Uses, Loaded
<1>7. PICK d : d = Cur
  OBVIOUS
<1>8. ASSUME s = "UNLOADED"
      PROVE  /\ mTargetLifecycleState[d] = "TERMINATING"
             /\ ~Asked(d)'
             /\ \A t \in Clients : ~Uses(t, d)
  <2>1. worker.path[1] = "UNLOADED" /\ 1 \in DOMAIN worker.path
    BY <1>1, <1>8, HeadElement
  <2>2. Len(worker.path) = 1 /\ Head(gRequests).target = "TERMINATING"
    BY <2>1 DEF SInv, PathEnds
  <2>3. gRequests' = Tail(gRequests)
    BY <2>2 DEF Enter, AfterStep
  <2>4. 1 \in DOMAIN gRequests /\ gRequests[1].ctx = d /\ gRequests[1].target = "TERMINATING"
    BY <1>1, <1>7, <2>2, HeadElement DEF Cur
  <2>5. ASSUME NEW k \in DOMAIN gRequests', gRequests'[k].ctx = d
        PROVE  FALSE
    <3>1. k \in Nat /\ k + 1 \in DOMAIN gRequests /\ gRequests[k + 1].ctx = d
      BY <1>1, <2>3, <2>5, TailElement
    <3>2. 1 < k + 1
      <4>1. gRequests' \in Seq(Requests)
        BY <1>1, <2>3, <2>5, TailElement
      <4>2. k \in 1..Len(gRequests')
        BY <4>1, <2>5, LenProperties
      <4>3. QED
        BY <3>1, <4>2
    <3>3. QED
      BY <2>4, <3>1, <3>2 DEF SInv, EndIsLast
  <2>6. QED
    BY <2>4, <2>5 DEF SInv, EndIsKnown, Asked
<1>9. Pointers(d)'
  <2>1. mState'[d] = s /\ heap[d] \notin {"unused", "found", "deleted"} /\ heap' = heap
    BY <1>1, <1>2, <1>7, CurIsLive
  <2>2. s = "UNLOADED" => /\ mTargetLifecycleState'[d] = "TERMINATING"
                          /\ ~Asked(d)' /\ \A t \in Clients : ~Uses(t, d)'
    BY <1>8 DEF Uses
  <2>3. QED
    BY <2>1, <2>2 DEF Pointers
<1>10. \A c \in Contexts : Pointers(c)'
  BY <1>6, <1>7, <1>9
<1>11. QED
  BY <1>4, <1>5, <1>10 DEF SInv

LEMMA WorkerKeepsOrder ==
    ASSUME Inv, SInv, WorkerNext
    PROVE  SInv'
<1>1. worker \in [pc : {"scan", "asleep", "exited", "crashed"} \cup InStep, path : Seq(LifecycleStates)]
  BY DEF Inv, TypeOK, RequestsOK
<1>2. CASE TakeRequest
  <2>1. PathEnds'
    <3>1. CASE worker'.pc \notin InStep
      BY <3>1 DEF PathEnds
    <3>2. CASE worker'.pc \in InStep
      <4>1. /\ worker'.path = Path(Head(gRequests).target) /\ Path(Head(gRequests).target) # <<>>
            /\ gRequests' = gRequests
        BY <1>2, <3>2 DEF TakeRequest, InStep, Waits
      <4>2. Head(gRequests) \in Requests
        BY <1>2, HeadElement DEF TakeRequest, Inv, TypeOK, RequestsOK
      <4>3. Cur \in Contexts /\ Head(gRequests).target \in LifecycleStates /\ mState[Cur] \in LifecycleStates
        BY <4>2 DEF Inv, TypeOK, ContextsOK, Cur, Requests
      <4>4. QED
        BY <4>1, <4>3, StepsAssumption DEF PathEnds, Path, IsPath
    <3>3. QED
      BY <3>1, <3>2
  <2>2. /\ UNCHANGED <<heap, mLoadedApplications, mAppInstanceId, mState, mTargetLifecycleState, client>>
        /\ gRequests' = gRequests \/ (gRequests # <<>> /\ gRequests' = Tail(gRequests))
    BY <1>2 DEF TakeRequest, contextVars
  <2>3. QED
    BY <2>1, <2>2, WaitKeeps
<1>3. CASE QueueEmpty \/ WakeUp
  <2>1. PathEnds'
    BY <1>1, <1>3 DEF QueueEmpty, WakeUp, PathEnds, InStep, Waits
  <2>2. QED
    BY <1>3, <2>1, WaitKeeps DEF QueueEmpty, WakeUp, contextVars, requestVars
<1>4. ASSUME worker.pc = "step", UNCHANGED <<unchangedByStep, mAppInstanceId>>,
             GiveUp \/ \E pc \in Waits : Block(pc)
      PROVE  SInv'
  <2>1. PathEnds'
    <3>1. CASE GiveUp
      BY <3>1 DEF GiveUp, PathEnds, InStep, Waits
    <3>2. CASE \E pc \in Waits : Block(pc)
      BY <1>1, <1>4, <3>2 DEF Block, SInv, PathEnds, InStep
    <3>3. QED
      BY <1>4, <3>1, <3>2
  <2>2. QED
    BY <1>4, <2>1, WaitKeeps DEF GiveUp, Block, unchangedByStep
<1>5. ASSUME worker.pc \in InStep, NEW s \in LifecycleStates, Head(worker.path) = s, Enter(s),
             UNCHANGED unchangedByStep,
             \A c \in Contexts : c # Cur => mAppInstanceId'[c] = mAppInstanceId[c]
      PROVE  SInv'
  BY <1>5, EnterKeepsOrder DEF unchangedByStep
<1>6. CASE EnterLoading
  <2>1. mAppInstanceId \in [Contexts -> 0..lastInstance]
    BY Unmoved
  <2>2. \A c \in Contexts : c # Cur => mAppInstanceId'[c] = mAppInstanceId[c]
    BY <1>6, <2>1 DEF EnterLoading
  <2>3. QED
    BY <1>5, <1>6, <2>2 DEF EnterLoading, GoingTo, InStep, LifecycleStates
<1>7. CASE StartInitializing \/ NotRendered
  BY <1>4, <1>7 DEF StartInitializing, NotRendered, GoingTo, Waits
<1>8. CASE EnterPaused \/ EnterUnloaded
  BY <1>5, <1>8 DEF EnterPaused, EnterUnloaded, GoingTo, InStep, LifecycleStates
<1>9. CASE EnterInitializing \/ EnterActive \/ EnterTerminating
  BY <1>5, <1>9 DEF EnterInitializing, EnterActive, EnterTerminating, GoingTo, InStep, Waits,
                    LifecycleStates, Inv, OnPath
<1>10. ASSUME NEW s \in {"SUSPENDED", "HIBERNATED"}, NEW o, EnterByRuntime(s, o)
       PROVE  SInv'
  <2>1. worker.pc = "step" /\ worker.pc \in InStep /\ Head(worker.path) = s /\ s \in LifecycleStates
        /\ UNCHANGED <<unchangedByStep, mAppInstanceId>>
    BY <1>10 DEF EnterByRuntime, GoingTo, InStep, LifecycleStates
  <2>2. QED
    BY <1>4, <1>5, <1>10, <2>1 DEF EnterByRuntime
<1>11. ASSUME NEW o, StartTerminating(o)
       PROVE  SInv'
  BY <1>4, <1>11 DEF StartTerminating, GoingTo, Waits
<1>12. QED
  BY <1>2, <1>3, <1>6, <1>7, <1>8, <1>9, <1>10, <1>11 DEF WorkerNext

-----------------------------------------------------------------------------
(* Calls. *)

\* A context that a call may go on with.
Free(d) ==
    /\ d \in Contexts
    /\ ~(mState[d] = "UNLOADED" /\ mAppInstanceId[d] # 0)
    /\ \A k \in DOMAIN gRequests : gRequests[k].ctx = d => gRequests[k].target # "TERMINATING"

LEMMA LookupIsFree ==
    ASSUME Inv, SInv, Orderly, NEW d \in Loaded, May(d)
    PROVE  Free(d) /\ heap[d] # "unused"
<1>1. d \in Contexts /\ mTargetLifecycleState[d] # "TERMINATING"
  BY LookupType, ConstantsAssumption DEF Inv, TypeOK, May
<1>2. Pointers(d)
  BY <1>1 DEF SInv
<1>3. QED
  BY <1>1, <1>2 DEF SInv, EndIsKnown, Pointers, Free

LEMMA UsedIsFree ==
    ASSUME Inv, SInv, NEW t \in Clients, NEW d \in Contexts, Uses(t, d)
    PROVE  Free(d) /\ heap[d] # "unused"
<1>1. Pointers(d)
  BY DEF SInv
<1>2. QED
  BY <1>1 DEF SInv, EndIsKnown, Pointers, Free

\* A step of the client that goes on with d, or with no context.
LEMMA CallKeeps ==
    ASSUME Inv, SInv, OneClient, NEW t \in Clients,
           UNCHANGED <<mState, mAppInstanceId, gRequests, worker>>,
           NEW d, client'[t].ctx = d, d = Null \/ (Free(d) /\ heap'[d] # "unused"),
           \A c \in Contexts : heap'[c] \in {"found", "deleted"} => heap'[c] = heap[c],
           \A c \in Contexts : c # d => /\ heap'[c] = heap[c]
                                        /\ c \in Loaded' => c \in Loaded
                                        /\ mTargetLifecycleState'[c] = mTargetLifecycleState[c],
           CallOK(t)'
    PROVE  SInv'
<1>1. \A u \in Clients : u = t
  BY DEF OneClient
<1>2. PathEnds' /\ EndIsLast'
  BY DEF SInv, PathEnds, EndIsLast
<1>3. \A u \in Clients : CallOK(u)'
  <2>1. ASSUME NEW u \in Clients
        PROVE  CallOK(u)'
    <3>1. u = t
      BY <1>1
    <3>2. QED
      BY <3>1
  <2>2. QED
    BY <2>1
<1>4. ASSUME NEW u \in Clients, NEW c \in Contexts, c # d
      PROVE  ~Uses(u, c)'
  BY <1>1, <1>4 DEF Uses
<1>5. EndIsKnown'
  <2>1. ASSUME NEW k \in DOMAIN gRequests, gRequests[k].target = "TERMINATING"
        PROVE  /\ mTargetLifecycleState'[gRequests[k].ctx] = "TERMINATING"
               /\ \A u \in Clients : ~Uses(u, gRequests[k].ctx)'
    <3>1. PICK c : c = gRequests[k].ctx
      OBVIOUS
    <3>2. gRequests[k] \in Requests
      BY LenProperties, ElementOfSeq DEF Inv, TypeOK, RequestsOK
    <3>3. c \in Contexts /\ c # d
      BY <2>1, <3>1, <3>2, ConstantsAssumption DEF Free, Requests
    <3>4. mTargetLifecycleState'[c] = "TERMINATING"
      BY <2>1, <3>1, <3>3 DEF SInv, EndIsKnown
    <3>5. \A u \in Clients : ~Uses(u, c)'
      BY <1>4, <3>3
    <3>6. QED
      BY <3>1, <3>4, <3>5 DEF Uses
  <2>2. QED
    BY <2>1 DEF EndIsKnown, Uses
<1>6. ASSUME NEW c \in Contexts
      PROVE  Pointers(c)'
  <2>1. Pointers(c) /\ (Asked(c)' <=> Asked(c))
    BY DEF SInv, Asked
  <2>2. CASE c = d
    BY <2>1, <2>2, ConstantsAssumption DEF Pointers, Free
  <2>3. CASE c # d
    <3>1. \A u \in Clients : ~Uses(u, c)'
      BY <1>4, <2>3
    <3>2. /\ heap'[c] = heap[c] /\ (c \in Loaded' => c \in Loaded)
          /\ mTargetLifecycleState'[c] = mTargetLifecycleState[c]
      BY <2>3
    <3>3. QED
      BY <2>1, <3>1, <3>2 DEF Pointers
  <2>4. QED
    BY <2>2, <2>3
<1>7. QED
  BY <1>2, <1>3, <1>5, <1>6 DEF SInv

LEMMA SpawnKeeps ==
    ASSUME Inv, SInv, OrderlyUse, NEW t \in Clients, NEW a, NEW s \in Targets, SpawnApp(t, a, s)
    PROVE  SInv'
<1> DEFINE d == getContextOfApp(a)
<1>1. d = Null \/ (Free(d) /\ heap[d] # "unused")
  BY LookupType, LookupIsFree DEF SpawnApp, OrderlyUse, Inv, TypeOK
<1>2. /\ client'[t] = [pc |-> "spawn", ctx |-> d, target |-> s, app |-> a, then |-> "return"]
      /\ UNCHANGED <<heap, mLoadedApplications, mTargetLifecycleState, mState, mAppInstanceId,
                     gRequests, worker>>
  BY DEF SpawnApp, SpawnLookup, unchangedByCall, Inv, TypeOK, ClientsOK
<1>3. CallOK(t)'
  BY <1>2 DEF CallOK, OrderlyUse
<1> HIDE DEF d
<1>4. PICK e : e = d
  OBVIOUS
<1>5. QED
  BY <1>1, <1>2, <1>3, <1>4, CallKeeps DEF OrderlyUse, Loaded

LEMMA PrepareKeeps ==
    ASSUME Inv, SInv, OrderlyUse, NEW t \in Clients, SpawnPrepare(t)
    PROVE  SInv'
<1>1. /\ heap \in [Contexts -> {"unused", "live", "found", "deleted"}]
      /\ mLoadedApplications \in Seq(Contexts)
      /\ mTargetLifecycleState \in [Contexts -> LifecycleStates]
      /\ client[t] \in [pc : {"idle", "spawn", "add", "waitLoading", "relaunch"},
                        ctx : Contexts \cup {Null}, target : LifecycleStates,
                        app : Apps \cup {Null}, then : {"return", "waitLoading", "relaunch"}]
      /\ client \in [Clients -> [pc : {"idle", "spawn", "add", "waitLoading", "relaunch"},
                        ctx : Contexts \cup {Null}, target : LifecycleStates,
                        app : Apps \cup {Null}, then : {"return", "waitLoading", "relaunch"}]]
  BY DEF Inv, TypeOK, ContextsOK, ClientsOK
<1>2. /\ client[t].pc = "spawn" /\ client[t].target # "TERMINATING" /\ client[t].then # "relaunch"
      /\ UNCHANGED <<mState, mAppInstanceId, gRequests, worker>>
  BY DEF SpawnPrepare, SInv, CallOK, unchangedByCall
<1>3. ASSUME NEW c \in Contexts, heap[c] = "unused",
             heap' = [heap EXCEPT ![c] = "live"],
             mLoadedApplications' = Append(mLoadedApplications, c),
             mTargetLifecycleState' = [mTargetLifecycleState EXCEPT ![c] = client[t].target],
             client' = [client EXCEPT ![t].pc = "add", ![t].ctx = c, ![t].then = "waitLoading"]
      PROVE  SInv'
  <2>1. Free(c)
    BY <1>3 DEF SInv, Pointers, Free, Asked
  <2>2. /\ client'[t].pc = "add" /\ client'[t].ctx = c /\ client'[t].then = "waitLoading"
        /\ client'[t].target = client[t].target
        /\ mTargetLifecycleState'[c] = client[t].target /\ heap'[c] = "live"
    BY <1>1, <1>3
  <2>3. CallOK(t)'
    BY <1>2, <2>2 DEF CallOK
  <2>4. \A x \in Contexts : x # c => /\ heap'[x] = heap[x]
                                     /\ x \in Loaded' => x \in Loaded
                                     /\ mTargetLifecycleState'[x] = mTargetLifecycleState[x]
    BY <1>1, <1>3, AppendedPlace DEF Loaded
  <2>5. QED
    BY <1>1, <1>2, <1>3, <2>1, <2>2, <2>3, <2>4, CallKeeps DEF OrderlyUse
<1>4. ASSUME client[t].ctx # Null,
             mTargetLifecycleState' = [mTargetLifecycleState EXCEPT ![client[t].ctx] = client[t].target],
             client' = [client EXCEPT ![t].pc = "add"],
             UNCHANGED <<heap, mLoadedApplications>>
      PROVE  SInv'
  <2>1. PICK d \in Contexts : d = client[t].ctx
    BY <1>1, <1>4
  <2>2. Free(d) /\ heap[d] # "unused"
    BY <1>2, <2>1, UsedIsFree DEF Uses
  <2>3. /\ client'[t].pc = "add" /\ client'[t].ctx = d /\ client'[t].then = client[t].then
        /\ client'[t].target = client[t].target
        /\ mTargetLifecycleState'[d] = client[t].target
    BY <1>1, <1>4, <2>1
  <2>4. CallOK(t)'
    BY <1>2, <2>3 DEF CallOK
  <2>5. QED
    BY <1>1, <1>2, <1>4, <2>1, <2>2, <2>3, <2>4, CallKeeps DEF OrderlyUse, Loaded
<1>5. QED
  BY <1>3, <1>4 DEF SpawnPrepare

LEMMA InstanceCallKeeps ==
    ASSUME Inv, SInv, OrderlyUse, NEW t \in Clients, NEW op, NEW i, NEW s \in LifecycleStates,
           CallOnInstance(t, op, i, s)
    PROVE  SInv'
<1>1. PICK d : d = getContext(i)
  OBVIOUS
<1>2. d \in Loaded /\ d \in Contexts /\ Free(d) /\ heap[d] # "unused"
  BY <1>1, LookupType, LookupIsFree DEF CallOnInstance, OrderlyUse, Inv, TypeOK
<1>3. /\ mTargetLifecycleState \in [Contexts -> LifecycleStates]
      /\ mTargetLifecycleState' = [mTargetLifecycleState EXCEPT ![d] = s]
      /\ UNCHANGED <<heap, mLoadedApplications, mState, mAppInstanceId, gRequests, worker>>
      /\ client'[t] = [pc |-> "add", ctx |-> d, target |-> s, app |-> mAppId[d], then |-> "return"]
  BY <1>1 DEF CallOnInstance, Begin, OrderlyUse, unchangedByCall, Inv, TypeOK, ContextsOK, ClientsOK
<1>4. CallOK(t)'
  BY <1>2, <1>3 DEF CallOK
<1>5. QED
  BY <1>2, <1>3, <1>4, CallKeeps DEF OrderlyUse, Loaded

\* The request is added behind the others; UnloadApp and KillApp then return.
LEMMA AddKeeps ==
    ASSUME Inv, SInv, OrderlyUse, NEW t \in Clients, AddRequest(t)
    PROVE  SInv'
<1> DEFINE d == client[t].ctx
           g == client[t].target
           r == [ctx |-> d, target |-> g]
<1>1. /\ gRequests \in Seq(Requests) /\ gRequests' = Append(gRequests, r)
      /\ UNCHANGED <<heap, mLoadedApplications, mTargetLifecycleState, mState, mAppInstanceId, worker>>
      /\ client[t].pc = "add" /\ worker.pc \notin InStep
      /\ client \in [Clients -> [pc : {"idle", "spawn", "add", "waitLoading", "relaunch"},
                        ctx : Contexts \cup {Null}, target : LifecycleStates,
                        app : Apps \cup {Null}, then : {"return", "waitLoading", "relaunch"}]]
  BY DEF AddRequest, MutexFree, contextVars, Inv, TypeOK, RequestsOK, ClientsOK
<1>2. /\ client[t].then \in {"return", "waitLoading", "relaunch"}
      /\ g \in LifecycleStates
  BY <1>1
<1>3. /\ d \in Contexts /\ r \in Requests /\ Uses(t, d)
      /\ mTargetLifecycleState[d] = g /\ client[t].then # "relaunch"
      /\ g = "TERMINATING" => client[t].then = "return"
  BY <1>1, <1>2 DEF SInv, CallOK, Inv, TypeOK, ClientsOK, Requests, Uses
<1>4. Free(d) /\ heap[d] # "unused"
  BY <1>3, UsedIsFree
<1>5. /\ \A u \in Clients : u = t
      /\ client[t].then = "return" => client'[t] = Idle
      /\ client[t].then = "waitLoading" => client'[t] = [client[t] EXCEPT !.pc = "waitLoading"]
  BY <1>1, <1>3 DEF AddRequest, OrderlyUse, OneClient
<1>6. \A u \in Clients : \A c : Uses(u, c)' => Uses(u, c) /\ client[t].then = "waitLoading"
  BY <1>1, <1>2, <1>3, <1>5 DEF Uses, Idle
<1>7. PathEnds'
  BY <1>1 DEF PathEnds
<1>8. ASSUME NEW k \in DOMAIN gRequests'
      PROVE  \/ k \in DOMAIN gRequests /\ gRequests'[k] = gRequests[k]
             \/ k = Len(gRequests) + 1 /\ k \notin DOMAIN gRequests /\ gRequests'[k] = r
                   /\ \A i \in DOMAIN gRequests : i < k
  BY <1>1, <1>3, <1>8, AppendedPlace
<1> HIDE DEF r
<1>9. r.ctx = d /\ r.target = g
  BY DEF r
<1>10. EndIsLast'
  <2>1. ASSUME NEW k \in DOMAIN gRequests', NEW m \in DOMAIN gRequests', k < m,
               gRequests'[k].ctx = gRequests'[m].ctx
        PROVE  gRequests'[k].target # "TERMINATING"
    <3>1. DOMAIN gRequests = 1..Len(gRequests) /\ Len(gRequests) \in Nat
      BY <1>1, LenProperties
    <3>2. k \in DOMAIN gRequests /\ gRequests'[k] = gRequests[k]
      <4>1. k \in Nat /\ m \in Nat
        BY <1>8, <3>1
      <4>2. m \in 1..Len(gRequests) \/ m = Len(gRequests) + 1
        BY <1>8, <3>1
      <4>3. k # Len(gRequests) + 1
        BY <2>1, <3>1, <4>1, <4>2
      <4>4. QED
        BY <1>8, <4>3
    <3>3. CASE m \in DOMAIN gRequests /\ gRequests'[m] = gRequests[m]
      BY <2>1, <3>2, <3>3 DEF SInv, EndIsLast
    <3>4. CASE gRequests'[m] = r
      BY <1>4, <1>9, <2>1, <3>2, <3>4 DEF Free
    <3>5. QED
      BY <1>8, <3>3, <3>4
  <2>2. QED
    BY <2>1 DEF EndIsLast
<1>11. EndIsKnown'
  <2>1. ASSUME NEW k \in DOMAIN gRequests', gRequests'[k].target = "TERMINATING"
        PROVE  /\ mTargetLifecycleState'[gRequests'[k].ctx] = "TERMINATING"
               /\ \A u \in Clients : ~Uses(u, gRequests[k].ctx)'
    <3>1. CASE k \in DOMAIN gRequests /\ gRequests'[k] = gRequests[k]
      <4>1. /\ mTargetLifecycleState[gRequests[k].ctx] = "TERMINATING"
            /\ \A u \in Clients : ~Uses(u, gRequests[k].ctx)
        BY <2>1, <3>1 DEF SInv, EndIsKnown
      <4>2. QED
        BY <1>1, <1>6, <3>1, <4>1 DEF Uses
    <3>2. CASE gRequests'[k] = r
      <4>1. g = "TERMINATING" /\ client[t].then = "return"
        BY <1>3, <1>9, <2>1, <3>2
      <4>2. \A u \in Clients : \A c : ~Uses(u, c)'
        BY <1>6, <4>1
      <4>3. QED
        BY <1>1, <1>3, <1>9, <3>2, <4>1, <4>2 DEF Uses
    <3>3. QED
      BY <1>8, <3>1, <3>2
  <2>2. QED
    BY <2>1 DEF EndIsKnown, Uses
<1>12. ASSUME NEW u \in Clients
       PROVE  CallOK(u)'
  <2>1. u = t /\ CallOK(t)
    BY <1>5 DEF SInv
  <2>2. CASE client[t].then = "return"
    BY <1>5, <2>1, <2>2 DEF CallOK, Idle
  <2>3. CASE client[t].then = "waitLoading"
    <3>1. /\ client'[t].pc = "waitLoading" /\ client'[t].then = "waitLoading" /\ client'[t].target = g
      BY <1>1, <1>5, <2>3
    <3>2. QED
      BY <1>3, <2>1, <2>3, <3>1 DEF CallOK
  <2>4. QED
    BY <1>2, <1>3, <2>2, <2>3
<1>13. ASSUME NEW c \in Contexts
       PROVE  Pointers(c)'
  <2>1. Pointers(c) /\ (\A u \in Clients : Uses(u, c)' => Uses(u, c))
    BY <1>6 DEF SInv
  <2>2. Asked(c)' => Asked(c) \/ c = d
    BY <1>8, <1>9 DEF Asked
  <2>3. QED
    BY <1>1, <1>4, <2>1, <2>2 DEF Pointers, Free, Loaded
<1>14. QED
  BY <1>7, <1>10, <1>11, <1>12, <1>13 DEF SInv

LEMMA ClientKeepsOrder ==
    ASSUME Inv, SInv, OrderlyUse, NEW t \in Clients, ClientNext(t)
    PROVE  SInv'
<1>1. CASE SpawnReturn(t)
  <2>1. /\ client'[t] = Idle
        /\ UNCHANGED <<heap, mLoadedApplications, mTargetLifecycleState, mState, mAppInstanceId,
                       gRequests, worker>>
    BY <1>1 DEF SpawnReturn, unchangedByCall, Inv, TypeOK, ClientsOK
  <2>2. CallOK(t)' /\ client'[t].ctx = Null
    BY <2>1 DEF CallOK, Idle
  <2>3. QED
    BY <2>1, <2>2, CallKeeps DEF OrderlyUse, Loaded
<1>2. CASE CloseAppSpawns(t)
  BY <1>2 DEF CloseAppSpawns, SInv, CallOK
<1>3. ASSUME NEW i \in Instances, NEW s \in Targets, SetTargetAppState(t, i, s)
      PROVE  SInv'
  BY <1>3, InstanceCallKeeps, ConstantsAssumption DEF SetTargetAppState
<1>4. ASSUME NEW i \in Instances, UnloadApp(t, i) \/ KillApp(t, i)
      PROVE  SInv'
  BY <1>4, InstanceCallKeeps DEF UnloadApp, KillApp, LifecycleStates
<1>5. ASSUME NEW a \in Apps, CloseApp(t, a)
      PROVE  SInv'
  BY <1>5, InstanceCallKeeps DEF CloseApp, LifecycleStates
<1>6. QED
  BY <1>1, <1>2, <1>3, <1>4, <1>5, SpawnKeeps, PrepareKeeps, AddKeeps DEF ClientNext

-----------------------------------------------------------------------------
(* Jobs, the environment and the theorem. *)

\* A step of handleStateChangeEvent: a context is found when it is unloaded,
\* deleted when it was found, and the list loses it.
LEMMA EndKeepsOrder ==
    ASSUME Inv, SInv,
           UNCHANGED <<mAppInstanceId, mState, mTargetLifecycleState, gRequests, worker, client>>,
           Loaded' \subseteq Loaded,
           \A c \in Contexts :
               heap'[c] # heap[c] => /\ heap'[c] \in {"found", "deleted"}
                                     /\ mState[c] = "UNLOADED" /\ mAppInstanceId[c] # 0
    PROVE  SInv'
<1>1. PathEnds' /\ EndIsLast' /\ EndIsKnown' /\ \A t \in Clients : CallOK(t)'
  BY DEF SInv, PathEnds, EndIsLast, EndIsKnown, CallOK, Uses
<1>2. ASSUME NEW c \in Contexts
      PROVE  Pointers(c)'
  <2>1. Pointers(c) /\ (Asked(c)' <=> Asked(c)) /\ \A t \in Clients : Uses(t, c)' <=> Uses(t, c)
    BY DEF SInv, Asked, Uses
  <2>2. QED
    BY <2>1 DEF Pointers
<1>3. QED
  BY <1>1, <1>2 DEF SInv

LEMMA DispatchKeepsOrder ==
    ASSUME Inv, DInv, SInv, NEW k, Dispatch(k)
    PROVE  SInv'
<1>1. /\ UNCHANGED <<mAppInstanceId, mState, mTargetLifecycleState, gRequests, worker, client>>
      /\ UNCHANGED mLoadedApplications
      /\ heap \in [Contexts -> {"unused", "live", "found", "deleted"}]
  BY DEF Dispatch, requestVars, Inv, TypeOK, ContextsOK
<1>2. ASSUME NEW c \in Contexts, heap'[c] # heap[c]
      PROVE  heap'[c] \in {"found", "deleted"} /\ mState[c] = "UNLOADED" /\ mAppInstanceId[c] # 0
  <2>1. PICK i : i = jobs[k].inst
    OBVIOUS
  <2>2. PICK d : d = getContext(i)
    OBVIOUS
  <2>3. /\ k \in DOMAIN jobs /\ jobs[k].kind = "STATE" /\ Ends(jobs[k]) /\ d # Null
        /\ heap' = [heap EXCEPT ![d] = "found"]
    BY <1>2, <2>1, <2>2 DEF Dispatch, HandleStateChange, HandleSignal
  <2>4. c = d /\ heap'[d] = "found"
    BY <1>1, <1>2, <2>3
  <2>5. i # 0 /\ mAppInstanceId[d] = i
    BY <2>2, <2>3, LookupType DEF Inv, TypeOK
  <2>6. mState[d] = "UNLOADED"
    BY <1>2, <2>1, <2>3, <2>4, <2>5 DEF DInv, Harmless
  <2>7. QED
    BY <2>4, <2>5, <2>6
<1>3. QED
  BY <1>1, <1>2, EndKeepsOrder DEF Loaded

\* What is left of the list.
LEMMA FewerLoaded ==
    ASSUME Inv, NEW c, EraseContext(c)
    PROVE  Loaded' \subseteq Loaded
<1>1. mLoadedApplications \in Seq(Contexts)
  BY DEF Inv, TypeOK, ContextsOK
<1>2. PICK n \in DOMAIN mLoadedApplications : mLoadedApplications' = Without(mLoadedApplications, n)
  BY DEF EraseContext
<1>3. \A j \in DOMAIN mLoadedApplications' :
          \E m \in DOMAIN mLoadedApplications : mLoadedApplications'[j] = mLoadedApplications[m]
  BY <1>1, <1>2, RemainingJob
<1>4. QED
  BY <1>3 DEF Loaded

LEMMA DeleteKeepsOrder ==
    ASSUME Inv, SInv, NEW c \in Contexts, DeleteContext(c) \/ EraseContext(c)
    PROVE  SInv'
<1>1. UNCHANGED <<mAppInstanceId, mState, mTargetLifecycleState, gRequests, worker, client>>
  BY DEF DeleteContext, EraseContext, unchangedByDelete, requestVars
<1>2. Loaded' \subseteq Loaded
  BY FewerLoaded DEF DeleteContext, Loaded
<1>3. ASSUME NEW d \in Contexts, heap'[d] # heap[d]
      PROVE  heap'[d] \in {"found", "deleted"} /\ mState[d] = "UNLOADED" /\ mAppInstanceId[d] # 0
  <2>1. heap \in [Contexts -> {"unused", "live", "found", "deleted"}]
    BY DEF Inv, TypeOK, ContextsOK
  <2>2. d = c /\ heap[c] = "found" /\ heap'[c] = "deleted"
    BY <1>3, <2>1 DEF DeleteContext, EraseContext
  <2>3. QED
    BY <2>2 DEF SInv, Pointers
<1>4. QED
  BY <1>1, <1>2, <1>3, EndKeepsOrder

LEMMA InitSInv == Init => SInv
BY DEF Init, SInv, PathEnds, EndIsLast, EndIsKnown, CallOK, Pointers, Asked, Uses, Loaded, Idle,
       InStep, Waits

LEMMA NextSInv == OrderlyUse /\ Inv /\ DInv /\ SInv /\ [Next]_vars => SInv'
<1> SUFFICES ASSUME OrderlyUse, Inv, DInv, SInv, [Next]_vars PROVE SInv'
  OBVIOUS
<1>1. ASSUME UNCHANGED <<heap, mLoadedApplications, mAppInstanceId, mState, mTargetLifecycleState,
                         client, gRequests>>,
             worker' = worker \/ worker'.pc \notin InStep
      PROVE  SInv'
  <2>1. PathEnds'
    BY <1>1 DEF SInv, PathEnds
  <2>2. QED
    BY <1>1, <2>1, WaitKeeps
<1>2. CASE Terminate \/ Crash \/ UNCHANGED vars
  BY <1>1, <1>2 DEF Terminate, Crash, vars, contextVars, requestVars, InStep, Waits
<1>3. ASSUME NEW i \in Instances,
             ContainerRuns(i) \/ ContainerStops(i) \/ ContainerCrashes(i) \/ FirstFrame(i)
      PROVE  SInv'
  BY <1>1, <1>3 DEF ContainerRuns, ContainerStops, ContainerCrashes, FirstFrame, ContainerGoes,
                    contextVars, requestVars
<1>4. QED
  BY <1>2, <1>3, WorkerKeepsOrder, ClientKeepsOrder, DispatchKeepsOrder, DeleteKeepsOrder DEF Next, Rest

LEMMA Ordered == OrderlyUse => (Spec => []SInv)
<1> SUFFICES ASSUME OrderlyUse PROVE Spec => []SInv
  OBVIOUS
<1>1. Inv /\ DInv /\ SInv /\ [Next]_vars => SInv'
  BY NextSInv
<1>2. Spec => []DInv
  BY Invariant, InitDInv, NextDInv, PTL DEF Spec
<1>3. QED
  BY <1>1, <1>2, Invariant, InitSInv, PTL DEF Spec

\* The process has crashed in a walk over the list.
CrashedOnWalk == worker.pc = "crashed" => \E c \in Loaded : Deleted(c)

LEMMA NothingHeld ==
    ASSUME Inv, SInv
    PROVE  ~HoldsDeleted
<1>1. \A t \in Clients : client[t].pc # "idle" => ~Deleted(client[t].ctx)
  BY DEF SInv, Pointers, Deleted, Uses
<1>2. gRequests # <<>> => ~Deleted(Cur)
  BY CurIsLive DEF Deleted
<1>3. QED
  BY <1>1, <1>2 DEF HoldsDeleted

LEMMA WorkerGoesOn ==
    ASSUME Inv, Running, WorkerNext
    PROVE  worker'.pc # "crashed"
<1>1. worker \in [pc : {"scan", "asleep", "exited", "crashed"} \cup InStep, path : Seq(LifecycleStates)]
  BY DEF Inv, TypeOK, RequestsOK
<1>2. ASSUME NEW s, Enter(s)
      PROVE  worker'.pc \in {"scan", "step"}
  BY <1>2 DEF Enter
<1>3. ASSUME GiveUp \/ \E pc \in Waits : Block(pc)
      PROVE  worker'.pc \in {"asleep"} \cup Waits
  BY <1>1, <1>3 DEF GiveUp, Block
<1>4. CASE TakeRequest \/ QueueEmpty \/ WakeUp
  BY <1>1, <1>4 DEF TakeRequest, QueueEmpty, WakeUp, Running
<1>5. CASE ~(TakeRequest \/ QueueEmpty \/ WakeUp)
  <2>1. (\E s : Enter(s)) \/ GiveUp \/ \E pc \in Waits : Block(pc)
    BY <1>5 DEF WorkerNext, EnterLoading, StartInitializing, EnterInitializing, EnterPaused,
           EnterActive, NotRendered, EnterByRuntime, StartTerminating, EnterTerminating,
           EnterUnloaded, Waits
  <2>2. QED
    BY <1>2, <1>3, <2>1 DEF Waits
<1>6. QED
  BY <1>4, <1>5

LEMMA NextWalk == Inv /\ SInv /\ CrashedOnWalk /\ [Next]_vars => CrashedOnWalk'
<1> SUFFICES ASSUME Inv, SInv, CrashedOnWalk, [Next]_vars, worker'.pc = "crashed"
             PROVE  (\E c \in Loaded : Deleted(c))'
  BY DEF CrashedOnWalk
<1>1. CASE UNCHANGED vars
  BY <1>1 DEF CrashedOnWalk, vars, contextVars, Loaded, Deleted
<1>2. CASE Crash
  BY <1>2, NothingHeld DEF Crash, WalksOverDeleted, contextVars, Loaded, Deleted
<1>3. ASSUME Running, UNCHANGED worker
      PROVE  FALSE
  BY <1>3 DEF Running
<1>4. ASSUME Running, NEW t \in Clients, ClientNext(t)
      PROVE  FALSE
  BY <1>3, <1>4 DEF ClientNext, SpawnApp, SpawnPrepare, AddRequest, SpawnReturn, CloseAppSpawns,
         CloseApp, SetTargetAppState, UnloadApp, KillApp, CallOnInstance, unchangedByCall
<1>5. ASSUME Running, NEW i \in Instances,
             ContainerRuns(i) \/ ContainerStops(i) \/ ContainerCrashes(i) \/ FirstFrame(i)
      PROVE  FALSE
  BY <1>3, <1>5 DEF ContainerRuns, ContainerStops, ContainerCrashes, FirstFrame, ContainerGoes
<1>6. ASSUME Running, NEW k, Dispatch(k)
      PROVE  FALSE
  BY <1>3, <1>6 DEF Dispatch
<1>7. ASSUME Running, NEW c \in Contexts, DeleteContext(c) \/ EraseContext(c)
      PROVE  FALSE
  BY <1>3, <1>7 DEF DeleteContext, EraseContext, unchangedByDelete
<1>8. ~(Running /\ Terminate)
  BY <1>3 DEF Terminate
<1>9. QED
  BY <1>1, <1>2, <1>4, <1>5, <1>6, <1>7, <1>8, WorkerGoesOn DEF Next, Rest

\* When one thread makes the calls and leaves an application alone once it
\* asked to unload it, a context that handleStateChangeEvent has found is not
\* launched anew before it is deleted, and neither a request nor a call keeps
\* a pointer to it: the request to terminate was the last one for the context.
\* The process can crash only in a walk over the list, between the deletion of
\* a context and its erasure.
THEOREM DeletedNeverHeld == OrderlyUse => (Spec => []OnlyWalksMeetDeleted)
<1> SUFFICES ASSUME OrderlyUse PROVE Spec => []OnlyWalksMeetDeleted
  OBVIOUS
<1>1. Inv /\ SInv /\ CrashedOnWalk => OnlyWalksMeetDeleted
  BY NothingHeld DEF OnlyWalksMeetDeleted, CrashedOnWalk, SInv, Pointers
<1>2. Init => CrashedOnWalk
  BY DEF Init, CrashedOnWalk
<1>3. QED
  BY <1>1, <1>2, NextWalk, Ordered, Invariant, PTL DEF Spec

-----------------------------------------------------------------------------
(* One context per application. *)

LEMMA NoneOfApp ==
    ASSUME ContextsOK, NEW a, getContextOfApp(a) = Null
    PROVE  \A c \in Loaded : mAppId[c] # a
<1> DEFINE P == {k \in DOMAIN mLoadedApplications : mAppId[mLoadedApplications[k]] = a}
<1>1. mLoadedApplications \in Seq(Contexts)
  BY DEF ContextsOK
<1>2. ASSUME P # {}
      PROVE  FALSE
  <2>1. PICK k \in P : FirstOf(P) = mLoadedApplications[k]
    BY <1>1, <1>2, FirstOfLoaded
  <2>2. mLoadedApplications[k] \in Contexts
    BY <1>1, LenProperties, ElementOfSeq
  <2>3. QED
    BY <2>1, <2>2, ConstantsAssumption DEF getContextOfApp
<1>3. QED
  BY <1>2 DEF Loaded

OneInv == NoneYet /\ OneContextPerApp

\* No context is added, none changes its application and no call begins.
LEMMA FewerKeep ==
    ASSUME OneInv, UNCHANGED mAppId, Loaded' \subseteq Loaded,
           \A t \in Clients : client'[t].pc = "spawn" => client'[t] = client[t]
    PROVE  OneInv'
BY DEF OneInv, NoneYet, OneContextPerApp

LEMMA LookupsKeep ==
    ASSUME Inv, OneInv, OneClient, NEW t \in Clients, NEW a, NEW s, SpawnLookup(t, a, s),
           UNCHANGED <<mAppId, mLoadedApplications>>
    PROVE  OneInv'
<1>1. client'[t] = [pc |-> "spawn", ctx |-> getContextOfApp(a), target |-> s, app |-> a, then |-> "return"]
  BY DEF SpawnLookup, Inv, TypeOK, ClientsOK
<1>2. \A u \in Clients : u = t
  BY DEF OneClient
<1>3. OneContextPerApp'
  BY DEF OneInv, OneContextPerApp, Loaded
<1>4. getContextOfApp(a) = Null => \A c \in Loaded : mAppId[c] # a
  BY NoneOfApp DEF Inv, TypeOK
<1>5. NoneYet'
  BY <1>1, <1>2, <1>4 DEF NoneYet, Loaded
<1>6. QED
  BY <1>3, <1>5 DEF OneInv

\* The context is made for the application that had none, and still has none.
LEMMA MakingKeeps ==
    ASSUME Inv, OneInv, OneClient, NEW t \in Clients, SpawnPrepare(t)
    PROVE  OneInv'
<1>1. /\ client \in [Clients -> [pc : {"idle", "spawn", "add", "waitLoading", "relaunch"},
                        ctx : Contexts \cup {Null}, target : LifecycleStates,
                        app : Apps \cup {Null}, then : {"return", "waitLoading", "relaunch"}]]
      /\ mAppId \in [Contexts -> Apps \cup {Null}]
      /\ mLoadedApplications \in Seq(Contexts) /\ Loaded \subseteq Contexts
      /\ \A u \in Clients : u = t
  BY LookupType DEF Inv, TypeOK, ClientsOK, ContextsOK, OneClient
<1>2. /\ client'[t].pc = "add"
      /\ \/ client[t].ctx = Null
            /\ \E c \in Contexts : /\ mAppId' = [mAppId EXCEPT ![c] = client[t].app]
                                   /\ mLoadedApplications' = Append(mLoadedApplications, c)
         \/ UNCHANGED <<mAppId, mLoadedApplications>>
  <2>1. CASE client[t].ctx = Null
    <3>1. PICK c \in Contexts :
              /\ mAppId' = [mAppId EXCEPT ![c] = client[t].app]
              /\ mLoadedApplications' = Append(mLoadedApplications, c)
              /\ client' = [client EXCEPT ![t].pc = "add", ![t].ctx = c, ![t].then = "waitLoading"]
      BY <2>1 DEF SpawnPrepare
    <3>2. client'[t].pc = "add"
      BY <1>1, <3>1
    <3>3. QED
      BY <2>1, <3>1, <3>2
  <2>2. CASE client[t].ctx # Null
    BY <1>1, <2>2 DEF SpawnPrepare
  <2>3. QED
    BY <2>1, <2>2
<1>3. NoneYet'
  BY <1>1, <1>2 DEF NoneYet
<1>4. ASSUME NEW c \in Contexts, client[t].ctx = Null,
             mAppId' = [mAppId EXCEPT ![c] = client[t].app],
             mLoadedApplications' = Append(mLoadedApplications, c)
      PROVE  OneContextPerApp'
  <2>1. \A d \in Loaded : mAppId[d] # client[t].app
    BY <1>4 DEF OneInv, NoneYet, SpawnPrepare
  <2>2. Loaded' \subseteq Loaded \cup {c}
    <3>1. \A j \in DOMAIN mLoadedApplications' :
              \/ j \in DOMAIN mLoadedApplications /\ mLoadedApplications'[j] = mLoadedApplications[j]
              \/ mLoadedApplications'[j] = c
      BY <1>1, <1>4, AppendedPlace
    <3>2. QED
      BY <3>1 DEF Loaded
  <2>3. mAppId'[c] = client[t].app /\ \A d \in Contexts : d # c => mAppId'[d] = mAppId[d]
    BY <1>1, <1>4
  <2>4. QED
    BY <1>1, <2>1, <2>2, <2>3 DEF OneInv, OneContextPerApp
<1>5. ASSUME UNCHANGED <<mAppId, mLoadedApplications>>
      PROVE  OneContextPerApp'
  BY <1>5 DEF OneInv, OneContextPerApp, Loaded
<1>6. OneContextPerApp'
  BY <1>2, <1>4, <1>5
<1>7. QED
  BY <1>3, <1>6 DEF OneInv

LEMMA NextOneInv == OneClient /\ Inv /\ OneInv /\ [Next]_vars => OneInv'
<1> SUFFICES ASSUME OneClient, Inv, OneInv, [Next]_vars PROVE OneInv'
  OBVIOUS
<1>1. client \in [Clients -> [pc : {"idle", "spawn", "add", "waitLoading", "relaunch"},
                        ctx : Contexts \cup {Null}, target : LifecycleStates,
                        app : Apps \cup {Null}, then : {"return", "waitLoading", "relaunch"}]]
  BY DEF Inv, TypeOK, ClientsOK
<1>2. ASSUME UNCHANGED <<mAppId, mLoadedApplications, client>>
      PROVE  OneInv'
  BY <1>2 DEF OneInv, NoneYet, OneContextPerApp, Loaded
<1>3. CASE WorkerNext
  <2>1. UNCHANGED <<mAppId, mLoadedApplications, client>>
    BY <1>3 DEF WorkerNext, TakeRequest, QueueEmpty, WakeUp, EnterLoading, StartInitializing,
           EnterInitializing, EnterPaused, EnterActive, NotRendered, EnterByRuntime,
           StartTerminating, EnterTerminating, EnterUnloaded, unchangedByStep, contextVars
  <2>2. QED
    BY <1>2, <2>1
<1>4. ASSUME NEW t \in Clients, ClientNext(t)
      PROVE  OneInv'
  <2>1. ASSUME NEW a, NEW s, SpawnApp(t, a, s)
        PROVE  OneInv'
    BY <2>1, LookupsKeep DEF SpawnApp
  <2>2. CASE CloseAppSpawns(t)
    BY <2>2, LookupsKeep DEF CloseAppSpawns
  <2>3. ASSUME NEW op, NEW i, NEW s, CallOnInstance(t, op, i, s)
        PROVE  OneInv'
    <3>1. UNCHANGED <<mAppId, mLoadedApplications>>
      BY <2>3 DEF CallOnInstance
    <3>2. client'[t].pc = "add" /\ \A u \in Clients : u # t => client'[u] = client[u]
      BY <1>1, <2>3 DEF CallOnInstance
    <3>3. QED
      BY <3>1, <3>2, FewerKeep DEF Loaded
  <2>4. CASE AddRequest(t)
    <3>1. client[t].then \in {"return", "waitLoading", "relaunch"}
      BY <1>1
    <3>2. \A u \in Clients : client'[u].pc = "spawn" => client'[u] = client[u]
      BY <1>1, <2>4, <3>1 DEF AddRequest, Idle
    <3>3. QED
      BY <2>4, <3>2, FewerKeep DEF AddRequest, contextVars, Loaded
  <2>5. CASE SpawnReturn(t)
    <3>1. UNCHANGED <<mAppId, mLoadedApplications>>
      BY <2>5 DEF SpawnReturn
    <3>2. client'[t].pc = "idle" /\ \A u \in Clients : u # t => client'[u] = client[u]
      BY <1>1, <2>5 DEF SpawnReturn, Idle
    <3>3. QED
      BY <3>1, <3>2, FewerKeep DEF Loaded
  <2>6. QED
    BY <1>4, <2>1, <2>2, <2>3, <2>4, <2>5, MakingKeeps
       DEF ClientNext, SetTargetAppState, UnloadApp, KillApp, CloseApp
<1>5. ASSUME NEW k, Dispatch(k)
      PROVE  OneInv'
  <2>1. UNCHANGED <<mAppId, client>>
    BY <1>5 DEF Dispatch
  <2>2. Loaded' = Loaded
    BY <1>5 DEF Dispatch, Loaded
  <2>3. QED
    BY <2>1, <2>2, FewerKeep
<1>6. ASSUME NEW i \in Instances,
             ContainerRuns(i) \/ ContainerStops(i) \/ ContainerCrashes(i) \/ FirstFrame(i)
      PROVE  OneInv'
  BY <1>2, <1>6 DEF ContainerRuns, ContainerStops, ContainerCrashes, FirstFrame, ContainerGoes, contextVars
<1>7. CASE Terminate \/ Crash \/ UNCHANGED vars
  BY <1>2, <1>7 DEF Terminate, Crash, vars, contextVars
<1>8. ASSUME NEW c \in Contexts, DeleteContext(c) \/ EraseContext(c)
      PROVE  OneInv'
  <2>1. UNCHANGED <<mAppId, client>>
    BY <1>8 DEF DeleteContext, EraseContext, unchangedByDelete
  <2>2. Loaded' \subseteq Loaded
    BY <1>8, FewerLoaded DEF DeleteContext, Loaded
  <2>3. QED
    BY <2>1, <2>2, FewerKeep
<1>9. QED
  BY <1>3, <1>4, <1>5, <1>6, <1>7, <1>8 DEF Next, Rest

\* As long as one thread makes the calls, SpawnApp never makes a second
\* context for an application, however late the events that delete one come
\* and whatever the client asks for in between.
THEOREM OneContextAlways == OneClient => (Spec => []OneContextPerApp)
<1> SUFFICES ASSUME OneClient PROVE Spec => []OneContextPerApp
  OBVIOUS
<1>1. Init => OneInv
  BY DEF Init, OneInv, NoneYet, OneContextPerApp, Loaded, Idle
<1>2. Inv /\ OneInv /\ [Next]_vars => OneInv'
  BY NextOneInv
<1>3. OneInv => OneContextPerApp
  BY DEF OneInv
<1>4. QED
  BY <1>1, <1>2, <1>3, Invariant, PTL DEF Spec

-----------------------------------------------------------------------------
(* The state of a context and its container.  When the calls of the        *)
(* RuntimeManager succeed, a context is launched once: a request for it    *)
(* after UNLOADED would have to come from a client that is not orderly.    *)

Ran(i) == container[i] \notin {"none", "starting"}

\* RUNNING is told of containers that run, onReady of instances that have
\* rendered a frame.
Right(e) ==
    /\ e.kind = "RUNNING" => e.inst \in Instances /\ Ran(e.inst)
    /\ e.kind = "READY" => e.inst \in window

\* What the state of a context says of its instance.
Matches(s, i) ==
    /\ container[i] \notin {"stopping", "killing", "stopped"} =>
           /\ s \in {"INITIALIZING", "PAUSED", "ACTIVE"} => container[i] \in {"running", "resumed"}
           /\ s = "SUSPENDED"  => container[i] = "paused"
           /\ s = "HIBERNATED" => container[i] = "frozen"
    /\ s = "LOADING" => container[i] \in {"none", "starting", "running", "stopped"}
    /\ s = "ACTIVE" => i \in window

\* The semaphores of a context count events of its own instance.
Fits(c) ==
    LET i == mAppInstanceId[c]
    IN  /\ sems[c].running > 0 => i # 0 /\ Ran(i)
        /\ sems[c].frame > 0 => i \in window
        /\ i # 0 => Matches(mState[c], i)

RInv ==
    /\ \A k \in DOMAIN jobs : Right(jobs[k])
    /\ \A c \in Contexts : Fits(c)

\* A container that has run is never back at its start, and frames stay.
NothingForgotten ==
    /\ \A i \in Instances : Ran(i) => Ran(i)'
    /\ window \subseteq window'

LEMMA RightStays ==
    ASSUME NEW e \in Events, Right(e), NothingForgotten
    PROVE  Right(e)'
BY DEF Right, NothingForgotten, Ran

LEMMA JobsStayRight ==
    ASSUME Inv, RInv, NothingForgotten,
           \/ jobs' = jobs
           \/ \E k \in DOMAIN jobs : jobs' = Without(jobs, k)
           \/ \E e \in Events : Submit(e) /\ Right(e)'
    PROVE  \A k \in DOMAIN jobs' : Right(jobs[k])'
<1>1. jobs \in Seq(Events)
  BY DEF Inv, TypeOK, EventsOK
<1>2. ASSUME NEW m \in DOMAIN jobs
      PROVE  Right(jobs[m]) /\ \A x : x = jobs[m] => Right(x)'
  BY <1>1, RightStays, LenProperties, ElementOfSeq DEF RInv
<1>3. CASE jobs' = jobs
  BY <1>2, <1>3 DEF Right
<1>4. ASSUME NEW k \in DOMAIN jobs, jobs' = Without(jobs, k)
      PROVE  \A j \in DOMAIN jobs' : Right(jobs[j])'
  <2>1. ASSUME NEW j \in DOMAIN jobs'
        PROVE  Right(jobs[j])'
    <3>1. PICK m \in DOMAIN jobs : jobs'[j] = jobs[m]
      BY <1>1, <1>4, RemainingJob
    <3>2. QED
      BY <1>2, <3>1 DEF Right
  <2>2. QED
    BY <2>1
<1>5. ASSUME NEW e \in Events, Submit(e), Right(e)'
      PROVE  \A j \in DOMAIN jobs' : Right(jobs[j])'
  <2>1. ASSUME NEW j \in DOMAIN jobs'
        PROVE  Right(jobs[j])'
    <3>1. jobs'[j] = e \/ \E m \in DOMAIN jobs : jobs'[j] = jobs[m]
      BY <1>1, <1>5, AppendedJob DEF Submit
    <3>2. QED
      BY <1>2, <1>5, <3>1 DEF Right
  <2>2. QED
    BY <2>1
<1>6. QED
  BY <1>3, <1>4, <1>5

\* A context of another instance, or one that a step leaves alone.
LEMMA OtherFits ==
    ASSUME Inv, RInv, NothingForgotten, NEW c \in Contexts,
           mAppInstanceId'[c] = mAppInstanceId[c], mState'[c] = mState[c],
           sems'[c].running > 0 => sems[c].running > 0,
           sems'[c].frame > 0 => sems[c].frame > 0,
           mAppInstanceId[c] # 0 => container'[mAppInstanceId[c]] = container[mAppInstanceId[c]]
    PROVE  Fits(c)'
<1>1. Fits(c)
  BY DEF RInv
<1>2. QED
  BY <1>1 DEF Fits, Matches, Ran, NothingForgotten

\* The instance that changeState works for, once it is launched.
LEMMA CurLaunched ==
    ASSUME Inv, UInv, worker.pc \in InStep, mState[Cur] # "UNLOADED"
    PROVE  \E d \in Contexts, i \in Instances : d = Cur /\ i = CurInst /\ i = mAppInstanceId[d] /\ i # 0
<1>1. Cur \in Contexts /\ Signalled(Cur)
  BY CurInContexts DEF UInv
<1>2. CurInst # 0
  BY <1>1 DEF Signalled, CurInst
<1>3. CurInst \in Instances
  BY <1>1, <1>2, Unmoved, ConstantsAssumption DEF Instances, CurInst
<1>4. QED
  BY <1>1, <1>2, <1>3 DEF CurInst

\* A step of changeState touches no other instance than the one at work.
LEMMA CurFits ==
    ASSUME Inv, DInv, RInv, NEW d \in Contexts, NEW i \in Instances, mAppInstanceId[d] = i, i # 0,
           UNCHANGED <<mAppInstanceId, window>>,
           \A c \in Contexts : c # d => mState'[c] = mState[c],
           \A c \in Contexts : /\ sems'[c].running > 0 => sems[c].running > 0
                               /\ sems'[c].frame > 0 => sems[c].frame > 0,
           \A j \in Instances : j # i => container'[j] = container[j],
           Ran(i) => Ran(i)', Matches(mState[d], i)',
           \/ jobs' = jobs
           \/ \E e \in Events : Submit(e) /\ e.kind = "STATE"
    PROVE  RInv'
<1>1. NothingForgotten
  BY DEF NothingForgotten, Ran
<1>2. \A k \in DOMAIN jobs' : Right(jobs[k])'
  <2>1. \A e \in Events : e.kind = "STATE" => Right(e)'
    BY DEF Right
  <2>2. QED
    BY <1>1, <2>1, JobsStayRight
<1>3. ASSUME NEW c \in Contexts
      PROVE  Fits(c)'
  <2>1. CASE c = d
    <3>1. Fits(c)
      BY DEF RInv
    <3>2. QED
      BY <2>1, <3>1 DEF Fits, Matches
  <2>2. CASE c # d
    <3>1. mAppInstanceId[c] # 0 => mAppInstanceId[c] \in Instances /\ mAppInstanceId[c] # i
      BY <2>2, Unmoved, ConstantsAssumption DEF Instances, DInv, DistinctInstances
    <3>2. mAppInstanceId[c] # 0 => container'[mAppInstanceId[c]] = container[mAppInstanceId[c]]
      BY <3>1
    <3>3. QED
      BY <1>1, <2>2, <3>2, OtherFits
  <2>3. QED
    BY <2>1, <2>2
<1>4. QED
  BY <1>2, <1>3 DEF RInv

\* No step of a transition, no container and no signal.
LEMMA IdleFits ==
    ASSUME Inv, RInv, UNCHANGED <<mAppInstanceId, mState, window, container>>,
           \A c \in Contexts : /\ sems'[c].running > 0 => sems[c].running > 0
                               /\ sems'[c].frame > 0 => sems[c].frame > 0,
           jobs' = jobs \/ \E k \in DOMAIN jobs : jobs' = Without(jobs, k)
    PROVE  RInv'
<1>1. NothingForgotten
  BY DEF NothingForgotten, Ran
<1>2. \A k \in DOMAIN jobs' : Right(jobs[k])'
  BY <1>1, JobsStayRight
<1>3. \A c \in Contexts : Fits(c)'
  BY <1>1, OtherFits
<1>4. QED
  BY <1>2, <1>3 DEF RInv

\* Under a request, UNLOADED means never launched: nothing was counted yet.
LEMMA LaunchFits ==
    ASSUME Inv, DInv, UInv, SInv, RInv, EnterLoading
    PROVE  RInv'
<1>1. worker.pc \in InStep /\ Head(worker.path) = "LOADING" /\ gRequests # <<>>
  BY CurInContexts DEF EnterLoading, GoingTo, InStep
<1>2. PICK d \in Contexts : d = Cur
  BY <1>1, CurInContexts
<1>3. /\ mState \in [Contexts -> LifecycleStates] /\ mState[d] \in LifecycleStates
      /\ mAppInstanceId \in [Contexts -> 0..lastInstance] /\ lastInstance \in Nat
      /\ sems \in [Contexts -> [loading : Nat, running : Nat, frame : Nat, terminating : Nat]]
      /\ window \subseteq Instances /\ Instances \subseteq Nat \ {0}
  BY <1>2, ConstantsAssumption DEF Inv, TypeOK, ContextsOK, EventsOK, Instances
<1>4. mState[d] = "UNLOADED" /\ mAppInstanceId[d] = 0
  BY <1>1, <1>2, <1>3, StepEdge, CurIsLive DEF Edges
<1>5. sems[d].running = 0 /\ sems[d].frame = 0
  <2>1. Fits(d) /\ 0 \notin window /\ sems[d].running \in Nat /\ sems[d].frame \in Nat
    BY <1>3 DEF RInv
  <2>2. QED
    BY <1>4, <2>1 DEF Fits
<1>6. /\ mAppInstanceId' = [mAppInstanceId EXCEPT ![d] = lastInstance + 1]
      /\ mState' = [mState EXCEPT ![d] = "LOADING"]
      /\ UNCHANGED <<container, window>>
      /\ lastInstance + 1 \in Instances
  BY <1>2, <1>3, ConstantsAssumption DEF EnterLoading, Enter, unchangedByStep, Instances
<1>7. \A c \in Contexts : sems'[c].running = sems[c].running /\ sems'[c].frame = sems[c].frame
  BY <1>2, <1>3 DEF EnterLoading, Post
<1>8. NothingForgotten
  BY <1>6 DEF NothingForgotten, Ran
<1>9. \A k \in DOMAIN jobs' : Right(jobs[k])'
  <2>1. PICK e \in Events : e = StateEvent(lastInstance + 1, mState[Cur], "LOADING")
    BY <1>2, <1>3, EventTypes DEF LifecycleStates
  <2>2. Submit(e) /\ Right(e)'
    BY <2>1 DEF EnterLoading, StateEvent, Right
  <2>3. QED
    BY <1>8, <2>2, JobsStayRight
<1>10. ASSUME NEW c \in Contexts
       PROVE  Fits(c)'
  <2>1. CASE c = d
    <3>1. mAppInstanceId'[c] = lastInstance + 1 /\ mState'[c] = "LOADING"
      BY <1>3, <1>6, <2>1
    <3>2. container[lastInstance + 1] = "none"
      BY <1>3, <1>6 DEF UInv, NotYet
    <3>3. QED
      BY <1>5, <1>6, <1>7, <2>1, <3>1, <3>2 DEF Fits, Matches
  <2>2. CASE c # d
    BY <1>3, <1>6, <1>7, <1>8, <2>2, OtherFits
  <2>3. QED
    BY <2>1, <2>2
<1>11. QED
  BY <1>9, <1>10 DEF RInv

\* Entering another state than LOADING.
LEMMA EnterFits ==
    ASSUME Inv, DInv, RInv, worker.pc \in InStep, NEW s \in LifecycleStates, Enter(s),
           NEW d \in Contexts, NEW i \in Instances, d = Cur, mAppInstanceId[d] = i, i # 0,
           UNCHANGED <<mAppInstanceId, window>>,
           \A c \in Contexts : /\ sems'[c].running > 0 => sems[c].running > 0
                               /\ sems'[c].frame > 0 => sems[c].frame > 0,
           \A j \in Instances : j # i => container'[j] = container[j],
           Ran(i) => Ran(i)', Matches(s, i)',
           jobs' = jobs \/ Submit(StateEvent(CurInst, mState[Cur], s))
    PROVE  RInv'
<1>1. mState \in [Contexts -> LifecycleStates] /\ mState[d] \in LifecycleStates /\ i \in Nat
  BY ConstantsAssumption DEF Inv, TypeOK, ContextsOK, Instances
<1>2. /\ mState'[d] = s /\ \A c \in Contexts : c # d => mState'[c] = mState[c]
  BY <1>1 DEF Enter
<1>3. Matches(mState[d], i)'
  BY <1>2
<1>4. jobs' = jobs \/ \E e \in Events : Submit(e) /\ e.kind = "STATE"
  <2>1. PICK e \in Events : e = StateEvent(i, mState[d], s)
    BY <1>1, EventTypes
  <2>2. e.kind = "STATE" /\ CurInst = i
    BY <2>1 DEF StateEvent, CurInst
  <2>3. QED
    BY <2>1, <2>2
<1>5. QED
  BY <1>2, <1>3, <1>4, CurFits

LEMMA WorkerFits ==
    ASSUME Inv, DInv, UInv, SInv, RInv, RuntimeOutcomes \subseteq {"done"}, WorkerNext
    PROVE  RInv'
<1>1. /\ sems \in [Contexts -> [loading : Nat, running : Nat, frame : Nat, terminating : Nat]]
      /\ container \in [Instances -> {"none", "starting", "running", "paused", "frozen",
                                      "resumed", "stopping", "killing", "stopped"}]
  BY Unmoved
<1>2. CASE TakeRequest \/ QueueEmpty \/ WakeUp
  BY <1>2, IdleFits DEF TakeRequest, QueueEmpty, WakeUp, contextVars, runtimeVars
<1>3. CASE EnterLoading
  BY <1>3, LaunchFits
<1>4. CASE NotRendered
  BY <1>4, IdleFits DEF NotRendered, Block, GiveUp, unchangedByStep
<1>5. ASSUME worker.pc \in InStep, Head(worker.path) # "LOADING"
      PROVE  /\ mState[Cur] # "UNLOADED"
             /\ \E d \in Contexts, i \in Instances :
                   d = Cur /\ i = CurInst /\ i = mAppInstanceId[d] /\ i # 0 /\ Fits(d)
  BY <1>5, LeavesUnloaded, CurLaunched DEF RInv
<1>6. CASE StartInitializing
  <2>1. worker.pc \in InStep /\ Head(worker.path) = "INITIALIZING" /\ worker.pc = "step"
    BY <1>6 DEF StartInitializing, GoingTo, InStep
  <2>2. PICK d \in Contexts, i \in Instances :
            d = Cur /\ i = CurInst /\ i = mAppInstanceId[d] /\ i # 0 /\ Fits(d)
    BY <1>5, <2>1
  <2>3. mState[d] = "LOADING" /\ container[i] = "none"
    BY <2>1, <2>2, StepEdge DEF Edges, UInv, StartedOnce
  <2>4. /\ container' = container \/ container' = [container EXCEPT ![i] = "starting"]
        /\ UNCHANGED <<mAppInstanceId, mState, window, sems, jobs>>
    BY <1>6, <2>2 DEF StartInitializing, Block, unchangedByStep
  <2>5. /\ container'[i] \in {"none", "starting"}
        /\ \A j \in Instances : j # i => container'[j] = container[j]
    BY <1>1, <2>3, <2>4
  <2>6. Matches(mState[d], i)' /\ (Ran(i) => Ran(i)')
    BY <2>3, <2>4, <2>5 DEF Matches, Ran
  <2>7. QED
    BY <2>2, <2>4, <2>5, <2>6, CurFits
<1>7. CASE EnterInitializing
  <2>1. worker.pc \in InStep /\ Head(worker.path) = "INITIALIZING" /\ "INITIALIZING" \in LifecycleStates
    BY <1>7 DEF EnterInitializing, InStep, Waits, Inv, OnPath, LifecycleStates
  <2>2. PICK d \in Contexts, i \in Instances :
            d = Cur /\ i = CurInst /\ i = mAppInstanceId[d] /\ i # 0 /\ Fits(d)
    BY <1>5, <2>1
  <2>3. mState[d] = "LOADING" /\ sems[d].running > 0
    BY <1>7, <2>1, <2>2, StepEdge DEF Edges, EnterInitializing, Take
  <2>4. container[i] \in {"running", "stopped"}
    BY <2>2, <2>3 DEF Fits, Matches, Ran
  <2>5. UNCHANGED <<mAppInstanceId, window, container>> /\ Enter("INITIALIZING")
        /\ Submit(StateEvent(CurInst, mState[Cur], "INITIALIZING"))
    BY <1>7 DEF EnterInitializing, unchangedByStep
  <2>6. Matches("INITIALIZING", i)' /\ (Ran(i) => Ran(i)')
    BY <2>4, <2>5 DEF Matches, Ran
  <2>7. \A c \in Contexts : /\ sems'[c].running > 0 => sems[c].running > 0
                            /\ sems'[c].frame > 0 => sems[c].frame > 0
    BY <1>1, <1>7, <2>2 DEF EnterInitializing, Take
  <2>8. QED
    BY <2>1, <2>2, <2>5, <2>6, <2>7, EnterFits
<1>8. CASE EnterPaused
  <2>1. worker.pc \in InStep /\ Head(worker.path) = "PAUSED" /\ "PAUSED" \in LifecycleStates
    BY <1>8 DEF EnterPaused, GoingTo, InStep, LifecycleStates
  <2>2. PICK d \in Contexts, i \in Instances :
            d = Cur /\ i = CurInst /\ i = mAppInstanceId[d] /\ i # 0 /\ Fits(d)
    BY <1>5, <2>1
  <2>3. UNCHANGED <<mAppInstanceId, window, sems>> /\ Enter("PAUSED")
        /\ Submit(StateEvent(CurInst, mState[Cur], "PAUSED"))
    BY <1>8 DEF EnterPaused, unchangedByStep
  <2>4. \/ mState[d] \in {"INITIALIZING", "ACTIVE"} /\ container' = container
        \/ /\ mState[d] = "SUSPENDED"
           /\ \E to \in {"running", "resumed"} :
                 container' = IF container[i] = "paused" THEN [container EXCEPT ![i] = to] ELSE container
    BY <1>8, <2>2 DEF EnterPaused, Move
  <2>5. /\ \A j \in Instances : j # i => container'[j] = container[j]
        /\ Matches("PAUSED", i)' /\ (Ran(i) => Ran(i)')
    BY <1>1, <2>2, <2>4 DEF Fits, Matches, Ran
  <2>6. QED
    BY <2>1, <2>2, <2>3, <2>5, EnterFits
<1>9. CASE EnterActive
  <2>1. worker.pc \in InStep /\ Head(worker.path) = "ACTIVE" /\ "ACTIVE" \in LifecycleStates
    BY <1>9 DEF EnterActive, GoingTo, InStep, Waits, Inv, OnPath, LifecycleStates
  <2>2. PICK d \in Contexts, i \in Instances :
            d = Cur /\ i = CurInst /\ i = mAppInstanceId[d] /\ i # 0 /\ Fits(d)
    BY <1>5, <2>1
  <2>3. /\ mState[d] = "PAUSED"
        /\ UNCHANGED <<mAppInstanceId, window, container>> /\ Enter("ACTIVE")
        /\ Submit(StateEvent(CurInst, mState[Cur], "ACTIVE"))
    BY <1>9, <2>1, <2>2, StepEdge DEF Edges, EnterActive, unchangedByStep
  <2>4. i \in window
    BY <1>9, <2>2 DEF EnterActive, IsRenderReady, Take, Fits
  <2>5. Matches("ACTIVE", i)' /\ (Ran(i) => Ran(i)')
    BY <2>2, <2>3, <2>4 DEF Fits, Matches, Ran
  <2>6. \A c \in Contexts : /\ sems'[c].running > 0 => sems[c].running > 0
                            /\ sems'[c].frame > 0 => sems[c].frame > 0
    BY <1>1, <1>9, <2>2 DEF EnterActive, Take
  <2>7. QED
    BY <2>1, <2>2, <2>3, <2>5, <2>6, EnterFits
<1>10. ASSUME NEW s \in {"SUSPENDED", "HIBERNATED"}, NEW o \in RuntimeOutcomes, EnterByRuntime(s, o)
       PROVE  RInv'
  <2>1. worker.pc \in InStep /\ Head(worker.path) = s /\ s \in LifecycleStates /\ o = "done"
    BY <1>10 DEF EnterByRuntime, GoingTo, InStep, LifecycleStates
  <2>2. PICK d \in Contexts, i \in Instances :
            d = Cur /\ i = CurInst /\ i = mAppInstanceId[d] /\ i # 0 /\ Fits(d)
    BY <1>5, <2>1
  <2>3. UNCHANGED <<mAppInstanceId, window, sems>> /\ Enter(s)
        /\ Submit(StateEvent(CurInst, mState[Cur], s))
    BY <1>10, <2>1 DEF EnterByRuntime, unchangedByStep
  <2>4. /\ s = "SUSPENDED" => mState[d] \in {"INITIALIZING", "PAUSED", "HIBERNATED"}
        /\ s = "HIBERNATED" => mState[d] = "SUSPENDED"
    BY <2>1, <2>2, StepEdge DEF Edges
  <2>5. container' = IF s = "HIBERNATED"
                     THEN IF container[i] = "paused" THEN [container EXCEPT ![i] = "frozen"] ELSE container
                     ELSE IF mState[d] = "HIBERNATED"
                     THEN IF container[i] = "frozen" THEN [container EXCEPT ![i] = "paused"] ELSE container
                     ELSE IF container[i] \in {"running", "resumed"}
                          THEN [container EXCEPT ![i] = "paused"] ELSE container
    BY <1>10, <2>1, <2>2 DEF EnterByRuntime, Move
  <2>6. \A j \in Instances : j # i => container'[j] = container[j]
    BY <1>1, <2>5
  <2>7. Matches(s, i)' /\ (Ran(i) => Ran(i)')
    <3>1. Matches(mState[d], i)
      BY <2>2 DEF Fits
    <3>2. CASE s = "HIBERNATED"
      BY <1>1, <2>4, <2>5, <3>1, <3>2 DEF Matches, Ran
    <3>3. CASE s = "SUSPENDED"
      BY <1>1, <2>4, <2>5, <3>1, <3>3 DEF Matches, Ran
    <3>4. QED
      BY <3>2, <3>3
  <2>8. QED
    BY <2>1, <2>2, <2>3, <2>6, <2>7, EnterFits
<1>11. ASSUME NEW o, StartTerminating(o)
       PROVE  RInv'
  <2>1. worker.pc \in InStep /\ Head(worker.path) = "TERMINATING"
    BY <1>11 DEF StartTerminating, GoingTo, InStep
  <2>2. PICK d \in Contexts, i \in Instances :
            d = Cur /\ i = CurInst /\ i = mAppInstanceId[d] /\ i # 0 /\ Fits(d)
    BY <1>5, <2>1
  <2>3. mState[d] \in {"PAUSED", "SUSPENDED"} /\ i \in Nat
    BY <2>1, <2>2, StepEdge, CurInContexts DEF Edges
  <2>4. UNCHANGED <<mAppInstanceId, window, sems, mState>>
    BY <1>11 DEF StartTerminating, unchangedByStep, Block, GiveUp
  <2>5. \/ container' = container
        \/ \E v \in {"killing", "stopping"} : container' = [container EXCEPT ![i] = v]
    BY <1>11, <2>2 DEF StartTerminating
  <2>6. /\ \A j \in Instances : j # i => container'[j] = container[j]
        /\ Matches(mState[d], i)' /\ (Ran(i) => Ran(i)')
    BY <1>1, <2>2, <2>3, <2>4, <2>5 DEF Fits, Matches, Ran
  <2>7. PICK e \in Events : e = StateEvent(i, mState[d], "TERMINATING")
    BY <2>3, EventTypes DEF LifecycleStates
  <2>8. Submit(e) /\ e.kind = "STATE"
    BY <1>11, <2>2, <2>7 DEF StartTerminating, StateEvent
  <2>9. QED
    BY <2>2, <2>4, <2>6, <2>8, CurFits
<1>12. CASE EnterTerminating
  <2>1. worker.pc \in InStep /\ Head(worker.path) = "TERMINATING" /\ "TERMINATING" \in LifecycleStates
    BY <1>12 DEF EnterTerminating, InStep, Waits, Inv, OnPath, LifecycleStates
  <2>2. PICK d \in Contexts, i \in Instances :
            d = Cur /\ i = CurInst /\ i = mAppInstanceId[d] /\ i # 0 /\ Fits(d)
    BY <1>5, <2>1
  <2>3. UNCHANGED <<mAppInstanceId, window, container, jobs>> /\ Enter("TERMINATING")
    BY <1>12 DEF EnterTerminating, unchangedByStep
  <2>4. Matches("TERMINATING", i)' /\ (Ran(i) => Ran(i)')
    BY <2>3 DEF Matches, Ran
  <2>5. \A c \in Contexts : /\ sems'[c].running > 0 => sems[c].running > 0
                            /\ sems'[c].frame > 0 => sems[c].frame > 0
    BY <1>1, <1>12, <2>2 DEF EnterTerminating, Take
  <2>6. QED
    BY <2>1, <2>2, <2>3, <2>4, <2>5, EnterFits
<1>13. CASE EnterUnloaded
  <2>1. worker.pc \in InStep /\ Head(worker.path) = "UNLOADED" /\ "UNLOADED" \in LifecycleStates
    BY <1>13 DEF EnterUnloaded, GoingTo, InStep, LifecycleStates
  <2>2. PICK d \in Contexts, i \in Instances :
            d = Cur /\ i = CurInst /\ i = mAppInstanceId[d] /\ i # 0 /\ Fits(d)
    BY <1>5, <2>1
  <2>3. UNCHANGED <<mAppInstanceId, window, container, sems>> /\ Enter("UNLOADED")
        /\ Submit(StateEvent(CurInst, mState[Cur], "UNLOADED"))
    BY <1>13 DEF EnterUnloaded, unchangedByStep
  <2>4. Matches("UNLOADED", i)' /\ (Ran(i) => Ran(i)')
    BY <2>3 DEF Matches, Ran
  <2>5. QED
    BY <2>1, <2>2, <2>3, <2>4, EnterFits
<1>14. QED
  BY <1>2, <1>3, <1>4, <1>6, <1>7, <1>8, <1>9, <1>10, <1>11, <1>12, <1>13 DEF WorkerNext

\* A signal is counted by the context of the instance it is about.
LEMMA DispatchFits ==
    ASSUME Inv, RInv, NEW k, Dispatch(k)
    PROVE  RInv'
<1>1. /\ UNCHANGED <<mAppInstanceId, mState, window, container>>
      /\ k \in DOMAIN jobs /\ jobs' = Without(jobs, k) /\ jobs \in Seq(Events)
      /\ sems \in [Contexts -> [loading : Nat, running : Nat, frame : Nat, terminating : Nat]]
  BY Unmoved DEF Dispatch, runtimeVars
<1>2. CASE UNCHANGED sems
  BY <1>1, <1>2, IdleFits
<1>3. CASE ~UNCHANGED sems
  <2>1. PICK i : i = jobs[k].inst
    OBVIOUS
  <2>2. PICK d : d = getContext(i)
    OBVIOUS
  <2>3. /\ jobs[k].kind # "STATE" /\ d # Null /\ Post(d, Signals(jobs[k].kind))
    BY <1>3, <2>1, <2>2 DEF Dispatch, HandleStateChange, HandleSignal
  <2>4. d \in Contexts /\ i # 0 /\ mAppInstanceId[d] = i
    BY <2>2, <2>3, LookupType DEF Inv, TypeOK
  <2>5. jobs[k].kind \in {"RUNNING", "TERMINATED", "READY"}
    <3>1. PICK e \in Events : e = jobs[k]
      BY <1>1, LenProperties, ElementOfSeq
    <3>2. QED
      BY <2>3, <3>1 DEF Events
  <2>6. Right(jobs[k])
    BY <1>1 DEF RInv
  <2>7. /\ \A c \in Contexts : c # d => sems'[c] = sems[c]
        /\ sems'[d].running > 0 => sems[d].running > 0 \/ jobs[k].kind = "RUNNING"
        /\ sems'[d].frame > 0 => sems[d].frame > 0 \/ jobs[k].kind = "READY"
    BY <1>1, <2>3, <2>4, <2>5 DEF Post, Signals
  <2>8. NothingForgotten
    BY <1>1 DEF NothingForgotten, Ran
  <2>9. \A j \in DOMAIN jobs' : Right(jobs[j])'
    BY <1>1, <2>8, JobsStayRight
  <2>10. ASSUME NEW c \in Contexts
         PROVE  Fits(c)'
    <3>1. CASE c = d
      <4>1. Fits(d)
        BY <2>4 DEF RInv
      <4>2. QED
        BY <1>1, <2>1, <2>4, <2>6, <2>7, <3>1, <4>1 DEF Fits, Right, Matches, Ran
    <3>2. CASE c # d
      BY <1>1, <2>7, <2>8, <3>2, OtherFits
    <3>3. QED
      BY <3>1, <3>2
  <2>11. QED
    BY <2>9, <2>10 DEF RInv
<1>4. QED
  BY <1>2, <1>3

\* A container starts to run, stops, or its application draws.
LEMMA RuntimeFits ==
    ASSUME Inv, RInv, NEW i \in Instances,
           ContainerRuns(i) \/ ContainerStops(i) \/ ContainerCrashes(i) \/ FirstFrame(i)
    PROVE  RInv'
<1>1. /\ container \in [Instances -> {"none", "starting", "running", "paused", "frozen",
                                      "resumed", "stopping", "killing", "stopped"}]
      /\ i \in Nat /\ UNCHANGED <<mAppInstanceId, mState, sems>>
  BY Unmoved, ConstantsAssumption
     DEF Instances, ContainerRuns, ContainerStops, ContainerCrashes, FirstFrame, ContainerGoes, contextVars
<1>2. \/ /\ container[i] \in {"starting", "resumed"} /\ window' = window
         /\ container' = [container EXCEPT ![i] = "running"] /\ Submit(RuntimeEvent("RUNNING", i))
      \/ /\ container' = [container EXCEPT ![i] = "stopped"] /\ window' = window
         /\ Submit(RuntimeEvent("TERMINATED", i))
      \/ /\ container' = container /\ window' = window \cup {i} /\ Submit(RuntimeEvent("READY", i))
  BY DEF ContainerRuns, ContainerStops, ContainerCrashes, FirstFrame, ContainerGoes
<1>3. NothingForgotten
  BY <1>1, <1>2 DEF NothingForgotten, Ran
<1>4. \A j \in Instances : j # i => container'[j] = container[j]
  BY <1>1, <1>2
<1>5. PICK n \in {"RUNNING", "TERMINATED", "READY"} :
          /\ Submit(RuntimeEvent(n, i))
          /\ n = "RUNNING" => container'[i] = "running"
          /\ n = "READY" => i \in window'
  BY <1>1, <1>2
<1>6. PICK e \in Events : e = RuntimeEvent(n, i)
  BY <1>1, EventTypes
<1>7. Submit(e) /\ Right(e)'
  BY <1>5, <1>6 DEF RuntimeEvent, Right, Ran
<1>8. \A k \in DOMAIN jobs' : Right(jobs[k])'
  BY <1>3, <1>7, JobsStayRight
<1>9. ASSUME NEW c \in Contexts
      PROVE  Fits(c)'
  <2>1. Fits(c) /\ (mAppInstanceId[c] # 0 => mAppInstanceId[c] \in Instances)
    BY Unmoved, ConstantsAssumption DEF RInv, Instances
  <2>2. CASE mAppInstanceId[c] = i
    <3>1. container'[i] \in {container[i], "running", "stopped"} /\ (Ran(i) => Ran(i)')
      BY <1>1, <1>2 DEF Ran
    <3>2. container'[i] = "running" => container[i] \in {"starting", "resumed", "running"}
      BY <1>1, <1>2
    <3>3. window \subseteq window'
      BY <1>2
    <3>4. QED
      BY <1>1, <2>1, <2>2, <3>1, <3>2, <3>3 DEF Fits, Matches
  <2>3. CASE mAppInstanceId[c] # i
    BY <1>1, <1>3, <1>4, <2>1, <2>3, OtherFits
  <2>4. QED
    BY <2>2, <2>3
<1>10. QED
  BY <1>8, <1>9 DEF RInv

LEMMA ClientFits ==
    ASSUME Inv, RInv, NEW t \in Clients, ClientNext(t)
    PROVE  RInv'
<1>1. /\ UNCHANGED <<mAppInstanceId, mState, jobs, window, container>>
      /\ sems \in [Contexts -> [loading : Nat, running : Nat, frame : Nat, terminating : Nat]]
  BY Unmoved
     DEF ClientNext, SpawnApp, SpawnPrepare, AddRequest, SpawnReturn, CloseAppSpawns, CloseApp,
         SetTargetAppState, UnloadApp, KillApp, CallOnInstance, unchangedByCall, contextVars, runtimeVars
<1>2. \A c \in Contexts : sems'[c].running = sems[c].running /\ sems'[c].frame = sems[c].frame
  <2>1. CASE SpawnReturn(t)
    BY <1>1, <2>1, CallTypes DEF SpawnReturn, Take
  <2>2. CASE ~SpawnReturn(t)
    BY <2>2 DEF ClientNext, SpawnApp, SpawnPrepare, AddRequest, CloseAppSpawns, CloseApp,
         SetTargetAppState, UnloadApp, KillApp, CallOnInstance, contextVars
  <2>3. QED
    BY <2>1, <2>2
<1>3. QED
  BY <1>1, <1>2, IdleFits

LEMMA NextRInv ==
    OrderlyUse /\ RuntimeOutcomes \subseteq {"done"} /\ Inv /\ DInv /\ UInv /\ SInv /\ RInv /\ [Next]_vars
        => RInv'
<1> SUFFICES ASSUME RuntimeOutcomes \subseteq {"done"}, Inv, DInv, UInv, SInv, RInv, [Next]_vars
             PROVE  RInv'
  OBVIOUS
<1>1. CASE Terminate \/ Crash \/ UNCHANGED vars
  BY <1>1, IdleFits DEF Terminate, Crash, vars, contextVars, runtimeVars
<1>2. ASSUME NEW c \in Contexts, DeleteContext(c) \/ EraseContext(c)
      PROVE  RInv'
  BY <1>2, IdleFits DEF DeleteContext, EraseContext, unchangedByDelete, runtimeVars
<1>3. QED
  BY <1>1, <1>2, WorkerFits, ClientFits, DispatchFits, RuntimeFits DEF Next, Rest

\* With an orderly client and a runtime whose calls succeed, the lifecycle
\* state of a context agrees with the container it stands for, through
\* crashes, restarts and late events, and only an instance that has
\* rendered a frame is ACTIVE.
THEOREM StateAlwaysMatches ==
    OrderlyUse /\ RuntimeOutcomes \subseteq {"done"} => (Spec => []StateMatchesRuntime)
<1> SUFFICES ASSUME OrderlyUse, RuntimeOutcomes \subseteq {"done"}
             PROVE  Spec => []StateMatchesRuntime
  OBVIOUS
<1>1. Init => RInv
  BY DEF Init, RInv, Right, Fits
<1>2. Inv /\ DInv /\ UInv /\ SInv /\ RInv /\ [Next]_vars => RInv'
  BY NextRInv
<1>3. UInv /\ RInv => StateMatchesRuntime
  <2> SUFFICES ASSUME UInv, RInv PROVE StateMatchesRuntime
    OBVIOUS
  <2>1. \A c \in Contexts : Signalled(c) /\ Fits(c)
    BY DEF UInv, RInv
  <2>2. QED
    BY <2>1 DEF Signalled, Fits, Matches, StateMatchesRuntime
<1>4. Spec => []DInv
  BY Invariant, InitDInv, NextDInv, PTL DEF Spec
<1>5. Spec => []UInv
  BY <1>4, Invariant, InitUInv, NextUInv, PTL DEF Spec
<1>6. Spec => []SInv
  BY Ordered
<1>7. QED
  BY <1>1, <1>2, <1>3, <1>4, <1>5, <1>6, Invariant, PTL DEF Spec

-----------------------------------------------------------------------------
(* The events of an instance.  One pool thread takes the jobs in the order *)
(* of their submission, so that what is queued of an instance is the end   *)
(* of its history; a transition that was given up after it had announced   *)
(* TERMINATING is taken up again with the same step.                       *)

\* The last state change event queued for an instance.
IsLast(k, i) == k \in StateJobs(i) /\ \A j \in StateJobs(i) : j <= k

\* One event takes up where the one before it left off.
Chained ==
    \A i \in Instances : \A k, m \in StateJobs(i) :
        k < m /\ (\A j \in StateJobs(i) : ~(k < j /\ j < m)) =>
            \/ jobs[m].old = jobs[k].new
            \/ jobs[k].new = "TERMINATING" /\ jobs[m].new = "TERMINATING"

\* Events are of instances that were launched.
JobsOfLaunched == \A i : StateJobs(i) # {} => i \in Instances /\ i <= lastInstance

\* TERMINATING was announced for c, and is the next state it enters.
Announced(c) ==
    /\ gRequests # <<>> /\ Cur = c /\ Head(gRequests).target = "TERMINATING"
    /\ Alike(mState[c])
    /\ worker.pc \in InStep => Head(worker.path) = "TERMINATING"

\* The last event of an instance tells its state, or the one to come.
Tells(k, c) ==
    \/ jobs[k].new = mState[c]
    \/ jobs[k].new = "TERMINATING" /\ jobs[k].old = mState[c] /\ Announced(c)

AllTold == \A c \in Contexts : \A k : IsLast(k, mAppInstanceId[c]) => Tells(k, c)

\* While changeState waits for the end of a container, it has said so.
Waiting == worker.pc = "waitTerminated" => \A k : IsLast(k, CurInst) => jobs[k].new = "TERMINATING"

\* What precedes TERMINATING on the path of changeState.
PathAlike ==
    worker.pc \in InStep =>
        \A k \in DOMAIN worker.path : worker.path[k] = "TERMINATING" =>
            /\ Alike(IF k = 1 THEN mState[Cur] ELSE worker.path[k - 1])
            /\ Head(gRequests).target = "TERMINATING"

HInv == Chained /\ JobsOfLaunched /\ AllTold /\ Waiting /\ PathAlike

\* A queue without its first element, and one with a further element.
LEMMA FirstTaken ==
    ASSUME NEW S, NEW q \in Seq(S), 1 \in DOMAIN q
    PROVE  /\ Without(q, 1) \in Seq(S)
           /\ Len(q) \in Nat /\ DOMAIN q = 1..Len(q)
           /\ DOMAIN Without(q, 1) = 1..(Len(q) - 1)
           /\ \A k \in 1..(Len(q) - 1) : Without(q, 1)[k] = q[k + 1]
<1> DEFINE a == SubSeq(q, 1, 1 - 1)
           b == SubSeq(q, 1 + 1, Len(q))
<1>1. DOMAIN q = 1..Len(q) /\ Len(q) \in Nat /\ Len(q) >= 1
  BY LenProperties
<1>2. \A i \in 1..Len(q) : q[i] \in S
  BY <1>1, ElementOfSeq
<1>3. a \in Seq(S) /\ Len(a) = 0
  <2>1. 1 \in Int /\ 1 - 1 \in Int /\ \A i \in 1..(1 - 1) : q[i] \in S
    OBVIOUS
  <2>2. a \in Seq(S) /\ Len(a) = IF 1 <= 1 - 1 THEN (1 - 1) - 1 + 1 ELSE 0
    BY <2>1, SubSeqProperties
  <2>3. QED
    BY <2>2
<1>4. b \in Seq(S) /\ Len(b) = Len(q) - 1
  <2>1. 1 + 1 \in Int /\ Len(q) \in Int /\ \A i \in (1 + 1)..Len(q) : q[i] \in S
    BY <1>1, <1>2
  <2>2. b \in Seq(S) /\ Len(b) = IF 1 + 1 <= Len(q) THEN Len(q) - (1 + 1) + 1 ELSE 0
    BY <2>1, SubSeqProperties
  <2>3. QED
    BY <1>1, <2>2
<1>5. /\ Without(q, 1) = a \o b /\ a \o b \in Seq(S) /\ Len(a \o b) = Len(a) + Len(b)
  BY <1>3, <1>4, ConcatProperties DEF Without
<1> HIDE DEF a, b
<1>6. Without(q, 1) \in Seq(S) /\ Len(Without(q, 1)) = Len(q) - 1
  <2>1. Len(a) + Len(b) = Len(q) - 1
    BY <1>1, <1>3, <1>4
  <2>2. QED
    BY <1>5, <2>1
<1>7. DOMAIN Without(q, 1) = 1..(Len(q) - 1)
  BY <1>6, LenProperties
<1>8. ASSUME NEW k \in 1..(Len(q) - 1)
      PROVE  Without(q, 1)[k] = q[k + 1]
  <2>1. Without(q, 1)[k] = q[Place(1, k)]
    BY <1>7, RemainingPlace
  <2>2. Place(1, k) = k + 1
    BY DEF Place
  <2>3. QED
    BY <2>1, <2>2
<1>9. QED
  BY <1>1, <1>6, <1>7, <1>8

LEMMA Appended ==
    ASSUME NEW S, NEW q \in Seq(S), NEW e \in S
    PROVE  /\ Len(q) \in Nat /\ DOMAIN q = 1..Len(q)
           /\ DOMAIN Append(q, e) = 1..(Len(q) + 1)
           /\ \A k \in 1..Len(q) : Append(q, e)[k] = q[k]
           /\ Append(q, e)[Len(q) + 1] = e
<1>1. /\ Append(q, e) \in Seq(S) /\ Len(Append(q, e)) = Len(q) + 1
      /\ \A i \in 1..Len(q) : Append(q, e)[i] = q[i]
      /\ Append(q, e)[Len(q) + 1] = e
  BY AppendProperties
<1>2. DOMAIN Append(q, e) = 1..(Len(q) + 1)
  BY <1>1, LenProperties
<1>3. QED
  BY <1>1, <1>2, LenProperties

\* No event of the transitions is added, and only the first job is taken.
Calmly ==
    \/ jobs' = jobs
    \/ 1 \in DOMAIN jobs /\ jobs' = Without(jobs, 1)
    \/ \E e \in Events : Submit(e) /\ e.kind # "STATE"

\* The state change events keep their order and the distances between them.
LEMMA JobsShift ==
    ASSUME Inv, Calmly
    PROVE  \E n \in {0, 1} : \A i :
              /\ \A k \in StateJobs(i)' : k \in Nat /\ k + n \in StateJobs(i) /\ jobs'[k] = jobs[k + n]
              /\ \A m \in StateJobs(i) : m \in Nat \ {0} /\ (m > n => m - n \in StateJobs(i)')
<1>1. jobs \in Seq(Events) /\ Len(jobs) \in Nat /\ DOMAIN jobs = 1..Len(jobs)
  BY LenProperties DEF Inv, TypeOK, EventsOK
<1>2. CASE jobs' = jobs
  <2>1. ASSUME NEW i
        PROVE  /\ \A k \in StateJobs(i)' : k \in Nat /\ k + 0 \in StateJobs(i) /\ jobs'[k] = jobs[k + 0]
               /\ \A m \in StateJobs(i) : m \in Nat \ {0} /\ (m > 0 => m - 0 \in StateJobs(i)')
    <3>1. StateJobs(i)' = StateJobs(i) /\ \A k \in StateJobs(i) : k \in 1..Len(jobs)
      BY <1>1, <1>2 DEF StateJobs
    <3>2. \A k \in StateJobs(i) : k \in Nat \ {0} /\ k + 0 = k /\ k - 0 = k
      BY <1>1, <3>1
    <3>3. QED
      BY <1>2, <3>1, <3>2
  <2>2. QED
    BY <2>1
<1>3. ASSUME 1 \in DOMAIN jobs, jobs' = Without(jobs, 1), NEW i
      PROVE  /\ \A k \in StateJobs(i)' : k \in Nat /\ k + 1 \in StateJobs(i) /\ jobs'[k] = jobs[k + 1]
             /\ \A m \in StateJobs(i) : m \in Nat \ {0} /\ (m > 1 => m - 1 \in StateJobs(i)')
  <2>1. /\ DOMAIN jobs' = 1..(Len(jobs) - 1)
        /\ \A k \in 1..(Len(jobs) - 1) : jobs'[k] = jobs[k + 1]
    BY <1>1, <1>3, FirstTaken
  <2>2. ASSUME NEW k \in StateJobs(i)'
        PROVE  k \in Nat /\ k + 1 \in StateJobs(i) /\ jobs'[k] = jobs[k + 1]
    <3>1. k \in DOMAIN jobs' /\ jobs'[k].kind = "STATE" /\ jobs'[k].inst = i
      BY DEF StateJobs
    <3>2. k \in 1..(Len(jobs) - 1)
      BY <2>1, <3>1
    <3>3. k \in Nat /\ k + 1 \in DOMAIN jobs
      BY <1>1, <3>2
    <3>4. QED
      BY <2>1, <3>1, <3>2, <3>3 DEF StateJobs
  <2>3. ASSUME NEW m \in StateJobs(i)
        PROVE  m \in Nat \ {0} /\ (m > 1 => m - 1 \in StateJobs(i)')
    <3>1. m \in 1..Len(jobs) /\ jobs[m].kind = "STATE" /\ jobs[m].inst = i
      BY <1>1 DEF StateJobs
    <3>2. m > 1 => m - 1 \in 1..(Len(jobs) - 1) /\ (m - 1) + 1 = m
      BY <1>1, <3>1
    <3>3. m > 1 => jobs'[m - 1] = jobs[m]
      BY <2>1, <3>2
    <3>4. QED
      BY <1>1, <2>1, <3>1, <3>2, <3>3 DEF StateJobs
  <2>4. QED
    BY <2>2, <2>3
<1>4. ASSUME NEW e \in Events, Submit(e), e.kind # "STATE", NEW i
      PROVE  /\ \A k \in StateJobs(i)' : k \in Nat /\ k + 0 \in StateJobs(i) /\ jobs'[k] = jobs[k + 0]
             /\ \A m \in StateJobs(i) : m \in Nat \ {0} /\ (m > 0 => m - 0 \in StateJobs(i)')
  <2>1. /\ DOMAIN jobs' = 1..(Len(jobs) + 1)
        /\ \A k \in 1..Len(jobs) : jobs'[k] = jobs[k]
        /\ jobs'[Len(jobs) + 1] = e
    BY <1>1, <1>4, Appended DEF Submit
  <2>2. \A k \in StateJobs(i)' : k \in 1..Len(jobs) /\ k \in StateJobs(i)
    <3> SUFFICES ASSUME NEW k \in StateJobs(i)' PROVE k \in 1..Len(jobs) /\ k \in StateJobs(i)
      OBVIOUS
    <3>1. k \in 1..(Len(jobs) + 1) /\ jobs'[k].kind = "STATE" /\ jobs'[k].inst = i
      BY <2>1 DEF StateJobs
    <3>2. k # Len(jobs) + 1
      BY <1>4, <2>1, <3>1
    <3>3. k \in 1..Len(jobs)
      BY <1>1, <3>1, <3>2
    <3>4. QED
      BY <1>1, <2>1, <3>1, <3>3 DEF StateJobs
  <2>3. \A m \in StateJobs(i) : m \in 1..Len(jobs) /\ m \in StateJobs(i)'
    <3> SUFFICES ASSUME NEW m \in StateJobs(i) PROVE m \in 1..Len(jobs) /\ m \in StateJobs(i)'
      OBVIOUS
    <3>1. m \in 1..Len(jobs) /\ jobs[m].kind = "STATE" /\ jobs[m].inst = i
      BY <1>1 DEF StateJobs
    <3>2. m \in DOMAIN jobs' /\ jobs'[m] = jobs[m]
      BY <1>1, <2>1, <3>1
    <3>3. QED
      BY <3>1, <3>2 DEF StateJobs
  <2>4. \A k \in 1..Len(jobs) : k \in Nat \ {0} /\ k + 0 = k /\ k - 0 = k
    BY <1>1
  <2>5. QED
    BY <2>1, <2>2, <2>3, <2>4
<1>5. QED
  <2>1. CASE 1 \in DOMAIN jobs /\ jobs' = Without(jobs, 1)
    BY <1>3, <2>1
  <2>2. CASE \E e \in Events : Submit(e) /\ e.kind # "STATE"
    BY <1>4, <2>2
  <2>3. QED
    BY <1>2, <2>1, <2>2 DEF Calmly

\* What is left of a history has no gap, and ends where it ended.
LEMMA HistoryKept ==
    ASSUME Inv, Calmly, Chained, JobsOfLaunched, lastInstance' = lastInstance
    PROVE  /\ Chained' /\ JobsOfLaunched'
           /\ \A i, k : IsLast(k, i)' => \E m : IsLast(m, i) /\ jobs'[k] = jobs[m]
<1>1. PICK n \in {0, 1} : \A i :
          /\ \A k \in StateJobs(i)' : k \in Nat /\ k + n \in StateJobs(i) /\ jobs'[k] = jobs[k + n]
          /\ \A m \in StateJobs(i) : m \in Nat \ {0} /\ (m > n => m - n \in StateJobs(i)')
  BY JobsShift
<1>2. n \in Nat
  OBVIOUS
<1>3. ASSUME NEW i, NEW k, IsLast(k, i)'
      PROVE  \E m : IsLast(m, i) /\ jobs'[k] = jobs[m]
  <2>1. k \in StateJobs(i)' /\ \A j \in StateJobs(i)' : j <= k
    BY <1>3 DEF IsLast
  <2>2. k \in Nat /\ k + n \in StateJobs(i) /\ jobs'[k] = jobs[k + n]
    BY <1>1, <2>1
  <2>3. ASSUME NEW j \in StateJobs(i)
        PROVE  j <= k + n
    <3>1. j \in Nat \ {0} /\ (j > n => j - n \in StateJobs(i)')
      BY <1>1
    <3>2. j > n => j - n <= k
      BY <2>1, <3>1
    <3>3. QED
      BY <1>2, <2>2, <3>1, <3>2
  <2>4. QED
    BY <2>2, <2>3 DEF IsLast
<1>4. ASSUME NEW i \in Instances, NEW k \in StateJobs(i)', NEW m \in StateJobs(i)', k < m,
             \A j \in StateJobs(i)' : ~(k < j /\ j < m)
      PROVE  \/ jobs'[m].old = jobs'[k].new
             \/ jobs'[k].new = "TERMINATING" /\ jobs'[m].new = "TERMINATING"
  <2>1. /\ k \in Nat /\ k + n \in StateJobs(i) /\ jobs'[k] = jobs[k + n]
        /\ m \in Nat /\ m + n \in StateJobs(i) /\ jobs'[m] = jobs[m + n]
    BY <1>1
  <2>2. ASSUME NEW j \in StateJobs(i), k + n < j, j < m + n
        PROVE  FALSE
    <3>1. j \in Nat \ {0} /\ (j > n => j - n \in StateJobs(i)')
      BY <1>1
    <3>2. j > n /\ k < j - n /\ j - n < m
      BY <1>2, <2>1, <2>2, <3>1
    <3>3. QED
      BY <1>4, <3>1, <3>2
  <2>3. k + n < m + n
    BY <1>2, <1>4, <2>1
  <2>4. \/ jobs[m + n].old = jobs[k + n].new
        \/ jobs[k + n].new = "TERMINATING" /\ jobs[m + n].new = "TERMINATING"
    BY <2>1, <2>2, <2>3 DEF Chained
  <2>5. QED
    BY <2>1, <2>4
<1>5. Chained'
  BY <1>4 DEF Chained
<1>6. JobsOfLaunched'
  BY <1>1 DEF JobsOfLaunched
<1>7. QED
  BY <1>3, <1>5, <1>6

\* A history goes on with an event that takes up where it ended.
LEMMA HistoryGrows ==
    ASSUME Inv, Chained, JobsOfLaunched, NEW e \in Events, Submit(e), e.kind = "STATE",
           e.inst \in Instances, e.inst <= lastInstance',
           lastInstance' \in Nat, lastInstance <= lastInstance',
           \A k : IsLast(k, e.inst) =>
               \/ e.old = jobs[k].new
               \/ jobs[k].new = "TERMINATING" /\ e.new = "TERMINATING"
    PROVE  /\ Chained' /\ JobsOfLaunched'
           /\ \A i, k : IsLast(k, i)' =>
                 \/ i = e.inst /\ jobs'[k] = e
                 \/ i # e.inst /\ IsLast(k, i) /\ jobs'[k] = jobs[k]
<1>1. jobs \in Seq(Events) /\ Len(jobs) \in Nat /\ DOMAIN jobs = 1..Len(jobs)
  BY LenProperties DEF Inv, TypeOK, EventsOK
<1> DEFINE n == Len(jobs) + 1
<1>2. /\ DOMAIN jobs' = 1..n /\ n \in Nat
      /\ \A k \in 1..Len(jobs) : jobs'[k] = jobs[k]
      /\ jobs'[n] = e
  BY <1>1, Appended DEF Submit
<1>3. \A k \in 1..n : k = n \/ k \in 1..Len(jobs)
  BY <1>1
<1>4. \A k \in 1..Len(jobs) : k \in 1..n /\ k \in Nat /\ k < n
  BY <1>1
<1>5. n \in 1..n
  BY <1>1
<1> HIDE DEF n
<1>6. ASSUME NEW i
      PROVE  /\ \A k \in StateJobs(i) : k \in StateJobs(i)' /\ k \in Nat /\ k < n /\ jobs'[k] = jobs[k]
             /\ \A k \in StateJobs(i)' : k \in StateJobs(i) \/ (k = n /\ i = e.inst)
             /\ n \in StateJobs(e.inst)'
  BY <1>1, <1>2, <1>3, <1>4, <1>5 DEF StateJobs
<1>7. ASSUME NEW i, NEW k, IsLast(k, i)'
      PROVE  \/ i = e.inst /\ jobs'[k] = e
             \/ i # e.inst /\ IsLast(k, i) /\ jobs'[k] = jobs[k]
  <2>1. k \in StateJobs(i)' /\ \A j \in StateJobs(i)' : j <= k
    BY <1>7 DEF IsLast
  <2>2. CASE i = e.inst
    <3>1. n <= k
      BY <1>6, <2>1, <2>2
    <3>2. k = n
      BY <1>2, <1>6, <2>1, <3>1
    <3>3. QED
      BY <1>2, <2>2, <3>2
  <2>3. CASE i # e.inst
    BY <1>6, <2>1, <2>3 DEF IsLast
  <2>4. QED
    BY <2>2, <2>3
<1>8. ASSUME NEW i \in Instances, NEW k \in StateJobs(i)', NEW m \in StateJobs(i)', k < m,
             \A j \in StateJobs(i)' : ~(k < j /\ j < m)
      PROVE  \/ jobs'[m].old = jobs'[k].new
             \/ jobs'[k].new = "TERMINATING" /\ jobs'[m].new = "TERMINATING"
  <2>1. k \in StateJobs(i)
    <3>1. m \in 1..n
      BY <1>2 DEF StateJobs
    <3>2. k # n
      BY <1>2, <1>8, <3>1
    <3>3. QED
      BY <1>6, <3>2
  <2>2. CASE m \in StateJobs(i)
    <3>1. \A j \in StateJobs(i) : ~(k < j /\ j < m)
      BY <1>6, <1>8
    <3>2. QED
      BY <1>6, <1>8, <2>1, <2>2, <3>1 DEF Chained
  <2>3. CASE m = n /\ i = e.inst
    <3>1. ASSUME NEW j \in StateJobs(i)
          PROVE  j <= k
      <4>1. j \in StateJobs(i)' /\ j \in Nat /\ j < m /\ k \in Nat
        BY <1>6, <2>1, <2>3
      <4>2. QED
        BY <1>8, <4>1
    <3>2. IsLast(k, e.inst)
      BY <2>1, <2>3, <3>1 DEF IsLast
    <3>3. jobs'[k] = jobs[k] /\ jobs'[m] = e
      BY <1>2, <1>6, <2>1, <2>3
    <3>4. QED
      BY <3>2, <3>3
  <2>4. QED
    BY <1>6, <2>2, <2>3
<1>9. Chained'
  BY <1>8 DEF Chained
<1>10. JobsOfLaunched'
  <2> SUFFICES ASSUME NEW i, NEW k \in StateJobs(i)'
               PROVE  i \in Instances /\ i <= lastInstance'
    BY DEF JobsOfLaunched
  <2>1. CASE i = e.inst
    BY <2>1
  <2>2. CASE k \in StateJobs(i)
    <3>1. i \in Instances /\ i <= lastInstance
      BY <2>2 DEF JobsOfLaunched
    <3>2. lastInstance \in Nat /\ i \in Nat
      BY <3>1, ConstantsAssumption DEF Inv, TypeOK, EventsOK, Instances
    <3>3. QED
      BY <3>1, <3>2
  <2>3. QED
    BY <1>6, <2>1, <2>2
<1>11. QED
  BY <1>7, <1>9, <1>10

\* The path that is begun for a request.
LEMMA PathBegins ==
    ASSUME TerminatesAlike, Inv, TakeRequest
    PROVE  PathAlike'
<1>1. CASE worker'.pc \notin InStep
  BY <1>1 DEF PathAlike
<1>2. CASE worker'.pc \in InStep
  <2> DEFINE s == mState[Cur]
             t == Head(gRequests).target
             p == Steps[s][t]
  <2>1. worker'.path = p /\ p # <<>> /\ UNCHANGED <<gRequests, mState>>
    BY <1>2 DEF TakeRequest, InStep, Waits, Path, contextVars
  <2>2. Head(gRequests) \in Requests
    BY HeadElement DEF TakeRequest, Inv, TypeOK, RequestsOK
  <2>3. s \in LifecycleStates /\ t \in LifecycleStates
    BY <2>2 DEF Inv, TypeOK, ContextsOK, Cur, Requests
  <2> HIDE DEF s, t, p
  <2>4. p \in Seq(LifecycleStates) /\ IsPath(s, t, p)
    BY <2>1, <2>3, StepsAssumption DEF p
  <2>5. Len(p) \in Nat /\ DOMAIN p = 1..Len(p)
    BY <2>4, LenProperties
  <2>6. ASSUME NEW k \in DOMAIN p, p[k] = "TERMINATING"
        PROVE  t = "TERMINATING"
    <3>1. CASE k = Len(p)
      BY <2>4, <2>6, <3>1 DEF IsPath, Final
    <3>2. CASE k # Len(p)
      <4>1. k \in 1..(Len(p) - 1) /\ k + 1 \in DOMAIN p
        BY <2>5, <3>2
      <4>2. <<p[k], p[k + 1]>> \in Edges
        BY <2>4, <4>1 DEF IsPath, Walk
      <4>3. p[k + 1] = "UNLOADED"
        BY <2>6, <4>2 DEF Edges
      <4>4. QED
        BY <2>4, <4>1, <4>3 DEF IsPath
    <3>3. QED
      BY <3>1, <3>2
  <2>7. ASSUME NEW k \in DOMAIN p, p[k] = "TERMINATING"
        PROVE  Alike(IF k = 1 THEN s ELSE p[k - 1])
    BY <2>3, <2>7 DEF TerminatesAlike, p
  <2>8. Cur' = Cur /\ mState'[Cur'] = s /\ Head(gRequests') = Head(gRequests)
    BY <2>1 DEF Cur, s
  <2>9. \A k \in DOMAIN worker'.path : worker'.path[k] = "TERMINATING" =>
            /\ Alike(IF k = 1 THEN mState'[Cur'] ELSE worker'.path[k - 1])
            /\ Head(gRequests').target = "TERMINATING"
    BY <2>1, <2>6, <2>7, <2>8 DEF t
  <2>10. QED
    BY <2>9 DEF PathAlike, Alike
<1>3. QED
  BY <1>1, <1>2

\* What remains of the path after a step.
LEMMA PathGoesOn ==
    ASSUME Inv, PathAlike, worker.pc \in InStep, NEW s \in LifecycleStates,
           Head(worker.path) = s, Enter(s)
    PROVE  PathAlike'
<1>1. /\ worker.path \in Seq(LifecycleStates) /\ worker.path # <<>>
      /\ Cur \in Contexts /\ mState \in [Contexts -> LifecycleStates]
  BY CurInContexts DEF Inv, TypeOK, ContextsOK
<1>2. CASE Len(worker.path) = 1
  BY <1>2 DEF Enter, PathAlike, InStep, Waits
<1>3. CASE Len(worker.path) # 1
  <2>1. /\ worker'.path = Tail(worker.path) /\ gRequests' = gRequests
        /\ Cur' = Cur /\ mState'[Cur] = s /\ worker.path[1] = s
    BY <1>1, <1>3, HeadElement DEF Enter, AfterStep, Cur
  <2>2. ASSUME NEW k \in DOMAIN worker'.path, worker'.path[k] = "TERMINATING"
        PROVE  /\ Alike(IF k = 1 THEN mState'[Cur'] ELSE worker'.path[k - 1])
               /\ Head(gRequests').target = "TERMINATING"
    <3>1. /\ k \in Nat /\ k + 1 \in DOMAIN worker.path /\ worker.path[k + 1] = "TERMINATING"
          /\ worker'.path \in Seq(LifecycleStates)
      BY <1>1, <2>1, <2>2, TailElement
    <3>2. k >= 1 /\ k + 1 # 1 /\ (k + 1) - 1 = k
      <4>1. k \in 1..Len(worker'.path)
        BY <2>2, <3>1, LenProperties
      <4>2. QED
        BY <3>1, <4>1
    <3>3. Alike(worker.path[k]) /\ Head(gRequests).target = "TERMINATING"
      BY <3>1, <3>2 DEF PathAlike
    <3>4. worker.path[k] = IF k = 1 THEN mState'[Cur'] ELSE worker'.path[k - 1]
      <4>1. CASE k = 1
        BY <2>1, <4>1
      <4>2. CASE k # 1
        <5>1. k - 1 \in DOMAIN worker'.path /\ (k - 1) + 1 = k
          <6>1. k \in 1..Len(worker'.path) /\ DOMAIN worker'.path = 1..Len(worker'.path)
                  /\ Len(worker'.path) \in Nat
            BY <2>2, <3>1, LenProperties
          <6>2. QED
            BY <4>2, <6>1
        <5>2. worker'.path[k - 1] = worker.path[k]
          BY <1>1, <2>1, <5>1, TailElement
        <5>3. QED
          BY <4>2, <5>2
      <4>3. QED
        BY <4>1, <4>2
    <3>5. QED
      BY <2>1, <3>3, <3>4
  <2>3. QED
    BY <2>2 DEF PathAlike, Alike
<1>4. QED
  BY <1>2, <1>3

\* A step that enters no state and announces none.
LEMMA StillTold ==
    ASSUME Inv, HInv, Calmly, UNCHANGED <<mState, mAppInstanceId, lastInstance>>,
           worker'.pc = "waitTerminated" => worker.pc = "waitTerminated" /\ Cur' = Cur,
           PathAlike',
           \A c \in Contexts : Announced(c) /\ mState[c] # "TERMINATING" => Announced(c)'
    PROVE  HInv'
<1>1. /\ Chained' /\ JobsOfLaunched'
      /\ \A i, k : IsLast(k, i)' => \E m : IsLast(m, i) /\ jobs'[k] = jobs[m]
  BY HistoryKept DEF HInv
<1>2. ASSUME NEW c \in Contexts, NEW k, IsLast(k, mAppInstanceId[c])'
      PROVE  Tells(k, c)'
  <2>1. PICK m : IsLast(m, mAppInstanceId[c]) /\ jobs'[k] = jobs[m]
    BY <1>1, <1>2 DEF IsLast, StateJobs
  <2>2. Tells(m, c)
    BY <2>1 DEF HInv, AllTold
  <2>3. QED
    BY <2>1, <2>2 DEF Tells
<1>3. Waiting'
  <2> SUFFICES ASSUME worker'.pc = "waitTerminated", NEW k, IsLast(k, CurInst)'
               PROVE  jobs'[k].new = "TERMINATING"
    BY DEF Waiting
  <2>1. CurInst' = CurInst
    BY DEF CurInst
  <2>2. PICK m : IsLast(m, CurInst) /\ jobs'[k] = jobs[m]
    BY <1>1, <2>1 DEF IsLast, StateJobs
  <2>3. QED
    BY <2>2 DEF HInv, Waiting
<1>4. AllTold'
  BY <1>2 DEF AllTold
<1>5. QED
  BY <1>1, <1>3, <1>4 DEF HInv

\* What is queued of other instances is not concerned by a step.
LEMMA OthersTold ==
    ASSUME HInv, NEW c \in Contexts, c # Cur, NEW k, IsLast(k, mAppInstanceId[c])
    PROVE  jobs[k].new = mState[c]
BY DEF HInv, AllTold, Tells, Announced

\* A step that enters s and tells it.
LEMMA EnterTold ==
    ASSUME Inv, DInv, UInv, HInv, worker.pc \in InStep, NEW s \in LifecycleStates,
           s \notin {"LOADING", "TERMINATING"}, Head(worker.path) = s, Enter(s),
           Submit(StateEvent(CurInst, mState[Cur], s)), UNCHANGED <<mAppInstanceId, lastInstance>>
    PROVE  HInv'
<1>1. PICK d \in Contexts : d = Cur
  BY CurInContexts
<1>2. PICK i \in Instances : i = CurInst /\ i = mAppInstanceId[d] /\ i # 0
  BY <1>1, LeavesUnloaded, CurLaunched
<1>3. /\ mState \in [Contexts -> LifecycleStates] /\ mState[d] \in LifecycleStates
      /\ lastInstance \in Nat /\ i <= lastInstance /\ i \in Nat
  <2>1. i \in 0..lastInstance /\ lastInstance \in 0..MaxInstances
    BY <1>2, Unmoved
  <2>2. mState \in [Contexts -> LifecycleStates]
    BY DEF Inv, TypeOK, ContextsOK
  <2>3. QED
    BY <2>1, <2>2, ConstantsAssumption
<1>4. PICK e \in Events : e = StateEvent(i, mState[d], s)
  BY <1>3, EventTypes
<1>5. Submit(e) /\ e.kind = "STATE" /\ e.inst = i /\ e.old = mState[d] /\ e.new = s
  BY <1>1, <1>2, <1>4 DEF StateEvent
<1>6. mState'[d] = s /\ \A c \in Contexts : c # d => mState'[c] = mState[c]
  BY <1>1, <1>3 DEF Enter
<1>7. ASSUME NEW k, IsLast(k, i)
      PROVE  jobs[k].new = mState[d]
  BY <1>2, <1>7 DEF HInv, AllTold, Tells, Announced
<1>8. /\ Chained' /\ JobsOfLaunched'
      /\ \A j, k : IsLast(k, j)' =>
            \/ j = e.inst /\ jobs'[k] = e
            \/ j # e.inst /\ IsLast(k, j) /\ jobs'[k] = jobs[k]
  BY <1>3, <1>5, <1>7, HistoryGrows DEF HInv
<1>9. ASSUME NEW c \in Contexts, NEW k, IsLast(k, mAppInstanceId[c])'
      PROVE  jobs'[k].new = mState'[c]
  <2>1. CASE c = d
    BY <1>2, <1>5, <1>6, <1>8, <1>9, <2>1 DEF IsLast, StateJobs
  <2>2. CASE c # d
    <3>1. mAppInstanceId[c] # i
      BY <1>2, <2>2 DEF DInv, DistinctInstances
    <3>2. IsLast(k, mAppInstanceId[c]) /\ jobs'[k] = jobs[k]
      BY <1>5, <1>8, <1>9, <3>1 DEF IsLast, StateJobs
    <3>3. QED
      BY <1>1, <1>6, <2>2, <3>2, OthersTold
  <2>3. QED
    BY <2>1, <2>2
<1>10. AllTold'
  BY <1>9 DEF AllTold, Tells
<1>11. Waiting'
  BY DEF Enter, Waiting
<1>12. PathAlike'
  BY PathGoesOn DEF HInv
<1>13. QED
  BY <1>8, <1>10, <1>11, <1>12 DEF HInv

\* A launch: there is no event of the new instance yet.
LEMMA LaunchTold ==
    ASSUME Inv, DInv, HInv, EnterLoading
    PROVE  HInv'
<1>1. worker.pc \in InStep /\ Head(worker.path) = "LOADING" /\ "LOADING" \in LifecycleStates
  BY DEF EnterLoading, GoingTo, InStep, LifecycleStates
<1>2. PICK d \in Contexts : d = Cur
  BY <1>1, CurInContexts
<1>3. PICK i : i = lastInstance + 1
  OBVIOUS
<1>4. /\ mState \in [Contexts -> LifecycleStates] /\ mState[d] \in LifecycleStates
      /\ mAppInstanceId \in [Contexts -> 0..lastInstance] /\ lastInstance \in Nat
      /\ i \in Instances /\ i \in Nat /\ lastInstance' = i /\ i > lastInstance
  BY <1>2, <1>3, ConstantsAssumption
     DEF EnterLoading, Instances, Inv, TypeOK, ContextsOK, EventsOK
<1>5. PICK e \in Events : e = StateEvent(i, mState[d], "LOADING")
  BY <1>1, <1>4, EventTypes
<1>6. Submit(e) /\ e.kind = "STATE" /\ e.inst = i /\ e.new = "LOADING"
  BY <1>2, <1>3, <1>5 DEF StateEvent, EnterLoading
<1>7. Enter("LOADING") /\ mAppInstanceId' = [mAppInstanceId EXCEPT ![d] = i]
  BY <1>2, <1>3 DEF EnterLoading
<1>8. /\ mState'[d] = "LOADING" /\ \A c \in Contexts : c # d => mState'[c] = mState[c]
      /\ mAppInstanceId'[d] = i
      /\ \A c \in Contexts : c # d => mAppInstanceId'[c] = mAppInstanceId[c] /\ mAppInstanceId[c] # i
  <2>1. /\ mState'[d] = "LOADING" /\ \A c \in Contexts : c # d => mState'[c] = mState[c]
    BY <1>2, <1>4, <1>7 DEF Enter
  <2>2. ASSUME NEW c \in Contexts PROVE mAppInstanceId[c] # i
    BY <1>4
  <2>3. QED
    BY <1>4, <1>7, <2>1, <2>2
<1>9. ASSUME NEW k, IsLast(k, i)
      PROVE  FALSE
  <2>1. i <= lastInstance
    BY <1>9 DEF IsLast, HInv, JobsOfLaunched
  <2>2. QED
    BY <1>4, <2>1
<1>10. /\ Chained' /\ JobsOfLaunched'
       /\ \A j, k : IsLast(k, j)' =>
             \/ j = e.inst /\ jobs'[k] = e
             \/ j # e.inst /\ IsLast(k, j) /\ jobs'[k] = jobs[k]
  <2>1. e.inst <= lastInstance' /\ lastInstance' \in Nat /\ lastInstance <= lastInstance'
    BY <1>4, <1>6
  <2>2. QED
    BY <1>4, <1>6, <1>9, <2>1, HistoryGrows DEF HInv
<1>11. ASSUME NEW c \in Contexts, NEW k, IsLast(k, mAppInstanceId[c])'
       PROVE  jobs'[k].new = mState'[c]
  <2>1. CASE c = d
    BY <1>6, <1>8, <1>10, <1>11, <2>1 DEF IsLast, StateJobs
  <2>2. CASE c # d
    <3>1. IsLast(k, mAppInstanceId[c]) /\ jobs'[k] = jobs[k]
      BY <1>6, <1>8, <1>10, <1>11, <2>2 DEF IsLast, StateJobs
    <3>2. QED
      BY <1>2, <1>8, <2>2, <3>1, OthersTold
  <2>3. QED
    BY <2>1, <2>2
<1>12. AllTold'
  BY <1>11 DEF AllTold, Tells
<1>13. Waiting'
  BY <1>7 DEF Enter, Waiting
<1>14. PathAlike'
  BY <1>1, <1>7, PathGoesOn DEF HInv
<1>15. QED
  BY <1>10, <1>12, <1>13, <1>14 DEF HInv

\* TERMINATING is announced, perhaps once more.
LEMMA EndAnnounced ==
    ASSUME Inv, DInv, UInv, HInv, NEW o, StartTerminating(o)
    PROVE  HInv'
<1>1. worker.pc \in InStep /\ worker.pc = "step" /\ Head(worker.path) = "TERMINATING"
  BY DEF StartTerminating, GoingTo, InStep
<1>2. PICK d \in Contexts : d = Cur
  BY <1>1, CurInContexts
<1>3. PICK i \in Instances : i = CurInst /\ i = mAppInstanceId[d] /\ i # 0
  BY <1>1, <1>2, LeavesUnloaded, CurLaunched
<1>4. /\ mState[d] \in LifecycleStates /\ "TERMINATING" \in LifecycleStates
      /\ lastInstance \in Nat /\ i <= lastInstance /\ i \in Nat
      /\ gRequests # <<>> /\ worker.path \in Seq(LifecycleStates) /\ worker.path # <<>>
  <2>1. i \in 0..lastInstance /\ lastInstance \in 0..MaxInstances
    BY <1>3, Unmoved
  <2>2. i \in Nat /\ i <= lastInstance /\ lastInstance \in Nat
    BY <2>1, ConstantsAssumption
  <2>3. QED
    BY <1>1, <1>2, <2>2, CurInContexts DEF LifecycleStates
<1>5. PICK e \in Events : e = StateEvent(i, mState[d], "TERMINATING")
  BY <1>4, EventTypes
<1>6. Submit(e) /\ e.kind = "STATE" /\ e.inst = i /\ e.old = mState[d] /\ e.new = "TERMINATING"
  BY <1>2, <1>3, <1>5 DEF StateEvent, StartTerminating
<1>7. /\ UNCHANGED <<mState, mAppInstanceId, lastInstance, gRequests>>
      /\ worker' = [worker EXCEPT !.pc = "waitTerminated"] \/ worker' = [pc |-> "asleep", path |-> <<>>]
  BY DEF StartTerminating, unchangedByStep, Block, GiveUp
<1>8. ASSUME NEW k, IsLast(k, i)
      PROVE  jobs[k].new = mState[d] \/ jobs[k].new = "TERMINATING"
  BY <1>3, <1>8 DEF HInv, AllTold, Tells
<1>9. /\ Chained' /\ JobsOfLaunched'
      /\ \A j, k : IsLast(k, j)' =>
            \/ j = e.inst /\ jobs'[k] = e
            \/ j # e.inst /\ IsLast(k, j) /\ jobs'[k] = jobs[k]
  BY <1>4, <1>6, <1>7, <1>8, HistoryGrows DEF HInv
<1>10. PathAlike'
  <2>1. CASE worker' = [worker EXCEPT !.pc = "waitTerminated"]
    <3>1. worker'.path = worker.path /\ Cur' = Cur
      BY <1>7, <2>1 DEF Inv, TypeOK, RequestsOK, Cur
    <3>2. QED
      BY <1>1, <1>7, <3>1 DEF HInv, PathAlike, Alike
  <2>2. CASE worker' = [pc |-> "asleep", path |-> <<>>]
    BY <2>2 DEF PathAlike, InStep, Waits
  <2>3. QED
    BY <1>7, <2>1, <2>2
<1>11. Announced(d)'
  <2>1. Alike(mState[d]) /\ Head(gRequests).target = "TERMINATING"
    <3>1. 1 \in DOMAIN worker.path /\ worker.path[1] = "TERMINATING"
      BY <1>1, <1>4, HeadElement
    <3>2. QED
      BY <1>1, <1>2, <3>1 DEF HInv, PathAlike
  <2>2. worker'.pc \in InStep => Head(worker'.path) = "TERMINATING"
    <3>1. CASE worker' = [worker EXCEPT !.pc = "waitTerminated"]
      BY <1>1, <3>1 DEF Inv, TypeOK, RequestsOK
    <3>2. CASE worker' = [pc |-> "asleep", path |-> <<>>]
      BY <3>2 DEF InStep, Waits
    <3>3. QED
      BY <1>7, <3>1, <3>2
  <2>3. QED
    BY <1>2, <1>4, <1>7, <2>1, <2>2 DEF Announced, Cur, Alike
<1>12. ASSUME NEW c \in Contexts, NEW k, IsLast(k, mAppInstanceId[c])'
       PROVE  Tells(k, c)'
  <2>1. CASE c = d
    <3>1. jobs'[k] = e
      BY <1>3, <1>6, <1>7, <1>9, <1>12, <2>1 DEF IsLast, StateJobs
    <3>2. QED
      BY <1>6, <1>7, <1>11, <2>1, <3>1 DEF Tells
  <2>2. CASE c # d
    <3>1. mAppInstanceId[c] # i
      BY <1>3, <2>2 DEF DInv, DistinctInstances
    <3>2. IsLast(k, mAppInstanceId[c]) /\ jobs'[k] = jobs[k]
      BY <1>6, <1>7, <1>9, <1>12, <3>1 DEF IsLast, StateJobs
    <3>3. jobs[k].new = mState[c]
      BY <1>2, <2>2, <3>2, OthersTold
    <3>4. QED
      BY <1>7, <3>2, <3>3 DEF Tells
  <2>3. QED
    BY <2>1, <2>2
<1>13. AllTold'
  BY <1>12 DEF AllTold
<1>14. Waiting'
  <2> SUFFICES ASSUME NEW k, IsLast(k, CurInst)'
               PROVE  jobs'[k].new = "TERMINATING"
    BY DEF Waiting
  <2>1. CurInst' = i
    BY <1>3, <1>7 DEF Cur, CurInst
  <2>2. jobs'[k] = e
    BY <1>6, <1>9, <2>1 DEF IsLast, StateJobs
  <2>3. QED
    BY <1>6, <2>2
<1>15. QED
  BY <1>9, <1>10, <1>13, <1>14 DEF HInv

\* The state follows its announcement.
LEMMA EndEntered ==
    ASSUME Inv, DInv, HInv, EnterTerminating
    PROVE  HInv'
<1>1. /\ worker.pc \in InStep /\ worker.pc = "waitTerminated" /\ Head(worker.path) = "TERMINATING"
      /\ "TERMINATING" \in LifecycleStates
  BY DEF EnterTerminating, InStep, Waits, Inv, OnPath, LifecycleStates
<1>2. PICK d \in Contexts : d = Cur
  BY <1>1, CurInContexts
<1>3. Enter("TERMINATING") /\ UNCHANGED <<mAppInstanceId, jobs, lastInstance>>
  BY DEF EnterTerminating
<1>4. mState'[d] = "TERMINATING" /\ \A c \in Contexts : c # d => mState'[c] = mState[c]
  BY <1>2, <1>3 DEF Enter, Inv, TypeOK, ContextsOK
<1>5. Chained' /\ JobsOfLaunched'
  BY <1>3, HistoryKept DEF HInv, Calmly
<1>6. ASSUME NEW c \in Contexts, NEW k, IsLast(k, mAppInstanceId[c])'
      PROVE  jobs'[k].new = mState'[c]
  <2>1. IsLast(k, mAppInstanceId[c]) /\ jobs'[k] = jobs[k]
    BY <1>3, <1>6 DEF IsLast, StateJobs
  <2>2. CASE c = d
    BY <1>1, <1>2, <1>4, <2>1, <2>2 DEF HInv, Waiting, CurInst
  <2>3. CASE c # d
    BY <1>2, <1>4, <2>1, <2>3, OthersTold
  <2>4. QED
    BY <2>2, <2>3
<1>7. AllTold'
  BY <1>6 DEF AllTold, Tells
<1>8. Waiting'
  BY <1>3 DEF Enter, Waiting
<1>9. PathAlike'
  BY <1>1, <1>3, PathGoesOn DEF HInv
<1>10. QED
  BY <1>5, <1>7, <1>8, <1>9 DEF HInv

LEMMA WorkerTold ==
    ASSUME TerminatesAlike, Inv, DInv, UInv, HInv, WorkerNext
    PROVE  HInv'
<1>1. worker \in [pc : {"scan", "asleep", "exited", "crashed"} \cup InStep, path : Seq(LifecycleStates)]
  BY DEF Inv, TypeOK, RequestsOK
<1>2. CASE TakeRequest
  <2>1. PathAlike'
    BY <1>2, PathBegins
  <2>2. UNCHANGED <<mState, mAppInstanceId, lastInstance, jobs>> /\ worker'.pc # "waitTerminated"
    BY <1>2 DEF TakeRequest, contextVars
  <2>3. ASSUME NEW c \in Contexts, Announced(c), mState[c] # "TERMINATING"
        PROVE  Announced(c)'
    <3>1. Cur = c /\ Head(gRequests).target = "TERMINATING" /\ Alike(mState[c])
      BY <2>3 DEF Announced
    <3>2. Path("TERMINATING") # <<>> /\ Head(Path("TERMINATING")) = "TERMINATING"
      BY <3>1 DEF Alike, Path
    <3>3. gRequests' = gRequests /\ worker'.path = Path("TERMINATING")
      BY <1>2, <2>3, <3>1, <3>2 DEF TakeRequest
    <3>4. QED
      BY <2>2, <2>3, <3>1, <3>2, <3>3 DEF Announced, Cur, Alike
  <2>4. QED
    BY <2>1, <2>2, <2>3, StillTold DEF Calmly
<1>3. ASSUME UNCHANGED <<mState, mAppInstanceId, lastInstance, jobs, gRequests>>,
             worker'.pc \in InStep => worker'.path = worker.path /\ worker.pc \in InStep,
             worker'.pc # "waitTerminated"
      PROVE  HInv'
  <2>1. PathAlike'
    <3>1. Cur' = Cur
      BY <1>3 DEF Cur
    <3>2. QED
      BY <1>3, <3>1 DEF HInv, PathAlike, Alike
  <2>2. \A c \in Contexts : Announced(c) => Announced(c)'
    BY <1>3 DEF Announced, Cur, Alike
  <2>3. QED
    BY <1>3, <2>1, <2>2, StillTold DEF Calmly
<1>4. CASE QueueEmpty \/ WakeUp
  BY <1>1, <1>3, <1>4 DEF QueueEmpty, WakeUp, contextVars, requestVars, InStep, Waits
<1>5. ASSUME GiveUp \/ Block("waitRunning") \/ Block("waitFrame"), worker.pc = "step",
             UNCHANGED <<mAppInstanceId, lastInstance, jobs>>
      PROVE  HInv'
  BY <1>1, <1>3, <1>5 DEF GiveUp, Block, InStep, Waits
<1>6. CASE StartInitializing \/ NotRendered
  BY <1>5, <1>6 DEF StartInitializing, NotRendered, GoingTo
<1>7. CASE EnterLoading
  BY <1>7, LaunchTold
<1>8. CASE EnterPaused \/ EnterUnloaded
  <2>1. PICK s \in {"PAUSED", "UNLOADED"} :
            /\ worker.pc = "step" /\ Head(worker.path) = s /\ Enter(s)
            /\ Submit(StateEvent(CurInst, mState[Cur], s)) /\ UNCHANGED <<mAppInstanceId, lastInstance>>
    BY <1>8 DEF EnterPaused, EnterUnloaded, GoingTo
  <2>2. QED
    BY <2>1, EnterTold DEF InStep, LifecycleStates
<1>9. CASE EnterInitializing \/ EnterActive
  <2>1. PICK s \in {"INITIALIZING", "ACTIVE"} :
            /\ worker.pc \in InStep /\ Head(worker.path) = s /\ Enter(s)
            /\ Submit(StateEvent(CurInst, mState[Cur], s)) /\ UNCHANGED <<mAppInstanceId, lastInstance>>
    BY <1>9 DEF EnterInitializing, EnterActive, GoingTo, InStep, Waits, Inv, OnPath
  <2>2. QED
    BY <2>1, EnterTold DEF LifecycleStates
<1>10. ASSUME NEW s \in {"SUSPENDED", "HIBERNATED"}, NEW o \in RuntimeOutcomes, EnterByRuntime(s, o)
       PROVE  HInv'
  <2>1. worker.pc = "step" /\ Head(worker.path) = s /\ UNCHANGED <<mAppInstanceId, lastInstance>>
    BY <1>10 DEF EnterByRuntime, GoingTo
  <2>2. \/ GiveUp /\ UNCHANGED jobs
        \/ Enter(s) /\ Submit(StateEvent(CurInst, mState[Cur], s))
    BY <1>10 DEF EnterByRuntime
  <2>3. CASE GiveUp /\ UNCHANGED jobs
    BY <1>5, <2>1, <2>3
  <2>4. CASE Enter(s) /\ Submit(StateEvent(CurInst, mState[Cur], s))
    BY <2>1, <2>4, EnterTold DEF InStep, LifecycleStates
  <2>5. QED
    BY <2>2, <2>3, <2>4
<1>11. ASSUME NEW o, StartTerminating(o)
       PROVE  HInv'
  BY <1>11, EndAnnounced
<1>12. CASE EnterTerminating
  BY <1>12, EndEntered
<1>13. QED
  BY <1>2, <1>4, <1>6, <1>7, <1>8, <1>9, <1>10, <1>11, <1>12 DEF WorkerNext

\* Nobody else enters a state or disturbs the head of the queue.
LEMMA ElsewhereTold ==
    ASSUME Inv, HInv, Calmly, UNCHANGED <<mState, mAppInstanceId, lastInstance, worker>>,
           \/ gRequests' = gRequests
           \/ MutexFree /\ \E r \in Requests : gRequests' = Append(gRequests, r)
    PROVE  HInv'
<1>1. gRequests # <<>> => gRequests' # <<>> /\ Head(gRequests') = Head(gRequests)
  <2>1. CASE gRequests' = gRequests
    BY <2>1
  <2>2. ASSUME NEW r \in Requests, gRequests' = Append(gRequests, r), gRequests # <<>>
        PROVE  gRequests' # <<>> /\ Head(gRequests') = Head(gRequests)
    <3>1. gRequests \in Seq(Requests)
      BY DEF Inv, TypeOK, RequestsOK
    <3>2. gRequests' \in Seq(Requests) /\ gRequests' # <<>> /\ gRequests'[1] = gRequests[1]
      <4>1. Len(gRequests) \in Nat \ {0}
        BY <2>2, <3>1, HeadElement
      <4>2. /\ gRequests' \in Seq(Requests) /\ Len(gRequests') = Len(gRequests) + 1
            /\ \A k \in 1..Len(gRequests) : gRequests'[k] = gRequests[k]
        BY <2>2, <3>1, AppendProperties
      <4>3. gRequests' # <<>>
        <5>1. Len(gRequests') # 0
          BY <4>1, <4>2
        <5>2. Len(<<>>) = 0
          BY EmptySeq
        <5>3. QED
          BY <5>1, <5>2
      <4>4. 1 \in 1..Len(gRequests)
        BY <4>1
      <4>5. QED
        BY <4>2, <4>3, <4>4
    <3>3. Head(gRequests) = gRequests[1] /\ Head(gRequests') = gRequests'[1]
      BY <2>2, <3>1, <3>2, HeadElement
    <3>4. QED
      BY <3>2, <3>3
  <2>3. QED
    BY <2>1, <2>2
<1>2. worker.pc \in InStep => gRequests' = gRequests
  BY DEF MutexFree
<1>3. PathAlike'
  <2>1. CASE worker.pc \notin InStep
    BY <2>1 DEF PathAlike
  <2>2. CASE worker.pc \in InStep
    <3>1. Cur' = Cur /\ gRequests' = gRequests
      BY <1>2, <2>2 DEF Cur
    <3>2. QED
      BY <2>2, <3>1 DEF HInv, PathAlike, Alike
  <2>3. QED
    BY <2>1, <2>2
<1>4. worker'.pc = "waitTerminated" => worker.pc = "waitTerminated" /\ Cur' = Cur
  BY <1>2 DEF Cur, InStep, Waits
<1>5. \A c \in Contexts : Announced(c) => Announced(c)'
  BY <1>1 DEF Announced, Cur, Alike
<1>6. QED
  BY <1>3, <1>4, <1>5, StillTold

LEMMA ClientTold ==
    ASSUME Inv, HInv, NEW t \in Clients, ClientNext(t)
    PROVE  HInv'
<1>1. UNCHANGED <<mAppInstanceId, mState, jobs, lastInstance, worker>>
  BY DEF ClientNext, SpawnApp, SpawnPrepare, AddRequest, SpawnReturn, CloseAppSpawns, CloseApp,
         SetTargetAppState, UnloadApp, KillApp, CallOnInstance, unchangedByCall, contextVars
<1>2. CASE AddRequest(t)
  <2>1. /\ [ctx |-> client[t].ctx, target |-> client[t].target] \in Requests
        /\ MutexFree
        /\ gRequests' = Append(gRequests, [ctx |-> client[t].ctx, target |-> client[t].target])
    BY <1>2 DEF AddRequest, Requests, Inv, TypeOK, ClientsOK
  <2>2. QED
    BY <1>1, <2>1, ElsewhereTold DEF Calmly
<1>3. CASE ~AddRequest(t)
  <2>1. gRequests' = gRequests
    BY <1>3 DEF ClientNext, SpawnApp, SpawnPrepare, SpawnReturn, CloseAppSpawns, CloseApp,
         SetTargetAppState, UnloadApp, KillApp, CallOnInstance, unchangedByCall
  <2>2. QED
    BY <1>1, <2>1, ElsewhereTold DEF Calmly
<1>4. QED
  BY <1>2, <1>3

LEMMA RuntimeTold ==
    ASSUME Inv, HInv, NEW i \in Instances,
           ContainerRuns(i) \/ ContainerStops(i) \/ ContainerCrashes(i) \/ FirstFrame(i)
    PROVE  HInv'
<1>1. UNCHANGED <<mAppInstanceId, mState, lastInstance, worker, gRequests>>
  BY DEF ContainerRuns, ContainerStops, ContainerCrashes, FirstFrame, ContainerGoes,
         contextVars, requestVars
<1>2. PICK n \in {"RUNNING", "TERMINATED", "READY"} : Submit(RuntimeEvent(n, i))
  BY DEF ContainerRuns, ContainerStops, ContainerCrashes, FirstFrame, ContainerGoes
<1>3. PICK e \in Events : e = RuntimeEvent(n, i)
  BY EventTypes, ConstantsAssumption DEF Instances
<1>4. e.kind # "STATE"
  BY <1>3 DEF RuntimeEvent
<1>5. QED
  BY <1>1, <1>2, <1>3, <1>4, ElsewhereTold DEF Calmly

LEMMA NextHInv ==
    PoolThreads = 1 /\ TerminatesAlike /\ Inv /\ DInv /\ UInv /\ HInv /\ [Next]_vars => HInv'
<1> SUFFICES ASSUME PoolThreads = 1, TerminatesAlike, Inv, DInv, UInv, HInv, [Next]_vars
             PROVE  HInv'
  OBVIOUS
<1>1. CASE Terminate \/ UNCHANGED vars
  BY <1>1, ElsewhereTold DEF Terminate, vars, contextVars, requestVars, Calmly
<1>2. CASE Crash
  <2>1. UNCHANGED <<mAppInstanceId, mState, lastInstance, gRequests, jobs>> /\ worker'.pc = "crashed"
    BY <1>2 DEF Crash, contextVars, requestVars
  <2>2. PathAlike' /\ \A c \in Contexts : Announced(c) => Announced(c)'
    BY <2>1 DEF PathAlike, Announced, Cur, Alike, InStep, Waits
  <2>3. QED
    BY <2>1, <2>2, StillTold DEF Calmly
<1>3. ASSUME NEW k \in 1..PoolThreads, Dispatch(k)
      PROVE  HInv'
  <2>1. k = 1
    BY <1>3
  <2>2. UNCHANGED <<mAppInstanceId, mState, lastInstance, worker, gRequests>> /\ Calmly
    BY <1>3, <2>1 DEF Dispatch, requestVars, Calmly
  <2>3. QED
    BY <2>2, ElsewhereTold
<1>4. ASSUME NEW c \in Contexts, DeleteContext(c) \/ EraseContext(c)
      PROVE  HInv'
  BY <1>4, ElsewhereTold DEF DeleteContext, EraseContext, unchangedByDelete, requestVars, Calmly
<1>5. QED
  BY <1>1, <1>2, <1>3, <1>4, WorkerTold, ClientTold, RuntimeTold DEF Next, Rest

\* With one pool thread, the state change events queued for an instance tell
\* its history without a gap and up to its present state, through steps that
\* fail, transitions that are given up and taken up again, and launches of
\* other instances; only the announcement of TERMINATING may be repeated.
THEOREM HistoryAlwaysTold ==
    PoolThreads = 1 /\ TerminatesAlike => (Spec => []EventsTellHistory)
<1> SUFFICES ASSUME PoolThreads = 1, TerminatesAlike
             PROVE  Spec => []EventsTellHistory
  OBVIOUS
<1>1. Init => HInv
  BY DEF Init, HInv, Chained, JobsOfLaunched, StateJobs, AllTold, IsLast, Waiting, PathAlike, InStep, Waits
<1>2. Inv /\ DInv /\ UInv /\ HInv /\ [Next]_vars => HInv'
  BY NextHInv
<1>3. HInv => EventsTellHistory
  <2> SUFFICES ASSUME HInv PROVE EventsTellHistory
    OBVIOUS
  <2>1. ASSUME NEW c \in Contexts, NEW k \in StateJobs(mAppInstanceId[c]),
               \A j \in StateJobs(mAppInstanceId[c]) : j <= k
        PROVE  \/ jobs[k].new = mState[c]
               \/ jobs[k].new = "TERMINATING" /\ jobs[k].old = mState[c]
    BY <2>1 DEF HInv, AllTold, IsLast, Tells
  <2>2. QED
    BY <2>1 DEF HInv, Chained, EventsTellHistory
<1>4. Spec => []DInv
  BY Invariant, InitDInv, NextDInv, PTL DEF Spec
<1>5. Spec => []UInv
  BY <1>4, Invariant, InitUInv, NextUInv, PTL DEF Spec
<1>6. QED
  BY <1>1, <1>2, <1>3, <1>4, <1>5, Invariant, PTL DEF Spec
=============================================================================
