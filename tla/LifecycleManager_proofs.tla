----------------------- MODULE LifecycleManager_proofs -----------------------
(***************************************************************************)
(* Theorems about LifecycleManager, for every set of applications, clients *)
(* and contexts, every bound and every path function Steps that satisfies  *)
(* StepsAssumption: types and paths, the implementation of AppLifecycle,   *)
(* and the end of contexts and of containers.                              *)
(***************************************************************************)
EXTENDS LifecycleProperties, SequenceTheorems, FiniteSetTheorems, TLAPS

\* The inductive invariant: a step of changeState is typed only because the
\* request it works for is still at the head of the queue.
Inv == TypeOK /\ OnPath

-----------------------------------------------------------------------------
(* Walks and the steps of the transition thread. *)

\* What is left of a path after its first step leads on from that step.
LEMMA WalkTail ==
    ASSUME NEW s, NEW p \in Seq(LifecycleStates), p # <<>>, Len(p) # 1, Walk(s, p)
    PROVE  /\ Tail(p) \in Seq(LifecycleStates)
           /\ Tail(p) # <<>>
           /\ Walk(Head(p), Tail(p))
           /\ Tail(p)[Len(Tail(p))] = p[Len(p)]
<1> DEFINE q == Tail(p)
<1>1. Len(p) \in Nat /\ Len(p) > 1
  <2>1. Len(p) \in Nat /\ Len(p) # 0
    BY EmptySeq
  <2>2. QED
    BY <2>1
<1>2. /\ q \in Seq(LifecycleStates)
      /\ Len(q) = Len(p) - 1
      /\ \A i \in 1..(Len(p) - 1) : q[i] = p[i + 1]
  BY <1>1
<1>3. Head(p) = p[1] /\ q # <<>> /\ q[Len(q)] = p[Len(p)]
  <2>1. Head(p) = p[1]
    BY <1>1, SubSeqFull, HeadTailOfSubSeq
  <2>2. Len(q) \in 1..(Len(p) - 1) /\ Len(q) + 1 = Len(p)
    BY <1>1, <1>2
  <2>3. q # <<>>
    <3>1. Len(<<>>) = 0
      BY EmptySeq
    <3>2. Len(q) # 0
      BY <1>1, <1>2
    <3>3. QED
      BY <3>1, <3>2
  <2>4. q[Len(q)] = p[Len(q) + 1]
    BY <1>2, <2>2
  <2>5. QED
    BY <2>1, <2>2, <2>3, <2>4
<1>4. \A i \in 1..(Len(p) - 1) : <<p[i], p[i + 1]>> \in Edges
  BY DEF Walk
<1>5. <<p[1], q[1]>> \in Edges
  <2>1. 1 \in 1..(Len(p) - 1) /\ q[1] = p[1 + 1]
    BY <1>1, <1>2
  <2>2. QED
    BY <1>4, <2>1
<1>6. ASSUME NEW i \in 1..(Len(q) - 1)
      PROVE  <<q[i], q[i + 1]>> \in Edges
  <2>1. i + 1 \in 1..(Len(p) - 1) /\ q[i] = p[i + 1] /\ q[i + 1] = p[(i + 1) + 1]
    BY <1>1, <1>2
  <2>2. QED
    BY <1>4, <2>1
<1>7. Walk(Head(p), q)
  BY <1>3, <1>5, <1>6 DEF Walk
<1>8. QED
  BY <1>2, <1>3, <1>7

\* The context of the request at the head of the queue.
LEMMA CurInContexts ==
    ASSUME Inv, worker.pc \in InStep
    PROVE  /\ gRequests \in Seq(Requests) /\ gRequests # <<>>
           /\ Head(gRequests) \in Requests /\ Tail(gRequests) \in Seq(Requests)
           /\ Cur \in Contexts
           /\ CurInst \in Nat
           /\ mState[Cur] \in LifecycleStates
           /\ worker.path \in Seq(LifecycleStates) /\ worker.path # <<>>
<1>1. /\ gRequests \in Seq(Requests) /\ gRequests # <<>>
      /\ worker.path \in Seq(LifecycleStates) /\ worker.path # <<>>
  BY DEF Inv, TypeOK, RequestsOK, OnPath
<1>2. Head(gRequests) \in Requests /\ Tail(gRequests) \in Seq(Requests)
  BY <1>1
<1>3. Cur \in Contexts
  BY <1>2 DEF Cur, Requests
<1>4. lastInstance \in Nat
  BY DEF Inv, TypeOK, EventsOK
<1>5. CurInst \in Nat /\ mState[Cur] \in LifecycleStates
  BY <1>3, <1>4 DEF CurInst, Inv, TypeOK, ContextsOK
<1>6. QED
  BY <1>1, <1>2, <1>3, <1>5

\* OnPath reads three variables only.
LEMMA OnPathFrame ==
    ASSUME OnPath, UNCHANGED <<mState, worker, gRequests>>
    PROVE  OnPath'
BY DEF OnPath, Walk, Cur, Final, InStep, Waits

LEMMA GiveUpKeepsPath ==
    ASSUME Inv, GiveUp
    PROVE  RequestsOK /\ UNCHANGED <<gRequestSemaphore, sRunning>> => RequestsOK' /\ OnPath'
BY DEF Inv, TypeOK, RequestsOK, OnPath, GiveUp, InStep, Waits

\* Entering the next state of the path.
LEMMA EnterKeepsPath ==
    ASSUME Inv, worker.pc \in InStep,
           NEW s \in LifecycleStates, Head(worker.path) = s, Enter(s),
           UNCHANGED <<gRequestSemaphore, sRunning>>
    PROVE  /\ mState' \in [Contexts -> LifecycleStates]
           /\ RequestsOK'
           /\ OnPath'
<1> DEFINE p == worker.path
<1>1. /\ gRequests \in Seq(Requests) /\ gRequests # <<>>
      /\ Head(gRequests) \in Requests /\ Tail(gRequests) \in Seq(Requests)
      /\ Cur \in Contexts
      /\ p \in Seq(LifecycleStates) /\ p # <<>>
  BY CurInContexts
<1>2. mState' = [mState EXCEPT ![Cur] = s] /\ mState \in [Contexts -> LifecycleStates]
  BY DEF Enter, Inv, TypeOK, ContextsOK
<1>3. mState' \in [Contexts -> LifecycleStates] /\ mState'[Cur] = s
  BY <1>1, <1>2
<1>4. CASE Len(p) = 1
  <2>1. gRequests' = Tail(gRequests) /\ worker' = [pc |-> "scan", path |-> Tail(p)]
    BY <1>4 DEF Enter, AfterStep
  <2>2. RequestsOK'
    BY <1>1, <2>1 DEF Inv, TypeOK, RequestsOK
  <2>3. OnPath'
    BY <2>1 DEF OnPath, InStep, Waits
  <2>4. QED
    BY <1>3, <2>2, <2>3
<1>5. CASE Len(p) # 1
  <2>1. gRequests' = gRequests /\ worker' = [pc |-> "step", path |-> Tail(p)]
    BY <1>5 DEF Enter, AfterStep
  <2>2. Walk(mState[Cur], p) /\ p[Len(p)] = Final(Head(gRequests).target)
    BY DEF Inv, OnPath
  <2>3. /\ Tail(p) \in Seq(LifecycleStates) /\ Tail(p) # <<>>
        /\ Walk(Head(p), Tail(p)) /\ Tail(p)[Len(Tail(p))] = p[Len(p)]
    BY <1>1, <1>5, <2>2, WalkTail
  <2>4. RequestsOK'
    BY <1>1, <2>1, <2>3 DEF Inv, TypeOK, RequestsOK, InStep
  <2>5. Cur' = Cur
    BY <2>1 DEF Cur
  <2>6. OnPath'
    BY <1>1, <1>3, <2>1, <2>2, <2>3, <2>5 DEF OnPath, InStep, Waits, Walk, Final
  <2>7. QED
    BY <1>3, <2>4, <2>6
<1>6. QED
  BY <1>4, <1>5

\* Starting to wait for what the next state needs.
LEMMA BlockKeepsPath ==
    ASSUME Inv, worker.pc = "step",
           NEW pc \in Waits, Block(pc), UNCHANGED <<gRequestSemaphore, sRunning>>,
           pc = "waitRunning"    => Head(worker.path) = "INITIALIZING",
           pc = "waitFrame"      => Head(worker.path) = "ACTIVE",
           pc = "waitTerminated" => Head(worker.path) = "TERMINATING"
    PROVE  RequestsOK' /\ OnPath'
<1>1. worker' = [worker EXCEPT !.pc = pc] /\ UNCHANGED <<mState, gRequests>>
  BY DEF Block
<1>2. worker \in [pc : {"scan", "asleep", "exited", "crashed"} \cup InStep, path : Seq(LifecycleStates)]
  BY DEF Inv, TypeOK, RequestsOK
<1>3. worker'.pc = pc /\ worker'.path = worker.path
  BY <1>1, <1>2
<1>4. RequestsOK'
  BY <1>1, <1>2 DEF Inv, TypeOK, RequestsOK, InStep
<1>5. OnPath'
  BY <1>1, <1>3 DEF Inv, OnPath, InStep, Waits, Walk, Cur, Final
<1>6. QED
  BY <1>4, <1>5

-----------------------------------------------------------------------------
(* Lookups, semaphores and jobs. *)

\* Erasing one element leaves a sequence over the same set.
LEMMA WithoutType ==
    ASSUME NEW S, NEW q \in Seq(S), NEW k \in DOMAIN q
    PROVE  Without(q, k) \in Seq(S)
<1>1. DOMAIN q = 1..Len(q) /\ Len(q) \in Nat /\ k \in 1..Len(q)
  BY LenProperties
<1>2. \A i \in 1..Len(q) : q[i] \in S
  BY <1>1, ElementOfSeq
<1>3. SubSeq(q, 1, k - 1) \in Seq(S)
  <2>1. 1 \in Int /\ k - 1 \in Int /\ \A i \in 1..(k - 1) : q[i] \in S
    BY <1>1, <1>2
  <2>2. QED
    BY <2>1, SubSeqProperties
<1>4. SubSeq(q, k + 1, Len(q)) \in Seq(S)
  <2>1. k + 1 \in Int /\ Len(q) \in Int /\ \A i \in (k + 1)..Len(q) : q[i] \in S
    BY <1>1, <1>2
  <2>2. QED
    BY <2>1, SubSeqProperties
<1>5. QED
  BY <1>3, <1>4, ConcatProperties DEF Without

\* A non-empty set of places has a first one: the intervals 1..k, for k in the
\* set, are ordered by inclusion, which is well-founded on finite sets.
LEMMA FirstPlace ==
    ASSUME NEW n \in Nat, NEW T \in SUBSET (1..n), T # {}
    PROVE  \E k \in T : \A j \in T : k <= j
<1> DEFINE B == {1..k : k \in T}
           R == StrictSubsetOrdering(1..n)
<1>1. B \subseteq FiniteSubsetsOf(1..n) /\ B # {}
  <2>1. \A k \in T : 1..k \in SUBSET (1..n)
    OBVIOUS
  <2>2. IsFiniteSet(1..n)
    BY FS_Interval
  <2>3. FiniteSubsetsOf(1..n) = SUBSET (1..n)
    BY <2>2, FS_FiniteSubsetsOfFinite
  <2>4. B \subseteq SUBSET (1..n)
    BY <2>1
  <2>5. QED
    BY <2>3, <2>4
<1>2. PICK b \in B : \A a \in B : <<a, b>> \notin R
  <2>1. IsWellFoundedOn(R, FiniteSubsetsOf(1..n))
    BY FS_StrictSubsetOrderingWellFounded
  <2> HIDE DEF B, R
  <2>2. QED
    BY <1>1, <2>1, WFMin
<1>3. PICK k \in T : b = 1..k
  OBVIOUS
<1>4. ASSUME NEW j \in T, ~(k <= j)
      PROVE  FALSE
  <2>1. j \in Nat /\ k \in Nat /\ j < k /\ 1 <= j
    BY <1>4
  <2>2. 1..j \subseteq 1..k /\ 1..j # 1..k
    <3>1. k \in 1..k /\ k \notin 1..j
      BY <2>1
    <3>2. 1..j \subseteq 1..k
      BY <2>1
    <3>3. QED
      BY <3>1, <3>2
  <2>3. <<1..j, 1..k>> \in R
    <3>1. 1..j \in SUBSET (1..n) /\ 1..k \in SUBSET (1..n)
      OBVIOUS
    <3>2. QED
      BY <2>2, <3>1 DEF StrictSubsetOrdering
  <2>4. QED
    BY <1>2, <1>3, <2>3
<1>5. QED
  BY <1>4

\* The first place of a non-empty set of places of the list is well defined.
LEMMA FirstOfLoaded ==
    ASSUME mLoadedApplications \in Seq(Contexts),
           NEW places \in SUBSET DOMAIN mLoadedApplications, places # {}
    PROVE  \E k \in places : FirstOf(places) = mLoadedApplications[k]
<1>1. DOMAIN mLoadedApplications = 1..Len(mLoadedApplications) /\ Len(mLoadedApplications) \in Nat
  BY LenProperties
<1>2. \E k \in places : \A j \in places : k <= j
  BY <1>1, FirstPlace
<1>3. (CHOOSE k \in places : \A j \in places : k <= j) \in places
  BY <1>2
<1>4. QED
  BY <1>3 DEF FirstOf

\* getContext and getContextOfApp return null or a context of the list that matches.
LEMMA LookupType ==
    ASSUME ContextsOK
    PROVE  /\ Loaded \subseteq Contexts
           /\ \A i : getContext(i) # Null =>
                 /\ getContext(i) \in Loaded
                 /\ i # 0 /\ mAppInstanceId[getContext(i)] = i
           /\ \A a : getContextOfApp(a) # Null =>
                 getContextOfApp(a) \in Loaded /\ mAppId[getContextOfApp(a)] = a
<1>1. mLoadedApplications \in Seq(Contexts)
  BY DEF ContextsOK
<1>2. Loaded \subseteq Contexts
  BY <1>1, LenProperties, ElementOfSeq DEF Loaded
<1>3. ASSUME NEW i, getContext(i) # Null
      PROVE  /\ getContext(i) \in Loaded
             /\ i # 0 /\ mAppInstanceId[getContext(i)] = i
  <2> DEFINE P == {k \in DOMAIN mLoadedApplications :
                       i # 0 /\ mAppInstanceId[mLoadedApplications[k]] = i}
  <2>1. P # {}
    BY <1>3 DEF getContext, FirstOf
  <2>2. PICK k \in P : FirstOf(P) = mLoadedApplications[k]
    BY <1>1, <2>1, FirstOfLoaded
  <2>3. QED
    BY <2>2 DEF getContext, Loaded
<1>4. ASSUME NEW a, getContextOfApp(a) # Null
      PROVE  getContextOfApp(a) \in Loaded /\ mAppId[getContextOfApp(a)] = a
  <2> DEFINE P == {k \in DOMAIN mLoadedApplications : mAppId[mLoadedApplications[k]] = a}
  <2>1. P # {}
    BY <1>4 DEF getContextOfApp, FirstOf
  <2>2. PICK k \in P : FirstOf(P) = mLoadedApplications[k]
    BY <1>1, <2>1, FirstOfLoaded
  <2>3. QED
    BY <2>2 DEF getContextOfApp, Loaded
<1>5. QED
  BY <1>2, <1>3, <1>4

\* A semaphore that is posted, or taken when its count allows, stays natural.
LEMMA SemType ==
    ASSUME ContextsOK, NEW c \in Contexts,
           NEW s \in {"loading", "running", "frame", "terminating"}
    PROVE  Post(c, s) \/ Take(c, s) =>
             sems' \in [Contexts -> [loading : Nat, running : Nat, frame : Nat, terminating : Nat]]
<1>1. sems \in [Contexts -> [loading : Nat, running : Nat, frame : Nat, terminating : Nat]]
  BY DEF ContextsOK
<1>2. Post(c, s) => [sems EXCEPT ![c][s] = @ + 1] \in
          [Contexts -> [loading : Nat, running : Nat, frame : Nat, terminating : Nat]]
  BY <1>1
<1>3. Take(c, s) => [sems EXCEPT ![c][s] = @ - 1] \in
          [Contexts -> [loading : Nat, running : Nat, frame : Nat, terminating : Nat]]
  BY <1>1 DEF Take
<1>4. QED
  BY <1>2, <1>3 DEF Post, Take

\* A job that is submitted is an event.
LEMMA SubmitType ==
    ASSUME EventsOK, NEW e \in Events, Submit(e)
    PROVE  jobs' \in Seq(Events)
BY AppendProperties DEF EventsOK, Submit

LEMMA EventTypes ==
    ASSUME NEW i \in Nat
    PROVE  /\ \A o, n \in LifecycleStates : StateEvent(i, o, n) \in Events
           /\ \A k \in {"RUNNING", "TERMINATED", "READY"} : RuntimeEvent(k, i) \in Events
BY DEF StateEvent, RuntimeEvent, Events, LifecycleStates

-----------------------------------------------------------------------------
(* The initial state, and the actions that leave changeState's step alone. *)

LEMMA InitInv == Init => Inv
<1> SUFFICES ASSUME Init PROVE Inv
  OBVIOUS
<1>1. ContextsOK
  BY DEF Init, ContextsOK, LifecycleStates
<1>2. RequestsOK /\ OnPath
  BY DEF Init, RequestsOK, OnPath, InStep, Waits
<1>3. ClientsOK
  BY DEF Init, ClientsOK, Idle, LifecycleStates
<1>4. EventsOK
  BY ConstantsAssumption DEF Init, EventsOK, LifecycleStates
<1>5. QED
  BY <1>1, <1>2, <1>3, <1>4 DEF Inv, TypeOK

\* Taking the head of the queue: the path that was found is a walk.
LEMMA TakeRequestInv ==
    ASSUME Inv, TakeRequest
    PROVE  Inv'
<1>1. /\ gRequests \in Seq(Requests) /\ gRequests # <<>>
      /\ worker \in [pc : {"scan", "asleep", "exited", "crashed"} \cup InStep,
                     path : Seq(LifecycleStates)]
      /\ mState \in [Contexts -> LifecycleStates]
  BY DEF TakeRequest, Inv, TypeOK, RequestsOK, ContextsOK
<1>2. Head(gRequests) \in Requests /\ Tail(gRequests) \in Seq(Requests)
  BY <1>1
<1> DEFINE target == Head(gRequests).target
           path   == Path(target)
<1>3. Cur \in Contexts /\ target \in LifecycleStates /\ mState[Cur] \in LifecycleStates
  BY <1>1, <1>2 DEF Cur, Requests
<1>4. /\ path \in Seq(LifecycleStates)
      /\ path # <<>> => Walk(mState[Cur], path) /\ path[Len(path)] = Final(target)
  BY <1>3, StepsAssumption DEF Path, IsPath
<1>5. RequestsOK' /\ OnPath'
  <2>1. CASE gRequests' = Tail(gRequests) /\ UNCHANGED worker
    BY <1>1, <1>2, <2>1 DEF TakeRequest, Inv, TypeOK, RequestsOK, OnPath, InStep, Waits
  <2>2. CASE UNCHANGED gRequests /\ worker' = [pc |-> "asleep", path |-> <<>>]
    BY <1>1, <2>2 DEF TakeRequest, Inv, TypeOK, RequestsOK, OnPath, InStep, Waits
  <2>3. CASE path # <<>> /\ UNCHANGED gRequests /\ worker' = [pc |-> "step", path |-> path]
    <3>1. UNCHANGED <<mState, Cur, target, gRequestSemaphore, sRunning>>
      BY <2>3 DEF TakeRequest, contextVars, Cur
    <3> HIDE DEF path
    <3>2. RequestsOK'
      BY <1>1, <1>4, <2>3, <3>1 DEF Inv, TypeOK, RequestsOK, InStep
    <3>3. OnPath'
      BY <1>1, <1>4, <2>3, <3>1 DEF OnPath, InStep, Waits, Walk, Final
    <3>4. QED
      BY <3>2, <3>3
  <2>4. QED
    BY <2>1, <2>2, <2>3 DEF TakeRequest
<1>6. ContextsOK' /\ ClientsOK' /\ EventsOK'
  BY DEF TakeRequest, contextVars, runtimeVars, Inv, TypeOK, ContextsOK, ClientsOK, EventsOK
<1>7. QED
  BY <1>5, <1>6 DEF Inv, TypeOK

LEMMA SleepInv ==
    ASSUME Inv, QueueEmpty \/ WakeUp \/ Crash
    PROVE  Inv'
<1>1. ContextsOK' /\ ClientsOK' /\ EventsOK'
  BY DEF QueueEmpty, WakeUp, Crash, contextVars, requestVars, runtimeVars,
         Inv, TypeOK, ContextsOK, ClientsOK, EventsOK
<1>2. /\ gRequests \in Seq(Requests) /\ gRequestSemaphore \in Nat /\ sRunning \in BOOLEAN
      /\ worker.path \in Seq(LifecycleStates)
      /\ worker = [pc |-> worker.pc, path |-> worker.path]
  BY DEF Inv, TypeOK, RequestsOK
<1>3. /\ UNCHANGED <<gRequests, sRunning>> /\ gRequestSemaphore' \in Nat
      /\ \E pc \in {"scan", "asleep", "exited", "crashed"}, p \in {worker.path, <<>>} :
            worker' = [pc |-> pc, path |-> p]
  <2>1. CASE QueueEmpty
    BY <1>2, <2>1 DEF QueueEmpty, requestVars
  <2>2. CASE WakeUp
    BY <1>2, <2>2 DEF WakeUp
  <2>3. CASE Crash
    BY <1>2, <2>3 DEF Crash, requestVars
  <2>4. QED
    BY <2>1, <2>2, <2>3
<1>4. PICK pc \in {"scan", "asleep", "exited", "crashed"}, p \in {worker.path, <<>>} :
          worker' = [pc |-> pc, path |-> p]
  BY <1>3
<1>5. p \in Seq(LifecycleStates)
  BY <1>2, EmptySeq
<1>6. worker'.pc = pc /\ worker' \in [pc : {"scan", "asleep", "exited", "crashed"} \cup InStep,
                                     path : Seq(LifecycleStates)]
  BY <1>4, <1>5
<1>7. RequestsOK'
  BY <1>2, <1>3, <1>6 DEF RequestsOK, InStep, Waits
<1>8. OnPath'
  BY <1>6 DEF OnPath, InStep, Waits
<1>9. QED
  BY <1>1, <1>7, <1>8 DEF Inv, TypeOK

-----------------------------------------------------------------------------
(* The steps of changeState. *)

\* A step that enters a state: what is left to show is the types it does not
\* get from Enter.
LEMMA EnterInv ==
    ASSUME Inv, worker.pc \in InStep,
           NEW s \in LifecycleStates, Head(worker.path) = s, Enter(s),
           UNCHANGED unchangedByStep,
           lastInstance' \in 0..MaxInstances,
           mAppInstanceId' \in [Contexts -> 0..lastInstance'],
           sems' \in [Contexts -> [loading : Nat, running : Nat, frame : Nat, terminating : Nat]],
           jobs' \in Seq(Events),
           container' \in [Instances -> {"none", "starting", "running", "paused", "frozen",
                                         "resumed", "stopping", "killing", "stopped"}]
    PROVE  Inv'
<1>1. mState' \in [Contexts -> LifecycleStates] /\ RequestsOK' /\ OnPath'
  BY EnterKeepsPath DEF unchangedByStep
<1>2. ContextsOK'
  BY <1>1 DEF unchangedByStep, Inv, TypeOK, ContextsOK
<1>3. ClientsOK' /\ EventsOK'
  BY DEF unchangedByStep, Inv, TypeOK, ClientsOK, EventsOK
<1>4. QED
  BY <1>1, <1>2, <1>3 DEF Inv, TypeOK

\* A step that blocks or fails.
LEMMA StayInv ==
    ASSUME Inv, RequestsOK', OnPath', UNCHANGED <<mState, mAppInstanceId, lastInstance, sems>>,
           UNCHANGED unchangedByStep,
           jobs' \in Seq(Events),
           container' \in [Instances -> {"none", "starting", "running", "paused", "frozen",
                                         "resumed", "stopping", "killing", "stopped"}]
    PROVE  Inv'
BY DEF unchangedByStep, Inv, TypeOK, ContextsOK, ClientsOK, EventsOK

\* What the steps know of the variables they do not touch.
LEMMA Unmoved ==
    ASSUME Inv
    PROVE  /\ lastInstance \in 0..MaxInstances
           /\ mAppInstanceId \in [Contexts -> 0..lastInstance]
           /\ sems \in [Contexts -> [loading : Nat, running : Nat, frame : Nat, terminating : Nat]]
           /\ jobs \in Seq(Events)
           /\ container \in [Instances -> {"none", "starting", "running", "paused", "frozen",
                                           "resumed", "stopping", "killing", "stopped"}]
           /\ \A s \in LifecycleStates : s \in
                {"UNLOADED", "LOADING", "INITIALIZING", "PAUSED", "ACTIVE", "SUSPENDED",
                 "HIBERNATED", "TERMINATING"}
BY DEF Inv, TypeOK, ContextsOK, EventsOK, LifecycleStates

\* The event a step submits.
LEMMA StepEvent ==
    ASSUME Inv, worker.pc \in InStep, NEW i \in Nat, NEW n \in LifecycleStates,
           Submit(StateEvent(i, mState[Cur], n))
    PROVE  jobs' \in Seq(Events)
<1>1. mState[Cur] \in LifecycleStates /\ EventsOK
  BY CurInContexts DEF Inv, TypeOK
<1>2. StateEvent(i, mState[Cur], n) \in Events
  BY <1>1, EventTypes
<1>3. QED
  BY <1>1, <1>2, SubmitType

LEMMA EnterLoadingInv ==
    ASSUME Inv, EnterLoading
    PROVE  Inv'
<1>1. worker.pc \in InStep /\ Head(worker.path) = "LOADING" /\ "LOADING" \in LifecycleStates
  BY DEF EnterLoading, GoingTo, InStep, LifecycleStates
<1>2. Cur \in Contexts
  BY <1>1, CurInContexts
<1>3. lastInstance' \in 0..MaxInstances /\ lastInstance + 1 \in Nat
  BY Unmoved, ConstantsAssumption DEF EnterLoading
<1>4. mAppInstanceId' \in [Contexts -> 0..lastInstance']
  <2>1. lastInstance' = lastInstance + 1 /\ lastInstance \in Nat
    BY Unmoved, ConstantsAssumption DEF EnterLoading
  <2>2. 0..lastInstance \subseteq 0..lastInstance' /\ lastInstance + 1 \in 0..lastInstance'
    BY <2>1
  <2>3. QED
    BY <1>2, <2>2, Unmoved DEF EnterLoading
<1>5. sems' \in [Contexts -> [loading : Nat, running : Nat, frame : Nat, terminating : Nat]]
  BY <1>2, SemType DEF EnterLoading, Inv, TypeOK
<1>6. jobs' \in Seq(Events)
  BY <1>1, <1>3, StepEvent DEF EnterLoading
<1>7. UNCHANGED <<unchangedByStep, container>> /\ Enter("LOADING")
  BY DEF EnterLoading
<1>8. QED
  BY <1>1, <1>3, <1>4, <1>5, <1>6, <1>7, EnterInv, Unmoved

LEMMA StartInitializingInv ==
    ASSUME Inv, StartInitializing
    PROVE  Inv'
<1>1. worker.pc = "step" /\ Head(worker.path) = "INITIALIZING"
  BY DEF StartInitializing, GoingTo
<1>2. RequestsOK' /\ OnPath'
  BY <1>1, BlockKeepsPath DEF StartInitializing, unchangedByStep, Waits
<1>3. container' \in [Instances -> {"none", "starting", "running", "paused", "frozen",
                                    "resumed", "stopping", "killing", "stopped"}]
  BY Unmoved DEF StartInitializing
<1>4. /\ jobs' \in Seq(Events) /\ UNCHANGED <<mState, mAppInstanceId, lastInstance, sems>>
      /\ UNCHANGED unchangedByStep
  BY Unmoved DEF StartInitializing, Block
<1>5. QED
  BY <1>2, <1>3, <1>4, StayInv

LEMMA EnterInitializingInv ==
    ASSUME Inv, EnterInitializing
    PROVE  Inv'
<1>1. worker.pc \in InStep /\ Head(worker.path) = "INITIALIZING" /\ "INITIALIZING" \in LifecycleStates
  BY DEF EnterInitializing, InStep, Waits, Inv, OnPath, LifecycleStates
<1>2. Cur \in Contexts /\ CurInst \in Nat
  BY <1>1, CurInContexts
<1>3. sems' \in [Contexts -> [loading : Nat, running : Nat, frame : Nat, terminating : Nat]]
  BY <1>2, SemType DEF EnterInitializing, Inv, TypeOK
<1>4. jobs' \in Seq(Events)
  BY <1>1, <1>2, StepEvent DEF EnterInitializing
<1>5. UNCHANGED <<unchangedByStep, mAppInstanceId, container, lastInstance>> /\ Enter("INITIALIZING")
  BY DEF EnterInitializing
<1>6. QED
  BY <1>1, <1>3, <1>4, <1>5, EnterInv, Unmoved

\* A call of the RuntimeManager leaves the containers typed.
LEMMA MoveType ==
    ASSUME Inv, NEW o, NEW from, NEW to \in {"running", "paused", "frozen", "resumed"},
           Move(o, from, to)
    PROVE  container' \in [Instances -> {"none", "starting", "running", "paused", "frozen",
                                    "resumed", "stopping", "killing", "stopped"}]
BY Unmoved DEF Move

LEMMA EnterPausedInv ==
    ASSUME Inv, EnterPaused
    PROVE  Inv'
<1>1. worker.pc \in InStep /\ Head(worker.path) = "PAUSED" /\ "PAUSED" \in LifecycleStates
  BY DEF EnterPaused, GoingTo, InStep, LifecycleStates
<1>2. CurInst \in Nat
  BY <1>1, CurInContexts
<1>3. container' \in [Instances -> {"none", "starting", "running", "paused", "frozen",
                                    "resumed", "stopping", "killing", "stopped"}]
  <2>1. CASE UNCHANGED container
    BY <2>1, Unmoved
  <2>2. CASE \E o \in RuntimeOutcomes :
                 Move(o, {"paused"}, IF "rerun" \in Faults THEN "resumed" ELSE "running")
    BY <2>2, MoveType
  <2>3. QED
    BY <2>1, <2>2 DEF EnterPaused
<1>4. jobs' \in Seq(Events)
  BY <1>1, <1>2, StepEvent DEF EnterPaused
<1>5. UNCHANGED <<unchangedByStep, mAppInstanceId, sems, lastInstance>> /\ Enter("PAUSED")
  BY DEF EnterPaused
<1>6. QED
  BY <1>1, <1>3, <1>4, <1>5, EnterInv, Unmoved

LEMMA EnterActiveInv ==
    ASSUME Inv, EnterActive
    PROVE  Inv'
<1>1. worker.pc \in InStep /\ Head(worker.path) = "ACTIVE" /\ "ACTIVE" \in LifecycleStates
  BY DEF EnterActive, GoingTo, InStep, Waits, Inv, OnPath, LifecycleStates
<1>2. Cur \in Contexts /\ CurInst \in Nat
  BY <1>1, CurInContexts
<1>3. sems' \in [Contexts -> [loading : Nat, running : Nat, frame : Nat, terminating : Nat]]
  <2>1. CASE UNCHANGED sems
    BY <2>1, Unmoved
  <2>2. CASE Take(Cur, "frame")
    BY <1>2, <2>2, SemType DEF Inv, TypeOK
  <2>3. QED
    BY <2>1, <2>2 DEF EnterActive
<1>4. jobs' \in Seq(Events)
  BY <1>1, <1>2, StepEvent DEF EnterActive
<1>5. UNCHANGED <<unchangedByStep, mAppInstanceId, container, lastInstance>> /\ Enter("ACTIVE")
  BY DEF EnterActive
<1>6. QED
  BY <1>1, <1>3, <1>4, <1>5, EnterInv, Unmoved

LEMMA NotRenderedInv ==
    ASSUME Inv, NotRendered
    PROVE  Inv'
<1>1. worker.pc = "step" /\ Head(worker.path) = "ACTIVE"
  BY DEF NotRendered, GoingTo
<1>2. UNCHANGED <<gRequestSemaphore, sRunning>> /\ UNCHANGED unchangedByStep
  BY DEF NotRendered, unchangedByStep
<1>3. RequestsOK' /\ OnPath' /\ UNCHANGED mState
  <2>1. CASE Block("waitFrame")
    BY <1>1, <1>2, <2>1, BlockKeepsPath DEF Waits, Block
  <2>2. CASE GiveUp
    BY <1>2, <2>2, GiveUpKeepsPath DEF Inv, TypeOK, GiveUp
  <2>3. QED
    BY <2>1, <2>2 DEF NotRendered
<1>4. UNCHANGED <<mAppInstanceId, container, sems, jobs, lastInstance>>
  BY DEF NotRendered
<1>5. QED
  BY <1>2, <1>3, <1>4, StayInv, Unmoved

LEMMA EnterByRuntimeInv ==
    ASSUME Inv, NEW s \in {"SUSPENDED", "HIBERNATED"}, NEW o, EnterByRuntime(s, o)
    PROVE  Inv'
<1>1. worker.pc \in InStep /\ Head(worker.path) = s /\ s \in LifecycleStates
  BY DEF EnterByRuntime, GoingTo, InStep, LifecycleStates
<1>2. CurInst \in Nat
  BY <1>1, CurInContexts
<1>3. container' \in [Instances -> {"none", "starting", "running", "paused", "frozen",
                                    "resumed", "stopping", "killing", "stopped"}]
  BY MoveType DEF EnterByRuntime
<1>4. UNCHANGED <<unchangedByStep, mAppInstanceId, sems, lastInstance>>
  BY DEF EnterByRuntime
<1>5. CASE GiveUp /\ UNCHANGED jobs
  <2>1. RequestsOK' /\ OnPath' /\ UNCHANGED mState
    BY <1>4, <1>5, GiveUpKeepsPath DEF Inv, TypeOK, GiveUp, unchangedByStep
  <2>2. QED
    BY <1>3, <1>4, <1>5, <2>1, StayInv, Unmoved
<1>6. CASE Enter(s) /\ Submit(StateEvent(CurInst, mState[Cur], s))
  <2>1. jobs' \in Seq(Events)
    BY <1>1, <1>2, <1>6, StepEvent
  <2>2. QED
    BY <1>1, <1>3, <1>4, <1>6, <2>1, EnterInv, Unmoved
<1>7. QED
  BY <1>5, <1>6 DEF EnterByRuntime

LEMMA StartTerminatingInv ==
    ASSUME Inv, NEW o, StartTerminating(o)
    PROVE  Inv'
<1>1. worker.pc = "step" /\ Head(worker.path) = "TERMINATING" /\ "TERMINATING" \in LifecycleStates
  BY DEF StartTerminating, GoingTo, LifecycleStates
<1>2. CurInst \in Nat /\ worker.pc \in InStep
  BY <1>1, CurInContexts DEF InStep
<1>3. container' \in [Instances -> {"none", "starting", "running", "paused", "frozen",
                                    "resumed", "stopping", "killing", "stopped"}]
  BY Unmoved DEF StartTerminating
<1>4. UNCHANGED <<mAppInstanceId, sems, lastInstance>> /\ UNCHANGED unchangedByStep
  BY DEF StartTerminating
<1>5. jobs' \in Seq(Events)
  BY <1>1, <1>2, StepEvent DEF StartTerminating
<1>6. RequestsOK' /\ OnPath' /\ UNCHANGED mState
  <2>1. CASE Block("waitTerminated")
    BY <1>1, <1>4, <2>1, BlockKeepsPath DEF Waits, Block, unchangedByStep
  <2>2. CASE GiveUp
    BY <1>4, <2>2, GiveUpKeepsPath DEF Inv, TypeOK, GiveUp, unchangedByStep
  <2>3. QED
    BY <2>1, <2>2 DEF StartTerminating
<1>7. QED
  BY <1>3, <1>4, <1>5, <1>6, StayInv

LEMMA EnterTerminatingInv ==
    ASSUME Inv, EnterTerminating
    PROVE  Inv'
<1>1. worker.pc \in InStep /\ Head(worker.path) = "TERMINATING" /\ "TERMINATING" \in LifecycleStates
  BY DEF EnterTerminating, InStep, Waits, Inv, OnPath, LifecycleStates
<1>2. Cur \in Contexts
  BY <1>1, CurInContexts
<1>3. sems' \in [Contexts -> [loading : Nat, running : Nat, frame : Nat, terminating : Nat]]
  BY <1>2, SemType DEF EnterTerminating, Inv, TypeOK
<1>4. UNCHANGED <<unchangedByStep, mAppInstanceId, container, jobs, lastInstance>> /\ Enter("TERMINATING")
  BY DEF EnterTerminating
<1>5. QED
  BY <1>1, <1>3, <1>4, EnterInv, Unmoved

LEMMA EnterUnloadedInv ==
    ASSUME Inv, EnterUnloaded
    PROVE  Inv'
<1>1. worker.pc \in InStep /\ Head(worker.path) = "UNLOADED" /\ "UNLOADED" \in LifecycleStates
  BY DEF EnterUnloaded, GoingTo, InStep, LifecycleStates
<1>2. CurInst \in Nat
  BY <1>1, CurInContexts
<1>3. jobs' \in Seq(Events)
  BY <1>1, <1>2, StepEvent DEF EnterUnloaded
<1>4. UNCHANGED <<unchangedByStep, mAppInstanceId, sems, container, lastInstance>> /\ Enter("UNLOADED")
  BY DEF EnterUnloaded
<1>5. QED
  BY <1>1, <1>3, <1>4, EnterInv, Unmoved

-----------------------------------------------------------------------------
(* API calls. *)

\* A call that touches neither the queue nor the transition thread.
LEMMA CallInv ==
    ASSUME Inv, UNCHANGED unchangedByCall, UNCHANGED <<gRequestSemaphore, sRunning>>,
           heap' \in [Contexts -> {"unused", "live", "found", "deleted"}],
           mLoadedApplications' \in Seq(Contexts),
           mAppId' \in [Contexts -> Apps \cup {Null}],
           mTargetLifecycleState' \in [Contexts -> LifecycleStates],
           mForce' \in [Contexts -> BOOLEAN],
           sems' \in [Contexts -> [loading : Nat, running : Nat, frame : Nat, terminating : Nat]],
           ClientsOK'
    PROVE  Inv'
<1>1. UNCHANGED <<mState, worker, gRequests>> /\ OnPath
  BY DEF unchangedByCall, Inv
<1>2. OnPath'
  BY <1>1, OnPathFrame
<1>3. RequestsOK'
  BY <1>1 DEF Inv, TypeOK, RequestsOK
<1>4. ContextsOK' /\ EventsOK'
  BY DEF unchangedByCall, runtimeVars, Inv, TypeOK, ContextsOK, EventsOK
<1>5. QED
  BY <1>2, <1>3, <1>4 DEF Inv, TypeOK

\* The record of a call in progress.
LEMMA ClientType ==
    ASSUME ClientsOK, NEW t \in Clients,
           NEW r \in [pc : {"idle", "spawn", "add", "waitLoading", "relaunch"},
                      ctx : Contexts \cup {Null}, target : LifecycleStates,
                      app : Apps \cup {Null}, then : {"return", "waitLoading", "relaunch"}],
           r.pc \in {"add", "waitLoading"} => r.ctx \in Contexts,
           client' = [client EXCEPT ![t] = r], calls' \in Nat
    PROVE  ClientsOK'
BY DEF ClientsOK

\* What a call in progress, and the variables it may change, look like before.
LEMMA CallTypes ==
    ASSUME Inv, NEW t \in Clients
    PROVE  /\ ContextsOK /\ ClientsOK /\ calls \in Nat
           /\ client[t] \in [pc : {"idle", "spawn", "add", "waitLoading", "relaunch"},
                  ctx : Contexts \cup {Null}, target : LifecycleStates,
                  app : Apps \cup {Null}, then : {"return", "waitLoading", "relaunch"}]
           /\ client[t].pc \in {"add", "waitLoading"} => client[t].ctx \in Contexts
BY DEF Inv, TypeOK, ClientsOK, EventsOK

\* The lookup by application at the start of SpawnApp.
LEMMA SpawnLookupType ==
    ASSUME Inv, NEW t \in Clients, NEW a \in Apps \cup {Null}, NEW s \in LifecycleStates,
           SpawnLookup(t, a, s), calls' \in Nat
    PROVE  ClientsOK'
<1> DEFINE r == [pc |-> "spawn", ctx |-> getContextOfApp(a), target |-> s, app |-> a, then |-> "return"]
<1>1. getContextOfApp(a) \in Contexts \cup {Null}
  BY CallTypes, LookupType
<1>2. r \in [pc : {"idle", "spawn", "add", "waitLoading", "relaunch"},
                  ctx : Contexts \cup {Null}, target : LifecycleStates,
                  app : Apps \cup {Null}, then : {"return", "waitLoading", "relaunch"}]
  BY <1>1
<1>3. client' = [client EXCEPT ![t] = r]
  BY DEF SpawnLookup
<1>4. QED
  BY <1>2, <1>3, CallTypes, ClientType

LEMMA SpawnAppInv ==
    ASSUME Inv, NEW t \in Clients, NEW a \in Apps, NEW s \in Targets, SpawnApp(t, a, s)
    PROVE  Inv'
<1>1. calls' \in Nat
  BY CallTypes DEF SpawnApp, Begin
<1>2. ClientsOK'
  BY <1>1, SpawnLookupType, ConstantsAssumption DEF SpawnApp
<1>3. QED
  BY <1>2, CallInv, CallTypes DEF SpawnApp, ContextsOK

LEMMA SpawnPrepareInv ==
    ASSUME Inv, NEW t \in Clients, SpawnPrepare(t)
    PROVE  Inv'
<1>1. client[t] \in [pc : {"idle", "spawn", "add", "waitLoading", "relaunch"},
                  ctx : Contexts \cup {Null}, target : LifecycleStates,
                  app : Apps \cup {Null}, then : {"return", "waitLoading", "relaunch"}] /\ calls' \in Nat
  BY CallTypes DEF SpawnPrepare
<1>2. CASE client[t].ctx = Null
  <2>1. PICK c \in Contexts :
            /\ heap' = [heap EXCEPT ![c] = "live"]
            /\ mAppId' = [mAppId EXCEPT ![c] = client[t].app]
            /\ mLoadedApplications' = Append(mLoadedApplications, c)
            /\ mTargetLifecycleState' = [mTargetLifecycleState EXCEPT ![c] = client[t].target]
            /\ client' = [client EXCEPT ![t].pc = "add", ![t].ctx = c, ![t].then = "waitLoading"]
    BY <1>2 DEF SpawnPrepare
  <2> DEFINE r == [client[t] EXCEPT !.pc = "add", !.ctx = c, !.then = "waitLoading"]
  <2>2. r \in [pc : {"idle", "spawn", "add", "waitLoading", "relaunch"},
                  ctx : Contexts \cup {Null}, target : LifecycleStates,
                  app : Apps \cup {Null}, then : {"return", "waitLoading", "relaunch"}] /\ r.ctx = c
    BY <1>1
  <2>3. client' = [client EXCEPT ![t] = r]
    BY <2>1, CallTypes DEF ClientsOK
  <2>4. ClientsOK'
    BY <1>1, <2>2, <2>3, CallTypes, ClientType
  <2>5. mLoadedApplications' \in Seq(Contexts)
    BY <2>1, CallTypes, AppendProperties DEF ContextsOK
  <2>6. /\ heap' \in [Contexts -> {"unused", "live", "found", "deleted"}]
        /\ mAppId' \in [Contexts -> Apps \cup {Null}]
        /\ mTargetLifecycleState' \in [Contexts -> LifecycleStates]
    BY <1>1, <2>1, CallTypes DEF ContextsOK
  <2>7. QED
    BY <2>4, <2>5, <2>6, CallInv, CallTypes DEF SpawnPrepare, ContextsOK
<1>3. CASE client[t].ctx # Null
  <2>1. /\ mTargetLifecycleState' = [mTargetLifecycleState EXCEPT ![client[t].ctx] = client[t].target]
        /\ client' = [client EXCEPT ![t].pc = "add"]
        /\ UNCHANGED <<heap, mAppId, mLoadedApplications>>
    BY <1>3 DEF SpawnPrepare
  <2> DEFINE r == [client[t] EXCEPT !.pc = "add"]
  <2>2. r \in [pc : {"idle", "spawn", "add", "waitLoading", "relaunch"},
                  ctx : Contexts \cup {Null}, target : LifecycleStates,
                  app : Apps \cup {Null}, then : {"return", "waitLoading", "relaunch"}] /\ r.ctx \in Contexts
    BY <1>1, <1>3
  <2>3. client' = [client EXCEPT ![t] = r]
    BY <2>1, CallTypes DEF ClientsOK
  <2>4. ClientsOK'
    BY <1>1, <2>2, <2>3, CallTypes, ClientType
  <2>5. mTargetLifecycleState' \in [Contexts -> LifecycleStates]
    BY <1>1, <2>1, CallTypes DEF ContextsOK
  <2>6. QED
    BY <2>1, <2>4, <2>5, CallInv, CallTypes DEF SpawnPrepare, ContextsOK
<1>4. QED
  BY <1>2, <1>3

LEMMA AddRequestInv ==
    ASSUME Inv, NEW t \in Clients, AddRequest(t)
    PROVE  Inv'
<1>1. client[t] \in [pc : {"idle", "spawn", "add", "waitLoading", "relaunch"},
                  ctx : Contexts \cup {Null}, target : LifecycleStates,
                  app : Apps \cup {Null}, then : {"return", "waitLoading", "relaunch"}] /\ client[t].ctx \in Contexts /\ calls' \in Nat
  BY CallTypes DEF AddRequest
<1>2. RequestsOK'
  <2>1. [ctx |-> client[t].ctx, target |-> client[t].target] \in Requests
    BY <1>1 DEF Requests
  <2>2. gRequests' \in Seq(Requests)
    BY <2>1, AppendProperties DEF AddRequest, Inv, TypeOK, RequestsOK
  <2>3. QED
    BY <2>2 DEF AddRequest, PostRequest, Inv, TypeOK, RequestsOK
<1>3. OnPath'
  BY DEF AddRequest, MutexFree, OnPath
<1>4. ClientsOK'
  <2> DEFINE r == IF client[t].then = "return" THEN Idle ELSE [client[t] EXCEPT !.pc = client[t].then]
  <2>1. r \in [pc : {"idle", "spawn", "add", "waitLoading", "relaunch"},
                  ctx : Contexts \cup {Null}, target : LifecycleStates,
                  app : Apps \cup {Null}, then : {"return", "waitLoading", "relaunch"}] /\ (r.pc \in {"add", "waitLoading"} => r.ctx \in Contexts)
    BY <1>1 DEF Idle, LifecycleStates
  <2>2. client' = [client EXCEPT ![t] = r]
    BY DEF AddRequest
  <2>3. QED
    BY <1>1, <2>1, <2>2, CallTypes, ClientType
<1>5. ContextsOK' /\ EventsOK'
  BY DEF AddRequest, contextVars, runtimeVars, Inv, TypeOK, ContextsOK, EventsOK
<1>6. QED
  BY <1>2, <1>3, <1>4, <1>5 DEF Inv, TypeOK

LEMMA SpawnReturnInv ==
    ASSUME Inv, NEW t \in Clients, SpawnReturn(t)
    PROVE  Inv'
<1>1. client[t].ctx \in Contexts /\ calls' \in Nat
  BY CallTypes DEF SpawnReturn
<1>2. sems' \in [Contexts -> [loading : Nat, running : Nat, frame : Nat, terminating : Nat]]
  BY <1>1, SemType, CallTypes DEF SpawnReturn
<1>3. ClientsOK'
  BY <1>1, CallTypes, ClientType DEF SpawnReturn, Idle, LifecycleStates
<1>4. QED
  BY <1>2, <1>3, CallInv, CallTypes DEF SpawnReturn, ContextsOK

LEMMA CallOnInstanceInv ==
    ASSUME Inv, NEW t \in Clients, NEW op \in {"Set", "Unload", "Kill", "Relaunch"}, NEW i,
           NEW s \in LifecycleStates, CallOnInstance(t, op, i, s)
    PROVE  Inv'
<1> DEFINE c == getContext(i)
           r == [pc |-> "add", ctx |-> c, target |-> s, app |-> mAppId[c],
                 then |-> IF op = "Relaunch" THEN "relaunch" ELSE "return"]
<1>1. c \in Contexts
  BY CallTypes, LookupType DEF CallOnInstance
<1>2. calls' \in Nat
  BY CallTypes DEF CallOnInstance, Begin
<1>3. ClientsOK'
  <2>1. r \in [pc : {"idle", "spawn", "add", "waitLoading", "relaunch"},
                  ctx : Contexts \cup {Null}, target : LifecycleStates,
                  app : Apps \cup {Null}, then : {"return", "waitLoading", "relaunch"}] /\ r.ctx \in Contexts
    BY <1>1, CallTypes DEF ContextsOK
  <2>2. client' = [client EXCEPT ![t] = r]
    BY DEF CallOnInstance
  <2>3. QED
    BY <1>2, <2>1, <2>2, CallTypes, ClientType
<1>4. /\ mTargetLifecycleState' \in [Contexts -> LifecycleStates]
      /\ mForce' \in [Contexts -> BOOLEAN]
  BY <1>1, CallTypes DEF CallOnInstance, ContextsOK
<1>5. QED
  BY <1>3, <1>4, CallInv, CallTypes DEF CallOnInstance, ContextsOK

LEMMA CloseAppSpawnsInv ==
    ASSUME Inv, NEW t \in Clients, CloseAppSpawns(t)
    PROVE  Inv'
<1>1. client[t].app \in Apps \cup {Null} /\ calls' \in Nat
  BY CallTypes DEF CloseAppSpawns
<1>2. ClientsOK'
  BY <1>1, SpawnLookupType DEF CloseAppSpawns, LifecycleStates
<1>3. QED
  BY <1>2, CallInv, CallTypes DEF CloseAppSpawns, ContextsOK

LEMMA TerminateInv ==
    ASSUME Inv, Terminate
    PROVE  Inv'
<1>1. RequestsOK' /\ OnPath'
  <2>1. RequestsOK'
    <3>1. gRequestSemaphore \in Nat /\ gRequestSemaphore' = gRequestSemaphore + 1
      BY DEF Terminate, PostRequest, Inv, TypeOK, RequestsOK
    <3>2. sRunning' \in BOOLEAN
      BY Zenon DEF Terminate
    <3>3. UNCHANGED <<gRequests, worker>>
      BY DEF Terminate
    <3>4. QED
      BY <3>1, <3>2, <3>3 DEF Inv, TypeOK, RequestsOK
  <2>2. OnPath'
    BY DEF Terminate, MutexFree, OnPath
  <2>3. QED
    BY <2>1, <2>2
<1>2. ContextsOK' /\ ClientsOK' /\ EventsOK'
  BY DEF Terminate, contextVars, runtimeVars, Inv, TypeOK, ContextsOK, ClientsOK, EventsOK
<1>3. QED
  BY <1>1, <1>2 DEF Inv, TypeOK

-----------------------------------------------------------------------------
(* Jobs and the environment. *)

LEMMA DispatchInv ==
    ASSUME Inv, NEW k, Dispatch(k)
    PROVE  Inv'
<1>1. jobs \in Seq(Events) /\ k \in DOMAIN jobs /\ ContextsOK
  BY DEF Dispatch, Inv, TypeOK, EventsOK
<1>2. jobs[k] \in Events
  BY <1>1, LenProperties, ElementOfSeq
<1>3. jobs' \in Seq(Events)
  BY <1>1, WithoutType DEF Dispatch
<1> DEFINE c == getContext(jobs[k].inst)
<1>4. c # Null => c \in Loaded /\ c \in Contexts
  BY <1>1, LookupType
<1>5. /\ heap' \in [Contexts -> {"unused", "live", "found", "deleted"}]
      /\ sems' \in [Contexts -> [loading : Nat, running : Nat, frame : Nat, terminating : Nat]]
  <2>1. CASE jobs[k].kind = "STATE"
    <3>1. CASE Ends(jobs[k]) /\ c # Null
      <4>1. heap' = [heap EXCEPT ![c] = "found"] /\ UNCHANGED sems
        BY <2>1, <3>1 DEF Dispatch, HandleStateChange
      <4> HIDE DEF c
      <4>2. QED
        BY <1>1, <4>1 DEF ContextsOK
    <3>2. CASE ~(Ends(jobs[k]) /\ c # Null)
      BY <1>1, <2>1, <3>2 DEF Dispatch, HandleStateChange, ContextsOK
    <3>3. QED
      BY <3>1, <3>2
  <2>2. CASE jobs[k].kind # "STATE"
    <3>1. Signals(jobs[k].kind) \in {"running", "terminating", "frame"}
      BY <1>2, <2>2 DEF Events, Signals
    <3>2. /\ UNCHANGED heap
          /\ IF c # Null THEN Post(c, Signals(jobs[k].kind)) ELSE UNCHANGED sems
      BY <2>2 DEF Dispatch, HandleSignal
    <3>3. QED
      BY <1>1, <1>4, <3>1, <3>2, SemType DEF ContextsOK
  <2>3. QED
    BY <2>1, <2>2
<1>6. ContextsOK'
  BY <1>1, <1>5 DEF Dispatch, ContextsOK
<1>7. RequestsOK' /\ ClientsOK' /\ EventsOK'
  BY <1>3 DEF Dispatch, requestVars, runtimeVars, Inv, TypeOK, RequestsOK, ClientsOK, EventsOK
<1>8. OnPath'
  BY OnPathFrame DEF Dispatch, requestVars, Inv
<1>9. QED
  BY <1>6, <1>7, <1>8 DEF Inv, TypeOK

\* The context that was found is deleted, then erased.
LEMMA DeleteInv ==
    ASSUME Inv, NEW c \in Contexts, DeleteContext(c) \/ EraseContext(c)
    PROVE  Inv'
<1>1. ContextsOK
  BY DEF Inv, TypeOK
<1>2. UNCHANGED unchangedByDelete
  BY DEF DeleteContext, EraseContext
<1>3. heap' \in [Contexts -> {"unused", "live", "found", "deleted"}]
  BY <1>1 DEF DeleteContext, EraseContext, ContextsOK
<1>4. mLoadedApplications' \in Seq(Contexts)
  BY <1>1, WithoutType DEF DeleteContext, EraseContext, ContextsOK
<1>5. ContextsOK'
  BY <1>1, <1>2, <1>3, <1>4 DEF unchangedByDelete, ContextsOK
<1>6. RequestsOK' /\ ClientsOK' /\ EventsOK'
  BY <1>2 DEF unchangedByDelete, requestVars, runtimeVars, Inv, TypeOK, RequestsOK, ClientsOK, EventsOK
<1>7. OnPath'
  BY <1>2, OnPathFrame DEF unchangedByDelete, requestVars, Inv
<1>8. QED
  BY <1>5, <1>6, <1>7 DEF Inv, TypeOK

\* A container or the window manager moves and submits its event.
LEMMA RuntimeInv ==
    ASSUME Inv, NEW i \in Instances,
           ContainerRuns(i) \/ ContainerStops(i) \/ ContainerCrashes(i) \/ FirstFrame(i)
    PROVE  Inv'
<1>1. i \in Nat /\ EventsOK
  BY ConstantsAssumption DEF Instances, Inv, TypeOK
<1>2. \E e \in Events : Submit(e)
  BY <1>1, EventTypes DEF ContainerRuns, ContainerStops, ContainerCrashes, FirstFrame, ContainerGoes
<1>3. jobs' \in Seq(Events)
  BY <1>1, <1>2, SubmitType
<1>4. UNCHANGED <<contextVars, requestVars, worker, client, lastInstance, calls>>
  BY DEF ContainerRuns, ContainerStops, ContainerCrashes, FirstFrame, ContainerGoes
<1>5. window' \in SUBSET Instances
  BY <1>1 DEF ContainerRuns, ContainerStops, ContainerCrashes, FirstFrame, ContainerGoes, EventsOK
<1>6. container' \in [Instances -> {"none", "starting", "running", "paused", "frozen",
                                    "resumed", "stopping", "killing", "stopped"}]
  BY <1>1 DEF ContainerRuns, ContainerStops, ContainerCrashes, FirstFrame, ContainerGoes, EventsOK
<1>7. EventsOK'
  BY <1>3, <1>4, <1>5, <1>6 DEF EventsOK, Inv, TypeOK
<1>8. ContextsOK' /\ RequestsOK' /\ ClientsOK'
  BY <1>4 DEF contextVars, requestVars, Inv, TypeOK, ContextsOK, RequestsOK, ClientsOK
<1>9. OnPath'
  BY <1>4, OnPathFrame DEF contextVars, requestVars, Inv
<1>10. QED
  BY <1>7, <1>8, <1>9 DEF Inv, TypeOK

LEMMA StutterInv ==
    ASSUME Inv, UNCHANGED vars
    PROVE  Inv'
<1>1. OnPath'
  BY OnPathFrame DEF vars, contextVars, requestVars, Inv
<1>2. TypeOK'
  BY DEF vars, contextVars, requestVars, runtimeVars, Inv, TypeOK,
         ContextsOK, RequestsOK, ClientsOK, EventsOK
<1>3. QED
  BY <1>1, <1>2 DEF Inv

-----------------------------------------------------------------------------
(* The invariant. *)

LEMMA ClientNextInv ==
    ASSUME Inv, NEW t \in Clients, ClientNext(t)
    PROVE  Inv'
<1>1. Targets \subseteq LifecycleStates /\ "TERMINATING" \in LifecycleStates
  BY ConstantsAssumption DEF LifecycleStates
<1>2. ASSUME NEW i, NEW s \in Targets, SetTargetAppState(t, i, s) PROVE Inv'
  BY <1>1, <1>2, CallOnInstanceInv DEF SetTargetAppState
<1>3. ASSUME NEW i, UnloadApp(t, i) PROVE Inv'
  BY <1>1, <1>3, CallOnInstanceInv DEF UnloadApp
<1>4. ASSUME NEW i, KillApp(t, i) PROVE Inv'
  BY <1>1, <1>4, CallOnInstanceInv DEF KillApp
<1>5. ASSUME NEW a, CloseApp(t, a) PROVE Inv'
  BY <1>1, <1>5, CallOnInstanceInv DEF CloseApp
<1>6. QED
  BY <1>2, <1>3, <1>4, <1>5, SpawnAppInv, SpawnPrepareInv, AddRequestInv, SpawnReturnInv,
     CloseAppSpawnsInv DEF ClientNext

LEMMA WorkerNextInv ==
    ASSUME Inv, WorkerNext
    PROVE  Inv'
BY TakeRequestInv, SleepInv, EnterLoadingInv, StartInitializingInv, EnterInitializingInv,
   EnterPausedInv, EnterActiveInv, NotRenderedInv, EnterByRuntimeInv, StartTerminatingInv,
   EnterTerminatingInv, EnterUnloadedInv DEF WorkerNext

LEMMA NextInv == Inv /\ [Next]_vars => Inv'
<1> SUFFICES ASSUME Inv, [Next]_vars PROVE Inv'
  OBVIOUS
<1>1. QED
  BY WorkerNextInv, ClientNextInv, DispatchInv, DeleteInv, RuntimeInv, TerminateInv, SleepInv, StutterInv
     DEF Next, Rest

LEMMA Invariant == Spec => []Inv
<1>1. QED
  BY InitInv, NextInv, PTL DEF Spec

\* Every variable keeps its type; in particular every request in the queue
\* names a context, whatever the clients and the pool threads do.
THEOREM TypeCorrect == Spec => []TypeOK
<1>1. Inv => TypeOK
  BY DEF Inv
<1>2. QED
  BY <1>1, Invariant, PTL

\* While changeState runs, its request is at the head of the queue and what
\* is left of its path leads from the present state to the requested one.
THEOREM OnPathAlways == Spec => []OnPath
<1>1. Inv => OnPath
  BY DEF Inv
<1>2. QED
  BY <1>1, Invariant, PTL

-----------------------------------------------------------------------------
(* LifecycleManager implements AppLifecycle: every step of the threads is   *)
(* a step of the abstract specification or changes nothing it speaks of.    *)

\* The abstract variables, as LifecycleProperties substitutes them.
moving == IF worker.pc \in InStep THEN Cur ELSE Null
goal   == IF worker.pc \in InStep THEN Head(gRequests).target ELSE Null

\* Both specifications have the same table and the same final states.
LEMMA SameTable ==
    /\ Abstract!Edges = Edges
    /\ Abstract!LifecycleStates = LifecycleStates
    /\ \A t : Abstract!Final(t) = Final(t)
BY DEF Abstract!Edges, Edges, Abstract!LifecycleStates, LifecycleStates, Abstract!Final, Final

LEMMA InitImplements == Init => Abstract!Init
BY DEF Init, Abstract!Init, InStep, Waits

\* Nothing the abstract specification speaks of changes.
LEMMA NothingMoves ==
    ASSUME UNCHANGED <<mState, moving, goal>>
    PROVE  UNCHANGED Abstract!vars
BY DEF Abstract!vars, moving, goal

\* Entering a state is an abstract move along the table, the last one if the
\* path ends there.
LEMMA EnterMoves ==
    ASSUME Inv, worker.pc \in InStep, NEW s \in LifecycleStates,
           Head(worker.path) = s, Enter(s)
    PROVE  Abstract!Move(s)
<1> DEFINE p == worker.path
<1>1. /\ Cur \in Contexts /\ Cur = moving /\ Head(gRequests).target = goal
      /\ p \in Seq(LifecycleStates) /\ p # <<>>
  BY CurInContexts DEF moving, goal
<1>2. Len(p) \in Nat \ {0} /\ p[1] = s
  <2>1. Len(p) \in Nat \ {0}
    BY <1>1, EmptySeq
  <2>2. Head(p) = p[1]
    BY <1>1, <2>1, SubSeqFull, HeadTailOfSubSeq
  <2>3. QED
    BY <2>1, <2>2
<1>3. <<mState[Cur], s>> \in Edges /\ p[Len(p)] = Final(goal)
  BY <1>1, <1>2 DEF Inv, OnPath, Walk
<1>4. mState' = [mState EXCEPT ![Cur] = s]
  BY DEF Enter
<1>5. CASE Len(p) = 1
  <2>1. moving' = Null /\ goal' = Null
    BY <1>5 DEF Enter, moving, goal, InStep, Waits
  <2>2. s = Abstract!Final(goal)
    BY <1>2, <1>3, <1>5, SameTable
  <2>3. QED
    BY <1>1, <1>3, <1>4, <2>1, <2>2, SameTable DEF Abstract!Move, moving, goal
<1>6. CASE Len(p) # 1
  <2>1. UNCHANGED gRequests /\ worker'.pc = "step"
    BY <1>6 DEF Enter, AfterStep
  <2>2. UNCHANGED <<moving, goal>>
    BY <2>1 DEF moving, goal, Cur, InStep
  <2>3. QED
    BY <1>1, <1>3, <1>4, <2>2, SameTable DEF Abstract!Move, moving, goal
<1>7. QED
  BY <1>5, <1>6

\* A failed step abandons the movement; a step that waits leaves it alone.
LEMMA GiveUpAbandons ==
    ASSUME Inv, worker.pc \in InStep, UNCHANGED mState, worker'.pc \notin InStep
    PROVE  Abstract!Abandon
<1>1. Cur \in Contexts
  BY CurInContexts
<1>2. moving # Null /\ moving' = Null /\ goal' = Null
  BY <1>1, ConstantsAssumption DEF moving, goal
<1>3. QED
  BY <1>2 DEF Abstract!Abandon, moving, goal

LEMMA BlockStutters ==
    ASSUME Inv, worker.pc = "step", NEW pc \in Waits, Block(pc)
    PROVE  UNCHANGED <<mState, moving, goal>>
<1>1. worker'.pc = pc /\ UNCHANGED <<mState, gRequests>>
  BY DEF Block, Inv, TypeOK, RequestsOK
<1>2. QED
  BY <1>1 DEF moving, goal, Cur, InStep

\* Taking a request begins a movement, unless nothing is to be done for it.
LEMMA TakeRequestBegins ==
    ASSUME Inv, TakeRequest
    PROVE  Abstract!Next \/ UNCHANGED <<mState, moving, goal>>
<1> DEFINE target == Head(gRequests).target
<1>1. worker.pc \notin InStep /\ UNCHANGED mState /\ moving = Null /\ goal = Null
  BY DEF TakeRequest, contextVars, moving, goal, InStep, Waits
<1>2. Head(gRequests) \in Requests
  BY DEF TakeRequest, Inv, TypeOK, RequestsOK
<1>3. CASE worker'.pc \notin InStep
  BY <1>1, <1>3 DEF moving, goal
<1>4. CASE worker'.pc \in InStep
  <2>1. UNCHANGED gRequests /\ mState[Cur] # target
    BY <1>1, <1>4 DEF TakeRequest, InStep, Waits
  <2>2. moving' = Cur /\ goal' = target
    BY <1>4, <2>1 DEF moving, goal, Cur
  <2>3. Abstract!Begin(Cur, target)
    BY <1>1, <2>1, <2>2 DEF Abstract!Begin, moving, goal
  <2>4. Cur \in Contexts /\ target \in Abstract!LifecycleStates
    BY <1>2, SameTable DEF Cur, Requests
  <2>5. QED
    BY <2>3, <2>4 DEF Abstract!Next
<1>5. QED
  BY <1>3, <1>4

LEMMA MoveIsNext ==
    ASSUME NEW s \in LifecycleStates, Abstract!Move(s)
    PROVE  Abstract!Next
BY SameTable DEF Abstract!Next

LEMMA WorkerImplements ==
    ASSUME Inv, WorkerNext
    PROVE  Abstract!Next \/ UNCHANGED <<mState, moving, goal>>
<1>1. CASE TakeRequest
  BY <1>1, TakeRequestBegins
<1>2. CASE QueueEmpty \/ WakeUp
  BY <1>2 DEF QueueEmpty, WakeUp, contextVars, requestVars, moving, goal, Cur, InStep, Waits,
              Inv, TypeOK, RequestsOK
<1>3. ASSUME NEW s \in LifecycleStates, worker.pc \in InStep, Head(worker.path) = s, Enter(s)
      PROVE  Abstract!Next
  BY <1>3, EnterMoves, MoveIsNext
<1>4. ASSUME worker.pc \in InStep, GiveUp
      PROVE  Abstract!Next
  <2>1. UNCHANGED mState /\ worker'.pc \notin InStep
    BY <1>4 DEF GiveUp, InStep, Waits
  <2>2. QED
    BY <1>4, <2>1, GiveUpAbandons DEF Abstract!Next
<1>5. CASE EnterLoading \/ EnterPaused \/ EnterUnloaded
  BY <1>3, <1>5 DEF EnterLoading, EnterPaused, EnterUnloaded, GoingTo, InStep, LifecycleStates
<1>6. CASE EnterInitializing \/ EnterActive \/ EnterTerminating
  BY <1>3, <1>6 DEF EnterInitializing, EnterActive, EnterTerminating, GoingTo, InStep, Waits,
                    LifecycleStates, Inv, OnPath
<1>7. CASE StartInitializing \/ NotRendered
  BY <1>4, <1>7, BlockStutters DEF StartInitializing, NotRendered, GoingTo, InStep, Waits
<1>8. ASSUME NEW s \in {"SUSPENDED", "HIBERNATED"}, NEW o \in RuntimeOutcomes, EnterByRuntime(s, o)
      PROVE  Abstract!Next
  BY <1>3, <1>4, <1>8 DEF EnterByRuntime, GoingTo, InStep, LifecycleStates
<1>9. ASSUME NEW o \in RuntimeOutcomes, StartTerminating(o)
      PROVE  Abstract!Next \/ UNCHANGED <<mState, moving, goal>>
  BY <1>4, <1>9, BlockStutters DEF StartTerminating, GoingTo, InStep, Waits
<1>10. QED
  BY <1>1, <1>2, <1>5, <1>6, <1>7, <1>8, <1>9 DEF WorkerNext

\* Adding a request does not disturb the one at the head: the queue is locked
\* while changeState works.
LEMMA ClientImplements ==
    ASSUME Inv, NEW t \in Clients, ClientNext(t)
    PROVE  UNCHANGED <<mState, moving, goal>>
<1>1. UNCHANGED <<mState, worker>>
  BY DEF ClientNext, SpawnApp, SpawnPrepare, AddRequest, SpawnReturn, CloseAppSpawns, CloseApp,
         SetTargetAppState, UnloadApp, KillApp, CallOnInstance,
         unchangedByCall, contextVars
<1>2. UNCHANGED gRequests \/ worker.pc \notin InStep
  BY DEF ClientNext, SpawnApp, SpawnPrepare, AddRequest, SpawnReturn, CloseAppSpawns, CloseApp,
         SetTargetAppState, UnloadApp, KillApp, CallOnInstance,
         unchangedByCall, MutexFree
<1>3. QED
  BY <1>1, <1>2 DEF moving, goal, Cur

LEMMA OthersImplement ==
    ASSUME UNCHANGED <<mState, worker, gRequests>>
    PROVE  UNCHANGED <<mState, moving, goal>>
BY DEF moving, goal, Cur

LEMMA NextImplements == Inv /\ [Next]_vars => [Abstract!Next]_Abstract!vars
<1> SUFFICES ASSUME Inv, [Next]_vars
             PROVE  Abstract!Next \/ UNCHANGED <<mState, moving, goal>>
  BY NothingMoves
<1>1. CASE WorkerNext
  BY <1>1, WorkerImplements
<1>2. CASE \E t \in Clients : ClientNext(t)
  BY <1>2, ClientImplements
<1>3. CASE \E k \in 1..PoolThreads : Dispatch(k)
  BY <1>3, OthersImplement DEF Dispatch, requestVars
<1>4. ASSUME NEW i \in Instances,
             ContainerRuns(i) \/ ContainerStops(i) \/ ContainerCrashes(i) \/ FirstFrame(i)
      PROVE  UNCHANGED <<mState, moving, goal>>
  BY <1>4, OthersImplement DEF ContainerRuns, ContainerStops, ContainerCrashes, FirstFrame,
                               ContainerGoes, contextVars, requestVars
<1>5. CASE Terminate
  BY <1>5, OthersImplement DEF Terminate, contextVars
<1>6. CASE Crash
  <2>1. UNCHANGED mState /\ worker'.pc \notin InStep
    BY <1>6 DEF Crash, contextVars, InStep, Waits
  <2>2. CASE worker.pc \in InStep
    BY <2>1, <2>2, GiveUpAbandons DEF Abstract!Next
  <2>3. CASE worker.pc \notin InStep
    BY <2>1, <2>3 DEF moving, goal
  <2>4. QED
    BY <2>2, <2>3
<1>7. CASE UNCHANGED vars
  BY <1>7, OthersImplement DEF vars, contextVars, requestVars
<1>8. CASE \E c \in Contexts : DeleteContext(c) \/ EraseContext(c)
  BY <1>8, OthersImplement DEF DeleteContext, EraseContext, unchangedByDelete, requestVars
<1>9. QED
  BY <1>1, <1>2, <1>3, <1>4, <1>5, <1>6, <1>7, <1>8 DEF Next, Rest

\* The plugin moves one application at a time along the transition table and
\* completes a request only in the state it asked for, for any number of
\* clients, applications and pool threads.
THEOREM Refinement == Spec => ImplementsLifecycle
<1>1. QED
  BY Invariant, InitImplements, NextImplements, PTL DEF Spec, ImplementsLifecycle, Abstract!Spec

-----------------------------------------------------------------------------
(* handleStateChangeEvent looks for the context to delete some time after  *)
(* the state was changed.  That it never finds one that was launched anew  *)
(* rests on the instance ids: a launch takes a new one, so that the event  *)
(* of the old one does not find the context any more.  That an unloaded instance has  *)
(* no container left rests on TERMINATED: there is one for an instance,    *)
(* and it reaches no other.                                                *)

\* No two contexts share an instance id.
DistinctInstances ==
    \A c, d \in Contexts : mAppInstanceId[c] = mAppInstanceId[d] /\ mAppInstanceId[c] # 0 => c = d

\* The context that an UNLOADED event would find is still unloaded.
Harmless(e) ==
    e.kind = "STATE" /\ Ends(e) =>
        /\ e.inst <= lastInstance
        /\ \A c \in Contexts : mAppInstanceId[c] = e.inst /\ e.inst # 0 => mState[c] = "UNLOADED"

DInv == DistinctInstances /\ \A k \in DOMAIN jobs : Harmless(jobs[k])

-----------------------------------------------------------------------------
(* What the queue of jobs holds after a step. *)

LEMMA AppendedPlace ==
    ASSUME NEW S, NEW q \in Seq(S), NEW e \in S, NEW k \in DOMAIN Append(q, e)
    PROVE  \/ k \in DOMAIN q /\ Append(q, e)[k] = q[k]
           \/ k = Len(q) + 1 /\ k \notin DOMAIN q /\ Append(q, e)[k] = e
                /\ \A i \in DOMAIN q : i < k
<1>1. Len(q) \in Nat /\ DOMAIN q = 1..Len(q)
  BY LenProperties
<1>2. /\ Append(q, e) \in Seq(S) /\ Len(Append(q, e)) = Len(q) + 1
      /\ \A i \in 1..Len(q) : Append(q, e)[i] = q[i]
      /\ Append(q, e)[Len(q) + 1] = e
  BY AppendProperties
<1>3. k \in 1..(Len(q) + 1)
  BY <1>2, LenProperties
<1>4. k \in 1..Len(q) \/ k = Len(q) + 1
  BY <1>1, <1>3
<1>5. QED
  BY <1>1, <1>2, <1>4

LEMMA AppendedJob ==
    ASSUME NEW q \in Seq(Events), NEW e \in Events, NEW k \in DOMAIN Append(q, e)
    PROVE  Append(q, e)[k] = e \/ \E m \in DOMAIN q : Append(q, e)[k] = q[m]
BY AppendedPlace

\* Where the k-th job was before the j-th was taken out.
Place(j, k) == IF k < j THEN k ELSE k + 1

LEMMA RemainingPlace ==
    ASSUME NEW S, NEW q \in Seq(S), NEW j \in DOMAIN q, NEW k \in DOMAIN Without(q, j)
    PROVE  /\ k \in Nat /\ j \in Nat
           /\ Place(j, k) \in DOMAIN q
           /\ Without(q, j)[k] = q[Place(j, k)]
<1> DEFINE a == SubSeq(q, 1, j - 1)
           b == SubSeq(q, j + 1, Len(q))
<1>1. DOMAIN q = 1..Len(q) /\ Len(q) \in Nat /\ j \in 1..Len(q)
  BY LenProperties
<1>2. \A i \in 1..Len(q) : q[i] \in S
  BY <1>1, ElementOfSeq
<1>3. /\ a \in Seq(S) /\ Len(a) = j - 1
      /\ \A i \in 1..(j - 1) : a[i] = q[i]
  <2>1. 1 \in Int /\ j - 1 \in Int /\ \A i \in 1..(j - 1) : q[i] \in S
    BY <1>1, <1>2
  <2>2. /\ a \in Seq(S) /\ Len(a) = IF 1 <= j - 1 THEN (j - 1) - 1 + 1 ELSE 0
        /\ \A i \in 1..((j - 1) - 1 + 1) : a[i] = q[1 + i - 1]
    BY <2>1, SubSeqProperties
  <2>3. Len(a) = j - 1
    BY <1>1, <2>2
  <2>4. \A i \in 1..(j - 1) : i \in 1..((j - 1) - 1 + 1) /\ 1 + i - 1 = i
    BY <1>1
  <2>5. QED
    BY <2>2, <2>3, <2>4
<1>4. /\ b \in Seq(S) /\ Len(b) = Len(q) - j
      /\ \A i \in 1..(Len(q) - j) : b[i] = q[j + i]
  <2>1. j + 1 \in Int /\ Len(q) \in Int /\ \A i \in (j + 1)..Len(q) : q[i] \in S
    BY <1>1, <1>2
  <2>2. /\ b \in Seq(S) /\ Len(b) = IF j + 1 <= Len(q) THEN Len(q) - (j + 1) + 1 ELSE 0
        /\ \A i \in 1..(Len(q) - (j + 1) + 1) : b[i] = q[(j + 1) + i - 1]
    BY <2>1, SubSeqProperties
  <2>3. Len(b) = Len(q) - j
    BY <1>1, <2>2
  <2>4. \A i \in 1..(Len(q) - j) : i \in 1..(Len(q) - (j + 1) + 1) /\ (j + 1) + i - 1 = j + i
    BY <1>1
  <2>5. QED
    BY <2>2, <2>3, <2>4
<1>5. /\ Without(q, j) = a \o b /\ a \o b \in Seq(S)
      /\ Len(a \o b) = Len(a) + Len(b)
      /\ \A i \in 1..(Len(a) + Len(b)) : (a \o b)[i] = IF i <= Len(a) THEN a[i] ELSE b[i - Len(a)]
  BY <1>3, <1>4, ConcatProperties DEF Without
<1> HIDE DEF a, b
<1>6. k \in 1..(Len(q) - 1) /\ Len(a) + Len(b) = Len(q) - 1
  <2>1. Len(a) + Len(b) = Len(q) - 1
    BY <1>1, <1>3, <1>4
  <2>2. k \in 1..Len(a \o b)
    BY <1>5, LenProperties
  <2>3. QED
    BY <1>5, <2>1, <2>2
<1>7. CASE k <= j - 1
  <2>1. k \in 1..(j - 1) /\ k \in 1..Len(q)
    BY <1>1, <1>6, <1>7
  <2>2. Without(q, j)[k] = q[k]
    BY <1>3, <1>5, <1>6, <1>7, <2>1
  <2>3. Place(j, k) = k
    BY <1>1, <1>6, <1>7 DEF Place
  <2>4. QED
    BY <1>1, <1>6, <2>1, <2>2, <2>3
<1>8. CASE ~(k <= j - 1)
  <2>1. k - (j - 1) \in 1..(Len(q) - j) /\ j + (k - (j - 1)) = k + 1 /\ k + 1 \in 1..Len(q)
    BY <1>1, <1>6, <1>8
  <2>2. Without(q, j)[k] = b[k - (j - 1)]
    BY <1>3, <1>5, <1>6, <1>8
  <2>3. b[k - (j - 1)] = q[k + 1]
    BY <1>4, <2>1
  <2>4. Place(j, k) = k + 1
    BY <1>1, <1>6, <1>8 DEF Place
  <2>5. QED
    BY <1>1, <1>6, <2>1, <2>2, <2>3, <2>4
<1>9. QED
  BY <1>7, <1>8

LEMMA RemainingJob ==
    ASSUME NEW S, NEW q \in Seq(S), NEW j \in DOMAIN q, NEW k \in DOMAIN Without(q, j)
    PROVE  \E m \in DOMAIN q : Without(q, j)[k] = q[m]
BY RemainingPlace

-----------------------------------------------------------------------------
(* Preservation. *)

\* It is enough to look at the jobs that were there and at a submitted one.
LEMMA SubmitKeeps ==
    ASSUME Inv, DInv, DistinctInstances', NEW e \in Events, Submit(e), Harmless(e)',
           \A x \in Events : Harmless(x) => Harmless(x)'
    PROVE  DInv'
<1>1. jobs \in Seq(Events) /\ jobs' = Append(jobs, e)
  BY DEF Submit, Inv, TypeOK, EventsOK
<1>2. ASSUME NEW k \in DOMAIN jobs'
      PROVE  Harmless(jobs[k])'
  <2>1. CASE jobs'[k] = e
    BY <2>1 DEF Harmless, Ends
  <2>2. CASE \E m \in DOMAIN jobs : jobs'[k] = jobs[m]
    <3>1. PICK m \in DOMAIN jobs : jobs'[k] = jobs[m]
      BY <2>2
    <3>2. PICK x \in Events : x = jobs[m]
      BY <1>1, LenProperties, ElementOfSeq
    <3>3. Harmless(x)'
      BY <3>2 DEF DInv
    <3>4. QED
      BY <3>1, <3>2, <3>3 DEF Harmless, Ends
  <2>3. QED
    BY <1>1, <2>1, <2>2, AppendedJob
<1>3. QED
  BY <1>2 DEF DInv

\* Steps that leave states, instances and jobs alone.
LEMMA FrameKeeps ==
    ASSUME DInv, UNCHANGED <<mState, mAppInstanceId, lastInstance, jobs>>
    PROVE  DInv'
BY DEF DInv, DistinctInstances, Harmless, Ends

\* Steps that submit an event which deletes nothing.
LEMMA SignalKeeps ==
    ASSUME Inv, DInv, UNCHANGED <<mState, mAppInstanceId, lastInstance>>,
           NEW e \in Events, Submit(e), ~(e.kind = "STATE" /\ Ends(e))
    PROVE  DInv'
<1>1. DistinctInstances' /\ Harmless(e)' /\ \A x \in Events : Harmless(x) => Harmless(x)'
  BY DEF DInv, DistinctInstances, Harmless, Ends
<1>2. QED
  BY <1>1, SubmitKeeps

\* A step of a path is an edge of the table.
LEMMA StepEdge ==
    ASSUME Inv, worker.pc \in InStep
    PROVE  <<mState[Cur], Head(worker.path)>> \in Edges
<1>1. worker.path \in Seq(LifecycleStates) /\ worker.path # <<>>
  BY CurInContexts
<1>2. Len(worker.path) \in Nat \ {0}
  BY <1>1, EmptySeq
<1>3. Head(worker.path) = worker.path[1]
  BY <1>1, <1>2, SubSeqFull, HeadTailOfSubSeq
<1>4. QED
  BY <1>3 DEF Inv, OnPath, Walk

\* Only a launch leaves UNLOADED.
LEMMA LeavesUnloaded ==
    ASSUME Inv, worker.pc \in InStep, Head(worker.path) # "LOADING"
    PROVE  mState[Cur] # "UNLOADED"
BY StepEdge DEF Edges

\* Entering a state other than LOADING: contexts that were unloaded stay so.
LEMMA EnterHarmless ==
    ASSUME Inv, DInv, worker.pc \in InStep, NEW s \in LifecycleStates, s # "LOADING",
           Head(worker.path) = s, Enter(s), UNCHANGED <<mAppInstanceId, lastInstance>>
    PROVE  /\ DistinctInstances'
           /\ \A x \in Events : Harmless(x) => Harmless(x)'
           /\ mState'[Cur] = s
<1>1. Cur \in Contexts /\ mState \in [Contexts -> LifecycleStates]
  BY CurInContexts DEF Inv, TypeOK, ContextsOK
<1>2. mState' = [mState EXCEPT ![Cur] = s]
  BY DEF Enter
<1>3. mState[Cur] # "UNLOADED"
  BY LeavesUnloaded
<1>4. \A c \in Contexts : mState[c] = "UNLOADED" => mState'[c] = "UNLOADED"
  BY <1>1, <1>2, <1>3
<1>5. \A x \in Events : Harmless(x) => Harmless(x)'
  BY <1>4 DEF Harmless, Ends
<1>6. DistinctInstances'
  BY DEF DInv, DistinctInstances
<1>7. QED
  BY <1>1, <1>2, <1>5, <1>6

LEMMA EnterKeeps ==
    ASSUME Inv, DInv, worker.pc \in InStep, NEW s \in LifecycleStates, s # "LOADING",
           Head(worker.path) = s, Enter(s), UNCHANGED <<mAppInstanceId, lastInstance>>,
           Submit(StateEvent(CurInst, mState[Cur], s))
    PROVE  DInv'
<1>1. /\ Cur \in Contexts /\ CurInst \in Nat /\ mState[Cur] \in LifecycleStates
      /\ mAppInstanceId \in [Contexts -> 0..lastInstance] /\ lastInstance \in Nat
  BY CurInContexts DEF Inv, TypeOK, ContextsOK, EventsOK
<1>2. PICK e \in Events : e = StateEvent(CurInst, mState[Cur], s)
  BY <1>1, EventTypes
<1>3. e.kind = "STATE" /\ e.inst = mAppInstanceId[Cur] /\ e.new = s
  BY <1>2 DEF StateEvent, CurInst
<1>4. e.inst <= lastInstance
  BY <1>1, <1>3
<1>5. ASSUME s = "UNLOADED", NEW c \in Contexts, mAppInstanceId[c] = e.inst, e.inst # 0
      PROVE  mState'[c] = "UNLOADED"
  <2>1. c = Cur
    BY <1>1, <1>3, <1>5 DEF DInv, DistinctInstances
  <2>2. QED
    BY <1>5, <2>1, EnterHarmless
<1>6. Harmless(e)'
  BY <1>3, <1>4, <1>5 DEF Harmless, Ends
<1>7. QED
  BY <1>2, <1>6, EnterHarmless, SubmitKeeps

\* A launch takes an instance id that no context and no job has.
LEMMA EnterLoadingKeeps ==
    ASSUME Inv, DInv, EnterLoading
    PROVE  DInv'
<1>1. worker.pc \in InStep
  BY DEF EnterLoading, GoingTo, InStep
<1>2. /\ Cur \in Contexts /\ mState[Cur] \in LifecycleStates
      /\ mState \in [Contexts -> LifecycleStates]
      /\ mAppInstanceId \in [Contexts -> 0..lastInstance] /\ lastInstance \in Nat
  <2>1. Cur \in Contexts /\ mState[Cur] \in LifecycleStates
    BY <1>1, CurInContexts
  <2>2. /\ mState \in [Contexts -> LifecycleStates]
        /\ mAppInstanceId \in [Contexts -> 0..lastInstance]
    BY DEF Inv, TypeOK, ContextsOK
  <2>3. lastInstance \in Nat
    BY ConstantsAssumption DEF Inv, TypeOK, EventsOK
  <2>4. QED
    BY <2>1, <2>2, <2>3
<1>3. /\ lastInstance' = lastInstance + 1
      /\ mAppInstanceId' = [mAppInstanceId EXCEPT ![Cur] = lastInstance + 1]
      /\ mState' = [mState EXCEPT ![Cur] = "LOADING"]
  BY DEF EnterLoading, Enter
<1>4. \A c \in Contexts : mAppInstanceId[c] <= lastInstance /\ mAppInstanceId[c] \in Nat
  BY <1>2
<1>5. /\ mAppInstanceId'[Cur] = lastInstance + 1
      /\ \A c \in Contexts : c # Cur => mAppInstanceId'[c] = mAppInstanceId[c] /\ mState'[c] = mState[c]
  BY <1>2, <1>3
<1>6. DistinctInstances'
  <2>1. ASSUME NEW c \in Contexts, NEW d \in Contexts,
               mAppInstanceId'[c] = mAppInstanceId'[d], mAppInstanceId'[c] # 0
        PROVE  c = d
    <3>1. CASE c = Cur \/ d = Cur
      BY <1>2, <1>4, <1>5, <2>1, <3>1
    <3>2. CASE c # Cur /\ d # Cur
      BY <1>5, <2>1, <3>2 DEF DInv, DistinctInstances
    <3>3. QED
      BY <3>1, <3>2
  <2>2. QED
    BY <2>1 DEF DistinctInstances
<1>7. ASSUME NEW x \in Events, Harmless(x)
      PROVE  Harmless(x)'
  <2>1. SUFFICES ASSUME x.kind = "STATE", Ends(x)
                 PROVE  /\ x.inst <= lastInstance'
                        /\ \A c \in Contexts : mAppInstanceId'[c] = x.inst /\ x.inst # 0 =>
                                                   mState'[c] = "UNLOADED"
    BY DEF Harmless, Ends
  <2>2. /\ x.inst <= lastInstance /\ x.inst \in Nat
        /\ \A c \in Contexts : mAppInstanceId[c] = x.inst /\ x.inst # 0 => mState[c] = "UNLOADED"
    BY <1>7, <2>1 DEF Harmless, Events
  <2>3. x.inst <= lastInstance' /\ x.inst # lastInstance + 1
    BY <1>2, <1>3, <2>2
  <2>4. QED
    BY <1>5, <2>2, <2>3
<1>8. PICK e \in Events : e = StateEvent(lastInstance + 1, mState[Cur], "LOADING")
  <2>1. lastInstance + 1 \in Nat /\ "LOADING" \in LifecycleStates
    BY <1>2 DEF LifecycleStates
  <2>2. QED
    BY <1>2, <2>1, EventTypes
<1>9. Harmless(e)' /\ Submit(e)
  <2>1. e.new = "LOADING"
    BY <1>8 DEF StateEvent
  <2>2. Submit(e)
    BY <1>8 DEF EnterLoading
  <2>3. QED
    BY <2>1, <2>2 DEF Harmless, Ends
<1>10. QED
  BY <1>6, <1>7, <1>9, SubmitKeeps

\* The other steps of changeState.
LEMMA WorkerKeeps ==
    ASSUME Inv, DInv, WorkerNext
    PROVE  DInv'
<1>1. CASE TakeRequest \/ QueueEmpty \/ WakeUp
  BY <1>1, FrameKeeps DEF TakeRequest, QueueEmpty, WakeUp, contextVars
<1>2. CASE EnterLoading
  BY <1>2, EnterLoadingKeeps
<1>3. CASE StartInitializing \/ NotRendered
  BY <1>3, FrameKeeps DEF StartInitializing, NotRendered, Block, GiveUp
<1>4. CASE EnterInitializing
  BY <1>4, EnterKeeps DEF EnterInitializing, InStep, Waits, Inv, OnPath, LifecycleStates
<1>5. CASE EnterPaused
  BY <1>5, EnterKeeps DEF EnterPaused, GoingTo, InStep, LifecycleStates
<1>6. CASE EnterActive
  BY <1>6, EnterKeeps DEF EnterActive, GoingTo, InStep, Waits, Inv, OnPath, LifecycleStates
<1>7. ASSUME NEW s \in {"SUSPENDED", "HIBERNATED"}, NEW o, EnterByRuntime(s, o)
      PROVE  DInv'
  <2>1. CASE GiveUp /\ UNCHANGED jobs
    BY <1>7, <2>1, FrameKeeps DEF EnterByRuntime, GiveUp
  <2>2. CASE Enter(s) /\ Submit(StateEvent(CurInst, mState[Cur], s))
    BY <1>7, <2>2, EnterKeeps DEF EnterByRuntime, GoingTo, InStep, LifecycleStates
  <2>3. QED
    BY <1>7, <2>1, <2>2 DEF EnterByRuntime
<1>8. ASSUME NEW o, StartTerminating(o)
      PROVE  DInv'
  <2>1. CurInst \in Nat /\ mState[Cur] \in LifecycleStates /\ "TERMINATING" \in LifecycleStates
    BY <1>8, CurInContexts DEF StartTerminating, GoingTo, InStep, LifecycleStates
  <2>2. PICK e \in Events : e = StateEvent(CurInst, mState[Cur], "TERMINATING")
    BY <2>1, EventTypes
  <2>3. Submit(e) /\ ~Ends(e)
    BY <1>8, <2>2 DEF StartTerminating, StateEvent, Ends
  <2>4. UNCHANGED <<mState, mAppInstanceId, lastInstance>>
    BY <1>8 DEF StartTerminating, Block, GiveUp
  <2>5. QED
    BY <2>3, <2>4, SignalKeeps
<1>9. CASE EnterTerminating
  <2>1. /\ worker.pc \in InStep /\ Head(worker.path) = "TERMINATING"
        /\ "TERMINATING" \in LifecycleStates
        /\ Enter("TERMINATING") /\ UNCHANGED <<mAppInstanceId, lastInstance, jobs>>
    BY <1>9 DEF EnterTerminating, InStep, Waits, Inv, OnPath, LifecycleStates
  <2>2. DistinctInstances' /\ \A x \in Events : Harmless(x) => Harmless(x)'
    BY <2>1, EnterHarmless
  <2>3. ASSUME NEW k \in DOMAIN jobs'
        PROVE  Harmless(jobs[k])'
    <3>1. PICK x \in Events : x = jobs[k]
      BY <2>1, <2>3, LenProperties, ElementOfSeq DEF Inv, TypeOK, EventsOK
    <3>2. Harmless(x)'
      BY <2>1, <2>2, <2>3, <3>1 DEF DInv
    <3>3. QED
      BY <2>1, <3>1, <3>2 DEF Harmless, Ends
  <2>4. QED
    BY <2>2, <2>3 DEF DInv
<1>10. CASE EnterUnloaded
  BY <1>10, EnterKeeps DEF EnterUnloaded, GoingTo, InStep, LifecycleStates
<1>11. QED
  BY <1>1, <1>2, <1>3, <1>4, <1>5, <1>6, <1>7, <1>8, <1>9, <1>10 DEF WorkerNext

LEMMA DispatchKeeps ==
    ASSUME Inv, DInv, NEW j, Dispatch(j)
    PROVE  DInv'
<1>1. /\ jobs \in Seq(Events) /\ j \in DOMAIN jobs /\ jobs' = Without(jobs, j)
      /\ UNCHANGED <<mState, mAppInstanceId, lastInstance>>
  BY DEF Dispatch, Inv, TypeOK, EventsOK
<1>2. ASSUME NEW k \in DOMAIN jobs'
      PROVE  Harmless(jobs[k])'
  <2>1. PICK m \in DOMAIN jobs : jobs'[k] = jobs[m]
    BY <1>1, RemainingJob
  <2>2. Harmless(jobs[m])
    BY DEF DInv
  <2>3. QED
    BY <1>1, <2>1, <2>2 DEF Harmless, Ends
<1>3. DistinctInstances'
  BY <1>1 DEF DInv, DistinctInstances
<1>4. QED
  BY <1>2, <1>3 DEF DInv

LEMMA RuntimeKeeps ==
    ASSUME Inv, DInv, NEW i \in Instances,
           ContainerRuns(i) \/ ContainerStops(i) \/ ContainerCrashes(i) \/ FirstFrame(i)
    PROVE  DInv'
<1>1. i \in Nat
  BY ConstantsAssumption DEF Instances
<1>2. UNCHANGED <<mState, mAppInstanceId, lastInstance>>
  BY DEF ContainerRuns, ContainerStops, ContainerCrashes, FirstFrame, ContainerGoes, contextVars
<1>3. \E n \in {"RUNNING", "TERMINATED", "READY"} : Submit(RuntimeEvent(n, i))
  BY DEF ContainerRuns, ContainerStops, ContainerCrashes, FirstFrame, ContainerGoes
<1>4. PICK n \in {"RUNNING", "TERMINATED", "READY"} : Submit(RuntimeEvent(n, i))
  BY <1>3
<1>5. PICK e \in Events : e = RuntimeEvent(n, i)
  BY <1>1, EventTypes
<1>6. Submit(e) /\ e.kind # "STATE"
  BY <1>4, <1>5 DEF RuntimeEvent
<1>7. QED
  BY <1>2, <1>6, SignalKeeps

LEMMA InitDInv == Init => DInv
BY DEF Init, DInv, DistinctInstances

LEMMA NextDInv == Inv /\ DInv /\ [Next]_vars => DInv'
<1> SUFFICES ASSUME Inv, DInv, [Next]_vars PROVE DInv'
  OBVIOUS
<1>1. ASSUME NEW t \in Clients, ClientNext(t)
      PROVE  DInv'
  BY <1>1, FrameKeeps DEF ClientNext, SpawnApp, SpawnPrepare, AddRequest, SpawnReturn,
         CloseAppSpawns, CloseApp, SetTargetAppState, UnloadApp, KillApp, CallOnInstance,
         unchangedByCall, contextVars
<1>2. CASE Terminate \/ Crash \/ UNCHANGED vars
  BY <1>2, FrameKeeps DEF Terminate, Crash, vars, contextVars
<1>3. ASSUME NEW c \in Contexts, DeleteContext(c) \/ EraseContext(c)
      PROVE  DInv'
  BY <1>3, FrameKeeps DEF DeleteContext, EraseContext, unchangedByDelete
<1>4. QED
  BY <1>1, <1>2, <1>3, WorkerKeeps, DispatchKeeps, RuntimeKeeps DEF Next, Rest

-----------------------------------------------------------------------------
(* The theorem. *)

LEMMA FindingStep ==
    Inv /\ DInv /\ [Next]_vars =>
        [\A c \in Contexts : heap'[c] = "found" /\ heap[c] # "found" => mState[c] = "UNLOADED"]_vars
<1> SUFFICES ASSUME Inv, DInv, [Next]_vars,
                    NEW d \in Contexts, heap'[d] = "found", heap[d] # "found"
             PROVE  mState[d] = "UNLOADED"
  OBVIOUS
<1>1. heap \in [Contexts -> {"unused", "live", "found", "deleted"}] /\ ContextsOK
  BY DEF Inv, TypeOK, ContextsOK
<1>2. \E k \in 1..PoolThreads : Dispatch(k)
  <2>1. ~WorkerNext
    BY DEF WorkerNext, TakeRequest, QueueEmpty, WakeUp, EnterLoading, StartInitializing,
           EnterInitializing, EnterPaused, EnterActive, NotRendered, EnterByRuntime,
           StartTerminating, EnterTerminating, EnterUnloaded, unchangedByStep, contextVars
  <2>2. ASSUME NEW t \in Clients, ClientNext(t)
        PROVE  FALSE
    <3>1. CASE SpawnPrepare(t)
      BY <1>1, <3>1 DEF SpawnPrepare
    <3>2. QED
      BY <2>2, <3>1 DEF ClientNext, SpawnApp, AddRequest, SpawnReturn, CloseAppSpawns, CloseApp,
         SetTargetAppState, UnloadApp, KillApp, CallOnInstance, contextVars
  <2>3. ~(Terminate \/ Crash \/ UNCHANGED vars)
    BY DEF Terminate, Crash, vars, contextVars
  <2>4. ASSUME NEW i \in Instances,
               ContainerRuns(i) \/ ContainerStops(i) \/ ContainerCrashes(i) \/ FirstFrame(i)
        PROVE  FALSE
    BY <2>4 DEF ContainerRuns, ContainerStops, ContainerCrashes, FirstFrame, ContainerGoes, contextVars
  <2>5. ASSUME NEW c \in Contexts, DeleteContext(c) \/ EraseContext(c)
        PROVE  FALSE
    BY <1>1, <2>5 DEF DeleteContext, EraseContext
  <2>6. QED
    BY <2>1, <2>2, <2>3, <2>4, <2>5 DEF Next, Rest
<1>3. PICK k \in 1..PoolThreads : Dispatch(k)
  BY <1>2
<1> DEFINE c == getContext(jobs[k].inst)
<1>4. /\ k \in DOMAIN jobs /\ jobs[k].kind = "STATE" /\ Ends(jobs[k]) /\ c # Null
      /\ heap' = [heap EXCEPT ![c] = "found"]
  BY <1>3 DEF Dispatch, HandleStateChange, HandleSignal
<1>5. d = c
  BY <1>1, <1>4
<1>6. jobs[k].inst # 0 /\ mAppInstanceId[c] = jobs[k].inst
  BY <1>1, <1>4, LookupType
<1>7. QED
  BY <1>4, <1>5, <1>6 DEF DInv, Harmless

\* handleStateChangeEvent finds a context to delete only while it is unloaded:
\* an UNLOADED event that is dispatched late never finds one that was launched
\* anew before.  A relaunch between the lookup and the deletion it does not see.
THEOREM LateEventsSafe == Spec => FindsOnlyUnloaded
<1>1. Spec => []DInv
  BY Invariant, InitDInv, NextDInv, PTL DEF Spec
<1>2. QED
  BY <1>1, Invariant, FindingStep, PTL DEF Spec, FindsOnlyUnloaded
-----------------------------------------------------------------------------
(* Unloading waits for the end of the container.  An instance's container  *)
(* stops once, so there is one TERMINATED event for it: queued, counted by *)
(* the semaphore or taken by changeState on its way to UNLOADED.           *)

Told(i) == \E k \in DOMAIN jobs : jobs[k].kind = "TERMINATED" /\ jobs[k].inst = i

ToldOnce ==
    \A k \in DOMAIN jobs : jobs[k].kind = "TERMINATED" =>
        /\ jobs[k].inst \in Instances /\ jobs[k].inst <= lastInstance
        /\ container[jobs[k].inst] = "stopped"
        /\ \A j \in DOMAIN jobs : jobs[j].kind = "TERMINATED" /\ jobs[j].inst = jobs[k].inst => j = k

\* A context was signalled only the end of its own container, and the
\* signal is spent once the state is behind the wait.
Signalled(c) ==
    LET i == mAppInstanceId[c]
        n == sems[c].terminating
    IN  /\ n <= 1
        /\ n = 1 => i # 0 /\ container[i] = "stopped" /\ ~Told(i)
        /\ mState[c] \in {"TERMINATING", "UNLOADED"} =>
               n = 0 /\ ~Told(i) /\ (i # 0 => container[i] = "stopped")
        /\ mState[c] # "UNLOADED" => i # 0

\* The container of an instance is started once.
StartedOnce(c) ==
    mState[c] = "LOADING" /\ worker.pc # "crashed" /\ ~(worker.pc = "waitRunning" /\ Cur = c) =>
        container[mAppInstanceId[c]] = "none"

NotYet == \A i \in Instances : i > lastInstance => container[i] = "none"

UInv ==
    /\ ToldOnce
    /\ \A c \in Contexts : Signalled(c) /\ StartedOnce(c)
    /\ NotYet

-----------------------------------------------------------------------------
(* What a step does to the TERMINATED events that are queued. *)

\* Containers that have not started or have stopped are left alone.
Calm == \A i \in Instances : container[i] \in {"none", "stopped"} => container'[i] = container[i]

\* The events afterwards are events from before, and still one at most.
Quiet == ToldOnce' /\ \A i : Told(i)' => Told(i)

LEMMA SameJobs ==
    ASSUME UInv, Calm, UNCHANGED <<jobs, lastInstance>>
    PROVE  Quiet
BY DEF UInv, ToldOnce, Told, Quiet, Calm

LEMMA OtherJob ==
    ASSUME Inv, UInv, Calm, lastInstance' \in {lastInstance, lastInstance + 1},
           NEW e \in Events, Submit(e), e.kind # "TERMINATED"
    PROVE  Quiet
<1>1. jobs \in Seq(Events) /\ jobs' = Append(jobs, e) /\ lastInstance \in Nat
  BY ConstantsAssumption DEF Submit, Inv, TypeOK, EventsOK
<1>2. ASSUME NEW k \in DOMAIN jobs', jobs'[k].kind = "TERMINATED"
      PROVE  k \in DOMAIN jobs /\ jobs'[k] = jobs[k]
  BY <1>1, <1>2, AppendedPlace
<1>3. \A i : Told(i)' => Told(i)
  BY <1>2 DEF Told
<1>4. ASSUME NEW k \in DOMAIN jobs', jobs'[k].kind = "TERMINATED"
      PROVE  /\ jobs'[k].inst \in Instances /\ jobs'[k].inst <= lastInstance'
             /\ container'[jobs'[k].inst] = "stopped"
             /\ \A j \in DOMAIN jobs' :
                   jobs'[j].kind = "TERMINATED" /\ jobs'[j].inst = jobs'[k].inst => j = k
  <2>1. k \in DOMAIN jobs /\ jobs'[k] = jobs[k]
    BY <1>2, <1>4
  <2>2. /\ jobs[k].inst \in Instances /\ jobs[k].inst <= lastInstance
        /\ container[jobs[k].inst] = "stopped"
        /\ \A j \in DOMAIN jobs : jobs[j].kind = "TERMINATED" /\ jobs[j].inst = jobs[k].inst => j = k
    BY <1>4, <2>1 DEF UInv, ToldOnce
  <2>3. jobs[k].inst \in Nat
    BY <2>2, ConstantsAssumption DEF Instances
  <2>4. jobs[k].inst <= lastInstance'
    BY <1>1, <2>2, <2>3
  <2>5. container'[jobs[k].inst] = "stopped"
    BY <2>2 DEF Calm
  <2>6. \A j \in DOMAIN jobs' :
            jobs'[j].kind = "TERMINATED" /\ jobs'[j].inst = jobs'[k].inst => j = k
    BY <1>2, <2>1, <2>2
  <2>7. QED
    BY <2>1, <2>2, <2>4, <2>5, <2>6
<1>5. ToldOnce'
  BY <1>4 DEF ToldOnce
<1>6. QED
  BY <1>3, <1>5 DEF Quiet

LEMMA TakenJob ==
    ASSUME Inv, UInv, NEW k \in DOMAIN jobs, jobs' = Without(jobs, k),
           UNCHANGED <<container, lastInstance>>
    PROVE  /\ Quiet
           /\ \A i : jobs[k].kind = "TERMINATED" /\ jobs[k].inst = i => ~Told(i)'
<1>1. jobs \in Seq(Events)
  BY DEF Inv, TypeOK, EventsOK
<1>2. ASSUME NEW j \in DOMAIN jobs'
      PROVE  /\ Place(k, j) \in DOMAIN jobs /\ jobs'[j] = jobs[Place(k, j)]
             /\ j \in Nat /\ k \in Nat
  BY <1>1, <1>2, RemainingPlace
<1>3. ASSUME NEW j \in DOMAIN jobs'
      PROVE  Place(k, j) # k /\ \A l \in DOMAIN jobs' : Place(k, l) = Place(k, j) => l = j
  BY <1>2, <1>3 DEF Place
<1>4. \A i : Told(i)' => Told(i)
  BY <1>2 DEF Told
<1>5. ToldOnce'
  BY <1>2, <1>3 DEF UInv, ToldOnce
<1>6. ASSUME NEW i, jobs[k].kind = "TERMINATED", jobs[k].inst = i
      PROVE  ~Told(i)'
  BY <1>2, <1>3, <1>6 DEF UInv, ToldOnce, Told
<1>7. QED
  BY <1>4, <1>5, <1>6 DEF Quiet

-----------------------------------------------------------------------------
(* Steps that stop no container and deliver no TERMINATED. *)

LEMMA StayUnloaded ==
    ASSUME Inv, UInv, Calm, Quiet, UNCHANGED <<mState, mAppInstanceId, lastInstance>>,
           \A c \in Contexts : sems'[c].terminating = sems[c].terminating,
           worker.pc = "crashed" => worker'.pc = "crashed",
           worker.pc = "waitRunning" =>
               worker'.pc = "crashed" \/ (worker'.pc = "waitRunning" /\ Cur' = Cur)
    PROVE  UInv'
<1>1. \A c \in Contexts : mAppInstanceId[c] # 0 => mAppInstanceId[c] \in Instances
  BY Unmoved, ConstantsAssumption DEF Instances
<1>2. ASSUME NEW c \in Contexts
      PROVE  Signalled(c)'
  <2>1. Signalled(c)
    BY DEF UInv
  <2>2. QED
    BY <1>1, <2>1 DEF Signalled, Calm, Quiet
<1>3. ASSUME NEW c \in Contexts
      PROVE  StartedOnce(c)'
  <2>1. StartedOnce(c) /\ Signalled(c)
    BY DEF UInv
  <2>2. mState[c] = "LOADING" => mAppInstanceId[c] \in Instances
    BY <1>1, <2>1 DEF Signalled
  <2>3. QED
    BY <2>1, <2>2 DEF StartedOnce, Calm
<1>4. NotYet'
  BY DEF UInv, NotYet, Calm
<1>5. QED
  BY <1>2, <1>3, <1>4 DEF UInv, Quiet

LEMMA EnterUnloads ==
    ASSUME Inv, UInv, Calm, Quiet, UNCHANGED <<mAppInstanceId, lastInstance>>,
           \A c \in Contexts : sems'[c].terminating = sems[c].terminating,
           worker.pc \in InStep, NEW s \in LifecycleStates \ {"LOADING", "TERMINATING"},
           Head(worker.path) = s, Enter(s)
    PROVE  UInv'
<1>1. \A c \in Contexts : mAppInstanceId[c] # 0 => mAppInstanceId[c] \in Instances
  BY Unmoved, ConstantsAssumption DEF Instances
<1>2. /\ Cur \in Contexts /\ mState \in [Contexts -> LifecycleStates]
      /\ mState' = [mState EXCEPT ![Cur] = s]
      /\ worker'.pc \in {"scan", "step"}
  BY CurInContexts DEF Inv, TypeOK, ContextsOK, Enter
<1>3. mState[Cur] # "UNLOADED" /\ (s = "UNLOADED" => mState[Cur] = "TERMINATING")
  BY StepEdge DEF Edges
<1>4. ASSUME NEW c \in Contexts
      PROVE  Signalled(c)'
  <2>1. Signalled(c)
    BY DEF UInv
  <2>2. mState'[c] \in {"TERMINATING", "UNLOADED"} => mState[c] \in {"TERMINATING", "UNLOADED"}
    BY <1>2, <1>3
  <2>3. mState'[c] # "UNLOADED" => mState[c] # "UNLOADED"
    BY <1>2, <1>3
  <2>4. QED
    BY <1>1, <2>1, <2>2, <2>3 DEF Signalled, Calm, Quiet
<1>5. ASSUME NEW c \in Contexts
      PROVE  StartedOnce(c)'
  <2>1. StartedOnce(c) /\ Signalled(c) /\ worker.pc # "crashed"
    BY DEF UInv, InStep, Waits
  <2>2. mState'[c] = "LOADING" => c # Cur /\ mState[c] = "LOADING" /\ mAppInstanceId[c] \in Instances
    BY <1>1, <1>2, <2>1 DEF Signalled
  <2>3. QED
    BY <2>1, <2>2 DEF StartedOnce, Calm
<1>6. NotYet'
  BY DEF UInv, NotYet, Calm
<1>7. QED
  BY <1>4, <1>5, <1>6 DEF UInv, Quiet

-----------------------------------------------------------------------------
(* Launching, starting and terminating. *)

\* The new instance has no container yet, and nothing was signalled for it.
LEMMA LaunchUnloads ==
    ASSUME Inv, UInv, EnterLoading
    PROVE  UInv'
<1>1. worker.pc \in InStep /\ Head(worker.path) = "LOADING"
  BY DEF EnterLoading, GoingTo, InStep
<1>2. /\ Cur \in Contexts /\ mState[Cur] \in LifecycleStates
      /\ mState \in [Contexts -> LifecycleStates]
      /\ mAppInstanceId \in [Contexts -> 0..lastInstance] /\ lastInstance \in Nat
      /\ sems \in [Contexts -> [loading : Nat, running : Nat, frame : Nat, terminating : Nat]]
  <2>1. Cur \in Contexts /\ mState[Cur] \in LifecycleStates
    BY <1>1, CurInContexts
  <2>2. /\ mState \in [Contexts -> LifecycleStates]
        /\ mAppInstanceId \in [Contexts -> 0..lastInstance]
        /\ sems \in [Contexts -> [loading : Nat, running : Nat, frame : Nat, terminating : Nat]]
    BY DEF Inv, TypeOK, ContextsOK
  <2>3. lastInstance \in Nat
    BY ConstantsAssumption DEF Inv, TypeOK, EventsOK
  <2>4. QED
    BY <2>1, <2>2, <2>3
<1>3. /\ lastInstance' = lastInstance + 1 /\ lastInstance + 1 \in Instances
      /\ mAppInstanceId' = [mAppInstanceId EXCEPT ![Cur] = lastInstance + 1]
      /\ mState' = [mState EXCEPT ![Cur] = "LOADING"]
      /\ worker'.pc \in {"scan", "step"} /\ worker.pc # "crashed"
      /\ container' = container
  BY <1>1, <1>2, ConstantsAssumption DEF EnterLoading, Enter, Instances, InStep, Waits
<1>4. mState[Cur] = "UNLOADED" /\ Signalled(Cur) /\ sems[Cur].terminating = 0
  BY <1>1, <1>2, StepEdge DEF Edges, UInv, Signalled
<1>5. \A c \in Contexts : sems'[c].terminating = sems[c].terminating
  BY <1>2 DEF EnterLoading, Post
<1>6. Quiet
  <2>1. PICK e \in Events : e = StateEvent(lastInstance + 1, mState[Cur], "LOADING")
    BY <1>2, EventTypes DEF LifecycleStates
  <2>2. Submit(e) /\ e.kind # "TERMINATED"
    BY <2>1 DEF EnterLoading, StateEvent
  <2>3. QED
    BY <1>3, <2>2, OtherJob DEF Calm
<1>7. container[lastInstance + 1] = "none" /\ ~Told(lastInstance + 1)
  <2>1. lastInstance + 1 > lastInstance /\ ~(lastInstance + 1 <= lastInstance)
    BY <1>2
  <2>2. QED
    BY <1>3, <2>1 DEF UInv, NotYet, ToldOnce, Told
<1>8. ASSUME NEW c \in Contexts
      PROVE  Signalled(c)' /\ StartedOnce(c)'
  <2>1. CASE c = Cur
    <3>1. /\ mAppInstanceId'[c] = lastInstance + 1 /\ mState'[c] = "LOADING"
          /\ sems'[c].terminating = 0 /\ lastInstance + 1 # 0
      BY <1>2, <1>3, <1>4, <1>5, <2>1
    <3>2. QED
      BY <1>3, <1>7, <3>1 DEF Signalled, StartedOnce
  <2>2. CASE c # Cur
    <3>1. mAppInstanceId'[c] = mAppInstanceId[c] /\ mState'[c] = mState[c]
      BY <1>2, <1>3, <2>2
    <3>2. Signalled(c) /\ StartedOnce(c)
      BY DEF UInv
    <3>3. Signalled(c)'
      BY <1>3, <1>5, <1>6, <3>1, <3>2 DEF Signalled, Quiet
    <3>4. StartedOnce(c)'
      BY <1>3, <2>2, <3>1, <3>2 DEF StartedOnce
    <3>5. QED
      BY <3>3, <3>4
  <2>3. QED
    BY <2>1, <2>2
<1>9. NotYet'
  <2>1. ASSUME NEW i \in Instances, i > lastInstance'
        PROVE  i > lastInstance
    BY <1>2, <1>3, <2>1, ConstantsAssumption DEF Instances
  <2>2. QED
    BY <1>3, <2>1 DEF UInv, NotYet
<1>10. QED
  BY <1>6, <1>8, <1>9 DEF UInv, Quiet

\* A container is started for the instance that was just launched.
LEMMA StartUnloads ==
    ASSUME Inv, UInv, DInv, StartInitializing
    PROVE  UInv'
<1>1. worker.pc \in InStep /\ worker.pc = "step" /\ Head(worker.path) = "INITIALIZING"
  BY DEF StartInitializing, GoingTo, InStep
<1>2. Cur \in Contexts /\ mState[Cur] = "LOADING"
  BY <1>1, CurInContexts, StepEdge DEF Edges
<1>3. CurInst # 0 /\ CurInst \in Instances /\ CurInst <= lastInstance /\ container[CurInst] = "none"
  <2>1. Signalled(Cur) /\ StartedOnce(Cur)
    BY <1>2 DEF UInv
  <2>2. CurInst # 0 /\ container[CurInst] = "none"
    BY <1>1, <1>2, <2>1 DEF Signalled, StartedOnce, CurInst
  <2>3. QED
    BY <1>2, <2>2, Unmoved, ConstantsAssumption DEF Instances, CurInst
<1>4. /\ UNCHANGED <<mState, mAppInstanceId, lastInstance, jobs, sems, gRequests>>
      /\ worker'.pc = "waitRunning" /\ Cur' = Cur
      /\ container' = container \/ container' = [container EXCEPT ![CurInst] = "starting"]
  BY Unmoved, <1>1 DEF StartInitializing, Block, Cur, Inv, TypeOK, RequestsOK
<1>5. /\ container' \in [Instances -> {"none", "starting", "running", "paused", "frozen",
                                       "resumed", "stopping", "killing", "stopped"}]
      /\ \A i \in Instances : i # CurInst => container'[i] = container[i]
  BY <1>3, <1>4, Unmoved
<1>6. Quiet
  BY <1>3, <1>4, <1>5 DEF UInv, ToldOnce, Told, Quiet
<1>7. ASSUME NEW c \in Contexts
      PROVE  Signalled(c)' /\ StartedOnce(c)'
  <2>1. mAppInstanceId[c] # 0 => mAppInstanceId[c] \in Instances
    BY Unmoved, ConstantsAssumption DEF Instances
  <2>2. c # Cur => mAppInstanceId[c] # CurInst
    BY <1>2, <1>3 DEF DInv, DistinctInstances, CurInst
  <2>3. Signalled(c) /\ StartedOnce(c)
    BY DEF UInv
  <2>4. Signalled(c)'
    BY <1>2, <1>3, <1>4, <1>5, <1>6, <2>1, <2>2, <2>3 DEF Signalled, Quiet, CurInst
  <2>5. StartedOnce(c)'
    BY <1>1, <1>4, <1>5, <2>1, <2>2, <2>3 DEF StartedOnce, Signalled
  <2>6. QED
    BY <2>4, <2>5
<1>8. NotYet'
  BY <1>3, <1>4, <1>5, Unmoved, ConstantsAssumption DEF UInv, NotYet, Instances
<1>9. QED
  BY <1>6, <1>7, <1>8 DEF UInv, Quiet

\* The state is TERMINATING once the end of the container was signalled.
LEMMA EndUnloads ==
    ASSUME Inv, UInv, EnterTerminating
    PROVE  UInv'
<1>1. worker.pc \in InStep /\ Head(worker.path) = "TERMINATING" /\ worker.pc # "crashed"
  BY DEF EnterTerminating, InStep, Waits, Inv, OnPath
<1>2. /\ Cur \in Contexts
      /\ mState \in [Contexts -> LifecycleStates]
      /\ sems \in [Contexts -> [loading : Nat, running : Nat, frame : Nat, terminating : Nat]]
  BY <1>1, CurInContexts DEF Inv, TypeOK, ContextsOK
<1>3. /\ UNCHANGED <<mAppInstanceId, lastInstance, jobs, container>>
      /\ mState' = [mState EXCEPT ![Cur] = "TERMINATING"]
      /\ worker'.pc \in {"scan", "step"} /\ worker.pc = "waitTerminated"
  BY DEF EnterTerminating, Enter
<1>4. /\ sems[Cur].terminating > 0 /\ sems'[Cur].terminating = sems[Cur].terminating - 1
      /\ \A c \in Contexts : c # Cur => sems'[c] = sems[c]
  BY <1>2 DEF EnterTerminating, Take
<1>5. Quiet
  BY <1>3, SameJobs DEF Calm
<1>6. ASSUME NEW c \in Contexts
      PROVE  Signalled(c)' /\ StartedOnce(c)'
  <2>1. Signalled(c) /\ StartedOnce(c)
    BY DEF UInv
  <2>2. CASE c = Cur
    <3>1. sems[c].terminating = 1 /\ sems'[c].terminating = 0 /\ mState'[c] = "TERMINATING"
      BY <1>2, <1>3, <1>4, <2>1, <2>2 DEF Signalled
    <3>2. QED
      BY <1>3, <1>5, <2>1, <3>1 DEF Signalled, StartedOnce, Quiet
  <2>3. CASE c # Cur
    <3>1. mState'[c] = mState[c] /\ sems'[c] = sems[c]
      BY <1>2, <1>3, <1>4, <2>3
    <3>2. QED
      BY <1>3, <1>5, <2>1, <3>1 DEF Signalled, StartedOnce, Quiet
  <2>4. QED
    BY <2>2, <2>3
<1>7. QED
  BY <1>3, <1>5, <1>6 DEF UInv, NotYet, Quiet

LEMMA CallsAreCalm ==
    ASSUME Inv, UInv, worker.pc \in InStep,
           \/ container' = container
           \/ \E v : /\ container[CurInst] \notin {"none", "stopped"}
                     /\ container' = [container EXCEPT ![CurInst] = v]
    PROVE  Calm
<1>1. container \in [Instances -> {"none", "starting", "running", "paused", "frozen",
                                   "resumed", "stopping", "killing", "stopped"}]
  BY Unmoved
<1>2. QED
  BY <1>1 DEF Calm

LEMMA WorkerUnloads ==
    ASSUME Inv, UInv, DInv, WorkerNext
    PROVE  UInv'
<1> DEFINE Steady == /\ UNCHANGED <<mAppInstanceId, lastInstance>>
                     /\ \A c \in Contexts : sems'[c].terminating = sems[c].terminating
<1>1. sems \in [Contexts -> [loading : Nat, running : Nat, frame : Nat, terminating : Nat]]
  BY Unmoved
<1>2. CASE TakeRequest \/ QueueEmpty \/ WakeUp
  BY <1>2, SameJobs, StayUnloaded
     DEF TakeRequest, QueueEmpty, WakeUp, contextVars, runtimeVars, Calm
<1>3. CASE EnterLoading \/ StartInitializing \/ EnterTerminating
  BY <1>3, LaunchUnloads, StartUnloads, EndUnloads
<1>4. ASSUME worker.pc \in InStep, NEW s \in LifecycleStates \ {"LOADING", "TERMINATING"},
             Head(worker.path) = s, Enter(s), Submit(StateEvent(CurInst, mState[Cur], s)),
             Calm, Steady
      PROVE  UInv'
  <2>1. CurInst \in Nat /\ mState[Cur] \in LifecycleStates
    BY <1>4, CurInContexts
  <2>2. PICK e \in Events : e = StateEvent(CurInst, mState[Cur], s)
    BY <2>1, EventTypes
  <2>3. Submit(e) /\ e.kind # "TERMINATED"
    BY <1>4, <2>2 DEF StateEvent
  <2>4. Quiet
    BY <1>4, <2>3, OtherJob
  <2>5. QED
    BY <1>4, <2>4, EnterUnloads
<1>5. CASE EnterInitializing
  <2>1. /\ worker.pc \in InStep /\ Head(worker.path) = "INITIALIZING"
        /\ "INITIALIZING" \in LifecycleStates \ {"LOADING", "TERMINATING"}
        /\ Enter("INITIALIZING") /\ Submit(StateEvent(CurInst, mState[Cur], "INITIALIZING"))
    BY <1>5 DEF EnterInitializing, InStep, Waits, Inv, OnPath, LifecycleStates
  <2>2. Cur \in Contexts
    BY <2>1, CurInContexts
  <2>3. Calm /\ Steady
    BY <1>1, <1>5, <2>2 DEF EnterInitializing, Take, Calm
  <2>4. QED
    BY <1>4, <2>1, <2>3
<1>6. CASE EnterPaused
  <2>1. /\ worker.pc \in InStep /\ Head(worker.path) = "PAUSED"
        /\ "PAUSED" \in LifecycleStates \ {"LOADING", "TERMINATING"}
        /\ Enter("PAUSED") /\ Submit(StateEvent(CurInst, mState[Cur], "PAUSED")) /\ Steady
    BY <1>6 DEF EnterPaused, GoingTo, InStep, LifecycleStates
  <2>2. Calm
    BY <1>6, <2>1, CallsAreCalm DEF EnterPaused, Move
  <2>3. QED
    BY <1>4, <2>1, <2>2
<1>7. CASE EnterActive
  <2>1. /\ worker.pc \in InStep /\ Head(worker.path) = "ACTIVE"
        /\ "ACTIVE" \in LifecycleStates \ {"LOADING", "TERMINATING"}
        /\ Enter("ACTIVE") /\ Submit(StateEvent(CurInst, mState[Cur], "ACTIVE"))
    BY <1>7 DEF EnterActive, GoingTo, InStep, Waits, Inv, OnPath, LifecycleStates
  <2>2. Cur \in Contexts
    BY <2>1, CurInContexts
  <2>3. Calm /\ Steady
    BY <1>1, <1>7, <2>2 DEF EnterActive, Take, Calm
  <2>4. QED
    BY <1>4, <2>1, <2>3
<1>8. CASE NotRendered
  <2>1. UNCHANGED <<jobs, container, sems, mState, mAppInstanceId, lastInstance>> /\ worker.pc = "step"
    BY <1>8 DEF NotRendered, GoingTo, Block, GiveUp
  <2>2. QED
    BY <2>1, SameJobs, StayUnloaded DEF Calm
<1>9. ASSUME NEW s \in {"SUSPENDED", "HIBERNATED"}, NEW o, EnterByRuntime(s, o)
      PROVE  UInv'
  <2>1. /\ worker.pc \in InStep /\ worker.pc = "step" /\ Head(worker.path) = s
        /\ s \in LifecycleStates \ {"LOADING", "TERMINATING"} /\ Steady
    BY <1>9 DEF EnterByRuntime, GoingTo, InStep, LifecycleStates
  <2>2. Calm
    BY <1>9, <2>1, CallsAreCalm DEF EnterByRuntime, Move
  <2>3. CASE GiveUp /\ UNCHANGED jobs
    BY <2>1, <2>2, <2>3, SameJobs, StayUnloaded DEF GiveUp
  <2>4. CASE Enter(s) /\ Submit(StateEvent(CurInst, mState[Cur], s))
    BY <1>4, <2>1, <2>2, <2>4
  <2>5. QED
    BY <1>9, <2>3, <2>4 DEF EnterByRuntime
<1>10. ASSUME NEW o, StartTerminating(o)
       PROVE  UInv'
  <2>1. /\ worker.pc \in InStep /\ worker.pc = "step" /\ Steady /\ UNCHANGED mState
        /\ Submit(StateEvent(CurInst, mState[Cur], "TERMINATING"))
        /\ "TERMINATING" \in LifecycleStates
    BY <1>10 DEF StartTerminating, GoingTo, InStep, Block, GiveUp, LifecycleStates
  <2>2. CurInst \in Nat /\ mState[Cur] \in LifecycleStates
    BY <2>1, CurInContexts
  <2>3. PICK e \in Events : e = StateEvent(CurInst, mState[Cur], "TERMINATING")
    BY <2>1, <2>2, EventTypes
  <2>4. Submit(e) /\ e.kind # "TERMINATED"
    BY <2>1, <2>3 DEF StateEvent
  <2>5. Calm
    BY <1>10, <2>1, CallsAreCalm DEF StartTerminating, Alive
  <2>6. Quiet
    BY <2>1, <2>4, <2>5, OtherJob
  <2>7. QED
    BY <2>1, <2>5, <2>6, StayUnloaded
<1>11. CASE EnterUnloaded
  <2>1. /\ worker.pc \in InStep /\ Head(worker.path) = "UNLOADED"
        /\ "UNLOADED" \in LifecycleStates \ {"LOADING", "TERMINATING"}
        /\ Enter("UNLOADED") /\ Submit(StateEvent(CurInst, mState[Cur], "UNLOADED")) /\ Steady /\ Calm
    BY <1>11 DEF EnterUnloaded, GoingTo, InStep, LifecycleStates, Calm
  <2>2. QED
    BY <1>4, <2>1
<1>12. QED
  BY <1>2, <1>3, <1>5, <1>6, <1>7, <1>8, <1>9, <1>10, <1>11 DEF WorkerNext

-----------------------------------------------------------------------------
(* Events. *)

\* TERMINATED is signalled to the context of the instance, if it has one.
LEMMA DispatchUnloads ==
    ASSUME Inv, UInv, DInv, NEW k, Dispatch(k)
    PROVE  UInv'
<1>1. /\ jobs \in Seq(Events) /\ k \in DOMAIN jobs /\ jobs' = Without(jobs, k)
      /\ UNCHANGED <<mState, mAppInstanceId, worker, gRequests, container, lastInstance>>
      /\ sems \in [Contexts -> [loading : Nat, running : Nat, frame : Nat, terminating : Nat]]
      /\ ContextsOK
  BY Unmoved DEF Dispatch, Inv, TypeOK, EventsOK, requestVars, runtimeVars
<1>2. /\ Quiet
      /\ \A i : jobs[k].kind = "TERMINATED" /\ jobs[k].inst = i => ~Told(i)'
  BY <1>1, TakenJob
<1>3. Calm /\ Cur' = Cur
  BY <1>1 DEF Calm, Cur
<1>4. jobs[k].kind \in {"STATE", "RUNNING", "TERMINATED", "READY"}
  <2>1. PICK e \in Events : e = jobs[k]
    BY <1>1, LenProperties, ElementOfSeq
  <2>2. QED
    BY <2>1 DEF Events
<1>5. CASE \A c \in Contexts : sems'[c].terminating = sems[c].terminating
  BY <1>1, <1>2, <1>3, <1>5, StayUnloaded
<1>6. CASE jobs[k].kind = "STATE" \/ getContext(jobs[k].inst) = Null
  BY <1>5, <1>6 DEF Dispatch, HandleStateChange, HandleSignal
<1>7. ASSUME jobs[k].kind # "STATE", getContext(jobs[k].inst) # Null
      PROVE  UInv'
  <2>1. PICK i : i = jobs[k].inst
    OBVIOUS
  <2>2. PICK d : d = getContext(i)
    OBVIOUS
  <2>3. d \in Contexts /\ i # 0 /\ mAppInstanceId[d] = i
    BY <1>1, <1>7, <2>1, <2>2, LookupType
  <2>4. Post(d, Signals(jobs[k].kind))
    BY <1>7, <2>1, <2>2 DEF Dispatch, HandleSignal
  <2>5. CASE jobs[k].kind \in {"RUNNING", "READY"}
    <3>1. Signals(jobs[k].kind) \in {"running", "frame"}
      BY <2>5 DEF Signals
    <3>2. \A c \in Contexts : sems'[c].terminating = sems[c].terminating
      BY <1>1, <2>3, <2>4, <3>1 DEF Post
    <3>3. QED
      BY <1>5, <3>2
  <2>6. CASE jobs[k].kind = "TERMINATED"
    <3>1. /\ sems'[d].terminating = sems[d].terminating + 1
          /\ \A c \in Contexts : c # d => sems'[c] = sems[c]
      BY <1>1, <2>3, <2>4, <2>6 DEF Signals, Post
    <3>2. Told(i) /\ container[i] = "stopped" /\ ~Told(i)'
      BY <1>1, <1>2, <2>1, <2>6 DEF Told, UInv, ToldOnce
    <3>3. sems[d].terminating = 0 /\ mState[d] \notin {"TERMINATING", "UNLOADED"}
      <4>1. Signalled(d) /\ sems[d].terminating \in Nat
        BY <1>1, <2>3 DEF UInv
      <4>2. QED
        BY <2>3, <3>2, <4>1 DEF Signalled
    <3>4. ASSUME NEW c \in Contexts
          PROVE  Signalled(c)' /\ StartedOnce(c)'
      <4>1. Signalled(c) /\ StartedOnce(c)
        BY DEF UInv
      <4>2. StartedOnce(c)'
        BY <1>1, <1>3, <4>1 DEF StartedOnce
      <4>3. CASE c = d
        BY <1>1, <2>3, <3>1, <3>2, <3>3, <4>2, <4>3 DEF Signalled
      <4>4. CASE c # d
        BY <1>1, <1>2, <3>1, <4>1, <4>2, <4>4 DEF Signalled, Quiet
      <4>5. QED
        BY <4>3, <4>4
    <3>5. QED
      BY <1>1, <1>2, <3>4 DEF UInv, NotYet, Quiet
  <2>7. QED
    BY <1>4, <1>7, <2>5, <2>6
<1>8. QED
  BY <1>6, <1>7

\* A container stops once, and nothing was queued or signalled for it before.
LEMMA StopUnloads ==
    ASSUME Inv, UInv, NEW i \in Instances, container[i] \notin {"none", "stopped"},
           container' = [container EXCEPT ![i] = "stopped"],
           Submit(RuntimeEvent("TERMINATED", i)),
           UNCHANGED <<contextVars, worker, gRequests, lastInstance>>
    PROVE  UInv'
<1>1. /\ jobs \in Seq(Events) /\ i \in Nat
      /\ UNCHANGED <<mState, mAppInstanceId, sems>>
      /\ container \in [Instances -> {"none", "starting", "running", "paused", "frozen",
                                      "resumed", "stopping", "killing", "stopped"}]
  BY Unmoved, ConstantsAssumption DEF contextVars, Instances
<1>2. PICK e \in Events : e = RuntimeEvent("TERMINATED", i)
  BY <1>1, EventTypes
<1>3. e.kind = "TERMINATED" /\ e.inst = i /\ jobs' = Append(jobs, e)
  BY <1>2 DEF RuntimeEvent, Submit
<1>4. i <= lastInstance
  BY <1>1, Unmoved, ConstantsAssumption DEF UInv, NotYet, Instances
<1>5. ~Told(i)
  BY DEF UInv, ToldOnce, Told
<1>6. ASSUME NEW k \in DOMAIN jobs'
      PROVE  \/ k \in DOMAIN jobs /\ jobs'[k] = jobs[k]
             \/ k = Len(jobs) + 1 /\ k \notin DOMAIN jobs /\ jobs'[k] = e
  BY <1>1, <1>3, <1>6, AppendedPlace
<1>7. /\ container'[i] = "stopped"
      /\ \A j \in Instances : j # i => container'[j] = container[j]
  BY <1>1
<1>8. ToldOnce'
  BY <1>3, <1>4, <1>5, <1>6, <1>7 DEF UInv, ToldOnce, Told
<1>9. \A j : j # i /\ Told(j)' => Told(j)
  BY <1>3, <1>6 DEF Told
<1>10. ASSUME NEW c \in Contexts
       PROVE  Signalled(c)' /\ StartedOnce(c)'
  <2>1. Signalled(c) /\ StartedOnce(c)
    BY DEF UInv
  <2>2. mAppInstanceId[c] # 0 => mAppInstanceId[c] \in Instances
    BY Unmoved, ConstantsAssumption DEF Instances
  <2>3. Cur' = Cur /\ UNCHANGED worker
    BY DEF Cur
  <2>4. CASE mAppInstanceId[c] = i
    <3>1. i # 0 /\ sems[c].terminating # 1 /\ mState[c] \notin {"TERMINATING", "UNLOADED"}
      BY <1>1, <2>1, <2>4, ConstantsAssumption DEF Signalled, Instances
    <3>2. StartedOnce(c)'
      BY <1>1, <2>1, <2>3, <2>4 DEF StartedOnce
    <3>3. QED
      BY <1>1, <2>1, <2>4, <3>1, <3>2 DEF Signalled
  <2>5. CASE mAppInstanceId[c] # i
    <3>1. Signalled(c)'
      BY <1>1, <1>7, <1>9, <2>1, <2>2, <2>5, ConstantsAssumption DEF Signalled, Instances
    <3>2. StartedOnce(c)'
      BY <1>1, <1>7, <2>1, <2>2, <2>3, <2>5 DEF StartedOnce, Signalled
    <3>3. QED
      BY <3>1, <3>2
  <2>6. QED
    BY <2>4, <2>5
<1>11. NotYet'
  BY <1>4, <1>7, Unmoved, ConstantsAssumption DEF UInv, NotYet, Instances
<1>12. QED
  BY <1>8, <1>10, <1>11 DEF UInv

LEMMA RuntimeUnloads ==
    ASSUME Inv, UInv, NEW i \in Instances,
           ContainerRuns(i) \/ ContainerStops(i) \/ ContainerCrashes(i) \/ FirstFrame(i)
    PROVE  UInv'
<1>1. /\ i \in Nat
      /\ UNCHANGED <<contextVars, gRequests, worker, lastInstance>>
  BY ConstantsAssumption
     DEF Instances, ContainerRuns, ContainerStops, ContainerCrashes, FirstFrame, ContainerGoes, requestVars
<1>2. CASE ContainerStops(i) \/ ContainerCrashes(i)
  BY <1>1, <1>2, StopUnloads DEF ContainerStops, ContainerCrashes, ContainerGoes
<1>3. CASE ContainerRuns(i) \/ FirstFrame(i)
  <2>1. Calm
    BY <1>3, Unmoved DEF ContainerRuns, FirstFrame, ContainerGoes, Calm
  <2>2. PICK n \in {"RUNNING", "READY"} : Submit(RuntimeEvent(n, i))
    BY <1>3 DEF ContainerRuns, FirstFrame, ContainerGoes
  <2>3. PICK e \in Events : e = RuntimeEvent(n, i)
    BY <1>1, EventTypes
  <2>4. Submit(e) /\ e.kind # "TERMINATED"
    BY <2>2, <2>3 DEF RuntimeEvent
  <2>5. Quiet
    BY <1>1, <2>1, <2>4, OtherJob
  <2>6. QED
    BY <1>1, <2>1, <2>5, StayUnloaded DEF contextVars, Cur
<1>4. QED
  BY <1>2, <1>3

-----------------------------------------------------------------------------

LEMMA InitUInv == Init => UInv
BY DEF Init, UInv, ToldOnce, Signalled, StartedOnce, NotYet, Told

LEMMA ClientUnloads ==
    ASSUME Inv, UInv, NEW t \in Clients, ClientNext(t)
    PROVE  UInv'
<1>1. /\ UNCHANGED <<mState, mAppInstanceId, worker, jobs, container, lastInstance>>
      /\ sems \in [Contexts -> [loading : Nat, running : Nat, frame : Nat, terminating : Nat]]
  BY Unmoved
     DEF ClientNext, SpawnApp, SpawnPrepare, AddRequest, SpawnReturn, CloseAppSpawns, CloseApp,
         SetTargetAppState, UnloadApp, KillApp, CallOnInstance, unchangedByCall, contextVars, runtimeVars
<1>2. \A c \in Contexts : sems'[c].terminating = sems[c].terminating
  <2>1. CASE SpawnReturn(t)
    BY <1>1, <2>1, CallTypes DEF SpawnReturn, Take
  <2>2. CASE ~SpawnReturn(t)
    BY <2>2 DEF ClientNext, SpawnApp, SpawnPrepare, AddRequest, CloseAppSpawns, CloseApp,
         SetTargetAppState, UnloadApp, KillApp, CallOnInstance, contextVars
  <2>3. QED
    BY <2>1, <2>2
<1>3. worker.pc = "waitRunning" => Cur' = Cur
  <2>1. AddRequest(t) => worker.pc # "waitRunning"
    BY DEF AddRequest, MutexFree, InStep, Waits
  <2>2. ~AddRequest(t) => UNCHANGED gRequests
    BY DEF ClientNext, SpawnApp, SpawnPrepare, SpawnReturn, CloseAppSpawns, CloseApp,
         SetTargetAppState, UnloadApp, KillApp, CallOnInstance, unchangedByCall
  <2>3. QED
    BY <2>1, <2>2 DEF Cur
<1>4. Calm /\ Quiet
  BY <1>1, SameJobs DEF Calm
<1>5. QED
  BY <1>1, <1>2, <1>3, <1>4, StayUnloaded

LEMMA NextUInv == Inv /\ DInv /\ UInv /\ [Next]_vars => UInv'
<1> SUFFICES ASSUME Inv, DInv, UInv, [Next]_vars PROVE UInv'
  OBVIOUS
<1>1. CASE Terminate \/ Crash \/ UNCHANGED vars
  <2>1. /\ UNCHANGED <<mState, mAppInstanceId, sems, gRequests, jobs, container, lastInstance>>
        /\ worker' = worker \/ worker'.pc = "crashed"
    BY <1>1 DEF Terminate, Crash, vars, contextVars, requestVars, runtimeVars
  <2>2. Calm /\ Quiet /\ Cur' = Cur
    BY <2>1, SameJobs DEF Calm, Cur
  <2>3. QED
    BY <2>1, <2>2, StayUnloaded
<1>2. ASSUME NEW c \in Contexts, DeleteContext(c) \/ EraseContext(c)
      PROVE  UInv'
  <2>1. UNCHANGED <<mState, mAppInstanceId, sems, gRequests, jobs, container, lastInstance, worker>>
    BY <1>2 DEF DeleteContext, EraseContext, unchangedByDelete, requestVars, runtimeVars
  <2>2. Calm /\ Quiet /\ Cur' = Cur
    BY <2>1, SameJobs DEF Calm, Cur
  <2>3. QED
    BY <2>1, <2>2, StayUnloaded
<1>3. QED
  BY <1>1, <1>2, WorkerUnloads, ClientUnloads, DispatchUnloads, RuntimeUnloads DEF Next, Rest

\* The container of an unloaded instance has stopped: what satisfies the wait
\* of changeState on mAppTerminatingSemaphore is the event of this instance.
THEOREM UnloadedAlwaysStopped == Spec => []UnloadedHasNoContainer
<1>1. UInv => UnloadedHasNoContainer
  BY DEF UInv, Signalled, UnloadedHasNoContainer
<1>2. Spec => []DInv
  BY Invariant, InitDInv, NextDInv, PTL DEF Spec
<1>3. Spec => []UInv
  BY <1>2, Invariant, InitUInv, NextUInv, PTL DEF Spec
<1>4. QED
  BY <1>1, <1>3, PTL
=============================================================================
