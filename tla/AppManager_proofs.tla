------------------------- MODULE AppManager_proofs -------------------------
(***************************************************************************)
(* Theorems about AppManager over LifecycleService, for every number of    *)
(* applications and every path function that satisfies StepsAssumption:    *)
(* that no state change is missed, that packages are locked once, that     *)
(* closing finds the application PAUSED, and that AppManager implements    *)
(* AppLifecycle.                                                           *)
(***************************************************************************)
EXTENDS AppManager, SequenceTheorems, TLAPS

Busy == worker.pc # "asleep"

\* The request of the transition thread is at the head of the queue, and the
\* rest of its path leads to what it asks for.
OnPath ==
    Busy =>
        /\ gRequests # <<>> /\ worker.path # <<>>
        /\ Cur \in DOMAIN context
        /\ IsPath(State, Head(gRequests).target, worker.path)
        /\ worker.pc = "wait" => Head(worker.path) \in {"INITIALIZING", "TERMINATING"}

\* An application is TERMINATING on the way to UNLOADED only.
Passing ==
    \A a \in DOMAIN context : context[a].state = "TERMINATING" => Busy /\ Cur = a

\* The call is inside LifecycleManager: it is going to add a request for the
\* application, or it spawns it.
Adding(a)   == call.pc = "add" /\ call.app = a
Spawning(a) == call.pc \in {"add", "spawned"} /\ call.app = a
               /\ (call.pc = "add" => call.then = "spawned")

\* A request to terminate is the last one of its context.
RequestsOK ==
    /\ \A k \in DOMAIN gRequests : gRequests[k].app \in DOMAIN context
    /\ \A k \in DOMAIN gRequests : gRequests[k].target = "TERMINATING" =>
          context[gRequests[k].app].unloading /\ ~Adding(gRequests[k].app)
    /\ \A k, m \in DOMAIN gRequests :
          k < m /\ gRequests[k].app = gRequests[m].app => gRequests[k].target # "TERMINATING"

\* A call leaves a context alone once it has marked it.
CallOK ==
    /\ call.pc \in {"add", "spawned", "waitPause"} => Loaded(call.app)
    /\ call # Idle /\ Loaded(call.app) =>
          (context[call.app].unloading <=>
               call.pc = "unlock" \/ (call.pc = "add" /\ call.target = "TERMINATING"))
    /\ call.pc \in {"add", "spawned"} => event.pc # "walk"
    /\ call.pc = "connect" /\ call.op \in {"Launch", "Preload"} => Known(call.app)
    /\ (call.pc = "add" /\ call.then = "spawned") \/ call.pc = "spawned" => Known(call.app)
    /\ call.pc = "add" /\ call.target = "TERMINATING" => call.then \in {"return", "unlock"}
    /\ call.pc = "add" /\ call.then = "unlock" => call.target = "TERMINATING"

\* A context without an instance is being spawned; one that was unloaded has
\* no future.
ContextsOK ==
    \A a \in DOMAIN context :
        /\ context[a].ready <=> context[a].inst # 0
        /\ context[a].inst <= lastInstance
        /\ context[a].inst = 0 => context[a].state = "UNLOADED" /\ ~context[a].unloading /\ Spawning(a)
        /\ context[a].state = "UNLOADED" /\ context[a].inst # 0 =>
              /\ context[a].unloading
              /\ ~Adding(a)
              /\ \A k \in DOMAIN gRequests : gRequests[k].app # a

\* The job tells a change of the present instance of the application.
Mine(j, a) == j.kind = "STATE" /\ j.app = a /\ j.inst = context[a].inst

JobOK(j) ==
    /\ j.kind = "STATE" => j.inst # 0 /\ j.inst <= lastInstance
    /\ Ends(j) => \A a \in DOMAIN context : Mine(j, a) => context[a].state = "UNLOADED"

JobsOK == \A k \in DOMAIN lmJobs : JobOK(lmJobs[k])

\* A loaded application without a record is about to be unloaded.
RecordsOK == \A a \in DOMAIN context : Known(a) \/ context[a].unloading

Base == TypeOK /\ OnPath /\ Passing /\ RequestsOK /\ CallOK /\ ContextsOK /\ JobsOK /\ RecordsOK

-----------------------------------------------------------------------------
(* What is known of the state of an application. *)

\* The event of TERMINATING goes ahead of the state.
Ending(a) ==
    /\ Busy /\ Cur = a
    /\ \/ context[a].state = "TERMINATING"
       \/ worker.pc = "wait" /\ Head(worker.path) = "TERMINATING"

Agrees(s, a) == s = context[a].state \/ Ending(a)

NoneAfter(k, a) == \A m \in DOMAIN lmJobs : k < m => ~Mine(lmJobs[m], a)
InHand(a)       == event # NoEvent /\ Mine(event.job, a)

\* The last that was said of an instance is true: by the last job about it,
\* by the event in hand if there is none, or by the record.
NewsOf(a) ==
    /\ \A k \in DOMAIN lmJobs : Mine(lmJobs[k], a) /\ NoneAfter(k, a) => Agrees(lmJobs[k].new, a)
    /\ NoneAfter(0, a) /\ InHand(a) => Agrees(event.job.new, a)
    /\ NoneAfter(0, a) /\ ~InHand(a) /\ Known(a) =>
          mAppInfo[a].inst = context[a].inst /\ Agrees(mAppInfo[a].new, a)

SameInstance == \A a \in DOMAIN context :
    Known(a) /\ mAppInfo[a].inst # context[a].inst => Spawning(a)

Telling == event # NoEvent => event.job.kind = "STATE"

News == SameInstance /\ Telling /\ \A a \in DOMAIN context : context[a].inst # 0 => NewsOf(a)

-----------------------------------------------------------------------------
(* What patience brings. *)

Quiet == call.pc \in {"isLoaded", "package", "connect"} => Settled /\ amJobs = <<>>

PausedNow(a)  == context[a].state = "PAUSED"

Closing ==
    call.pc = "waitPause" \/ (call.pc = "add" /\ call.then = "waitPause") =>
        LET a == call.app
        IN  /\ \A k \in DOMAIN gRequests : gRequests[k].app = a /\ gRequests[k].target = "PAUSED"
            /\ Busy => ~PausedNow(a)
            /\ call.pc = "add" => call.target = "PAUSED" /\ ~Busy /\ gRequests = <<>>
            /\ Known(a) /\ mAppInfo[a].new = "PAUSED" => PausedNow(a)
            /\ \A k \in DOMAIN lmJobs : Mine(lmJobs[k], a) /\ lmJobs[k].new = "PAUSED" => PausedNow(a)
            /\ InHand(a) /\ event.job.new = "PAUSED" => PausedNow(a)

\* An application marked for unloading is under way to it.
UnderWay(a) ==
    \/ Adding(a)
    \/ \E k \in DOMAIN gRequests : gRequests[k] = [app |-> a, target |-> "TERMINATING"]
    \/ \E k \in DOMAIN lmJobs : Mine(lmJobs[k], a) /\ Ends(lmJobs[k])

Leaving == \A a \in DOMAIN context : context[a].unloading => UnderWay(a)

\* A record is that of a loaded application, but for the moments between
\* making the one and the other.
OneLock ==
    /\ \A a \in Apps : locks[a] = IF Known(a) /\ mAppInfo[a].version THEN 1 ELSE 0
    /\ \A a \in DOMAIN mAppInfo :
          /\ mAppInfo[a].version
          /\ Loaded(a) => (context[a].unloading =>
                call # Idle /\ call.app = a /\
                (call.pc = "unlock" \/ (call.pc = "add" /\ call.then = "unlock")))
          /\ ~Loaded(a) => call # Idle /\ call.app = a /\
                (call.pc = "unlock" \/ (call.pc = "connect" /\ call.op \in {"Launch", "Preload"}))
    /\ call.pc = "isLoaded" => call.op \in {"Launch", "Preload"} /\
          (Known(call.app) => InState(call.app, {"SUSPENDED", "PAUSED", "HIBERNATED"}))
    /\ call.pc = "package" => call.op \in {"Launch", "Preload"} /\ (Known(call.app) => SkipLock)

-----------------------------------------------------------------------------
(* Sequences. *)

LEMMA HeadElement ==
    ASSUME NEW S, NEW q \in Seq(S), q # <<>>
    PROVE  /\ 1 \in DOMAIN q /\ Head(q) = q[1] /\ Head(q) \in S
           /\ Len(q) \in Nat \ {0} /\ DOMAIN q = 1..Len(q)
<1>1. Len(q) \in Nat \ {0} /\ DOMAIN q = 1..Len(q)
  BY EmptySeq, LenProperties
<1>2. Head(q) = q[1]
  BY <1>1, SubSeqFull, HeadTailOfSubSeq
<1>3. 1 \in DOMAIN q
  BY <1>1
<1>4. q[1] \in S
  BY <1>1, <1>3, ElementOfSeq
<1>5. QED
  BY <1>1, <1>2, <1>3, <1>4

LEMMA TailElements ==
    ASSUME NEW S, NEW q \in Seq(S), q # <<>>
    PROVE  /\ Tail(q) \in Seq(S) /\ Len(Tail(q)) = Len(q) - 1
           /\ DOMAIN Tail(q) = 1..(Len(q) - 1)
           /\ \A k \in DOMAIN Tail(q) :
                 k \in Nat \ {0} /\ k + 1 \in DOMAIN q /\ Tail(q)[k] = q[k + 1]
<1>1. Len(q) \in Nat \ {0} /\ DOMAIN q = 1..Len(q)
  BY HeadElement
<1>2. /\ Tail(q) \in Seq(S) /\ Len(Tail(q)) = Len(q) - 1
      /\ \A i \in 1..(Len(q) - 1) : Tail(q)[i] = q[i + 1]
  BY <1>1
<1>3. DOMAIN Tail(q) = 1..(Len(q) - 1)
  BY <1>2, LenProperties
<1>4. QED
  BY <1>1, <1>2, <1>3

\* What is put behind a queue.
LEMMA BothParts ==
    ASSUME NEW S, NEW q \in Seq(S), NEW r \in Seq(S)
    PROVE  /\ q \o r \in Seq(S)
           /\ \A k \in DOMAIN q : k \in DOMAIN (q \o r) /\ (q \o r)[k] = q[k]
           /\ \A k \in DOMAIN (q \o r) :
                 \/ k \in DOMAIN q /\ (q \o r)[k] = q[k]
                 \/ /\ k \in Nat /\ k \notin DOMAIN q /\ k - Len(q) \in DOMAIN r
                    /\ (q \o r)[k] = r[k - Len(q)]
                    /\ \A m \in DOMAIN q : m < k
           /\ \A i \in DOMAIN r : Len(q) + i \in DOMAIN (q \o r) /\ (q \o r)[Len(q) + i] = r[i]
           /\ \A k \in DOMAIN q : k \in Nat \ {0} /\ k <= Len(q)
           /\ \A k \in DOMAIN r : k \in Nat \ {0}
           /\ Len(q) \in Nat
<1> DEFINE b == q \o r
<1>1. /\ DOMAIN q = 1..Len(q) /\ Len(q) \in Nat
      /\ DOMAIN r = 1..Len(r) /\ Len(r) \in Nat
  BY LenProperties
<1>2. /\ b \in Seq(S) /\ Len(b) = Len(q) + Len(r)
      /\ \A i \in 1..(Len(q) + Len(r)) : b[i] = IF i <= Len(q) THEN q[i] ELSE r[i - Len(q)]
  BY ConcatProperties
<1>3. DOMAIN b = 1..(Len(q) + Len(r))
  BY <1>2, LenProperties
<1> HIDE DEF b
<1>4. \A k \in DOMAIN q : k \in DOMAIN b /\ b[k] = q[k]
  BY <1>1, <1>2, <1>3
<1>5. \A i \in DOMAIN r : Len(q) + i \in DOMAIN b /\ b[Len(q) + i] = r[i]
  BY <1>1, <1>2, <1>3
<1>6. ASSUME NEW k \in DOMAIN b
      PROVE  \/ k \in DOMAIN q /\ b[k] = q[k]
             \/ /\ k \in Nat /\ k \notin DOMAIN q /\ k - Len(q) \in DOMAIN r
                /\ b[k] = r[k - Len(q)]
                /\ \A m \in DOMAIN q : m < k
  BY <1>1, <1>2, <1>3
<1>7. QED
  BY <1>1, <1>2, <1>4, <1>5, <1>6 DEF b

\* What is left when one was taken out.
LEMMA OneTaken ==
    ASSUME NEW S, NEW q \in Seq(S), NEW j \in DOMAIN q
    PROVE  /\ TakeOut(q, j) \in Seq(S)
           /\ j \in Nat /\ q[j] \in S
           /\ \A k \in DOMAIN TakeOut(q, j) :
                 /\ k \in Nat \ {0}
                 /\ k < j => k \in DOMAIN q /\ TakeOut(q, j)[k] = q[k]
                 /\ k >= j => k + 1 \in DOMAIN q /\ TakeOut(q, j)[k] = q[k + 1]
           /\ \A k \in DOMAIN q :
                 /\ k \in Nat \ {0}
                 /\ k < j => k \in DOMAIN TakeOut(q, j) /\ TakeOut(q, j)[k] = q[k]
                 /\ k > j => k - 1 \in DOMAIN TakeOut(q, j) /\ TakeOut(q, j)[k - 1] = q[k]
<1> DEFINE a == SubSeq(q, 1, j - 1)
           b == SubSeq(q, j + 1, Len(q))
<1>1. DOMAIN q = 1..Len(q) /\ Len(q) \in Nat /\ j \in 1..Len(q)
  BY LenProperties
<1>2. \A i \in 1..Len(q) : q[i] \in S
  BY <1>1, ElementOfSeq
<1>3. a \in Seq(S) /\ Len(a) = j - 1 /\ \A i \in 1..(j - 1) : a[i] = q[i]
  <2>1. 1 \in Int /\ j - 1 \in Int /\ \A i \in 1..(j - 1) : q[i] \in S
    BY <1>1, <1>2
  <2>2. /\ a \in Seq(S) /\ Len(a) = IF 1 <= j - 1 THEN (j - 1) - 1 + 1 ELSE 0
        /\ \A i \in 1..((j - 1) - 1 + 1) : a[i] = q[1 + i - 1]
    BY <2>1, SubSeqProperties
  <2>3. Len(a) = j - 1
    BY <1>1, <2>2
  <2>4. \A i \in 1..(j - 1) : i \in 1..((j - 1) - 1 + 1) /\ 1 + i - 1 = i
    BY <1>1
  <2>5. QED
    BY <2>2, <2>3, <2>4
<1>4. b \in Seq(S) /\ Len(b) = Len(q) - j /\ \A i \in 1..(Len(q) - j) : b[i] = q[j + i]
  <2>1. j + 1 \in Int /\ Len(q) \in Int /\ \A i \in (j + 1)..Len(q) : q[i] \in S
    BY <1>1, <1>2
  <2>2. /\ b \in Seq(S) /\ Len(b) = IF j + 1 <= Len(q) THEN Len(q) - (j + 1) + 1 ELSE 0
        /\ \A i \in 1..(Len(q) - (j + 1) + 1) : b[i] = q[(j + 1) + i - 1]
    BY <2>1, SubSeqProperties
  <2>3. Len(b) = Len(q) - j
    BY <1>1, <2>2
  <2>4. \A i \in 1..(Len(q) - j) : i \in 1..(Len(q) - (j + 1) + 1) /\ (j + 1) + i - 1 = j + i
    BY <1>1
  <2>5. QED
    BY <2>2, <2>3, <2>4
<1>5. /\ TakeOut(q, j) = a \o b /\ a \o b \in Seq(S)
      /\ Len(a \o b) = Len(a) + Len(b)
      /\ \A i \in 1..(Len(a) + Len(b)) : (a \o b)[i] = IF i <= Len(a) THEN a[i] ELSE b[i - Len(a)]
  BY <1>3, <1>4, ConcatProperties DEF TakeOut
<1> HIDE DEF a, b
<1>6. DOMAIN TakeOut(q, j) = 1..(Len(q) - 1) /\ Len(a) + Len(b) = Len(q) - 1
  <2>1. Len(a) + Len(b) = Len(q) - 1
    BY <1>1, <1>3, <1>4
  <2>2. QED
    BY <1>5, <2>1, LenProperties
<1>7. \A k \in 1..(Len(q) - 1) : TakeOut(q, j)[k] = IF k < j THEN q[k] ELSE q[k + 1]
  <2> SUFFICES ASSUME NEW k \in 1..(Len(q) - 1)
               PROVE  TakeOut(q, j)[k] = IF k < j THEN q[k] ELSE q[k + 1]
    OBVIOUS
  <2>1. CASE k < j
    <3>1. k \in 1..(j - 1) /\ k <= Len(a) /\ k \in 1..(Len(a) + Len(b))
      BY <1>1, <1>3, <1>6, <2>1
    <3>2. QED
      BY <1>3, <1>5, <3>1, <2>1
  <2>2. CASE ~(k < j)
    <3>1. k - Len(a) \in 1..(Len(q) - j) /\ j + (k - Len(a)) = k + 1 /\ ~(k <= Len(a))
      BY <1>1, <1>3, <2>2
    <3>2. QED
      BY <1>4, <1>5, <1>6, <3>1, <2>2
  <2>3. QED
    BY <2>1, <2>2
<1>8. ASSUME NEW k \in DOMAIN TakeOut(q, j)
      PROVE  /\ k \in Nat \ {0}
             /\ k < j => k \in DOMAIN q /\ TakeOut(q, j)[k] = q[k]
             /\ k >= j => k + 1 \in DOMAIN q /\ TakeOut(q, j)[k] = q[k + 1]
  <2>1. k \in 1..(Len(q) - 1)
    BY <1>6
  <2>2. TakeOut(q, j)[k] = IF k < j THEN q[k] ELSE q[k + 1]
    BY <1>7, <2>1
  <2>3. QED
    BY <1>1, <2>1, <2>2
<1>9. ASSUME NEW k \in DOMAIN q
      PROVE  /\ k \in Nat \ {0}
             /\ k < j => k \in DOMAIN TakeOut(q, j) /\ TakeOut(q, j)[k] = q[k]
             /\ k > j => k - 1 \in DOMAIN TakeOut(q, j) /\ TakeOut(q, j)[k - 1] = q[k]
  <2>1. k \in 1..Len(q)
    BY <1>1
  <2>2. k < j => TakeOut(q, j)[k] = q[k]
    BY <1>1, <1>7, <2>1
  <2>3. k > j => k - 1 \in 1..(Len(q) - 1) /\ ~(k - 1 < j) /\ (k - 1) + 1 = k
    BY <1>1, <2>1
  <2>4. k > j => TakeOut(q, j)[k - 1] = q[k]
    BY <1>7, <2>3
  <2>5. QED
    BY <1>1, <1>6, <2>1, <2>2, <2>3, <2>4
<1>10. TakeOut(q, j) \in Seq(S)
  BY <1>5
<1>11. QED
  BY <1>1, <1>2, <1>8, <1>9, <1>10

\* What is left of a path after its first step.
LEMMA PathTail ==
    ASSUME NEW s, NEW t, NEW p \in Seq(LifecycleStates), p # <<>>, Len(p) # 1, IsPath(s, t, p)
    PROVE  /\ Tail(p) # <<>> /\ Tail(p) \in Seq(LifecycleStates)
           /\ Head(p) \notin {Final(t), "UNLOADED"}
           /\ IsPath(Head(p), t, Tail(p))
<1> DEFINE q == Tail(p)
<1>1. /\ Len(p) \in Nat \ {0, 1} /\ DOMAIN p = 1..Len(p) /\ Head(p) = p[1]
      /\ q \in Seq(LifecycleStates) /\ Len(q) = Len(p) - 1 /\ DOMAIN q = 1..(Len(p) - 1)
      /\ \A k \in 1..(Len(p) - 1) : q[k] = p[k + 1]
  BY HeadElement, TailElements
<1> HIDE DEF q
<1>2. q # <<>>
  BY <1>1, EmptySeq
<1>3. \A i \in 1..(Len(p) - 1) : <<p[i], p[i + 1]>> \in Edges
  BY DEF IsPath, Walk
<1>4. Walk(Head(p), q)
  <2>1. <<p[1], q[1]>> \in Edges
    <3>1. 1 \in 1..(Len(p) - 1)
      BY <1>1
    <3>2. q[1] = p[1 + 1]
      BY <1>1, <3>1
    <3>3. QED
      BY <1>3, <3>1, <3>2
  <2>2. ASSUME NEW i \in 1..(Len(q) - 1)
        PROVE  <<q[i], q[i + 1]>> \in Edges
    <3>1. i \in 1..(Len(p) - 1) /\ i + 1 \in 1..(Len(p) - 1)
      BY <1>1
    <3>2. QED
      BY <1>1, <1>3, <3>1
  <2>3. QED
    BY <1>1, <2>1, <2>2 DEF Walk
<1>5. q[Len(q)] = p[Len(p)]
  <2>1. Len(p) - 1 \in 1..(Len(p) - 1) /\ (Len(p) - 1) + 1 = Len(p)
    BY <1>1
  <2>2. QED
    BY <1>1, <2>1
<1>6. \A i \in 1..Len(p) : p[i] \in {Final(t), "UNLOADED"} =>
          i = Len(p) /\ (p[i] = "UNLOADED" => t = "TERMINATING")
  BY <1>1 DEF IsPath
<1>7. ASSUME NEW i \in DOMAIN q, q[i] \in {Final(t), "UNLOADED"}
      PROVE  i = Len(q) /\ (q[i] = "UNLOADED" => t = "TERMINATING")
  <2>1. i \in 1..(Len(p) - 1) /\ i + 1 \in 1..Len(p) /\ q[i] = p[i + 1]
    BY <1>1
  <2>2. i + 1 = Len(p) /\ (p[i + 1] = "UNLOADED" => t = "TERMINATING")
    BY <1>6, <1>7, <2>1
  <2>3. QED
    BY <1>1, <2>1, <2>2
<1>8. Head(p) \notin {Final(t), "UNLOADED"}
  <2>1. 1 \in 1..Len(p)
    BY <1>1
  <2>2. QED
    BY <1>1, <1>6, <2>1
<1>9. p[Len(p)] = Final(t)
  BY DEF IsPath
<1>10. QED
  BY <1>1, <1>2, <1>4, <1>5, <1>7, <1>8, <1>9 DEF IsPath, q

\* The first step of a path.
LEMMA FirstStep ==
    ASSUME NEW s, NEW t, NEW p \in Seq(LifecycleStates), p # <<>>, IsPath(s, t, p)
    PROVE  /\ Head(p) \in LifecycleStates /\ <<s, Head(p)>> \in Edges
           /\ Len(p) \in Nat \ {0}
           /\ Len(p) = 1 => Head(p) = Final(t)
           /\ Head(p) = "UNLOADED" => Len(p) = 1 /\ t = "TERMINATING"
           /\ Head(p) = Final(t) => Len(p) = 1
           /\ Tail(p) \in Seq(LifecycleStates)
<1>1. /\ 1 \in DOMAIN p /\ Head(p) = p[1] /\ Head(p) \in LifecycleStates
      /\ Len(p) \in Nat \ {0} /\ Tail(p) \in Seq(LifecycleStates)
  BY HeadElement, TailElements
<1>2. /\ <<s, p[1]>> \in Edges /\ p[Len(p)] = Final(t)
      /\ p[1] \in {Final(t), "UNLOADED"} => 1 = Len(p) /\ (p[1] = "UNLOADED" => t = "TERMINATING")
  BY <1>1 DEF IsPath, Walk
<1>3. QED
  BY <1>1, <1>2

-----------------------------------------------------------------------------
(* Types. *)

LEMMA CallTypes ==
    ASSUME TypeOK, call # Idle
    PROVE  /\ call \in CallType /\ call.app \in Apps /\ call.op \in Calls
           /\ call.target \in LifecycleStates
           /\ call.then \in {"return", "spawned", "unlock", "waitPause", "hibernate"}
           /\ call.pc \in {"isLoaded", "package", "connect", "add", "spawned", "waitPause", "unlock"}
BY DEF TypeOK, CallType

LEMMA ContextTypes ==
    ASSUME TypeOK, NEW a \in DOMAIN context
    PROVE  /\ a \in Apps /\ context[a] \in ContextType
           /\ context[a].inst \in Nat /\ context[a].state \in LifecycleStates
           /\ context[a].unloading \in BOOLEAN /\ context[a].ready \in BOOLEAN
BY DEF TypeOK, ServiceTypeOK, ContextType

\* Where the transition thread is.
LEMMA Working ==
    ASSUME TypeOK, OnPath, Busy
    PROVE  /\ gRequests # <<>> /\ worker.path # <<>> /\ worker.path \in Seq(LifecycleStates)
           /\ Cur \in DOMAIN context /\ State \in LifecycleStates /\ Cur = gRequests[1].app
           /\ 1 \in DOMAIN gRequests /\ Head(gRequests) = gRequests[1]
           /\ Head(gRequests) \in [app : Apps, target : LifecycleStates]
           /\ IsPath(State, Head(gRequests).target, worker.path)
           /\ Head(worker.path) \in LifecycleStates
           /\ <<State, Head(worker.path)>> \in Edges
<1>1. /\ gRequests \in Seq([app : Apps, target : LifecycleStates])
      /\ worker.path \in Seq(LifecycleStates)
  BY DEF TypeOK, ServiceTypeOK
<1>2. /\ gRequests # <<>> /\ worker.path # <<>> /\ Cur \in DOMAIN context
      /\ IsPath(State, Head(gRequests).target, worker.path)
  BY DEF OnPath
<1>3. State \in LifecycleStates
  BY <1>2, ContextTypes DEF State
<1>4. /\ 1 \in DOMAIN gRequests /\ Head(gRequests) = gRequests[1]
      /\ Head(gRequests) \in [app : Apps, target : LifecycleStates]
  BY <1>1, <1>2, HeadElement
<1>5. Head(worker.path) \in LifecycleStates /\ <<State, Head(worker.path)>> \in Edges
  BY <1>1, <1>2, FirstStep
<1>6. QED
  BY <1>1, <1>2, <1>3, <1>4, <1>5 DEF Cur

LEMMA EnterTypes ==
    ASSUME TypeOK, OnPath, Busy, NEW s \in LifecycleStates, NEW c \in ContextType,
           NEW events \in Seq(JobType), Enter(s, c, events), lastInstance' \in Nat,
           signalled' \subseteq Apps
    PROVE  ServiceTypeOK'
<1>1. /\ worker.path \in Seq(LifecycleStates) /\ Cur \in DOMAIN context
      /\ gRequests # <<>> /\ worker.path # <<>>
  BY Working
<1>2. Tail(worker.path) \in Seq(LifecycleStates) /\ Tail(gRequests) \in Seq([app : Apps, target : LifecycleStates])
  BY <1>1, TailElements DEF TypeOK, ServiceTypeOK
<1>3. lmJobs \o events \in Seq(JobType)
  BY BothParts DEF TypeOK, ServiceTypeOK
<1>4. /\ DOMAIN context' = DOMAIN context
      /\ context' \in [DOMAIN context -> ContextType]
  BY <1>1 DEF Enter, TypeOK, ServiceTypeOK, ContextType
<1>5. worker' \in [pc : {"asleep", "step", "wait"}, path : Seq(LifecycleStates)]
  BY <1>2 DEF Enter
<1>6. gRequests' \in Seq([app : Apps, target : LifecycleStates])
  BY <1>2 DEF Enter, TypeOK, ServiceTypeOK
<1>7. QED
  BY <1>3, <1>4, <1>5, <1>6 DEF Enter, TypeOK, ServiceTypeOK

LEMMA WorkerTypes ==
    ASSUME Base, WorkerNext
    PROVE  ServiceTypeOK'
<1>1. TypeOK /\ OnPath /\ ServiceTypeOK
  BY DEF Base, TypeOK
<1>2. CASE TakeRequest
  <2>1. /\ gRequests # <<>> /\ gRequests \in Seq([app : Apps, target : LifecycleStates])
        /\ Head(gRequests) = gRequests[1] /\ 1 \in DOMAIN gRequests
        /\ Head(gRequests) \in [app : Apps, target : LifecycleStates]
        /\ Tail(gRequests) \in Seq([app : Apps, target : LifecycleStates])
    BY <1>1, <1>2, HeadElement, TailElements DEF TakeRequest, ServiceTypeOK
  <2>2. Cur \in DOMAIN context
    BY <2>1 DEF Base, RequestsOK, Cur
  <2>3. State \in LifecycleStates
    BY <1>1, <2>2, ContextTypes DEF State
  <2>4. Steps[State][Head(gRequests).target] \in Seq(LifecycleStates)
    BY <2>1, <2>3, StepsAssumption
  <2>5. QED
    <3>1. /\ gRequests' \in Seq([app : Apps, target : LifecycleStates])
          /\ UNCHANGED <<context, signalled, lmJobs, event, lastInstance>>
      BY <1>2, <2>1 DEF TakeRequest
    <3>2. worker' \in [pc : {"asleep", "step", "wait"}, path : Seq(LifecycleStates)]
      BY <1>1, <1>2, <2>4 DEF TakeRequest, ServiceTypeOK
    <3>3. QED
      BY <1>1, <3>1, <3>2 DEF ServiceTypeOK
<1>3. CASE EnterLoading
  <2>1. Busy /\ lastInstance' = lastInstance + 1 /\ lastInstance \in Nat
    BY <1>1, <1>3 DEF EnterLoading, Busy, ServiceTypeOK
  <2>2. Cur \in DOMAIN context /\ Cur \in Apps /\ context[Cur] \in ContextType /\ State \in LifecycleStates
    BY <1>1, <2>1, Working, ContextTypes
  <2>3. Posted(context[Cur], lastInstance + 1) \in ContextType
    <3>1. lastInstance + 1 \in Nat
      BY <2>1
    <3>2. \A c \in ContextType, i \in Nat : [c EXCEPT !.inst = i, !.ready = TRUE] \in ContextType
      BY DEF ContextType
    <3>3. QED
      BY <2>2, <3>1, <3>2 DEF Posted
  <2>4. Changed(lastInstance + 1, "LOADING") \in Seq(JobType)
    <3>1. lastInstance + 1 \in Nat
      BY <2>1
    <3>2. StateChange(Cur, lastInstance + 1, State, "LOADING") \in JobType
      BY <2>2, <3>1 DEF StateChange, JobType, LifecycleStates
    <3>3. QED
      BY <3>2 DEF Changed
  <2>5. QED
    <3>1. Enter("LOADING", Posted(context[Cur], lastInstance + 1), Changed(lastInstance + 1, "LOADING"))
      BY <1>3 DEF EnterLoading
    <3>2. "LOADING" \in LifecycleStates /\ lastInstance' \in Nat /\ signalled' \subseteq Apps
      BY <1>1, <1>3, <2>1 DEF EnterLoading, ServiceTypeOK, LifecycleStates
    <3>3. QED
      BY <1>1, <2>1, <2>3, <2>4, <3>1, <3>2, EnterTypes
<1>4. CASE AskRuntime
  <2>1. Busy
    BY <1>4 DEF AskRuntime, Busy
  <2>2. Cur \in DOMAIN context /\ Cur \in Apps /\ context[Cur].inst \in Nat /\ State \in LifecycleStates
    BY <1>1, <2>1, Working, ContextTypes
  <2>3. /\ Changed(context[Cur].inst, "TERMINATING") \in Seq(JobType) /\ <<>> \in Seq(JobType)
        /\ <<Signal(Cur)>> \in Seq(JobType)
    BY <2>2 DEF Changed, StateChange, Signal, JobType, LifecycleStates
  <2>4. lmJobs' \in Seq(JobType)
    BY <1>1, <1>4, <2>3, BothParts DEF AskRuntime, ServiceTypeOK
  <2>5. QED
    BY <1>1, <1>4, <2>4 DEF AskRuntime, ServiceTypeOK
<1>5. CASE EnterAnswered \/ EnterOther
  <2>1. Busy /\ lastInstance' = lastInstance /\ signalled' \subseteq signalled
    BY <1>5 DEF EnterAnswered, EnterOther, Busy
  <2>2. /\ Cur \in DOMAIN context /\ Cur \in Apps /\ context[Cur] \in ContextType
        /\ context[Cur].inst \in Nat
        /\ State \in LifecycleStates /\ Head(worker.path) \in LifecycleStates
    BY <1>1, <2>1, Working, ContextTypes
  <2>3. /\ Changed(context[Cur].inst, Head(worker.path)) \in Seq(JobType) /\ <<>> \in Seq(JobType)
        /\ Changed(context[Cur].inst, "INITIALIZING") \in Seq(JobType)
    BY <2>2 DEF Changed, StateChange, JobType, LifecycleStates
  <2>4. CASE EnterAnswered
    BY <1>1, <2>1, <2>2, <2>3, <2>4, EnterTypes DEF EnterAnswered, ServiceTypeOK
  <2>5. CASE EnterOther
    BY <1>1, <2>1, <2>2, <2>3, <2>5, EnterTypes DEF EnterOther, ServiceTypeOK
  <2>6. QED
    BY <1>5, <2>4, <2>5
<1>6. QED
  BY <1>2, <1>3, <1>4, <1>5 DEF WorkerNext

LEMMA DispatchTypes ==
    ASSUME Base, NEW k \in 1..PoolThreads, Dispatch(k)
    PROVE  ServiceTypeOK'
<1>1. ServiceTypeOK
  BY DEF Base, TypeOK
<1>2. k \in DOMAIN lmJobs /\ TakeOut(lmJobs, k) \in Seq(JobType) /\ lmJobs[k] \in JobType
  BY <1>1, OneTaken DEF Dispatch, ServiceTypeOK
<1>3. /\ DOMAIN context' \subseteq DOMAIN context
      /\ context' \in [DOMAIN context' -> ContextType]
  BY <1>1 DEF Dispatch, Without, ServiceTypeOK
<1>4. signalled' \subseteq Apps /\ (event' = NoEvent \/ event' \in [pc : {"notify", "walk"}, job : JobType])
  BY <1>1, <1>2 DEF Dispatch, ServiceTypeOK, JobType
<1>5. QED
  BY <1>1, <1>2, <1>3, <1>4 DEF Dispatch, ServiceTypeOK

\* A record changes its action at most.
SameRecords ==
    /\ DOMAIN mAppInfo' = DOMAIN mAppInfo
    /\ mAppInfo' \in [DOMAIN mAppInfo -> InfoType]
    /\ \A a \in DOMAIN mAppInfo :
          /\ mAppInfo'[a].inst = mAppInfo[a].inst
          /\ mAppInfo'[a].new = mAppInfo[a].new
          /\ mAppInfo'[a].version = mAppInfo[a].version

LEMMA ActKeeps ==
    ASSUME TypeOK, NEW a,
           NEW action \in {"LAUNCH", "PRELOAD", "SUSPEND", "RESUME", "CLOSE", "Terminate", "Kill"},
           Act(a, action)
    PROVE  SameRecords
<1>1. mAppInfo \in [DOMAIN mAppInfo -> InfoType]
  BY DEF TypeOK
<1>2. CASE Known(a)
  <2>1. \A r \in InfoType : /\ [r EXCEPT !.action = action] \in InfoType
                            /\ [r EXCEPT !.action = action].inst = r.inst
                            /\ [r EXCEPT !.action = action].new = r.new
                            /\ [r EXCEPT !.action = action].version = r.version
    BY DEF InfoType
  <2>2. mAppInfo' = [mAppInfo EXCEPT ![a] = [mAppInfo[a] EXCEPT !.action = action]]
    BY <1>2 DEF Act
  <2>3. QED
    BY <1>1, <1>2, <2>1, <2>2 DEF SameRecords, Known
<1>3. CASE ~Known(a)
  BY <1>1, <1>3 DEF Act, SameRecords
<1>4. QED
  BY <1>2, <1>3

\* What a call of the connector comes to: nothing, a spawn, a request for
\* another state, or a request to terminate.
Named == Known(call.app) /\ HasInstance(call.app, mAppInfo[call.app].inst)

Refused    == UNCHANGED context /\ call' = Idle
SpawnAsked ==
    /\ call.pc = "connect" /\ call.op \in {"Launch", "Preload"}
    /\ EnsureContext(call.app)
    /\ \E s \in {"ACTIVE", "PAUSED", "SUSPENDED"} : Request(s, "spawned")
StateAsked ==
    /\ Named /\ UNCHANGED context
    /\ \E s \in {"ACTIVE", "PAUSED", "SUSPENDED"}, then \in {"return", "waitPause", "hibernate"} :
          Request(s, then) /\ (then = "waitPause" => call.pc = "connect" /\ s = "PAUSED")
EndAsked ==
    /\ Named /\ MarkUnloading(call.app)
    /\ \E then \in {"return", "unlock"} :
          Request("TERMINATING", then) /\ (then = "return" => "none" \in Policies)

Connector ==
    \/ launch \/ preLoadApp \/ closeApp \/ closeAppWaited
    \/ \E op \in {"Terminate", "Kill"} : terminateApp(op)

LEMMA SpawnIsAsked ==
    ASSUME TypeOK, call.pc = "connect", call.op \in {"Launch", "Preload"},
           NEW s \in {"ACTIVE", "PAUSED"}, NEW action \in {"LAUNCH", "PRELOAD"},
           SpawnOrSuspend(s, action)
    PROVE  SameRecords /\ SpawnAsked
<1>1. PICK t \in {"ACTIVE", "PAUSED", "SUSPENDED"},
           b \in {"LAUNCH", "PRELOAD", "SUSPEND"} : Spawn(t, b)
  BY DEF SpawnOrSuspend
<1>2. SameRecords
  BY <1>1, ActKeeps DEF Spawn
<1>3. QED
  BY <1>1, <1>2 DEF Spawn, SpawnAsked

LEMMA Connected ==
    ASSUME TypeOK, Connector
    PROVE  /\ call # Idle /\ call.pc \in {"connect", "waitPause"} /\ ConnectorFree
           /\ UNCHANGED unchangedByConnect /\ SameRecords
           /\ Refused \/ SpawnAsked \/ StateAsked \/ EndAsked
<1>1. CASE launch
  <2>1. /\ call.pc = "connect" /\ call.op = "Launch" /\ ConnectorFree /\ UNCHANGED unchangedByConnect
    BY <1>1 DEF launch, Connect
  <2>2. CASE Loaded(call.app) /\ InState(call.app, {"SUSPENDED"})
    <3>1. Act(call.app, "RESUME") /\ OnInstance(UNCHANGED context, "ACTIVE", "return")
      BY <1>1, <2>2 DEF launch
    <3>2. SameRecords
      BY <3>1, ActKeeps
    <3>3. Refused \/ StateAsked
      BY <2>2, <3>1 DEF OnInstance, Fail, Refused, StateAsked, Named, InState
    <3>4. QED
      BY <2>1, <3>2, <3>3 DEF Idle
  <2>3. CASE ~(Loaded(call.app) /\ InState(call.app, {"SUSPENDED"}))
    <3>1. SpawnOrSuspend("ACTIVE", "LAUNCH")
      BY <1>1, <2>3 DEF launch
    <3>2. QED
      BY <2>1, <3>1, SpawnIsAsked DEF Idle
  <2>4. QED
    BY <2>2, <2>3
<1>2. CASE preLoadApp
  <2>1. /\ call.pc = "connect" /\ call.op = "Preload" /\ ConnectorFree /\ UNCHANGED unchangedByConnect
        /\ SpawnOrSuspend("PAUSED", "PRELOAD")
    BY <1>2 DEF preLoadApp, Connect
  <2>2. QED
    BY <2>1, SpawnIsAsked DEF Idle
<1>3. CASE closeApp
  <2>1. /\ call.pc = "connect" /\ ConnectorFree /\ UNCHANGED unchangedByConnect
        /\ Act(call.app, "CLOSE")
        /\ IF Known(call.app) THEN OnInstance(UNCHANGED context, "PAUSED", "waitPause") ELSE Fail
    BY <1>3 DEF closeApp, Connect
  <2>2. SameRecords
    BY <2>1, ActKeeps
  <2>3. Refused \/ StateAsked
    BY <2>1 DEF OnInstance, Fail, Refused, StateAsked, Named
  <2>4. QED
    BY <2>1, <2>2, <2>3 DEF Idle
<1>4. CASE closeAppWaited
  <2>1. /\ call.pc = "waitPause" /\ ConnectorFree /\ UNCHANGED <<unchangedByConnect, mAppInfo>>
    BY <1>4 DEF closeAppWaited
  <2>2. SameRecords
    BY <2>1 DEF SameRecords, TypeOK
  <2>3. Refused \/ StateAsked \/ EndAsked
    <3>1. CASE ~IsPaused
      BY <1>4, <3>1 DEF closeAppWaited, Fail, Refused
    <3>2. CASE IsPaused
      <4>1. Known(call.app)
        BY <3>2 DEF IsPaused, InState
      <4>2. PICK p \in Policies :
               \/ p = "none"      /\ OnInstance(MarkUnloading(call.app), "TERMINATING", "return")
               \/ p = "suspend"   /\ OnInstance(UNCHANGED context, "SUSPENDED", "return")
               \/ p = "hibernate" /\ OnInstance(UNCHANGED context, "SUSPENDED", "hibernate")
        BY <1>4, <3>2, ConstantsAssumption DEF closeAppWaited
      <4>3. QED
        BY <4>1, <4>2 DEF OnInstance, Fail, Refused, StateAsked, EndAsked, Named
    <3>3. QED
      BY <3>1, <3>2
  <2>4. QED
    BY <2>1, <2>2, <2>3 DEF Idle
<1>5. ASSUME NEW op \in {"Terminate", "Kill"}, terminateApp(op)
      PROVE  /\ call # Idle /\ call.pc \in {"connect", "waitPause"} /\ ConnectorFree
             /\ UNCHANGED unchangedByConnect /\ SameRecords
             /\ Refused \/ SpawnAsked \/ StateAsked \/ EndAsked
  <2>1. /\ call.pc = "connect" /\ ConnectorFree /\ UNCHANGED unchangedByConnect
        /\ UNCHANGED mAppInfo \/ Act(call.app, op)
        /\ IF Known(call.app) THEN OnInstance(MarkUnloading(call.app), "TERMINATING", "unlock") ELSE Fail
    BY <1>5 DEF terminateApp, Connect
  <2>2. SameRecords
    <3>1. CASE UNCHANGED mAppInfo
      BY <3>1 DEF SameRecords, TypeOK
    <3>2. CASE Act(call.app, op)
      BY <3>2, ActKeeps
    <3>3. QED
      BY <2>1, <3>1, <3>2
  <2>3. Refused \/ EndAsked
    BY <2>1 DEF OnInstance, Fail, Refused, EndAsked, Named
  <2>4. QED
    BY <2>1, <2>2, <2>3 DEF Idle
<1>6. QED
  BY <1>1, <1>2, <1>3, <1>4, <1>5 DEF Connector

\* The contexts after each of them.
LEMMA ContextsAfter ==
    ASSUME TypeOK, call # Idle, Refused \/ SpawnAsked \/ StateAsked \/ EndAsked
    PROVE  /\ context' \in [DOMAIN context' -> ContextType]
           /\ DOMAIN context' \subseteq DOMAIN context \cup {call.app}
           /\ call' = Idle \/ (call' \in CallType /\ call'.pc = "add" /\ call'.app = call.app)
           /\ \A a \in DOMAIN context :
                 /\ a \in DOMAIN context'
                 /\ context'[a].inst = context[a].inst
                 /\ context'[a].state = context[a].state
                 /\ context'[a].ready = context[a].ready
                 /\ context'[a].unloading = context[a].unloading \/ (EndAsked /\ a = call.app)
           /\ \A a \in DOMAIN context' : a \notin DOMAIN context =>
                 SpawnAsked /\ a = call.app /\ context'[a] = NewContext
           /\ EndAsked => context'[call.app].unloading
<1>1. /\ context \in [DOMAIN context -> ContextType] /\ call \in CallType
  BY CallTypes DEF TypeOK, ServiceTypeOK
<1>2. CASE Refused \/ StateAsked
  <2>1. UNCHANGED context
    BY <1>2 DEF Refused, StateAsked
  <2>2. call' = Idle \/ (call' \in CallType /\ call'.pc = "add" /\ call'.app = call.app)
    BY <1>1, <1>2 DEF Refused, StateAsked, Request, CallType, LifecycleStates
  <2>3. EndAsked => context'[call.app].unloading
    BY <1>1, <2>1 DEF EndAsked, MarkUnloading, Named, HasInstance, Loaded, ContextType
  <2>4. QED
    BY <1>1, <2>1, <2>2, <2>3
<1>3. CASE SpawnAsked
  <2>1. call' \in CallType /\ call'.pc = "add" /\ call'.app = call.app /\ call'.then = "spawned"
    BY <1>1, <1>3 DEF SpawnAsked, Request, CallType, LifecycleStates
  <2>2. ~EndAsked
    BY <1>1, <2>1 DEF EndAsked, Request, CallType
  <2>3. NewContext \in ContextType
    BY DEF NewContext, ContextType, LifecycleStates
  <2>4. CASE Loaded(call.app)
    BY <1>1, <1>3, <2>1, <2>2, <2>4 DEF SpawnAsked, EnsureContext
  <2>5. CASE ~Loaded(call.app)
    <3>1. context' = With(context, call.app, NewContext)
      BY <1>3, <2>5 DEF SpawnAsked, EnsureContext
    <3>2. QED
      BY <1>1, <1>3, <2>1, <2>2, <2>3, <2>5, <3>1 DEF With, Loaded
  <2>6. QED
    BY <2>4, <2>5
<1>4. CASE EndAsked
  <2>1. call.app \in DOMAIN context
    BY <1>4 DEF EndAsked, Named, HasInstance, Loaded
  <2>2. \A c \in ContextType : /\ [c EXCEPT !.unloading = TRUE] \in ContextType
                               /\ [c EXCEPT !.unloading = TRUE].inst = c.inst
                               /\ [c EXCEPT !.unloading = TRUE].state = c.state
                               /\ [c EXCEPT !.unloading = TRUE].ready = c.ready
                               /\ [c EXCEPT !.unloading = TRUE].unloading = TRUE
    BY DEF ContextType
  <2>3. context' = [context EXCEPT ![call.app] = [context[call.app] EXCEPT !.unloading = TRUE]]
    BY <1>4 DEF EndAsked, MarkUnloading
  <2>4. call' \in CallType /\ call'.pc = "add" /\ call'.app = call.app
    BY <1>1, <1>4 DEF EndAsked, Request, CallType, LifecycleStates
  <2>5. QED
    BY <1>1, <1>4, <2>1, <2>2, <2>3, <2>4
<1>5. QED
  BY <1>2, <1>3, <1>4

LEMMA InfoTypes ==
    ASSUME TypeOK, NEW a \in Apps
    PROVE  Info(a) \in InfoType
BY DEF TypeOK, Info, NewInfo, InfoType, AppStates, Known

LEMMA SetInfoTypes ==
    ASSUME TypeOK, NEW a \in Apps, NEW r \in InfoType, SetInfo(a, r)
    PROVE  /\ DOMAIN mAppInfo' = DOMAIN mAppInfo \cup {a}
           /\ mAppInfo' \in [DOMAIN mAppInfo' -> InfoType]
           /\ mAppInfo'[a] = r
           /\ \A x \in DOMAIN mAppInfo : x # a => mAppInfo'[x] = mAppInfo[x]
BY DEF TypeOK, SetInfo, With

LEMMA ConnectorTypes ==
    ASSUME TypeOK, Connector
    PROVE  TypeOK'
<1>1. /\ call # Idle /\ UNCHANGED unchangedByConnect /\ SameRecords
      /\ Refused \/ SpawnAsked \/ StateAsked \/ EndAsked
  BY Connected
<1>2. /\ context' \in [DOMAIN context' -> ContextType]
      /\ DOMAIN context' \subseteq DOMAIN context \cup {call.app}
      /\ call' = Idle \/ call' \in CallType
  BY <1>1, ContextsAfter
<1>3. call.app \in Apps
  BY <1>1, CallTypes
<1>4. QED
  BY <1>1, <1>2, <1>3 DEF TypeOK, ServiceTypeOK, unchangedByConnect, SameRecords

LEMMA CallGoesOnTypes ==
    ASSUME TypeOK, CallOK, CallGoesOn
    PROVE  TypeOK'
<1>1. CASE Connector
  BY <1>1, ConnectorTypes
<1>2. CASE IsAppLoaded
  <2>1. call \in CallType /\ UNCHANGED <<serviceVars, mAppInfo, locks, amJobs, told, calls>>
        /\ call' = [call EXCEPT !.pc = "package", !.loaded = Loaded(call.app)]
    BY <1>2, CallTypes DEF IsAppLoaded, Idle
  <2>2. call' \in CallType
    <3>1. \A c \in CallType, b \in BOOLEAN : [c EXCEPT !.pc = "package", !.loaded = b] \in CallType
      BY DEF CallType
    <3>2. Loaded(call.app) \in BOOLEAN
      BY DEF Loaded
    <3>3. QED
      BY <2>1, <3>1, <3>2
  <2>3. QED
    BY <2>1, <2>2 DEF TypeOK, ServiceTypeOK, serviceVars
<1>3. CASE PackageLock
  <2>1. call \in CallType /\ call.app \in Apps /\ UNCHANGED <<serviceVars, amJobs, told, calls>>
    BY <1>3, CallTypes DEF PackageLock, Idle
  <2>2. call' = Idle \/ call' \in CallType
    BY <1>3, <2>1 DEF PackageLock, CallType
  <2>3. locks' \in [Apps -> Nat]
    BY <1>3, <2>1 DEF PackageLock, TypeOK
  <2>4. DOMAIN mAppInfo' \subseteq Apps /\ mAppInfo' \in [DOMAIN mAppInfo' -> InfoType]
    <3>1. CASE UNCHANGED mAppInfo
      BY <3>1 DEF TypeOK
    <3>2. CASE WithPackage
      <4>1. [Info(call.app) EXCEPT !.version = TRUE] \in InfoType
        BY <2>1, InfoTypes DEF InfoType
      <4>2. QED
        BY <2>1, <3>2, <4>1, SetInfoTypes DEF WithPackage, TypeOK
    <3>3. QED
      BY <1>3, <3>1, <3>2 DEF PackageLock
  <2>5. QED
    BY <2>1, <2>2, <2>3, <2>4 DEF TypeOK, ServiceTypeOK, serviceVars
<1>4. CASE getLoadedApps
  <2>1. UNCHANGED <<context, unchangedByConnect>> /\ call' = Idle
    BY <1>4 DEF getLoadedApps
  <2>2. ASSUME NEW a \in DOMAIN context
        PROVE  [Info(a) EXCEPT !.inst = context[a].inst, !.new = context[a].state] \in InfoType
    <3>1. Info(a) \in InfoType /\ context[a].inst \in Nat /\ context[a].state \in AppStates
      BY ContextTypes, InfoTypes DEF AppStates
    <3>2. QED
      BY <3>1 DEF InfoType
  <2>3. /\ DOMAIN mAppInfo' = DOMAIN context \cup DOMAIN mAppInfo
        /\ mAppInfo' \in [DOMAIN mAppInfo' -> InfoType]
    BY <1>4, <2>2 DEF getLoadedApps, Loaded, TypeOK
  <2>4. QED
    BY <2>1, <2>3 DEF TypeOK, ServiceTypeOK, unchangedByConnect
<1>5. CASE AddRequest
  <2>1. call \in CallType /\ call.app \in Apps /\ call.target \in LifecycleStates
        /\ UNCHANGED <<context, worker, signalled, lmJobs, event, lastInstance,
                       mAppInfo, locks, amJobs, told, calls>>
    BY <1>5, CallTypes DEF AddRequest, Idle
  <2>2. call' = Idle \/ call' \in CallType
    BY <1>5, <2>1 DEF AddRequest, CallType, LifecycleStates
  <2>3. gRequests' \in Seq([app : Apps, target : LifecycleStates])
    BY <1>5, <2>1, AppendProperties DEF AddRequest, Add, TypeOK, ServiceTypeOK
  <2>4. QED
    BY <2>1, <2>2, <2>3 DEF TypeOK, ServiceTypeOK
<1>6. CASE SpawnReturn
  <2>1. call.app \in Apps /\ UNCHANGED <<serviceVars, locks, amJobs, told, calls>> /\ call' = Idle
    BY <1>6, CallTypes DEF SpawnReturn, Idle
  <2>2. call.app \in DOMAIN context
    BY <1>6 DEF SpawnReturn, CallOK, Loaded
  <2>3. [Info(call.app) EXCEPT !.inst = context[call.app].inst] \in InfoType
    <3>1. Info(call.app) \in InfoType /\ context[call.app].inst \in Nat
      BY <2>1, <2>2, InfoTypes, ContextTypes
    <3>2. \A r \in InfoType, n \in Nat : [r EXCEPT !.inst = n] \in InfoType
      BY DEF InfoType
    <3>3. QED
      BY <3>1, <3>2
  <2>4. SetInfo(call.app, [Info(call.app) EXCEPT !.inst = context[call.app].inst])
    BY <1>6 DEF SpawnReturn, StoreInstance
  <2>5. DOMAIN mAppInfo' \subseteq Apps /\ mAppInfo' \in [DOMAIN mAppInfo' -> InfoType]
    <3>1. PICK r \in InfoType : SetInfo(call.app, r)
      BY <2>3, <2>4
    <3>2. DOMAIN mAppInfo \subseteq Apps
      BY DEF TypeOK
    <3>3. call.app \in Apps
      BY <2>1
    <3>4. DOMAIN mAppInfo' = DOMAIN mAppInfo \cup {call.app} /\ mAppInfo' \in [DOMAIN mAppInfo' -> InfoType]
      BY <3>1, <3>3, SetInfoTypes
    <3>5. QED
      BY <3>2, <3>3, <3>4
  <2>6. QED
    BY <2>1, <2>5 DEF TypeOK, ServiceTypeOK, serviceVars
<1>7. CASE PackageUnLock
  <2>1. call.app \in Apps /\ UNCHANGED <<serviceVars, amJobs, told, calls>> /\ call' = Idle
    BY <1>7, CallTypes DEF PackageUnLock, Idle
  <2>2. locks' \in [Apps -> Nat]
    <3>1. locks \in [Apps -> Nat] /\ locks[call.app] \in Nat
      BY <2>1 DEF TypeOK
    <3>2. CASE UnlockDone
      <4>1. locks[call.app] - 1 \in Nat
        BY <3>1, <3>2 DEF UnlockDone
      <4>2. QED
        BY <1>7, <3>1, <3>2, <4>1 DEF PackageUnLock
    <3>3. CASE ~UnlockDone
      BY <1>7, <3>1, <3>3 DEF PackageUnLock
    <3>4. QED
      BY <3>2, <3>3
  <2>3. DOMAIN mAppInfo' \subseteq Apps /\ mAppInfo' \in [DOMAIN mAppInfo' -> InfoType]
    BY <1>7, <2>1 DEF PackageUnLock, Without, TypeOK
  <2>4. QED
    BY <2>1, <2>2, <2>3 DEF TypeOK, ServiceTypeOK, serviceVars
<1>8. QED
  BY <1>1, <1>2, <1>3, <1>4, <1>5, <1>6, <1>7 DEF CallGoesOn, Connector

LEMMA OtherTypes ==
    ASSUME TypeOK,
           \/ \E op \in Calls, a \in Apps : Begin(op, a)
           \/ Handler
           \/ \E k \in 1..PoolThreads : Tell(k)
    PROVE  TypeOK'
<1>1. ASSUME NEW op \in Calls, NEW a \in Apps, Begin(op, a)
      PROVE  TypeOK'
  <2>1. call' \in CallType
    BY <1>1 DEF Begin, CallType, LifecycleStates
  <2>2. QED
    BY <1>1, <2>1 DEF Begin, TypeOK, ServiceTypeOK, serviceVars
<1>2. CASE HandlerLocks
  <2>1. event # NoEvent
    BY <1>2 DEF HandlerLocks, NoEvent
  <2>2. QED
    BY <1>2, <2>1 DEF HandlerLocks, TypeOK, ServiceTypeOK
<1>3. CASE OnAppLifecycleStateChanged
  <2>1. event.job \in JobType
    BY <1>3 DEF OnAppLifecycleStateChanged, NoEvent, TypeOK, ServiceTypeOK
  <2>2. DOMAIN mAppInfo' \subseteq Apps /\ mAppInfo' \in [DOMAIN mAppInfo' -> InfoType]
    <3>1. \A r \in InfoType, s \in LifecycleStates : [r EXCEPT !.new = s] \in InfoType
      BY DEF InfoType, AppStates
    <3>2. CASE UNCHANGED mAppInfo
      BY <3>2 DEF TypeOK
    <3>3. CASE UNCHANGED mAppInfo \/ mAppInfo' = [mAppInfo EXCEPT ![event.job.app] = [mAppInfo[event.job.app] EXCEPT !.new = event.job.new]]
      BY <2>1, <3>1, <3>3 DEF TypeOK, JobType
    <3>4. QED
      BY <1>3, <3>2, <3>3 DEF OnAppLifecycleStateChanged
  <2>3. amJobs' \in Seq([app : Apps, new : AppStates])
    <3>1. [app |-> event.job.app, new |-> event.job.new] \in [app : Apps, new : AppStates]
      BY <2>1 DEF JobType, AppStates
    <3>2. amJobs' = amJobs \/ amJobs' = Append(amJobs, [app |-> event.job.app, new |-> event.job.new])
      BY <1>3 DEF OnAppLifecycleStateChanged
    <3>3. amJobs \in Seq([app : Apps, new : AppStates])
      BY DEF TypeOK
    <3>4. \A S : \A q \in Seq(S), e \in S : Append(q, e) \in Seq(S)
      BY AppendProperties
    <3>5. QED
      BY <3>1, <3>2, <3>3, <3>4
  <2>4. QED
    BY <1>3, <2>2, <2>3 DEF OnAppLifecycleStateChanged, TypeOK, ServiceTypeOK
<1>4. ASSUME NEW k \in 1..PoolThreads, Tell(k)
      PROVE  TypeOK'
  <2>1. k \in DOMAIN amJobs /\ amJobs \in Seq([app : Apps, new : AppStates])
    BY <1>4 DEF Tell, TypeOK
  <2>2. TakeOut(amJobs, k) \in Seq([app : Apps, new : AppStates]) /\ amJobs[k] \in [app : Apps, new : AppStates]
    BY <2>1, OneTaken
  <2>3. QED
    BY <1>4, <2>2 DEF Tell, TypeOK, ServiceTypeOK, serviceVars
<1>5. QED
  BY <1>1, <1>2, <1>3, <1>4 DEF Handler

-----------------------------------------------------------------------------
(* Steps of the transition thread. *)

\* The thread enters the next state s of its path with the context c and
\* submits the jobs r.
Entered(s, c, r) ==
    /\ Busy /\ s = Head(worker.path) /\ c \in ContextType /\ r \in Seq(JobType)
    /\ Enter(s, c, r)
    /\ c.unloading = context[Cur].unloading
    /\ \/ /\ s = "LOADING"
          /\ lastInstance' = lastInstance + 1 /\ c.inst = lastInstance + 1 /\ c.ready
          /\ r = <<StateChange(Cur, c.inst, State, s)>>
       \/ /\ s # "LOADING"
          /\ lastInstance' = lastInstance /\ c = context[Cur]
          /\ \/ r = <<StateChange(Cur, c.inst, State, s)>>
             \/ r = <<>> /\ s = "TERMINATING" /\ worker.pc = "wait"

LEMMA EntersState ==
    ASSUME TypeOK, OnPath, EnterLoading \/ EnterAnswered \/ EnterOther
    PROVE  \E s, c, r : Entered(s, c, r)
<1>1. Busy
  BY DEF EnterLoading, EnterAnswered, EnterOther, Busy
<1>2. /\ Cur \in DOMAIN context /\ Cur \in Apps /\ context[Cur] \in ContextType
      /\ context[Cur].inst \in Nat /\ lastInstance \in Nat
      /\ State \in LifecycleStates /\ Head(worker.path) \in LifecycleStates
  BY <1>1, Working, ContextTypes DEF TypeOK, ServiceTypeOK
<1>3. \A i \in Nat, t \in LifecycleStates :
          /\ Changed(i, t) = <<StateChange(Cur, i, State, t)>>
          /\ Changed(i, t) \in Seq(JobType)
  BY <1>2 DEF Changed, StateChange, JobType
<1>4. CASE EnterLoading
  <2> DEFINE c == Posted(context[Cur], lastInstance + 1)
             r == Changed(lastInstance + 1, "LOADING")
  <2>1. lastInstance + 1 \in Nat /\ "LOADING" \in LifecycleStates
    BY <1>2 DEF LifecycleStates
  <2>2. \A d \in ContextType, i \in Nat :
            /\ [d EXCEPT !.inst = i, !.ready = TRUE] \in ContextType
            /\ [d EXCEPT !.inst = i, !.ready = TRUE].inst = i
            /\ [d EXCEPT !.inst = i, !.ready = TRUE].ready = TRUE
            /\ [d EXCEPT !.inst = i, !.ready = TRUE].unloading = d.unloading
    BY DEF ContextType
  <2>3. /\ c \in ContextType /\ c.inst = lastInstance + 1 /\ c.ready
        /\ c.unloading = context[Cur].unloading
    BY <1>2, <2>1, <2>2 DEF Posted
  <2>4. r = <<StateChange(Cur, c.inst, State, "LOADING")>> /\ r \in Seq(JobType)
    BY <1>3, <2>1, <2>3
  <2>5. Entered("LOADING", c, r)
    <3>1. /\ Enter("LOADING", c, r) /\ Head(worker.path) = "LOADING"
          /\ lastInstance' = lastInstance + 1
      BY <1>4 DEF EnterLoading
    <3> HIDE DEF c, r
    <3>2. QED
      BY <1>1, <2>3, <2>4, <3>1 DEF Entered
  <2>6. QED
    BY <2>5
<1>5. CASE EnterAnswered
  <2> DEFINE s == Head(worker.path)
             r == IF s = "INITIALIZING" THEN Changed(context[Cur].inst, "INITIALIZING") ELSE <<>>
  <2>1. /\ s \in {"INITIALIZING", "TERMINATING"} /\ worker.pc = "wait"
        /\ Enter(s, context[Cur], r) /\ lastInstance' = lastInstance
    BY <1>5 DEF EnterAnswered, OnPath, Busy
  <2>2. /\ r = <<StateChange(Cur, context[Cur].inst, State, s)>> \/ (r = <<>> /\ s = "TERMINATING")
        /\ r \in Seq(JobType)
    BY <1>2, <1>3, <2>1
  <2> HIDE DEF r, s
  <2>3. Entered(s, context[Cur], r)
    BY <1>1, <1>2, <2>1, <2>2 DEF Entered, s
  <2>4. QED
    BY <2>3
<1>6. CASE EnterOther
  <2> DEFINE s == Head(worker.path)
             r == Changed(context[Cur].inst, s)
  <2>1. s # "LOADING" /\ Enter(s, context[Cur], r) /\ lastInstance' = lastInstance
    BY <1>6 DEF EnterOther
  <2>2. r = <<StateChange(Cur, context[Cur].inst, State, s)>> /\ r \in Seq(JobType)
    BY <1>2, <1>3
  <2> HIDE DEF r, s
  <2>3. Entered(s, context[Cur], r)
    BY <1>1, <1>2, <2>1, <2>2 DEF Entered, s
  <2>4. QED
    BY <2>3
<1>7. QED
  BY <1>4, <1>5, <1>6

\* What the step from one state to the next does.
LEMMA AfterEnter ==
    ASSUME TypeOK, OnPath, NEW s, NEW c, NEW r, Entered(s, c, r), NEW a, a = Cur,
           NEW t, t = Head(gRequests).target
    PROVE  /\ a \in DOMAIN context /\ a = gRequests[1].app /\ t = gRequests[1].target
           /\ 1 \in DOMAIN gRequests /\ t \in LifecycleStates
           /\ DOMAIN context' = DOMAIN context
           /\ context'[a].state = s /\ context'[a].inst = c.inst /\ context'[a].ready = c.ready
           /\ context'[a].unloading = context[a].unloading
           /\ \A b \in DOMAIN context : b # a => context'[b] = context[b]
           /\ \A b \in DOMAIN context : context'[b].unloading = context[b].unloading
           /\ s \in LifecycleStates /\ <<context[a].state, s>> \in Edges
           /\ UNCHANGED event /\ lmJobs' = lmJobs \o r /\ lastInstance \in Nat
           /\ \/ /\ s = Final(t) /\ (s = "UNLOADED" => t = "TERMINATING")
                 /\ worker'.pc = "asleep" /\ gRequests' = Tail(gRequests)
              \/ /\ s \notin {Final(t), "UNLOADED"}
                 /\ worker'.pc = "step" /\ worker'.path = Tail(worker.path)
                 /\ Tail(worker.path) # <<>>
                 /\ IsPath(s, t, Tail(worker.path)) /\ UNCHANGED gRequests
<1>1. /\ Busy /\ s = Head(worker.path) /\ c \in ContextType /\ Enter(s, c, r)
      /\ c.unloading = context[Cur].unloading
  BY DEF Entered
<1>2. /\ gRequests # <<>> /\ worker.path # <<>> /\ worker.path \in Seq(LifecycleStates)
      /\ a \in DOMAIN context /\ a = gRequests[1].app /\ t = gRequests[1].target
      /\ 1 \in DOMAIN gRequests /\ t \in LifecycleStates
      /\ IsPath(context[a].state, t, worker.path)
      /\ s \in LifecycleStates /\ <<context[a].state, s>> \in Edges
  BY <1>1, Working DEF State
<1>3. /\ Len(worker.path) \in Nat \ {0}
      /\ Len(worker.path) = 1 => s = Final(t)
      /\ s = "UNLOADED" => Len(worker.path) = 1 /\ t = "TERMINATING"
      /\ s = Final(t) => Len(worker.path) = 1
  BY <1>1, <1>2, FirstStep
<1>4. context' = [context EXCEPT ![a] = [c EXCEPT !.state = s]] /\ context \in [DOMAIN context -> ContextType]
  BY <1>1 DEF Enter, TypeOK, ServiceTypeOK
<1>5. /\ [c EXCEPT !.state = s].state = s /\ [c EXCEPT !.state = s].inst = c.inst
      /\ [c EXCEPT !.state = s].ready = c.ready /\ [c EXCEPT !.state = s].unloading = c.unloading
  BY <1>1 DEF ContextType
<1>6. /\ DOMAIN context' = DOMAIN context /\ context'[a] = [c EXCEPT !.state = s]
      /\ \A b \in DOMAIN context : b # a => context'[b] = context[b]
  BY <1>2, <1>4
<1>7. \/ /\ s = Final(t) /\ (s = "UNLOADED" => t = "TERMINATING")
         /\ worker'.pc = "asleep" /\ gRequests' = Tail(gRequests)
      \/ /\ s \notin {Final(t), "UNLOADED"}
         /\ worker'.pc = "step" /\ worker'.path = Tail(worker.path)
         /\ Tail(worker.path) # <<>>
         /\ IsPath(s, t, Tail(worker.path)) /\ UNCHANGED gRequests
  <2>1. CASE Len(worker.path) = 1
    BY <1>1, <1>3, <2>1 DEF Enter
  <2>2. CASE Len(worker.path) # 1
    <3>1. Tail(worker.path) # <<>> /\ IsPath(s, t, Tail(worker.path))
      BY <1>1, <1>2, <2>2, PathTail
    <3>2. QED
      BY <1>1, <1>3, <2>2, <3>1 DEF Enter
  <2>3. QED
    BY <2>1, <2>2
<1>8. UNCHANGED event /\ lmJobs' = lmJobs \o r /\ lastInstance \in Nat
  BY <1>1 DEF Enter, TypeOK, ServiceTypeOK
<1>9. context'[a].unloading = context[a].unloading
  BY <1>1, <1>5, <1>6
<1>10. QED
  BY <1>2, <1>5, <1>6, <1>7, <1>8, <1>9

LEMMA JobsStay ==
    ASSUME TypeOK, JobsOK, NEW r \in Seq(JobType), lmJobs' = lmJobs \o r,
           \A j \in JobType : JobOK(j) => JobOK(j)',
           \A k \in DOMAIN r : JobOK(r[k])'
    PROVE  JobsOK'
<1> SUFFICES ASSUME NEW k \in DOMAIN lmJobs', NEW j, j = lmJobs'[k]
             PROVE  JobOK(j)'
  BY DEF JobsOK
<1>1. lmJobs \in Seq(JobType)
  BY DEF TypeOK, ServiceTypeOK
<1>2. (k \in DOMAIN lmJobs /\ j = lmJobs[k]) \/ (k - Len(lmJobs) \in DOMAIN r /\ j = r[k - Len(lmJobs)])
  BY <1>1, BothParts
<1>3. CASE k \in DOMAIN lmJobs /\ j = lmJobs[k]
  <2>1. j \in JobType
    BY <1>1, <1>3, ElementOfSeq, LenProperties
  <2>2. JobOK(j)
    BY <1>3 DEF JobsOK
  <2>3. QED
    BY <2>1, <2>2
<1>4. CASE k - Len(lmJobs) \in DOMAIN r /\ j = r[k - Len(lmJobs)]
  <2>1. PICK m \in DOMAIN r : j = r[m]
    BY <1>4
  <2>2. QED
    BY <2>1
<1>5. QED
  BY <1>2, <1>3, <1>4

\* The queue keeps its requests or loses the first one.
LEMMA QueueKeeps ==
    ASSUME TypeOK, RequestsOK, gRequests # <<>>,
           UNCHANGED call, gRequests' = gRequests \/ gRequests' = Tail(gRequests),
           DOMAIN context' = DOMAIN context,
           \A a \in DOMAIN context : context'[a].unloading = context[a].unloading
    PROVE  RequestsOK'
<1>1. gRequests \in Seq([app : Apps, target : LifecycleStates])
  BY DEF TypeOK, ServiceTypeOK
<1>2. CASE gRequests' = gRequests
  BY <1>2 DEF RequestsOK, Adding
<1>3. CASE gRequests' = Tail(gRequests)
  <2>1. \A k \in DOMAIN gRequests' : /\ k \in Nat /\ k + 1 \in DOMAIN gRequests
                                     /\ gRequests'[k] = gRequests[k + 1]
    BY <1>1, <1>3, TailElements
  <2>2. ASSUME NEW k \in DOMAIN gRequests'
        PROVE  /\ gRequests'[k].app \in DOMAIN context'
               /\ gRequests'[k].target = "TERMINATING" =>
                     context'[gRequests'[k].app].unloading /\ ~Adding(gRequests[k + 1].app)
    BY <2>1 DEF RequestsOK
  <2>3. ASSUME NEW k \in DOMAIN gRequests', NEW m \in DOMAIN gRequests',
               k < m, gRequests'[k].app = gRequests'[m].app
        PROVE  gRequests'[k].target # "TERMINATING"
    <3>1. k + 1 < m + 1
      BY <2>1, <2>3
    <3>2. QED
      BY <2>1, <2>3, <3>1 DEF RequestsOK
  <2>4. QED
    BY <2>1, <2>2, <2>3 DEF RequestsOK, Adding
<1>4. QED
  BY <1>2, <1>3

LEMMA EnterKeeps ==
    ASSUME Base, NEW s, NEW c, NEW r, Entered(s, c, r), UNCHANGED appVars
    PROVE  OnPath' /\ Passing' /\ RequestsOK' /\ CallOK' /\ ContextsOK' /\ JobsOK' /\ RecordsOK'
<1>1. PICK a, t : a = Cur /\ t = Head(gRequests).target
  OBVIOUS
<1>2. TypeOK /\ OnPath /\ Passing /\ RequestsOK /\ CallOK /\ ContextsOK /\ JobsOK /\ RecordsOK
  BY DEF Base
<1>3. /\ a \in DOMAIN context /\ a = gRequests[1].app /\ t = gRequests[1].target
      /\ 1 \in DOMAIN gRequests /\ t \in LifecycleStates
      /\ DOMAIN context' = DOMAIN context
      /\ context'[a].state = s /\ context'[a].inst = c.inst /\ context'[a].ready = c.ready
      /\ context'[a].unloading = context[a].unloading
      /\ \A b \in DOMAIN context : b # a => context'[b] = context[b]
      /\ \A b \in DOMAIN context : context'[b].unloading = context[b].unloading
      /\ s \in LifecycleStates /\ <<context[a].state, s>> \in Edges
      /\ UNCHANGED event /\ lmJobs' = lmJobs \o r /\ lastInstance \in Nat
      /\ \/ /\ s = Final(t) /\ (s = "UNLOADED" => t = "TERMINATING")
            /\ worker'.pc = "asleep" /\ gRequests' = Tail(gRequests)
         \/ /\ s \notin {Final(t), "UNLOADED"}
            /\ worker'.pc = "step" /\ worker'.path = Tail(worker.path)
            /\ Tail(worker.path) # <<>>
            /\ IsPath(s, t, Tail(worker.path)) /\ UNCHANGED gRequests
  BY <1>1, <1>2, AfterEnter
<1>4. UNCHANGED <<mAppInfo, call>> /\ gRequests # <<>>
      /\ gRequests \in Seq([app : Apps, target : LifecycleStates])
  BY <1>2, Working DEF appVars, Entered, TypeOK, ServiceTypeOK
<1>5. /\ c \in ContextType /\ r \in Seq(JobType) /\ c.inst \in Nat
      /\ \/ /\ s = "LOADING" /\ lastInstance' = lastInstance + 1
            /\ c.inst = lastInstance + 1 /\ c.ready
            /\ r = <<StateChange(a, c.inst, context[a].state, s)>>
         \/ /\ s # "LOADING" /\ lastInstance' = lastInstance /\ c = context[a]
            /\ r = <<StateChange(a, c.inst, context[a].state, s)>> \/ r = <<>>
  BY <1>1 DEF Entered, State, ContextType
<1>6. /\ s = "LOADING" <=> context[a].state = "UNLOADED"
      /\ s = "UNLOADED" <=> context[a].state = "TERMINATING"
  BY <1>3 DEF Edges
<1>7. OnPath'
  BY <1>1, <1>3, <1>4 DEF OnPath, Busy, Cur, State
<1>8. Passing'
  <2> SUFFICES ASSUME NEW b \in DOMAIN context', context'[b].state = "TERMINATING"
               PROVE  Busy' /\ Cur' = b
    BY DEF Passing
  <2>1. b = a
    BY <1>1, <1>2, <1>3 DEF Passing
  <2>2. worker'.pc = "step" /\ UNCHANGED gRequests
    BY <1>3, <2>1 DEF Final, LifecycleStates
  <2>3. QED
    BY <1>1, <2>1, <2>2 DEF Busy, Cur
<1>9. RequestsOK'
  BY <1>2, <1>3, <1>4, QueueKeeps
<1>10. CallOK'
  BY <1>2, <1>3, <1>4 DEF CallOK, Loaded, Known
<1>11. RecordsOK'
  BY <1>2, <1>3, <1>4 DEF RecordsOK, Known
<1>12. ContextsOK'
  <2>1. \A k \in DOMAIN gRequests' : \E m \in DOMAIN gRequests : gRequests'[k] = gRequests[m]
    <3>1. CASE UNCHANGED gRequests
      BY <3>1
    <3>2. CASE gRequests' = Tail(gRequests)
      BY <1>4, <3>2, TailElements
    <3>3. QED
      BY <1>3, <3>1, <3>2
  <2>2. ASSUME NEW b \in DOMAIN context, b # a
        PROVE  /\ context'[b].ready <=> context'[b].inst # 0
               /\ context'[b].inst <= lastInstance'
               /\ context'[b].inst = 0 =>
                     context'[b].state = "UNLOADED" /\ ~context'[b].unloading /\ Spawning(b)
               /\ context'[b].state = "UNLOADED" /\ context'[b].inst # 0 =>
                     /\ context'[b].unloading /\ ~Adding(b)
                     /\ \A k \in DOMAIN gRequests' : gRequests'[k].app # b
    <3>1. context'[b] = context[b] /\ context[b].inst \in Nat
      BY <1>2, <1>3, <2>2, ContextTypes
    <3>2. context[b].inst <= lastInstance => context'[b].inst <= lastInstance'
      BY <1>3, <1>5, <3>1
    <3>3. QED
      BY <1>2, <2>1, <3>1, <3>2 DEF ContextsOK
  <2>3. /\ context'[a].ready <=> context'[a].inst # 0
        /\ context'[a].inst <= lastInstance' /\ context'[a].inst # 0
    <3>1. CASE s = "LOADING"
      BY <1>3, <1>5, <3>1
    <3>2. CASE s # "LOADING"
      BY <1>2, <1>3, <1>5, <1>6, <3>2 DEF ContextsOK
    <3>3. QED
      BY <3>1, <3>2
  <2>4. ASSUME context'[a].state = "UNLOADED"
        PROVE  /\ context'[a].unloading /\ ~Adding(a)
               /\ \A k \in DOMAIN gRequests' : gRequests'[k].app # a
    <3>1. t = "TERMINATING" /\ gRequests' = Tail(gRequests)
      BY <1>3, <2>4
    <3>2. context[a].unloading /\ ~Adding(a)
      BY <1>2, <1>3, <3>1 DEF RequestsOK
    <3>3. ASSUME NEW k \in DOMAIN gRequests', gRequests'[k].app = a
          PROVE  FALSE
      <4>1. k \in Nat \ {0} /\ k + 1 \in DOMAIN gRequests /\ gRequests'[k] = gRequests[k + 1]
        BY <1>4, <3>1, TailElements
      <4>2. 1 < k + 1
        BY <4>1
      <4>3. QED
        BY <1>2, <1>3, <3>1, <3>3, <4>1, <4>2 DEF RequestsOK
    <3>4. QED
      BY <1>3, <3>2, <3>3
  <2>5. QED
    BY <1>3, <1>4, <2>2, <2>3, <2>4 DEF ContextsOK, Spawning, Adding
<1>13. JobsOK'
  <2>1. ASSUME NEW j \in JobType, JobOK(j)
        PROVE  JobOK(j)'
    <3>1. j.kind = "STATE" => j.inst # 0 /\ j.inst <= lastInstance'
      BY <1>3, <1>5, <2>1 DEF JobOK, JobType
    <3>2. ASSUME Ends(j), NEW b \in DOMAIN context', Mine(j, b)'
          PROVE  context'[b].state = "UNLOADED"
      <4>1. CASE b # a
        BY <1>3, <2>1, <3>2, <4>1 DEF JobOK, Mine
      <4>2. CASE b = a /\ s = "LOADING"
        <5>1. j.inst = lastInstance + 1 /\ j.inst <= lastInstance /\ j.inst \in Nat
          BY <1>3, <1>5, <2>1, <3>2, <4>2 DEF JobOK, Mine, JobType
        <5>2. QED
          BY <1>3, <5>1
      <4>3. CASE b = a /\ s # "LOADING"
        BY <1>3, <1>5, <1>6, <2>1, <3>2, <4>3 DEF JobOK, Mine
      <4>4. QED
        BY <4>1, <4>2, <4>3
    <3>3. QED
      BY <3>1, <3>2 DEF JobOK, Ends
  <2>2. c.inst # 0 /\ c.inst <= lastInstance'
    <3>1. CASE s = "LOADING"
      BY <1>3, <1>5, <3>1
    <3>2. CASE s # "LOADING"
      BY <1>2, <1>3, <1>5, <1>6, <3>2 DEF ContextsOK
    <3>3. QED
      BY <3>1, <3>2
  <2>3. PICK e : e = StateChange(a, c.inst, context[a].state, s)
    OBVIOUS
  <2>4. JobOK(e)'
    BY <1>3, <2>2, <2>3 DEF JobOK, StateChange, Ends, Mine
  <2>5. QED
    <3>1. \A k \in DOMAIN r : r[k] = e
      BY <1>5, <2>3
    <3>2. \A k \in DOMAIN r : JobOK(r[k])'
      BY <2>4, <3>1
    <3>3. QED
      BY <1>2, <1>3, <1>5, <2>1, <3>2, JobsStay
<1>14. QED
  BY <1>7, <1>8, <1>9, <1>10, <1>11, <1>12, <1>13

LEMMA WorkerKeeps ==
    ASSUME Base, WorkerNext, UNCHANGED appVars
    PROVE  Base'
<1>1. TypeOK /\ OnPath /\ Passing /\ RequestsOK /\ CallOK /\ ContextsOK /\ JobsOK /\ RecordsOK
  BY DEF Base
<1>2. TypeOK'
  BY <1>1, WorkerTypes DEF TypeOK, appVars
<1>3. CASE TakeRequest
  <2>1. /\ ~Busy /\ gRequests # <<>> /\ UNCHANGED <<context, signalled, lmJobs, event, lastInstance>>
        /\ gRequests \in Seq([app : Apps, target : LifecycleStates])
        /\ UNCHANGED <<mAppInfo, call>>
    BY <1>1, <1>3 DEF TakeRequest, Busy, TypeOK, ServiceTypeOK, appVars
  <2>2. /\ Head(gRequests) = gRequests[1] /\ 1 \in DOMAIN gRequests
        /\ Head(gRequests) \in [app : Apps, target : LifecycleStates]
    BY <2>1, HeadElement
  <2>3. Cur \in DOMAIN context /\ State \in LifecycleStates
    BY <1>1, <2>2, ContextTypes DEF RequestsOK, Cur, State
  <2>4. gRequests' = gRequests \/ gRequests' = Tail(gRequests)
    BY <1>3 DEF TakeRequest
  <2>5. RequestsOK'
    BY <1>1, <2>1, <2>4, QueueKeeps
  <2>6. OnPath'
    <3>1. CASE UNCHANGED worker
      BY <2>1, <3>1 DEF OnPath, Busy
    <3>2. CASE ~UNCHANGED worker
      <4>1. /\ Steps[State][Head(gRequests).target] # <<>>
            /\ worker' = [pc |-> "step", path |-> Steps[State][Head(gRequests).target]]
            /\ UNCHANGED gRequests
        BY <1>3, <3>2 DEF TakeRequest
      <4>2. IsPath(State, Head(gRequests).target, Steps[State][Head(gRequests).target])
        BY <2>2, <2>3, <4>1, StepsAssumption
      <4>3. QED
        BY <2>1, <2>3, <4>1, <4>2 DEF OnPath, Cur, State
    <3>3. QED
      BY <3>1, <3>2
  <2>7. Passing'
    BY <1>1, <2>1 DEF Passing
  <2>8. CallOK' /\ JobsOK' /\ RecordsOK'
    BY <1>1, <2>1 DEF CallOK, JobsOK, RecordsOK, JobOK, Mine, Loaded, Known
  <2>9. ContextsOK'
    <3>1. \A k \in DOMAIN gRequests' : \E m \in DOMAIN gRequests : gRequests'[k] = gRequests[m]
      <4>1. CASE UNCHANGED gRequests
        BY <4>1
      <4>2. CASE gRequests' = Tail(gRequests)
        BY <2>1, <4>2, TailElements
      <4>3. QED
        BY <2>4, <4>1, <4>2
    <3>2. QED
      BY <1>1, <2>1, <3>1 DEF ContextsOK, Spawning, Adding
  <2>10. QED
    BY <1>2, <2>5, <2>6, <2>7, <2>8, <2>9 DEF Base
<1>4. CASE AskRuntime
  <2>1. /\ Busy /\ worker' = [worker EXCEPT !.pc = "wait"] /\ worker'.pc = "wait" /\ worker'.path = worker.path
        /\ Head(worker.path) \in {"INITIALIZING", "TERMINATING"}
        /\ UNCHANGED <<context, gRequests, signalled, event, lastInstance, mAppInfo, call>>
    BY <1>1, <1>4 DEF AskRuntime, Busy, appVars, TypeOK, ServiceTypeOK
  <2>2. PICK a : a = Cur
    OBVIOUS
  <2>3. /\ a \in DOMAIN context /\ a \in Apps /\ context[a].inst \in Nat
        /\ context[a].state \in LifecycleStates
        /\ <<context[a].state, Head(worker.path)>> \in Edges
    BY <1>1, <2>1, <2>2, Working, ContextTypes DEF State
  <2>4. context[a].inst # 0 /\ context[a].inst <= lastInstance
    <3>1. context[a].state # "UNLOADED"
      BY <2>1, <2>3 DEF Edges
    <3>2. QED
      BY <1>1, <2>3, <3>1 DEF ContextsOK
  <2>5. OnPath' /\ Passing' /\ RequestsOK' /\ CallOK' /\ ContextsOK' /\ RecordsOK'
    BY <1>1, <2>1 DEF OnPath, Passing, RequestsOK, CallOK, ContextsOK, RecordsOK,
                      Busy, Cur, State, Adding, Spawning, Loaded, Known
  <2>6. PICK e, f : /\ e = StateChange(a, context[a].inst, context[a].state, "TERMINATING")
                    /\ f = Signal(a)
    OBVIOUS
  <2>7. e \in JobType /\ f \in JobType
    BY <2>3, <2>6 DEF StateChange, Signal, JobType, LifecycleStates
  <2>8. PICK r \in Seq(JobType) : lmJobs' = lmJobs \o r /\ \A k \in DOMAIN r : r[k] \in {e, f}
    <3>1. PICK r1, r2 : /\ r1 = IF Head(worker.path) = "TERMINATING" THEN <<e>> ELSE <<>>
                        /\ r2 = <<f>>
      OBVIOUS
    <3>2. lmJobs' = (lmJobs \o r1) \o r2
      BY <1>4, <2>2, <2>6, <3>1 DEF AskRuntime, Changed, State
    <3>3. r1 \in Seq(JobType) /\ r2 \in Seq(JobType) /\ lmJobs \in Seq(JobType)
      BY <1>1, <2>7, <3>1 DEF TypeOK, ServiceTypeOK
    <3>4. (lmJobs \o r1) \o r2 = lmJobs \o (r1 \o r2)
      BY <3>3, ConcatAssociative
    <3>5. /\ r1 \o r2 \in Seq(JobType)
          /\ \A k \in DOMAIN (r1 \o r2) :
                \/ k \in DOMAIN r1 /\ (r1 \o r2)[k] = r1[k]
                \/ k - Len(r1) \in DOMAIN r2 /\ (r1 \o r2)[k] = r2[k - Len(r1)]
      <4>1. PICK b : b = r1 \o r2
        OBVIOUS
      <4>2. b \in Seq(JobType)
        BY <3>3, <4>1, BothParts
      <4>3. \A k \in DOMAIN b : \/ k \in DOMAIN r1 /\ b[k] = r1[k]
                                \/ k - Len(r1) \in DOMAIN r2 /\ b[k] = r2[k - Len(r1)]
        BY <3>3, <4>1, BothParts
      <4>4. QED
        BY <4>1, <4>2, <4>3
    <3>6. /\ \A k \in DOMAIN r1 : r1[k] = e
          /\ \A k \in DOMAIN r2 : r2[k] = f
      <4>1. \A x, q : q = <<x>> => \A k \in DOMAIN q : q[k] = x
        OBVIOUS
      <4>2. \A q : q = <<>> => \A k \in DOMAIN q : q[k] = e
        OBVIOUS
      <4>3. QED
        BY <3>1, <4>1, <4>2
    <3>7. \A k \in DOMAIN (r1 \o r2) : (r1 \o r2)[k] \in {e, f}
      BY <3>5, <3>6
    <3>8. QED
      BY <3>2, <3>4, <3>5, <3>7
  <2>9. JobsOK'
    <3>1. \A j \in JobType : JobOK(j) => JobOK(j)'
      BY <2>1 DEF JobOK, Mine
    <3>2. JobOK(e)' /\ JobOK(f)'
      BY <2>1, <2>4, <2>6 DEF JobOK, StateChange, Signal, Ends, Mine
    <3>3. \A k \in DOMAIN r : JobOK(r[k])'
      BY <2>8, <3>2
    <3>4. QED
      BY <1>1, <2>8, <3>1, <3>3, JobsStay
  <2>10. QED
    BY <1>2, <2>5, <2>9 DEF Base
<1>5. CASE EnterLoading \/ EnterAnswered \/ EnterOther
  <2>1. PICK s, c, r : Entered(s, c, r)
    BY <1>1, <1>5, EntersState
  <2>2. QED
    BY <1>2, <2>1, EnterKeeps DEF Base
<1>6. QED
  BY <1>3, <1>4, <1>5 DEF WorkerNext

-----------------------------------------------------------------------------
(* Jobs, and the steps of calls. *)

LEMMA DispatchKeeps ==
    ASSUME Base, NEW k \in 1..PoolThreads, Dispatch(k), UNCHANGED appVars
    PROVE  Base'
<1>1. TypeOK /\ OnPath /\ Passing /\ RequestsOK /\ CallOK /\ ContextsOK /\ JobsOK /\ RecordsOK
  BY DEF Base
<1>2. TypeOK'
  BY <1>1, DispatchTypes DEF TypeOK, appVars
<1>3. /\ k \in DOMAIN lmJobs /\ lmJobs \in Seq(JobType) /\ lmJobs' = TakeOut(lmJobs, k)
      /\ UNCHANGED <<gRequests, worker, lastInstance, mAppInfo, call>>
      /\ event'.pc # "walk"
  BY <1>1 DEF Dispatch, appVars, TypeOK, ServiceTypeOK, NoEvent
<1>4. JobOK(lmJobs[k]) /\ lmJobs[k] \in JobType
  BY <1>1, <1>3, OneTaken DEF JobsOK
<1>5. /\ DOMAIN context' \subseteq DOMAIN context
      /\ \A b \in DOMAIN context' : context'[b] = context[b]
      /\ \A b \in DOMAIN context : b \notin DOMAIN context' =>
            /\ lmJobs[k].kind = "STATE" /\ Ends(lmJobs[k]) /\ HasInstance(lmJobs[k].app, lmJobs[k].inst)
            /\ b = lmJobs[k].app
  <2>1. CASE UNCHANGED context
    BY <2>1
  <2>2. CASE /\ context' = Without(context, lmJobs[k].app) /\ lmJobs[k].kind = "STATE"
             /\ Ends(lmJobs[k]) /\ HasInstance(lmJobs[k].app, lmJobs[k].inst)
    BY <2>2 DEF Without
  <2>3. QED
    BY <2>1, <2>2 DEF Dispatch
<1>6. ASSUME NEW b \in DOMAIN context, b \notin DOMAIN context'
      PROVE  /\ context[b].unloading /\ ~Adding(b)
             /\ \A m \in DOMAIN gRequests : gRequests[m].app # b
  <2>1. context[b].state = "UNLOADED" /\ context[b].inst # 0
    BY <1>4, <1>5, <1>6 DEF JobOK, Mine, HasInstance, Ends
  <2>2. QED
    BY <1>1, <2>1 DEF ContextsOK
<1>7. OnPath'
  <2>1. Busy => Cur \in DOMAIN context'
    BY <1>1, <1>6, Working
  <2>2. QED
    BY <1>1, <1>3, <1>5, <2>1 DEF OnPath, Busy, Cur, State
<1>8. Passing'
  BY <1>1, <1>3, <1>5 DEF Passing, Busy, Cur
<1>9. RequestsOK'
  BY <1>1, <1>3, <1>5, <1>6 DEF RequestsOK, Adding
<1>10. CallOK'
  <2>1. call.pc \in {"add", "spawned", "waitPause"} => call.app \in DOMAIN context'
    <3>1. call.pc \in {"add", "spawned", "waitPause"} => call.app \in DOMAIN context /\ call # Idle
      BY <1>1 DEF CallOK, Loaded, Idle
    <3>2. QED
      BY <1>1, <1>6, <3>1 DEF CallOK, Loaded, Adding
  <2>2. QED
    BY <1>1, <1>3, <1>5, <2>1 DEF CallOK, Loaded, Known
<1>11. ContextsOK' /\ RecordsOK'
  BY <1>1, <1>3, <1>5 DEF ContextsOK, RecordsOK, Known, Spawning, Adding
<1>12. JobsOK'
  <2> SUFFICES ASSUME NEW m \in DOMAIN lmJobs', NEW j, j = lmJobs'[m]
               PROVE  JobOK(j)'
    BY DEF JobsOK
  <2>1. \E i \in DOMAIN lmJobs : j = lmJobs[i]
    <3>1. /\ m \in Nat \ {0} /\ k \in Nat
          /\ m < k => m \in DOMAIN lmJobs /\ TakeOut(lmJobs, k)[m] = lmJobs[m]
          /\ m >= k => m + 1 \in DOMAIN lmJobs /\ TakeOut(lmJobs, k)[m] = lmJobs[m + 1]
      BY <1>3, OneTaken
    <3>2. m < k \/ m >= k
      BY <3>1
    <3>3. QED
      BY <1>3, <3>1, <3>2
  <2>2. JobOK(j)
    BY <1>1, <2>1 DEF JobsOK
  <2>3. QED
    BY <1>3, <1>5, <2>2 DEF JobOK, Mine
<1>13. QED
  BY <1>2, <1>7, <1>8, <1>9, <1>10, <1>11, <1>12 DEF Base

LEMMA ConnectorKeeps ==
    ASSUME Base, Connector
    PROVE  Base'
<1>1. TypeOK /\ OnPath /\ Passing /\ RequestsOK /\ CallOK /\ ContextsOK /\ JobsOK /\ RecordsOK
  BY DEF Base
<1>2. TypeOK'
  BY <1>1, ConnectorTypes
<1>3. /\ call # Idle /\ call.pc \in {"connect", "waitPause"} /\ ConnectorFree
      /\ UNCHANGED <<gRequests, worker, lmJobs, event, lastInstance>> /\ DOMAIN mAppInfo' = DOMAIN mAppInfo
      /\ Refused \/ SpawnAsked \/ StateAsked \/ EndAsked
  BY <1>1, Connected DEF unchangedByConnect, SameRecords
<1>4. PICK a : a = call.app
  OBVIOUS
<1>5. /\ call' = Idle \/ (call' \in CallType /\ call'.pc = "add" /\ call'.app = a)
      /\ \A b \in DOMAIN context :
            /\ b \in DOMAIN context'
            /\ context'[b].inst = context[b].inst
            /\ context'[b].state = context[b].state
            /\ context'[b].ready = context[b].ready
            /\ context'[b].unloading = context[b].unloading \/ (EndAsked /\ b = a)
      /\ \A b \in DOMAIN context' : b \notin DOMAIN context =>
            SpawnAsked /\ b = a /\ context'[b] = NewContext
      /\ EndAsked => context'[a].unloading
  BY <1>1, <1>3, <1>4, ContextsAfter
<1>6. a \in DOMAIN context => ~context[a].unloading
  BY <1>1, <1>3, <1>4 DEF CallOK, Loaded
<1>7. /\ call' # Idle => a \in DOMAIN context'
      /\ EndAsked => a \in DOMAIN context /\ call'.pc = "add" /\ call'.target = "TERMINATING"
                     /\ call'.then \in {"return", "unlock"}
      /\ StateAsked => a \in DOMAIN context /\ UNCHANGED context /\ call'.pc = "add"
                       /\ call'.target # "TERMINATING" /\ call'.then \notin {"spawned", "unlock"}
      /\ SpawnAsked => /\ call.pc = "connect" /\ call.op \in {"Launch", "Preload"}
                       /\ call'.pc = "add" /\ call'.target # "TERMINATING" /\ call'.then = "spawned"
  <2>1. call \in CallType
    BY <1>1, <1>3, CallTypes
  <2>2. SpawnAsked => a \in DOMAIN context'
    BY <1>4 DEF SpawnAsked, EnsureContext, Loaded, With
  <2>3. EndAsked => a \in DOMAIN context /\ call'.pc = "add" /\ call'.target = "TERMINATING"
                    /\ call'.then \in {"return", "unlock"}
    BY <1>4, <2>1 DEF EndAsked, Named, HasInstance, Loaded, Request, CallType
  <2>4. StateAsked => a \in DOMAIN context /\ UNCHANGED context /\ call'.pc = "add"
                      /\ call'.target # "TERMINATING" /\ call'.then \notin {"spawned", "unlock"}
    BY <1>4, <2>1 DEF StateAsked, Named, HasInstance, Loaded, Request, CallType
  <2>5. SpawnAsked => /\ call.pc = "connect" /\ call.op \in {"Launch", "Preload"}
                      /\ call'.pc = "add" /\ call'.target # "TERMINATING" /\ call'.then = "spawned"
    BY <2>1 DEF SpawnAsked, Request, CallType
  <2>6. Refused => call' = Idle
    BY DEF Refused
  <2>7. QED
    BY <1>3, <1>5, <2>2, <2>3, <2>4, <2>5, <2>6
<1>8. \A b \in DOMAIN context : context[b].inst # 0
  BY <1>1, <1>3 DEF ContextsOK, Spawning
<1>9. NewContext.inst = 0 /\ NewContext.state = "UNLOADED" /\ NewContext.unloading = FALSE
      /\ NewContext.ready = FALSE
  BY DEF NewContext
<1>10. OnPath'
  <2>1. Busy => Cur \in DOMAIN context' /\ context'[Cur].state = context[Cur].state
    BY <1>1, <1>5, Working
  <2>2. QED
    BY <1>1, <1>3, <2>1 DEF OnPath, Busy, Cur, State
<1>11. Passing'
  BY <1>1, <1>3, <1>5, <1>9 DEF Passing, Busy, Cur
<1>12. \A b \in DOMAIN context : context[b].unloading => context'[b].unloading /\ ~Adding(b)'
  <2>1. ASSUME NEW b \in DOMAIN context, context[b].unloading
        PROVE  context'[b].unloading /\ b # a
    BY <1>5, <1>6, <2>1
  <2>2. \A b : Adding(b)' => b = a
    BY <1>5 DEF Adding, Idle
  <2>3. QED
    BY <2>1, <2>2
<1>13. RequestsOK'
  <2>1. \A m \in DOMAIN gRequests : gRequests[m].app \in DOMAIN context'
    BY <1>1, <1>5 DEF RequestsOK
  <2>2. ASSUME NEW m \in DOMAIN gRequests, gRequests[m].target = "TERMINATING", NEW b, b = gRequests[m].app
        PROVE  context'[b].unloading /\ ~Adding(b)'
    <3>1. b \in DOMAIN context /\ context[b].unloading
      BY <1>1, <2>2 DEF RequestsOK
    <3>2. QED
      BY <3>1, <1>12
  <2>3. QED
    BY <1>1, <1>3, <2>1, <2>2 DEF RequestsOK, Adding
<1>14. CallOK'
  <2>1. CASE call' = Idle
    BY <2>1 DEF CallOK, Idle
  <2>2. CASE call' # Idle
    <3>1. call'.pc = "add" /\ call'.app = a /\ a \in DOMAIN context'
      BY <1>5, <1>7, <2>2
    <3>2. context'[a].unloading <=> call'.target = "TERMINATING"
      <4>1. CASE EndAsked
        BY <1>5, <1>7, <4>1
      <4>2. CASE SpawnAsked
        <5>1. ~EndAsked
          BY <1>7, <4>2
        <5>2. CASE a \in DOMAIN context
          BY <1>5, <1>6, <1>7, <4>2, <5>1, <5>2
        <5>3. CASE a \notin DOMAIN context
          BY <1>5, <1>7, <1>9, <3>1, <4>2, <5>3
        <5>4. QED
          BY <5>2, <5>3
      <4>3. CASE StateAsked
        BY <1>6, <1>7, <4>3
      <4>4. QED
        BY <1>3, <2>2, <4>1, <4>2, <4>3 DEF Refused
    <3>3. event'.pc # "walk"
      BY <1>3 DEF ConnectorFree
    <3>4. call'.then = "spawned" => a \in DOMAIN mAppInfo'
      <4>1. call'.then = "spawned" => SpawnAsked
        BY <1>3, <1>7, <2>2 DEF Refused
      <4>2. SpawnAsked => Known(a)
        BY <1>1, <1>4, <1>7 DEF CallOK
      <4>3. QED
        BY <1>3, <4>1, <4>2 DEF Known
    <3>5. /\ call'.target = "TERMINATING" => call'.then \in {"return", "unlock"}
          /\ call'.then = "unlock" => call'.target = "TERMINATING"
      BY <1>3, <1>7, <2>2 DEF Refused
    <3>6. QED
      BY <3>1, <3>2, <3>3, <3>4, <3>5 DEF CallOK, Loaded, Known
  <2>3. QED
    BY <2>1, <2>2
<1>15. ContextsOK'
  <2>1. ASSUME NEW b \in DOMAIN context
        PROVE  /\ context'[b].ready <=> context'[b].inst # 0
               /\ context'[b].inst <= lastInstance' /\ context'[b].inst # 0
               /\ context'[b].state = "UNLOADED" =>
                     /\ context'[b].unloading /\ ~Adding(b)'
                     /\ \A m \in DOMAIN gRequests' : gRequests'[m].app # b
    BY <1>1, <1>3, <1>5, <1>8, <1>12 DEF ContextsOK
  <2>2. ASSUME NEW b \in DOMAIN context', b \notin DOMAIN context
        PROVE  /\ context'[b] = NewContext /\ Spawning(b)'
    BY <1>5, <1>7, <2>2 DEF Spawning, Idle
  <2>3. lastInstance' \in Nat
    BY <1>2 DEF TypeOK, ServiceTypeOK
  <2>4. QED
    BY <1>9, <2>1, <2>2, <2>3 DEF ContextsOK
<1>16. JobsOK'
  BY <1>1, <1>3, <1>5, <1>9 DEF JobsOK, JobOK, Mine
<1>17. RecordsOK'
  <2>1. SpawnAsked => Known(a)
    BY <1>1, <1>4, <1>7 DEF CallOK
  <2>2. QED
    BY <1>1, <1>3, <1>5, <2>1 DEF RecordsOK, Known
<1>18. QED
  BY <1>2, <1>10, <1>11, <1>13, <1>14, <1>15, <1>16, <1>17 DEF Base

LEMMA AddKeeps ==
    ASSUME Base, AddRequest
    PROVE  Base'
<1>1. TypeOK /\ OnPath /\ Passing /\ RequestsOK /\ CallOK /\ ContextsOK /\ JobsOK /\ RecordsOK
  BY DEF Base
<1>2. TypeOK'
  BY <1>1, CallGoesOnTypes DEF CallGoesOn
<1>3. /\ call.pc = "add" /\ call # Idle /\ ~Busy /\ UNCHANGED <<context, worker, lmJobs, event, lastInstance, mAppInfo>>
      /\ gRequests' = Append(gRequests, [app |-> call.app, target |-> call.target])
      /\ gRequests \in Seq([app : Apps, target : LifecycleStates])
  BY <1>1 DEF AddRequest, Add, MutexFree, Busy, Idle, TypeOK, ServiceTypeOK
<1>4. PICK a, g : a = call.app /\ g = call.target
  OBVIOUS
<1>5. /\ a \in Apps /\ g \in LifecycleStates /\ a \in DOMAIN context
      /\ call.then \in {"return", "spawned", "unlock", "waitPause", "hibernate"}
      /\ context[a].unloading <=> g = "TERMINATING"
      /\ g = "TERMINATING" => call.then \in {"return", "unlock"}
      /\ call.then = "unlock" => g = "TERMINATING"
      /\ call.then = "spawned" => Known(a)
  BY <1>1, <1>3, <1>4, CallTypes DEF CallOK, Loaded
<1>6. \/ call.then = "return" /\ call' = Idle
      \/ call.then = "hibernate" /\ call' = [call EXCEPT !.target = "HIBERNATED", !.then = "return"]
      \/ call.then \notin {"return", "hibernate"} /\ call' = [call EXCEPT !.pc = call.then]
  BY <1>3 DEF AddRequest
<1>7. \/ call.then = "return" /\ call' = Idle
      \/ /\ call' # Idle /\ call'.app = a
         /\ \/ call.then = "hibernate" /\ call'.pc = "add" /\ call'.target = "HIBERNATED" /\ call'.then = "return"
            \/ call.then \in {"spawned", "unlock", "waitPause"} /\ call'.pc = call.then
  <2>1. call \in CallType
    BY <1>1, <1>3, CallTypes
  <2>2. \A c \in CallType :
            /\ [c EXCEPT !.target = "HIBERNATED", !.then = "return"].app = c.app
            /\ [c EXCEPT !.target = "HIBERNATED", !.then = "return"].pc = c.pc
            /\ [c EXCEPT !.target = "HIBERNATED", !.then = "return"].target = "HIBERNATED"
            /\ [c EXCEPT !.target = "HIBERNATED", !.then = "return"].then = "return"
            /\ [c EXCEPT !.pc = c.then].app = c.app
            /\ [c EXCEPT !.pc = c.then].pc = c.then
    BY DEF CallType
  <2>3. QED
    <3>1. Idle.pc = "idle"
      BY DEF Idle
    <3>2. CASE call.then = "return"
      BY <1>6, <3>2
    <3>3. CASE call.then = "hibernate"
      <4>1. call' = [call EXCEPT !.target = "HIBERNATED", !.then = "return"]
        BY <1>6, <3>3
      <4>2. /\ call'.app = a /\ call'.pc = "add"
            /\ call'.target = "HIBERNATED" /\ call'.then = "return"
        BY <1>3, <1>4, <2>1, <2>2, <4>1
      <4>3. QED
        BY <3>1, <3>3, <4>2
    <3>4. CASE call.then \in {"spawned", "unlock", "waitPause"}
      <4>1. call' = [call EXCEPT !.pc = call.then]
        BY <1>6, <3>4
      <4>2. call'.app = a /\ call'.pc = call.then
        BY <1>4, <2>1, <2>2, <4>1
      <4>3. QED
        BY <3>1, <3>4, <4>2
    <3>5. QED
      BY <1>5, <3>2, <3>3, <3>4
<1>8. /\ DOMAIN gRequests = 1..Len(gRequests) /\ Len(gRequests) \in Nat
      /\ DOMAIN gRequests' = 1..(Len(gRequests) + 1)
      /\ \A k \in DOMAIN gRequests : gRequests'[k] = gRequests[k]
      /\ gRequests'[Len(gRequests) + 1].app = a /\ gRequests'[Len(gRequests) + 1].target = g
  <2>1. [app |-> a, target |-> g] \in [app : Apps, target : LifecycleStates]
    BY <1>5
  <2>2. PICK e \in [app : Apps, target : LifecycleStates] : e = [app |-> a, target |-> g]
    BY <2>1
  <2>3. /\ Append(gRequests, e) \in Seq([app : Apps, target : LifecycleStates])
        /\ Len(Append(gRequests, e)) = Len(gRequests) + 1
        /\ \A i \in 1..Len(gRequests) : Append(gRequests, e)[i] = gRequests[i]
        /\ Append(gRequests, e)[Len(gRequests) + 1] = e
    BY <1>3, AppendProperties
  <2>4. gRequests' = Append(gRequests, e)
    BY <1>3, <1>4, <2>2
  <2>5. DOMAIN gRequests = 1..Len(gRequests) /\ Len(gRequests) \in Nat
    BY <1>3, LenProperties
  <2>6. DOMAIN gRequests' = 1..(Len(gRequests) + 1)
    BY <2>3, <2>4, LenProperties
  <2>7. QED
    BY <2>2, <2>3, <2>4, <2>5, <2>6
<1>9. OnPath' /\ Passing' /\ JobsOK' /\ RecordsOK'
  BY <1>1, <1>3 DEF OnPath, Passing, JobsOK, RecordsOK, JobOK, Mine, Busy, Cur, Known
<1>10. \A b : Adding(b)' => b = a /\ call.then = "hibernate"
  BY <1>7 DEF Adding, Idle
<1>11. RequestsOK'
  <2>1. ASSUME NEW k \in DOMAIN gRequests'
        PROVE  \/ k \in DOMAIN gRequests /\ gRequests'[k] = gRequests[k] /\ k <= Len(gRequests)
               \/ k = Len(gRequests) + 1 /\ gRequests'[k].app = a /\ gRequests'[k].target = g
    BY <1>8
  <2>2. ASSUME NEW k \in DOMAIN gRequests', NEW b, b = gRequests'[k].app
        PROVE  /\ b \in DOMAIN context'
               /\ gRequests'[k].target = "TERMINATING" => context'[b].unloading /\ ~Adding(b)'
    <3>1. CASE k \in DOMAIN gRequests /\ gRequests'[k] = gRequests[k]
      <4>1. /\ b \in DOMAIN context
            /\ gRequests[k].target = "TERMINATING" => context[b].unloading /\ ~Adding(b)
        BY <1>1, <2>2, <3>1 DEF RequestsOK
      <4>2. Adding(b)' => Adding(b)
        BY <1>3, <1>4, <1>10 DEF Adding
      <4>3. QED
        BY <1>3, <3>1, <4>1, <4>2
    <3>2. CASE gRequests'[k].app = a /\ gRequests'[k].target = g
      BY <1>3, <1>5, <1>10, <2>2, <3>2
    <3>3. QED
      BY <2>1, <3>1, <3>2
  <2>3. ASSUME NEW k \in DOMAIN gRequests', NEW m \in DOMAIN gRequests',
               k < m, gRequests'[k].app = gRequests'[m].app
        PROVE  gRequests'[k].target # "TERMINATING"
    <3>1. k \in DOMAIN gRequests /\ gRequests'[k] = gRequests[k]
      BY <1>8, <2>1, <2>3
    <3>2. CASE m \in DOMAIN gRequests /\ gRequests'[m] = gRequests[m]
      BY <1>1, <2>3, <3>1, <3>2 DEF RequestsOK
    <3>3. CASE gRequests'[m].app = a
      BY <1>1, <1>3, <1>4, <2>3, <3>1, <3>3 DEF RequestsOK, Adding
    <3>4. QED
      BY <2>1, <3>2, <3>3
  <2>4. QED
    BY <2>2, <2>3 DEF RequestsOK
<1>12. CallOK'
  <2>1. call.pc \in {"add", "spawned"} => event.pc # "walk"
    BY <1>1 DEF CallOK
  <2>2. QED
    BY <1>3, <1>5, <1>7, <2>1 DEF CallOK, Loaded, Known, Idle
<1>13. ContextsOK'
  <2>1. ASSUME NEW b \in DOMAIN context
        PROVE  /\ Spawning(b) => Spawning(b)'
               /\ context[b].state = "UNLOADED" /\ context[b].inst # 0 =>
                     ~Adding(b)' /\ \A k \in DOMAIN gRequests' : gRequests'[k].app # b
    <3>1. Spawning(b) => Spawning(b)'
      BY <1>3, <1>4, <1>7 DEF Spawning
    <3>2. ASSUME context[b].state = "UNLOADED", context[b].inst # 0
          PROVE  ~Adding(b)' /\ \A k \in DOMAIN gRequests' : gRequests'[k].app # b
      <4>1. b # a /\ \A k \in DOMAIN gRequests : gRequests[k].app # b
        BY <1>1, <1>3, <1>4, <3>2 DEF ContextsOK, Adding
      <4>2. QED
        BY <1>8, <1>10, <4>1
    <3>3. QED
      BY <3>1, <3>2
  <2>2. QED
    BY <1>1, <1>3, <2>1 DEF ContextsOK
<1>14. QED
  BY <1>2, <1>9, <1>11, <1>12, <1>13 DEF Base

\* Steps that leave LifecycleManager alone but for the lock of the connector.
LEMMA ServiceStays ==
    ASSUME Base, UNCHANGED <<context, gRequests, worker, lmJobs, lastInstance>>,
           CallOK', RecordsOK', TypeOK',
           \A a : Adding(a)' => Adding(a),
           \A a \in DOMAIN context : context[a].inst = 0 => (Spawning(a) => Spawning(a)')
    PROVE  Base'
<1>1. OnPath /\ Passing /\ RequestsOK /\ ContextsOK /\ JobsOK
  BY DEF Base
<1>2. OnPath' /\ Passing' /\ JobsOK'
  BY <1>1 DEF OnPath, Passing, JobsOK, JobOK, Mine, Busy, Cur, State
<1>3. RequestsOK'
  <2>1. \A k \in DOMAIN gRequests : Adding(gRequests[k].app)' => Adding(gRequests[k].app)
    BY DEF Adding
  <2>2. QED
    BY <1>1, <2>1 DEF RequestsOK
<1>4. ContextsOK'
  BY <1>1 DEF ContextsOK
<1>5. QED
  BY <1>2, <1>3, <1>4 DEF Base

LEMMA CallKeeps ==
    ASSUME Base, IsAppLoaded \/ PackageLock \/ getLoadedApps \/ SpawnReturn \/ PackageUnLock
    PROVE  Base'
<1>1. TypeOK /\ OnPath /\ Passing /\ RequestsOK /\ CallOK /\ ContextsOK /\ JobsOK /\ RecordsOK
  BY DEF Base
<1>2. TypeOK'
  BY <1>1, CallGoesOnTypes DEF CallGoesOn
<1>3. call # Idle /\ call \in CallType
  <2>1. call # Idle
    <3>1. call.pc \in {"isLoaded", "package", "connect", "spawned", "unlock"}
      BY DEF IsAppLoaded, PackageLock, getLoadedApps, Connect, SpawnReturn, PackageUnLock
    <3>2. Idle.pc = "idle"
      BY DEF Idle
    <3>3. QED
      BY <3>1, <3>2
  <2>2. QED
    BY <1>1, <2>1, CallTypes
<1>4. UNCHANGED <<context, gRequests, worker, lmJobs, event, lastInstance>>
  BY DEF IsAppLoaded, PackageLock, getLoadedApps, SpawnReturn, PackageUnLock, serviceVars, unchangedByConnect
<1>5. Idle.pc = "idle"
  BY DEF Idle
<1>6. CASE IsAppLoaded
  <2>1. /\ call.pc = "isLoaded" /\ call'.pc = "package" /\ call'.app = call.app /\ UNCHANGED mAppInfo
    <3>1. \A b : \A c \in CallType : /\ [c EXCEPT !.pc = "package", !.loaded = b].pc = "package"
                                       /\ [c EXCEPT !.pc = "package", !.loaded = b].app = c.app
      BY DEF CallType
    <3>2. QED
      BY <1>3, <1>6, <3>1 DEF IsAppLoaded
  <2>2. CallOK' /\ RecordsOK'
    BY <1>1, <1>3, <1>4, <2>1 DEF CallOK, RecordsOK, Loaded, Known
  <2>3. QED
    BY <1>2, <1>4, <2>1, <2>2, ServiceStays DEF Adding, Spawning
<1>7. CASE PackageLock
  <2>1. call.pc = "package" /\ DOMAIN mAppInfo \subseteq DOMAIN mAppInfo'
    BY <1>7 DEF PackageLock, WithPackage, SetInfo, With
  <2>2. \/ call' = Idle
        \/ call'.pc = "connect" /\ call'.app = call.app /\ call.app \in DOMAIN mAppInfo'
    <3>1. CASE SkipLock
      BY <1>3, <1>7, <3>1 DEF PackageLock, SkipLock, InState, Known, CallType
    <3>2. CASE ~SkipLock
      BY <1>3, <1>7, <3>2 DEF PackageLock, WithPackage, SetInfo, With, CallType
    <3>3. QED
      BY <3>1, <3>2
  <2>3. CallOK' /\ RecordsOK'
    BY <1>1, <1>3, <1>4, <1>5, <2>1, <2>2 DEF CallOK, RecordsOK, Loaded, Known
  <2>4. QED
    BY <1>2, <1>4, <1>5, <2>1, <2>2, <2>3, ServiceStays DEF Adding, Spawning
<1>8. CASE getLoadedApps
  <2>1. call.pc = "connect" /\ call' = Idle /\ DOMAIN context \subseteq DOMAIN mAppInfo'
    BY <1>8 DEF getLoadedApps, Connect
  <2>2. CallOK' /\ RecordsOK'
    BY <1>4, <1>5, <2>1 DEF CallOK, RecordsOK, Loaded, Known
  <2>3. QED
    BY <1>2, <1>4, <1>5, <2>1, <2>2, ServiceStays DEF Adding, Spawning
<1>9. CASE SpawnReturn
  <2>1. /\ call.pc = "spawned" /\ context[call.app].ready /\ call' = Idle
        /\ DOMAIN mAppInfo \subseteq DOMAIN mAppInfo'
    BY <1>9 DEF SpawnReturn, StoreInstance, SetInfo, With
  <2>2. CallOK' /\ RecordsOK'
    BY <1>1, <1>4, <1>5, <2>1 DEF CallOK, RecordsOK, Loaded, Known
  <2>3. ASSUME NEW a \in DOMAIN context, context[a].inst = 0, Spawning(a)
        PROVE  FALSE
    BY <1>1, <2>1, <2>3 DEF ContextsOK, Spawning
  <2>4. QED
    BY <1>2, <1>4, <1>5, <2>1, <2>2, <2>3, ServiceStays DEF Adding
<1>10. CASE PackageUnLock
  <2>1. call.pc = "unlock" /\ call' = Idle /\ \A a \in DOMAIN mAppInfo : a # call.app => a \in DOMAIN mAppInfo'
    BY <1>10 DEF PackageUnLock, Without
  <2>2. CallOK' /\ RecordsOK'
    BY <1>1, <1>3, <1>4, <1>5, <2>1 DEF CallOK, RecordsOK, Loaded, Known
  <2>3. QED
    BY <1>2, <1>4, <1>5, <2>1, <2>2, ServiceStays DEF Adding, Spawning
<1>11. QED
  BY <1>6, <1>7, <1>8, <1>9, <1>10

LEMMA OtherKeeps ==
    ASSUME Base,
           \/ \E op \in Calls, a \in Apps : Begin(op, a)
           \/ Handler
           \/ \E k \in 1..PoolThreads : Tell(k)
    PROVE  Base'
<1>1. TypeOK /\ OnPath /\ Passing /\ RequestsOK /\ CallOK /\ ContextsOK /\ JobsOK /\ RecordsOK
  BY DEF Base
<1>2. TypeOK'
  BY <1>1, OtherTypes
<1>3. Idle.pc = "idle" /\ NoEvent.pc = "none"
  BY DEF Idle, NoEvent
<1>4. ASSUME NEW op \in Calls, NEW a \in Apps, Begin(op, a)
      PROVE  Base'
  <2>1. /\ call = Idle /\ UNCHANGED <<context, gRequests, worker, lmJobs, event, lastInstance, mAppInfo>>
        /\ call'.pc = IF op \in {"Launch", "Preload"} THEN "isLoaded" ELSE "connect"
        /\ call'.op = op /\ call'.app = a /\ ~(Loaded(a) /\ context[a].unloading)
    BY <1>4 DEF Begin, serviceVars, May
  <2>2. CallOK' /\ RecordsOK'
    BY <1>1, <2>1 DEF CallOK, RecordsOK, Loaded, Known
  <2>3. QED
    BY <1>2, <1>3, <2>1, <2>2, ServiceStays DEF Adding, Spawning
<1>5. CASE HandlerLocks
  <2>1. /\ UNCHANGED <<context, gRequests, worker, lmJobs, lastInstance, mAppInfo, call>>
        /\ call.pc \notin {"add", "spawned"}
    BY <1>5 DEF HandlerLocks, ConnectorFree
  <2>2. CallOK' /\ RecordsOK'
    BY <1>1, <2>1 DEF CallOK, RecordsOK, Loaded, Known
  <2>3. QED
    BY <1>2, <2>1, <2>2, ServiceStays DEF Adding, Spawning
<1>6. CASE OnAppLifecycleStateChanged
  <2>1. /\ UNCHANGED <<context, gRequests, worker, lmJobs, lastInstance, call>>
        /\ event' = NoEvent /\ DOMAIN mAppInfo' = DOMAIN mAppInfo
    BY <1>6 DEF OnAppLifecycleStateChanged
  <2>2. CallOK' /\ RecordsOK'
    BY <1>1, <1>3, <2>1 DEF CallOK, RecordsOK, Loaded, Known
  <2>3. QED
    BY <1>2, <2>1, <2>2, ServiceStays DEF Adding, Spawning
<1>7. ASSUME NEW k \in 1..PoolThreads, Tell(k)
      PROVE  Base'
  <2>1. UNCHANGED <<context, gRequests, worker, lmJobs, event, lastInstance, mAppInfo, call>>
    BY <1>7 DEF Tell, serviceVars
  <2>2. CallOK' /\ RecordsOK'
    BY <1>1, <2>1 DEF CallOK, RecordsOK, Loaded, Known
  <2>3. QED
    BY <1>2, <2>1, <2>2, ServiceStays DEF Adding, Spawning
<1>8. QED
  BY <1>4, <1>5, <1>6, <1>7 DEF Handler

LEMMA StutterKeeps ==
    ASSUME Base, UNCHANGED vars
    PROVE  Base'
BY DEF Base, TypeOK, ServiceTypeOK, OnPath, Passing, RequestsOK, CallOK, ContextsOK, JobsOK, RecordsOK,
       JobOK, Mine, Busy, Cur, State, Adding, Spawning, Loaded, Known, vars, serviceVars

LEMMA InitBase == Init => Base
<1> SUFFICES ASSUME Init PROVE Base
  OBVIOUS
<1>1. /\ DOMAIN context = {} /\ gRequests = <<>> /\ worker = [pc |-> "asleep", path |-> <<>>]
      /\ signalled = {} /\ lmJobs = <<>> /\ event = NoEvent /\ lastInstance = 0
      /\ DOMAIN mAppInfo = {} /\ call = Idle /\ amJobs = <<>>
      /\ context = <<>> /\ mAppInfo = <<>>
      /\ locks = [a \in Apps |-> 0] /\ told = [a \in Apps |-> "UNKNOWN"] /\ calls = 0
  BY DEF Init, ServiceInit
<1>2. TypeOK
  <2>1. context \in [DOMAIN context -> ContextType] /\ mAppInfo \in [DOMAIN mAppInfo -> InfoType]
    BY <1>1
  <2>2. QED
    BY <1>1, <2>1 DEF TypeOK, ServiceTypeOK, AppStates
<1>3. DOMAIN gRequests = {} /\ DOMAIN lmJobs = {}
  BY <1>1
<1>4. QED
  BY <1>1, <1>2, <1>3 DEF Base, OnPath, Passing, RequestsOK, CallOK, ContextsOK, JobsOK, RecordsOK,
                          Busy, Idle, NoEvent

LEMMA NextBase == Base /\ [Next]_vars => Base'
<1> SUFFICES ASSUME Base, [Next]_vars PROVE Base'
  OBVIOUS
<1>1. CASE CallGoesOn
  BY <1>1, ConnectorKeeps, AddKeeps, CallKeeps DEF CallGoesOn, Connector
<1>2. CASE ServiceNext /\ UNCHANGED appVars
  BY <1>2, WorkerKeeps, DispatchKeeps DEF ServiceNext
<1>3. CASE UNCHANGED vars
  BY <1>3, StutterKeeps
<1>4. QED
  BY <1>1, <1>2, <1>3, OtherKeeps DEF Next, Rest

LEMMA BaseAlways == Spec => []Base
BY InitBase, NextBase, PTL DEF Spec

\* Every variable of AppManager and of the service keeps its type.
THEOREM TypeCorrect == Spec => []TypeOK
<1>1. Base => TypeOK
  BY DEF Base
<1>2. QED
  BY <1>1, BaseAlways, PTL
-----------------------------------------------------------------------------
(* No news is lost. *)

LEMMA AgreesStays ==
    ASSUME Base, UNCHANGED <<worker, gRequests>>,
           NEW a \in DOMAIN context, context'[a].state = context[a].state, NEW s
    PROVE  Agrees(s, a)' <=> Agrees(s, a)
BY DEF Agrees, Ending, Busy, Cur

\* Steps that leave the jobs, the event and the transition thread alone.
LEMMA NewsStay ==
    ASSUME Base, News, UNCHANGED <<lmJobs, event, worker, gRequests>>, SameInstance',
           \A a \in DOMAIN context :
              /\ a \in DOMAIN context'
              /\ context'[a].inst = context[a].inst
              /\ context'[a].state = context[a].state,
           \A a \in DOMAIN context' : a \notin DOMAIN context => context'[a].inst = 0,
           \A a \in DOMAIN context : a \in DOMAIN mAppInfo' =>
              \/ /\ a \in DOMAIN mAppInfo /\ mAppInfo'[a].new = mAppInfo[a].new
                 /\ mAppInfo'[a].inst \in {mAppInfo[a].inst, context[a].inst}
              \/ mAppInfo'[a].inst = context[a].inst /\ mAppInfo'[a].new = context[a].state
    PROVE  News'
<1>1. ASSUME NEW a \in DOMAIN context', context'[a].inst # 0
      PROVE  NewsOf(a)'
  <2>1. /\ a \in DOMAIN context /\ context'[a].inst = context[a].inst
        /\ context'[a].state = context[a].state /\ NewsOf(a)
    BY <1>1 DEF News
  <2>2. \A j : Mine(j, a)' <=> Mine(j, a)
    BY <2>1 DEF Mine
  <2>3. \A s : Agrees(s, a)' <=> Agrees(s, a)
    BY <2>1, AgreesStays
  <2>4. \A k : NoneAfter(k, a)' <=> NoneAfter(k, a)
    BY <2>2 DEF NoneAfter
  <2>5. InHand(a)' <=> InHand(a)
    BY <2>2 DEF InHand
  <2>6. ASSUME NEW k \in DOMAIN lmJobs', Mine(lmJobs[k], a)', NoneAfter(k, a)'
        PROVE  Agrees(lmJobs[k].new, a)'
    <3>1. PICK s : s = lmJobs[k].new
      OBVIOUS
    <3>2. Agrees(s, a)
      BY <2>1, <2>2, <2>4, <2>6, <3>1 DEF NewsOf
    <3>3. QED
      BY <2>3, <3>1, <3>2 DEF Agrees
  <2>7. ASSUME NoneAfter(0, a)', InHand(a)'
        PROVE  Agrees(event.job.new, a)'
    <3>1. PICK s : s = event.job.new
      OBVIOUS
    <3>2. Agrees(s, a)
      BY <2>1, <2>4, <2>5, <2>7, <3>1 DEF NewsOf
    <3>3. QED
      BY <2>3, <3>1, <3>2 DEF Agrees
  <2>8. ASSUME NoneAfter(0, a)', ~InHand(a)', Known(a)'
        PROVE  mAppInfo'[a].inst = context'[a].inst /\ Agrees(mAppInfo[a].new, a)'
    <3>1. PICK s : s = mAppInfo'[a].new
      OBVIOUS
    <3>2. CASE mAppInfo'[a].inst = context[a].inst /\ mAppInfo'[a].new = context[a].state
      BY <2>1, <3>2 DEF Agrees
    <3>3. CASE /\ a \in DOMAIN mAppInfo /\ mAppInfo'[a].new = mAppInfo[a].new
               /\ mAppInfo'[a].inst \in {mAppInfo[a].inst, context[a].inst}
      <4>1. mAppInfo[a].inst = context[a].inst /\ Agrees(s, a)
        BY <2>1, <2>4, <2>5, <2>8, <3>1, <3>3 DEF NewsOf, Known
      <4>2. Agrees(s, a)'
        BY <2>3, <4>1
      <4>3. QED
        BY <2>1, <3>1, <3>3, <4>1, <4>2 DEF Agrees
    <3>4. QED
      BY <2>1, <2>8, <3>2, <3>3 DEF Known
  <2>9. QED
    BY <2>6, <2>7, <2>8 DEF NewsOf
<1>2. Telling'
  BY DEF News, Telling
<1>3. QED
  BY <1>1, <1>2 DEF News
LEMMA NotSpawning ==
    ASSUME Base, News, NEW a \in DOMAIN context, call.pc \notin {"add", "spawned"}
    PROVE  context[a].inst # 0 /\ (Known(a) => mAppInfo[a].inst = context[a].inst)
<1>1. ~Spawning(a)
  BY DEF Spawning
<1>2. QED
  BY <1>1 DEF Base, ContextsOK, News, SameInstance

LEMMA NewsOfCalls ==
    ASSUME Base, News, CallGoesOn
    PROVE  News'
<1>1. TypeOK /\ CallOK /\ ContextsOK /\ RecordsOK
  BY DEF Base
<1>2. Idle.pc = "idle"
  BY DEF Idle
<1>3. CASE Connector
  <2>1. /\ call # Idle /\ call.pc \in {"connect", "waitPause"}
        /\ UNCHANGED <<gRequests, worker, lmJobs, event>> /\ SameRecords
        /\ Refused \/ SpawnAsked \/ StateAsked \/ EndAsked
    BY <1>1, <1>3, Connected DEF unchangedByConnect
  <2>2. PICK a : a = call.app
    OBVIOUS
  <2>3. /\ \A b \in DOMAIN context :
              /\ b \in DOMAIN context'
              /\ context'[b].inst = context[b].inst
              /\ context'[b].state = context[b].state
        /\ \A b \in DOMAIN context' : b \notin DOMAIN context =>
              SpawnAsked /\ b = a /\ context'[b].inst = 0
    BY <1>1, <2>1, <2>2, ContextsAfter DEF NewContext
  <2>4. SpawnAsked => Spawning(a)'
    <3>1. call \in CallType
      BY <1>1, <2>1, CallTypes
    <3>2. QED
      BY <2>2, <3>1 DEF SpawnAsked, Request, CallType, Spawning
  <2>5. \A b \in DOMAIN context : Known(b) => mAppInfo[b].inst = context[b].inst
    BY <2>1, NotSpawning
  <2>6. SameInstance'
    BY <2>1, <2>3, <2>4, <2>5 DEF SameInstance, SameRecords, Known
  <2>7. QED
    BY <2>1, <2>3, <2>6, NewsStay DEF SameRecords
<1>4. CASE IsAppLoaded \/ PackageUnLock
  <2>1. /\ UNCHANGED <<context, gRequests, worker, lmJobs, event>>
        /\ call.pc \in {"isLoaded", "unlock"}
        /\ DOMAIN mAppInfo' \subseteq DOMAIN mAppInfo
        /\ \A a \in DOMAIN mAppInfo' : mAppInfo'[a] = mAppInfo[a]
    BY <1>4 DEF IsAppLoaded, PackageUnLock, Without, serviceVars
  <2>2. SameInstance'
    BY <2>1, NotSpawning DEF SameInstance, Known
  <2>3. QED
    BY <2>1, <2>2, NewsStay
<1>5. CASE PackageLock
  <2>1. UNCHANGED <<context, gRequests, worker, lmJobs, event>> /\ call.pc = "package"
    BY <1>5 DEF PackageLock, serviceVars
  <2>2. call # Idle /\ call.app \in Apps
    BY <1>1, <1>2, <2>1, CallTypes
  <2>3. call.app \in DOMAIN context => Known(call.app)
    BY <1>1, <2>1, <2>2 DEF CallOK, RecordsOK, Loaded
  <2>4. UNCHANGED mAppInfo \/ SetInfo(call.app, [Info(call.app) EXCEPT !.version = TRUE])
    BY <1>5 DEF PackageLock, WithPackage
  <2>5. ASSUME NEW b \in DOMAIN context, b \in DOMAIN mAppInfo'
        PROVE  /\ b \in DOMAIN mAppInfo /\ mAppInfo'[b].new = mAppInfo[b].new
               /\ mAppInfo'[b].inst = mAppInfo[b].inst
    <3>1. CASE UNCHANGED mAppInfo
      BY <2>5, <3>1
    <3>2. CASE SetInfo(call.app, [Info(call.app) EXCEPT !.version = TRUE])
      <4>1. \A r \in InfoType : /\ [r EXCEPT !.version = TRUE] \in InfoType
                                /\ [r EXCEPT !.version = TRUE].inst = r.inst
                                /\ [r EXCEPT !.version = TRUE].new = r.new
        BY DEF InfoType
      <4>2. PICK r : r = [Info(call.app) EXCEPT !.version = TRUE]
        OBVIOUS
      <4>3. /\ r \in InfoType /\ r.inst = Info(call.app).inst /\ r.new = Info(call.app).new
            /\ SetInfo(call.app, r)
        BY <1>1, <2>2, <3>2, <4>1, <4>2, InfoTypes
      <4>4. /\ DOMAIN mAppInfo' = DOMAIN mAppInfo \cup {call.app}
            /\ mAppInfo'[call.app] = r
            /\ \A x \in DOMAIN mAppInfo : x # call.app => mAppInfo'[x] = mAppInfo[x]
        BY <1>1, <2>2, <4>3, SetInfoTypes
      <4>5. QED
        BY <2>3, <2>5, <4>3, <4>4 DEF Info, Known
    <3>3. QED
      BY <2>4, <3>1, <3>2
  <2>6. SameInstance'
    BY <2>1, <2>5, NotSpawning DEF SameInstance, Known
  <2>7. QED
    BY <2>1, <2>5, <2>6, NewsStay
<1>6. CASE getLoadedApps
  <2>1. UNCHANGED <<context, gRequests, worker, lmJobs, event>>
    BY <1>6 DEF getLoadedApps, unchangedByConnect
  <2>2. ASSUME NEW a \in DOMAIN context
        PROVE  mAppInfo'[a].inst = context[a].inst /\ mAppInfo'[a].new = context[a].state
    <3>1. Info(a) \in InfoType
      BY <1>1, InfoTypes, ContextTypes
    <3>2. mAppInfo'[a] = [Info(a) EXCEPT !.inst = context[a].inst, !.new = context[a].state]
      BY <1>6 DEF getLoadedApps, Loaded
    <3>3. \A i, s : \A r \in InfoType : /\ [r EXCEPT !.inst = i, !.new = s].inst = i
                                        /\ [r EXCEPT !.inst = i, !.new = s].new = s
      BY DEF InfoType
    <3>4. QED
      BY <3>1, <3>2, <3>3
  <2>3. SameInstance'
    BY <2>1, <2>2 DEF SameInstance
  <2>4. QED
    BY <2>1, <2>2, <2>3, NewsStay
<1>7. CASE AddRequest
  <2>1. /\ UNCHANGED <<context, worker, lmJobs, event, mAppInfo>>
        /\ call.pc = "add" /\ worker.pc = "asleep"
        /\ call.then = "spawned" => call' = [call EXCEPT !.pc = call.then]
    BY <1>7 DEF AddRequest, Add, MutexFree
  <2>2. \A a : Spawning(a) => Spawning(a)'
    <3>1. call \in CallType
      BY <1>1, <1>2, <2>1, CallTypes
    <3>2. call.then = "spawned" => call'.pc = "spawned" /\ call'.app = call.app
      BY <2>1, <3>1 DEF CallType
    <3>3. QED
      BY <2>1, <3>2 DEF Spawning
  <2>3. SameInstance'
    BY <2>1, <2>2 DEF News, SameInstance, Known
  <2>4. Telling'
    BY <2>1 DEF News, Telling
  <2>5. \A a \in DOMAIN context : NewsOf(a) => NewsOf(a)'
    BY <2>1 DEF NewsOf, NoneAfter, InHand, Mine, Agrees, Ending, Busy, Known
  <2>6. QED
    BY <2>1, <2>3, <2>4, <2>5 DEF News
<1>8. CASE SpawnReturn
  <2>1. UNCHANGED <<context, gRequests, worker, lmJobs, event>> /\ call.pc = "spawned"
    BY <1>8 DEF SpawnReturn, serviceVars
  <2>2. PICK a : a = call.app
    OBVIOUS
  <2>3. /\ a \in Apps /\ a \in DOMAIN context /\ Known(a)
        /\ SetInfo(a, [Info(a) EXCEPT !.inst = context[a].inst])
    BY <1>1, <1>2, <1>8, <2>1, <2>2, CallTypes DEF CallOK, Loaded, SpawnReturn, StoreInstance
  <2>4. \A i : \A r \in InfoType : /\ [r EXCEPT !.inst = i].inst = i
                                   /\ [r EXCEPT !.inst = i].new = r.new
    BY DEF InfoType
  <2>5. PICK r : r = [mAppInfo[a] EXCEPT !.inst = context[a].inst]
    OBVIOUS
  <2>6. /\ r.inst = context[a].inst /\ r.new = mAppInfo[a].new /\ SetInfo(a, r)
    BY <1>1, <2>3, <2>4, <2>5 DEF Info, Known, TypeOK
  <2>7. /\ DOMAIN mAppInfo' = DOMAIN mAppInfo /\ mAppInfo'[a] = r
        /\ \A x \in DOMAIN mAppInfo : x # a => mAppInfo'[x] = mAppInfo[x]
    BY <2>3, <2>6 DEF SetInfo, With, Known
  <2>8. SameInstance'
    <3>1. \A b : b # a => ~Spawning(b)
      BY <2>2 DEF Spawning
    <3>2. QED
      BY <2>1, <2>6, <2>7, <3>1 DEF News, SameInstance, Known
  <2>9. QED
    BY <2>1, <2>6, <2>7, <2>8, NewsStay
<1>9. QED
  BY <1>3, <1>4, <1>5, <1>6, <1>7, <1>8 DEF CallGoesOn, Connector

\* Jobs that say nothing of the application a.
LEMMA NothingSaid ==
    ASSUME TypeOK, NEW a \in DOMAIN context, NEW r \in Seq(JobType), NewsOf(a),
           lmJobs' = lmJobs \o r, UNCHANGED <<event, mAppInfo>>,
           context'[a].inst = context[a].inst,
           \A k \in DOMAIN r : ~Mine(r[k], a),
           \A s : Agrees(s, a) => Agrees(s, a)'
    PROVE  NewsOf(a)'
<1>1. lmJobs \in Seq(JobType)
  BY DEF TypeOK, ServiceTypeOK
<1>2. \A j : Mine(j, a)' <=> Mine(j, a)
  BY DEF Mine
<1>3. \A k \in DOMAIN lmJobs : k \in DOMAIN lmJobs' /\ lmJobs'[k] = lmJobs[k]
  BY <1>1, BothParts
<1>4. \A k \in DOMAIN lmJobs' : Mine(lmJobs'[k], a) => k \in DOMAIN lmJobs /\ lmJobs'[k] = lmJobs[k]
  <2> SUFFICES ASSUME NEW k \in DOMAIN lmJobs', Mine(lmJobs'[k], a)
               PROVE  k \in DOMAIN lmJobs /\ lmJobs'[k] = lmJobs[k]
    OBVIOUS
  <2>1. PICK q : q = lmJobs \o r
    OBVIOUS
  <2>2. \/ k \in DOMAIN lmJobs /\ q[k] = lmJobs[k]
        \/ k - Len(lmJobs) \in DOMAIN r /\ q[k] = r[k - Len(lmJobs)]
    BY <1>1, <2>1, BothParts
  <2>3. QED
    BY <2>1, <2>2
<1>5. \A k : NoneAfter(k, a)' <=> NoneAfter(k, a)
  BY <1>2, <1>3, <1>4 DEF NoneAfter
<1>6. InHand(a)' <=> InHand(a)
  BY <1>2 DEF InHand
<1>7. ASSUME NEW k \in DOMAIN lmJobs', Mine(lmJobs[k], a)', NoneAfter(k, a)'
      PROVE  Agrees(lmJobs[k].new, a)'
  <2>1. PICK s : s = lmJobs'[k].new
    OBVIOUS
  <2>2. Agrees(s, a)
    BY <1>2, <1>4, <1>5, <1>7, <2>1 DEF NewsOf
  <2>3. QED
    BY <2>1, <2>2 DEF Agrees
<1>8. ASSUME NoneAfter(0, a)', InHand(a)'
      PROVE  Agrees(event.job.new, a)'
  <2>1. PICK s : s = event.job.new
    OBVIOUS
  <2>2. Agrees(s, a)
    BY <1>5, <1>6, <1>8, <2>1 DEF NewsOf
  <2>3. QED
    BY <2>1, <2>2 DEF Agrees
<1>9. ASSUME NoneAfter(0, a)', ~InHand(a)', Known(a)'
      PROVE  mAppInfo'[a].inst = context'[a].inst /\ Agrees(mAppInfo[a].new, a)'
  <2>1. PICK s : s = mAppInfo[a].new
    OBVIOUS
  <2>2. mAppInfo[a].inst = context[a].inst /\ Agrees(s, a)
    BY <1>5, <1>6, <1>9, <2>1 DEF NewsOf, Known
  <2>3. QED
    BY <2>1, <2>2 DEF Agrees
<1>10. QED
  BY <1>7, <1>8, <1>9 DEF NewsOf

\* Jobs the first of which tells the state of the application a.
LEMMA StateSaid ==
    ASSUME TypeOK, NEW a, NEW r \in Seq(JobType), lmJobs' = lmJobs \o r,
           1 \in DOMAIN r, Mine(r[1], a)', Agrees(r[1].new, a)',
           \A k \in DOMAIN r : k # 1 => ~Mine(r[k], a)'
    PROVE  NewsOf(a)'
<1>1. lmJobs \in Seq(JobType) /\ Len(lmJobs) \in Nat
  BY LenProperties DEF TypeOK, ServiceTypeOK
<1>2. PICK q : q = lmJobs'
  OBVIOUS
<1>3. /\ Len(lmJobs) + 1 \in DOMAIN q /\ q[Len(lmJobs) + 1] = r[1]
      /\ \A k \in DOMAIN lmJobs : k \in Nat \ {0} /\ k <= Len(lmJobs)
      /\ \A k \in DOMAIN q : \/ k \in DOMAIN lmJobs
                             \/ k \in Nat /\ k - Len(lmJobs) \in DOMAIN r /\ q[k] = r[k - Len(lmJobs)]
  BY <1>1, <1>2, BothParts
<1>4. ~NoneAfter(0, a)'
  BY <1>1, <1>2, <1>3 DEF NoneAfter
<1>5. ASSUME NEW k \in DOMAIN q, Mine(q[k], a)', NoneAfter(k, a)'
      PROVE  q[k] = r[1]
  <2>1. CASE k \in DOMAIN lmJobs
    <3>1. k < Len(lmJobs) + 1
      BY <1>1, <1>3, <2>1
    <3>2. QED
      BY <1>2, <1>3, <1>5, <3>1 DEF NoneAfter
  <2>2. CASE k \in Nat /\ k - Len(lmJobs) \in DOMAIN r /\ q[k] = r[k - Len(lmJobs)]
    BY <1>5, <2>2
  <2>3. QED
    BY <1>3, <2>1, <2>2
<1>6. QED
  BY <1>2, <1>4, <1>5 DEF NewsOf, Agrees

LEMMA NewsOfWorker ==
    ASSUME Base, News, WorkerNext, UNCHANGED appVars
    PROVE  News'
<1>1. TypeOK /\ OnPath /\ Passing /\ CallOK /\ ContextsOK /\ RequestsOK /\ Telling /\ SameInstance
      /\ UNCHANGED <<mAppInfo, call>>
      /\ lmJobs \in Seq(JobType)
  BY DEF Base, News, appVars, TypeOK, ServiceTypeOK
<1>2. CASE TakeRequest
  <2>1. ~Busy /\ UNCHANGED <<context, lmJobs, event>>
    BY <1>2 DEF TakeRequest, Busy
  <2>2. \A a \in DOMAIN context : NewsOf(a) => NewsOf(a)'
    BY <1>1, <2>1 DEF NewsOf, NoneAfter, InHand, Mine, Agrees, Ending, Known
  <2>3. SameInstance' /\ Telling'
    BY <1>1, <2>1 DEF SameInstance, Telling, Known, Spawning
  <2>4. QED
    BY <2>1, <2>2, <2>3 DEF News
<1>3. CASE AskRuntime
  <2>1. /\ Busy /\ worker.pc = "step" /\ worker' = [worker EXCEPT !.pc = "wait"] /\ UNCHANGED <<context, gRequests, event>>
        /\ Head(worker.path) \in {"INITIALIZING", "TERMINATING"}
    BY <1>3 DEF AskRuntime, Busy
  <2>2. PICK a : a = Cur
    OBVIOUS
  <2>3. worker'.pc = "wait" /\ worker'.path = worker.path
    BY <1>1, <2>1 DEF TypeOK, ServiceTypeOK
  <2>4. /\ a \in DOMAIN context /\ a \in Apps /\ context[a].inst \in Nat /\ context[a].state \in LifecycleStates
    BY <1>1, <2>1, <2>2, Working, ContextTypes
  <2>5. PICK e, f : /\ e = StateChange(a, context[a].inst, context[a].state, "TERMINATING")
                    /\ f = Signal(a)
    OBVIOUS
  <2>6. e \in JobType /\ f \in JobType
    BY <2>4, <2>5 DEF StateChange, Signal, JobType, LifecycleStates
  <2>7. PICK r \in Seq(JobType) :
           /\ lmJobs' = lmJobs \o r
           /\ IF Head(worker.path) = "TERMINATING"
              THEN 1 \in DOMAIN r /\ r[1] = e /\ \A k \in DOMAIN r : k # 1 => r[k] = f
              ELSE r = <<f>>
    <3>1. PICK r1, r2 : /\ r1 = IF Head(worker.path) = "TERMINATING" THEN <<e>> ELSE <<>>
                        /\ r2 = <<f>>
      OBVIOUS
    <3>2. lmJobs' = (lmJobs \o r1) \o r2
      BY <1>3, <2>2, <2>5, <3>1 DEF AskRuntime, Changed, State
    <3>3. r1 \in Seq(JobType) /\ r2 \in Seq(JobType)
      BY <2>6, <3>1
    <3>4. (lmJobs \o r1) \o r2 = lmJobs \o (r1 \o r2)
      BY <1>1, <3>3, ConcatAssociative
    <3>5. r1 \o r2 \in Seq(JobType)
      BY <3>3, ConcatProperties
    <3>6. CASE Head(worker.path) = "TERMINATING"
      <4>1. /\ 1 \in DOMAIN r1 /\ r1[1] = e /\ Len(r1) = 1 /\ \A k \in DOMAIN r1 : k = 1
            /\ \A k \in DOMAIN r2 : r2[k] = f
        BY <3>1, <3>6
      <4>2. PICK q : q = r1 \o r2
        OBVIOUS
      <4>3. /\ 1 \in DOMAIN q /\ q[1] = r1[1]
            /\ \A k \in DOMAIN q : k \in DOMAIN r1 \/ (k - Len(r1) \in DOMAIN r2 /\ q[k] = r2[k - Len(r1)])
        <5>1. /\ \A k \in DOMAIN r1 : k \in DOMAIN q /\ q[k] = r1[k]
          BY <3>3, <4>2, BothParts
        <5>2. \A k \in DOMAIN q :
                 \/ k \in DOMAIN r1 /\ q[k] = r1[k]
                 \/ k - Len(r1) \in DOMAIN r2 /\ q[k] = r2[k - Len(r1)]
          BY <3>3, <4>2, BothParts
        <5>3. 1 \in DOMAIN q /\ q[1] = r1[1]
          <6>1. 1 \in DOMAIN r1
            BY <4>1
          <6>2. QED
            BY <5>1, <6>1
        <5>4. QED
          BY <5>2, <5>3
      <4>4. \A k \in DOMAIN q : k # 1 => q[k] = f
        BY <4>1, <4>3
      <4>5. lmJobs' = lmJobs \o q /\ q \in Seq(JobType) /\ q[1] = e
        BY <3>2, <3>4, <3>5, <4>1, <4>2, <4>3
      <4>6. QED
        BY <3>6, <4>3, <4>4, <4>5
    <3>7. CASE Head(worker.path) # "TERMINATING"
      <4>1. <<>> \o <<f>> = <<f>>
        OBVIOUS
      <4>2. QED
        BY <3>1, <3>2, <3>4, <3>5, <3>7, <4>1
    <3>8. QED
      BY <3>6, <3>7
  <2>8. ASSUME NEW b \in DOMAIN context, NewsOf(b)
        PROVE  NewsOf(b)'
    <3>1. \A s : Agrees(s, b) => Agrees(s, b)'
      BY <2>1, <2>3 DEF Agrees, Ending, Busy, Cur
    <3>2. ~Mine(f, b) /\ (e.app = a /\ (Mine(e, b) => b = a))
      BY <2>5 DEF Mine, Signal, StateChange
    <3>3. CASE b = a /\ Head(worker.path) = "TERMINATING"
      <4>2. 1 \in DOMAIN r /\ r[1] = e /\ \A k \in DOMAIN r : k # 1 => r[k] = f
        BY <2>7, <3>3
      <4>3. Mine(e, b)' /\ ~Mine(f, b)'
        BY <2>1, <2>5, <3>3 DEF Mine, StateChange, Signal
      <4>4. Agrees(e.new, b)'
        BY <2>1, <2>2, <2>3, <3>3 DEF Agrees, Ending, Busy, Cur
      <4>5. Mine(r[1], b)' /\ Agrees(r[1].new, b)'
        BY <4>2, <4>3, <4>4
      <4>6. \A k \in DOMAIN r : k # 1 => ~Mine(r[k], b)'
        BY <4>2, <4>3
      <4>7. QED
        BY <1>1, <2>7, <4>2, <4>5, <4>6, StateSaid
    <3>4. CASE ~(b = a /\ Head(worker.path) = "TERMINATING")
      <4>1. \A k \in DOMAIN r : ~Mine(r[k], b)
        <5>1. CASE Head(worker.path) = "TERMINATING"
          <6>2. \A k \in DOMAIN r : r[k] \in {e, f}
            BY <2>7, <5>1
          <6>3. QED
            BY <3>2, <3>4, <5>1, <6>2
        <5>2. CASE Head(worker.path) # "TERMINATING"
          <6>1. r = <<f>>
            BY <2>7, <5>2
          <6>2. \A k \in DOMAIN r : r[k] = f
            BY <6>1
          <6>3. QED
            BY <3>2, <6>2
        <5>3. QED
          BY <5>1, <5>2
      <4>2. QED
        BY <1>1, <2>1, <2>7, <2>8, <3>1, <4>1, NothingSaid
    <3>5. QED
      BY <3>3, <3>4
  <2>9. SameInstance' /\ Telling'
    BY <1>1, <2>1 DEF SameInstance, Telling, Known, Spawning
  <2>10. QED
    BY <2>1, <2>8, <2>9 DEF News
<1>4. CASE EnterLoading \/ EnterAnswered \/ EnterOther
  <2>1. PICK s, c, r : Entered(s, c, r)
    BY <1>1, <1>4, EntersState
  <2>2. PICK a, t : a = Cur /\ t = Head(gRequests).target
    OBVIOUS
  <2>3. /\ a \in DOMAIN context /\ a = gRequests[1].app /\ 1 \in DOMAIN gRequests
        /\ DOMAIN context' = DOMAIN context
        /\ context'[a].state = s /\ context'[a].inst = c.inst
        /\ \A b \in DOMAIN context : b # a => context'[b] = context[b]
        /\ s \in LifecycleStates /\ <<context[a].state, s>> \in Edges
        /\ UNCHANGED event /\ lmJobs' = lmJobs \o r
        /\ \/ s = Final(t)
           \/ worker'.pc = "step" /\ UNCHANGED gRequests
    BY <1>1, <2>1, <2>2, AfterEnter
  <2>4. /\ Busy /\ s = Head(worker.path) /\ r \in Seq(JobType)
        /\ \/ s = "LOADING" \/ c = context[a]
        /\ \/ r = <<StateChange(a, c.inst, context[a].state, s)>>
           \/ r = <<>> /\ s = "TERMINATING" /\ worker.pc = "wait"
    BY <2>1, <2>2 DEF Entered, State
  <2>5. s = "TERMINATING" => worker'.pc = "step" /\ UNCHANGED gRequests
    BY <2>3 DEF Final, LifecycleStates
  <2>6. s = "LOADING" => context[a].inst = 0
    <3>1. s = "LOADING" => context[a].state = "UNLOADED"
      BY <2>3 DEF Edges
    <3>2. QED
      BY <1>1, <2>3, <3>1 DEF ContextsOK
  <2>7. SameInstance' /\ Telling'
    <3>1. \A b \in DOMAIN context : context'[b].inst = context[b].inst \/ (context[b].inst = 0 /\ Spawning(b))
      BY <1>1, <2>3, <2>4, <2>6 DEF ContextsOK
    <3>2. QED
      BY <1>1, <2>3, <3>1 DEF SameInstance, Telling, Known, Spawning
  <2>8. ASSUME NEW b \in DOMAIN context, b # a, NewsOf(b)
        PROVE  NewsOf(b)'
    <3>1. \A x : Agrees(x, b) => Agrees(x, b)'
      BY <2>2, <2>3, <2>8 DEF Agrees, Ending
    <3>2. \A k \in DOMAIN r : ~Mine(r[k], b)
      <4>1. PICK e : e = StateChange(a, c.inst, context[a].state, s)
        OBVIOUS
      <4>2. ~Mine(e, b)
        BY <2>8, <4>1 DEF Mine, StateChange
      <4>3. r = <<e>> \/ r = <<>>
        BY <2>4, <4>1
      <4>4. \A k \in DOMAIN r : r[k] = e
        BY <4>3
      <4>5. QED
        BY <4>2, <4>4
    <3>3. QED
      BY <1>1, <2>3, <2>4, <2>8, <3>1, <3>2, NothingSaid
  <2>9. CASE r = <<StateChange(a, c.inst, context[a].state, s)>>
    <3>1. PICK e : e = StateChange(a, c.inst, context[a].state, s)
      OBVIOUS
    <3>2. 1 \in DOMAIN r /\ r[1] = e /\ \A k \in DOMAIN r : k = 1
      <4>1. r = <<e>>
        BY <2>9, <3>1
      <4>2. QED
        BY <4>1
    <3>3. Mine(e, a)' /\ Agrees(e.new, a)'
      BY <2>3, <3>1 DEF Mine, StateChange, Agrees
    <3>4. Mine(r[1], a)' /\ Agrees(r[1].new, a)'
      BY <3>2, <3>3
    <3>5. NewsOf(a)'
      BY <1>1, <2>3, <2>4, <3>2, <3>4, StateSaid
    <3>6. QED
      BY <2>3, <2>7, <2>8, <3>5 DEF News
  <2>10. CASE r = <<>> /\ s = "TERMINATING" /\ worker.pc = "wait"
    <3>1. Ending(a)'
      BY <2>2, <2>3, <2>5, <2>10 DEF Ending, Busy, Cur
    <3>2. ASSUME NewsOf(a) PROVE NewsOf(a)'
      <4>1. \A x : Agrees(x, a)'
        BY <3>1 DEF Agrees
      <4>2. \A k \in DOMAIN r : ~Mine(r[k], a)
        BY <2>10
      <4>3. context'[a].inst = context[a].inst
        BY <2>3, <2>4, <2>10
      <4>4. QED
        BY <1>1, <2>3, <2>4, <3>2, <4>1, <4>2, <4>3, NothingSaid
    <3>3. context'[a].inst = context[a].inst
      BY <2>3, <2>4, <2>10
    <3>4. QED
      BY <2>3, <2>7, <2>8, <3>2, <3>3 DEF News
  <2>11. QED
    BY <2>4, <2>9, <2>10
<1>5. QED
  BY <1>2, <1>3, <1>4 DEF WorkerNext

\* One pool thread takes the oldest job.
LEMMA NewsOfDispatch ==
    ASSUME Base, News, Dispatch(1), UNCHANGED appVars
    PROVE  News'
<1>1. TypeOK /\ ContextsOK /\ Telling /\ SameInstance /\ UNCHANGED <<gRequests, worker, mAppInfo, call>>
  BY DEF Base, News, Dispatch, appVars
<1>2. PICK j : j = lmJobs[1]
  OBVIOUS
<1>3. /\ event = NoEvent /\ 1 \in DOMAIN lmJobs /\ lmJobs \in Seq(JobType)
      /\ lmJobs' = TakeOut(lmJobs, 1)
      /\ \/ j.kind = "SIGNAL" /\ event' = event
         \/ j.kind = "STATE" /\ event' = [pc |-> "notify", job |-> j]
      /\ \A b \in DOMAIN context' : b \in DOMAIN context /\ context'[b] = context[b]
  BY <1>1, <1>2 DEF Dispatch, TypeOK, ServiceTypeOK, Without
<1>4. /\ \A k \in DOMAIN lmJobs' : k \in Nat \ {0} /\ k + 1 \in DOMAIN lmJobs /\ lmJobs'[k] = lmJobs[k + 1]
      /\ \A k \in DOMAIN lmJobs : k \in Nat \ {0} /\ (k > 1 => k - 1 \in DOMAIN lmJobs' /\ lmJobs'[k - 1] = lmJobs[k])
  <2>1. /\ \A k \in DOMAIN TakeOut(lmJobs, 1) :
              /\ k \in Nat \ {0}
              /\ k >= 1 => k + 1 \in DOMAIN lmJobs /\ TakeOut(lmJobs, 1)[k] = lmJobs[k + 1]
        /\ \A k \in DOMAIN lmJobs :
              /\ k \in Nat \ {0}
              /\ k > 1 => k - 1 \in DOMAIN TakeOut(lmJobs, 1) /\ TakeOut(lmJobs, 1)[k - 1] = lmJobs[k]
    BY <1>3, OneTaken
  <2>2. QED
    BY <1>3, <2>1
<1>5. SameInstance' /\ Telling'
  BY <1>1, <1>3 DEF SameInstance, Telling, Known, Spawning, NoEvent
<1>6. ASSUME NEW b \in DOMAIN context', context'[b].inst # 0
      PROVE  NewsOf(b)'
  <2>1. b \in DOMAIN context /\ context'[b] = context[b] /\ NewsOf(b) /\ b \in Apps
    BY <1>1, <1>3, <1>6, ContextTypes DEF News
  <2>2. \A x : Mine(x, b)' <=> Mine(x, b)
    BY <2>1 DEF Mine
  <2>3. \A s : Agrees(s, b)' <=> Agrees(s, b)
    BY <1>1, <2>1, AgreesStays
  <2>4. ASSUME NEW k \in DOMAIN lmJobs', NoneAfter(k, b)'
        PROVE  NoneAfter(k + 1, b)
    <3> SUFFICES ASSUME NEW m \in DOMAIN lmJobs, k + 1 < m, Mine(lmJobs[m], b)
                 PROVE  FALSE
      BY DEF NoneAfter
    <3>1. k \in Nat \ {0} /\ m \in Nat
      BY <1>4
    <3>2. m > 1 /\ k < m - 1
      BY <3>1
    <3>3. m - 1 \in DOMAIN lmJobs' /\ lmJobs'[m - 1] = lmJobs[m]
      BY <1>4, <3>2
    <3>4. QED
      BY <2>2, <2>4, <3>2, <3>3 DEF NoneAfter
  <2>5. ASSUME NoneAfter(0, b)' PROVE NoneAfter(1, b)
    <3> SUFFICES ASSUME NEW m \in DOMAIN lmJobs, 1 < m, Mine(lmJobs[m], b)
                 PROVE  FALSE
      BY DEF NoneAfter
    <3>1. m - 1 \in DOMAIN lmJobs' /\ lmJobs'[m - 1] = lmJobs[m] /\ m \in Nat
      BY <1>4
    <3>2. 0 < m - 1
      BY <3>1
    <3>3. QED
      BY <2>2, <2>5, <3>1, <3>2 DEF NoneAfter
  <2>6. ASSUME NEW k \in DOMAIN lmJobs', Mine(lmJobs[k], b)', NoneAfter(k, b)'
        PROVE  Agrees(lmJobs[k].new, b)'
    <3>1. k + 1 \in DOMAIN lmJobs /\ lmJobs'[k] = lmJobs[k + 1] /\ NoneAfter(k + 1, b)
      BY <1>4, <2>4, <2>6
    <3>2. PICK s : s = lmJobs'[k].new
      OBVIOUS
    <3>3. Agrees(s, b)
      BY <2>1, <2>2, <2>6, <3>1, <3>2 DEF NewsOf
    <3>4. QED
      BY <2>3, <3>2, <3>3 DEF Agrees
  <2>7. InHand(b)' => event'.job = j /\ Mine(j, b)
    BY <1>3, <2>2 DEF InHand, NoEvent
  <2>8. ASSUME NoneAfter(0, b)', InHand(b)'
        PROVE  Agrees(event.job.new, b)'
    <3>1. Agrees(j.new, b)
      BY <1>2, <1>3, <2>1, <2>5, <2>7, <2>8 DEF NewsOf
    <3>2. QED
      BY <2>3, <2>7, <2>8, <3>1 DEF Agrees
  <2>9. ASSUME NoneAfter(0, b)', ~InHand(b)', Known(b)'
        PROVE  mAppInfo'[b].inst = context'[b].inst /\ Agrees(mAppInfo[b].new, b)'
    <3>1. ~Mine(j, b)
      <4>1. ASSUME Mine(j, b) PROVE FALSE
        <5>1. event' = [pc |-> "notify", job |-> j]
          BY <1>3, <4>1 DEF Mine
        <5>2. event' # NoEvent /\ event'.job = j
          BY <5>1 DEF NoEvent
        <5>3. QED
          BY <2>2, <2>9, <4>1, <5>2 DEF InHand
      <4>2. QED
        BY <4>1
    <3>2. NoneAfter(0, b)
      <4> SUFFICES ASSUME NEW m \in DOMAIN lmJobs, Mine(lmJobs[m], b)
                   PROVE  FALSE
        BY DEF NoneAfter
      <4>1. m # 1 /\ m \in Nat \ {0}
        BY <1>2, <1>4, <3>1
      <4>2. QED
        BY <2>5, <2>9, <4>1 DEF NoneAfter
    <3>3. ~InHand(b)
      BY <1>3 DEF InHand
    <3>4. PICK s : s = mAppInfo[b].new
      OBVIOUS
    <3>5. mAppInfo[b].inst = context[b].inst /\ Agrees(s, b)
      BY <1>1, <2>1, <2>9, <3>2, <3>3, <3>4 DEF NewsOf, Known
    <3>6. QED
      BY <1>1, <2>1, <2>3, <3>4, <3>5 DEF Agrees
  <2>10. QED
    BY <2>6, <2>8, <2>9 DEF NewsOf
<1>7. QED
  BY <1>5, <1>6 DEF News

LEMMA NewsOfOthers ==
    ASSUME Base, News,
           \/ \E op \in Calls, a \in Apps : Begin(op, a)
           \/ Handler
           \/ \E k \in 1..PoolThreads : Tell(k)
           \/ UNCHANGED vars
    PROVE  News'
<1>1. TypeOK /\ CallOK /\ ContextsOK /\ Telling /\ SameInstance
  BY DEF Base, News
<1>2. Idle.pc = "idle"
  BY DEF Idle
<1>3. CASE (\E op \in Calls, a \in Apps : Begin(op, a)) \/ (\E k \in 1..PoolThreads : Tell(k)) \/ UNCHANGED vars
  <2>1. UNCHANGED <<context, gRequests, worker, lmJobs, event, mAppInfo>> /\ (call = Idle \/ UNCHANGED call)
    BY <1>3 DEF Begin, Tell, vars, serviceVars
  <2>2. SameInstance'
    BY <1>1, <1>2, <2>1 DEF SameInstance, Known, Spawning
  <2>3. QED
    BY <2>1, <2>2, NewsStay
<1>4. CASE HandlerLocks
  <2>1. /\ UNCHANGED <<context, gRequests, worker, lmJobs, mAppInfo, call>>
        /\ event # NoEvent /\ event' # NoEvent /\ event'.job = event.job
    <3>1. event # NoEvent /\ event' = [event EXCEPT !.pc = "walk"]
      BY <1>4 DEF HandlerLocks, NoEvent
    <3>2. event'.job = event.job /\ event'.pc = "walk"
      BY <1>1, <3>1 DEF TypeOK, ServiceTypeOK
    <3>3. QED
      BY <1>4, <3>1, <3>2 DEF HandlerLocks, NoEvent
  <2>2. SameInstance' /\ Telling'
    BY <1>1, <2>1 DEF SameInstance, Telling, Known, Spawning
  <2>3. ASSUME NEW a \in DOMAIN context, NewsOf(a)
        PROVE  NewsOf(a)'
    BY <2>1, <2>3 DEF NewsOf, NoneAfter, InHand, Mine, Agrees, Ending, Busy, Cur, Known
  <2>4. QED
    BY <2>1, <2>2, <2>3 DEF News
<1>5. CASE OnAppLifecycleStateChanged
  <2>1. PICK j : j = event.job
    OBVIOUS
  <2>2. /\ UNCHANGED <<context, gRequests, worker, lmJobs, call>> /\ event' = NoEvent
        /\ event.pc = "walk" /\ event # NoEvent
    BY <1>5 DEF OnAppLifecycleStateChanged, NoEvent
  <2>3. /\ DOMAIN mAppInfo' = DOMAIN mAppInfo
        /\ \A a \in DOMAIN mAppInfo :
              /\ mAppInfo'[a].inst = mAppInfo[a].inst
              /\ mAppInfo'[a].new = IF a = j.app /\ mAppInfo[a].inst = j.inst THEN j.new ELSE mAppInfo[a].new
    <3>1. \A s : \A r \in InfoType : [r EXCEPT !.new = s].inst = r.inst /\ [r EXCEPT !.new = s].new = s
      BY DEF InfoType
    <3>2. CASE Known(j.app) /\ mAppInfo[j.app].inst = j.inst
      <4>1. mAppInfo' = [mAppInfo EXCEPT ![j.app] = [mAppInfo[j.app] EXCEPT !.new = j.new]]
        BY <1>5, <2>1, <3>2 DEF OnAppLifecycleStateChanged
      <4>2. QED
        BY <1>1, <3>1, <3>2, <4>1 DEF TypeOK, Known
    <3>3. CASE ~(Known(j.app) /\ mAppInfo[j.app].inst = j.inst)
      BY <1>5, <2>1, <3>3 DEF OnAppLifecycleStateChanged, Known
    <3>4. QED
      BY <3>2, <3>3
  <2>4. \A a : ~Spawning(a)
    BY <1>1, <2>2 DEF CallOK, Spawning
  <2>5. SameInstance' /\ Telling'
    BY <1>1, <2>2, <2>3, <2>4 DEF SameInstance, Telling, Known
  <2>6. ASSUME NEW a \in DOMAIN context, NewsOf(a)
        PROVE  NewsOf(a)'
    <3>1. \A k : NoneAfter(k, a)' <=> NoneAfter(k, a)
      BY <2>2 DEF NoneAfter, Mine
    <3>2. \A s : Agrees(s, a)' <=> Agrees(s, a)
      BY <2>2 DEF Agrees, Ending, Busy, Cur
    <3>3. ASSUME NEW k \in DOMAIN lmJobs', Mine(lmJobs[k], a)', NoneAfter(k, a)'
          PROVE  Agrees(lmJobs[k].new, a)'
      BY <2>2, <2>6, <3>3 DEF NewsOf, NoneAfter, Mine, Agrees, Ending, Busy, Cur
    <3>4. ~InHand(a)'
      BY <2>2 DEF InHand
    <3>5. ASSUME NoneAfter(0, a)', Known(a)'
          PROVE  mAppInfo'[a].inst = context'[a].inst /\ Agrees(mAppInfo[a].new, a)'
      <4>1. NoneAfter(0, a) /\ a \in DOMAIN mAppInfo /\ mAppInfo[a].inst = context[a].inst
        BY <1>1, <2>3, <2>4, <3>1, <3>5 DEF SameInstance, Known
      <4>2. PICK s : s = mAppInfo'[a].new
        OBVIOUS
      <4>3. j.kind = "STATE"
        BY <1>1, <2>1, <2>2 DEF Telling
      <4>4. InHand(a) <=> (j.app = a /\ j.inst = mAppInfo[a].inst)
        BY <2>1, <2>2, <4>1, <4>3 DEF InHand, Mine
      <4>5. Agrees(s, a)
        <5>1. CASE InHand(a)
          BY <2>1, <2>3, <2>6, <4>1, <4>2, <4>4, <5>1 DEF NewsOf
        <5>2. CASE ~InHand(a)
          BY <2>3, <2>6, <4>1, <4>2, <4>4, <5>2 DEF NewsOf, Known
        <5>3. QED
          BY <5>1, <5>2
      <4>6. QED
        BY <2>2, <2>3, <3>2, <4>1, <4>2, <4>5 DEF Agrees
    <3>6. QED
      BY <3>3, <3>4, <3>5 DEF NewsOf
  <2>7. QED
    BY <2>2, <2>5, <2>6 DEF News
<1>6. QED
  BY <1>3, <1>4, <1>5 DEF Handler

LEMMA NextNews ==
    ASSUME PoolThreads = 1, Base, News, [Next]_vars
    PROVE  News'
<1>1. CASE ServiceNext /\ UNCHANGED appVars
  <2>1. WorkerNext \/ Dispatch(1)
    BY <1>1 DEF ServiceNext
  <2>2. QED
    BY <1>1, <2>1, NewsOfWorker, NewsOfDispatch
<1>2. QED
  BY <1>1, NewsOfCalls, NewsOfOthers DEF Next, Rest

LEMMA InitNews == Init => News
<1> SUFFICES ASSUME Init PROVE News
  OBVIOUS
<1>1. context = <<>> /\ DOMAIN context = {} /\ event = NoEvent
  BY DEF Init, ServiceInit
<1>2. QED
  BY <1>1 DEF News, SameInstance, Telling

LEMMA NewsAlways == PoolThreads = 1 => (Spec => []News)
<1> SUFFICES ASSUME PoolThreads = 1 PROVE Spec => []News
  OBVIOUS
<1>1. Base /\ News /\ [Next]_vars => News'
  BY NextNews
<1>2. QED
  BY <1>1, InitNews, BaseAlways, PTL DEF Spec

\* With one pool thread no state change is missed: when LifecycleManager has
\* nothing left to tell, the record of a loaded application is of its present
\* instance and in its state.
THEOREM EventsNeverMissed == PoolThreads = 1 => (Spec => []NoEventMissed)
<1> SUFFICES ASSUME PoolThreads = 1 PROVE Spec => []NoEventMissed
  OBVIOUS
<1>1. ASSUME Base, News PROVE NoEventMissed
  <2> SUFFICES ASSUME Settled, call = Idle, NEW a \in DOMAIN mAppInfo, a \in DOMAIN context
               PROVE  mAppInfo[a].inst = context[a].inst /\ mAppInfo[a].new = context[a].state
    BY DEF NoEventMissed, Loaded
  <2>1. call.pc \notin {"add", "spawned"}
    BY DEF Idle
  <2>2. context[a].inst # 0 /\ NewsOf(a)
    BY <1>1, <2>1, NotSpawning DEF News
  <2>3. lmJobs = <<>> /\ event = NoEvent /\ ~Busy
    BY DEF Settled, MutexFree, Busy
  <2>4. NoneAfter(0, a) /\ ~InHand(a)
    BY <2>3 DEF NoneAfter, InHand
  <2>5. QED
    BY <2>2, <2>3, <2>4 DEF NewsOf, Agrees, Ending, Known
<1>2. QED
  BY <1>1, BaseAlways, NewsAlways, PTL
-----------------------------------------------------------------------------
(* Patient clients. *)

\* A call that has not reached LifecycleManager finds it at rest.
LEMMA NextQuiet ==
    ASSUME Patient, Base, Quiet, [Next]_vars
    PROVE  Quiet'
<1> DEFINE Early == {"isLoaded", "package", "connect"}
<1>1. TypeOK
  BY DEF Base
<1>2. Idle.pc = "idle" /\ NoEvent.pc = "none"
  BY DEF Idle, NoEvent
<1>3. ASSUME NEW op \in Calls, NEW a \in Apps, Begin(op, a)
      PROVE  Quiet'
  BY <1>3 DEF Begin, May, serviceVars, Quiet, Settled, MutexFree
<1>4. ASSUME call.pc \in Early
      PROVE  ~(ServiceNext \/ Handler \/ \E k \in 1..PoolThreads : Tell(k))
  <2>1. /\ gRequests = <<>> /\ worker.pc = "asleep" /\ lmJobs = <<>> /\ event = NoEvent /\ amJobs = <<>>
    BY <1>4 DEF Quiet, Settled, MutexFree
  <2>2. ~WorkerNext
    BY <2>1 DEF WorkerNext, TakeRequest, EnterLoading, AskRuntime, EnterAnswered, EnterOther
  <2>3. DOMAIN lmJobs = {}
    BY <2>1
  <2>4. ~Handler /\ call # Idle
    BY <1>2, <1>4, <2>1 DEF Handler, HandlerLocks, OnAppLifecycleStateChanged
  <2>5. QED
    BY <2>2, <2>3, <2>4 DEF ServiceNext, Dispatch, Tell
<1>5. CASE (ServiceNext /\ UNCHANGED appVars) \/ Handler \/ \E k \in 1..PoolThreads : Tell(k)
  <2>1. call.pc \notin Early
    BY <1>4, <1>5
  <2>2. call' = call
    BY <1>5 DEF appVars, Handler, HandlerLocks, OnAppLifecycleStateChanged, Tell
  <2>3. QED
    BY <2>1, <2>2 DEF Quiet
<1>6. CASE CallGoesOn
  <2>1. CASE Connector
    <3>1. call' = Idle \/ call'.pc = "add"
      BY <1>1, <2>1, Connected, ContextsAfter
    <3>2. QED
      BY <1>2, <3>1 DEF Quiet
  <2>2. CASE IsAppLoaded \/ PackageLock
    BY <2>2 DEF IsAppLoaded, PackageLock, serviceVars, Quiet, Settled, MutexFree
  <2>3. CASE getLoadedApps \/ SpawnReturn \/ PackageUnLock
    BY <1>2, <2>3 DEF getLoadedApps, SpawnReturn, PackageUnLock, Quiet
  <2>4. CASE AddRequest
    <3>1. call \in CallType /\ call.pc = "add"
      BY <1>1, <1>2, <2>4, CallTypes DEF AddRequest
    <3>2. \/ call' = Idle
          \/ call' = [call EXCEPT !.target = "HIBERNATED", !.then = "return"]
          \/ call.then \in {"spawned", "unlock", "waitPause"} /\ call' = [call EXCEPT !.pc = call.then]
      BY <2>4, <3>1 DEF AddRequest, CallType
    <3>3. call'.pc \notin Early
      BY <1>2, <3>1, <3>2 DEF CallType
    <3>4. QED
      BY <3>3 DEF Quiet
  <2>5. QED
    BY <1>6, <2>1, <2>2, <2>3, <2>4 DEF CallGoesOn, Connector
<1>7. CASE UNCHANGED vars
  BY <1>7 DEF vars, serviceVars, Quiet, Settled, MutexFree
<1>8. QED
  BY <1>3, <1>5, <1>6, <1>7 DEF Next, Rest

LEMMA InitQuiet == Init => Quiet
BY DEF Init, Idle, Quiet

LEMMA QuietAlways == Patient => (Spec => []Quiet)
<1> SUFFICES ASSUME Patient PROVE Spec => []Quiet
  OBVIOUS
<1>1. Base /\ Quiet /\ [Next]_vars => Quiet'
  BY NextQuiet
<1>2. QED
  BY <1>1, InitQuiet, BaseAlways, PTL DEF Spec

-----------------------------------------------------------------------------
(* What is marked for unloading is under way to it. *)

\* Steps that leave the requests and the jobs alone.
LEMMA WayStays ==
    ASSUME NEW a, UnderWay(a), UNCHANGED <<gRequests, lmJobs>>,
           Adding(a) => Adding(a)', context'[a].inst = context[a].inst
    PROVE  UnderWay(a)'
<1>1. CASE Adding(a)
  BY <1>1 DEF UnderWay
<1>2. CASE \E k \in DOMAIN gRequests : gRequests[k] = [app |-> a, target |-> "TERMINATING"]
  BY <1>2 DEF UnderWay
<1>3. CASE \E k \in DOMAIN lmJobs : Mine(lmJobs[k], a) /\ Ends(lmJobs[k])
  <2>1. PICK k \in DOMAIN lmJobs : Mine(lmJobs[k], a) /\ Ends(lmJobs[k])
    BY <1>3
  <2>2. k \in DOMAIN lmJobs' /\ Mine(lmJobs[k], a)' /\ Ends(lmJobs[k])'
    BY <2>1 DEF Mine, Ends
  <2>3. QED
    BY <2>2 DEF UnderWay
<1>4. QED
  BY <1>1, <1>2, <1>3 DEF UnderWay

LEMMA LeavingOfCalls ==
    ASSUME Base, Leaving, CallGoesOn
    PROVE  Leaving'
<1>1. TypeOK /\ CallOK /\ RequestsOK
  BY DEF Base
<1>2. Idle.pc = "idle"
  BY DEF Idle
<1>3. CASE Connector
  <2>1. /\ call # Idle /\ call.pc \in {"connect", "waitPause"} /\ UNCHANGED <<gRequests, lmJobs>>
        /\ Refused \/ SpawnAsked \/ StateAsked \/ EndAsked
    BY <1>1, <1>3, Connected DEF unchangedByConnect
  <2>2. /\ \A a \in DOMAIN context :
              /\ context'[a].inst = context[a].inst
              /\ context'[a].unloading = context[a].unloading \/ (EndAsked /\ a = call.app)
        /\ \A a \in DOMAIN context' : a \notin DOMAIN context => context'[a] = NewContext
        /\ EndAsked => call' = Idle \/ (call'.pc = "add" /\ call'.app = call.app)
    BY <1>1, <2>1, ContextsAfter
  <2>3. EndAsked => call'.pc = "add" /\ call'.app = call.app
    <3>1. call \in CallType
      BY <1>1, <2>1, CallTypes
    <3>2. \A g, n : \A c \in CallType :
             /\ [c EXCEPT !.pc = "add", !.target = g, !.then = n].pc = "add"
             /\ [c EXCEPT !.pc = "add", !.target = g, !.then = n].app = c.app
      BY DEF CallType
    <3>3. QED
      BY <3>1, <3>2 DEF EndAsked, Request
  <2>4. ASSUME NEW a \in DOMAIN context', context'[a].unloading
        PROVE  UnderWay(a)'
    <3>1. CASE EndAsked /\ a = call.app
      <4>1. call'.pc = "add" /\ call'.app = a
        BY <2>3, <3>1
      <4>2. QED
        BY <4>1 DEF UnderWay, Adding
    <3>2. CASE ~(EndAsked /\ a = call.app)
      <4>1. a \in DOMAIN context /\ context[a].unloading /\ context'[a].inst = context[a].inst
        BY <2>2, <2>4, <3>2 DEF NewContext
      <4>2. UnderWay(a) /\ ~Adding(a)
        BY <2>1, <4>1 DEF Leaving, Adding
      <4>3. QED
        BY <2>1, <4>1, <4>2, WayStays
    <3>3. QED
      BY <3>1, <3>2
  <2>5. QED
    BY <2>4 DEF Leaving
<1>4. CASE IsAppLoaded \/ PackageLock \/ getLoadedApps \/ SpawnReturn \/ PackageUnLock
  <2>1. UNCHANGED <<context, gRequests, lmJobs>> /\ call.pc # "add"
    BY <1>4 DEF IsAppLoaded, PackageLock, getLoadedApps, Connect, SpawnReturn, PackageUnLock,
                serviceVars, unchangedByConnect
  <2>2. \A a \in DOMAIN context : UnderWay(a) => UnderWay(a)'
    BY <2>1, WayStays DEF Adding
  <2>3. QED
    BY <2>1, <2>2 DEF Leaving
<1>5. CASE AddRequest
  <2>1. /\ call.pc = "add" /\ UNCHANGED <<context, lmJobs>>
        /\ gRequests' = Append(gRequests, [app |-> call.app, target |-> call.target])
        /\ gRequests \in Seq([app : Apps, target : LifecycleStates])
    BY <1>1, <1>5 DEF AddRequest, Add, TypeOK, ServiceTypeOK
  <2>2. call.app \in Apps /\ call.target \in LifecycleStates
    BY <1>1, <1>2, <2>1, CallTypes
  <2>3. /\ \A k \in DOMAIN gRequests : k \in DOMAIN gRequests' /\ gRequests'[k] = gRequests[k]
        /\ \E k \in DOMAIN gRequests' : gRequests'[k] = [app |-> call.app, target |-> call.target]
    <3>1. PICK e \in [app : Apps, target : LifecycleStates] : e = [app |-> call.app, target |-> call.target]
      BY <2>2
    <3>2. /\ Len(Append(gRequests, e)) = Len(gRequests) + 1
          /\ \A i \in 1..Len(gRequests) : Append(gRequests, e)[i] = gRequests[i]
          /\ Append(gRequests, e)[Len(gRequests) + 1] = e
          /\ Append(gRequests, e) \in Seq([app : Apps, target : LifecycleStates])
      <4>1. gRequests \in Seq([app : Apps, target : LifecycleStates])
        BY <2>1
      <4>2. QED
        BY <4>1, AppendProperties
    <3>3. DOMAIN gRequests = 1..Len(gRequests) /\ Len(gRequests) \in Nat
      BY <2>1, LenProperties
    <3>4. DOMAIN Append(gRequests, e) = 1..(Len(gRequests) + 1)
      BY <3>2, LenProperties
    <3>5. Len(gRequests) + 1 \in 1..(Len(gRequests) + 1)
      BY <3>3
    <3>6. QED
      BY <2>1, <3>1, <3>2, <3>3, <3>4, <3>5
  <2>4. ASSUME NEW a \in DOMAIN context', context'[a].unloading
        PROVE  UnderWay(a)'
    <3>1. a \in DOMAIN context /\ UnderWay(a)
      BY <2>1, <2>4 DEF Leaving
    <3>2. CASE Adding(a)
      <4>1. call.app = a /\ call.target = "TERMINATING"
        BY <1>1, <1>2, <2>1, <2>4, <3>1, <3>2 DEF Adding, CallOK, Loaded
      <4>2. QED
        BY <2>3, <4>1 DEF UnderWay
    <3>3. CASE \E k \in DOMAIN gRequests : gRequests[k] = [app |-> a, target |-> "TERMINATING"]
      BY <2>3, <3>3 DEF UnderWay
    <3>4. CASE \E k \in DOMAIN lmJobs : Mine(lmJobs[k], a) /\ Ends(lmJobs[k])
      BY <2>1, <3>4 DEF UnderWay, Mine, Ends
    <3>5. QED
      BY <3>1, <3>2, <3>3, <3>4 DEF UnderWay
  <2>5. QED
    BY <2>4 DEF Leaving
<1>6. QED
  BY <1>3, <1>4, <1>5 DEF CallGoesOn, Connector

LEMMA LeavingOfWorker ==
    ASSUME Base, Leaving, WorkerNext, UNCHANGED appVars
    PROVE  Leaving'
<1>1. /\ TypeOK /\ OnPath /\ Passing /\ RequestsOK /\ ContextsOK /\ JobsOK /\ UNCHANGED call
      /\ lmJobs \in Seq(JobType) /\ gRequests \in Seq([app : Apps, target : LifecycleStates])
  BY DEF Base, appVars, TypeOK, ServiceTypeOK
<1>2. CASE TakeRequest
  <2>1. /\ ~Busy /\ gRequests # <<>> /\ UNCHANGED <<context, lmJobs>>
        /\ UNCHANGED gRequests \/ (State = Head(gRequests).target /\ gRequests' = Tail(gRequests))
    BY <1>2 DEF TakeRequest, Busy
  <2>2. CASE UNCHANGED gRequests
    <3>1. \A a \in DOMAIN context : UnderWay(a) => UnderWay(a)'
      BY <1>1, <2>1, <2>2, WayStays DEF Adding
    <3>2. QED
      BY <2>1, <3>1 DEF Leaving
  <2>3. CASE State = Head(gRequests).target /\ gRequests' = Tail(gRequests)
    <3>1. Head(gRequests) = gRequests[1] /\ 1 \in DOMAIN gRequests
      BY <1>1, <2>1, HeadElement
    <3>2. gRequests[1].target # "TERMINATING"
      BY <1>1, <2>1, <2>3, <3>1 DEF Passing, RequestsOK, State, Cur
    <3>3. ASSUME NEW a \in DOMAIN context, context[a].unloading
          PROVE  UnderWay(a)'
      <4>1. UnderWay(a)
        BY <3>3 DEF Leaving
      <4>2. CASE \E k \in DOMAIN gRequests : gRequests[k] = [app |-> a, target |-> "TERMINATING"]
        <5>1. PICK k \in DOMAIN gRequests : gRequests[k] = [app |-> a, target |-> "TERMINATING"]
          BY <4>2
        <5>2. k # 1 /\ DOMAIN gRequests = 1..Len(gRequests) /\ Len(gRequests) \in Nat
          BY <1>1, <3>2, <5>1, LenProperties
        <5>3. /\ DOMAIN Tail(gRequests) = 1..(Len(gRequests) - 1)
              /\ \A m \in DOMAIN Tail(gRequests) : Tail(gRequests)[m] = gRequests[m + 1]
          BY <1>1, <2>1, TailElements
        <5>4. k - 1 \in 1..(Len(gRequests) - 1) /\ (k - 1) + 1 = k
          BY <5>2
        <5>5. k - 1 \in DOMAIN Tail(gRequests) /\ Tail(gRequests)[k - 1] = gRequests[k]
          BY <5>3, <5>4
        <5>6. QED
          BY <2>3, <5>1, <5>5 DEF UnderWay
      <4>3. CASE Adding(a) \/ \E k \in DOMAIN lmJobs : Mine(lmJobs[k], a) /\ Ends(lmJobs[k])
        BY <1>1, <2>1, <4>3 DEF UnderWay, Adding, Mine, Ends
      <4>4. QED
        BY <4>1, <4>2, <4>3 DEF UnderWay
    <3>4. QED
      BY <2>1, <3>3 DEF Leaving
  <2>4. QED
    BY <2>1, <2>2, <2>3
<1>3. CASE AskRuntime
  <2>1. UNCHANGED <<context, gRequests>> /\ Busy
    BY <1>3 DEF AskRuntime, Busy
  <2>2. \A k \in DOMAIN lmJobs : k \in DOMAIN lmJobs' /\ lmJobs'[k] = lmJobs[k]
    <3>1. PICK r1, r2 : /\ r1 = IF Head(worker.path) = "TERMINATING"
                                THEN Changed(context[Cur].inst, "TERMINATING") ELSE <<>>
                        /\ r2 = <<Signal(Cur)>>
      OBVIOUS
    <3>2. Cur \in Apps /\ context[Cur].inst \in Nat /\ State \in LifecycleStates
      BY <1>1, <2>1, Working, ContextTypes
    <3>3. r1 \in Seq(JobType) /\ r2 \in Seq(JobType)
      <4>1. Changed(context[Cur].inst, "TERMINATING") \in Seq(JobType) /\ <<>> \in Seq(JobType)
        BY <3>2 DEF Changed, StateChange, JobType, LifecycleStates
      <4>2. <<Signal(Cur)>> \in Seq(JobType)
        BY <3>2 DEF Signal, JobType, LifecycleStates
      <4>3. QED
        BY <3>1, <4>1, <4>2
    <3>4. lmJobs' = (lmJobs \o r1) \o r2
      BY <1>3, <3>1 DEF AskRuntime
    <3>5. PICK q \in Seq(JobType) : q = lmJobs \o r1
      BY <1>1, <3>3, BothParts
    <3>6. \A k \in DOMAIN lmJobs : k \in DOMAIN q /\ q[k] = lmJobs[k]
      BY <1>1, <3>3, <3>5, BothParts
    <3>7. \A k \in DOMAIN q : k \in DOMAIN (q \o r2) /\ (q \o r2)[k] = q[k]
      BY <3>3, BothParts
    <3>8. QED
      BY <3>4, <3>5, <3>6, <3>7
  <2>3. \A a \in DOMAIN context : UnderWay(a) => UnderWay(a)'
    BY <1>1, <2>1, <2>2 DEF UnderWay, Adding, Mine, Ends
  <2>4. QED
    BY <2>1, <2>3 DEF Leaving
<1>4. CASE EnterLoading \/ EnterAnswered \/ EnterOther
  <2>1. PICK s, c, r : Entered(s, c, r)
    BY <1>1, <1>4, EntersState
  <2>2. PICK a, t : a = Cur /\ t = Head(gRequests).target
    OBVIOUS
  <2>3. /\ a \in DOMAIN context /\ a = gRequests[1].app /\ t = gRequests[1].target
        /\ 1 \in DOMAIN gRequests /\ DOMAIN context' = DOMAIN context
        /\ context'[a].inst = c.inst
        /\ \A b \in DOMAIN context : b # a => context'[b] = context[b]
        /\ \A b \in DOMAIN context : context'[b].unloading = context[b].unloading
        /\ s \in LifecycleStates /\ <<context[a].state, s>> \in Edges
        /\ lmJobs' = lmJobs \o r
        /\ \/ s = Final(t) /\ gRequests' = Tail(gRequests)
           \/ UNCHANGED gRequests
    BY <1>1, <2>1, <2>2, AfterEnter
  <2>4. /\ Busy /\ r \in Seq(JobType)
        /\ \/ s = "LOADING" \/ c = context[a]
        /\ \/ r = <<StateChange(a, c.inst, context[a].state, s)>>
           \/ r = <<>> /\ s = "TERMINATING"
    BY <2>1, <2>2 DEF Entered, State
  <2>5. /\ \A k \in DOMAIN lmJobs : k \in DOMAIN lmJobs' /\ lmJobs'[k] = lmJobs[k]
        /\ \A i \in DOMAIN r : \E k \in DOMAIN lmJobs' : lmJobs'[k] = r[i]
    <3>1. PICK q : q = lmJobs \o r
      OBVIOUS
    <3>2. \A k \in DOMAIN lmJobs : k \in DOMAIN q /\ q[k] = lmJobs[k]
      BY <1>1, <2>4, <3>1, BothParts
    <3>3. \A i \in DOMAIN r : Len(lmJobs) + i \in DOMAIN q /\ q[Len(lmJobs) + i] = r[i]
      BY <1>1, <2>4, <3>1, BothParts
    <3>4. QED
      BY <2>3, <3>1, <3>2, <3>3
  <2>6. ASSUME NEW b \in DOMAIN context, context[b].unloading
        PROVE  UnderWay(b)'
    <3>1. UnderWay(b)
      BY <2>6 DEF Leaving
    <3>2. CASE Adding(b)
      BY <1>1, <3>2 DEF UnderWay, Adding
    <3>3. CASE \E k \in DOMAIN lmJobs : Mine(lmJobs[k], b) /\ Ends(lmJobs[k])
      <4>1. PICK k \in DOMAIN lmJobs : Mine(lmJobs[k], b) /\ Ends(lmJobs[k])
        BY <3>3
      <4>2. JobOK(lmJobs[k])
        BY <1>1 DEF JobsOK
      <4>3. context[b].state = "UNLOADED" /\ context[b].inst # 0
        BY <4>1, <4>2 DEF JobOK, Mine
      <4>4. b # a
        BY <1>1, <2>3, <4>3 DEF ContextsOK
      <4>5. Mine(lmJobs[k], b)' /\ Ends(lmJobs[k])' /\ k \in DOMAIN lmJobs'
        BY <2>3, <2>5, <4>1, <4>4 DEF Mine, Ends
      <4>6. QED
        BY <4>5 DEF UnderWay
    <3>4. CASE \E k \in DOMAIN gRequests : gRequests[k] = [app |-> b, target |-> "TERMINATING"]
      <4>1. PICK k \in DOMAIN gRequests : gRequests[k] = [app |-> b, target |-> "TERMINATING"]
        BY <3>4
      <4>2. CASE UNCHANGED gRequests
        BY <3>4, <4>2 DEF UnderWay
      <4>3. CASE s = Final(t) /\ gRequests' = Tail(gRequests) /\ k # 1
        <5>1. DOMAIN gRequests = 1..Len(gRequests) /\ Len(gRequests) \in Nat /\ gRequests # <<>>
          BY <1>1, <2>3, LenProperties
        <5>2. /\ DOMAIN Tail(gRequests) = 1..(Len(gRequests) - 1)
              /\ \A m \in DOMAIN Tail(gRequests) : Tail(gRequests)[m] = gRequests[m + 1]
          BY <1>1, <5>1, TailElements
        <5>3. k - 1 \in 1..(Len(gRequests) - 1) /\ (k - 1) + 1 = k
          BY <4>3, <5>1
        <5>4. k - 1 \in DOMAIN Tail(gRequests) /\ Tail(gRequests)[k - 1] = gRequests[k]
          BY <5>2, <5>3
        <5>5. QED
          BY <4>1, <4>3, <5>4 DEF UnderWay
      <4>4. CASE s = Final(t) /\ k = 1
        <5>1. b = a /\ t = "TERMINATING" /\ s = "UNLOADED"
          BY <2>3, <4>1, <4>4 DEF Final
        <5>2. PICK e : e = StateChange(a, c.inst, context[a].state, s)
          OBVIOUS
        <5>3. r = <<e>>
          BY <2>4, <5>1, <5>2
        <5>4. 1 \in DOMAIN r /\ r[1] = e
          BY <5>3
        <5>5. Mine(e, b)' /\ Ends(e)
          BY <2>3, <5>1, <5>2 DEF Mine, Ends, StateChange
        <5>6. \E m \in DOMAIN lmJobs' : lmJobs'[m] = e
          BY <2>5, <5>4
        <5>7. QED
          BY <5>5, <5>6 DEF UnderWay, Ends
      <4>5. QED
        BY <2>3, <4>2, <4>3, <4>4
    <3>5. QED
      BY <3>1, <3>2, <3>3, <3>4 DEF UnderWay
  <2>7. QED
    BY <2>3, <2>6 DEF Leaving
<1>5. QED
  BY <1>2, <1>3, <1>4 DEF WorkerNext

LEMMA LeavingOfDispatch ==
    ASSUME Base, Leaving, NEW k \in 1..PoolThreads, Dispatch(k), UNCHANGED appVars
    PROVE  Leaving'
<1>1. /\ JobsOK /\ UNCHANGED <<gRequests, call>> /\ k \in DOMAIN lmJobs /\ lmJobs \in Seq(JobType)
      /\ lmJobs' = TakeOut(lmJobs, k)
      /\ \A b \in DOMAIN context' : b \in DOMAIN context /\ context'[b] = context[b]
  BY DEF Base, Dispatch, appVars, TypeOK, ServiceTypeOK, Without
<1>2. \A m \in DOMAIN lmJobs : m # k => \E n \in DOMAIN lmJobs' : lmJobs'[n] = lmJobs[m]
  <2>1. /\ k \in Nat
        /\ \A m \in DOMAIN lmJobs :
              /\ m \in Nat \ {0}
              /\ m < k => m \in DOMAIN TakeOut(lmJobs, k) /\ TakeOut(lmJobs, k)[m] = lmJobs[m]
              /\ m > k => m - 1 \in DOMAIN TakeOut(lmJobs, k) /\ TakeOut(lmJobs, k)[m - 1] = lmJobs[m]
    BY <1>1, OneTaken
  <2>2. \A m \in DOMAIN lmJobs : m # k => m < k \/ m > k
    BY <2>1
  <2>3. QED
    BY <1>1, <2>1, <2>2
<1>3. ASSUME NEW b \in DOMAIN context', context'[b].unloading
      PROVE  UnderWay(b)'
  <2>1. UnderWay(b) /\ b \in DOMAIN context /\ context'[b] = context[b]
    BY <1>1, <1>3 DEF Leaving
  <2>2. CASE Adding(b) \/ \E m \in DOMAIN gRequests : gRequests[m] = [app |-> b, target |-> "TERMINATING"]
    BY <1>1, <2>2 DEF UnderWay, Adding
  <2>3. CASE \E m \in DOMAIN lmJobs : Mine(lmJobs[m], b) /\ Ends(lmJobs[m])
    <3>1. PICK m \in DOMAIN lmJobs : Mine(lmJobs[m], b) /\ Ends(lmJobs[m])
      BY <2>3
    <3>2. m # k
      <4>1. ASSUME m = k PROVE FALSE
        <5>1. HasInstance(b, lmJobs[k].inst)
          BY <1>1, <2>1, <3>1, <4>1 DEF JobsOK, JobOK, Mine, HasInstance, Loaded
        <5>2. lmJobs[k].kind = "STATE" /\ lmJobs[k].app = b /\ Ends(lmJobs[k])
          BY <3>1, <4>1 DEF Mine
        <5>3. context' = Without(context, b)
          BY <5>1, <5>2 DEF Dispatch
        <5>4. QED
          BY <1>3, <5>3 DEF Without
      <4>2. QED
        BY <4>1
    <3>3. PICK n \in DOMAIN lmJobs' : lmJobs'[n] = lmJobs[m]
      BY <1>2, <3>2
    <3>4. Mine(lmJobs[n], b)' /\ Ends(lmJobs[n])'
      BY <2>1, <3>1, <3>3 DEF Mine, Ends
    <3>5. QED
      BY <3>4 DEF UnderWay
  <2>4. QED
    BY <2>1, <2>2, <2>3 DEF UnderWay
<1>4. QED
  BY <1>3 DEF Leaving

LEMMA NextLeaving ==
    ASSUME Base, Leaving, [Next]_vars
    PROVE  Leaving'
<1>1. CASE \/ \E op \in Calls, a \in Apps : Begin(op, a)
           \/ Handler
           \/ \E k \in 1..PoolThreads : Tell(k)
           \/ UNCHANGED vars
  <2>1. UNCHANGED <<context, gRequests, lmJobs>> /\ (call = Idle \/ UNCHANGED call)
    BY <1>1 DEF Begin, Handler, HandlerLocks, OnAppLifecycleStateChanged, Tell, vars, serviceVars
  <2>2. \A a : Adding(a) => Adding(a)'
    BY <2>1 DEF Adding, Idle
  <2>3. \A a \in DOMAIN context : UnderWay(a) => UnderWay(a)'
    BY <2>1, <2>2, WayStays
  <2>4. QED
    BY <2>1, <2>3 DEF Leaving
<1>2. CASE ServiceNext /\ UNCHANGED appVars
  BY <1>2, LeavingOfWorker, LeavingOfDispatch DEF ServiceNext
<1>3. QED
  BY <1>1, <1>2, LeavingOfCalls DEF Next, Rest

LEMMA LeavingAlways == Spec => []Leaving
<1>1. Init => Leaving
  <2>1. ASSUME Init PROVE DOMAIN context = {}
    BY <2>1 DEF Init, ServiceInit
  <2>2. QED
    BY <2>1 DEF Leaving
<1>2. Base /\ Leaving /\ [Next]_vars => Leaving'
  BY NextLeaving
<1>3. QED
  BY <1>1, <1>2, BaseAlways, PTL DEF Spec
-----------------------------------------------------------------------------
(* One lock per package. *)

\* Clients that launch what is not visible, and packages with a path.
Thrifty == Patient /\ Frugal /\ "none" \notin Policies /\ "noPath" \notin PackageOutcomes

\* Which records may be without a loaded application, or with one that is
\* about to go.
RecordOK(a) ==
    /\ mAppInfo[a].version
    /\ Loaded(a) => (context[a].unloading =>
          call # Idle /\ call.app = a /\
          (call.pc = "unlock" \/ (call.pc = "add" /\ call.then = "unlock")))
    /\ ~Loaded(a) => call # Idle /\ call.app = a /\
          (call.pc = "unlock" \/ (call.pc = "connect" /\ call.op \in {"Launch", "Preload"}))

\* What holds of all records but in a few places of a call.
LEMMA RecordsLoaded ==
    ASSUME OneLock, NEW a \in DOMAIN mAppInfo
    PROVE  /\ RecordOK(a)
           /\ call = Idle \/ call.pc \notin {"unlock", "connect", "add"} =>
                 Loaded(a) /\ ~context[a].unloading
           /\ call.pc = "connect" => (Loaded(a) => ~context[a].unloading)
           /\ call.pc = "connect" /\ call.op \notin {"Launch", "Preload"} => Loaded(a)
           /\ call.pc = "add" => Loaded(a) /\ (call.then # "unlock" => ~context[a].unloading)
           /\ call # Idle /\ a # call.app => Loaded(a) /\ ~context[a].unloading
BY DEF OneLock, RecordOK, Idle

\* A call finds an application loaded that is not on its way out only with a
\* record.
LEMMA LoadedIsKnown ==
    ASSUME Base, call # Idle, call.pc \notin {"add", "unlock"}, Loaded(call.app)
    PROVE  Known(call.app) /\ ~context[call.app].unloading
BY DEF Base, CallOK, RecordsOK, Loaded

\* Steps that leave locks and records alone.
LEMMA LocksStay ==
    ASSUME OneLock, UNCHANGED <<locks, mAppInfo, call>>,
           \A a \in DOMAIN mAppInfo : RecordOK(a)',
           call.pc = "package" => UNCHANGED context
    PROVE  OneLock'
<1>1. \A a \in Apps : locks[a] = IF Known(a) /\ mAppInfo[a].version THEN 1 ELSE 0
  BY DEF OneLock
<1>2. \A a \in Apps : locks'[a] = IF a \in DOMAIN mAppInfo' /\ mAppInfo'[a].version THEN 1 ELSE 0
  BY <1>1 DEF Known
<1>3. /\ call.pc = "isLoaded" => call.op \in {"Launch", "Preload"} /\
            (Known(call.app) => InState(call.app, {"SUSPENDED", "PAUSED", "HIBERNATED"}))
      /\ call.pc = "package" => call.op \in {"Launch", "Preload"} /\ (Known(call.app) => SkipLock)
  BY DEF OneLock
<1>4. QED
  BY <1>2, <1>3 DEF OneLock, RecordOK, Known, InState, SkipLock, Loaded

LEMMA LocksOfService ==
    ASSUME Base, Quiet, OneLock, ServiceNext, UNCHANGED appVars
    PROVE  OneLock'
<1>1. TypeOK /\ OnPath /\ JobsOK /\ ContextsOK /\ UNCHANGED <<locks, mAppInfo, call>>
  BY DEF Base, appVars
<1>2. CASE WorkerNext
  <2>1. DOMAIN context' = DOMAIN context /\ \A a \in DOMAIN context : context'[a].unloading = context[a].unloading
    <3>1. CASE TakeRequest \/ AskRuntime
      BY <3>1 DEF TakeRequest, AskRuntime
    <3>2. CASE EnterLoading \/ EnterAnswered \/ EnterOther
      <4>1. PICK s, c, r : Entered(s, c, r)
        BY <1>1, <3>2, EntersState
      <4>2. PICK a, t : a = Cur /\ t = Head(gRequests).target
        OBVIOUS
      <4>3. QED
        BY <1>1, <4>1, <4>2, AfterEnter
    <3>3. QED
      BY <1>2, <3>1, <3>2 DEF WorkerNext
  <2>2. \A a \in DOMAIN mAppInfo : RecordOK(a)'
    BY <1>1, <2>1, RecordsLoaded DEF RecordOK, Loaded
  <2>3. call.pc # "package"
    BY <1>2 DEF Quiet, Settled, MutexFree, WorkerNext, TakeRequest, EnterLoading, AskRuntime, EnterAnswered, EnterOther
  <2>4. QED
    BY <1>1, <2>2, <2>3, LocksStay
<1>3. ASSUME NEW k \in 1..PoolThreads, Dispatch(k)
      PROVE  OneLock'
  <2>1. /\ k \in DOMAIN lmJobs /\ lmJobs \in Seq(JobType)
        /\ \A b \in DOMAIN context' : b \in DOMAIN context /\ context'[b] = context[b]
        /\ \A b \in DOMAIN context : b \notin DOMAIN context' =>
              /\ lmJobs[k].kind = "STATE" /\ Ends(lmJobs[k]) /\ HasInstance(lmJobs[k].app, lmJobs[k].inst)
              /\ b = lmJobs[k].app
    BY <1>1, <1>3 DEF Dispatch, Without, TypeOK, ServiceTypeOK
  <2>2. ASSUME NEW b \in DOMAIN context, b \notin DOMAIN context', b \in DOMAIN mAppInfo
        PROVE  call # Idle /\ call.app = b /\ call.pc = "unlock"
    <3>1. context[b].state = "UNLOADED" /\ context[b].inst # 0
      BY <1>1, <2>1, <2>2 DEF JobsOK, JobOK, Mine, HasInstance
    <3>2. context[b].unloading /\ ~Adding(b)
      BY <1>1, <3>1 DEF ContextsOK
    <3>3. QED
      BY <2>2, <3>2, RecordsLoaded DEF RecordOK, Loaded, Adding
  <2>3. \A a \in DOMAIN mAppInfo : RecordOK(a)'
    BY <1>1, <2>1, <2>2, RecordsLoaded DEF RecordOK, Loaded
  <2>4. DOMAIN lmJobs # {}
    BY <2>1
  <2>5. lmJobs # <<>>
    BY <2>4
  <2>6. call.pc # "package"
    BY <2>5 DEF Quiet, Settled
  <2>7. QED
    BY <1>1, <2>3, <2>6, LocksStay
<1>4. QED
  BY <1>2, <1>3 DEF ServiceNext

\* The first step of a call.
LEMMA LocksOfBegin ==
    ASSUME Thrifty, Base, OneLock, NEW op \in Calls, NEW a \in Apps, Begin(op, a)
    PROVE  OneLock'
<1>1. /\ call = Idle /\ UNCHANGED <<locks, mAppInfo, context>> /\ call'.app = a /\ call'.op = op
      /\ call'.pc = IF op \in {"Launch", "Preload"} THEN "isLoaded" ELSE "connect"
      /\ op \in {"Launch", "Preload"} =>
            ~Loaded(a) \/ InState(a, {"SUSPENDED", "PAUSED", "HIBERNATED"})
  BY DEF Begin, serviceVars, May, Thrifty
<1>2. \A x \in Apps : locks[x] = IF Known(x) /\ mAppInfo[x].version THEN 1 ELSE 0
  BY DEF OneLock
<1>3. \A x \in DOMAIN mAppInfo : mAppInfo[x].version /\ Loaded(x) /\ ~context[x].unloading
  BY <1>1, RecordsLoaded DEF RecordOK
<1>4. QED
  BY <1>1, <1>2, <1>3 DEF OneLock, Known, Loaded, InState

LEMMA LocksOfHandler ==
    ASSUME Base, Quiet, OneLock, Handler
    PROVE  OneLock'
<1>1. TypeOK
  BY DEF Base
<1>2. CASE HandlerLocks
  <2>1. UNCHANGED <<locks, mAppInfo, call, context>>
    BY <1>2 DEF HandlerLocks
  <2>2. \A a \in DOMAIN mAppInfo : RecordOK(a)'
    BY <2>1, RecordsLoaded DEF RecordOK, Loaded
  <2>3. QED
    BY <2>1, <2>2, LocksStay
<1>3. CASE OnAppLifecycleStateChanged
  <2>1. UNCHANGED <<locks, call, context>> /\ event # NoEvent
    BY <1>3 DEF OnAppLifecycleStateChanged, NoEvent
  <2>2. /\ DOMAIN mAppInfo' = DOMAIN mAppInfo
        /\ \A a \in DOMAIN mAppInfo : mAppInfo'[a].version = mAppInfo[a].version
    <3>1. PICK j : j = event.job
      OBVIOUS
    <3>2. \A s : \A r \in InfoType : [r EXCEPT !.new = s].version = r.version
      BY DEF InfoType
    <3>3. CASE Known(j.app) /\ mAppInfo[j.app].inst = j.inst
      <4>1. mAppInfo' = [mAppInfo EXCEPT ![j.app] = [mAppInfo[j.app] EXCEPT !.new = j.new]]
        BY <1>3, <3>1, <3>3 DEF OnAppLifecycleStateChanged
      <4>2. QED
        BY <1>1, <3>2, <3>3, <4>1 DEF TypeOK, Known
    <3>4. CASE ~(Known(j.app) /\ mAppInfo[j.app].inst = j.inst)
      BY <1>3, <3>1, <3>4 DEF OnAppLifecycleStateChanged
    <3>5. QED
      BY <3>3, <3>4
  <2>3. call.pc \notin {"isLoaded", "package"}
    BY <2>1 DEF Quiet, Settled
  <2>4. \A a \in DOMAIN mAppInfo : RecordOK(a)'
    BY <2>1, <2>2, RecordsLoaded DEF RecordOK, Loaded
  <2>5. \A a \in Apps : locks[a] = IF Known(a) /\ mAppInfo[a].version THEN 1 ELSE 0
    BY DEF OneLock
  <2>6. QED
    BY <2>1, <2>2, <2>3, <2>4, <2>5 DEF OneLock, RecordOK, Known
<1>4. QED
  BY <1>2, <1>3 DEF Handler

\* The calls of the connector.
LEMMA LocksOfConnector ==
    ASSUME Thrifty, Base, OneLock, Connector
    PROVE  OneLock'
<1>1. TypeOK /\ CallOK /\ RecordsOK
  BY DEF Base
<1>2. /\ call # Idle /\ call.pc \in {"connect", "waitPause"} /\ UNCHANGED locks /\ SameRecords
      /\ Refused \/ SpawnAsked \/ StateAsked \/ EndAsked
  BY <1>1, Connected DEF unchangedByConnect
<1>3. PICK a : a = call.app
  OBVIOUS
<1>4. /\ call' = Idle \/ (call'.pc = "add" /\ call'.app = a)
      /\ \A b \in DOMAIN context :
            /\ b \in DOMAIN context'
            /\ context'[b].unloading = context[b].unloading \/ (EndAsked /\ b = a)
      /\ \A b \in DOMAIN context' : b \notin DOMAIN context =>
            SpawnAsked /\ b = a /\ context'[b] = NewContext
  BY <1>1, <1>2, <1>3, ContextsAfter
<1>5. \A b \in Apps : locks'[b] = IF b \in DOMAIN mAppInfo' /\ mAppInfo'[b].version THEN 1 ELSE 0
  BY <1>1, <1>2 DEF OneLock, SameRecords, Known, TypeOK
<1>6. Idle.pc = "idle"
  BY DEF Idle
<1>7. call'.pc \in {"idle", "add"}
  BY <1>4, <1>6
<1>8. ASSUME NEW b \in DOMAIN mAppInfo
      PROVE  Loaded(b) => ~context[b].unloading
  BY <1>2, RecordsLoaded
<1>9. ASSUME NEW b \in DOMAIN mAppInfo
      PROVE  Loaded(b) \/ (SpawnAsked /\ b = a)
  <2>1. CASE call.pc = "waitPause" \/ call.op \notin {"Launch", "Preload"} \/ b # a
    BY <1>2, <1>3, <2>1, RecordsLoaded
  <2>2. CASE call.pc = "connect" /\ call.op \in {"Launch", "Preload"} /\ b = a
    <3>1. launch \/ preLoadApp
      BY <2>2 DEF Connector, launch, preLoadApp, closeApp, closeAppWaited, terminateApp, Connect
    <3>2. Loaded(a) \/ \E s \in {"ACTIVE", "PAUSED"}, act \in {"LAUNCH", "PRELOAD"} : SpawnOrSuspend(s, act)
      BY <1>3, <3>1 DEF launch, preLoadApp
    <3>3. QED
      BY <1>1, <2>2, <3>2, SpawnIsAsked
  <2>3. QED
    BY <1>2, <2>1, <2>2
<1>10. /\ EndAsked => call'.pc = "add" /\ call'.then = "unlock" /\ call'.app = a /\ call' # Idle
       /\ SpawnAsked => call'.pc = "add" /\ call' # Idle /\ call.app \in DOMAIN context'
  <2>1. call \in CallType
    BY <1>1, <1>2, CallTypes
  <2>2. \A g, n : \A c \in CallType :
           /\ [c EXCEPT !.pc = "add", !.target = g, !.then = n].pc = "add"
           /\ [c EXCEPT !.pc = "add", !.target = g, !.then = n].then = n
           /\ [c EXCEPT !.pc = "add", !.target = g, !.then = n].app = c.app
    BY DEF CallType
  <2>3. EndAsked => call'.pc = "add" /\ call'.then = "unlock" /\ call'.app = a
    BY <1>3, <2>1, <2>2 DEF EndAsked, Request, Thrifty
  <2>4. SpawnAsked => call'.pc = "add"
    BY <2>1, <2>2 DEF SpawnAsked, Request
  <2>5. SpawnAsked => call.app \in DOMAIN context'
    BY DEF SpawnAsked, EnsureContext, Loaded, With
  <2>6. QED
    BY <1>6, <2>3, <2>4, <2>5
<1>11. ASSUME NEW b \in DOMAIN mAppInfo
       PROVE  RecordOK(b)'
  <2>1. mAppInfo'[b].version
    BY <1>2, RecordsLoaded DEF RecordOK, SameRecords
  <2>2. b \in DOMAIN context'
    BY <1>3, <1>4, <1>9, <1>10 DEF Loaded
  <2>3. context'[b].unloading => EndAsked /\ b = a
    <3>1. CASE b \in DOMAIN context
      BY <1>4, <1>8, <3>1 DEF Loaded
    <3>2. CASE b \notin DOMAIN context
      BY <1>4, <2>2, <3>2 DEF NewContext
    <3>3. QED
      BY <3>1, <3>2
  <2>4. QED
    BY <1>10, <2>1, <2>2, <2>3 DEF RecordOK, Loaded
<1>12. DOMAIN mAppInfo' = DOMAIN mAppInfo
  BY <1>2 DEF SameRecords
<1>13. \A b \in DOMAIN mAppInfo' : RecordOK(b)'
  BY <1>11, <1>12
<1>14. QED
  BY <1>5, <1>7, <1>13 DEF OneLock, RecordOK, Known

LEMMA LocksOfAdd ==
    ASSUME Base, OneLock, AddRequest
    PROVE  OneLock'
<1>1. TypeOK /\ CallOK
  BY DEF Base
<1>2. Idle.pc = "idle"
  BY DEF Idle
<1>3. /\ call.pc = "add" /\ call # Idle /\ UNCHANGED <<context, mAppInfo, locks>>
  BY <1>2 DEF AddRequest
<1>4. call \in CallType
  BY <1>1, <1>3, CallTypes
<1>5. \/ call' = Idle /\ call.then # "unlock"
      \/ /\ call.then = "hibernate" /\ call' # Idle /\ call'.pc = "add" /\ call'.app = call.app
      \/ /\ call.then \in {"spawned", "unlock", "waitPause"}
         /\ call' # Idle /\ call'.pc = call.then /\ call'.app = call.app
  <2>1. \A c \in CallType : /\ [c EXCEPT !.target = "HIBERNATED", !.then = "return"].pc = c.pc
                            /\ [c EXCEPT !.target = "HIBERNATED", !.then = "return"].app = c.app
                            /\ [c EXCEPT !.pc = c.then].pc = c.then
                            /\ [c EXCEPT !.pc = c.then].app = c.app
    BY DEF CallType
  <2>2. \/ call' = Idle /\ call.then = "return"
        \/ call.then = "hibernate" /\ call' = [call EXCEPT !.target = "HIBERNATED", !.then = "return"]
        \/ call.then \in {"spawned", "unlock", "waitPause"} /\ call' = [call EXCEPT !.pc = call.then]
    BY <1>1, <1>3, CallTypes DEF AddRequest
  <2>3. CASE call' = Idle /\ call.then = "return"
    BY <2>3
  <2>4. CASE call.then = "hibernate" /\ call' = [call EXCEPT !.target = "HIBERNATED", !.then = "return"]
    <3>1. call'.pc = "add" /\ call'.app = call.app
      BY <1>3, <1>4, <2>1, <2>4
    <3>2. QED
      BY <1>2, <2>4, <3>1
  <2>5. CASE call.then \in {"spawned", "unlock", "waitPause"} /\ call' = [call EXCEPT !.pc = call.then]
    <3>1. call'.pc = call.then /\ call'.app = call.app
      BY <1>4, <2>1, <2>5
    <3>2. QED
      BY <1>2, <2>5, <3>1
  <2>6. QED
    BY <2>2, <2>3, <2>4, <2>5
<1>6. \A a \in DOMAIN mAppInfo :
         /\ mAppInfo[a].version /\ Loaded(a)
         /\ context[a].unloading => a = call.app /\ call.then = "unlock"
  BY <1>2, <1>3, RecordsLoaded DEF RecordOK
<1>7. \A a \in DOMAIN mAppInfo' : RecordOK(a)'
  BY <1>3, <1>5, <1>6 DEF RecordOK, Loaded
<1>8. \A a \in Apps : locks[a] = IF Known(a) /\ mAppInfo[a].version THEN 1 ELSE 0
  BY DEF OneLock
<1>9. call'.pc \notin {"isLoaded", "package"}
  BY <1>2, <1>5
<1>10. QED
  BY <1>3, <1>7, <1>8, <1>9 DEF OneLock, RecordOK, Known

LEMMA LocksOfPackage ==
    ASSUME Thrifty, Base, OneLock, IsAppLoaded \/ PackageLock \/ PackageUnLock
    PROVE  OneLock'
<1>1. TypeOK /\ CallOK /\ RecordsOK
  BY DEF Base
<1>2. Idle.pc = "idle"
  BY DEF Idle
<1>3. UNCHANGED context /\ call # Idle /\ call \in CallType /\ call.app \in Apps
  <2>1. UNCHANGED context /\ call.pc \in {"isLoaded", "package", "unlock"}
    BY DEF IsAppLoaded, PackageLock, PackageUnLock, serviceVars
  <2>2. QED
    BY <1>1, <1>2, <2>1, CallTypes
<1>4. \A a \in Apps : locks[a] = IF Known(a) /\ mAppInfo[a].version THEN 1 ELSE 0
  BY DEF OneLock
<1>5. CASE IsAppLoaded
  <2>1. /\ call.pc = "isLoaded" /\ UNCHANGED <<mAppInfo, locks>>
        /\ call'.pc = "package" /\ call'.app = call.app /\ call'.op = call.op
        /\ call'.loaded = Loaded(call.app)
    <3>1. \A b : \A c \in CallType :
             /\ [c EXCEPT !.pc = "package", !.loaded = b].pc = "package"
             /\ [c EXCEPT !.pc = "package", !.loaded = b].app = c.app
             /\ [c EXCEPT !.pc = "package", !.loaded = b].op = c.op
             /\ [c EXCEPT !.pc = "package", !.loaded = b].loaded = b
      BY DEF CallType
    <3>2. QED
      BY <1>3, <1>5, <3>1 DEF IsAppLoaded
  <2>2. \A a \in DOMAIN mAppInfo : mAppInfo[a].version /\ Loaded(a) /\ ~context[a].unloading
    BY <2>1, RecordsLoaded DEF RecordOK
  <2>3. /\ call.op \in {"Launch", "Preload"}
        /\ Known(call.app) => InState(call.app, {"SUSPENDED", "PAUSED", "HIBERNATED"}) /\ Loaded(call.app)
    BY <2>1, <2>2 DEF OneLock, Known
  <2>4. \A a \in DOMAIN mAppInfo' : RecordOK(a)'
    BY <1>3, <2>1, <2>2 DEF RecordOK, Loaded
  <2>5. Known(call.app)' => SkipLock'
    BY <1>3, <2>1, <2>3 DEF Known, SkipLock, InState
  <2>6. QED
    BY <1>4, <2>1, <2>3, <2>4, <2>5 DEF OneLock, RecordOK, Known
<1>6. CASE PackageLock
  <2>1. call.pc = "package" /\ call.op \in {"Launch", "Preload"} /\ (Known(call.app) => SkipLock)
    BY <1>6 DEF PackageLock, OneLock
  <2>2. \A a \in DOMAIN mAppInfo : mAppInfo[a].version /\ Loaded(a) /\ ~context[a].unloading
    BY <2>1, RecordsLoaded DEF RecordOK
  <2>3. [call EXCEPT !.pc = "connect"] # Idle
        /\ [call EXCEPT !.pc = "connect"].pc = "connect"
        /\ [call EXCEPT !.pc = "connect"].app = call.app
        /\ [call EXCEPT !.pc = "connect"].op = call.op
    <3>1. \A c \in CallType : /\ [c EXCEPT !.pc = "connect"].pc = "connect"
                              /\ [c EXCEPT !.pc = "connect"].app = c.app
                              /\ [c EXCEPT !.pc = "connect"].op = c.op
      BY DEF CallType
    <3>2. QED
      BY <1>2, <1>3, <3>1
  <2>4. CASE UNCHANGED <<mAppInfo, locks>> /\ (call' = Idle \/ call' = [call EXCEPT !.pc = "connect"])
    <3>1. \A a \in DOMAIN mAppInfo' : RecordOK(a)'
      BY <1>3, <2>2, <2>4 DEF RecordOK, Loaded
    <3>2. call'.pc \in {"idle", "connect"}
      BY <1>2, <2>3, <2>4
    <3>3. QED
      BY <1>4, <2>4, <3>1, <3>2 DEF OneLock, RecordOK, Known
  <2>5. CASE /\ ~SkipLock /\ locks' = [locks EXCEPT ![call.app] = @ + 1]
             /\ WithPackage /\ call' = [call EXCEPT !.pc = "connect"]
    <3>1. PICK a : a = call.app
      OBVIOUS
    <3>2. ~Known(a) /\ locks[a] = 0 /\ ~Loaded(a)
      BY <1>1, <1>3, <1>4, <2>1, <2>5, <3>1, LoadedIsKnown
    <3>3. locks'[a] = 1 /\ \A b \in Apps : b # a => locks'[b] = locks[b]
      BY <1>1, <1>3, <2>5, <3>1, <3>2 DEF TypeOK
    <3>4. /\ DOMAIN mAppInfo' = DOMAIN mAppInfo \cup {a} /\ mAppInfo'[a].version
          /\ \A b \in DOMAIN mAppInfo : b # a => mAppInfo'[b] = mAppInfo[b]
      <4>1. PICK r : r = [Info(a) EXCEPT !.version = TRUE]
        OBVIOUS
      <4>2. r \in InfoType /\ r.version
        <5>1. \A i \in InfoType : [i EXCEPT !.version = TRUE] \in InfoType /\ [i EXCEPT !.version = TRUE].version
          BY DEF InfoType
        <5>2. QED
          BY <1>1, <1>3, <3>1, <4>1, <5>1, InfoTypes
      <4>3. SetInfo(a, r)
        BY <2>5, <3>1, <4>1 DEF WithPackage
      <4>4. QED
        BY <1>1, <1>3, <3>1, <4>2, <4>3, SetInfoTypes
    <3>5. call' # Idle /\ call'.pc = "connect" /\ call'.app = a /\ call'.op \in {"Launch", "Preload"}
      BY <2>1, <2>3, <2>5, <3>1
    <3>6. \A b \in DOMAIN mAppInfo' : RecordOK(b)'
      BY <1>3, <2>2, <3>2, <3>4, <3>5 DEF RecordOK, Loaded
    <3>7. \A b \in Apps : locks'[b] = IF b \in DOMAIN mAppInfo' /\ mAppInfo'[b].version THEN 1 ELSE 0
      BY <1>4, <3>3, <3>4 DEF Known
    <3>8. QED
      BY <3>5, <3>6, <3>7 DEF OneLock, RecordOK, Known
  <2>6. QED
    <3>1. CASE SkipLock
      BY <1>6, <2>4, <3>1 DEF PackageLock
    <3>2. CASE ~SkipLock
      <4>1. PICK o \in PackageOutcomes :
                /\ locks' = IF o = "failed" THEN locks ELSE [locks EXCEPT ![call.app] = @ + 1]
                /\ IF o = "locked"
                   THEN WithPackage /\ call' = [call EXCEPT !.pc = "connect"]
                   ELSE UNCHANGED mAppInfo /\ call' = Idle
        BY <1>6, <3>2 DEF PackageLock
      <4>2. o \in {"locked", "failed"}
        BY ConstantsAssumption DEF Thrifty
      <4>3. QED
        BY <2>4, <2>5, <3>2, <4>1, <4>2
    <3>3. QED
      BY <3>1, <3>2
<1>7. CASE PackageUnLock
  <2>1. call.pc = "unlock" /\ call' = Idle
    BY <1>7 DEF PackageUnLock
  <2>2. PICK a : a = call.app
    OBVIOUS
  <2>3. /\ \A b \in DOMAIN mAppInfo' : b # a /\ b \in DOMAIN mAppInfo /\ mAppInfo'[b] = mAppInfo[b]
        /\ \A b \in DOMAIN mAppInfo : b # a => b \in DOMAIN mAppInfo'
        /\ locks'[a] = 0 /\ \A b \in Apps : b # a => locks'[b] = locks[b]
    <3>1. CASE Known(a)
      <4>1. mAppInfo[a].version /\ locks[a] = 1
        BY <1>3, <1>4, <2>2, <3>1, RecordsLoaded DEF RecordOK, Known
      <4>2. UnlockDone
        BY <2>2, <3>1, <4>1 DEF UnlockDone, Info
      <4>3. locks' = [locks EXCEPT ![a] = @ - 1] /\ mAppInfo' = Without(mAppInfo, a)
        BY <1>7, <2>2, <4>2 DEF PackageUnLock
      <4>4. locks'[a] = 0 /\ \A b \in Apps : b # a => locks'[b] = locks[b]
        BY <1>1, <1>3, <2>2, <4>1, <4>3 DEF TypeOK
      <4>5. QED
        BY <4>3, <4>4 DEF Without
    <3>2. CASE ~Known(a)
      <4>1. ~UnlockDone
        BY <2>2, <3>2 DEF UnlockDone, Info, NewInfo
      <4>2. UNCHANGED <<locks, mAppInfo>>
        BY <1>7, <4>1 DEF PackageUnLock
      <4>3. QED
        BY <1>3, <1>4, <2>2, <3>2, <4>2 DEF Known
    <3>3. QED
      BY <3>1, <3>2
  <2>4. \A b \in DOMAIN mAppInfo' : RecordOK(b)'
    <3>1. \A b \in DOMAIN mAppInfo' : mAppInfo[b].version /\ Loaded(b) /\ ~context[b].unloading
      BY <1>3, <2>2, <2>3, RecordsLoaded DEF RecordOK
    <3>2. QED
      BY <1>3, <2>3, <3>1 DEF RecordOK, Loaded
  <2>5. \A b \in Apps : locks'[b] = IF b \in DOMAIN mAppInfo' /\ mAppInfo'[b].version THEN 1 ELSE 0
    BY <1>4, <2>3 DEF Known
  <2>6. QED
    BY <1>2, <2>1, <2>4, <2>5 DEF OneLock, RecordOK, Known
<1>8. QED
  BY <1>5, <1>6, <1>7

LEMMA LocksOfReturns ==
    ASSUME Base, Quiet, Leaving, OneLock, getLoadedApps \/ SpawnReturn
    PROVE  OneLock'
<1>1. TypeOK /\ CallOK /\ RecordsOK
  BY DEF Base
<1>2. Idle.pc = "idle"
  BY DEF Idle
<1>3. UNCHANGED <<context, locks>> /\ call' = Idle
  BY DEF getLoadedApps, SpawnReturn, serviceVars, unchangedByConnect
<1>4. \A a \in Apps : locks[a] = IF Known(a) /\ mAppInfo[a].version THEN 1 ELSE 0
  BY DEF OneLock
<1>5. /\ \A a \in DOMAIN mAppInfo : mAppInfo[a].version /\ Loaded(a) /\ ~context[a].unloading
      /\ DOMAIN mAppInfo' = DOMAIN mAppInfo
      /\ \A a \in DOMAIN mAppInfo : mAppInfo'[a].version = mAppInfo[a].version
  <2>1. CASE getLoadedApps
    <3>1. call.pc = "connect" /\ call.op = "GetLoaded"
      BY <2>1 DEF getLoadedApps, Connect
    <3>2. \A a \in DOMAIN mAppInfo : mAppInfo[a].version /\ Loaded(a) /\ ~context[a].unloading
      BY <3>1, RecordsLoaded DEF RecordOK
    <3>3. gRequests = <<>> /\ lmJobs = <<>>
      BY <3>1 DEF Quiet, Settled
    <3>4. DOMAIN gRequests = {} /\ DOMAIN lmJobs = {}
      BY <3>3
    <3>5. \A a \in DOMAIN context : a \in DOMAIN mAppInfo
      BY <1>1, <3>1, <3>4 DEF RecordsOK, Known, Leaving, UnderWay, Adding
    <3>6. DOMAIN mAppInfo' = DOMAIN mAppInfo
      BY <2>1, <3>5 DEF getLoadedApps
    <3>7. ASSUME NEW a \in DOMAIN mAppInfo
          PROVE  mAppInfo'[a].version = mAppInfo[a].version
      <4>1. Loaded(a) /\ mAppInfo[a] \in InfoType
        BY <1>1, <3>2 DEF TypeOK
      <4>2. mAppInfo'[a] = [mAppInfo[a] EXCEPT !.inst = context[a].inst, !.new = context[a].state]
        BY <2>1, <4>1 DEF getLoadedApps, Info, Known
      <4>3. \A i, s : \A r \in InfoType : [r EXCEPT !.inst = i, !.new = s].version = r.version
        BY DEF InfoType
      <4>4. QED
        BY <4>1, <4>2, <4>3
    <3>8. QED
      BY <3>2, <3>6, <3>7
  <2>2. CASE SpawnReturn
    <3>1. /\ call.pc = "spawned" /\ call # Idle
          /\ SetInfo(call.app, [Info(call.app) EXCEPT !.inst = context[call.app].inst])
      BY <1>2, <2>2 DEF SpawnReturn, StoreInstance
    <3>2. \A a \in DOMAIN mAppInfo : mAppInfo[a].version /\ Loaded(a) /\ ~context[a].unloading
      BY <3>1, RecordsLoaded DEF RecordOK
    <3>3. Known(call.app)
      BY <1>1, <3>1 DEF CallOK
    <3>4. \A i : \A r \in InfoType : [r EXCEPT !.inst = i].version = r.version
      BY DEF InfoType
    <3>5. PICK a, r : a = call.app /\ r = [mAppInfo[a] EXCEPT !.inst = context[a].inst]
      OBVIOUS
    <3>6. a \in DOMAIN mAppInfo /\ r.version = mAppInfo[a].version /\ SetInfo(a, r)
      BY <1>1, <3>1, <3>3, <3>4, <3>5 DEF TypeOK, Info, Known
    <3>7. QED
      BY <3>2, <3>6 DEF SetInfo, With
  <2>3. QED
    BY <2>1, <2>2
<1>6. \A a \in DOMAIN mAppInfo' : RecordOK(a)'
  BY <1>3, <1>5 DEF RecordOK, Loaded
<1>7. QED
  BY <1>2, <1>3, <1>4, <1>5, <1>6 DEF OneLock, RecordOK, Known

LEMMA NextOneLock ==
    ASSUME Thrifty, Base, Quiet, Leaving, OneLock, [Next]_vars
    PROVE  OneLock'
<1>1. CASE (\E k \in 1..PoolThreads : Tell(k)) \/ UNCHANGED vars
  <2>1. UNCHANGED <<locks, mAppInfo, call, context>>
    BY <1>1 DEF Tell, vars, serviceVars
  <2>2. \A a \in DOMAIN mAppInfo : RecordOK(a)'
    BY <2>1, RecordsLoaded DEF RecordOK, Loaded
  <2>3. QED
    BY <2>1, <2>2, LocksStay
<1>2. CASE CallGoesOn
  BY <1>2, LocksOfConnector, LocksOfAdd, LocksOfPackage, LocksOfReturns DEF CallGoesOn, Connector
<1>3. QED
  BY <1>1, <1>2, LocksOfBegin, LocksOfHandler, LocksOfService DEF Next, Rest

LEMMA InitOneLock == Init => OneLock
<1> SUFFICES ASSUME Init PROVE OneLock
  OBVIOUS
<1>1. DOMAIN mAppInfo = {} /\ call = Idle /\ \A a \in Apps : locks[a] = 0
  BY DEF Init
<1>2. QED
  BY <1>1 DEF OneLock, Known, Idle

\* When clients wait for an earlier call to take effect and launch only what
\* is not visible, no package has more than the one lock of its record, and
\* the packages without a record have none.
THEOREM PackagesLockedOnce == Thrifty => (Spec => []PackageLockedOnce)
<1> SUFFICES ASSUME Thrifty PROVE Spec => []PackageLockedOnce
  OBVIOUS
<1>1. Spec => []Quiet
  BY QuietAlways DEF Thrifty
<1>2. Base /\ Quiet /\ Leaving /\ OneLock /\ [Next]_vars => OneLock'
  BY NextOneLock
<1>3. OneLock => PackageLockedOnce
  BY DEF OneLock, PackageLockedOnce
<1>4. QED
  BY <1>1, <1>2, <1>3, InitOneLock, BaseAlways, LeavingAlways, PTL DEF Spec
-----------------------------------------------------------------------------
(* Closing. *)

Waits == call.pc = "waitPause" \/ (call.pc = "add" /\ call.then = "waitPause")

\* What Closing says of the application that is closed.
OnWay(a) ==
    /\ \A k \in DOMAIN gRequests : gRequests[k].app = a /\ gRequests[k].target = "PAUSED"
    /\ Busy => ~PausedNow(a)
Heard(a) ==
    /\ Known(a) /\ mAppInfo[a].new = "PAUSED" => PausedNow(a)
    /\ \A k \in DOMAIN lmJobs : Mine(lmJobs[k], a) /\ lmJobs[k].new = "PAUSED" => PausedNow(a)
    /\ InHand(a) /\ event.job.new = "PAUSED" => PausedNow(a)

LEMMA ClosingParts ==
    Closing <=> (Waits => /\ OnWay(call.app) /\ Heard(call.app)
                          /\ call.pc = "add" => call.target = "PAUSED" /\ ~Busy /\ gRequests = <<>>)
BY DEF Closing, Waits, OnWay, Heard

LEMMA WaitsFor ==
    ASSUME Base, News, Waits
    PROVE  /\ call # Idle /\ Loaded(call.app)
           /\ ~Spawning(call.app) /\ context[call.app].inst # 0
           /\ Known(call.app) => mAppInfo[call.app].inst = context[call.app].inst
<1>1. call # Idle /\ Loaded(call.app) /\ ~Spawning(call.app)
  BY DEF Base, CallOK, Waits, Idle, Spawning
<1>2. QED
  BY <1>1 DEF Base, ContextsOK, News, SameInstance, Loaded

\* The transition thread, on the way to PAUSED.
LEMMA ClosingOfWorker ==
    ASSUME Base, News, NEW a, a = call.app, Waits, call.pc # "add",
           OnWay(a), Heard(a), WorkerNext, UNCHANGED appVars
    PROVE  OnWay(a)' /\ Heard(a)'
<1>1. /\ TypeOK /\ OnPath /\ Passing /\ RequestsOK /\ ContextsOK /\ JobsOK
      /\ UNCHANGED <<call, mAppInfo>>
      /\ lmJobs \in Seq(JobType) /\ gRequests \in Seq([app : Apps, target : LifecycleStates])
      /\ a \in DOMAIN context /\ context[a].inst # 0
  BY WaitsFor DEF Base, appVars, TypeOK, ServiceTypeOK, Loaded
<1>2. CASE TakeRequest
  <2>1. /\ ~Busy /\ gRequests # <<>> /\ UNCHANGED <<context, lmJobs, event>>
        /\ \/ UNCHANGED gRequests /\ State # Head(gRequests).target
           \/ gRequests' = Tail(gRequests) /\ UNCHANGED worker
    BY <1>2 DEF TakeRequest, Busy
  <2>2. Head(gRequests) = gRequests[1] /\ 1 \in DOMAIN gRequests
    BY <1>1, <2>1, HeadElement
  <2>3. Cur = a /\ Head(gRequests).target = "PAUSED"
    BY <2>2 DEF OnWay, Cur
  <2>4. Heard(a)'
    BY <1>1, <2>1 DEF Heard, Known, Mine, InHand, PausedNow
  <2>5. OnWay(a)'
    <3>1. CASE UNCHANGED gRequests /\ State # Head(gRequests).target
      BY <2>1, <2>3, <3>1 DEF OnWay, PausedNow, State
    <3>2. CASE gRequests' = Tail(gRequests) /\ UNCHANGED worker
      <4>1. \A k \in DOMAIN Tail(gRequests) : \E m \in DOMAIN gRequests : Tail(gRequests)[k] = gRequests[m]
        BY <1>1, <2>1, TailElements
      <4>2. QED
        BY <2>1, <3>2, <4>1 DEF OnWay, Busy
    <3>3. QED
      BY <2>1, <3>1, <3>2
  <2>6. QED
    BY <2>4, <2>5
<1>3. CASE AskRuntime
  <2>1. Busy /\ UNCHANGED <<context, gRequests, event>>
    BY <1>3 DEF AskRuntime, Busy
  <2>2. ~PausedNow(a) /\ OnWay(a)'
    BY <2>1 DEF OnWay, PausedNow
  <2>3. Cur \in Apps /\ context[Cur].inst \in Nat /\ State \in LifecycleStates
    BY <1>1, <2>1, Working, ContextTypes
  <2>4. PICK e, f : /\ e = StateChange(Cur, context[Cur].inst, State, "TERMINATING")
                    /\ f = Signal(Cur)
    OBVIOUS
  <2>5. e \in JobType /\ f \in JobType /\ e.new # "PAUSED" /\ f.new # "PAUSED"
    BY <2>3, <2>4 DEF StateChange, Signal, JobType, LifecycleStates
  <2>6. ASSUME NEW k \in DOMAIN lmJobs', lmJobs'[k].new = "PAUSED"
        PROVE  k \in DOMAIN lmJobs /\ lmJobs'[k] = lmJobs[k]
    <3>1. PICK r1, r2 : /\ r1 = IF Head(worker.path) = "TERMINATING" THEN <<e>> ELSE <<>>
                        /\ r2 = <<f>>
      OBVIOUS
    <3>2. r1 \in Seq(JobType) /\ r2 \in Seq(JobType)
      BY <2>5, <3>1
    <3>3. /\ \A m \in DOMAIN r1 : r1[m] = e
          /\ \A m \in DOMAIN r2 : r2[m] = f
      <4>1. \A x, q : q = <<x>> => \A m \in DOMAIN q : q[m] = x
        OBVIOUS
      <4>2. \A q : q = <<>> => \A m \in DOMAIN q : q[m] = e
        OBVIOUS
      <4>3. QED
        BY <3>1, <4>1, <4>2
    <3>4. PICK q \in Seq(JobType) : q = lmJobs \o r1
      BY <1>1, <3>2, BothParts
    <3>5. lmJobs' = q \o r2
      BY <1>3, <2>4, <3>1, <3>4 DEF AskRuntime, Changed
    <3>6. PICK p : p = q \o r2
      OBVIOUS
    <3>7. \/ k \in DOMAIN q /\ p[k] = q[k]
          \/ k - Len(q) \in DOMAIN r2 /\ p[k] = r2[k - Len(q)]
      BY <3>2, <3>5, <3>6, BothParts
    <3>8. k \in DOMAIN q /\ p[k] = q[k]
      BY <2>5, <2>6, <3>3, <3>5, <3>6, <3>7
    <3>9. \/ k \in DOMAIN lmJobs /\ q[k] = lmJobs[k]
          \/ k - Len(lmJobs) \in DOMAIN r1 /\ q[k] = r1[k - Len(lmJobs)]
      BY <1>1, <3>2, <3>4, <3>8, BothParts
    <3>10. QED
      BY <2>5, <2>6, <3>3, <3>5, <3>6, <3>8, <3>9
  <2>7. \A j : Mine(j, a)' <=> Mine(j, a)
    BY <2>1 DEF Mine
  <2>8. \A k \in DOMAIN lmJobs' : Mine(lmJobs'[k], a) => lmJobs'[k].new # "PAUSED"
    BY <2>2, <2>6 DEF Heard
  <2>9. (~PausedNow(a))'
    BY <2>1, <2>2 DEF PausedNow
  <2>10. Heard(a)'
    BY <1>1, <2>1, <2>2, <2>7, <2>8, <2>9 DEF Heard, InHand, Known
  <2>11. QED
    BY <2>2, <2>10
<1>4. CASE EnterLoading \/ EnterAnswered \/ EnterOther
  <2>1. PICK s, c, r : Entered(s, c, r)
    BY <1>1, <1>4, EntersState
  <2>2. Busy /\ Cur = a /\ Head(gRequests).target = "PAUSED" /\ gRequests # <<>>
    BY <1>1, <2>1, Working DEF Entered, OnWay
  <2>3. /\ 1 \in DOMAIN gRequests /\ a = gRequests[1].app
        /\ context'[a].state = s /\ context'[a].inst = c.inst
        /\ <<context[a].state, s>> \in Edges
        /\ UNCHANGED event /\ lmJobs' = lmJobs \o r
        /\ \/ s = "PAUSED" /\ worker'.pc = "asleep" /\ gRequests' = Tail(gRequests)
           \/ s # "PAUSED" /\ UNCHANGED gRequests
    <3>1. PICK t : t = Head(gRequests).target
      OBVIOUS
    <3>2. Final(t) = "PAUSED"
      BY <2>2, <3>1 DEF Final
    <3>3. QED
      BY <1>1, <2>1, <2>2, <3>1, <3>2, AfterEnter
  <2>4. s # "LOADING"
    BY <1>1, <2>3 DEF Edges, ContextsOK
  <2>5. /\ r \in Seq(JobType) /\ c = context[a]
        /\ r = <<StateChange(a, c.inst, context[a].state, s)>> \/ r = <<>>
    BY <2>1, <2>2, <2>4 DEF Entered, State
  <2>6. ~PausedNow(a)
    BY <2>2 DEF OnWay
  <2>7. \A j : Mine(j, a)' <=> Mine(j, a)
    BY <2>3, <2>5 DEF Mine
  <2>8. (PausedNow(a))' <=> s = "PAUSED"
    BY <2>3 DEF PausedNow
  <2>9. OnWay(a)'
    <3>1. CASE s = "PAUSED" /\ worker'.pc = "asleep" /\ gRequests' = Tail(gRequests)
      <4>1. \A k \in DOMAIN Tail(gRequests) : \E m \in DOMAIN gRequests : Tail(gRequests)[k] = gRequests[m]
        BY <1>1, <2>2, TailElements
      <4>2. QED
        BY <3>1, <4>1 DEF OnWay, Busy
    <3>2. CASE s # "PAUSED" /\ UNCHANGED gRequests
      BY <2>8, <3>2 DEF OnWay
    <3>3. QED
      BY <2>3, <3>1, <3>2
  <2>10. Heard(a)'
    <3>1. CASE s = "PAUSED"
      BY <2>8, <3>1 DEF Heard
    <3>2. CASE s # "PAUSED"
      <4>1. PICK e : e = StateChange(a, c.inst, context[a].state, s)
        OBVIOUS
      <4>2. e.new # "PAUSED" /\ \A m \in DOMAIN r : r[m] = e
        <5>1. \A x, q : q = <<x>> => \A m \in DOMAIN q : q[m] = x
          OBVIOUS
        <5>2. \A q : q = <<>> => \A m \in DOMAIN q : q[m] = e
          OBVIOUS
        <5>3. QED
          BY <2>5, <3>2, <4>1, <5>1, <5>2 DEF StateChange
      <4>3. PICK q : q = lmJobs \o r
        OBVIOUS
      <4>4. \A k \in DOMAIN q :
               \/ k \in DOMAIN lmJobs /\ q[k] = lmJobs[k]
               \/ k - Len(lmJobs) \in DOMAIN r /\ q[k] = r[k - Len(lmJobs)]
        BY <1>1, <2>5, <4>3, BothParts
      <4>5. \A k \in DOMAIN lmJobs' : Mine(lmJobs'[k], a) => lmJobs'[k].new # "PAUSED"
        BY <2>3, <2>6, <4>2, <4>3, <4>4 DEF Heard
      <4>6. QED
        BY <1>1, <2>3, <2>6, <2>7, <2>8, <3>2, <4>5 DEF Heard, InHand, Known
    <3>3. QED
      BY <3>1, <3>2
  <2>11. QED
    BY <2>9, <2>10
<1>5. QED
  BY <1>2, <1>3, <1>4 DEF WorkerNext

LEMMA ClosingOfDispatch ==
    ASSUME Base, Base', News, NEW a, a = call.app, Waits,
           OnWay(a), Heard(a), NEW k \in 1..PoolThreads, Dispatch(k), UNCHANGED appVars
    PROVE  OnWay(a)' /\ Heard(a)'
<1>1. /\ UNCHANGED <<call, mAppInfo, gRequests, worker>> /\ event = NoEvent
      /\ k \in DOMAIN lmJobs /\ lmJobs \in Seq(JobType) /\ lmJobs' = TakeOut(lmJobs, k)
      /\ \A b \in DOMAIN context' : b \in DOMAIN context /\ context'[b] = context[b]
      /\ event' = event \/ event'.job = lmJobs[k]
  BY DEF Base, Dispatch, appVars, TypeOK, ServiceTypeOK, Without
<1>2. a \in DOMAIN context'
  BY <1>1 DEF Base, CallOK, Waits, Loaded
<1>3. context'[a] = context[a]
  BY <1>1, <1>2
<1>4. \A j : Mine(j, a)' <=> Mine(j, a)
  BY <1>3 DEF Mine
<1>5. PausedNow(a)' <=> PausedNow(a)
  BY <1>3 DEF PausedNow
<1>6. OnWay(a)'
  BY <1>1, <1>5 DEF OnWay, Busy
<1>7. \A m \in DOMAIN lmJobs' : \E n \in DOMAIN lmJobs : lmJobs'[m] = lmJobs[n]
  <2>1. /\ k \in Nat
        /\ \A m \in DOMAIN TakeOut(lmJobs, k) :
              /\ m \in Nat \ {0}
              /\ m < k => m \in DOMAIN lmJobs /\ TakeOut(lmJobs, k)[m] = lmJobs[m]
              /\ m >= k => m + 1 \in DOMAIN lmJobs /\ TakeOut(lmJobs, k)[m] = lmJobs[m + 1]
    BY <1>1, OneTaken
  <2>2. \A m \in DOMAIN TakeOut(lmJobs, k) : m < k \/ m >= k
    BY <2>1
  <2>3. QED
    BY <1>1, <2>1, <2>2
<1>8. Heard(a)'
  BY <1>1, <1>4, <1>5, <1>7 DEF Heard, InHand, Known
<1>9. QED
  BY <1>6, <1>8

LEMMA ClosingOfHandler ==
    ASSUME Base, News, NEW a, a = call.app, Waits, OnWay(a), Heard(a), Handler
    PROVE  OnWay(a)' /\ Heard(a)'
<1>1. TypeOK /\ Telling /\ UNCHANGED <<call, context, gRequests, worker, lmJobs>>
  BY DEF Base, News, Handler, HandlerLocks, OnAppLifecycleStateChanged
<1>2. OnWay(a)'
  BY <1>1 DEF OnWay, Busy, PausedNow
<1>3. CASE HandlerLocks
  <2>1. event # NoEvent /\ event' = [event EXCEPT !.pc = "walk"] /\ UNCHANGED mAppInfo
    BY <1>3 DEF HandlerLocks, NoEvent
  <2>2. event'.job = event.job
    BY <1>1, <2>1 DEF TypeOK, ServiceTypeOK
  <2>3. QED
    BY <1>1, <1>2, <2>1, <2>2 DEF Heard, InHand, Mine, PausedNow, Known
<1>4. CASE OnAppLifecycleStateChanged
  <2>1. PICK j : j = event.job
    OBVIOUS
  <2>2. event.pc = "walk" /\ event # NoEvent /\ event' = NoEvent
    BY <1>4 DEF OnAppLifecycleStateChanged, NoEvent
  <2>3. ASSUME Known(a)', mAppInfo'[a].new = "PAUSED"
        PROVE  PausedNow(a)
    <3>1. CASE Known(a) /\ mAppInfo'[a] = mAppInfo[a]
      BY <2>3, <3>1 DEF Heard
    <3>2. CASE ~(Known(a) /\ mAppInfo'[a] = mAppInfo[a])
      <4>1. /\ Known(j.app) /\ mAppInfo[j.app].inst = j.inst
            /\ mAppInfo' = [mAppInfo EXCEPT ![j.app] = [mAppInfo[j.app] EXCEPT !.new = j.new]]
        BY <1>4, <2>1, <2>3, <3>2 DEF OnAppLifecycleStateChanged, Known
      <4>2. a = j.app
        BY <1>1, <2>3, <3>2, <4>1 DEF TypeOK, Known
      <4>3. mAppInfo'[a].new = j.new
        <5>1. \A s : \A r \in InfoType : [r EXCEPT !.new = s].new = s
          BY DEF InfoType
        <5>2. QED
          BY <1>1, <4>1, <4>2, <5>1 DEF TypeOK, Known
      <4>4. Mine(j, a)
        BY <1>1, <2>1, <2>2, <4>1, <4>2, WaitsFor DEF Mine, Telling
      <4>5. QED
        BY <2>1, <2>2, <2>3, <4>3, <4>4 DEF Heard, InHand
    <3>3. QED
      BY <3>1, <3>2
  <2>4. QED
    BY <1>1, <1>2, <2>2, <2>3 DEF Heard, InHand, Mine, PausedNow, Known
<1>5. QED
  BY <1>3, <1>4 DEF Handler

LEMMA ClosingOfCalls ==
    ASSUME Base, News, Quiet, Closing, CallGoesOn
    PROVE  Closing'
<1>1. TypeOK /\ CallOK /\ ContextsOK
  BY DEF Base
<1>2. Idle.pc = "idle"
  BY DEF Idle
<1>3. ASSUME ~Waits' PROVE Closing'
  BY <1>3 DEF Waits, Closing
<1>4. CASE Connector
  <2>1. /\ call # Idle /\ UNCHANGED <<gRequests, worker, lmJobs, event>> /\ SameRecords
        /\ Refused \/ SpawnAsked \/ StateAsked \/ EndAsked
    BY <1>1, <1>4, Connected DEF unchangedByConnect
  <2>2. \A g, n : \A c \in CallType :
           /\ [c EXCEPT !.pc = "add", !.target = g, !.then = n].pc = "add"
           /\ [c EXCEPT !.pc = "add", !.target = g, !.then = n].then = n
           /\ [c EXCEPT !.pc = "add", !.target = g, !.then = n].target = g
           /\ [c EXCEPT !.pc = "add", !.target = g, !.then = n].app = c.app
    BY DEF CallType
  <2>3. call \in CallType
    BY <1>1, <2>1, CallTypes
  <2>4. CASE Waits'
    <3>1. call' # Idle
      BY <1>2, <2>4 DEF Waits
    <3>2. /\ call'.pc = "add" /\ call'.then = "waitPause" /\ call'.target = "PAUSED" /\ call'.app = call.app
          /\ call.pc = "connect" /\ UNCHANGED context /\ Named
      <4>1. ~SpawnAsked /\ ~EndAsked
        <5>1. call'.pc = "waitPause" \/ (call'.pc = "add" /\ call'.then = "waitPause")
          BY <2>4 DEF Waits
        <5>2. ASSUME NEW s, NEW n, Request(s, n)
              PROVE  call'.pc = "add" /\ call'.then = n
          BY <2>2, <2>3, <5>2 DEF Request
        <5>3. QED
          BY <5>1, <5>2 DEF SpawnAsked, EndAsked
      <4>2. StateAsked
        BY <2>1, <3>1, <4>1 DEF Refused
      <4>3. PICK s, then : /\ Request(s, then)
                           /\ then = "waitPause" => call.pc = "connect" /\ s = "PAUSED"
        BY <4>2 DEF StateAsked
      <4>4. /\ call'.pc = "add" /\ call'.then = then /\ call'.target = s /\ call'.app = call.app
        BY <2>2, <2>3, <4>3 DEF Request
      <4>5. then = "waitPause"
        BY <2>4, <4>4 DEF Waits
      <4>6. QED
        BY <4>2, <4>3, <4>4, <4>5 DEF StateAsked
    <3>3. gRequests = <<>> /\ ~Busy /\ lmJobs = <<>> /\ event = NoEvent
      BY <3>2 DEF Quiet, Settled, MutexFree, Busy
    <3>4. PICK a : a = call.app
      OBVIOUS
    <3>5. a \in DOMAIN context /\ a \in DOMAIN mAppInfo /\ context[a].inst # 0 /\ NewsOf(a)
      BY <3>2, <3>4, NotSpawning DEF Named, HasInstance, Loaded, Known, News
    <3>6. mAppInfo[a].new = context[a].state
      <4>1. DOMAIN lmJobs = {}
        BY <3>3
      <4>2. NoneAfter(0, a) /\ ~InHand(a)
        BY <3>3, <4>1 DEF NoneAfter, InHand
      <4>3. Agrees(mAppInfo[a].new, a)
        BY <3>5, <4>2 DEF NewsOf, Known
      <4>4. QED
        BY <3>3, <4>3 DEF Agrees, Ending
    <3>7. mAppInfo'[a].new = context'[a].state
      BY <2>1, <3>2, <3>5, <3>6 DEF SameRecords
    <3>8. OnWay(a)' /\ Heard(a)' /\ ~Busy' /\ gRequests' = <<>>
      <4>1. /\ gRequests' = <<>> /\ DOMAIN gRequests' = {} /\ DOMAIN lmJobs' = {}
            /\ event' = NoEvent /\ ~Busy'
        BY <2>1, <3>3 DEF Busy
      <4>2. QED
        BY <3>7, <4>1 DEF OnWay, Heard, InHand, PausedNow
    <3>9. QED
      BY <3>2, <3>4, <3>8 DEF Closing, OnWay, Heard
  <2>5. QED
    BY <1>3, <2>4
<1>5. CASE IsAppLoaded \/ PackageLock \/ getLoadedApps \/ SpawnReturn \/ PackageUnLock
  <2>1. call # Idle
    <3>1. call.pc \in {"isLoaded", "package", "connect", "spawned", "unlock"}
      BY <1>5 DEF IsAppLoaded, PackageLock, getLoadedApps, Connect, SpawnReturn, PackageUnLock
    <3>2. QED
      BY <1>2, <3>1
  <2>2. call \in CallType
    BY <1>1, <2>1, CallTypes
  <2>3. /\ \A b : \A c \in CallType : [c EXCEPT !.pc = "package", !.loaded = b].pc = "package"
        /\ \A c \in CallType : [c EXCEPT !.pc = "connect"].pc = "connect"
    BY DEF CallType
  <2>4. call'.pc \in {"idle", "package", "connect"}
    <3>1. \/ call' = Idle
          \/ call' = [call EXCEPT !.pc = "package", !.loaded = Loaded(call.app)]
          \/ call' = [call EXCEPT !.pc = "connect"]
      <4>1. CASE IsAppLoaded
        BY <4>1 DEF IsAppLoaded
      <4>2. CASE PackageLock
        BY <4>2 DEF PackageLock
      <4>3. CASE getLoadedApps \/ SpawnReturn \/ PackageUnLock
        BY <4>3 DEF getLoadedApps, SpawnReturn, PackageUnLock
      <4>4. QED
        BY <1>5, <4>1, <4>2, <4>3
    <3>2. PICK b : b = Loaded(call.app)
      OBVIOUS
    <3>3. CASE call' = [call EXCEPT !.pc = "package", !.loaded = b]
      BY <2>2, <2>3, <3>3
    <3>4. CASE call' = [call EXCEPT !.pc = "connect"]
      BY <2>2, <2>3, <3>4
    <3>5. CASE call' = Idle
      BY <1>2, <3>5
    <3>6. QED
      BY <3>1, <3>2, <3>3, <3>4, <3>5
  <2>5. QED
    BY <1>3, <2>4 DEF Waits
<1>6. CASE AddRequest
  <2>1. /\ call.pc = "add" /\ call # Idle /\ UNCHANGED <<context, worker, lmJobs, event, mAppInfo>>
        /\ gRequests' = Append(gRequests, [app |-> call.app, target |-> call.target])
        /\ gRequests \in Seq([app : Apps, target : LifecycleStates])
    BY <1>1, <1>2, <1>6 DEF AddRequest, Add, TypeOK, ServiceTypeOK
  <2>2. call \in CallType /\ call.app \in Apps /\ call.target \in LifecycleStates
    BY <1>1, <2>1, CallTypes
  <2>3. CASE call.then # "waitPause"
    <3>1. \A c \in CallType : /\ [c EXCEPT !.target = "HIBERNATED", !.then = "return"].then = "return"
                              /\ [c EXCEPT !.target = "HIBERNATED", !.then = "return"].pc = c.pc
                              /\ [c EXCEPT !.pc = c.then].pc = c.then
      BY DEF CallType
    <3>2. \/ call' = Idle
          \/ call' = [call EXCEPT !.target = "HIBERNATED", !.then = "return"]
          \/ call.then \in {"spawned", "unlock"} /\ call' = [call EXCEPT !.pc = call.then]
      BY <1>1, <1>6, <2>1, <2>3, CallTypes DEF AddRequest
    <3>3. ~Waits'
      <4>1. CASE call' = Idle
        BY <1>2, <4>1 DEF Waits
      <4>2. CASE call' = [call EXCEPT !.target = "HIBERNATED", !.then = "return"]
        <5>1. call'.then = "return" /\ call'.pc = "add"
          BY <2>1, <2>2, <3>1, <4>2
        <5>2. QED
          BY <5>1 DEF Waits
      <4>3. CASE call.then \in {"spawned", "unlock"} /\ call' = [call EXCEPT !.pc = call.then]
        <5>1. call'.pc \in {"spawned", "unlock"}
          BY <2>2, <3>1, <4>3
        <5>2. QED
          BY <5>1 DEF Waits
      <4>4. QED
        BY <3>2, <4>1, <4>2, <4>3
    <3>4. QED
      BY <1>3, <3>3
  <2>4. CASE call.then = "waitPause"
    <3>1. call'.pc = "waitPause" /\ call'.app = call.app
      <4>1. \A c \in CallType : [c EXCEPT !.pc = c.then].pc = c.then /\ [c EXCEPT !.pc = c.then].app = c.app
        BY DEF CallType
      <4>2. call' = [call EXCEPT !.pc = call.then]
        BY <1>6, <2>4 DEF AddRequest
      <4>3. QED
        BY <2>2, <2>4, <4>1, <4>2
    <3>2. PICK a : a = call.app
      OBVIOUS
    <3>3. OnWay(a) /\ Heard(a) /\ call.target = "PAUSED" /\ ~Busy
      BY <2>1, <2>4, <3>2, ClosingParts DEF Waits
    <3>4. Heard(a)'
      BY <2>1, <3>3 DEF Heard, InHand, Mine, PausedNow, Known
    <3>5. \A k \in DOMAIN gRequests' : gRequests'[k].app = a /\ gRequests'[k].target = "PAUSED"
      <4>1. PICK e \in [app : Apps, target : LifecycleStates] : e = [app |-> a, target |-> "PAUSED"]
        BY <2>2, <3>2, <3>3
      <4>2. gRequests' = Append(gRequests, e)
        BY <2>1, <3>2, <3>3, <4>1
      <4>3. gRequests \in Seq([app : Apps, target : LifecycleStates])
        BY <2>1
      <4>4. /\ Len(Append(gRequests, e)) = Len(gRequests) + 1
            /\ \A i \in 1..Len(gRequests) : Append(gRequests, e)[i] = gRequests[i]
            /\ Append(gRequests, e)[Len(gRequests) + 1] = e
            /\ Append(gRequests, e) \in Seq([app : Apps, target : LifecycleStates])
        BY <4>3, AppendProperties
      <4>5. /\ DOMAIN gRequests = 1..Len(gRequests) /\ Len(gRequests) \in Nat
            /\ DOMAIN gRequests' = 1..(Len(gRequests) + 1)
        BY <4>2, <4>3, <4>4, LenProperties
      <4>6. \A k \in DOMAIN gRequests' : k \in DOMAIN gRequests \/ k = Len(gRequests) + 1
        BY <4>5
      <4>7. QED
        BY <3>3, <4>1, <4>2, <4>4, <4>5, <4>6 DEF OnWay
    <3>6. ~Busy'
      BY <2>1, <3>3 DEF Busy
    <3>7. QED
      BY <3>1, <3>2, <3>4, <3>5, <3>6 DEF Closing, Heard
  <2>5. QED
    BY <2>3, <2>4
<1>7. QED
  BY <1>4, <1>5, <1>6 DEF CallGoesOn, Connector

LEMMA NextClosing ==
    ASSUME PoolThreads = 1, Base, Base', News, Quiet, Closing, [Next]_vars
    PROVE  Closing'
<1>1. Idle.pc = "idle"
  BY DEF Idle
<1>2. PICK a : a = call.app
  OBVIOUS
<1>3. ASSUME UNCHANGED call, Waits => OnWay(a)' /\ Heard(a)' /\ (call.pc = "add" => ~Busy' /\ gRequests' = <<>>)
      PROVE  Closing'
  <2>1. Waits /\ call.pc = "add" => call.target = "PAUSED"
    BY ClosingParts
  <2>2. QED
    BY <1>2, <1>3, <2>1 DEF Closing, Waits, OnWay, Heard
<1>4. Waits => OnWay(a) /\ Heard(a) /\ (call.pc = "add" => ~Busy /\ gRequests = <<>>)
  BY <1>2, ClosingParts
<1>5. CASE ServiceNext /\ UNCHANGED appVars
  <2>1. UNCHANGED call
    BY <1>5 DEF appVars
  <2>2. CASE WorkerNext
    <3>1. Waits => call.pc # "add"
      <4>1. ASSUME Waits, call.pc = "add" PROVE FALSE
        <5>1. ~Busy /\ gRequests = <<>>
          BY <4>1, ClosingParts
        <5>2. QED
          BY <2>2, <5>1 DEF WorkerNext, TakeRequest, EnterLoading, AskRuntime, EnterAnswered, EnterOther, Busy
      <4>2. QED
        BY <4>1
    <3>2. QED
      BY <1>2, <1>3, <1>4, <1>5, <2>1, <2>2, <3>1, ClosingOfWorker
  <2>3. CASE Dispatch(1)
    <3>1. UNCHANGED <<worker, gRequests>> /\ 1 \in 1..PoolThreads
      BY <2>3 DEF Dispatch
    <3>2. Waits => OnWay(a)' /\ Heard(a)'
      BY <1>2, <1>4, <1>5, <2>3, <3>1, ClosingOfDispatch
    <3>3. QED
      BY <1>3, <1>4, <2>1, <3>1, <3>2 DEF Busy
  <2>4. QED
    BY <1>5, <2>2, <2>3 DEF ServiceNext
<1>6. CASE Handler
  <2>1. UNCHANGED <<call, worker, gRequests>>
    BY <1>6 DEF Handler, HandlerLocks, OnAppLifecycleStateChanged
  <2>2. Waits => OnWay(a)' /\ Heard(a)'
    BY <1>2, <1>4, <1>6, ClosingOfHandler
  <2>3. QED
    BY <1>3, <1>4, <2>1, <2>2 DEF Busy
<1>7. CASE (\E k \in 1..PoolThreads : Tell(k)) \/ UNCHANGED vars
  <2>1. UNCHANGED <<call, context, worker, gRequests, lmJobs, event, mAppInfo>>
    BY <1>7 DEF Tell, vars, serviceVars
  <2>2. QED
    BY <1>3, <1>4, <2>1 DEF OnWay, Heard, Busy, InHand, Mine, PausedNow, Known
<1>8. ASSUME NEW op \in Calls, NEW b \in Apps, Begin(op, b)
      PROVE  Closing'
  BY <1>8 DEF Begin, Closing
<1>9. QED
  BY <1>5, <1>6, <1>7, <1>8, ClosingOfCalls DEF Next, Rest

\* With patient clients and one pool thread, closing asks for suspension or
\* unloading only of an application that is PAUSED.
THEOREM CloseAlwaysPaused == Patient /\ PoolThreads = 1 => (Spec => CloseFindsPaused)
<1> SUFFICES ASSUME Patient, PoolThreads = 1 PROVE Spec => CloseFindsPaused
  OBVIOUS
<1>1. Init => Closing
  BY DEF Init, Idle, Closing
<1>2. Base /\ Base' /\ News /\ Quiet /\ Closing /\ [Next]_vars => Closing'
  BY NextClosing
<1>3. ASSUME Base, News, Closing, [Next]_vars
      PROVE  [call.pc = "waitPause" /\ call'.pc = "add" => context[call.app].state = "PAUSED"]_vars
  <2> SUFFICES ASSUME Next, call.pc = "waitPause", call'.pc = "add"
               PROVE  context[call.app].state = "PAUSED"
    BY <1>3
  <2>1. call # Idle /\ Idle.pc = "idle"
    BY DEF Idle
  <2>2. CallGoesOn
    BY <2>1 DEF Next, Begin, Handler, HandlerLocks, OnAppLifecycleStateChanged, Tell, appVars, Rest, vars
  <2>3. closeAppWaited
    BY <2>2 DEF CallGoesOn, IsAppLoaded, PackageLock, launch, preLoadApp, closeApp, getLoadedApps,
                terminateApp, Connect, AddRequest, SpawnReturn, PackageUnLock
  <2>4. IsPaused
    BY <2>1, <2>3 DEF closeAppWaited, Fail
  <2>5. QED
    BY <1>3, <2>4, ClosingParts DEF IsPaused, InState, Waits, Heard, PausedNow
<1>4. Spec => []Base /\ []News /\ []Quiet
  BY BaseAlways, NewsAlways, QuietAlways
<1>5. QED
  BY <1>1, <1>2, <1>3, <1>4, PTL DEF Spec, CloseFindsPaused

-----------------------------------------------------------------------------
(* AppManager and the LifecycleManager it drives implement AppLifecycle:    *)
(* every step of the calls, the jobs and the transition thread is a step of *)
(* the abstract specification or changes nothing it speaks of.              *)

\* The abstract variables, as AppManager substitutes them.
states == [a \in Apps |-> StateOf(a)]
moving == IF MutexFree THEN NoApp ELSE Cur
goal   == IF MutexFree THEN NoApp ELSE Head(gRequests).target

\* Both specifications have the same table and the same final states.
LEMMA SameTable ==
    /\ Abstract!Edges = Edges
    /\ Abstract!LifecycleStates = LifecycleStates
    /\ \A t : Abstract!Final(t) = Final(t)
BY DEF Abstract!Edges, Edges, Abstract!LifecycleStates, LifecycleStates, Abstract!Final, Final

LEMMA InitImplements == Init => Abstract!Init
BY DEF Init, ServiceInit, Abstract!Init, StateOf, Loaded, MutexFree, NoApp

\* Nothing the abstract specification speaks of changes.
LEMMA NothingMoves ==
    ASSUME UNCHANGED <<states, moving, goal>>
    PROVE  UNCHANGED Abstract!vars
BY DEF Abstract!vars, states, moving, goal

\* Contexts that are made or deleted as UNLOADED, or get another mark, leave
\* the states alone.
LEMMA StatesStay ==
    ASSUME \A a \in DOMAIN context : a \in DOMAIN context' => context'[a].state = context[a].state,
           \A a \in DOMAIN context' : a \notin DOMAIN context => context'[a].state = "UNLOADED",
           \A a \in DOMAIN context : a \notin DOMAIN context' => context[a].state = "UNLOADED"
    PROVE  UNCHANGED states
<1>1. ASSUME NEW a \in Apps
      PROVE  StateOf(a)' = StateOf(a)
  BY DEF StateOf, Loaded
<1>2. QED
  BY <1>1 DEF states

\* Entering a state is an abstract move along the table, the last one if the
\* path ends there.
LEMMA EnterMoves ==
    ASSUME Base, EnterLoading \/ EnterAnswered \/ EnterOther
    PROVE  Abstract!Next
<1>1. TypeOK /\ OnPath
  BY DEF Base
<1>2. PICK s, c, r : Entered(s, c, r)
  BY <1>1, EntersState
<1>3. PICK a, t : a = Cur /\ t = Head(gRequests).target
  OBVIOUS
<1>4. /\ a \in DOMAIN context /\ t \in LifecycleStates
      /\ DOMAIN context' = DOMAIN context /\ context'[a].state = s
      /\ \A b \in DOMAIN context : b # a => context'[b] = context[b]
      /\ s \in LifecycleStates /\ <<context[a].state, s>> \in Edges
      /\ \/ s = Final(t) /\ worker'.pc = "asleep"
         \/ worker'.pc = "step" /\ UNCHANGED gRequests
  BY <1>1, <1>2, <1>3, AfterEnter
<1>5. a \in Apps /\ moving = a /\ goal = t
  BY <1>1, <1>2, <1>3, <1>4, ContextTypes DEF Entered, Busy, moving, goal, MutexFree
<1>6. states' = [states EXCEPT ![a] = s] /\ states[a] = context[a].state
  BY <1>4, <1>5 DEF states, StateOf, Loaded
<1>7. \/ s = Abstract!Final(t) /\ moving' = NoApp /\ goal' = NoApp
      \/ UNCHANGED <<moving, goal>>
  <2>1. CASE s = Final(t) /\ worker'.pc = "asleep"
    BY <2>1, SameTable DEF moving, goal, MutexFree
  <2>2. CASE worker'.pc = "step" /\ UNCHANGED gRequests
    BY <1>3, <1>5, <2>2 DEF moving, goal, MutexFree, Cur
  <2>3. QED
    BY <1>4, <2>1, <2>2
<1>8. Abstract!Move(s)
  BY <1>4, <1>5, <1>6, <1>7, SameTable DEF Abstract!Move, states, moving, goal
<1>9. QED
  BY <1>4, <1>8, SameTable DEF Abstract!Next

\* Taking a request begins a movement, unless nothing is to be done for it.
LEMMA TakeRequestBegins ==
    ASSUME Base, TakeRequest
    PROVE  Abstract!Next \/ UNCHANGED <<states, moving, goal>>
<1>1. PICK a, t : a = Cur /\ t = Head(gRequests).target
  OBVIOUS
<1>2. gRequests # <<>> /\ gRequests \in Seq([app : Apps, target : LifecycleStates])
  BY DEF TakeRequest, Base, TypeOK, ServiceTypeOK
<1>3. /\ Head(gRequests) \in [app : Apps, target : LifecycleStates]
      /\ Head(gRequests) = gRequests[1] /\ 1 \in DOMAIN gRequests
  BY <1>2, HeadElement
<1>4. a \in DOMAIN context /\ a \in Apps /\ t \in LifecycleStates
  BY <1>1, <1>3 DEF Cur, Base, RequestsOK
<1>5. UNCHANGED states /\ MutexFree /\ moving = NoApp /\ goal = NoApp
  BY DEF TakeRequest, states, StateOf, Loaded, MutexFree, moving, goal
<1>6. CASE State = t
  BY <1>1, <1>5, <1>6 DEF TakeRequest, moving, goal, MutexFree
<1>7. CASE State # t
  <2>1. worker'.pc = "step" /\ UNCHANGED gRequests
    BY <1>1, <1>7 DEF TakeRequest
  <2>2. moving' = a /\ goal' = t
    BY <1>1, <2>1 DEF moving, goal, MutexFree, Cur
  <2>3. states[a] # t
    BY <1>1, <1>4, <1>7 DEF states, StateOf, Loaded, State
  <2>4. Abstract!Begin(a, t)
    BY <1>5, <2>2, <2>3 DEF Abstract!Begin, states, moving, goal
  <2>5. QED
    BY <1>4, <2>4, SameTable DEF Abstract!Next
<1>8. QED
  BY <1>6, <1>7

\* A job deletes the context of an application that has become UNLOADED.
LEMMA DispatchStutters ==
    ASSUME Base, NEW k \in 1..PoolThreads, Dispatch(k)
    PROVE  UNCHANGED <<states, moving, goal>>
<1>1. UNCHANGED <<moving, goal>>
  BY DEF Dispatch, moving, goal, MutexFree, Cur
<1>2. PICK j : j = lmJobs[k]
  OBVIOUS
<1>3. UNCHANGED context \/ (/\ context' = Without(context, j.app) /\ Ends(j)
                            /\ Mine(j, j.app) /\ j.app \in DOMAIN context)
  BY <1>2 DEF Dispatch, HasInstance, Loaded, Mine
<1>4. CASE UNCHANGED context
  BY <1>1, <1>4 DEF states, StateOf, Loaded
<1>5. CASE /\ context' = Without(context, j.app) /\ Ends(j)
           /\ Mine(j, j.app) /\ j.app \in DOMAIN context
  <2>1. context[j.app].state = "UNLOADED"
    BY <1>2, <1>5 DEF Dispatch, Base, JobsOK, JobOK
  <2>2. UNCHANGED states
    BY <1>5, <2>1, StatesStay DEF Without
  <2>3. QED
    BY <1>1, <2>2
<1>6. QED
  BY <1>3, <1>4, <1>5

\* What the connector asks for is done by later steps.
LEMMA ConnectorStutters ==
    ASSUME Base, Connector
    PROVE  UNCHANGED <<states, moving, goal>>
<1>1. TypeOK
  BY DEF Base
<1>2. /\ call # Idle /\ UNCHANGED unchangedByConnect
      /\ Refused \/ SpawnAsked \/ StateAsked \/ EndAsked
  BY <1>1, Connected
<1>3. /\ \A a \in DOMAIN context : a \in DOMAIN context' /\ context'[a].state = context[a].state
      /\ \A a \in DOMAIN context' : a \notin DOMAIN context => context'[a] = NewContext
  BY <1>1, <1>2, ContextsAfter
<1>4. UNCHANGED states
  BY <1>3, StatesStay DEF NewContext
<1>5. QED
  BY <1>2, <1>4 DEF unchangedByConnect, moving, goal, MutexFree, Cur

LEMMA OthersStutter ==
    ASSUME UNCHANGED <<context, worker>>, UNCHANGED gRequests \/ MutexFree
    PROVE  UNCHANGED <<states, moving, goal>>
BY DEF states, StateOf, Loaded, moving, goal, MutexFree, Cur

LEMMA NextImplements == Base /\ [Next]_vars => [Abstract!Next]_Abstract!vars
<1> SUFFICES ASSUME Base, [Next]_vars
             PROVE  Abstract!Next \/ UNCHANGED <<states, moving, goal>>
  BY NothingMoves
<1>1. CASE TakeRequest
  BY <1>1, TakeRequestBegins
<1>2. CASE EnterLoading \/ EnterAnswered \/ EnterOther
  BY <1>2, EnterMoves
<1>3. CASE AskRuntime
  <2>1. worker.pc = "step" /\ worker'.pc = "wait" /\ UNCHANGED <<context, gRequests>>
    BY <1>3 DEF AskRuntime, Base, TypeOK, ServiceTypeOK
  <2>2. QED
    BY <2>1 DEF states, StateOf, Loaded, moving, goal, MutexFree, Cur
<1>4. CASE \E k \in 1..PoolThreads : Dispatch(k)
  BY <1>4, DispatchStutters
<1>5. CASE Connector
  BY <1>5, ConnectorStutters
<1>6. CASE AddRequest
  BY <1>6, OthersStutter DEF AddRequest, Add
<1>7. CASE IsAppLoaded \/ PackageLock \/ getLoadedApps \/ SpawnReturn \/ PackageUnLock
  BY <1>7, OthersStutter DEF IsAppLoaded, PackageLock, getLoadedApps, SpawnReturn, PackageUnLock,
                             serviceVars, unchangedByConnect
<1>8. CASE Handler
  BY <1>8, OthersStutter DEF Handler, HandlerLocks, OnAppLifecycleStateChanged
<1>9. CASE \/ \E op \in Calls, a \in Apps : Begin(op, a)
           \/ \E k \in 1..PoolThreads : Tell(k)
  BY <1>9, OthersStutter DEF Begin, Tell, serviceVars
<1>10. CASE UNCHANGED vars
  BY <1>10, OthersStutter DEF vars, serviceVars
<1>11. QED
  BY <1>1, <1>2, <1>3, <1>4, <1>5, <1>6, <1>7, <1>8, <1>9, <1>10
  DEF Next, Rest, CallGoesOn, Connector, ServiceNext, WorkerNext

\* Whatever is asked for through AppManager, one application at a time moves
\* along the transition table and a request is completed only in the state
\* it asked for, for any number of applications, clients and pool threads:
\* it is the specification that LifecycleManager is shown to implement.
THEOREM Refinement == Spec => ImplementsLifecycle
<1>1. QED
  BY BaseAlways, InitImplements, NextImplements, PTL DEF Spec, ImplementsLifecycle, Abstract!Spec
=============================================================================
