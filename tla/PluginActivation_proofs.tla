---------------------- MODULE PluginActivation_proofs ----------------------
(***************************************************************************)
(* JobsTellCrashes for every number of activations and every plugin of     *)
(* PluginPrograms that claims it.                                          *)
(*                                                                         *)
(* The process of an implementation ends when it is told to or when        *)
(* nothing of it is in use any more, and both are the doing of the plugin. *)
(* So what the plugin does while it is registered must be calm: it neither *)
(* terminates the process nor lets go of the implementation before it has  *)
(* unregistered.  That is a condition on the programs alone, on each of    *)
(* their steps and on what is nested in them; it is shown of every plugin  *)
(* by going through its program, and it is kept while the program is       *)
(* carried out, wherever the process dies and calls fail on the way.       *)
(***************************************************************************)
EXTENDS PluginActivation, SequenceTheorems, TLAPS

-----------------------------------------------------------------------------
(* What the programs of the plugins are made of.                            *)

\* The members and the registrations that the programs name.
Names == {
    "", "_accountStore2", "_csObject", "_deviceStore2", "_deviceStoreCache",
    "_deviceStoreInspector", "_deviceStoreLimit", "_psCache", "_psInspector", "_psLimit",
    "_psObject", "_service", "_store2", "_storeCache", "_storeInspector", "_storeLimit",
    "_userSettingsInspector", "configure", "connector", "connector service", "impl",
    "LifecycleManager", "LifecycleManagerState", "mCurrentservice", "mLifecycleManagerState",
    "mPackageHandler", "mPackageInstaller", "mRuntimeManagerHandler", "mService", "mShell",
    "mWindowManagerHandler", "OCIContainer", "PackageHandler", "PackageInstaller",
    "PersistentStore", "PowerManager", "RDKWindowManager", "RuntimeManager", "SecurityAgent",
    "service", "StorageManager", "this", "thread", "USBDevice", "UserSettings"}
Things == {
    "_webSocketExporter", "_worker", "containers", "death", "devices", "DobbyInterface",
    "downloader", "downloads", "installs", "JAnalytics", "JAppManager", "JLifecycleManagerState",
    "JMessageControl", "JNativeJS", "JOCIContainer", "JPackageDownloader", "JPackageHandler",
    "JPackageInstaller", "JRDKWindowManager", "JSharedStorage", "JSharedStorageCache",
    "JSharedStorageInspector", "JSharedStorageLimit", "JStorageManager", "JStore2", "JTelemetry",
    "JUSBDevice", "JUSBMassStorage", "JUserSettings", "JUserSettingsInspector", "libusb", "modes",
    "mRenderThread", "mThread", "outputs", "packages", "settings", "shellThread", "sink", "states",
    "thread", "values", "windows"}

Leaf(D) == [do : D, of : Names, body : {Nothing}, then : {Nothing}, else : {Nothing}]
Marks   == [do : {"register", "unregister"}, of : Names, body : {Nothing},
            then : Seq(Things), else : {Nothing}]

\* What an implementation does when it is created, and when it is configured
\* or destroyed: nothing that concerns its process.
CreatedSteps == Leaf({"keep", "point"}) \union Marks

Chooses(S) == [do : {"if", "sometimes", "byCallsign"}, of : Names, body : {Nothing},
               then : S, else : S]

Body0 == Leaf({"keep", "point", "addRef", "release", "drop", "forget", "fail", "refuse"}) \union Marks
Body1 == Body0 \union Chooses(Seq(Body0))
Body2 == Body0 \union Chooses(Seq(Body1))
Bodies == Seq(Body2)

\* What a plugin does, but for its registration with the framework.
Branches(S) ==
    [do : {"if", "ifFailed", "sometimes", "byCallsign", "query"}, of : Names, body : {Nothing},
     then : S, else : S]
    \union [do : {"call"}, of : Names, body : Bodies, then : S, else : S]
    \union [do : {"root"}, of : {"impl"}, body : {Nothing}, then : S, else : S]

Plan0 == Leaf({"keep", "point", "addRef", "release", "drop", "forget", "fail", "exit", "terminate",
               "clearId", "found"})
         \union {s \in Marks : s.do = "register" => s.of # "service"}
Plan1 == Plan0 \union Branches(Seq(Plan0))
Plan2 == Plan0 \union Branches(Seq(Plan1))
Plan3 == Plan0 \union Branches(Seq(Plan2))
Plans == Seq(Plan3)

\* What it does while it is registered: it may neither terminate the process
\* nor let go of the implementation before it has unregistered.
Guarded(Calm, Plan) ==
    {q \in Seq(Plan) : \E n \in 0..Len(q) :
        /\ \A i \in 1..n : q[i] \in Calm
        /\ n = Len(q) \/ q[n + 1] = Unwatch}

Calm0 == {s \in Plan0 : s.do # "terminate" /\ (s.do \in {"release", "drop"} => s.of # "impl")}
Calm1 == Calm0 \union Branches(Guarded(Calm0, Plan0))
Calm2 == Calm0 \union Branches(Guarded(Calm1, Plan1))
Calm3 == Calm0 \union Branches(Guarded(Calm2, Plan2))
Guards == Guarded(Calm3, Plan3)

\* Before it registers it deals with other plugins only.
Drops    == {s \in Leaf({"drop"}) : s.of \notin Interfaces}
Pre      == {s \in CreatedSteps : s.do = "register" => s.of = "this"} \union Drops
            \union [do : {"byCallsign"}, of : Names, body : {Nothing}, then : Seq(Drops), else : {Nothing}]

Registering(q) == \E n \in Seq(Pre), g \in Guards : q = n \o (<<Watch>> \o g)

-----------------------------------------------------------------------------
(* Sequences.                                                               *)

LEMMA FrontStep ==
    ASSUME NEW S, NEW q \in Seq(S), q # <<>>, NEW r \in Seq(S)
    PROVE  q \o r # <<>> /\ Head(q \o r) = Head(q) /\ Tail(q \o r) = Tail(q) \o r
<1> DEFINE b == q \o r
<1>1. /\ b \in Seq(S) /\ Len(b) = Len(q) + Len(r) /\ Len(q) \in Nat \ {0} /\ Len(r) \in Nat
      /\ \A i \in 1..(Len(q) + Len(r)) : b[i] = IF i <= Len(q) THEN q[i] ELSE r[i - Len(q)]
  BY ConcatProperties, LenProperties, EmptySeq
<1>2. /\ Tail(q) \in Seq(S) /\ Len(Tail(q)) = Len(q) - 1
      /\ \A i \in 1..(Len(q) - 1) : Tail(q)[i] = q[i + 1]
  BY HeadTailProperties
<1> HIDE DEF b
<1>3. b # <<>>
  BY <1>1, EmptySeq
<1>4. Head(b) = b[1] /\ Head(q) = q[1]
  BY <1>1, <1>3, SubSeqFull, HeadTailOfSubSeq
<1>5. Head(b) = Head(q)
  BY <1>1, <1>4
<1>6. /\ Tail(b) \in Seq(S) /\ Len(Tail(b)) = Len(b) - 1
      /\ \A i \in 1..(Len(b) - 1) : Tail(b)[i] = b[i + 1]
  BY <1>1, <1>3, HeadTailProperties
<1>7. /\ Tail(q) \o r \in Seq(S) /\ Len(Tail(q) \o r) = Len(q) - 1 + Len(r)
      /\ \A i \in 1..(Len(q) - 1 + Len(r)) :
            (Tail(q) \o r)[i] = IF i <= Len(q) - 1 THEN Tail(q)[i] ELSE r[i - (Len(q) - 1)]
  BY <1>2, ConcatProperties
<1>8. ASSUME NEW i \in 1..(Len(b) - 1)
      PROVE  Tail(b)[i] = (Tail(q) \o r)[i]
  <2>1. i \in 1..(Len(q) - 1 + Len(r)) /\ i + 1 \in 1..(Len(q) + Len(r))
    BY <1>1
  <2>2. CASE i <= Len(q) - 1
    <3>1. i \in 1..(Len(q) - 1) /\ i + 1 <= Len(q)
      BY <1>1, <2>1, <2>2
    <3>2. QED
      BY <1>1, <1>2, <1>6, <1>7, <2>1, <2>2, <3>1
  <2>3. CASE ~(i <= Len(q) - 1)
    <3>1. ~(i + 1 <= Len(q)) /\ i - (Len(q) - 1) = (i + 1) - Len(q)
      BY <1>1, <2>1, <2>3
    <3>2. QED
      BY <1>1, <1>6, <1>7, <2>1, <2>3, <3>1
  <2>4. QED
    BY <2>2, <2>3
<1>9. Tail(b) = Tail(q) \o r
  <2>1. Len(Tail(b)) = Len(Tail(q) \o r)
    BY <1>1, <1>6, <1>7
  <2>2. \A i \in 1..Len(Tail(b)) : Tail(b)[i] = (Tail(q) \o r)[i]
    BY <1>6, <1>8
  <2> HIDE DEF b
  <2>3. QED
    BY <1>6, <1>7, <2>1, <2>2, SeqEqual
<1>10. QED
  BY <1>3, <1>5, <1>9 DEF b

LEMMA FirstElement ==
    ASSUME NEW S, NEW q \in Seq(S), q # <<>>
    PROVE  /\ Len(q) \in Nat \ {0} /\ Head(q) = q[1] /\ Head(q) \in S /\ Tail(q) \in Seq(S)
           /\ Len(Tail(q)) = Len(q) - 1
           /\ \A i \in 1..(Len(q) - 1) : Tail(q)[i] = q[i + 1]
<1>1. Len(q) \in Nat \ {0}
  BY EmptySeq
<1>2. Head(q) = q[1]
  BY <1>1, SubSeqFull, HeadTailOfSubSeq
<1>3. QED
  BY <1>1, <1>2, HeadTailProperties

\* A single step in front.
LEMMA OneFirst ==
    ASSUME NEW S, NEW x \in S, NEW q \in Seq(S)
    PROVE  /\ <<x>> \o q \in Seq(S) /\ <<x>> \o q # <<>>
           /\ Head(<<x>> \o q) = x /\ Tail(<<x>> \o q) = q
<1>1. <<x>> \in Seq(S) /\ <<x>> # <<>> /\ Head(<<x>>) = x /\ Tail(<<x>>) = <<>>
  OBVIOUS
<1>2. <<>> \o q = q
  BY ConcatEmptySeq
<1>3. QED
  BY <1>1, <1>2, FrontStep, ConcatProperties

-----------------------------------------------------------------------------
(* Guarded sequences of steps.                                              *)

LEMMA GuardedIsPlan ==
    ASSUME NEW Calm, NEW Plan, NEW q \in Guarded(Calm, Plan)
    PROVE  q \in Seq(Plan)
BY DEF Guarded

LEMMA CalmIsGuarded ==
    ASSUME NEW Plan, NEW Calm \in SUBSET Plan, NEW q \in Seq(Calm)
    PROVE  q \in Guarded(Calm, Plan)
<1>1. q \in Seq(Plan) /\ Len(q) \in Nat /\ \A i \in 1..Len(q) : q[i] \in Calm
  BY SeqMonotonic, LenProperties, ElementOfSeq
<1>2. Len(q) \in 0..Len(q)
  BY <1>1
<1>3. QED
  BY <1>1, <1>2 DEF Guarded

LEMMA UnwatchFirst ==
    ASSUME NEW Calm, NEW Plan, NEW q \in Seq(Plan), q # <<>>, q[1] = Unwatch
    PROVE  q \in Guarded(Calm, Plan)
<1>1. 0 \in 0..Len(q) /\ \A i \in 1..0 : q[i] \in Calm
  BY LenProperties
<1>2. q[0 + 1] = Unwatch
  OBVIOUS
<1>3. QED
  BY <1>1, <1>2 DEF Guarded

LEMMA GuardedGrows ==
    ASSUME NEW C, NEW P, NEW D, NEW Q, C \subseteq D, P \subseteq Q
    PROVE  Guarded(C, P) \subseteq Guarded(D, Q)
<1>1. ASSUME NEW q \in Guarded(C, P)
      PROVE  q \in Guarded(D, Q)
  <2>1. q \in Seq(Q)
    BY SeqMonotonic DEF Guarded
  <2>2. QED
    BY <2>1 DEF Guarded
<1>2. QED
  BY <1>1

LEMMA GuardedStep ==
    ASSUME NEW Calm, NEW Plan, NEW q \in Guarded(Calm, Plan), q # <<>>
    PROVE  Head(q) = Unwatch \/ (Head(q) \in Calm /\ Tail(q) \in Guarded(Calm, Plan))
<1>1. q \in Seq(Plan)
  BY DEF Guarded
<1>2. /\ Len(q) \in Nat \ {0} /\ Head(q) = q[1] /\ Tail(q) \in Seq(Plan)
      /\ Len(Tail(q)) = Len(q) - 1
      /\ \A i \in 1..(Len(q) - 1) : Tail(q)[i] = q[i + 1]
  BY <1>1, FirstElement
<1>3. PICK n \in 0..Len(q) : /\ \A i \in 1..n : q[i] \in Calm
                             /\ n = Len(q) \/ q[n + 1] = Unwatch
  BY DEF Guarded
<1> DEFINE l == Len(q)
<1>n. l \in Nat \ {0} /\ n \in Nat /\ n <= l
  BY <1>2
<1> HIDE DEF l
<1>4. CASE n = 0
  BY <1>2, <1>3, <1>4
<1>5. CASE n # 0
  <2>0. n - 1 \in 0..(l - 1) /\ 1 \in 1..n
    BY <1>n, <1>5
  <2>1. n - 1 \in 0..Len(Tail(q)) /\ 1 \in 1..n
    BY <1>2, <2>0 DEF l
  <2>2. Head(q) \in Calm
    BY <1>2, <1>3, <2>1
  <2>3. \A i \in 1..(n - 1) : Tail(q)[i] \in Calm
    <3>1. \A i \in 1..(n - 1) : i \in 1..(l - 1) /\ i + 1 \in 1..n
      BY <1>n
    <3>2. QED
      BY <1>2, <1>3, <3>1 DEF l
  <2>4. n - 1 = Len(Tail(q)) \/ Tail(q)[(n - 1) + 1] = Unwatch
    <3>1. CASE n = Len(q)
      BY <1>2, <3>1
    <3>2. CASE n # Len(q)
      <4>1. n # l
        BY <3>2 DEF l
      <4>2. (n - 1) + 1 = n /\ n \in 1..(l - 1)
        BY <1>n, <1>5, <4>1
      <4>3. QED
        BY <1>2, <1>3, <3>2, <4>2 DEF l
    <3>3. QED
      BY <3>1, <3>2
  <2>5. Tail(q) \in Guarded(Calm, Plan)
    BY <1>2, <2>1, <2>3, <2>4 DEF Guarded
  <2>6. QED
    BY <2>2, <2>5
<1>6. QED
  BY <1>4, <1>5

LEMMA GuardedTogether ==
    ASSUME NEW Calm, NEW Plan, NEW p \in Guarded(Calm, Plan), NEW q \in Guarded(Calm, Plan)
    PROVE  p \o q \in Guarded(Calm, Plan)
<1> DEFINE b == p \o q
<1>1. p \in Seq(Plan) /\ q \in Seq(Plan)
  BY DEF Guarded
<1>2. /\ b \in Seq(Plan) /\ Len(b) = Len(p) + Len(q) /\ Len(p) \in Nat /\ Len(q) \in Nat
      /\ \A i \in 1..(Len(p) + Len(q)) : b[i] = IF i <= Len(p) THEN p[i] ELSE q[i - Len(p)]
  BY <1>1, ConcatProperties, LenProperties
<1> HIDE DEF b
<1>3. PICK n \in 0..Len(p) : /\ \A i \in 1..n : p[i] \in Calm
                             /\ n = Len(p) \/ p[n + 1] = Unwatch
  BY DEF Guarded
<1>4. PICK m \in 0..Len(q) : /\ \A i \in 1..m : q[i] \in Calm
                             /\ m = Len(q) \/ q[m + 1] = Unwatch
  BY DEF Guarded
<1>5. CASE n # Len(p)
  <2>1. n \in 0..Len(b) /\ n + 1 \in 1..(Len(p) + Len(q)) /\ n + 1 <= Len(p)
    BY <1>2, <1>3, <1>5
  <2>2. b[n + 1] = Unwatch
    BY <1>2, <1>3, <1>5, <2>1
  <2>3. ASSUME NEW i \in 1..n PROVE b[i] \in Calm
    <3>1. i \in 1..(Len(p) + Len(q)) /\ i <= Len(p)
      BY <1>2, <1>3
    <3>2. QED
      BY <1>2, <1>3, <3>1
  <2>4. QED
    BY <1>2, <2>1, <2>2, <2>3 DEF Guarded, b
<1>6. CASE n = Len(p)
  <2>1. Len(p) + m \in 0..Len(b)
    BY <1>2, <1>4
  <2>2. ASSUME NEW i \in 1..(Len(p) + m) PROVE b[i] \in Calm
    <3>1. i \in 1..(Len(p) + Len(q))
      BY <1>2, <1>4
    <3>2. CASE i <= Len(p)
      BY <1>2, <1>3, <1>6, <3>1, <3>2
    <3>3. CASE ~(i <= Len(p))
      <4>1. i - Len(p) \in 1..m
        BY <1>2, <1>4, <3>3
      <4>2. QED
        BY <1>2, <1>4, <3>1, <3>3, <4>1
    <3>4. QED
      BY <3>2, <3>3
  <2>3. Len(p) + m = Len(b) \/ b[(Len(p) + m) + 1] = Unwatch
    <3>1. CASE m = Len(q)
      BY <1>2, <3>1
    <3>2. CASE m # Len(q)
      <4>1. /\ (Len(p) + m) + 1 \in 1..(Len(p) + Len(q)) /\ ~((Len(p) + m) + 1 <= Len(p))
            /\ ((Len(p) + m) + 1) - Len(p) = m + 1
        BY <1>2, <1>4, <3>2
      <4>2. QED
        BY <1>2, <1>4, <3>2, <4>1
    <3>3. QED
      BY <3>1, <3>2
  <2>4. QED
    BY <1>2, <2>1, <2>2, <2>3 DEF Guarded, b
<1>7. QED
  BY <1>5, <1>6

-----------------------------------------------------------------------------
(* The levels of nesting include one another.                               *)

LEMMA SeqGrows ==
    ASSUME NEW S, NEW T, S \subseteq T
    PROVE  Seq(S) \subseteq Seq(T)
BY SeqMonotonic

LEMMA BranchesGrow ==
    ASSUME NEW S, NEW T, S \subseteq T
    PROVE  Branches(S) \subseteq Branches(T)
BY DEF Branches

LEMMA ChoicesGrow ==
    ASSUME NEW S, NEW T, S \subseteq T
    PROVE  Chooses(S) \subseteq Chooses(T)
BY DEF Chooses

LEMMA BodiesGrow == Body0 \subseteq Body1 /\ Body1 \subseteq Body2
<1>1. Body0 \subseteq Body1
  BY DEF Body1
<1>2. Chooses(Seq(Body0)) \subseteq Chooses(Seq(Body1))
  BY <1>1, SeqGrows, ChoicesGrow
<1>3. QED
  BY <1>1, <1>2 DEF Body1, Body2

LEMMA PlansGrow == Plan0 \subseteq Plan1 /\ Plan1 \subseteq Plan2 /\ Plan2 \subseteq Plan3
<1>1. Plan0 \subseteq Plan1
  BY DEF Plan1
<1>2. Branches(Seq(Plan0)) \subseteq Branches(Seq(Plan1))
  BY <1>1, SeqGrows, BranchesGrow
<1>3. Plan1 \subseteq Plan2
  BY <1>2 DEF Plan1, Plan2
<1>4. Branches(Seq(Plan1)) \subseteq Branches(Seq(Plan2))
  BY <1>3, SeqGrows, BranchesGrow
<1>5. QED
  BY <1>1, <1>3, <1>4 DEF Plan2, Plan3

\* A calm step is a step; so is what it leads to.
LEMMA CalmIsPlan ==
    /\ Calm0 \subseteq Plan0 /\ Calm1 \subseteq Plan1 /\ Calm2 \subseteq Plan2 /\ Calm3 \subseteq Plan3
    /\ Guarded(Calm0, Plan0) \subseteq Seq(Plan0) /\ Guarded(Calm1, Plan1) \subseteq Seq(Plan1)
    /\ Guarded(Calm2, Plan2) \subseteq Seq(Plan2)
<1>1. Calm0 \subseteq Plan0
  BY DEF Calm0
<1>2. /\ Guarded(Calm0, Plan0) \subseteq Seq(Plan0) /\ Guarded(Calm1, Plan1) \subseteq Seq(Plan1)
      /\ Guarded(Calm2, Plan2) \subseteq Seq(Plan2)
  BY GuardedIsPlan
<1>3. /\ Branches(Guarded(Calm0, Plan0)) \subseteq Branches(Seq(Plan0))
      /\ Branches(Guarded(Calm1, Plan1)) \subseteq Branches(Seq(Plan1))
      /\ Branches(Guarded(Calm2, Plan2)) \subseteq Branches(Seq(Plan2))
  BY <1>2, BranchesGrow
<1>4. QED
  BY <1>1, <1>2, <1>3 DEF Calm1, Calm2, Calm3, Plan1, Plan2, Plan3

LEMMA CalmGrows ==
    /\ Calm0 \subseteq Calm1 /\ Calm1 \subseteq Calm2 /\ Calm2 \subseteq Calm3
    /\ Guarded(Calm0, Plan0) \subseteq Guarded(Calm1, Plan1)
    /\ Guarded(Calm1, Plan1) \subseteq Guarded(Calm2, Plan2)
    /\ Guarded(Calm2, Plan2) \subseteq Guards
<1>1. Calm0 \subseteq Calm1
  BY DEF Calm1
<1>2. Guarded(Calm0, Plan0) \subseteq Guarded(Calm1, Plan1)
  BY <1>1, PlansGrow, GuardedGrows
<1>3. Calm1 \subseteq Calm2
  <2>1. Branches(Guarded(Calm0, Plan0)) \subseteq Branches(Guarded(Calm1, Plan1))
    BY <1>2, BranchesGrow
  <2>2. QED
    BY <2>1 DEF Calm1, Calm2
<1>4. Guarded(Calm1, Plan1) \subseteq Guarded(Calm2, Plan2)
  BY <1>3, PlansGrow, GuardedGrows
<1>5. Calm2 \subseteq Calm3
  <2>1. Branches(Guarded(Calm1, Plan1)) \subseteq Branches(Guarded(Calm2, Plan2))
    BY <1>4, BranchesGrow
  <2>2. QED
    BY <2>1 DEF Calm2, Calm3
<1>6. Guarded(Calm2, Plan2) \subseteq Guards
  BY <1>5, PlansGrow, GuardedGrows DEF Guards
<1>7. QED
  BY <1>1, <1>2, <1>3, <1>4, <1>5, <1>6

-----------------------------------------------------------------------------
(* The steps of the programs, one by one.                                   *)

LEMMA NamesAre ==
    /\ "" \in Names /\ "_accountStore2" \in Names /\ "_csObject" \in Names
    /\ "_deviceStore2" \in Names /\ "_deviceStoreCache" \in Names
    /\ "_deviceStoreInspector" \in Names /\ "_deviceStoreLimit" \in Names /\ "_psCache" \in Names
    /\ "_psInspector" \in Names /\ "_psLimit" \in Names /\ "_psObject" \in Names
    /\ "_service" \in Names /\ "_store2" \in Names /\ "_storeCache" \in Names
    /\ "_storeInspector" \in Names /\ "_storeLimit" \in Names /\ "_userSettingsInspector" \in Names
    /\ "configure" \in Names /\ "connector" \in Names /\ "connector service" \in Names
    /\ "impl" \in Names /\ "LifecycleManager" \in Names /\ "LifecycleManagerState" \in Names
    /\ "mCurrentservice" \in Names /\ "mLifecycleManagerState" \in Names
    /\ "mPackageHandler" \in Names /\ "mPackageInstaller" \in Names
    /\ "mRuntimeManagerHandler" \in Names /\ "mService" \in Names /\ "mShell" \in Names
    /\ "mWindowManagerHandler" \in Names /\ "OCIContainer" \in Names /\ "PackageHandler" \in Names
    /\ "PackageInstaller" \in Names /\ "PersistentStore" \in Names /\ "PowerManager" \in Names
    /\ "RDKWindowManager" \in Names /\ "RuntimeManager" \in Names /\ "SecurityAgent" \in Names
    /\ "service" \in Names /\ "StorageManager" \in Names /\ "this" \in Names /\ "thread" \in Names
    /\ "USBDevice" \in Names /\ "UserSettings" \in Names
BY DEF Names

LEMMA ThingsAre ==
    /\ "_webSocketExporter" \in Things /\ "_worker" \in Things /\ "containers" \in Things
    /\ "death" \in Things /\ "devices" \in Things /\ "DobbyInterface" \in Things
    /\ "downloader" \in Things /\ "downloads" \in Things /\ "installs" \in Things
    /\ "JAnalytics" \in Things /\ "JAppManager" \in Things /\ "JLifecycleManagerState" \in Things
    /\ "JMessageControl" \in Things /\ "JNativeJS" \in Things /\ "JOCIContainer" \in Things
    /\ "JPackageDownloader" \in Things /\ "JPackageHandler" \in Things
    /\ "JPackageInstaller" \in Things /\ "JRDKWindowManager" \in Things
    /\ "JSharedStorage" \in Things /\ "JSharedStorageCache" \in Things
    /\ "JSharedStorageInspector" \in Things /\ "JSharedStorageLimit" \in Things
    /\ "JStorageManager" \in Things /\ "JStore2" \in Things /\ "JTelemetry" \in Things
    /\ "JUSBDevice" \in Things /\ "JUSBMassStorage" \in Things /\ "JUserSettings" \in Things
    /\ "JUserSettingsInspector" \in Things /\ "libusb" \in Things /\ "modes" \in Things
    /\ "mRenderThread" \in Things /\ "mThread" \in Things /\ "outputs" \in Things
    /\ "packages" \in Things /\ "settings" \in Things /\ "shellThread" \in Things
    /\ "sink" \in Things /\ "states" \in Things /\ "thread" \in Things /\ "values" \in Things
    /\ "windows" \in Things
BY DEF Things

\* Lists of steps.
LEMMA One ==
    ASSUME NEW S, NEW x \in S
    PROVE  <<x>> \in Seq(S)
OBVIOUS

LEMMA Listed ==
    ASSUME NEW S
    PROVE  /\ \A a \in S : <<a>> \in Seq(S)
           /\ \A a, b \in S : <<a, b>> \in Seq(S)
           /\ \A a, b, c \in S : <<a, b, c>> \in Seq(S)
           /\ \A a, b, c, d \in S : <<a, b, c, d>> \in Seq(S)
           /\ \A a, b, c, d, e \in S : <<a, b, c, d, e>> \in Seq(S)
           /\ \A a, b, c, d, e, f \in S : <<a, b, c, d, e, f>> \in Seq(S)
           /\ \A a, b, c, d, e, f, g \in S : <<a, b, c, d, e, f, g>> \in Seq(S)
OBVIOUS

LEMMA PlainIs ==
    /\ \A d, x : Plain(d, x).do = d /\ Plain(d, x).of = x
    /\ \A D : \A d \in D, x \in Names : Plain(d, x) \in Leaf(D)
BY DEF Plain, Step, Leaf

LEMMA MarksOf ==
    ASSUME NEW x \in Names, NEW r \in Things
    PROVE  /\ Register(x, r) \in Marks /\ Register(x, r).do = "register" /\ Register(x, r).of = x
           /\ Unregister(x, r) \in Marks /\ Unregister(x, r).do = "unregister" /\ Unregister(x, r).of = x
<1>1. <<r>> \in Seq(Things)
  BY One
<1>2. /\ Register(x, r) = [do |-> "register", of |-> x, body |-> Nothing, then |-> <<r>>, else |-> Nothing]
      /\ Unregister(x, r) = [do |-> "unregister", of |-> x, body |-> Nothing, then |-> <<r>>, else |-> Nothing]
  BY DEF Register, Unregister, Plain, Step
<1> DEFINE t == <<r>>
<1> HIDE DEF t
<1>3. QED
  BY <1>1, <1>2 DEF Marks, t

LEMMA UnwatchIs ==
    /\ Unwatch \in Marks /\ Unwatch.do = "unregister"
    /\ Unwatch.of = "service" /\ Unwatch.then = <<"death">>
<1>1. "service" \in Names /\ "death" \in Things
  BY NamesAre, ThingsAre
<1>2. QED
  BY <1>1, MarksOf DEF Unwatch, Unregister, Plain, Step

LEMMA WatchIs == Watch.do = "register" /\ Watch.of = "service" /\ Watch.then = <<"death">>
BY DEF Watch, Register, Plain, Step

\* Whatever its alternatives are, a branch is one.
LEMMA BranchesOf ==
    ASSUME NEW S, Nothing \in S, NEW x \in Names, NEW then \in S
    PROVE  /\ If(x, then) \in Branches(S) /\ IfFailed(then) \in Branches(S)
           /\ Sometimes(then) \in Branches(S)
           /\ \A else \in S : /\ Query(x, then, else) \in Branches(S)
                              /\ ByCallsign(x, then, else) \in Branches(S)
                              /\ Root(then, else) \in Branches(S)
           /\ \A else \in S : \A b \in Bodies : Call(x, b, then, else) \in Branches(S)
<1>1. "" \in Names
  BY NamesAre
<1>2. If(x, then) \in Branches(S) /\ IfFailed(then) \in Branches(S) /\ Sometimes(then) \in Branches(S)
  BY <1>1 DEF Branches, If, IfFailed, Sometimes, Step
<1>3. ASSUME NEW else \in S
      PROVE  /\ Query(x, then, else) \in Branches(S) /\ ByCallsign(x, then, else) \in Branches(S)
             /\ Root(then, else) \in Branches(S)
  BY DEF Branches, Query, ByCallsign, Root, Step
<1>4. ASSUME NEW else \in S, NEW b \in Bodies
      PROVE  Call(x, b, then, else) \in Branches(S)
  BY DEF Branches, Call, Step
<1>5. QED
  BY <1>2, <1>3, <1>4

LEMMA ChoosesOf ==
    ASSUME NEW S, Nothing \in S, NEW x \in Names, NEW then \in S
    PROVE  /\ If(x, then) \in Chooses(S) /\ Sometimes(then) \in Chooses(S)
           /\ \A else \in S : ByCallsign(x, then, else) \in Chooses(S)
<1>1. "" \in Names
  BY NamesAre
<1>2. QED
  BY <1>1 DEF Chooses, If, Sometimes, ByCallsign, Step

-----------------------------------------------------------------------------
(* What such a step is. *)

LEMMA BodyForms ==
    ASSUME NEW s \in Body2
    PROVE  /\ s.do \in {"keep", "point", "addRef", "release", "drop", "forget", "fail", "refuse",
                        "register", "unregister", "if", "sometimes", "byCallsign"}
           /\ s.do \in {"if", "sometimes", "byCallsign"} => s.then \in Bodies /\ s.else \in Bodies
<1>1. CASE s \in Body0
  BY <1>1 DEF Body0, Leaf, Marks
<1>2. CASE s \in Chooses(Seq(Body1))
  <2>1. Seq(Body1) \subseteq Bodies
    BY BodiesGrow, SeqGrows DEF Bodies
  <2>2. QED
    BY <1>2, <2>1 DEF Chooses
<1>3. QED
  BY <1>1, <1>2 DEF Body2

LEMMA PlanForms ==
    ASSUME NEW s \in Plan3
    PROVE  /\ s.do \in {"keep", "point", "addRef", "release", "drop", "forget", "fail", "exit", "terminate",
                        "clearId", "found", "register", "unregister",
                        "if", "ifFailed", "sometimes", "byCallsign", "query", "call", "root"}
           /\ s.do \in {"if", "ifFailed", "sometimes", "byCallsign", "query", "call", "root"} =>
                s.then \in Plans /\ s.else \in Plans
           /\ s.do = "call" => s.body \in Bodies
           /\ s.do = "root" => s.of = "impl"
           /\ s.do = "register" => s.of # "service"
<1>1. CASE s \in Plan0
  BY <1>1 DEF Plan0, Leaf, Marks
<1>2. CASE s \in Branches(Seq(Plan2))
  <2>1. Seq(Plan2) \subseteq Plans
    BY PlansGrow, SeqGrows DEF Plans
  <2>2. QED
    BY <1>2, <2>1 DEF Branches
<1>3. QED
  BY <1>1, <1>2 DEF Plan3

LEMMA CalmForms ==
    ASSUME NEW s \in Calm3
    PROVE  /\ s.do \in {"if", "ifFailed", "sometimes", "byCallsign", "query", "call", "root"} =>
                s.then \in Guards /\ s.else \in Guards
           /\ s.do # "terminate"
           /\ s.do \in {"release", "drop"} => s.of # "impl"
<1>1. CASE s \in Calm0
  BY <1>1 DEF Calm0, Plan0, Leaf, Marks
<1>2. CASE s \in Branches(Guarded(Calm2, Plan2))
  <2>1. Guarded(Calm2, Plan2) \subseteq Guards
    BY CalmGrows
  <2>2. QED
    BY <1>2, <2>1 DEF Branches
<1>3. QED
  BY <1>1, <1>2 DEF Calm3

LEMMA CreatedForms ==
    ASSUME NEW s \in CreatedSteps
    PROVE  s \in Body2 /\ s.do \in {"keep", "point", "register", "unregister"}
<1>1. s \in Body0
  BY DEF CreatedSteps, Body0, Leaf
<1>2. QED
  BY <1>1, BodiesGrow DEF CreatedSteps, Leaf, Marks

LEMMA PreForms ==
    ASSUME NEW s \in Pre
    PROVE  /\ s.do \in {"keep", "point", "register", "unregister", "drop", "byCallsign"}
           /\ s.do = "register" => s.of = "this"
           /\ s.do = "drop" => s.of \notin Interfaces
           /\ s.do = "byCallsign" => s.then \in Seq(Pre) /\ s.else \in Seq(Pre)
<1>1. CASE s \in CreatedSteps
  <2>1. s.do \in {"keep", "point", "register", "unregister"}
    BY <1>1, CreatedForms
  <2>2. s.do = "register" => s.of = "this"
    BY <2>1 DEF Pre, Drops, Leaf
  <2>3. QED
    BY <2>1, <2>2
<1>2. CASE s \in Drops
  BY <1>2 DEF Drops, Leaf
<1>3. CASE s \in [do : {"byCallsign"}, of : Names, body : {Nothing}, then : Seq(Drops), else : {Nothing}]
  <2>1. Seq(Drops) \subseteq Seq(Pre) /\ Nothing \in Seq(Pre)
    BY SeqGrows, EmptySeq DEF Pre, Nothing
  <2>2. QED
    BY <1>3, <2>1
<1>4. QED
  BY <1>1, <1>2, <1>3 DEF Pre

-----------------------------------------------------------------------------
(* Where each step belongs.                                                 *)

Found == Plain("found", "impl")

LEMMA CreatedOf ==
    /\ \A x \in Names : Keep(x) \in CreatedSteps /\ Point(x) \in CreatedSteps
    /\ \A x \in Names, r \in Things : Register(x, r) \in CreatedSteps
    /\ \A r \in Things : Opens(r) \in CreatedSteps
<1>1. \A x \in Names : Keep(x) \in CreatedSteps /\ Point(x) \in CreatedSteps
  BY PlainIs DEF Keep, Point, CreatedSteps
<1>2. \A x \in Names, r \in Things : Register(x, r) \in CreatedSteps
  BY MarksOf DEF CreatedSteps
<1>3. QED
  BY <1>1, <1>2, NamesAre DEF Opens

LEMMA BodyOf ==
    /\ \A B \in {Body0, Body1, Body2} :
          /\ \A x \in Names : /\ Keep(x) \in B /\ Point(x) \in B /\ AddRef(x) \in B
                              /\ Release(x) \in B /\ Drop(x) \in B /\ Forget(x) \in B
          /\ Refuse \in B
          /\ \A x \in Names, r \in Things : Register(x, r) \in B /\ Unregister(x, r) \in B
          /\ \A r \in Things : Opens(r) \in B /\ Closes(r) \in B
<1>1. /\ \A x \in Names : /\ Keep(x) \in Body0 /\ Point(x) \in Body0 /\ AddRef(x) \in Body0
                          /\ Release(x) \in Body0 /\ Drop(x) \in Body0 /\ Forget(x) \in Body0
      /\ Refuse \in Body0
  BY PlainIs, NamesAre DEF Keep, Point, AddRef, Release, Drop, Forget, Refuse, Body0
<1>2. \A x \in Names, r \in Things : Register(x, r) \in Body0 /\ Unregister(x, r) \in Body0
  BY MarksOf DEF Body0
<1>3. \A r \in Things : Opens(r) \in Body0 /\ Closes(r) \in Body0
  BY <1>2, NamesAre DEF Opens, Closes
<1>4. QED
  BY <1>1, <1>2, <1>3, BodiesGrow

LEMMA PlanOf ==
    /\ \A P \in {Plan0, Plan1, Plan2, Plan3} :
          /\ \A x \in Names : /\ Keep(x) \in P /\ Point(x) \in P /\ AddRef(x) \in P
                              /\ Release(x) \in P /\ Drop(x) \in P /\ Forget(x) \in P
          /\ Fail \in P /\ Exit \in P /\ Terminate \in P /\ ClearId \in P /\ Found \in P
          /\ \A x \in Names, r \in Things : Unregister(x, r) \in P /\ (x # "service" => Register(x, r) \in P)
          /\ \A r \in Things : Opens(r) \in P /\ Closes(r) \in P
          /\ Unwatch \in P
<1>1. /\ \A x \in Names : /\ Keep(x) \in Plan0 /\ Point(x) \in Plan0 /\ AddRef(x) \in Plan0
                          /\ Release(x) \in Plan0 /\ Drop(x) \in Plan0 /\ Forget(x) \in Plan0
  BY PlainIs DEF Keep, Point, AddRef, Release, Drop, Forget, Plan0
<1>2. Fail \in Plan0 /\ Exit \in Plan0 /\ Terminate \in Plan0 /\ ClearId \in Plan0 /\ Found \in Plan0
  BY PlainIs, NamesAre DEF Fail, Exit, Terminate, ClearId, Found, Plan0
<1>3. \A x \in Names, r \in Things : Unregister(x, r) \in Plan0 /\ (x # "service" => Register(x, r) \in Plan0)
  BY MarksOf DEF Plan0
<1>4. \A r \in Things : Opens(r) \in Plan0 /\ Closes(r) \in Plan0
  BY <1>3, NamesAre DEF Opens, Closes
<1>5. Unwatch \in Plan0
  BY <1>3, NamesAre, ThingsAre DEF Unwatch
<1>6. QED
  BY <1>1, <1>2, <1>3, <1>4, <1>5, PlansGrow

LEMMA CalmOf ==
    /\ \A C \in {Calm0, Calm1, Calm2, Calm3} :
          /\ \A x \in Names : /\ Keep(x) \in C /\ Point(x) \in C /\ AddRef(x) \in C /\ Forget(x) \in C
                              /\ x # "impl" => Release(x) \in C /\ Drop(x) \in C
          /\ Fail \in C /\ Exit \in C /\ ClearId \in C /\ Found \in C
          /\ \A x \in Names, r \in Things : Unregister(x, r) \in C /\ (x # "service" => Register(x, r) \in C)
          /\ \A r \in Things : Opens(r) \in C /\ Closes(r) \in C
<1>1. \A x \in Names : /\ Keep(x) \in Calm0 /\ Point(x) \in Calm0 /\ AddRef(x) \in Calm0 /\ Forget(x) \in Calm0
                       /\ x # "impl" => Release(x) \in Calm0 /\ Drop(x) \in Calm0
  BY PlanOf, PlainIs DEF Keep, Point, AddRef, Release, Drop, Forget, Calm0
<1>2. Fail \in Calm0 /\ Exit \in Calm0 /\ ClearId \in Calm0 /\ Found \in Calm0
  BY PlanOf, PlainIs DEF Fail, Exit, ClearId, Found, Calm0
<1>3. \A x \in Names, r \in Things : Unregister(x, r) \in Calm0 /\ (x # "service" => Register(x, r) \in Calm0)
  BY PlanOf, MarksOf DEF Calm0
<1>4. \A r \in Things : Opens(r) \in Calm0 /\ Closes(r) \in Calm0
  BY <1>3, NamesAre DEF Opens, Closes
<1>5. QED
  BY <1>1, <1>2, <1>3, <1>4, CalmGrows

LEMMA CalmIsAllowed ==
    ASSUME NEW q
    PROVE  /\ q \in Seq(Calm0) => q \in Guarded(Calm0, Plan0)
           /\ q \in Seq(Calm1) => q \in Guarded(Calm1, Plan1)
           /\ q \in Seq(Calm2) => q \in Guarded(Calm2, Plan2)
           /\ q \in Seq(Calm3) => q \in Guards
BY CalmIsPlan, CalmIsGuarded DEF Guards

\* Nothing is anything.
LEMMA NothingIs ==
    /\ \A S : Nothing \in Seq(S)
    /\ Nothing \in Guarded(Calm0, Plan0) /\ Nothing \in Guarded(Calm1, Plan1)
    /\ Nothing \in Guarded(Calm2, Plan2)
    /\ Nothing \in Guards /\ Nothing \in Bodies /\ Nothing \in Plans /\ Nothing \in Seq(Pre)
    /\ Nothing \in Seq(CreatedSteps) /\ Guards \subseteq Plans
<1>1. \A S : Nothing \in Seq(S)
  BY EmptySeq DEF Nothing
<1>2. /\ Nothing \in Guarded(Calm0, Plan0) /\ Nothing \in Guarded(Calm1, Plan1)
      /\ Nothing \in Guarded(Calm2, Plan2) /\ Nothing \in Guards
  BY <1>1, CalmIsAllowed
<1>3. Guards \subseteq Plans
  BY GuardedIsPlan DEF Guards, Plans
<1>4. QED
  BY <1>1, <1>2, <1>3 DEF Bodies, Plans

-----------------------------------------------------------------------------
(* The alternatives of the programs: at each level, those of the one below. *)

LEMMA BodyChoices ==
    ASSUME NEW x \in Names
    PROVE  /\ \A then \in Seq(Body0) : If(x, then) \in Body1 /\ Sometimes(then) \in Body1
           /\ \A then \in Seq(Body1) : If(x, then) \in Body2 /\ Sometimes(then) \in Body2
           /\ \A then, else \in Seq(Body0) : ByCallsign(x, then, else) \in Body1
           /\ \A then, else \in Seq(Body1) : ByCallsign(x, then, else) \in Body2
BY ChoosesOf, NothingIs DEF Body1, Body2

LEMMA PlanChoices ==
    ASSUME NEW x \in Names
    PROVE  /\ \A then \in Seq(Plan0) : If(x, then) \in Plan1 /\ IfFailed(then) \in Plan1
           /\ \A then \in Seq(Plan1) : If(x, then) \in Plan2 /\ IfFailed(then) \in Plan2
           /\ \A then \in Seq(Plan2) : If(x, then) \in Plan3 /\ IfFailed(then) \in Plan3
           /\ \A then, else \in Seq(Plan0) : Query(x, then, else) \in Plan1 /\ Root(then, else) \in Plan1
           /\ \A then, else \in Seq(Plan1) : Query(x, then, else) \in Plan2 /\ Root(then, else) \in Plan2
           /\ \A then, else \in Seq(Plan2) : Query(x, then, else) \in Plan3 /\ Root(then, else) \in Plan3
           /\ \A then, else \in Seq(Plan0), b \in Bodies : Call(x, b, then, else) \in Plan1
           /\ \A then, else \in Seq(Plan1), b \in Bodies : Call(x, b, then, else) \in Plan2
           /\ \A then, else \in Seq(Plan2), b \in Bodies : Call(x, b, then, else) \in Plan3
BY BranchesOf, NothingIs DEF Plan1, Plan2, Plan3

LEMMA CalmChoices ==
    ASSUME NEW x \in Names
    PROVE  /\ \A then \in Guarded(Calm0, Plan0) : If(x, then) \in Calm1 /\ IfFailed(then) \in Calm1
           /\ \A then \in Guarded(Calm1, Plan1) : If(x, then) \in Calm2 /\ IfFailed(then) \in Calm2
           /\ \A then \in Guarded(Calm2, Plan2) : If(x, then) \in Calm3 /\ IfFailed(then) \in Calm3
           /\ \A then, else \in Guarded(Calm0, Plan0) : Query(x, then, else) \in Calm1 /\ Root(then, else) \in Calm1
           /\ \A then, else \in Guarded(Calm1, Plan1) : Query(x, then, else) \in Calm2 /\ Root(then, else) \in Calm2
           /\ \A then, else \in Guarded(Calm2, Plan2) : Query(x, then, else) \in Calm3 /\ Root(then, else) \in Calm3
           /\ \A then, else \in Guarded(Calm0, Plan0), b \in Bodies : Call(x, b, then, else) \in Calm1
           /\ \A then, else \in Guarded(Calm1, Plan1), b \in Bodies : Call(x, b, then, else) \in Calm2
           /\ \A then, else \in Guarded(Calm2, Plan2), b \in Bodies : Call(x, b, then, else) \in Calm3
BY BranchesOf, NothingIs DEF Calm1, Calm2, Calm3

LEMMA DropsOf ==
    /\ \A x \in Names : IfDrop(x) \in Body1 /\ IfDrop(x) \in Plan1
    /\ \A x \in Names, r \in Things : IfLeave(x, r) \in Body1 /\ IfLeave(x, r) \in Plan1
<1>1. \A x \in Names : <<Drop(x)>> \in Seq(Body0) /\ <<Drop(x)>> \in Seq(Plan0)
  BY BodyOf, PlanOf, Listed
<1>2. \A x \in Names, r \in Things : /\ <<Unregister(x, r), Drop(x)>> \in Seq(Body0)
                                     /\ <<Unregister(x, r), Drop(x)>> \in Seq(Plan0)
  BY BodyOf, PlanOf, Listed
<1>3. QED
  BY <1>1, <1>2, BodyChoices, PlanChoices DEF IfDrop, IfLeave

-----------------------------------------------------------------------------
(* Steps in front of others.                                                *)

LEMMA FirstAndRest ==
    ASSUME NEW S, NEW q \in Seq(S), q # <<>>
    PROVE  q = <<Head(q)>> \o Tail(q)
<1> DEFINE x == Head(q)
           t == Tail(q)
           b == <<x>> \o t
<1>1. /\ Len(q) \in Nat \ {0} /\ x = q[1] /\ x \in S /\ t \in Seq(S) /\ Len(t) = Len(q) - 1
      /\ \A i \in 1..(Len(q) - 1) : t[i] = q[i + 1]
  BY FirstElement
<1> HIDE DEF x, t
<1>2. b \in Seq(S) /\ b # <<>> /\ Head(b) = x /\ Tail(b) = t
  BY <1>1, OneFirst
<1> HIDE DEF b
<1>3. /\ Len(b) \in Nat \ {0} /\ x = b[1] /\ Len(t) = Len(b) - 1
      /\ \A i \in 1..(Len(b) - 1) : t[i] = b[i + 1]
  BY <1>2, FirstElement
<1>4. Len(b) = Len(q)
  BY <1>1, <1>3
<1>5. ASSUME NEW i \in 1..Len(q)
      PROVE  q[i] = b[i]
  <2>1. CASE i = 1
    BY <1>1, <1>3, <2>1
  <2>2. CASE i # 1
    <3>1. i - 1 \in 1..(Len(q) - 1) /\ (i - 1) + 1 = i
      BY <1>1, <2>2
    <3>2. QED
      BY <1>1, <1>3, <1>4, <3>1
  <2>3. QED
    BY <2>1, <2>2
<1>6. q = b
  BY <1>2, <1>4, <1>5, SeqEqual
<1>7. QED
  BY <1>6 DEF b, x, t

LEMMA Rests ==
    /\ \A a, b : <<a, b>> = <<a>> \o <<b>>
    /\ \A a, b, c : <<a, b, c>> = <<a>> \o <<b, c>>
    /\ \A a, b, c, d : <<a, b, c, d>> = <<a>> \o <<b, c, d>>
    /\ \A a, b, c, d, e : <<a, b, c, d, e>> = <<a>> \o <<b, c, d, e>>
    /\ \A a, b, c, d, e, f : <<a, b, c, d, e, f>> = <<a>> \o <<b, c, d, e, f>>
    /\ \A a, b, c, d, e, f, g : <<a, b, c, d, e, f, g>> = <<a>> \o <<b, c, d, e, f, g>>
<1>1. ASSUME NEW a, NEW b
      PROVE  <<a, b>> = <<a>> \o <<b>>
  <2>1. /\ <<a, b>> \in Seq({a, b}) /\ <<a, b>> # <<>>
        /\ Head(<<a, b>>) = a /\ Tail(<<a, b>>) = <<b>>
    OBVIOUS
  <2>2. QED
    BY <2>1, FirstAndRest
<1>2. ASSUME NEW a, NEW b, NEW c
      PROVE  <<a, b, c>> = <<a>> \o <<b, c>>
  <2>1. /\ <<a, b, c>> \in Seq({a, b, c}) /\ <<a, b, c>> # <<>>
        /\ Head(<<a, b, c>>) = a /\ Tail(<<a, b, c>>) = <<b, c>>
    OBVIOUS
  <2>2. QED
    BY <2>1, FirstAndRest
<1>3. ASSUME NEW a, NEW b, NEW c, NEW d
      PROVE  <<a, b, c, d>> = <<a>> \o <<b, c, d>>
  <2>1. /\ <<a, b, c, d>> \in Seq({a, b, c, d}) /\ <<a, b, c, d>> # <<>>
        /\ Head(<<a, b, c, d>>) = a /\ Tail(<<a, b, c, d>>) = <<b, c, d>>
    OBVIOUS
  <2>2. QED
    BY <2>1, FirstAndRest
<1>4. ASSUME NEW a, NEW b, NEW c, NEW d, NEW e
      PROVE  <<a, b, c, d, e>> = <<a>> \o <<b, c, d, e>>
  <2>1. /\ <<a, b, c, d, e>> \in Seq({a, b, c, d, e}) /\ <<a, b, c, d, e>> # <<>>
        /\ Head(<<a, b, c, d, e>>) = a /\ Tail(<<a, b, c, d, e>>) = <<b, c, d, e>>
    OBVIOUS
  <2>2. QED
    BY <2>1, FirstAndRest
<1>5. ASSUME NEW a, NEW b, NEW c, NEW d, NEW e, NEW f
      PROVE  <<a, b, c, d, e, f>> = <<a>> \o <<b, c, d, e, f>>
  <2>1. /\ <<a, b, c, d, e, f>> \in Seq({a, b, c, d, e, f}) /\ <<a, b, c, d, e, f>> # <<>>
        /\ Head(<<a, b, c, d, e, f>>) = a /\ Tail(<<a, b, c, d, e, f>>) = <<b, c, d, e, f>>
    OBVIOUS
  <2>2. QED
    BY <2>1, FirstAndRest
<1>6. ASSUME NEW a, NEW b, NEW c, NEW d, NEW e, NEW f, NEW g
      PROVE  <<a, b, c, d, e, f, g>> = <<a>> \o <<b, c, d, e, f, g>>
  <2>1. /\ <<a, b, c, d, e, f, g>> \in Seq({a, b, c, d, e, f, g}) /\ <<a, b, c, d, e, f, g>> # <<>>
        /\ Head(<<a, b, c, d, e, f, g>>) = a /\ Tail(<<a, b, c, d, e, f, g>>) = <<b, c, d, e, f, g>>
    OBVIOUS
  <2>2. QED
    BY <2>1, FirstAndRest
<1>7. QED
  BY <1>1, <1>2, <1>3, <1>4, <1>5, <1>6

\* What comes after the registration, and what before it.
LEMMA WatchFirst ==
    ASSUME NEW g \in Guards
    PROVE  Registering(<<Watch>> \o g)
<1>1. <<>> \in Seq(Pre)
  BY EmptySeq
<1> DEFINE S == Plan3 \union {Watch}
<1>2. g \in Seq(Plan3)
  BY GuardedIsPlan DEF Guards
<1>3. Plan3 \subseteq S /\ Watch \in S
  OBVIOUS
<1> HIDE DEF S
<1>4. g \in Seq(S)
  BY <1>2, <1>3, SeqGrows
<1>5. <<Watch>> \o g \in Seq(S)
  BY <1>3, <1>4, OneFirst
<1>6. <<>> \o (<<Watch>> \o g) = <<Watch>> \o g
  BY <1>5, ConcatEmptySeq
<1>7. QED
  BY <1>1, <1>6 DEF Registering

LEMMA PreFirst ==
    ASSUME NEW x \in Pre, NEW q, Registering(q)
    PROVE  Registering(<<x>> \o q)
<1>1. PICK n \in Seq(Pre), g \in Guards : q = n \o (<<Watch>> \o g)
  BY DEF Registering
<1> DEFINE S == Pre \union Plan3 \union {Watch}
           m == <<x>> \o n
<1>2. m \in Seq(Pre)
  BY OneFirst
<1>3. g \in Seq(Plan3)
  BY GuardedIsPlan DEF Guards
<1>4. Pre \subseteq S /\ Plan3 \subseteq S /\ Watch \in S
  OBVIOUS
<1> HIDE DEF S
<1>5. n \in Seq(S) /\ g \in Seq(S) /\ <<x>> \in Seq(S)
  BY <1>3, <1>4, SeqGrows, One
<1>6. <<Watch>> \o g \in Seq(S)
  BY <1>4, <1>5, OneFirst
<1>7. m \o (<<Watch>> \o g) = <<x>> \o (n \o (<<Watch>> \o g))
  BY <1>5, <1>6, ConcatAssociative
<1> HIDE DEF m
<1>8. <<x>> \o q = m \o (<<Watch>> \o g)
  BY <1>1, <1>7
<1>9. QED
  BY <1>2, <1>8 DEF Registering

LEMMA PreOf ==
    /\ \A x \in Names : Keep(x) \in Pre
    /\ \A r \in Things : Opens(r) \in Pre
    /\ \A x \in Names : x \notin Interfaces => ByCallsign(x, <<Drop(x)>>, Nothing) \in Pre
<1>1. ASSUME NEW x \in Names
      PROVE  Keep(x) \in Pre
  <2>1. Keep(x).do = "keep"
    BY PlainIs DEF Keep
  <2>2. QED
    BY <2>1, CreatedOf DEF Pre
<1>2. ASSUME NEW r \in Things
      PROVE  Opens(r) \in Pre
  <2>1. Opens(r).of = "this"
    BY NamesAre, MarksOf DEF Opens
  <2>2. QED
    BY <2>1, CreatedOf DEF Pre
<1>3. ASSUME NEW x \in Names, x \notin Interfaces
      PROVE  ByCallsign(x, <<Drop(x)>>, Nothing) \in Pre
  <2>1. Drop(x) \in Drops
    BY <1>3, PlainIs DEF Drops, Drop
  <2>2. <<Drop(x)>> \in Seq(Drops)
    BY <2>1, One
  <2> DEFINE t == <<Drop(x)>>
  <2> HIDE DEF t
  <2>3. QED
    BY <2>2 DEF Pre, ByCallsign, Step, t
<1>4. QED
  BY <1>1, <1>2, <1>3

LEMMA KeepAndWatch ==
    ASSUME NEW g \in Guards
    PROVE  Registering(<<Keep("service")>> \o (<<Watch>> \o g))
<1>1. Keep("service") \in Pre
  BY PreOf, NamesAre
<1>2. QED
  BY <1>1, WatchFirst, PreFirst

-----------------------------------------------------------------------------
(* How most plugins end.                                                    *)

LEMMA Ends ==
    /\ \A P \in {Plan0, Plan1, Plan2, Plan3} : End \in Seq(P) /\ Leave \in Seq(P)
    /\ \A C \in {Calm0, Calm1, Calm2, Calm3} : Leave \in Seq(C)
<1>1. ASSUME NEW P \in {Plan0, Plan1, Plan2, Plan3}
      PROVE  End \in Seq(P) /\ Leave \in Seq(P)
  <2>1. Drop("impl") \in P /\ Terminate \in P /\ ClearId \in P /\ Drop("service") \in P
    BY PlanOf, NamesAre
  <2>2. QED
    BY <2>1, Listed DEF End, Leave
<1>2. ASSUME NEW C \in {Calm0, Calm1, Calm2, Calm3}
      PROVE  Leave \in Seq(C)
  <2>1. ClearId \in C /\ Drop("service") \in C
    BY CalmOf, NamesAre
  <2>2. QED
    BY <2>1, Listed DEF Leave
<1>3. QED
  BY <1>1, <1>2

LEMMA Then ==
    ASSUME NEW S, NEW p \in Seq(S), NEW q \in Seq(S)
    PROVE  p \o q \in Seq(S)
BY ConcatProperties

\* After the plugin has unregistered anything may follow.
LEMMA UnwatchThen ==
    ASSUME NEW Calm, NEW Plan, NEW p \in Seq(Plan), p # <<>>, p[1] = Unwatch, NEW q \in Seq(Plan)
    PROVE  p \o q \in Guarded(Calm, Plan)
<1>1. p \o q \in Seq(Plan) /\ p \o q # <<>> /\ Head(p \o q) = Head(p)
  BY FrontStep, ConcatProperties
<1>2. Head(p) = p[1] /\ Head(p \o q) = (p \o q)[1]
  <2> DEFINE b == p \o q
  <2> HIDE DEF b
  <2>1. b \in Seq(Plan) /\ b # <<>> => Head(b) = b[1]
    BY FirstElement
  <2>2. Head(p) = p[1]
    BY FirstElement
  <2>3. QED
    BY <1>1, <2>1, <2>2 DEF b
<1> DEFINE b == p \o q
<1> HIDE DEF b
<1>3. b \in Seq(Plan) /\ b # <<>> /\ b[1] = Unwatch
  BY <1>1, <1>2 DEF b
<1>4. b \in Guarded(Calm, Plan)
  BY <1>3, UnwatchFirst
<1>5. QED
  BY <1>4 DEF b

LEMMA FailIs ==
    /\ \A P \in {Plan0, Plan1, Plan2} : <<Fail>> \in Seq(P)
    /\ <<Fail>> \in Guarded(Calm0, Plan0) /\ <<Fail>> \in Guarded(Calm1, Plan1)
    /\ <<Fail>> \in Guarded(Calm2, Plan2)
<1>1. /\ \A P \in {Plan0, Plan1, Plan2} : <<Fail>> \in Seq(P)
      /\ \A C \in {Calm0, Calm1, Calm2} : <<Fail>> \in Seq(C)
  BY PlanOf, CalmOf, Listed
<1>2. QED
  BY <1>1, CalmIsAllowed

-----------------------------------------------------------------------------
(* The programs of the plugins, from the innermost alternatives outwards:   *)
(* of those that register, what they do while they are registered is        *)
(* guarded; the others never register.                                      *)

LEMMA AppManagerIsCalm ==
    /\ AppManagerDestroyed \in Bodies
    /\ Registering(AppManagerInitialize) /\ AppManagerDeinitialize \in Guards
<1> DEFINE ifConnectorThen == <<IfDrop("LifecycleManager"), IfLeave("LifecycleManagerState", "states"),
                              IfDrop("connector service"), Forget("connector")>>
<1>1. ifConnectorThen \in Seq(Body1)
  BY BodyOf, DropsOf, NamesAre, ThingsAre, Listed
<1> HIDE DEF ifConnectorThen
<1> DEFINE ifConnector == If("connector", ifConnectorThen)
<1>2. ifConnector \in Body2
  BY <1>1, BodyChoices, NamesAre
<1> HIDE DEF ifConnector
<1>3. AppManagerDestroyed \in Bodies
  <2>1. <<ifConnector, IfDrop("PersistentStore"), IfDrop("PackageHandler"), IfLeave("PackageInstaller",
        "packages"), IfDrop("mCurrentservice")>> \in Seq(Body2)
    BY <1>2, BodiesGrow, DropsOf, NamesAre, ThingsAre, Listed
  <2>2. AppManagerDestroyed = <<ifConnector, IfDrop("PersistentStore"), IfDrop("PackageHandler"),
        IfLeave("PackageInstaller", "packages"), IfDrop("mCurrentservice")>>
    BY DEF AppManagerDestroyed, ifConnector, ifConnectorThen
  <2>3. QED
    BY <2>1, <2>2 DEF Bodies
<1> DEFINE ifImplThen == <<Unregister("impl", "sink"), Closes("JAppManager"), IfDrop("configure")>> \o End
<1>4. ifImplThen \in Seq(Plan1)
  <2>1. <<Unregister("impl", "sink"), Closes("JAppManager"), IfDrop("configure")>> \in Seq(Plan1)
    BY DropsOf, NamesAre, PlanOf, ThingsAre, Listed
  <2>2. QED
    BY <2>1, Ends, Then
<1> HIDE DEF ifImplThen
<1> DEFINE ifImpl == If("impl", ifImplThen)
<1>5. ifImpl \in Plan2
  BY <1>4, NamesAre, PlanChoices
<1> HIDE DEF ifImpl
<1>6. AppManagerDeinitialize \in Guarded(Calm2, Plan2)
  <2>1. <<Unwatch, ifImpl>> \in Seq(Plan2)
    BY <1>5, PlanOf, Listed
  <2>2. Leave \in Seq(Plan2)
    BY Ends
  <2>3. <<Unwatch, ifImpl>> # <<>> /\ <<Unwatch, ifImpl>>[1] = Unwatch
    OBVIOUS
  <2>4. AppManagerDeinitialize = <<Unwatch, ifImpl>> \o Leave
    BY DEF AppManagerDeinitialize, ifImpl, ifImplThen
  <2>5. QED
    BY <2>1, <2>2, <2>3, UnwatchThen, <2>4
<1>7. AppManagerDeinitialize \in Guards
  BY <1>6, CalmGrows
<1> DEFINE byCallsignLifecycleManagerStateThen == <<AddRef("LifecycleManager"), AddRef("LifecycleManagerState"),
                                                  Register("LifecycleManagerState", "states")>>
<1>8. byCallsignLifecycleManagerStateThen \in Seq(Body0)
  BY BodyOf, NamesAre, ThingsAre, Listed
<1> HIDE DEF byCallsignLifecycleManagerStateThen
<1> DEFINE byCallsignLifecycleManagerState == ByCallsign("LifecycleManagerState",
                                              byCallsignLifecycleManagerStateThen, Nothing)
<1>9. byCallsignLifecycleManagerState \in Body1
  BY <1>8, BodyChoices, NamesAre, NothingIs
<1> HIDE DEF byCallsignLifecycleManagerState
<1> DEFINE createLifecycleManagerRemoteObjectThen == <<byCallsignLifecycleManagerState>>
<1>10. createLifecycleManagerRemoteObjectThen \in Seq(Body1)
  BY <1>9, Listed
<1> HIDE DEF createLifecycleManagerRemoteObjectThen
<1>11. createLifecycleManagerRemoteObject \in Body2
  <2>1. ByCallsign("LifecycleManager", createLifecycleManagerRemoteObjectThen, Nothing) \in Body2
    BY <1>10, BodyChoices, NamesAre, NothingIs
  <2>2. QED
    BY <2>1 DEF createLifecycleManagerRemoteObject, createLifecycleManagerRemoteObjectThen,
       byCallsignLifecycleManagerState, byCallsignLifecycleManagerStateThen
<1> DEFINE byCallsignPersistentStore == ByCallsign("PersistentStore", Nothing, Nothing)
<1>12. byCallsignPersistentStore \in Body2
  BY BodyChoices, NamesAre, NothingIs
<1> HIDE DEF byCallsignPersistentStore
<1> DEFINE byCallsignPackageInstallerThen == <<AddRef("PackageInstaller"), Register("PackageInstaller",
                                             "packages")>>
<1>13. byCallsignPackageInstallerThen \in Seq(Body0)
  BY BodyOf, NamesAre, ThingsAre, Listed
<1> HIDE DEF byCallsignPackageInstallerThen
<1> DEFINE byCallsignPackageInstaller == ByCallsign("PackageInstaller", byCallsignPackageInstallerThen, Nothing)
<1>14. byCallsignPackageInstaller \in Body1
  BY <1>13, BodyChoices, NamesAre, NothingIs
<1> HIDE DEF byCallsignPackageInstaller
<1> DEFINE createPackageManagerObjectThen == <<byCallsignPackageInstaller>>
<1>15. createPackageManagerObjectThen \in Seq(Body1)
  BY <1>14, Listed
<1> HIDE DEF createPackageManagerObjectThen
<1>16. createPackageManagerObject \in Body2
  <2>1. ByCallsign("PackageHandler", createPackageManagerObjectThen, Nothing) \in Body2
    BY <1>15, BodyChoices, NamesAre, NothingIs
  <2>2. QED
    BY <2>1 DEF createPackageManagerObject, createPackageManagerObjectThen, byCallsignPackageInstaller,
       byCallsignPackageInstallerThen
<1> DEFINE byCallsignStorageManager == ByCallsign("StorageManager", Nothing, Nothing)
<1>17. byCallsignStorageManager \in Body2
  BY BodyChoices, NamesAre, NothingIs
<1> HIDE DEF byCallsignStorageManager
<1>18. AppManagerConfigure \in Bodies
  <2>1. <<Keep("mCurrentservice"), Point("connector"), Keep("connector service"),
        createLifecycleManagerRemoteObject, byCallsignPersistentStore, createPackageManagerObject,
        byCallsignStorageManager>> \in Seq(Body2)
    BY <1>11, <1>12, <1>16, <1>17, BodyOf, NamesAre, Listed
  <2>2. AppManagerConfigure = <<Keep("mCurrentservice"), Point("connector"), Keep("connector service"),
        createLifecycleManagerRemoteObject, byCallsignPersistentStore, createPackageManagerObject,
        byCallsignStorageManager>>
    BY DEF AppManagerConfigure, byCallsignPersistentStore, byCallsignStorageManager
  <2>3. QED
    BY <2>1, <2>2 DEF Bodies
<1> DEFINE callConfigure == Call("configure", AppManagerConfigure, Nothing, <<Fail>>)
<1>19. callConfigure \in Calm1
  BY <1>18, FailIs, CalmChoices, NamesAre, NothingIs
<1> HIDE DEF callConfigure
<1> DEFINE queryConfigureThen == <<Register("impl", "sink"), Opens("JAppManager"), callConfigure>>
<1>20. queryConfigureThen \in Guarded(Calm1, Plan1)
  <2>1. <<Register("impl", "sink"), Opens("JAppManager"), callConfigure>> \in Seq(Calm1)
    BY <1>19, CalmOf, NamesAre, ThingsAre, Listed
  <2>2. QED
    BY <2>1, CalmIsAllowed
<1> HIDE DEF queryConfigureThen
<1> DEFINE queryConfigure == Query("configure", queryConfigureThen, <<Fail>>)
<1>21. queryConfigure \in Calm2
  BY <1>20, FailIs, CalmChoices, NamesAre
<1> HIDE DEF queryConfigure
<1> DEFINE rootThen == <<queryConfigure>>
<1>22. rootThen \in Guarded(Calm2, Plan2)
  <2>1. <<queryConfigure>> \in Seq(Calm2)
    BY <1>21, Listed
  <2>2. QED
    BY <2>1, CalmIsAllowed
<1> HIDE DEF rootThen
<1> DEFINE root == Root(rootThen, <<Fail>>)
<1>23. root \in Calm3
  BY <1>22, FailIs, CalmChoices, NamesAre
<1> HIDE DEF root
<1> DEFINE ifFailed == IfFailed(AppManagerDeinitialize)
<1>24. ifFailed \in Calm3
  BY <1>6, CalmChoices, NamesAre
<1> HIDE DEF ifFailed
<1>25. Registering(AppManagerInitialize)
  <2>1. <<root, ifFailed>> \in Seq(Calm3)
    BY <1>23, <1>24, Listed
  <2>2. <<root, ifFailed>> \in Guards
    BY <2>1, CalmIsAllowed
  <2>3. Registering(<<Watch>> \o <<root, ifFailed>>)
    BY <2>2, WatchFirst
  <2>4. <<Watch, root, ifFailed>> = <<Watch>> \o <<root, ifFailed>>
    BY Rests
  <2>5. Registering(<<Watch, root, ifFailed>>)
    BY <2>3, <2>4
  <2>6. Keep("service") \in Pre
    BY PreOf, NamesAre
  <2>7. Registering(<<Keep("service")>> \o <<Watch, root, ifFailed>>)
    BY <2>5, <2>6, PreFirst
  <2>8. <<Keep("service"), Watch, root, ifFailed>> = <<Keep("service")>> \o <<Watch, root, ifFailed>>
    BY Rests
  <2>9. Registering(<<Keep("service"), Watch, root, ifFailed>>)
    BY <2>7, <2>8
  <2>10. QED
    BY <2>9 DEF AppManagerInitialize, root, rootThen, queryConfigure, queryConfigureThen, callConfigure,
       ifFailed
<1>26. QED
  BY <1>3, <1>7, <1>25

LEMMA LifecycleManagerIsPlan ==
    /\ LifecycleManagerDestroyed \in Bodies
    /\ LifecycleManagerInitialize \in Plans /\ LifecycleManagerDeinitialize \in Plans
<1> DEFINE ifMWindowManagerHandlerThen == <<Unregister("RDKWindowManager", "windows"),
                                          Drop("RDKWindowManager")>>
<1>1. ifMWindowManagerHandlerThen \in Seq(Body0)
  BY BodyOf, NamesAre, ThingsAre, Listed
<1> HIDE DEF ifMWindowManagerHandlerThen
<1> DEFINE ifMWindowManagerHandler == If("mWindowManagerHandler", ifMWindowManagerHandlerThen)
<1>2. ifMWindowManagerHandler \in Body1
  BY <1>1, BodyChoices, NamesAre
<1> HIDE DEF ifMWindowManagerHandler
<1> DEFINE ifMRuntimeManagerHandlerThen == <<Unregister("RuntimeManager", "containers"),
                                           Drop("RuntimeManager")>>
<1>3. ifMRuntimeManagerHandlerThen \in Seq(Body0)
  BY BodyOf, NamesAre, ThingsAre, Listed
<1> HIDE DEF ifMRuntimeManagerHandlerThen
<1> DEFINE ifMRuntimeManagerHandler == If("mRuntimeManagerHandler", ifMRuntimeManagerHandlerThen)
<1>4. ifMRuntimeManagerHandler \in Body1
  BY <1>3, BodyChoices, NamesAre
<1> HIDE DEF ifMRuntimeManagerHandler
<1> DEFINE ifThreadThen == <<Closes("thread"), Forget("thread"), ifMWindowManagerHandler,
                           ifMRuntimeManagerHandler>>
<1>5. ifThreadThen \in Seq(Body1)
  BY <1>2, <1>4, BodyOf, NamesAre, ThingsAre, Listed
<1> HIDE DEF ifThreadThen
<1> DEFINE ifThread == If("thread", ifThreadThen)
<1>6. ifThread \in Body2
  BY <1>5, BodyChoices, NamesAre
<1> HIDE DEF ifThread
<1>7. LifecycleManagerDestroyed \in Bodies
  <2>1. <<ifThread, IfDrop("mService")>> \in Seq(Body2)
    BY <1>6, BodiesGrow, DropsOf, NamesAre, Listed
  <2>2. LifecycleManagerDestroyed = <<ifThread, IfDrop("mService")>>
    BY DEF LifecycleManagerDestroyed, ifThread, ifThreadThen, ifMWindowManagerHandler,
       ifMWindowManagerHandlerThen, ifMRuntimeManagerHandler, ifMRuntimeManagerHandlerThen
  <2>3. QED
    BY <2>1, <2>2 DEF Bodies
<1> DEFINE ifMLifecycleManagerStateThen == <<Unregister("mLifecycleManagerState", "sink"),
                                           Closes("JLifecycleManagerState"), Drop("mLifecycleManagerState")>>
<1>8. ifMLifecycleManagerStateThen \in Seq(Plan2)
  BY NamesAre, PlanOf, ThingsAre, Listed
<1> HIDE DEF ifMLifecycleManagerStateThen
<1> DEFINE ifMLifecycleManagerState == If("mLifecycleManagerState", ifMLifecycleManagerStateThen)
<1>9. ifMLifecycleManagerState \in Plan3
  BY <1>8, NamesAre, PlanChoices
<1> HIDE DEF ifMLifecycleManagerState
<1> DEFINE ifImpl == If("impl", End)
<1>10. ifImpl \in Plan3
  BY Ends, NamesAre, PlanChoices
<1> HIDE DEF ifImpl
<1>11. LifecycleManagerDeinitialize \in Plans
  <2>1. <<ifMLifecycleManagerState, ifImpl>> \in Seq(Plan3)
    BY <1>9, <1>10, Listed
  <2>2. LifecycleManagerDeinitialize = <<ifMLifecycleManagerState, ifImpl>> \o Leave
    BY DEF LifecycleManagerDeinitialize, ifMLifecycleManagerState, ifMLifecycleManagerStateThen, ifImpl
  <2>3. QED
    BY <2>1, Ends, Then, <2>2 DEF Plans
<1> DEFINE byCallsignRuntimeManagerThen == <<Register("RuntimeManager", "containers")>>
<1>12. byCallsignRuntimeManagerThen \in Seq(Body1)
  BY BodyOf, NamesAre, ThingsAre, Listed
<1> HIDE DEF byCallsignRuntimeManagerThen
<1> DEFINE byCallsignRuntimeManagerElse == <<Refuse>>
<1>13. byCallsignRuntimeManagerElse \in Seq(Body1)
  BY BodyOf, Listed
<1> HIDE DEF byCallsignRuntimeManagerElse
<1> DEFINE byCallsignRuntimeManager == ByCallsign("RuntimeManager", byCallsignRuntimeManagerThen,
                                       byCallsignRuntimeManagerElse)
<1>14. byCallsignRuntimeManager \in Body2
  BY <1>12, <1>13, BodyChoices, NamesAre
<1> HIDE DEF byCallsignRuntimeManager
<1> DEFINE byCallsignRDKWindowManagerThen == <<Register("RDKWindowManager", "windows")>>
<1>15. byCallsignRDKWindowManagerThen \in Seq(Body1)
  BY BodyOf, NamesAre, ThingsAre, Listed
<1> HIDE DEF byCallsignRDKWindowManagerThen
<1> DEFINE byCallsignRDKWindowManagerElse == <<Refuse>>
<1>16. byCallsignRDKWindowManagerElse \in Seq(Body1)
  BY BodyOf, Listed
<1> HIDE DEF byCallsignRDKWindowManagerElse
<1> DEFINE byCallsignRDKWindowManager == ByCallsign("RDKWindowManager", byCallsignRDKWindowManagerThen,
                                         byCallsignRDKWindowManagerElse)
<1>17. byCallsignRDKWindowManager \in Body2
  BY <1>15, <1>16, BodyChoices, NamesAre
<1> HIDE DEF byCallsignRDKWindowManager
<1>18. LifecycleManagerConfigure \in Bodies
  <2>1. <<Keep("mService"), Point("mRuntimeManagerHandler"), byCallsignRuntimeManager,
        Point("mWindowManagerHandler"), byCallsignRDKWindowManager, Point("thread"), Opens("thread")>>
        \in Seq(Body2)
    BY <1>14, <1>17, BodyOf, NamesAre, ThingsAre, Listed
  <2>2. LifecycleManagerConfigure = <<Keep("mService"), Point("mRuntimeManagerHandler"),
        byCallsignRuntimeManager, Point("mWindowManagerHandler"), byCallsignRDKWindowManager, Point("thread"),
        Opens("thread")>>
    BY DEF LifecycleManagerConfigure, byCallsignRuntimeManager, byCallsignRuntimeManagerThen,
       byCallsignRuntimeManagerElse, byCallsignRDKWindowManager, byCallsignRDKWindowManagerThen,
       byCallsignRDKWindowManagerElse
  <2>3. QED
    BY <2>1, <2>2 DEF Bodies
<1> DEFINE callConfigure == Call("configure", LifecycleManagerConfigure, Nothing, Nothing)
<1>19. callConfigure \in Plan1
  BY <1>18, NamesAre, NothingIs, PlanChoices
<1> HIDE DEF callConfigure
<1> DEFINE queryConfigureThen == <<callConfigure, Drop("configure")>>
<1>20. queryConfigureThen \in Seq(Plan1)
  BY <1>19, NamesAre, PlanOf, Listed
<1> HIDE DEF queryConfigureThen
<1> DEFINE queryConfigure == Query("configure", queryConfigureThen, Nothing)
<1>21. queryConfigure \in Plan2
  BY <1>20, NamesAre, NothingIs, PlanChoices
<1> HIDE DEF queryConfigure
<1> DEFINE queryMLifecycleManagerState == Query("mLifecycleManagerState", Nothing, Nothing)
<1>22. queryMLifecycleManagerState \in Plan2
  BY NamesAre, NothingIs, PlanChoices
<1> HIDE DEF queryMLifecycleManagerState
<1> DEFINE rootThen == <<queryConfigure, queryMLifecycleManagerState, Register("mLifecycleManagerState",
                       "sink"), Opens("JLifecycleManagerState")>>
<1>23. rootThen \in Seq(Plan2)
  BY <1>21, <1>22, NamesAre, PlanOf, ThingsAre, Listed
<1> HIDE DEF rootThen
<1> DEFINE root == Root(rootThen, <<Fail>>)
<1>24. root \in Plan3
  BY <1>23, FailIs, NamesAre, PlanChoices
<1> HIDE DEF root
<1>25. LifecycleManagerInitialize \in Plans
  <2>1. <<Keep("service"), root>> \in Seq(Plan3)
    BY <1>24, NamesAre, PlanOf, Listed
  <2>2. LifecycleManagerInitialize = <<Keep("service"), root>>
    BY DEF LifecycleManagerInitialize, root, rootThen, queryConfigure, queryConfigureThen, callConfigure,
       queryMLifecycleManagerState
  <2>3. QED
    BY <2>1, <2>2 DEF Plans
<1>26. QED
  BY <1>7, <1>11, <1>25

LEMMA RuntimeManagerIsPlan ==
    /\ RuntimeManagerDestroyed \in Bodies
    /\ RuntimeManagerInitialize \in Plans /\ RuntimeManagerDeinitialize \in Plans
<1>1. RuntimeManagerDestroyed \in Bodies
  <2>1. <<IfDrop("mCurrentservice"), IfDrop("StorageManager"), IfLeave("RDKWindowManager", "windows"),
        IfLeave("OCIContainer", "containers")>> \in Seq(Body2)
    BY BodiesGrow, DropsOf, NamesAre, ThingsAre, Listed
  <2>2. RuntimeManagerDestroyed = <<IfDrop("mCurrentservice"), IfDrop("StorageManager"),
        IfLeave("RDKWindowManager", "windows"), IfLeave("OCIContainer", "containers")>>
    BY DEF RuntimeManagerDestroyed
  <2>3. QED
    BY <2>1, <2>2 DEF Bodies
<1> DEFINE ifImplThen == <<IfDrop("configure")>> \o End
<1>2. ifImplThen \in Seq(Plan1)
  <2>1. <<IfDrop("configure")>> \in Seq(Plan1)
    BY DropsOf, NamesAre, Listed
  <2>2. QED
    BY <2>1, Ends, Then
<1> HIDE DEF ifImplThen
<1> DEFINE ifImpl == If("impl", ifImplThen)
<1>3. ifImpl \in Plan2
  BY <1>2, NamesAre, PlanChoices
<1> HIDE DEF ifImpl
<1>4. RuntimeManagerDeinitialize \in Seq(Plan2)
  <2>1. <<ifImpl>> \in Seq(Plan2)
    BY <1>3, Listed
  <2>2. RuntimeManagerDeinitialize = <<ifImpl>> \o Leave
    BY DEF RuntimeManagerDeinitialize, ifImpl, ifImplThen
  <2>3. QED
    BY <2>1, Ends, Then, <2>2
<1>5. RuntimeManagerDeinitialize \in Plans
  BY <1>4, PlansGrow, SeqGrows DEF Plans
<1> DEFINE byCallsignStorageManager == ByCallsign("StorageManager", Nothing, Nothing)
<1>6. byCallsignStorageManager \in Body2
  BY BodyChoices, NamesAre, NothingIs
<1> HIDE DEF byCallsignStorageManager
<1> DEFINE byCallsignRDKWindowManagerThen == <<AddRef("RDKWindowManager"), Register("RDKWindowManager",
                                             "windows")>>
<1>7. byCallsignRDKWindowManagerThen \in Seq(Body1)
  BY BodyOf, NamesAre, ThingsAre, Listed
<1> HIDE DEF byCallsignRDKWindowManagerThen
<1> DEFINE byCallsignRDKWindowManager == ByCallsign("RDKWindowManager", byCallsignRDKWindowManagerThen, Nothing)
<1>8. byCallsignRDKWindowManager \in Body2
  BY <1>7, BodyChoices, NamesAre, NothingIs
<1> HIDE DEF byCallsignRDKWindowManager
<1> DEFINE byCallsignOCIContainerThen == <<Register("OCIContainer", "containers")>>
<1>9. byCallsignOCIContainerThen \in Seq(Body1)
  BY BodyOf, NamesAre, ThingsAre, Listed
<1> HIDE DEF byCallsignOCIContainerThen
<1> DEFINE byCallsignOCIContainerElse == <<Refuse>>
<1>10. byCallsignOCIContainerElse \in Seq(Body1)
  BY BodyOf, Listed
<1> HIDE DEF byCallsignOCIContainerElse
<1> DEFINE byCallsignOCIContainer == ByCallsign("OCIContainer", byCallsignOCIContainerThen,
                                     byCallsignOCIContainerElse)
<1>11. byCallsignOCIContainer \in Body2
  BY <1>9, <1>10, BodyChoices, NamesAre
<1> HIDE DEF byCallsignOCIContainer
<1>12. RuntimeManagerConfigure \in Bodies
  <2>1. <<Keep("mCurrentservice"), byCallsignStorageManager, byCallsignRDKWindowManager,
        byCallsignOCIContainer>> \in Seq(Body2)
    BY <1>6, <1>8, <1>11, BodyOf, NamesAre, Listed
  <2>2. RuntimeManagerConfigure = <<Keep("mCurrentservice"), byCallsignStorageManager,
        byCallsignRDKWindowManager, byCallsignOCIContainer>>
    BY DEF RuntimeManagerConfigure, byCallsignStorageManager, byCallsignRDKWindowManager,
       byCallsignRDKWindowManagerThen, byCallsignOCIContainer, byCallsignOCIContainerThen,
       byCallsignOCIContainerElse
  <2>3. QED
    BY <2>1, <2>2 DEF Bodies
<1> DEFINE callConfigure == Call("configure", RuntimeManagerConfigure, Nothing, <<Fail>>)
<1>13. callConfigure \in Plan1
  BY <1>12, FailIs, NamesAre, NothingIs, PlanChoices
<1> HIDE DEF callConfigure
<1> DEFINE queryConfigureThen == <<callConfigure>>
<1>14. queryConfigureThen \in Seq(Plan1)
  BY <1>13, Listed
<1> HIDE DEF queryConfigureThen
<1> DEFINE queryConfigure == Query("configure", queryConfigureThen, <<Fail>>)
<1>15. queryConfigure \in Plan2
  BY <1>14, FailIs, NamesAre, PlanChoices
<1> HIDE DEF queryConfigure
<1> DEFINE rootThen == <<queryConfigure>>
<1>16. rootThen \in Seq(Plan2)
  BY <1>15, Listed
<1> HIDE DEF rootThen
<1> DEFINE root == Root(rootThen, <<Fail>>)
<1>17. root \in Plan3
  BY <1>16, FailIs, NamesAre, PlanChoices
<1> HIDE DEF root
<1> DEFINE ifFailed == IfFailed(RuntimeManagerDeinitialize)
<1>18. ifFailed \in Plan3
  BY <1>4, NamesAre, PlanChoices
<1> HIDE DEF ifFailed
<1>19. RuntimeManagerInitialize \in Plans
  <2>1. <<Keep("service"), root, ifFailed>> \in Seq(Plan3)
    BY <1>17, <1>18, NamesAre, PlanOf, Listed
  <2>2. RuntimeManagerInitialize = <<Keep("service"), root, ifFailed>>
    BY DEF RuntimeManagerInitialize, root, rootThen, queryConfigure, queryConfigureThen, callConfigure, ifFailed
  <2>3. QED
    BY <2>1, <2>2 DEF Plans
<1>20. QED
  BY <1>1, <1>5, <1>19

LEMMA PackageManagerIsCalm ==
    /\ PackageManagerDestroyed \in Bodies
    /\ Registering(PackageManagerInitialize) /\ PackageManagerDeinitialize \in Guards
<1>1. PackageManagerDestroyed \in Bodies
  <2>1. <<IfDrop("StorageManager")>> \in Seq(Body2)
    BY BodiesGrow, DropsOf, NamesAre, Listed
  <2>2. PackageManagerDestroyed = <<IfDrop("StorageManager")>>
    BY DEF PackageManagerDestroyed
  <2>3. QED
    BY <2>1, <2>2 DEF Bodies
<1> DEFINE ifMPackageHandlerThen == <<Closes("JPackageHandler")>>
<1>2. ifMPackageHandlerThen \in Seq(Plan1)
  BY NamesAre, PlanOf, ThingsAre, Listed
<1> HIDE DEF ifMPackageHandlerThen
<1> DEFINE ifMPackageHandler == If("mPackageHandler", ifMPackageHandlerThen)
<1>3. ifMPackageHandler \in Plan2
  BY <1>2, NamesAre, PlanChoices
<1> HIDE DEF ifMPackageHandler
<1> DEFINE ifMPackageInstallerThen == <<Unregister("mPackageInstaller", "installs"),
                                      Closes("JPackageInstaller")>>
<1>4. ifMPackageInstallerThen \in Seq(Plan1)
  BY NamesAre, PlanOf, ThingsAre, Listed
<1> HIDE DEF ifMPackageInstallerThen
<1> DEFINE ifMPackageInstaller == If("mPackageInstaller", ifMPackageInstallerThen)
<1>5. ifMPackageInstaller \in Plan2
  BY <1>4, NamesAre, PlanChoices
<1> HIDE DEF ifMPackageInstaller
<1> DEFINE callImplBody == <<Closes("downloader")>>
<1>6. callImplBody \in Bodies
  BY BodyOf, NamesAre, ThingsAre, Listed DEF Bodies
<1> HIDE DEF callImplBody
<1> DEFINE callImpl == Call("impl", callImplBody, Nothing, Nothing)
<1>7. callImpl \in Plan1
  BY <1>6, NamesAre, NothingIs, PlanChoices
<1> HIDE DEF callImpl
<1> DEFINE ifImplThen == <<callImpl, Unregister("impl", "downloads"), Closes("JPackageDownloader")>> \o End
<1>8. ifImplThen \in Seq(Plan1)
  <2>1. <<callImpl, Unregister("impl", "downloads"), Closes("JPackageDownloader")>> \in Seq(Plan1)
    BY <1>7, NamesAre, PlanOf, ThingsAre, Listed
  <2>2. QED
    BY <2>1, Ends, Then
<1> HIDE DEF ifImplThen
<1> DEFINE ifImpl == If("impl", ifImplThen)
<1>9. ifImpl \in Plan2
  BY <1>8, NamesAre, PlanChoices
<1> HIDE DEF ifImpl
<1> DEFINE ifServiceThen == <<Unwatch, ifMPackageHandler, ifMPackageInstaller, ifImpl, Drop("service"),
                            ClearId>>
<1>10. ifServiceThen \in Guarded(Calm2, Plan2)
  <2>1. <<Unwatch, ifMPackageHandler, ifMPackageInstaller, ifImpl, Drop("service"), ClearId>> \in Seq(Plan2)
    BY <1>3, <1>5, <1>9, NamesAre, PlanOf, Listed
  <2>2. <<Unwatch, ifMPackageHandler, ifMPackageInstaller, ifImpl, Drop("service"), ClearId>> # <<>>
        /\ <<Unwatch, ifMPackageHandler, ifMPackageInstaller, ifImpl, Drop("service"), ClearId>>[1] = Unwatch
    OBVIOUS
  <2>3. QED
    BY <2>1, <2>2, UnwatchFirst
<1> HIDE DEF ifServiceThen
<1> DEFINE ifService == If("service", ifServiceThen)
<1>11. ifService \in Calm3
  BY <1>10, CalmChoices, NamesAre
<1> HIDE DEF ifService
<1>12. PackageManagerDeinitialize \in Guards
  <2>1. <<ifService>> \in Seq(Calm3)
    BY <1>11, Listed
  <2>2. PackageManagerDeinitialize = <<ifService>>
    BY DEF PackageManagerDeinitialize, ifService, ifServiceThen, ifMPackageHandler, ifMPackageHandlerThen,
       ifMPackageInstaller, ifMPackageInstallerThen, ifImpl, ifImplThen, callImpl, callImplBody
  <2>3. QED
    BY <2>1, CalmIsAllowed, <2>2 DEF Guards
<1> DEFINE byCallsignStorageManager == ByCallsign("StorageManager", Nothing, Nothing)
<1>13. byCallsignStorageManager \in Body2
  BY BodyChoices, NamesAre, NothingIs
<1> HIDE DEF byCallsignStorageManager
<1>14. PackageManagerConfigure \in Bodies
  <2>1. <<Keep("mCurrentservice"), byCallsignStorageManager, Opens("downloader")>> \in Seq(Body2)
    BY <1>13, BodyOf, NamesAre, ThingsAre, Listed
  <2>2. PackageManagerConfigure = <<Keep("mCurrentservice"), byCallsignStorageManager, Opens("downloader")>>
    BY DEF PackageManagerConfigure, byCallsignStorageManager
  <2>3. QED
    BY <2>1, <2>2 DEF Bodies
<1> DEFINE callImpl2 == Call("impl", PackageManagerConfigure, Nothing, Nothing)
<1>15. callImpl2 \in Calm2
  BY <1>14, CalmChoices, NamesAre, NothingIs
<1> HIDE DEF callImpl2
<1> DEFINE queryMPackageInstallerThen == <<Register("mPackageInstaller", "installs"),
                                         Opens("JPackageInstaller")>>
<1>16. queryMPackageInstallerThen \in Guarded(Calm1, Plan1)
  <2>1. <<Register("mPackageInstaller", "installs"), Opens("JPackageInstaller")>> \in Seq(Calm1)
    BY CalmOf, NamesAre, ThingsAre, Listed
  <2>2. QED
    BY <2>1, CalmIsAllowed
<1> HIDE DEF queryMPackageInstallerThen
<1> DEFINE queryMPackageInstaller == Query("mPackageInstaller", queryMPackageInstallerThen, Nothing)
<1>17. queryMPackageInstaller \in Calm2
  BY <1>16, CalmChoices, NamesAre, NothingIs
<1> HIDE DEF queryMPackageInstaller
<1> DEFINE queryMPackageHandlerThen == <<Opens("JPackageHandler")>>
<1>18. queryMPackageHandlerThen \in Guarded(Calm1, Plan1)
  <2>1. <<Opens("JPackageHandler")>> \in Seq(Calm1)
    BY CalmOf, NamesAre, ThingsAre, Listed
  <2>2. QED
    BY <2>1, CalmIsAllowed
<1> HIDE DEF queryMPackageHandlerThen
<1> DEFINE queryMPackageHandler == Query("mPackageHandler", queryMPackageHandlerThen, Nothing)
<1>19. queryMPackageHandler \in Calm2
  BY <1>18, CalmChoices, NamesAre, NothingIs
<1> HIDE DEF queryMPackageHandler
<1> DEFINE rootThen == <<callImpl2, Register("impl", "downloads"), Opens("JPackageDownloader"),
                       queryMPackageInstaller, queryMPackageHandler>>
<1>20. rootThen \in Guarded(Calm2, Plan2)
  <2>1. <<callImpl2, Register("impl", "downloads"), Opens("JPackageDownloader"), queryMPackageInstaller,
        queryMPackageHandler>> \in Seq(Calm2)
    BY <1>15, <1>17, <1>19, CalmOf, NamesAre, ThingsAre, Listed
  <2>2. QED
    BY <2>1, CalmIsAllowed
<1> HIDE DEF rootThen
<1> DEFINE root == Root(rootThen, <<Fail>>)
<1>21. root \in Calm3
  BY <1>20, FailIs, CalmChoices, NamesAre
<1> HIDE DEF root
<1>22. Registering(PackageManagerInitialize)
  <2>1. <<root>> \in Seq(Calm3)
    BY <1>21, Listed
  <2>2. <<root>> \in Guards
    BY <2>1, CalmIsAllowed
  <2>3. Registering(<<Watch>> \o <<root>>)
    BY <2>2, WatchFirst
  <2>4. <<Watch, root>> = <<Watch>> \o <<root>>
    BY Rests
  <2>5. Registering(<<Watch, root>>)
    BY <2>3, <2>4
  <2>6. Keep("service") \in Pre
    BY PreOf, NamesAre
  <2>7. Registering(<<Keep("service")>> \o <<Watch, root>>)
    BY <2>5, <2>6, PreFirst
  <2>8. <<Keep("service"), Watch, root>> = <<Keep("service")>> \o <<Watch, root>>
    BY Rests
  <2>9. Registering(<<Keep("service"), Watch, root>>)
    BY <2>7, <2>8
  <2>10. QED
    BY <2>9 DEF PackageManagerInitialize, root, rootThen, callImpl2, queryMPackageInstaller,
       queryMPackageInstallerThen, queryMPackageHandler, queryMPackageHandlerThen
<1>23. QED
  BY <1>1, <1>12, <1>22

LEMMA StorageManagerIsPlan ==
    /\ StorageManagerDestroyed \in Bodies
    /\ StorageManagerInitialize \in Plans /\ StorageManagerDeinitialize \in Plans
<1>1. StorageManagerDestroyed \in Bodies
  <2>1. <<IfDrop("PersistentStore"), IfDrop("mCurrentservice")>> \in Seq(Body2)
    BY BodiesGrow, DropsOf, NamesAre, Listed
  <2>2. StorageManagerDestroyed = <<IfDrop("PersistentStore"), IfDrop("mCurrentservice")>>
    BY DEF StorageManagerDestroyed
  <2>3. QED
    BY <2>1, <2>2 DEF Bodies
<1> DEFINE ifImplThen == <<Closes("JStorageManager")>> \o End
<1>2. ifImplThen \in Seq(Plan1)
  <2>1. <<Closes("JStorageManager")>> \in Seq(Plan1)
    BY NamesAre, PlanOf, ThingsAre, Listed
  <2>2. QED
    BY <2>1, Ends, Then
<1> HIDE DEF ifImplThen
<1> DEFINE ifImpl == If("impl", ifImplThen)
<1>3. ifImpl \in Plan2
  BY <1>2, NamesAre, PlanChoices
<1> HIDE DEF ifImpl
<1>4. StorageManagerDeinitialize \in Seq(Plan2)
  <2>1. <<IfDrop("configure"), ifImpl>> \in Seq(Plan2)
    BY <1>3, DropsOf, NamesAre, PlansGrow, Listed
  <2>2. StorageManagerDeinitialize = <<IfDrop("configure"), ifImpl>> \o Leave
    BY DEF StorageManagerDeinitialize, ifImpl, ifImplThen
  <2>3. QED
    BY <2>1, Ends, Then, <2>2
<1>5. StorageManagerDeinitialize \in Plans
  BY <1>4, PlansGrow, SeqGrows DEF Plans
<1> DEFINE byCallsignPersistentStore == ByCallsign("PersistentStore", Nothing, Nothing)
<1>6. byCallsignPersistentStore \in Body2
  BY BodyChoices, NamesAre, NothingIs
<1> HIDE DEF byCallsignPersistentStore
<1>7. StorageManagerConfigure \in Bodies
  <2>1. <<Keep("mCurrentservice"), byCallsignPersistentStore>> \in Seq(Body2)
    BY <1>6, BodyOf, NamesAre, Listed
  <2>2. StorageManagerConfigure = <<Keep("mCurrentservice"), byCallsignPersistentStore>>
    BY DEF StorageManagerConfigure, byCallsignPersistentStore
  <2>3. QED
    BY <2>1, <2>2 DEF Bodies
<1> DEFINE callConfigure == Call("configure", StorageManagerConfigure, Nothing, <<Fail>>)
<1>8. callConfigure \in Plan1
  BY <1>7, FailIs, NamesAre, NothingIs, PlanChoices
<1> HIDE DEF callConfigure
<1> DEFINE queryConfigureThen == <<callConfigure>>
<1>9. queryConfigureThen \in Seq(Plan1)
  BY <1>8, Listed
<1> HIDE DEF queryConfigureThen
<1> DEFINE queryConfigure == Query("configure", queryConfigureThen, <<Fail>>)
<1>10. queryConfigure \in Plan2
  BY <1>9, FailIs, NamesAre, PlanChoices
<1> HIDE DEF queryConfigure
<1> DEFINE rootThen == <<queryConfigure, Opens("JStorageManager")>>
<1>11. rootThen \in Seq(Plan2)
  BY <1>10, NamesAre, PlanOf, ThingsAre, Listed
<1> HIDE DEF rootThen
<1> DEFINE root == Root(rootThen, <<Fail>>)
<1>12. root \in Plan3
  BY <1>11, FailIs, NamesAre, PlanChoices
<1> HIDE DEF root
<1> DEFINE ifFailed == IfFailed(StorageManagerDeinitialize)
<1>13. ifFailed \in Plan3
  BY <1>4, NamesAre, PlanChoices
<1> HIDE DEF ifFailed
<1>14. StorageManagerInitialize \in Plans
  <2>1. <<Keep("service"), root, ifFailed>> \in Seq(Plan3)
    BY <1>12, <1>13, NamesAre, PlanOf, Listed
  <2>2. StorageManagerInitialize = <<Keep("service"), root, ifFailed>>
    BY DEF StorageManagerInitialize, root, rootThen, queryConfigure, queryConfigureThen, callConfigure, ifFailed
  <2>3. QED
    BY <2>1, <2>2 DEF Plans
<1>15. QED
  BY <1>1, <1>5, <1>14

LEMMA USBMassStorageIsCalm ==
    /\ USBMassStorageDestroyed \in Bodies
    /\ Registering(USBMassStorageInitialize) /\ USBMassStorageDeinitialize \in Guards
<1>1. USBMassStorageDestroyed \in Bodies
  <2>1. <<IfDrop("USBDevice"), IfDrop("_service")>> \in Seq(Body2)
    BY BodiesGrow, DropsOf, NamesAre, Listed
  <2>2. USBMassStorageDestroyed = <<IfDrop("USBDevice"), IfDrop("_service")>>
    BY DEF USBMassStorageDestroyed
  <2>3. QED
    BY <2>1, <2>2 DEF Bodies
<1> DEFINE ifImplThen == <<Unregister("impl", "sink"), Closes("JUSBMassStorage"), Release("configure")>> \o End
<1>2. ifImplThen \in Seq(Plan1)
  <2>1. <<Unregister("impl", "sink"), Closes("JUSBMassStorage"), Release("configure")>> \in Seq(Plan1)
    BY NamesAre, PlanOf, ThingsAre, Listed
  <2>2. QED
    BY <2>1, Ends, Then
<1> HIDE DEF ifImplThen
<1> DEFINE ifImpl == If("impl", ifImplThen)
<1>3. ifImpl \in Plan2
  BY <1>2, NamesAre, PlanChoices
<1> HIDE DEF ifImpl
<1>4. USBMassStorageDeinitialize \in Guarded(Calm2, Plan2)
  <2>1. <<Unwatch, ifImpl>> \in Seq(Plan2)
    BY <1>3, PlanOf, Listed
  <2>2. Leave \in Seq(Plan2)
    BY Ends
  <2>3. <<Unwatch, ifImpl>> # <<>> /\ <<Unwatch, ifImpl>>[1] = Unwatch
    OBVIOUS
  <2>4. USBMassStorageDeinitialize = <<Unwatch, ifImpl>> \o Leave
    BY DEF USBMassStorageDeinitialize, ifImpl, ifImplThen
  <2>5. QED
    BY <2>1, <2>2, <2>3, UnwatchThen, <2>4
<1>5. USBMassStorageDeinitialize \in Guards
  BY <1>4, CalmGrows
<1> DEFINE byCallsignUSBDeviceThen == <<Register("USBDevice", "devices")>>
<1>6. byCallsignUSBDeviceThen \in Seq(Body1)
  BY BodyOf, NamesAre, ThingsAre, Listed
<1> HIDE DEF byCallsignUSBDeviceThen
<1> DEFINE byCallsignUSBDevice == ByCallsign("USBDevice", byCallsignUSBDeviceThen, Nothing)
<1>7. byCallsignUSBDevice \in Body2
  BY <1>6, BodyChoices, NamesAre, NothingIs
<1> HIDE DEF byCallsignUSBDevice
<1>8. USBMassStorageConfigure \in Bodies
  <2>1. <<Keep("_service"), byCallsignUSBDevice>> \in Seq(Body2)
    BY <1>7, BodyOf, NamesAre, Listed
  <2>2. USBMassStorageConfigure = <<Keep("_service"), byCallsignUSBDevice>>
    BY DEF USBMassStorageConfigure, byCallsignUSBDevice, byCallsignUSBDeviceThen
  <2>3. QED
    BY <2>1, <2>2 DEF Bodies
<1> DEFINE callConfigure == Call("configure", USBMassStorageConfigure, Nothing, <<Fail>>)
<1>9. callConfigure \in Calm1
  BY <1>8, FailIs, CalmChoices, NamesAre, NothingIs
<1> HIDE DEF callConfigure
<1> DEFINE queryConfigureThen == <<callConfigure>>
<1>10. queryConfigureThen \in Guarded(Calm1, Plan1)
  <2>1. <<callConfigure>> \in Seq(Calm1)
    BY <1>9, Listed
  <2>2. QED
    BY <2>1, CalmIsAllowed
<1> HIDE DEF queryConfigureThen
<1> DEFINE queryConfigure == Query("configure", queryConfigureThen, <<Fail>>)
<1>11. queryConfigure \in Calm2
  BY <1>10, FailIs, CalmChoices, NamesAre
<1> HIDE DEF queryConfigure
<1> DEFINE rootThen == <<queryConfigure, Register("impl", "sink"), Opens("JUSBMassStorage")>>
<1>12. rootThen \in Guarded(Calm2, Plan2)
  <2>1. <<queryConfigure, Register("impl", "sink"), Opens("JUSBMassStorage")>> \in Seq(Calm2)
    BY <1>11, CalmOf, NamesAre, ThingsAre, Listed
  <2>2. QED
    BY <2>1, CalmIsAllowed
<1> HIDE DEF rootThen
<1> DEFINE root == Root(rootThen, <<Fail>>)
<1>13. root \in Calm3
  BY <1>12, FailIs, CalmChoices, NamesAre
<1> HIDE DEF root
<1> DEFINE ifFailed == IfFailed(USBMassStorageDeinitialize)
<1>14. ifFailed \in Calm3
  BY <1>4, CalmChoices, NamesAre
<1> HIDE DEF ifFailed
<1>15. Registering(USBMassStorageInitialize)
  <2>1. <<root, ifFailed>> \in Seq(Calm3)
    BY <1>13, <1>14, Listed
  <2>2. <<root, ifFailed>> \in Guards
    BY <2>1, CalmIsAllowed
  <2>3. Registering(<<Watch>> \o <<root, ifFailed>>)
    BY <2>2, WatchFirst
  <2>4. <<Watch, root, ifFailed>> = <<Watch>> \o <<root, ifFailed>>
    BY Rests
  <2>5. Registering(<<Watch, root, ifFailed>>)
    BY <2>3, <2>4
  <2>6. Keep("service") \in Pre
    BY PreOf, NamesAre
  <2>7. Registering(<<Keep("service")>> \o <<Watch, root, ifFailed>>)
    BY <2>5, <2>6, PreFirst
  <2>8. <<Keep("service"), Watch, root, ifFailed>> = <<Keep("service")>> \o <<Watch, root, ifFailed>>
    BY Rests
  <2>9. Registering(<<Keep("service"), Watch, root, ifFailed>>)
    BY <2>7, <2>8
  <2>10. QED
    BY <2>9 DEF USBMassStorageInitialize, root, rootThen, queryConfigure, queryConfigureThen, callConfigure,
       ifFailed
<1>16. QED
  BY <1>1, <1>5, <1>15

LEMMA UserSettingsIsCalm ==
    /\ UserSettingsDestroyed \in Bodies
    /\ Registering(UserSettingsInitialize) /\ UserSettingsDeinitialize \in Guards
<1>1. UserSettingsDestroyed \in Bodies
  <2>1. <<IfDrop("PersistentStore"), IfDrop("_service")>> \in Seq(Body2)
    BY BodiesGrow, DropsOf, NamesAre, Listed
  <2>2. UserSettingsDestroyed = <<IfDrop("PersistentStore"), IfDrop("_service")>>
    BY DEF UserSettingsDestroyed
  <2>3. QED
    BY <2>1, <2>2 DEF Bodies
<1> DEFINE ifImplThen == <<Unregister("impl", "sink"), Closes("JUserSettings"),
                         Closes("JUserSettingsInspector"), Drop("configure"), Drop("_userSettingsInspector")>>
                         \o End
<1>2. ifImplThen \in Seq(Plan1)
  <2>1. <<Unregister("impl", "sink"), Closes("JUserSettings"), Closes("JUserSettingsInspector"),
        Drop("configure"), Drop("_userSettingsInspector")>> \in Seq(Plan1)
    BY NamesAre, PlanOf, ThingsAre, Listed
  <2>2. QED
    BY <2>1, Ends, Then
<1> HIDE DEF ifImplThen
<1> DEFINE ifImpl == If("impl", ifImplThen)
<1>3. ifImpl \in Plan2
  BY <1>2, NamesAre, PlanChoices
<1> HIDE DEF ifImpl
<1>4. UserSettingsDeinitialize \in Guarded(Calm2, Plan2)
  <2>1. <<Unwatch, ifImpl>> \in Seq(Plan2)
    BY <1>3, PlanOf, Listed
  <2>2. Leave \in Seq(Plan2)
    BY Ends
  <2>3. <<Unwatch, ifImpl>> # <<>> /\ <<Unwatch, ifImpl>>[1] = Unwatch
    OBVIOUS
  <2>4. UserSettingsDeinitialize = <<Unwatch, ifImpl>> \o Leave
    BY DEF UserSettingsDeinitialize, ifImpl, ifImplThen
  <2>5. QED
    BY <2>1, <2>2, <2>3, UnwatchThen, <2>4
<1>5. UserSettingsDeinitialize \in Guards
  BY <1>4, CalmGrows
<1> DEFINE byCallsignPersistentStoreThen == <<Register("PersistentStore", "values")>>
<1>6. byCallsignPersistentStoreThen \in Seq(Body1)
  BY BodyOf, NamesAre, ThingsAre, Listed
<1> HIDE DEF byCallsignPersistentStoreThen
<1> DEFINE byCallsignPersistentStore == ByCallsign("PersistentStore", byCallsignPersistentStoreThen, Nothing)
<1>7. byCallsignPersistentStore \in Body2
  BY <1>6, BodyChoices, NamesAre, NothingIs
<1> HIDE DEF byCallsignPersistentStore
<1>8. UserSettingsConfigure \in Bodies
  <2>1. <<Keep("_service"), byCallsignPersistentStore>> \in Seq(Body2)
    BY <1>7, BodyOf, NamesAre, Listed
  <2>2. UserSettingsConfigure = <<Keep("_service"), byCallsignPersistentStore>>
    BY DEF UserSettingsConfigure, byCallsignPersistentStore, byCallsignPersistentStoreThen
  <2>3. QED
    BY <2>1, <2>2 DEF Bodies
<1> DEFINE callConfigure == Call("configure", UserSettingsConfigure, Nothing, <<Fail>>)
<1>9. callConfigure \in Calm1
  BY <1>8, FailIs, CalmChoices, NamesAre, NothingIs
<1> HIDE DEF callConfigure
<1> DEFINE queryConfigureThen == <<callConfigure>>
<1>10. queryConfigureThen \in Guarded(Calm1, Plan1)
  <2>1. <<callConfigure>> \in Seq(Calm1)
    BY <1>9, Listed
  <2>2. QED
    BY <2>1, CalmIsAllowed
<1> HIDE DEF queryConfigureThen
<1> DEFINE queryConfigure == Query("configure", queryConfigureThen, <<Fail>>)
<1>11. queryConfigure \in Calm2
  BY <1>10, FailIs, CalmChoices, NamesAre
<1> HIDE DEF queryConfigure
<1> DEFINE queryUserSettingsInspectorThen == <<Opens("JUserSettingsInspector")>>
<1>12. queryUserSettingsInspectorThen \in Guarded(Calm1, Plan1)
  <2>1. <<Opens("JUserSettingsInspector")>> \in Seq(Calm1)
    BY CalmOf, NamesAre, ThingsAre, Listed
  <2>2. QED
    BY <2>1, CalmIsAllowed
<1> HIDE DEF queryUserSettingsInspectorThen
<1> DEFINE queryUserSettingsInspector == Query("_userSettingsInspector", queryUserSettingsInspectorThen,
                                         <<Fail>>)
<1>13. queryUserSettingsInspector \in Calm2
  BY <1>12, FailIs, CalmChoices, NamesAre
<1> HIDE DEF queryUserSettingsInspector
<1> DEFINE rootThen == <<queryConfigure, Register("impl", "sink"), Opens("JUserSettings"),
                       queryUserSettingsInspector>>
<1>14. rootThen \in Guarded(Calm2, Plan2)
  <2>1. <<queryConfigure, Register("impl", "sink"), Opens("JUserSettings"), queryUserSettingsInspector>>
        \in Seq(Calm2)
    BY <1>11, <1>13, CalmOf, NamesAre, ThingsAre, Listed
  <2>2. QED
    BY <2>1, CalmIsAllowed
<1> HIDE DEF rootThen
<1> DEFINE root == Root(rootThen, <<Fail>>)
<1>15. root \in Calm3
  BY <1>14, FailIs, CalmChoices, NamesAre
<1> HIDE DEF root
<1> DEFINE ifFailed == IfFailed(UserSettingsDeinitialize)
<1>16. ifFailed \in Calm3
  BY <1>4, CalmChoices, NamesAre
<1> HIDE DEF ifFailed
<1>17. Registering(UserSettingsInitialize)
  <2>1. <<root, ifFailed>> \in Seq(Calm3)
    BY <1>15, <1>16, Listed
  <2>2. <<root, ifFailed>> \in Guards
    BY <2>1, CalmIsAllowed
  <2>3. Registering(<<Watch>> \o <<root, ifFailed>>)
    BY <2>2, WatchFirst
  <2>4. <<Watch, root, ifFailed>> = <<Watch>> \o <<root, ifFailed>>
    BY Rests
  <2>5. Registering(<<Watch, root, ifFailed>>)
    BY <2>3, <2>4
  <2>6. Keep("service") \in Pre
    BY PreOf, NamesAre
  <2>7. Registering(<<Keep("service")>> \o <<Watch, root, ifFailed>>)
    BY <2>5, <2>6, PreFirst
  <2>8. <<Keep("service"), Watch, root, ifFailed>> = <<Keep("service")>> \o <<Watch, root, ifFailed>>
    BY Rests
  <2>9. Registering(<<Keep("service"), Watch, root, ifFailed>>)
    BY <2>7, <2>8
  <2>10. QED
    BY <2>9 DEF UserSettingsInitialize, root, rootThen, queryConfigure, queryConfigureThen, callConfigure,
       queryUserSettingsInspector, queryUserSettingsInspectorThen, ifFailed
<1>18. QED
  BY <1>1, <1>5, <1>17

LEMMA TelemetryIsCalm ==
    /\ TelemetryDestroyed \in Bodies
    /\ Registering(TelemetryInitialize) /\ TelemetryDeinitialize \in Guards
<1>1. TelemetryDestroyed \in Bodies
  <2>1. <<IfLeave("PowerManager", "modes"), Forget("_service"), IfLeave("UserSettings", "settings")>>
        \in Seq(Body2)
    BY BodiesGrow, BodyOf, DropsOf, NamesAre, ThingsAre, Listed
  <2>2. TelemetryDestroyed = <<IfLeave("PowerManager", "modes"), Forget("_service"), IfLeave("UserSettings",
        "settings")>>
    BY DEF TelemetryDestroyed
  <2>3. QED
    BY <2>1, <2>2 DEF Bodies
<1> DEFINE ifImplThen == <<Unregister("impl", "sink"), Closes("JTelemetry"), Release("configure")>> \o End
<1>2. ifImplThen \in Seq(Plan2)
  <2>1. <<Unregister("impl", "sink"), Closes("JTelemetry"), Release("configure")>> \in Seq(Plan2)
    BY NamesAre, PlanOf, ThingsAre, Listed
  <2>2. QED
    BY <2>1, Ends, Then
<1> HIDE DEF ifImplThen
<1> DEFINE ifImpl == If("impl", ifImplThen)
<1>3. ifImpl \in Plan3
  BY <1>2, NamesAre, PlanChoices
<1> HIDE DEF ifImpl
<1>4. TelemetryDeinitialize \in Guards
  <2>1. <<Unwatch, ifImpl>> \in Seq(Plan3)
    BY <1>3, PlanOf, Listed
  <2>2. Leave \in Seq(Plan3)
    BY Ends
  <2>3. <<Unwatch, ifImpl>> # <<>> /\ <<Unwatch, ifImpl>>[1] = Unwatch
    OBVIOUS
  <2>4. TelemetryDeinitialize = <<Unwatch, ifImpl>> \o Leave
    BY DEF TelemetryDeinitialize, ifImpl, ifImplThen
  <2>5. QED
    BY <2>1, <2>2, <2>3, UnwatchThen, <2>4 DEF Guards
<1> DEFINE byCallsignPowerManagerThen == <<Register("PowerManager", "modes")>>
<1>5. byCallsignPowerManagerThen \in Seq(Body1)
  BY BodyOf, NamesAre, ThingsAre, Listed
<1> HIDE DEF byCallsignPowerManagerThen
<1> DEFINE byCallsignPowerManager == ByCallsign("PowerManager", byCallsignPowerManagerThen, Nothing)
<1>6. byCallsignPowerManager \in Body2
  BY <1>5, BodyChoices, NamesAre, NothingIs
<1> HIDE DEF byCallsignPowerManager
<1> DEFINE byCallsignUserSettingsThen == <<Register("UserSettings", "settings")>>
<1>7. byCallsignUserSettingsThen \in Seq(Body1)
  BY BodyOf, NamesAre, ThingsAre, Listed
<1> HIDE DEF byCallsignUserSettingsThen
<1> DEFINE byCallsignUserSettings == ByCallsign("UserSettings", byCallsignUserSettingsThen, Nothing)
<1>8. byCallsignUserSettings \in Body2
  BY <1>7, BodyChoices, NamesAre, NothingIs
<1> HIDE DEF byCallsignUserSettings
<1> DEFINE callConfigureBody == <<Keep("_service"), byCallsignPowerManager, byCallsignUserSettings>>
<1>9. callConfigureBody \in Bodies
  BY <1>6, <1>8, BodyOf, NamesAre, Listed DEF Bodies
<1> HIDE DEF callConfigureBody
<1> DEFINE callConfigure == Call("configure", callConfigureBody, Nothing, <<Fail>>)
<1>10. callConfigure \in Calm1
  BY <1>9, FailIs, CalmChoices, NamesAre, NothingIs
<1> HIDE DEF callConfigure
<1> DEFINE queryConfigureThen == <<callConfigure>>
<1>11. queryConfigureThen \in Guarded(Calm1, Plan1)
  <2>1. <<callConfigure>> \in Seq(Calm1)
    BY <1>10, Listed
  <2>2. QED
    BY <2>1, CalmIsAllowed
<1> HIDE DEF queryConfigureThen
<1> DEFINE queryConfigure == Query("configure", queryConfigureThen, <<Fail>>)
<1>12. queryConfigure \in Calm2
  BY <1>11, FailIs, CalmChoices, NamesAre
<1> HIDE DEF queryConfigure
<1> DEFINE rootThen == <<queryConfigure, Register("impl", "sink"), Opens("JTelemetry")>>
<1>13. rootThen \in Guarded(Calm2, Plan2)
  <2>1. <<queryConfigure, Register("impl", "sink"), Opens("JTelemetry")>> \in Seq(Calm2)
    BY <1>12, CalmOf, NamesAre, ThingsAre, Listed
  <2>2. QED
    BY <2>1, CalmIsAllowed
<1> HIDE DEF rootThen
<1> DEFINE root == Root(rootThen, <<Fail>>)
<1>14. root \in Calm3
  BY <1>13, FailIs, CalmChoices, NamesAre
<1> HIDE DEF root
<1>15. Registering(TelemetryInitialize)
  <2>1. <<root>> \in Seq(Calm3)
    BY <1>14, Listed
  <2>2. <<root>> \in Guards
    BY <2>1, CalmIsAllowed
  <2>3. Registering(<<Watch>> \o <<root>>)
    BY <2>2, WatchFirst
  <2>4. <<Watch, root>> = <<Watch>> \o <<root>>
    BY Rests
  <2>5. Registering(<<Watch, root>>)
    BY <2>3, <2>4
  <2>6. Keep("service") \in Pre
    BY PreOf, NamesAre
  <2>7. Registering(<<Keep("service")>> \o <<Watch, root>>)
    BY <2>5, <2>6, PreFirst
  <2>8. <<Keep("service"), Watch, root>> = <<Keep("service")>> \o <<Watch, root>>
    BY Rests
  <2>9. Registering(<<Keep("service"), Watch, root>>)
    BY <2>7, <2>8
  <2>10. QED
    BY <2>9 DEF TelemetryInitialize, root, rootThen, queryConfigure, queryConfigureThen, callConfigure,
       callConfigureBody, byCallsignPowerManager, byCallsignPowerManagerThen, byCallsignUserSettings,
       byCallsignUserSettingsThen
<1>16. QED
  BY <1>1, <1>4, <1>15

LEMMA CloudStoreIsCalm ==
    /\ CloudStoreCreated \in Seq(CreatedSteps)
    /\ CloudStoreDestroyed \in Bodies
    /\ Registering(CloudStoreInitialize) /\ CloudStoreDeinitialize \in Guards
<1>1. CloudStoreCreated \in Seq(CreatedSteps)
  BY CreatedOf, NamesAre, ThingsAre, Listed DEF CloudStoreCreated
<1>2. CloudStoreDestroyed \in Bodies
  <2>1. <<IfDrop("_accountStore2")>> \in Seq(Body2)
    BY BodiesGrow, DropsOf, NamesAre, Listed
  <2>2. CloudStoreDestroyed = <<IfDrop("_accountStore2")>>
    BY DEF CloudStoreDestroyed
  <2>3. QED
    BY <2>1, <2>2 DEF Bodies
<1> DEFINE ifImplThen == <<Unregister("impl", "sink"), Closes("JStore2")>> \o End
<1>3. ifImplThen \in Seq(Plan2)
  <2>1. <<Unregister("impl", "sink"), Closes("JStore2")>> \in Seq(Plan2)
    BY NamesAre, PlanOf, ThingsAre, Listed
  <2>2. QED
    BY <2>1, Ends, Then
<1> HIDE DEF ifImplThen
<1> DEFINE ifImpl == If("impl", ifImplThen)
<1>4. ifImpl \in Plan3
  BY <1>3, NamesAre, PlanChoices
<1> HIDE DEF ifImpl
<1>5. CloudStoreDeinitialize \in Guards
  <2>1. <<Unwatch, ifImpl>> \in Seq(Plan3)
    BY <1>4, PlanOf, Listed
  <2>2. Leave \in Seq(Plan3)
    BY Ends
  <2>3. <<Unwatch, ifImpl>> # <<>> /\ <<Unwatch, ifImpl>>[1] = Unwatch
    OBVIOUS
  <2>4. CloudStoreDeinitialize = <<Unwatch, ifImpl>> \o Leave
    BY DEF CloudStoreDeinitialize, ifImpl, ifImplThen
  <2>5. QED
    BY <2>1, <2>2, <2>3, UnwatchThen, <2>4 DEF Guards
<1> DEFINE callConfigureBody == <<AddRef("_accountStore2"), Release("_accountStore2")>>
<1>6. callConfigureBody \in Bodies
  BY BodyOf, NamesAre, Listed DEF Bodies
<1> HIDE DEF callConfigureBody
<1> DEFINE callConfigure == Call("configure", callConfigureBody, Nothing, Nothing)
<1>7. callConfigure \in Calm1
  BY <1>6, CalmChoices, NamesAre, NothingIs
<1> HIDE DEF callConfigure
<1> DEFINE queryConfigureThen == <<callConfigure, Drop("configure")>>
<1>8. queryConfigureThen \in Guarded(Calm1, Plan1)
  <2>1. <<callConfigure, Drop("configure")>> \in Seq(Calm1)
    BY <1>7, CalmOf, NamesAre, Listed
  <2>2. QED
    BY <2>1, CalmIsAllowed
<1> HIDE DEF queryConfigureThen
<1> DEFINE queryConfigure == Query("configure", queryConfigureThen, <<Fail>>)
<1>9. queryConfigure \in Calm2
  BY <1>8, FailIs, CalmChoices, NamesAre
<1> HIDE DEF queryConfigure
<1> DEFINE rootThen == <<queryConfigure, Opens("JStore2"), Register("impl", "sink")>>
<1>10. rootThen \in Guarded(Calm2, Plan2)
  <2>1. <<queryConfigure, Opens("JStore2"), Register("impl", "sink")>> \in Seq(Calm2)
    BY <1>9, CalmOf, NamesAre, ThingsAre, Listed
  <2>2. QED
    BY <2>1, CalmIsAllowed
<1> HIDE DEF rootThen
<1> DEFINE root == Root(rootThen, <<Fail>>)
<1>11. root \in Calm3
  BY <1>10, FailIs, CalmChoices, NamesAre
<1> HIDE DEF root
<1> DEFINE byCallsignSecurityAgent == ByCallsign("SecurityAgent", <<Drop("SecurityAgent")>>, Nothing)
<1>12. byCallsignSecurityAgent \in Pre
  BY PreOf, NamesAre DEF Interfaces
<1> HIDE DEF byCallsignSecurityAgent
<1>13. Registering(CloudStoreInitialize)
  <2>1. <<root>> \in Seq(Calm3)
    BY <1>11, Listed
  <2>2. <<root>> \in Guards
    BY <2>1, CalmIsAllowed
  <2>3. Registering(<<Watch>> \o <<root>>)
    BY <2>2, WatchFirst
  <2>4. <<Watch, root>> = <<Watch>> \o <<root>>
    BY Rests
  <2>5. Registering(<<Watch, root>>)
    BY <2>3, <2>4
  <2>6. Registering(<<byCallsignSecurityAgent>> \o <<Watch, root>>)
    BY <2>5, <1>12, PreFirst
  <2>7. <<byCallsignSecurityAgent, Watch, root>> = <<byCallsignSecurityAgent>> \o <<Watch, root>>
    BY Rests
  <2>8. Registering(<<byCallsignSecurityAgent, Watch, root>>)
    BY <2>6, <2>7
  <2>9. Keep("service") \in Pre
    BY PreOf, NamesAre
  <2>10. Registering(<<Keep("service")>> \o <<byCallsignSecurityAgent, Watch, root>>)
    BY <2>8, <2>9, PreFirst
  <2>11. <<Keep("service"), byCallsignSecurityAgent, Watch, root>> = <<Keep("service")>>
         \o <<byCallsignSecurityAgent, Watch, root>>
    BY Rests
  <2>12. Registering(<<Keep("service"), byCallsignSecurityAgent, Watch, root>>)
    BY <2>10, <2>11
  <2>13. QED
    BY <2>12 DEF CloudStoreInitialize, root, rootThen, queryConfigure, queryConfigureThen, callConfigure,
       callConfigureBody, byCallsignSecurityAgent
<1>14. QED
  BY <1>1, <1>2, <1>5, <1>13

LEMMA PersistentStoreIsCalm ==
    /\ PersistentStoreCreated \in Seq(CreatedSteps)
    /\ PersistentStoreDestroyed \in Bodies
    /\ Registering(PersistentStoreInitialize) /\ PersistentStoreDeinitialize \in Guards
<1>1. PersistentStoreCreated \in Seq(CreatedSteps)
  BY CreatedOf, NamesAre, ThingsAre, Listed DEF PersistentStoreCreated
<1>2. PersistentStoreDestroyed \in Bodies
  <2>1. <<IfLeave("_deviceStore2", "values"), IfDrop("_deviceStoreCache"), IfDrop("_deviceStoreInspector"),
        IfDrop("_deviceStoreLimit")>> \in Seq(Body2)
    BY BodiesGrow, DropsOf, NamesAre, ThingsAre, Listed
  <2>2. PersistentStoreDestroyed = <<IfLeave("_deviceStore2", "values"), IfDrop("_deviceStoreCache"),
        IfDrop("_deviceStoreInspector"), IfDrop("_deviceStoreLimit")>>
    BY DEF PersistentStoreDestroyed
  <2>3. QED
    BY <2>1, <2>2 DEF Bodies
<1> DEFINE ifImplThen == <<IfLeave("_store2", "sink"), IfDrop("_storeCache"), IfDrop("_storeInspector"),
                         IfDrop("_storeLimit")>> \o End
<1>3. ifImplThen \in Seq(Plan2)
  <2>1. <<IfLeave("_store2", "sink"), IfDrop("_storeCache"), IfDrop("_storeInspector"), IfDrop("_storeLimit")>>
        \in Seq(Plan2)
    BY DropsOf, NamesAre, PlansGrow, ThingsAre, Listed
  <2>2. QED
    BY <2>1, Ends, Then
<1> HIDE DEF ifImplThen
<1> DEFINE ifImpl == If("impl", ifImplThen)
<1>4. ifImpl \in Plan3
  BY <1>3, NamesAre, PlanChoices
<1> HIDE DEF ifImpl
<1>5. PersistentStoreDeinitialize \in Guards
  <2>1. <<Unwatch, ifImpl>> \in Seq(Plan3)
    BY <1>4, PlanOf, Listed
  <2>2. Leave \in Seq(Plan3)
    BY Ends
  <2>3. <<Unwatch, ifImpl>> # <<>> /\ <<Unwatch, ifImpl>>[1] = Unwatch
    OBVIOUS
  <2>4. PersistentStoreDeinitialize = <<Unwatch, ifImpl>> \o Leave
    BY DEF PersistentStoreDeinitialize, ifImpl, ifImplThen
  <2>5. QED
    BY <2>1, <2>2, <2>3, UnwatchThen, <2>4 DEF Guards
<1> DEFINE queryStore2Then == <<Register("_store2", "sink")>>
<1>6. queryStore2Then \in Guarded(Calm1, Plan1)
  <2>1. <<Register("_store2", "sink")>> \in Seq(Calm1)
    BY CalmOf, NamesAre, ThingsAre, Listed
  <2>2. QED
    BY <2>1, CalmIsAllowed
<1> HIDE DEF queryStore2Then
<1> DEFINE queryStore2 == Query("_store2", queryStore2Then, Nothing)
<1>7. queryStore2 \in Calm2
  BY <1>6, CalmChoices, NamesAre, NothingIs
<1> HIDE DEF queryStore2
<1> DEFINE queryStoreCache == Query("_storeCache", Nothing, Nothing)
<1>8. queryStoreCache \in Calm2
  BY CalmChoices, NamesAre, NothingIs
<1> HIDE DEF queryStoreCache
<1> DEFINE queryStoreInspector == Query("_storeInspector", Nothing, Nothing)
<1>9. queryStoreInspector \in Calm2
  BY CalmChoices, NamesAre, NothingIs
<1> HIDE DEF queryStoreInspector
<1> DEFINE queryStoreLimit == Query("_storeLimit", Nothing, Nothing)
<1>10. queryStoreLimit \in Calm2
  BY CalmChoices, NamesAre, NothingIs
<1> HIDE DEF queryStoreLimit
<1> DEFINE rootThen == <<queryStore2, queryStoreCache, queryStoreInspector, queryStoreLimit>>
<1>11. rootThen \in Guarded(Calm2, Plan2)
  <2>1. <<queryStore2, queryStoreCache, queryStoreInspector, queryStoreLimit>> \in Seq(Calm2)
    BY <1>7, <1>8, <1>9, <1>10, Listed
  <2>2. QED
    BY <2>1, CalmIsAllowed
<1> HIDE DEF rootThen
<1> DEFINE root == Root(rootThen, <<Fail>>)
<1>12. root \in Calm3
  BY <1>11, FailIs, CalmChoices, NamesAre
<1> HIDE DEF root
<1>13. Registering(PersistentStoreInitialize)
  <2>1. <<root>> \in Seq(Calm3)
    BY <1>12, Listed
  <2>2. <<root>> \in Guards
    BY <2>1, CalmIsAllowed
  <2>3. Registering(<<Watch>> \o <<root>>)
    BY <2>2, WatchFirst
  <2>4. <<Watch, root>> = <<Watch>> \o <<root>>
    BY Rests
  <2>5. Registering(<<Watch, root>>)
    BY <2>3, <2>4
  <2>6. Keep("service") \in Pre
    BY PreOf, NamesAre
  <2>7. Registering(<<Keep("service")>> \o <<Watch, root>>)
    BY <2>5, <2>6, PreFirst
  <2>8. <<Keep("service"), Watch, root>> = <<Keep("service")>> \o <<Watch, root>>
    BY Rests
  <2>9. Registering(<<Keep("service"), Watch, root>>)
    BY <2>7, <2>8
  <2>10. QED
    BY <2>9 DEF PersistentStoreInitialize, root, rootThen, queryStore2, queryStore2Then, queryStoreCache,
       queryStoreInspector, queryStoreLimit
<1>14. QED
  BY <1>1, <1>2, <1>5, <1>13

LEMMA SharedStorageIsCalm ==
    /\ SharedStorageDestroyed \in Bodies
    /\ Registering(SharedStorageInitialize) /\ SharedStorageDeinitialize \in Guards
<1>1. SharedStorageDestroyed \in Bodies
  <2>1. <<IfDrop("_psObject"), IfDrop("_psInspector"), IfDrop("_psLimit"), IfDrop("_psCache"),
        IfDrop("_csObject"), IfDrop("_service")>> \in Seq(Body2)
    BY BodiesGrow, DropsOf, NamesAre, Listed
  <2>2. SharedStorageDestroyed = <<IfDrop("_psObject"), IfDrop("_psInspector"), IfDrop("_psLimit"),
        IfDrop("_psCache"), IfDrop("_csObject"), IfDrop("_service")>>
    BY DEF SharedStorageDestroyed
  <2>3. QED
    BY <2>1, <2>2 DEF Bodies
<1> DEFINE ifImplThen == <<Unregister("impl", "sink"), Closes("JSharedStorage"), Drop("configure")>> \o End
<1>2. ifImplThen \in Seq(Plan2)
  <2>1. <<Unregister("impl", "sink"), Closes("JSharedStorage"), Drop("configure")>> \in Seq(Plan2)
    BY NamesAre, PlanOf, ThingsAre, Listed
  <2>2. QED
    BY <2>1, Ends, Then
<1> HIDE DEF ifImplThen
<1> DEFINE ifImpl == If("impl", ifImplThen)
<1>3. ifImpl \in Plan3
  BY <1>2, NamesAre, PlanChoices
<1> HIDE DEF ifImpl
<1> DEFINE ifStoreInspectorThen == <<Closes("JSharedStorageInspector")>>
<1>4. ifStoreInspectorThen \in Seq(Plan2)
  BY NamesAre, PlanOf, ThingsAre, Listed
<1> HIDE DEF ifStoreInspectorThen
<1> DEFINE ifStoreInspector == If("_storeInspector", ifStoreInspectorThen)
<1>5. ifStoreInspector \in Plan3
  BY <1>4, NamesAre, PlanChoices
<1> HIDE DEF ifStoreInspector
<1> DEFINE ifStoreLimitThen == <<Closes("JSharedStorageLimit")>>
<1>6. ifStoreLimitThen \in Seq(Plan2)
  BY NamesAre, PlanOf, ThingsAre, Listed
<1> HIDE DEF ifStoreLimitThen
<1> DEFINE ifStoreLimit == If("_storeLimit", ifStoreLimitThen)
<1>7. ifStoreLimit \in Plan3
  BY <1>6, NamesAre, PlanChoices
<1> HIDE DEF ifStoreLimit
<1> DEFINE ifStoreCacheThen == <<Closes("JSharedStorageCache")>>
<1>8. ifStoreCacheThen \in Seq(Plan2)
  BY NamesAre, PlanOf, ThingsAre, Listed
<1> HIDE DEF ifStoreCacheThen
<1> DEFINE ifStoreCache == If("_storeCache", ifStoreCacheThen)
<1>9. ifStoreCache \in Plan3
  BY <1>8, NamesAre, PlanChoices
<1> HIDE DEF ifStoreCache
<1>10. SharedStorageDeinitialize \in Guards
  <2>1. <<Unwatch, ifImpl, ifStoreInspector, ifStoreLimit, ifStoreCache>> \in Seq(Plan3)
    BY <1>3, <1>5, <1>7, <1>9, PlanOf, Listed
  <2>2. Leave \in Seq(Plan3)
    BY Ends
  <2>3. <<Unwatch, ifImpl, ifStoreInspector, ifStoreLimit, ifStoreCache>> # <<>> /\ <<Unwatch, ifImpl,
        ifStoreInspector, ifStoreLimit, ifStoreCache>>[1] = Unwatch
    OBVIOUS
  <2>4. SharedStorageDeinitialize = <<Unwatch, ifImpl, ifStoreInspector, ifStoreLimit, ifStoreCache>> \o Leave
    BY DEF SharedStorageDeinitialize, ifImpl, ifImplThen, ifStoreInspector, ifStoreInspectorThen,
       ifStoreLimit, ifStoreLimitThen, ifStoreCache, ifStoreCacheThen
  <2>5. QED
    BY <2>1, <2>2, <2>3, UnwatchThen, <2>4 DEF Guards
<1> DEFINE byCallsignPsObjectThen == <<Register("_psObject", "values")>>
<1>11. byCallsignPsObjectThen \in Seq(Body1)
  BY BodyOf, NamesAre, ThingsAre, Listed
<1> HIDE DEF byCallsignPsObjectThen
<1> DEFINE byCallsignPsObject == ByCallsign("_psObject", byCallsignPsObjectThen, Nothing)
<1>12. byCallsignPsObject \in Body2
  BY <1>11, BodyChoices, NamesAre, NothingIs
<1> HIDE DEF byCallsignPsObject
<1> DEFINE byCallsignPsInspector == ByCallsign("_psInspector", Nothing, Nothing)
<1>13. byCallsignPsInspector \in Body2
  BY BodyChoices, NamesAre, NothingIs
<1> HIDE DEF byCallsignPsInspector
<1> DEFINE byCallsignPsLimit == ByCallsign("_psLimit", Nothing, Nothing)
<1>14. byCallsignPsLimit \in Body2
  BY BodyChoices, NamesAre, NothingIs
<1> HIDE DEF byCallsignPsLimit
<1> DEFINE byCallsignPsCache == ByCallsign("_psCache", Nothing, Nothing)
<1>15. byCallsignPsCache \in Body2
  BY BodyChoices, NamesAre, NothingIs
<1> HIDE DEF byCallsignPsCache
<1> DEFINE byCallsignCsObjectThen == <<Register("_csObject", "values")>>
<1>16. byCallsignCsObjectThen \in Seq(Body1)
  BY BodyOf, NamesAre, ThingsAre, Listed
<1> HIDE DEF byCallsignCsObjectThen
<1> DEFINE byCallsignCsObject == ByCallsign("_csObject", byCallsignCsObjectThen, Nothing)
<1>17. byCallsignCsObject \in Body2
  BY <1>16, BodyChoices, NamesAre, NothingIs
<1> HIDE DEF byCallsignCsObject
<1>18. SharedStorageConfigure \in Bodies
  <2>1. <<Keep("_service"), byCallsignPsObject, byCallsignPsInspector, byCallsignPsLimit, byCallsignPsCache,
        byCallsignCsObject>> \in Seq(Body2)
    BY <1>12, <1>13, <1>14, <1>15, <1>17, BodyOf, NamesAre, Listed
  <2>2. SharedStorageConfigure = <<Keep("_service"), byCallsignPsObject, byCallsignPsInspector,
        byCallsignPsLimit, byCallsignPsCache, byCallsignCsObject>>
    BY DEF SharedStorageConfigure, byCallsignPsObject, byCallsignPsObjectThen, byCallsignPsInspector,
       byCallsignPsLimit, byCallsignPsCache, byCallsignCsObject, byCallsignCsObjectThen
  <2>3. QED
    BY <2>1, <2>2 DEF Bodies
<1> DEFINE callConfigure == Call("configure", SharedStorageConfigure, Nothing, <<Fail>>)
<1>19. callConfigure \in Calm1
  BY <1>18, FailIs, CalmChoices, NamesAre, NothingIs
<1> HIDE DEF callConfigure
<1> DEFINE queryConfigureThen == <<callConfigure>>
<1>20. queryConfigureThen \in Guarded(Calm1, Plan1)
  <2>1. <<callConfigure>> \in Seq(Calm1)
    BY <1>19, Listed
  <2>2. QED
    BY <2>1, CalmIsAllowed
<1> HIDE DEF queryConfigureThen
<1> DEFINE queryConfigure == Query("configure", queryConfigureThen, <<Fail>>)
<1>21. queryConfigure \in Calm2
  BY <1>20, FailIs, CalmChoices, NamesAre
<1> HIDE DEF queryConfigure
<1> DEFINE rootThen == <<queryConfigure, Opens("JSharedStorage"), Register("impl", "sink")>>
<1>22. rootThen \in Guarded(Calm2, Plan2)
  <2>1. <<queryConfigure, Opens("JSharedStorage"), Register("impl", "sink")>> \in Seq(Calm2)
    BY <1>21, CalmOf, NamesAre, ThingsAre, Listed
  <2>2. QED
    BY <2>1, CalmIsAllowed
<1> HIDE DEF rootThen
<1> DEFINE root == Root(rootThen, <<Fail>>)
<1>23. root \in Calm3
  BY <1>22, FailIs, CalmChoices, NamesAre
<1> HIDE DEF root
<1> DEFINE ifFailedThen == <<Exit>>
<1>24. ifFailedThen \in Guarded(Calm2, Plan2)
  <2>1. <<Exit>> \in Seq(Calm2)
    BY CalmOf, Listed
  <2>2. QED
    BY <2>1, CalmIsAllowed
<1> HIDE DEF ifFailedThen
<1> DEFINE ifFailed == IfFailed(ifFailedThen)
<1>25. ifFailed \in Calm3
  BY <1>24, CalmChoices, NamesAre
<1> HIDE DEF ifFailed
<1> DEFINE queryStoreInspectorThen == <<Opens("JSharedStorageInspector")>>
<1>26. queryStoreInspectorThen \in Guarded(Calm2, Plan2)
  <2>1. <<Opens("JSharedStorageInspector")>> \in Seq(Calm2)
    BY CalmOf, NamesAre, ThingsAre, Listed
  <2>2. QED
    BY <2>1, CalmIsAllowed
<1> HIDE DEF queryStoreInspectorThen
<1> DEFINE queryStoreInspectorElse == <<Fail, Exit>>
<1>27. queryStoreInspectorElse \in Guarded(Calm2, Plan2)
  <2>1. <<Fail, Exit>> \in Seq(Calm2)
    BY CalmOf, Listed
  <2>2. QED
    BY <2>1, CalmIsAllowed
<1> HIDE DEF queryStoreInspectorElse
<1> DEFINE queryStoreInspector == Query("_storeInspector", queryStoreInspectorThen, queryStoreInspectorElse)
<1>28. queryStoreInspector \in Calm3
  BY <1>26, <1>27, CalmChoices, NamesAre
<1> HIDE DEF queryStoreInspector
<1> DEFINE queryStoreLimitThen == <<Opens("JSharedStorageLimit")>>
<1>29. queryStoreLimitThen \in Guarded(Calm2, Plan2)
  <2>1. <<Opens("JSharedStorageLimit")>> \in Seq(Calm2)
    BY CalmOf, NamesAre, ThingsAre, Listed
  <2>2. QED
    BY <2>1, CalmIsAllowed
<1> HIDE DEF queryStoreLimitThen
<1> DEFINE queryStoreLimitElse == <<Fail, Exit>>
<1>30. queryStoreLimitElse \in Guarded(Calm2, Plan2)
  <2>1. <<Fail, Exit>> \in Seq(Calm2)
    BY CalmOf, Listed
  <2>2. QED
    BY <2>1, CalmIsAllowed
<1> HIDE DEF queryStoreLimitElse
<1> DEFINE queryStoreLimit == Query("_storeLimit", queryStoreLimitThen, queryStoreLimitElse)
<1>31. queryStoreLimit \in Calm3
  BY <1>29, <1>30, CalmChoices, NamesAre
<1> HIDE DEF queryStoreLimit
<1> DEFINE queryStoreCacheThen == <<Opens("JSharedStorageCache")>>
<1>32. queryStoreCacheThen \in Guarded(Calm2, Plan2)
  <2>1. <<Opens("JSharedStorageCache")>> \in Seq(Calm2)
    BY CalmOf, NamesAre, ThingsAre, Listed
  <2>2. QED
    BY <2>1, CalmIsAllowed
<1> HIDE DEF queryStoreCacheThen
<1> DEFINE queryStoreCacheElse == <<Fail, Exit>>
<1>33. queryStoreCacheElse \in Guarded(Calm2, Plan2)
  <2>1. <<Fail, Exit>> \in Seq(Calm2)
    BY CalmOf, Listed
  <2>2. QED
    BY <2>1, CalmIsAllowed
<1> HIDE DEF queryStoreCacheElse
<1> DEFINE queryStoreCache == Query("_storeCache", queryStoreCacheThen, queryStoreCacheElse)
<1>34. queryStoreCache \in Calm3
  BY <1>32, <1>33, CalmChoices, NamesAre
<1> HIDE DEF queryStoreCache
<1>35. Registering(SharedStorageInitialize)
  <2>1. <<root, ifFailed, queryStoreInspector, queryStoreLimit, queryStoreCache>> \in Seq(Calm3)
    BY <1>23, <1>25, <1>28, <1>31, <1>34, Listed
  <2>2. <<root, ifFailed, queryStoreInspector, queryStoreLimit, queryStoreCache>> \in Guards
    BY <2>1, CalmIsAllowed
  <2>3. Registering(<<Watch>> \o <<root, ifFailed, queryStoreInspector, queryStoreLimit, queryStoreCache>>)
    BY <2>2, WatchFirst
  <2>4. <<Watch, root, ifFailed, queryStoreInspector, queryStoreLimit, queryStoreCache>> = <<Watch>> \o <<root,
        ifFailed, queryStoreInspector, queryStoreLimit, queryStoreCache>>
    BY Rests
  <2>5. Registering(<<Watch, root, ifFailed, queryStoreInspector, queryStoreLimit, queryStoreCache>>)
    BY <2>3, <2>4
  <2>6. Keep("service") \in Pre
    BY PreOf, NamesAre
  <2>7. Registering(<<Keep("service")>> \o <<Watch, root, ifFailed, queryStoreInspector, queryStoreLimit,
        queryStoreCache>>)
    BY <2>5, <2>6, PreFirst
  <2>8. <<Keep("service"), Watch, root, ifFailed, queryStoreInspector, queryStoreLimit,
        queryStoreCache>> = <<Keep("service")>> \o <<Watch, root, ifFailed, queryStoreInspector,
        queryStoreLimit, queryStoreCache>>
    BY Rests
  <2>9. Registering(<<Keep("service"), Watch, root, ifFailed, queryStoreInspector, queryStoreLimit,
        queryStoreCache>>)
    BY <2>7, <2>8
  <2>10. QED
    BY <2>9 DEF SharedStorageInitialize, root, rootThen, queryConfigure, queryConfigureThen, callConfigure,
       ifFailed, ifFailedThen, queryStoreInspector, queryStoreInspectorThen, queryStoreInspectorElse,
       queryStoreLimit, queryStoreLimitThen, queryStoreLimitElse, queryStoreCache, queryStoreCacheThen,
       queryStoreCacheElse
<1>36. QED
  BY <1>1, <1>10, <1>35

LEMMA AnalyticsIsPlan ==
    /\ AnalyticsCreated \in Seq(CreatedSteps)
    /\ AnalyticsDestroyed \in Bodies
    /\ AnalyticsInitialize \in Plans /\ AnalyticsDeinitialize \in Plans
<1>1. AnalyticsCreated \in Seq(CreatedSteps)
  BY CreatedOf, NamesAre, ThingsAre, Listed DEF AnalyticsCreated
<1>2. AnalyticsDestroyed \in Bodies
  <2>1. <<Closes("mThread")>> \in Seq(Body2)
    BY BodyOf, NamesAre, ThingsAre, Listed
  <2>2. AnalyticsDestroyed = <<Closes("mThread")>>
    BY DEF AnalyticsDestroyed
  <2>3. QED
    BY <2>1, <2>2 DEF Bodies
<1> DEFINE ifImplThen == <<Closes("JAnalytics")>> \o End
<1>3. ifImplThen \in Seq(Plan2)
  <2>1. <<Closes("JAnalytics")>> \in Seq(Plan2)
    BY NamesAre, PlanOf, ThingsAre, Listed
  <2>2. QED
    BY <2>1, Ends, Then
<1> HIDE DEF ifImplThen
<1> DEFINE ifImpl == If("impl", ifImplThen)
<1>4. ifImpl \in Plan3
  BY <1>3, NamesAre, PlanChoices
<1> HIDE DEF ifImpl
<1>5. AnalyticsDeinitialize \in Plans
  <2>1. <<ifImpl>> \in Seq(Plan3)
    BY <1>4, Listed
  <2>2. AnalyticsDeinitialize = <<ifImpl>>
    BY DEF AnalyticsDeinitialize, ifImpl, ifImplThen
  <2>3. QED
    BY <2>1, <2>2 DEF Plans
<1> DEFINE callConfigureBody == <<Point("mShell")>>
<1>6. callConfigureBody \in Bodies
  BY BodyOf, NamesAre, Listed DEF Bodies
<1> HIDE DEF callConfigureBody
<1> DEFINE callConfigure == Call("configure", callConfigureBody, Nothing, Nothing)
<1>7. callConfigure \in Plan1
  BY <1>6, NamesAre, NothingIs, PlanChoices
<1> HIDE DEF callConfigure
<1> DEFINE queryConfigureThen == <<callConfigure, Drop("configure")>>
<1>8. queryConfigureThen \in Seq(Plan1)
  BY <1>7, NamesAre, PlanOf, Listed
<1> HIDE DEF queryConfigureThen
<1> DEFINE queryConfigure == Query("configure", queryConfigureThen, Nothing)
<1>9. queryConfigure \in Plan2
  BY <1>8, NamesAre, NothingIs, PlanChoices
<1> HIDE DEF queryConfigure
<1> DEFINE rootThen == <<queryConfigure, Opens("JAnalytics")>>
<1>10. rootThen \in Seq(Plan2)
  BY <1>9, NamesAre, PlanOf, ThingsAre, Listed
<1> HIDE DEF rootThen
<1> DEFINE root == Root(rootThen, <<Fail>>)
<1>11. root \in Plan3
  BY <1>10, FailIs, NamesAre, PlanChoices
<1> HIDE DEF root
<1>12. AnalyticsInitialize \in Plans
  <2>1. <<Point("service"), root>> \in Seq(Plan3)
    BY <1>11, NamesAre, PlanOf, Listed
  <2>2. AnalyticsInitialize = <<Point("service"), root>>
    BY DEF AnalyticsInitialize, root, rootThen, queryConfigure, queryConfigureThen, callConfigure,
       callConfigureBody
  <2>3. QED
    BY <2>1, <2>2 DEF Plans
<1>13. QED
  BY <1>1, <1>2, <1>5, <1>12

LEMMA NativeJSIsPlan ==
    NativeJSInitialize \in Plans /\ NativeJSDeinitialize \in Plans
<1> DEFINE sometimesThen == <<Closes("mRenderThread")>>
<1>1. sometimesThen \in Seq(Body1)
  BY BodyOf, NamesAre, ThingsAre, Listed
<1> HIDE DEF sometimesThen
<1> DEFINE sometimes == Sometimes(sometimesThen)
<1>2. sometimes \in Body2
  BY <1>1, BodyChoices, NamesAre
<1> HIDE DEF sometimes
<1> DEFINE callImplBody == <<sometimes>>
<1>3. callImplBody \in Bodies
  BY <1>2, Listed DEF Bodies
<1> HIDE DEF callImplBody
<1> DEFINE callImpl == Call("impl", callImplBody, Nothing, Nothing)
<1>4. callImpl \in Plan2
  BY <1>3, NamesAre, NothingIs, PlanChoices
<1> HIDE DEF callImpl
<1> DEFINE ifImplThen == <<Closes("JNativeJS"), callImpl, Drop("impl"), Forget("service")>>
<1>5. ifImplThen \in Seq(Plan2)
  BY <1>4, NamesAre, PlanOf, ThingsAre, Listed
<1> HIDE DEF ifImplThen
<1> DEFINE ifImpl == If("impl", ifImplThen)
<1>6. ifImpl \in Plan3
  BY <1>5, NamesAre, PlanChoices
<1> HIDE DEF ifImpl
<1>7. NativeJSDeinitialize \in Plans
  <2>1. <<ifImpl>> \in Seq(Plan3)
    BY <1>6, Listed
  <2>2. NativeJSDeinitialize = <<ifImpl>>
    BY DEF NativeJSDeinitialize, ifImpl, ifImplThen, callImpl, callImplBody, sometimes, sometimesThen
  <2>3. QED
    BY <2>1, <2>2 DEF Plans
<1> DEFINE rootElse == <<Fail, Forget("service"), Exit>>
<1>8. rootElse \in Seq(Plan2)
  BY NamesAre, PlanOf, Listed
<1> HIDE DEF rootElse
<1> DEFINE root == Root(Nothing, rootElse)
<1>9. root \in Plan3
  BY <1>8, NamesAre, NothingIs, PlanChoices
<1> HIDE DEF root
<1> DEFINE callImpl2Body == <<Opens("mRenderThread")>>
<1>10. callImpl2Body \in Bodies
  BY BodyOf, NamesAre, ThingsAre, Listed DEF Bodies
<1> HIDE DEF callImpl2Body
<1> DEFINE callImpl2 == Call("impl", callImpl2Body, Nothing, Nothing)
<1>11. callImpl2 \in Plan3
  BY <1>10, NamesAre, NothingIs, PlanChoices
<1> HIDE DEF callImpl2
<1>12. NativeJSInitialize \in Plans
  <2>1. <<Point("service"), root, callImpl2, Opens("JNativeJS")>> \in Seq(Plan3)
    BY <1>9, <1>11, NamesAre, PlanOf, ThingsAre, Listed
  <2>2. NativeJSInitialize = <<Point("service"), root, callImpl2, Opens("JNativeJS")>>
    BY DEF NativeJSInitialize, root, rootElse, callImpl2, callImpl2Body
  <2>3. QED
    BY <2>1, <2>2 DEF Plans
<1>13. QED
  BY <1>7, <1>12

LEMMA MessageControlIsCalm ==
    Registering(MessageControlInitialize) /\ MessageControlDeinitialize \in Guards
<1> DEFINE ifServiceThen == <<Closes("JMessageControl"), Closes("_worker"), Unwatch,
                            Closes("_webSocketExporter"), Closes("outputs"), Drop("service")>>
<1>1. ifServiceThen \in Guarded(Calm2, Plan2)
  <2>1. <<Unwatch, Closes("_webSocketExporter"), Closes("outputs"), Drop("service")>> \in Seq(Plan2)
    BY NamesAre, PlanOf, ThingsAre, Listed
  <2>2. <<Unwatch, Closes("_webSocketExporter"), Closes("outputs"), Drop("service")>> # <<>> /\ <<Unwatch,
        Closes("_webSocketExporter"), Closes("outputs"), Drop("service")>>[1] = Unwatch
    OBVIOUS
  <2>3. <<Unwatch, Closes("_webSocketExporter"), Closes("outputs"), Drop("service")>> \in Guarded(Calm2, Plan2)
    BY <2>1, <2>2, UnwatchFirst
  <2>4. <<Closes("_worker")>> \in Guarded(Calm2, Plan2)
    BY CalmOf, NamesAre, ThingsAre, One, CalmIsAllowed
  <2>5. <<Closes("_worker"), Unwatch, Closes("_webSocketExporter"), Closes("outputs"),
        Drop("service")>> = <<Closes("_worker")>> \o <<Unwatch, Closes("_webSocketExporter"), Closes("outputs"),
        Drop("service")>>
    BY Rests
  <2>6. <<Closes("_worker"), Unwatch, Closes("_webSocketExporter"), Closes("outputs"), Drop("service")>>
        \in Guarded(Calm2, Plan2)
    BY <2>3, <2>4, <2>5, GuardedTogether
  <2>7. <<Closes("JMessageControl")>> \in Guarded(Calm2, Plan2)
    BY CalmOf, NamesAre, ThingsAre, One, CalmIsAllowed
  <2>8. <<Closes("JMessageControl"), Closes("_worker"), Unwatch, Closes("_webSocketExporter"),
        Closes("outputs"), Drop("service")>> = <<Closes("JMessageControl")>> \o <<Closes("_worker"), Unwatch,
        Closes("_webSocketExporter"), Closes("outputs"), Drop("service")>>
    BY Rests
  <2>9. QED
    BY <2>6, <2>7, <2>8, GuardedTogether
<1> HIDE DEF ifServiceThen
<1> DEFINE ifService == If("service", ifServiceThen)
<1>2. ifService \in Calm3
  BY <1>1, CalmChoices, NamesAre
<1> HIDE DEF ifService
<1>3. MessageControlDeinitialize \in Guards
  <2>1. <<ifService>> \in Seq(Calm3)
    BY <1>2, Listed
  <2>2. MessageControlDeinitialize = <<ifService>>
    BY DEF MessageControlDeinitialize, ifService, ifServiceThen
  <2>3. QED
    BY <2>1, CalmIsAllowed, <2>2 DEF Guards
<1>4. Registering(MessageControlInitialize)
  <2>1. <<Opens("_worker")>> \in Seq(Calm3)
    BY CalmOf, NamesAre, ThingsAre, Listed
  <2>2. <<Opens("_worker")>> \in Guards
    BY <2>1, CalmIsAllowed
  <2>3. Registering(<<Watch>> \o <<Opens("_worker")>>)
    BY <2>2, WatchFirst
  <2>4. <<Watch, Opens("_worker")>> = <<Watch>> \o <<Opens("_worker")>>
    BY Rests
  <2>5. Registering(<<Watch, Opens("_worker")>>)
    BY <2>3, <2>4
  <2>6. Opens("JMessageControl") \in Pre
    BY PreOf, NamesAre, ThingsAre
  <2>7. Registering(<<Opens("JMessageControl")>> \o <<Watch, Opens("_worker")>>)
    BY <2>5, <2>6, PreFirst
  <2>8. <<Opens("JMessageControl"), Watch, Opens("_worker")>> = <<Opens("JMessageControl")>> \o <<Watch,
        Opens("_worker")>>
    BY Rests
  <2>9. Registering(<<Opens("JMessageControl"), Watch, Opens("_worker")>>)
    BY <2>7, <2>8
  <2>10. Opens("_webSocketExporter") \in Pre
    BY PreOf, NamesAre, ThingsAre
  <2>11. Registering(<<Opens("_webSocketExporter")>> \o <<Opens("JMessageControl"), Watch, Opens("_worker")>>)
    BY <2>9, <2>10, PreFirst
  <2>12. <<Opens("_webSocketExporter"), Opens("JMessageControl"), Watch,
         Opens("_worker")>> = <<Opens("_webSocketExporter")>> \o <<Opens("JMessageControl"), Watch,
         Opens("_worker")>>
    BY Rests
  <2>13. Registering(<<Opens("_webSocketExporter"), Opens("JMessageControl"), Watch, Opens("_worker")>>)
    BY <2>11, <2>12
  <2>14. Opens("outputs") \in Pre
    BY PreOf, NamesAre, ThingsAre
  <2>15. Registering(<<Opens("outputs")>> \o <<Opens("_webSocketExporter"), Opens("JMessageControl"), Watch,
         Opens("_worker")>>)
    BY <2>13, <2>14, PreFirst
  <2>16. <<Opens("outputs"), Opens("_webSocketExporter"), Opens("JMessageControl"), Watch,
         Opens("_worker")>> = <<Opens("outputs")>> \o <<Opens("_webSocketExporter"), Opens("JMessageControl"),
         Watch, Opens("_worker")>>
    BY Rests
  <2>17. Registering(<<Opens("outputs"), Opens("_webSocketExporter"), Opens("JMessageControl"), Watch,
         Opens("_worker")>>)
    BY <2>15, <2>16
  <2>18. Keep("service") \in Pre
    BY PreOf, NamesAre
  <2>19. Registering(<<Keep("service")>> \o <<Opens("outputs"), Opens("_webSocketExporter"),
         Opens("JMessageControl"), Watch, Opens("_worker")>>)
    BY <2>17, <2>18, PreFirst
  <2>20. <<Keep("service"), Opens("outputs"), Opens("_webSocketExporter"), Opens("JMessageControl"), Watch,
         Opens("_worker")>> = <<Keep("service")>> \o <<Opens("outputs"), Opens("_webSocketExporter"),
         Opens("JMessageControl"), Watch, Opens("_worker")>>
    BY Rests
  <2>21. Registering(<<Keep("service"), Opens("outputs"), Opens("_webSocketExporter"), Opens("JMessageControl"),
         Watch, Opens("_worker")>>)
    BY <2>19, <2>20
  <2>22. QED
    BY <2>21 DEF MessageControlInitialize
<1>5. QED
  BY <1>3, <1>4

LEMMA ProgramsKeepTheRules ==
    ASSUME NEW h \in PluginNames, h \notin LeavesLate
    PROVE  /\ Programs[h].Created \in Seq(CreatedSteps) /\ Programs[h].Destroyed \in Bodies
           /\ \/ Programs[h].Initialize \in Plans /\ Programs[h].Deinitialize \in Plans
              \/ Registering(Programs[h].Initialize) /\ Programs[h].Deinitialize \in Guards
<1>1. Nothing \in Seq(CreatedSteps) /\ Nothing \in Bodies
  BY NothingIs
<1>2. h \in {"AppManager", "LifecycleManager", "RuntimeManager", "PackageManager", "StorageManager",
             "USBMassStorage", "UserSettings", "Telemetry", "CloudStore", "PersistentStore",
             "SharedStorage", "Analytics", "NativeJS", "MessageControl"}
  BY DEF PluginNames, Programs, LeavesLate
<1>3. CASE h = "AppManager"
  BY <1>1, <1>3, AppManagerIsCalm DEF Programs, Lifecycle
<1>4. CASE h = "LifecycleManager"
  BY <1>1, <1>4, LifecycleManagerIsPlan DEF Programs, Lifecycle
<1>5. CASE h = "RuntimeManager"
  BY <1>1, <1>5, RuntimeManagerIsPlan DEF Programs, Lifecycle
<1>6. CASE h = "PackageManager"
  BY <1>1, <1>6, PackageManagerIsCalm DEF Programs, Lifecycle
<1>7. CASE h = "StorageManager"
  BY <1>1, <1>7, StorageManagerIsPlan DEF Programs, Lifecycle
<1>8. CASE h = "USBMassStorage"
  BY <1>1, <1>8, USBMassStorageIsCalm DEF Programs, Lifecycle
<1>9. CASE h = "UserSettings"
  BY <1>1, <1>9, UserSettingsIsCalm DEF Programs, Lifecycle
<1>10. CASE h = "Telemetry"
  BY <1>1, <1>10, TelemetryIsCalm DEF Programs, Lifecycle
<1>11. CASE h = "CloudStore"
  BY <1>1, <1>11, CloudStoreIsCalm DEF Programs, Lifecycle
<1>12. CASE h = "PersistentStore"
  BY <1>1, <1>12, PersistentStoreIsCalm DEF Programs, Lifecycle
<1>13. CASE h = "SharedStorage"
  BY <1>1, <1>13, SharedStorageIsCalm DEF Programs, Lifecycle
<1>14. CASE h = "Analytics"
  BY <1>1, <1>14, AnalyticsIsPlan DEF Programs, Lifecycle
<1>15. CASE h = "NativeJS"
  BY <1>1, <1>15, NativeJSIsPlan DEF Programs, Lifecycle
<1>16. CASE h = "MessageControl"
  BY <1>1, <1>16, MessageControlIsCalm DEF Programs, Lifecycle
<1>17. QED
  BY <1>2, <1>3, <1>4, <1>5, <1>6, <1>7, <1>8, <1>9, <1>10, <1>11, <1>12, <1>13, <1>14, <1>15, <1>16

-----------------------------------------------------------------------------
(* Where a plugin is in its program.                                        *)

Watches == <<"plugin", "service", "death">> \in registered
Holds   == <<"plugin", "impl">> \in BagToSet(held)

\* A process that is watched is not told to end, and is in use.
InUse(first) == process # 0 => ~ending /\ (Holds \/ (first # <<>> /\ Head(first) = Found))

InPlan(q) == q \in Plans /\ (Watches => q \in Guards /\ InUse(q))

\* In the steps b of the implementation, and with p after the call.
Results == [do : {"return"}, of : {""}, body : {Nothing}, then : Plans, else : Plans]

InCall(b, r, p) ==
    /\ b \in Bodies /\ r \in Results /\ p \in Plans
    /\ Watches =>
          /\ p \in Guards /\ r.then \in Guards /\ r.else \in Guards
          /\ IF b \in Seq(CreatedSteps) THEN InUse(r.then) ELSE InUse(Nothing)

BeforeWatch(n, g) ==
    n \in Seq(Pre) /\ g \in Guards /\ ~Watches /\ process = 0 /\ Programs[hosted].Deinitialize \in Guards

Where ==
    \/ InPlan(steps)
    \/ \E b \in Bodies, r \in Results, p \in Plans : steps = b \o (<<r>> \o p) /\ InCall(b, r, p)
    \/ \E n \in Seq(Pre), g \in Guards : steps = n \o (<<Watch>> \o g) /\ BeforeWatch(n, g)

-----------------------------------------------------------------------------
(* Sequences with a step in the middle.                                     *)

LEMMA Middle ==
    ASSUME NEW S, NEW a \in Seq(S), NEW x \in S, NEW c \in Seq(S)
    PROVE  /\ a \o (<<x>> \o c) \in Seq(S) /\ a \o (<<x>> \o c) # <<>>
           /\ Len(a) + 1 \in DOMAIN (a \o (<<x>> \o c)) /\ (a \o (<<x>> \o c))[Len(a) + 1] = x
           /\ \A i \in 1..Len(a) : (a \o (<<x>> \o c))[i] = a[i]
           /\ Len(a) \in Nat
           /\ SubSeq(a \o (<<x>> \o c), Len(a) + 2, Len(a \o (<<x>> \o c))) = c
           /\ a = <<>> => Head(a \o (<<x>> \o c)) = x /\ Tail(a \o (<<x>> \o c)) = c
           /\ a # <<>> => /\ Head(a \o (<<x>> \o c)) = Head(a)
                          /\ Tail(a \o (<<x>> \o c)) = Tail(a) \o (<<x>> \o c)
<1> DEFINE y == <<x>> \o c
           q == a \o y
           l == Len(a)
           k == Len(c)
<1>1. /\ y \in Seq(S) /\ y # <<>> /\ Head(y) = x /\ Tail(y) = c
  BY OneFirst
<1>2. y[1] = x /\ Len(y) \in Nat \ {0} /\ k = Len(y) - 1 /\ \A i \in 1..k : c[i] = y[i + 1]
  <2> HIDE DEF y
  <2>1. QED
    BY <1>1, FirstElement
<1> HIDE DEF y
<1>3. /\ q \in Seq(S) /\ Len(q) = Len(a) + Len(y)
      /\ \A i \in 1..(Len(a) + Len(y)) : q[i] = IF i <= Len(a) THEN a[i] ELSE y[i - Len(a)]
  BY <1>1, ConcatProperties
<1>4. l \in Nat /\ k \in Nat /\ DOMAIN q = 1..Len(q)
  BY <1>3, LenProperties
<1>5. Len(q) = l + k + 1 /\ Len(y) = k + 1
  BY <1>2, <1>3, <1>4
<1>6. \A i \in 1..(l + (k + 1)) : q[i] = IF i <= l THEN a[i] ELSE y[i - l]
  BY <1>3, <1>5
<1> HIDE DEF q, l, k
<1>7. l + 1 \in DOMAIN q /\ q[l + 1] = x
  <2>1. l + 1 \in 1..(l + (k + 1)) /\ ~(l + 1 <= l) /\ (l + 1) - l = 1 /\ l + (k + 1) = l + k + 1
    BY <1>4
  <2>2. QED
    BY <1>2, <1>4, <1>5, <1>6, <2>1
<1>8. \A i \in 1..l : q[i] = a[i]
  <2>1. \A i \in 1..l : i \in 1..(l + (k + 1)) /\ i <= l
    BY <1>4
  <2>2. QED
    BY <1>6, <2>1
<1>9. SubSeq(q, l + 2, Len(q)) = c
  <2> DEFINE z == SubSeq(q, l + 2, Len(q))
  <2>1. \A i \in (l + 2)..Len(q) : q[i] \in S
    <3>1. \A i \in (l + 2)..Len(q) : i \in 1..Len(q)
      BY <1>4, <1>5
    <3>2. QED
      BY <1>3, <3>1, ElementOfSeq
  <2>2. l + 2 \in Int /\ Len(q) \in Int
    BY <1>4, <1>5
  <2>3. /\ z \in Seq(S)
        /\ Len(z) = IF l + 2 <= Len(q) THEN Len(q) - (l + 2) + 1 ELSE 0
        /\ \A i \in 1..(Len(q) - (l + 2) + 1) : z[i] = q[(l + 2) + i - 1]
    BY <2>1, <2>2, SubSeqProperties
  <2> HIDE DEF z
  <2>4. Len(q) - (l + 2) + 1 = k /\ (l + 2 <= Len(q) \/ k = 0)
    BY <1>4, <1>5
  <2>5. Len(z) = k /\ \A i \in 1..k : z[i] = q[(l + 2) + i - 1]
    BY <1>4, <1>5, <2>3, <2>4
  <2>6. ASSUME NEW i \in 1..k PROVE z[i] = c[i]
    <3>1. /\ (l + 2) + i - 1 \in 1..(l + (k + 1)) /\ ~((l + 2) + i - 1 <= l)
          /\ ((l + 2) + i - 1) - l = i + 1
      BY <1>4
    <3>2. z[i] = q[(l + 2) + i - 1]
      BY <2>5
    <3>3. q[(l + 2) + i - 1] = y[i + 1]
      BY <1>6, <3>1
    <3>4. QED
      BY <1>2, <3>2, <3>3
  <2>7. z = c
    BY <2>3, <2>5, <2>6, SeqEqual DEF k
  <2>8. QED
    BY <2>7 DEF z
<1>10. CASE a = <<>>
  <2>1. q = y
    BY <1>1, <1>10, ConcatEmptySeq DEF q
  <2>2. QED
    BY <1>1, <1>3, <1>4, <1>7, <1>8, <1>9, <1>10, <2>1 DEF q, l, y
<1>11. CASE a # <<>>
  <2>1. q # <<>> /\ Head(q) = Head(a) /\ Tail(q) = Tail(a) \o y
    BY <1>1, <1>11, FrontStep DEF q
  <2>2. QED
    BY <1>3, <1>4, <1>7, <1>8, <1>9, <1>11, <2>1 DEF q, l, y
<1>12. QED
  BY <1>10, <1>11

\* The steps that are carried out in a call, and before the registration.
CallSteps  == Body2 \union Results \union Plan3
FirstSteps == Pre \union Plan3 \union {Watch}

LEMMA NoReturns ==
    /\ \A s \in Plan3 : s.do # "return"
    /\ \A s \in Body2 : s.do # "return"
    /\ \A s \in FirstSteps : s.do # "return"
    /\ \A s \in Results : s.do = "return"
<1>1. \A s \in Plan3 : s.do # "return"
  BY PlanForms
<1>2. \A s \in Body2 : s.do # "return"
  BY BodyForms
<1>3. \A s \in Pre : s.do # "return"
  BY PreForms
<1>4. \A s \in Results : s.do = "return"
  BY DEF Results
<1>5. QED
  BY <1>1, <1>2, <1>3, <1>4, WatchIs DEF FirstSteps

LEMMA InCallIs ==
    ASSUME NEW b \in Bodies, NEW r \in Results, NEW p \in Plans
    PROVE  b \in Seq(CallSteps) /\ r \in CallSteps /\ p \in Seq(CallSteps)
<1>1. Body2 \subseteq CallSteps /\ Plan3 \subseteq CallSteps /\ r \in CallSteps
  BY DEF CallSteps
<1>2. QED
  BY <1>1, SeqMonotonic DEF Bodies, Plans

LEMMA BeforeWatchIs ==
    ASSUME NEW n \in Seq(Pre), NEW g \in Guards
    PROVE  n \in Seq(FirstSteps) /\ Watch \in FirstSteps /\ g \in Seq(FirstSteps)
<1>1. Pre \subseteq FirstSteps /\ Plan3 \subseteq FirstSteps /\ Watch \in FirstSteps
  BY DEF FirstSteps
<1>2. g \in Seq(Plan3)
  BY GuardedIsPlan DEF Guards
<1>3. QED
  BY <1>1, <1>2, SeqMonotonic

\* Between calls it is the plugin's thread.
LEMMA PluginSide ==
    /\ steps \in Plans => Side = "plugin"
    /\ \A n \in Seq(Pre), g \in Guards : steps = n \o (<<Watch>> \o g) => Side = "plugin"
<1>1. ASSUME NEW S, \A s \in S : s.do # "return", steps \in Seq(S)
      PROVE  Side = "plugin"
  <2>1. \A i \in DOMAIN steps : steps[i] \in S
    BY <1>1, LenProperties, ElementOfSeq
  <2>2. ~ \E i \in DOMAIN steps : Returns(i)
    BY <1>1, <2>1 DEF Returns
  <2>3. QED
    BY <2>2 DEF Side
<1>2. steps \in Plans => Side = "plugin"
  BY <1>1, NoReturns DEF Plans
<1>3. ASSUME NEW n \in Seq(Pre), NEW g \in Guards, steps = n \o (<<Watch>> \o g)
      PROVE  Side = "plugin"
  <2>1. steps \in Seq(FirstSteps)
    BY <1>3, BeforeWatchIs, Middle
  <2>2. QED
    BY <1>1, <2>1, NoReturns
<1>4. QED
  BY <1>2, <1>3

\* In a call it is the implementation's, and the call may end at any point.
LEMMA CallSide ==
    ASSUME NEW b \in Bodies, NEW r \in Results, NEW p \in Plans, steps = b \o (<<r>> \o p)
    PROVE  Side = "implementation" /\ AfterCall = r.else \o p
<1> DEFINE e == Len(b) + 1
<1>1. b \in Seq(CallSteps) /\ r \in CallSteps /\ p \in Seq(CallSteps)
  BY InCallIs
<1>2. /\ e \in DOMAIN steps /\ steps[e] = r /\ Len(b) \in Nat
      /\ \A i \in 1..Len(b) : steps[i] = b[i]
      /\ SubSeq(steps, Len(b) + 2, Len(steps)) = p
  BY <1>1, Middle
<1>3. Returns(e)
  BY <1>2, NoReturns DEF Returns
<1>4. \A i \in 1..Len(b) : ~Returns(i)
  <2>1. \A i \in 1..Len(b) : b[i] \in Body2
    BY ElementOfSeq DEF Bodies
  <2>2. QED
    BY <1>2, <2>1, NoReturns DEF Returns
<1>5. Side = "implementation"
  BY <1>2, <1>3 DEF Side
<1>6. e \in Nat /\ e - 1 = Len(b) /\ e + 1 = Len(b) + 2
  BY <1>2
<1>7. DOMAIN steps \subseteq Nat /\ \A i \in DOMAIN steps : i >= 1
  <2>1. steps \in Seq(CallSteps)
    BY <1>1, Middle
  <2>2. DOMAIN steps = 1..Len(steps) /\ Len(steps) \in Nat
    BY <2>1, LenProperties
  <2>3. QED
    BY <2>2
<1> DEFINE Ends1(i) == i \in DOMAIN steps /\ Returns(i) /\ \A j \in 1..(i - 1) : ~Returns(j)
<1>8. ASSUME NEW i, Ends1(i)
      PROVE  i = e
  <2>1. i \in Nat /\ i >= 1
    BY <1>7, <1>8
  <2>2. ~(i < e)
    <3>1. i < e => i \in 1..Len(b)
      BY <1>2, <2>1
    <3>2. QED
      BY <1>4, <1>8, <3>1
  <2>3. ~(e < i)
    <3>1. e < i => e \in 1..(i - 1)
      BY <1>2, <2>1
    <3>2. QED
      BY <1>3, <1>8, <3>1
  <2>4. QED
    BY <1>6, <2>1, <2>2, <2>3
<1>9. Ends1(e)
  BY <1>2, <1>3, <1>4, <1>6
<1> HIDE DEF Ends1, e
<1>10. e = CHOOSE i \in DOMAIN steps : Returns(i) /\ \A j \in 1..(i - 1) : ~Returns(j)
  <2>1. \A i : (i \in DOMAIN steps /\ Returns(i) /\ \A j \in 1..(i - 1) : ~Returns(j)) <=> i = e
    BY <1>8, <1>9 DEF Ends1
  <2>2. QED
    BY <2>1
<1>11. AfterCall = steps[e].else \o SubSeq(steps, e + 1, Len(steps))
  BY <1>10 DEF AfterCall
<1>12. QED
  BY <1>2, <1>5, <1>6, <1>11

-----------------------------------------------------------------------------
(* Steps that go on in the same function.                                   *)

BranchKinds == {"if", "ifFailed", "sometimes", "byCallsign", "query", "call", "root"}

\* The first step of such a sequence, and what is left.
Joined(a, x, c) == a \o (<<x>> \o c)

LEMMA JoinedNext ==
    ASSUME NEW S, NEW a \in Seq(S), NEW x \in S, NEW c \in Seq(S)
    PROVE  /\ Joined(a, x, c) # <<>>
           /\ a = <<>> => Head(Joined(a, x, c)) = x
           /\ a = <<>> => Tail(Joined(a, x, c)) = c
           /\ a # <<>> => Head(Joined(a, x, c)) = Head(a)
           /\ a # <<>> => Tail(Joined(a, x, c)) = Joined(Tail(a), x, c)
<1>1. Joined(a, x, c) # <<>>
  BY Middle DEF Joined
<1>2. a = <<>> => Head(Joined(a, x, c)) = x
  BY Middle DEF Joined
<1>3. a = <<>> => Tail(Joined(a, x, c)) = c
  BY Middle DEF Joined
<1>4. a # <<>> => Head(Joined(a, x, c)) = Head(a)
  BY Middle DEF Joined
<1>5. a # <<>> => Tail(Joined(a, x, c)) = Joined(Tail(a), x, c)
  BY Middle DEF Joined
<1>6. QED
  BY <1>1, <1>2, <1>3, <1>4, <1>5

\* The step that comes next.
LEMMA NextInPlan ==
    ASSUME InPlan(steps), steps # <<>>
    PROVE  /\ Now \in Plan3 /\ Tail(steps) \in Plans
           /\ Watches => Now = Unwatch \/ (Now \in Calm3 /\ Tail(steps) \in Guards)
<1>1. steps \in Seq(Plan3) /\ (Watches => steps \in Guards)
  BY DEF InPlan, Plans
<1>2. Now \in Plan3 /\ Tail(steps) \in Plans
  BY <1>1, FirstElement DEF Now, Plans
<1>3. Watches => Now = Unwatch \/ (Now \in Calm3 /\ Tail(steps) \in Guards)
  BY <1>1, GuardedStep DEF Now, Guards
<1>4. QED
  BY <1>2, <1>3

LEMMA NextInCall ==
    ASSUME NEW b \in Bodies, NEW r \in Results, NEW p \in Plans, steps = b \o (<<r>> \o p)
    PROVE  /\ steps # <<>>
           /\ b = <<>> => Now = r /\ Tail(steps) = p
           /\ b # <<>> => /\ Now = Head(b) /\ Now \in Body2 /\ Tail(b) \in Bodies
                          /\ Tail(steps) = Tail(b) \o (<<r>> \o p)
           /\ b # <<>> /\ b \in Seq(CreatedSteps) => Now \in CreatedSteps /\ Tail(b) \in Seq(CreatedSteps)
<1>1. b \in Seq(CallSteps) /\ r \in CallSteps /\ p \in Seq(CallSteps)
  BY InCallIs
<1>2. steps = Joined(b, r, p)
  BY DEF Joined
<1>3. /\ steps # <<>>
      /\ b = <<>> => Now = r /\ Tail(steps) = p
      /\ b # <<>> => Now = Head(b) /\ Tail(steps) = Tail(b) \o (<<r>> \o p)
  <2>1. steps # <<>>
    BY <1>1, <1>2, JoinedNext
  <2>2. b = <<>> => Now = r
    BY <1>1, <1>2, JoinedNext DEF Now
  <2>3. b = <<>> => Tail(steps) = p
    BY <1>1, <1>2, JoinedNext
  <2>4. b # <<>> => Now = Head(b)
    BY <1>1, <1>2, JoinedNext DEF Now
  <2>5. b # <<>> => Tail(steps) = Tail(b) \o (<<r>> \o p)
    BY <1>1, <1>2, JoinedNext DEF Joined
  <2>6. QED
    BY <2>1, <2>2, <2>3, <2>4, <2>5
<1>4. b # <<>> => Head(b) \in Body2 /\ Tail(b) \in Bodies
  BY FirstElement DEF Bodies
<1>5. b # <<>> /\ b \in Seq(CreatedSteps) => Head(b) \in CreatedSteps /\ Tail(b) \in Seq(CreatedSteps)
  BY FirstElement
<1>6. QED
  BY <1>3, <1>4, <1>5

LEMMA NextBeforeWatch ==
    ASSUME NEW n \in Seq(Pre), NEW g \in Guards, steps = n \o (<<Watch>> \o g)
    PROVE  /\ steps # <<>>
           /\ n = <<>> => Now = Watch /\ Tail(steps) = g
           /\ n # <<>> => /\ Now \in Pre /\ Tail(n) \in Seq(Pre)
                          /\ Tail(steps) = Tail(n) \o (<<Watch>> \o g)
<1>1. n \in Seq(FirstSteps) /\ Watch \in FirstSteps /\ g \in Seq(FirstSteps)
  BY BeforeWatchIs
<1>2. steps = Joined(n, Watch, g)
  BY DEF Joined
<1>3. /\ steps # <<>>
      /\ n = <<>> => Now = Watch /\ Tail(steps) = g
      /\ n # <<>> => Now = Head(n) /\ Tail(steps) = Tail(n) \o (<<Watch>> \o g)
  <2>1. steps # <<>>
    BY <1>1, <1>2, JoinedNext
  <2>2. n = <<>> => Now = Watch
    BY <1>1, <1>2, JoinedNext DEF Now
  <2>3. n = <<>> => Tail(steps) = g
    BY <1>1, <1>2, JoinedNext
  <2>4. n # <<>> => Now = Head(n)
    BY <1>1, <1>2, JoinedNext DEF Now
  <2>5. n # <<>> => Tail(steps) = Tail(n) \o (<<Watch>> \o g)
    BY <1>1, <1>2, JoinedNext DEF Joined
  <2>6. QED
    BY <2>1, <2>2, <2>3, <2>4, <2>5
<1>4. n # <<>> => Head(n) \in Pre /\ Tail(n) \in Seq(Pre)
  BY FirstElement
<1>5. QED
  BY <1>3, <1>4

\* Nothing of what concerns the process changes, but that the plugin registers,
\* leaves, or lets go of the implementation.
Quiet ==
    /\ process' = process /\ ending' = ending /\ hosted' = hosted
    /\ Watches' => Watches \/ (Side = "plugin" /\ Now.do = "register" /\ Now.of = "service")
    /\ Side = "plugin" /\ Now = Unwatch => ~Watches'
    /\ Holds => Holds' \/ (Side = "plugin" /\ Now.do \in {"release", "drop"} /\ Now.of = "impl")
    /\ Side = "plugin" /\ Now = Found => Holds'

LEMMA GoesInPlan ==
    ASSUME InPlan(steps), steps # <<>>, Quiet, NEW x, steps' = x \o Tail(steps),
           x = Nothing \/ (Now.do \in BranchKinds /\ x \in {Now.then, Now.else})
    PROVE  InPlan(steps)'
<1>1. /\ Now \in Plan3 /\ Tail(steps) \in Plans
      /\ Watches => Now = Unwatch \/ (Now \in Calm3 /\ Tail(steps) \in Guards)
  BY NextInPlan
<1>2. Side = "plugin"
  BY PluginSide DEF InPlan
<1>3. x \in Plans
  BY <1>1, PlanForms, NothingIs DEF BranchKinds
<1>4. steps' \in Plans
  BY <1>1, <1>3, ConcatProperties DEF Plans
<1>5. ASSUME Watches'
      PROVE  steps' \in Guards /\ InUse(steps)'
  <2>1. Watches
    BY <1>1, <1>5, PlanForms DEF Quiet
  <2>2. Now \in Calm3 /\ Tail(steps) \in Guards
    BY <1>1, <1>2, <1>5, <2>1 DEF Quiet
  <2>3. x \in Guards
    BY <2>2, CalmForms, NothingIs DEF BranchKinds
  <2>4. steps' \in Guards
    BY <2>2, <2>3, GuardedTogether DEF Guards
  <2>5. InUse(steps)
    BY <2>1 DEF InPlan
  <2>6. Holds => Holds'
    BY <2>2, CalmForms DEF Quiet
  <2>7. InUse(steps)'
    BY <1>2, <2>5, <2>6 DEF InUse, Quiet, Now
  <2>8. QED
    BY <2>4, <2>7
<1>6. QED
  BY <1>4, <1>5 DEF InPlan

LEMMA GoesInCall ==
    ASSUME NEW b \in Bodies, NEW r \in Results, NEW p \in Plans, steps = b \o (<<r>> \o p), InCall(b, r, p),
           Quiet, Now.do # "return", NEW x, steps' = x \o Tail(steps),
           x = Nothing \/ (Now.do \in BranchKinds /\ x \in {Now.then, Now.else})
    PROVE  Where'
<1>1. b # <<>>
  BY NextInCall, NoReturns
<1>2. /\ Now \in Body2 /\ Tail(b) \in Bodies /\ Tail(steps) = Tail(b) \o (<<r>> \o p)
      /\ b \in Seq(CreatedSteps) => Now \in CreatedSteps /\ Tail(b) \in Seq(CreatedSteps)
  BY <1>1, NextInCall
<1>3. Side = "implementation"
  BY CallSide
<1>4. x \in Bodies
  BY <1>2, BodyForms, NothingIs DEF BranchKinds
<1>5. b \in Seq(CreatedSteps) => x = Nothing
  BY <1>2, CreatedForms DEF BranchKinds
<1> DEFINE c == x \o Tail(b)
<1>6. c \in Bodies
  BY <1>2, <1>4, ConcatProperties DEF Bodies
<1>7. b \in Seq(CreatedSteps) => c \in Seq(CreatedSteps)
  BY <1>2, <1>5, NothingIs, ConcatProperties
<1>8. steps' = c \o (<<r>> \o p)
  <2>1. /\ x \in Seq(CallSteps) /\ Tail(b) \in Seq(CallSteps) /\ r \in CallSteps /\ p \in Seq(CallSteps)
    BY <1>2, <1>4, InCallIs
  <2> DEFINE t == Tail(b)
             z == <<r>> \o p
  <2>2. x \in Seq(CallSteps) /\ t \in Seq(CallSteps) /\ z \in Seq(CallSteps)
    BY <2>1, OneFirst
  <2>3. steps' = x \o (t \o z)
    BY <1>2
  <2> HIDE DEF t, z
  <2>4. x \o (t \o z) = (x \o t) \o z
    BY <2>2, ConcatAssociative
  <2>5. QED
    BY <2>3, <2>4 DEF t, z
<1> HIDE DEF c
<1>9. (Watches' => Watches) /\ (Holds => Holds')
  BY <1>3 DEF Quiet
<1>10. InCall(c, r, p)'
  <2>1. ASSUME Watches'
        PROVE  IF c \in Seq(CreatedSteps) THEN InUse(r.then)' ELSE InUse(Nothing)'
    <3>1. IF b \in Seq(CreatedSteps) THEN InUse(r.then) ELSE InUse(Nothing)
      BY <1>9, <2>1 DEF InCall
    <3>2. InUse(Nothing) => InUse(r.then)' /\ InUse(Nothing)'
      BY <1>9 DEF InUse, Quiet, Nothing
    <3>3. InUse(r.then) => InUse(r.then)'
      BY <1>9 DEF InUse, Quiet
    <3>4. QED
      BY <1>7, <3>1, <3>2, <3>3
  <2>2. QED
    BY <1>6, <1>9, <2>1 DEF InCall
<1>11. QED
  BY <1>6, <1>8, <1>10 DEF Where

LEMMA GoesBeforeWatch ==
    ASSUME NEW n \in Seq(Pre), NEW g \in Guards, steps = n \o (<<Watch>> \o g), BeforeWatch(n, g),
           Quiet, NEW x, steps' = x \o Tail(steps),
           x = Nothing \/ (Now.do \in BranchKinds /\ x \in {Now.then, Now.else})
    PROVE  Where' /\ (Watches' => Programs[hosted].Deinitialize \in Guards)
<1>1. Programs[hosted].Deinitialize \in Guards /\ ~Watches /\ process = 0 /\ process' = 0 /\ hosted' = hosted
  BY DEF BeforeWatch, Quiet
<1>2. CASE n = <<>>
  <2>1. Now = Watch /\ Tail(steps) = g /\ x = Nothing
    BY <1>2, NextBeforeWatch, WatchIs DEF BranchKinds
  <2>2. g \in Seq(Plan3)
    BY GuardedIsPlan DEF Guards
  <2>3. steps' = g
    BY <2>1, <2>2, ConcatEmptySeq DEF Nothing
  <2>4. InPlan(steps)'
    BY <1>1, <2>2, <2>3 DEF InPlan, InUse, Plans
  <2>5. QED
    BY <1>1, <2>4 DEF Where
<1>3. CASE n # <<>>
  <2>1. Now \in Pre /\ Tail(n) \in Seq(Pre) /\ Tail(steps) = Tail(n) \o (<<Watch>> \o g)
    BY <1>3, NextBeforeWatch
  <2>2. ~Watches'
    BY <1>1, <2>1, PreForms DEF Quiet
  <2>3. x \in Seq(Pre)
    BY <2>1, PreForms, NothingIs DEF BranchKinds
  <2> DEFINE m == x \o Tail(n)
  <2>4. m \in Seq(Pre)
    BY <2>1, <2>3, ConcatProperties
  <2>5. steps' = m \o (<<Watch>> \o g)
    <3>1. /\ x \in Seq(FirstSteps) /\ Tail(n) \in Seq(FirstSteps) /\ Watch \in FirstSteps /\ g \in Seq(FirstSteps)
      BY <2>1, <2>3, BeforeWatchIs
    <3> DEFINE t == Tail(n)
               z == <<Watch>> \o g
    <3>2. x \in Seq(FirstSteps) /\ t \in Seq(FirstSteps) /\ z \in Seq(FirstSteps)
      BY <3>1, OneFirst
    <3>3. steps' = x \o (t \o z)
      BY <2>1
    <3> HIDE DEF t, z
    <3>4. x \o (t \o z) = (x \o t) \o z
      BY <3>2, ConcatAssociative
    <3>5. QED
      BY <3>3, <3>4 DEF t, z
  <2> HIDE DEF m
  <2>6. BeforeWatch(m, g)'
    BY <1>1, <2>2, <2>4 DEF BeforeWatch
  <2>7. QED
    BY <2>2, <2>4, <2>5, <2>6 DEF Where
<1>4. QED
  BY <1>2, <1>3

LEMMA Goes ==
    ASSUME Where, Watches => Programs[hosted].Deinitialize \in Guards,
           steps # <<>>, Now.do # "return", Quiet, NEW x, steps' = x \o Tail(steps),
           x = Nothing \/ (Now.do \in BranchKinds /\ x \in {Now.then, Now.else})
    PROVE  Where' /\ (Watches' => (Programs[hosted].Deinitialize \in Guards)')
<1>1. hosted' = hosted
  BY DEF Quiet
<1>2. CASE InPlan(steps)
  <2>1. InPlan(steps)'
    BY <1>2, GoesInPlan
  <2>2. Watches' => Watches
    <3>1. Now \in Plan3
      BY <1>2, NextInPlan
    <3>2. QED
      BY <3>1, PlanForms DEF Quiet
  <2>3. QED
    BY <1>1, <2>1, <2>2 DEF Where
<1>3. CASE \E b \in Bodies, r \in Results, p \in Plans : steps = b \o (<<r>> \o p) /\ InCall(b, r, p)
  <2>1. PICK b \in Bodies, r \in Results, p \in Plans : steps = b \o (<<r>> \o p) /\ InCall(b, r, p)
    BY <1>3
  <2>2. Where'
    BY <2>1, GoesInCall
  <2>3. Watches' => Watches
    BY <2>1, CallSide DEF Quiet
  <2>4. QED
    BY <1>1, <2>2, <2>3
<1>4. CASE \E n \in Seq(Pre), g \in Guards : steps = n \o (<<Watch>> \o g) /\ BeforeWatch(n, g)
  <2>1. PICK n \in Seq(Pre), g \in Guards : steps = n \o (<<Watch>> \o g) /\ BeforeWatch(n, g)
    BY <1>4
  <2>2. QED
    BY <1>1, <2>1, GoesBeforeWatch
<1>5. QED
  BY <1>2, <1>3, <1>4 DEF Where

-----------------------------------------------------------------------------
(* Steps that enter or leave a function.                                    *)

Kept == Where /\ (Watches => Programs[hosted].Deinitialize \in Guards)

\* What neither an implementation nor the beginning of an Initialize does.
LEMMA OnlyInPlan ==
    ASSUME Where, steps # <<>>, Now.do \in {"exit", "terminate", "root", "call"}
    PROVE  InPlan(steps)
<1>1. ASSUME NEW b \in Bodies, NEW r \in Results, NEW p \in Plans, steps = b \o (<<r>> \o p)
      PROVE  FALSE
  <2>1. Now = r \/ Now \in Body2
    BY <1>1, NextInCall
  <2>2. QED
    BY <2>1, BodyForms, NoReturns
<1>2. ASSUME NEW n \in Seq(Pre), NEW g \in Guards, steps = n \o (<<Watch>> \o g)
      PROVE  FALSE
  <2>1. Now = Watch \/ Now \in Pre
    BY <1>2, NextBeforeWatch
  <2>2. QED
    BY <2>1, PreForms, WatchIs
<1>3. QED
  BY <1>1, <1>2 DEF Where

LEMMA OnlyInCall ==
    ASSUME Where, steps # <<>>, Now.do \in {"return", "refuse"}
    PROVE  \E b \in Bodies, r \in Results, p \in Plans : steps = b \o (<<r>> \o p) /\ InCall(b, r, p)
<1>1. ASSUME InPlan(steps)
      PROVE  FALSE
  <2>1. Now \in Plan3
    BY <1>1, NextInPlan
  <2>2. QED
    BY <2>1, PlanForms
<1>2. ASSUME NEW n \in Seq(Pre), NEW g \in Guards, steps = n \o (<<Watch>> \o g)
      PROVE  FALSE
  <2>1. Now = Watch \/ Now \in Pre
    BY <1>2, NextBeforeWatch
  <2>2. QED
    BY <2>1, PreForms, WatchIs
<1>3. QED
  BY <1>1, <1>2 DEF Where

\* What the steps become when a call has succeeded, or failed.
LEMMA LeavesCall ==
    ASSUME NEW q \in Plans, NEW p \in Plans, steps' = q \o p,
           Watches' => q \in Guards /\ p \in Guards /\ InUse(q)'
    PROVE  InPlan(steps)'
<1>1. q \o p \in Plans
  BY ConcatProperties DEF Plans
<1>2. Watches' => q \o p \in Guards
  BY GuardedTogether DEF Guards
<1>3. InUse(q)' => InUse(q \o p)'
  <2>1. CASE q # <<>>
    <3>1. q \o p # <<>> /\ Head(q \o p) = Head(q)
      BY <2>1, FrontStep DEF Plans
    <3>2. QED
      BY <3>1 DEF InUse
  <2>2. CASE q = <<>>
    BY <2>2 DEF InUse
  <2>3. QED
    BY <2>1, <2>2
<1>4. InUse(q \o p)' => InUse(steps)'
  BY DEF InUse
<1>5. QED
  BY <1>1, <1>2, <1>3, <1>4 DEF InPlan

LEMMA ReturnsGoodKeeps ==
    ASSUME Kept, ReturnsGood
    PROVE  Kept'
<1>1. /\ steps # <<>> /\ Now.do = "return" /\ steps' = Now.then \o Tail(steps)
      /\ hosted' = hosted /\ process' = process /\ ending' = ending
      /\ registered' = registered /\ held' = held
  BY DEF ReturnsGood, Does, Continues, Nothing, hostVars, pointerVars, processVars
<1>2. PICK b \in Bodies, r \in Results, p \in Plans : steps = b \o (<<r>> \o p) /\ InCall(b, r, p)
  BY <1>1, OnlyInCall DEF Kept
<1>3. b = <<>>
  BY <1>1, <1>2, NextInCall, NoReturns
<1>4. Now = r /\ Tail(steps) = p
  BY <1>2, <1>3, NextInCall
<1>5. r.then \in Plans
  BY DEF Results
<1>6. Watches' => r.then \in Guards /\ p \in Guards /\ InUse(r.then)'
  <2>1. b \in Seq(CreatedSteps)
    BY <1>3, NothingIs DEF Nothing
  <2>2. Watches => r.then \in Guards /\ p \in Guards /\ InUse(r.then)
    BY <1>2, <2>1 DEF InCall
  <2>3. InUse(r.then) => InUse(r.then)'
    BY <1>1 DEF InUse, Holds
  <2>4. QED
    BY <1>1, <2>2, <2>3 DEF Watches
<1>7. InPlan(steps)'
  BY <1>1, <1>4, <1>5, <1>6, LeavesCall
<1>8. QED
  BY <1>1, <1>7 DEF Kept, Where, Watches

LEMMA ReturnsBadKeeps ==
    ASSUME Kept, ReturnsBad
    PROVE  Kept'
<1>1. /\ steps # <<>> /\ Now.do = "refuse" /\ steps' = AfterCall
      /\ hosted' = hosted /\ process' = process /\ ending' = ending
      /\ registered' = registered /\ held' = held
  BY DEF ReturnsBad, Does, Nothing, hostVars, pointerVars, processVars
<1>2. PICK b \in Bodies, r \in Results, p \in Plans : steps = b \o (<<r>> \o p) /\ InCall(b, r, p)
  BY <1>1, OnlyInCall DEF Kept
<1>3. steps' = r.else \o p
  BY <1>1, <1>2, CallSide
<1>4. b \notin Seq(CreatedSteps)
  <2>1. b # <<>>
    BY <1>1, <1>2, NextInCall, NoReturns
  <2>2. QED
    BY <1>1, <1>2, <2>1, NextInCall, CreatedForms
<1>5. r.else \in Plans
  BY DEF Results
<1>6. Watches' => r.else \in Guards /\ p \in Guards /\ InUse(r.else)'
  <2>1. Watches => r.else \in Guards /\ p \in Guards /\ InUse(Nothing)
    BY <1>2, <1>4 DEF InCall
  <2>2. InUse(Nothing) => InUse(r.else)'
    BY <1>1 DEF InUse, Holds, Nothing
  <2>3. QED
    BY <1>1, <2>1, <2>2 DEF Watches
<1>7. InPlan(steps)'
  BY <1>3, <1>5, <1>6, LeavesCall
<1>8. QED
  BY <1>1, <1>7 DEF Kept, Where, Watches

LEMMA ExitsKeeps ==
    ASSUME Kept, Exits
    PROVE  Kept'
<1>1. /\ steps # <<>> /\ Now.do = "exit" /\ steps' = Nothing
      /\ hosted' = hosted /\ process' = process /\ ending' = ending
      /\ registered' = registered /\ held' = held
  BY DEF Exits, Does, Nothing, hostVars, pointerVars, processVars
<1>2. InPlan(steps)
  BY <1>1, OnlyInPlan DEF Kept
<1>3. Now # Found
  BY <1>1 DEF Found, Plain, Step
<1>4. Watches => InUse(Nothing)'
  BY <1>1, <1>2, <1>3 DEF InPlan, InUse, Holds, Nothing, Now
<1>5. InPlan(steps)'
  BY <1>1, <1>4, NothingIs DEF InPlan, Watches, InUse
<1>6. QED
  BY <1>1, <1>5 DEF Kept, Where, Watches

LEMMA TerminatesKeeps ==
    ASSUME Kept, Terminates
    PROVE  Kept'
<1>1. /\ steps # <<>> /\ Now.do = "terminate" /\ steps' = Nothing \o Tail(steps)
      /\ hosted' = hosted /\ registered' = registered
  BY DEF Terminates, Does, Continues, Nothing, hostVars, pointerVars, processVars
<1>2. InPlan(steps)
  BY <1>1, OnlyInPlan DEF Kept
<1>3. /\ Tail(steps) \in Plans
      /\ Watches => Now = Unwatch \/ Now \in Calm3
  BY <1>1, <1>2, NextInPlan
<1>4. ~Watches
  BY <1>1, <1>3, CalmForms, UnwatchIs
<1>5. steps' = Tail(steps)
  BY <1>1, <1>3, ConcatEmptySeq DEF Nothing, Plans
<1>6. InPlan(steps)'
  BY <1>1, <1>3, <1>4, <1>5 DEF InPlan, Watches
<1>7. QED
  BY <1>1, <1>4, <1>6 DEF Kept, Where, Watches

LEMMA CallBegins ==
    ASSUME NEW b \in Bodies, NEW then \in Plans, NEW else \in Plans, NEW p \in Plans
    PROVE  /\ Return(then, else) \in Results
           /\ Return(then, else).then = then /\ Return(then, else).else = else
           /\ (b \o <<Return(then, else)>>) \o p = b \o (<<Return(then, else)>> \o p)
<1> DEFINE r == Return(then, else)
<1>1. r \in Results /\ r.then = then /\ r.else = else
  BY DEF Results, Return, Step, Nothing
<1> HIDE DEF r
<1>2. b \in Seq(CallSteps) /\ r \in CallSteps /\ p \in Seq(CallSteps)
  BY <1>1, InCallIs
<1>3. <<r>> \in Seq(CallSteps)
  BY <1>2
<1>4. (b \o <<r>>) \o p = b \o (<<r>> \o p)
  BY <1>2, <1>3, ConcatAssociative
<1>5. QED
  BY <1>1, <1>4 DEF r

LEMMA RootStartsKeeps ==
    ASSUME Kept, RootStarts, hosted \in PluginNames, hosted \notin LeavesLate, process = 0 => ~ending
    PROVE  Kept'
<1> DEFINE b == Programs[hosted].Created
           then == <<Plain("found", Now.of)>> \o Now.then
           else == Now.else
           r == Return(then, else)
           p == Tail(steps)
<1>1. /\ steps # <<>> /\ Now.do = "root" /\ steps' = (b \o <<r>>) \o p
      /\ hosted' = hosted /\ ending' = ending /\ registered' = registered /\ held' = held
  BY DEF RootStarts, Does, Continues, Nothing, hostVars, pointerVars
<1>2. InPlan(steps)
  BY <1>1, OnlyInPlan DEF Kept
<1>3. /\ Now \in Plan3 /\ p \in Plans
      /\ Watches => Now = Unwatch \/ (Now \in Calm3 /\ p \in Guards)
  BY <1>1, <1>2, NextInPlan
<1>4. Now.of = "impl" /\ Now.then \in Plans /\ else \in Plans
  BY <1>1, <1>3, PlanForms
<1>5. Watches => Now.then \in Guards /\ else \in Guards /\ p \in Guards
  BY <1>1, <1>3, CalmForms, UnwatchIs
<1>6. b \in Seq(CreatedSteps) /\ b \in Bodies
  <2>1. b \in Seq(CreatedSteps)
    BY ProgramsKeepTheRules
  <2>2. CreatedSteps \subseteq Body2
    BY CreatedForms
  <2>3. QED
    BY <2>1, <2>2, SeqMonotonic DEF Bodies
<1>7. Found \in Plan3 /\ Found \in Calm3
  BY PlanOf, CalmOf
<1>8. then = <<Found>> \o Now.then
  BY <1>4 DEF Found
<1>9. then \in Plans /\ then # <<>> /\ Head(then) = Found
  BY <1>4, <1>7, <1>8, OneFirst DEF Plans
<1>10. Watches => then \in Guards
  <2>1. <<Found>> \in Guards
    BY <1>7, One, CalmIsAllowed
  <2>2. QED
    BY <1>5, <1>8, <2>1, GuardedTogether DEF Guards
<1> HIDE DEF b, then, else, p
<1>11. r \in Results /\ r.then = then /\ r.else = else /\ (b \o <<r>>) \o p = b \o (<<r>> \o p)
  BY <1>3, <1>4, <1>6, <1>9, CallBegins
<1> HIDE DEF r
<1>12. Watches => ~ending
  <2>1. Watches /\ process # 0 => ~ending
    BY <1>2 DEF InPlan, InUse
  <2>2. QED
    BY <2>1
<1>13. PICK c \in Bodies, s \in Results, q \in Plans : c = b /\ s = r /\ q = p
  BY <1>3, <1>6, <1>11
<1>14. InCall(c, s, q)'
  <2>1. Watches' => InUse(s.then)'
    <3>1. s.then # <<>> /\ Head(s.then) = Found
      BY <1>9, <1>11, <1>13
    <3>2. QED
      BY <1>1, <1>12, <3>1 DEF InUse, Watches
  <2>2. Watches' => s.then \in Guards /\ s.else \in Guards /\ q \in Guards
    BY <1>1, <1>5, <1>10, <1>11, <1>13 DEF Watches
  <2>3. c \in Seq(CreatedSteps)
    BY <1>6, <1>13
  <2>4. QED
    BY <2>1, <2>2, <2>3 DEF InCall
<1>15. steps' = c \o (<<s>> \o q)
  BY <1>1, <1>11, <1>13
<1>16. Where'
  BY <1>14, <1>15 DEF Where
<1>17. QED
  BY <1>1, <1>16 DEF Kept, Watches

\* A call that does not find the process dead.
LEMMA CallsKeeps ==
    ASSUME Kept, Calls, Alive
    PROVE  Kept'
<1> DEFINE b == Now.body
           r == Return(Now.then, Now.else)
           p == Tail(steps)
<1>1. /\ steps # <<>> /\ Now.do = "call" /\ steps' = (b \o <<r>>) \o p
      /\ hosted' = hosted /\ process' = process /\ ending' = ending
      /\ registered' = registered /\ held' = held
  BY DEF Calls, Does, Continues, Nothing, hostVars, pointerVars, processVars
<1>2. InPlan(steps)
  BY <1>1, OnlyInPlan DEF Kept
<1>3. /\ Now \in Plan3 /\ p \in Plans
      /\ Watches => Now = Unwatch \/ (Now \in Calm3 /\ p \in Guards)
  BY <1>1, <1>2, NextInPlan
<1>4. b \in Bodies /\ Now.then \in Plans /\ Now.else \in Plans
  BY <1>1, <1>3, PlanForms
<1>5. Watches => Now.then \in Guards /\ Now.else \in Guards /\ p \in Guards
  BY <1>1, <1>3, CalmForms, UnwatchIs
<1>6. Now # Found
  BY <1>1 DEF Found, Plain, Step
<1>7. r \in Results /\ r.then = Now.then /\ r.else = Now.else /\ (b \o <<r>>) \o p = b \o (<<r>> \o p)
  BY <1>3, <1>4, CallBegins
<1>8. PICK c \in Bodies, s \in Results, q \in Plans : c = b /\ s = r /\ q = p
  BY <1>3, <1>4, <1>7
<1>9. Watches' => InUse(Nothing)' /\ InUse(s.then)'
  <2>1. Watches => InUse(Nothing)
    BY <1>2, <1>6 DEF InPlan, InUse, Nothing, Now
  <2>2. InUse(Nothing) => InUse(Nothing)' /\ InUse(s.then)'
    BY <1>1 DEF InUse, Holds, Nothing
  <2>3. QED
    BY <1>1, <2>1, <2>2 DEF Watches
<1>10. Watches' => s.then \in Guards /\ s.else \in Guards /\ q \in Guards
  BY <1>1, <1>5, <1>7, <1>8 DEF Watches
<1>11. InCall(c, s, q)'
  BY <1>9, <1>10 DEF InCall
<1>12. steps' = c \o (<<s>> \o q)
  BY <1>1, <1>7, <1>8
<1>13. Where'
  BY <1>11, <1>12 DEF Where
<1>14. QED
  BY <1>1, <1>13 DEF Kept, Watches

-----------------------------------------------------------------------------
(* References and registrations.                                            *)

LEMMA Counted ==
    /\ \A B, x : BagToSet(BagAdd(B, x)) = BagToSet(B) \union {x}
    /\ \A B, x : BagToSet(B) \ {x} \subseteq BagToSet(BagRemove(B, x))
BY DEF BagToSet, BagAdd, BagRemove

LEMMA Sides ==
    /\ Side \in {"plugin", "implementation"}
    /\ ~IsInterface(<<"plugin", "service", "death">>)
    /\ IsInterface(<<"plugin", "impl">>)
    /\ \A x : LastOf(x) => Side = "plugin" /\ x \in Interfaces
BY DEF Side, IsInterface, Interfaces, LastOf, Mine

\* The implementation is let go of only while the plugin is not registered
\* or its process is dead.
LEMMA GivesBackLastKeeps ==
    ASSUME Kept, GivesBack, LastOf(Now.of), Alive, hosted \in PluginNames, hosted \notin LeavesLate
    PROVE  Kept'
<1> DEFINE b == Programs[hosted].Destroyed
           r == Return(Nothing, Nothing)
           p == Tail(steps)
<1>1. /\ steps # <<>> /\ Now.do \in {"release", "drop"} /\ steps' = (b \o <<r>>) \o p
      /\ hosted' = hosted /\ process' = process /\ ending' = ending
  BY DEF GivesBack, Does, Continues, Nothing, hostVars, processVars
<1>2. Watches' => Watches
  BY Sides DEF GivesBack, Watches
<1>3. Side = "plugin" /\ Now.of \in Interfaces
  BY Sides
<1>4. InPlan(steps)
  <2>1. ASSUME NEW n \in Seq(Pre), NEW g \in Guards, steps = n \o (<<Watch>> \o g)
        PROVE  FALSE
    <3>1. Now = Watch \/ Now \in Pre
      BY <2>1, NextBeforeWatch
    <3>2. CASE Now \in Pre
      <4>1. Now.do = "drop"
        BY <1>1, <3>2, PreForms
      <4>2. QED
        BY <1>3, <3>2, <4>1, PreForms
    <3>3. QED
      BY <1>1, <3>1, <3>2, WatchIs
  <2>2. ASSUME NEW c \in Bodies, NEW s \in Results, NEW q \in Plans, steps = c \o (<<s>> \o q)
        PROVE  FALSE
    BY <1>3, <2>2, CallSide
  <2>3. QED
    BY <2>1, <2>2 DEF Kept, Where
<1>5. /\ Now \in Plan3 /\ p \in Plans
      /\ Watches => Now = Unwatch \/ (Now \in Calm3 /\ p \in Guards)
  BY <1>1, <1>4, NextInPlan
<1>6. Watches => p \in Guards /\ Now.of # "impl"
  BY <1>1, <1>5, CalmForms, UnwatchIs
<1>7. Watches => process = 0
  <2>1. Now # Found
    BY <1>1 DEF Found, Plain, Step
  <2>2. Now.of # "impl" => ~Holds
    <3>1. ASSUME Holds, Now.of # "impl"
          PROVE  FALSE
      <4>1. <<"plugin", "impl">> = Mine(Now.of)
        BY <3>1, Sides DEF Holds, LastOf
      <4>2. QED
        BY <3>1, <4>1 DEF Mine
    <3>2. QED
      BY <3>1
  <2>3. QED
    BY <1>1, <1>4, <1>6, <2>1, <2>2 DEF InPlan, InUse, Now
<1>8. b \in Bodies
  BY ProgramsKeepTheRules
<1>9. r \in Results /\ r.then = Nothing /\ r.else = Nothing /\ (b \o <<r>>) \o p = b \o (<<r>> \o p)
  BY <1>5, <1>8, NothingIs, CallBegins
<1> HIDE DEF b, r, p
<1>10. PICK c \in Bodies, s \in Results, q \in Plans : c = b /\ s = r /\ q = p
  BY <1>5, <1>8, <1>9
<1>11. InCall(c, s, q)'
  <2>1. Watches' => process' = 0
    BY <1>1, <1>2, <1>7
  <2>2. Watches' => s.then \in Guards /\ s.else \in Guards /\ q \in Guards
    BY <1>2, <1>6, <1>9, <1>10, NothingIs
  <2>3. QED
    BY <2>1, <2>2 DEF InCall, InUse
<1>12. steps' = c \o (<<s>> \o q)
  BY <1>1, <1>9, <1>10
<1>13. Where'
  BY <1>11, <1>12 DEF Where
<1>14. QED
  BY <1>1, <1>2, <1>13 DEF Kept

-----------------------------------------------------------------------------
(* The other steps.                                                         *)

LEMMA QuietKeeps ==
    ASSUME Kept, steps # <<>>, Now.do # "return", Quiet, NEW x, steps' = x \o Tail(steps),
           x = Nothing \/ (Now.do \in BranchKinds /\ x \in {Now.then, Now.else})
    PROVE  Kept'
BY Goes DEF Kept, Quiet

Unchanged == hosted' = hosted /\ process' = process /\ ending' = ending

\* Only these steps change what is held and registered.
LEMMA QuietSteps ==
    /\ Unchanged /\ Now.do # "unregister" /\ Now.do # "found" /\ registered' = registered
    /\ BagToSet(held) \subseteq BagToSet(held)'
    => Quiet
<1>1. Now.do # "unregister" => Now # Unwatch
  BY UnwatchIs
<1>2. Now.do # "found" => Now # Found
  BY DEF Found, Plain, Step
<1>3. QED
  BY <1>1, <1>2 DEF Quiet, Unchanged, Watches, Holds

\* Most steps neither take a reference away nor change a registration.
LEMMA PlainStepsKeep ==
    ASSUME Kept,
           Keeps \/ Points \/ SetsNull \/ CountsOnce \/ RootFails \/ QueryFinds \/ QueryMisses
              \/ CallsignFinds \/ CallsignMisses \/ (Calls /\ ~Alive) \/ Tests \/ Fails \/ ClearsId
    PROVE  Kept'
<1> DEFINE Rest == steps # <<>> /\ Unchanged /\ registered' = registered
                   /\ BagToSet(held) \subseteq BagToSet(held)'
<1>1. ASSUME Keeps \/ Points \/ SetsNull \/ CountsOnce
      PROVE  Rest /\ Now.do \in {"keep", "point", "forget", "addRef"} /\ steps' = Nothing \o Tail(steps)
  BY <1>1, Counted
     DEF Keeps, Points, SetsNull, CountsOnce, Gains, Does, Continues, Nothing, Unchanged, hostVars, processVars
<1>2. ASSUME RootFails \/ QueryMisses \/ CallsignMisses \/ (Calls /\ ~Alive)
      PROVE  Rest /\ Now.do \in {"root", "query", "byCallsign", "call"} /\ steps' = Now.else \o Tail(steps)
  BY <1>2 DEF RootFails, QueryMisses, CallsignMisses, Calls, Does, Continues, Nothing, Unchanged,
              hostVars, pointerVars, processVars
<1>3. ASSUME QueryFinds \/ CallsignFinds
      PROVE  Rest /\ Now.do \in {"query", "byCallsign"} /\ steps' = Now.then \o Tail(steps)
  <2>1. /\ steps # <<>> /\ Unchanged /\ registered' = registered
        /\ Now.do \in {"query", "byCallsign"} /\ steps' = Now.then \o Tail(steps)
    BY <1>3 DEF QueryFinds, CallsignFinds, Does, Continues, Nothing, Unchanged, hostVars, processVars
  <2>2. held' = BagAdd(held, Mine(Now.of))
    BY <1>3 DEF QueryFinds, CallsignFinds, Gains
  <2>3. QED
    BY <2>1, <2>2, Counted
<1>4. ASSUME Tests
      PROVE  /\ Rest /\ Now.do \in {"if", "ifFailed", "sometimes"}
             /\ \E x \in {Now.then, Nothing} : steps' = x \o Tail(steps)
  BY <1>4 DEF Tests, Does, Continues, Nothing, Unchanged, hostVars, pointerVars, processVars
<1>5. ASSUME Fails \/ ClearsId
      PROVE  Rest /\ Now.do \in {"fail", "clearId"} /\ steps' = Nothing \o Tail(steps)
  BY <1>5 DEF Fails, ClearsId, Does, Continues, Nothing, Unchanged, hostVars, pointerVars, processVars
<1>6. PICK x : /\ Rest /\ steps' = x \o Tail(steps)
               /\ x = Nothing \/ (Now.do \in BranchKinds /\ x \in {Now.then, Now.else})
               /\ Now.do \notin {"unregister", "found", "return"}
  BY <1>1, <1>2, <1>3, <1>4, <1>5 DEF BranchKinds
<1>7. Quiet
  BY <1>6, QuietSteps
<1>8. QED
  BY <1>6, <1>7, QuietKeeps

\* A reference that is not the last, or whose process is dead.
LEMMA GivesBackOtherKeeps ==
    ASSUME Kept, GivesBack, ~(LastOf(Now.of) /\ Alive)
    PROVE  Kept'
<1>1. /\ steps # <<>> /\ Now.do \in {"release", "drop"} /\ steps' = Nothing \o Tail(steps)
      /\ hosted' = hosted /\ process' = process /\ ending' = ending
      /\ held' = BagRemove(held, Mine(Now.of))
  BY DEF GivesBack, Does, Continues, Nothing, hostVars, processVars
<1>2. Watches' => Watches
  BY Sides DEF GivesBack, Watches
<1>3. Holds => Holds' \/ (Side = "plugin" /\ Now.of = "impl")
  <2>1. Mine(Now.of) = <<"plugin", "impl">> => Side = "plugin" /\ Now.of = "impl"
    BY DEF Mine
  <2>2. Mine(Now.of) # <<"plugin", "impl">> => (Holds => Holds')
    BY <1>1, Counted DEF Holds
  <2>3. QED
    BY <2>1, <2>2
<1>4. Now # Unwatch /\ Now # Found
  BY <1>1, UnwatchIs DEF Found, Plain, Step
<1>5. Quiet
  BY <1>1, <1>2, <1>3, <1>4 DEF Quiet
<1>6. QED
  BY <1>1, <1>5, QuietKeeps

LEMMA RegistersKeeps ==
    ASSUME Kept, Registers
    PROVE  Kept'
<1>1. /\ steps # <<>> /\ Now.do = "register" /\ steps' = Nothing \o Tail(steps)
      /\ hosted' = hosted /\ process' = process /\ ending' = ending /\ held' = held
      /\ registered' \subseteq registered \union {<<Side, Now.of, Now.then[1]>>}
  BY DEF Registers, Does, Continues, Nothing, hostVars, processVars
<1>2. Watches' => Watches \/ (Side = "plugin" /\ Now.of = "service")
  BY <1>1 DEF Watches
<1>3. Now # Unwatch /\ Now # Found
  BY <1>1, UnwatchIs DEF Found, Plain, Step
<1>4. Quiet
  BY <1>1, <1>2, <1>3 DEF Quiet, Holds
<1>5. QED
  BY <1>1, <1>4, QuietKeeps

LEMMA UnregistersKeeps ==
    ASSUME Kept, Unregisters
    PROVE  Kept'
<1>1. /\ steps # <<>> /\ Now.do = "unregister" /\ steps' = Nothing \o Tail(steps)
      /\ hosted' = hosted /\ process' = process /\ ending' = ending /\ held' = held
      /\ registered' = registered \ {<<Side, Now.of, Now.then[1]>>}
  BY DEF Unregisters, Does, Continues, Nothing, hostVars, processVars
<1>2. Side = "plugin" /\ Now = Unwatch => ~Watches'
  BY <1>1, UnwatchIs DEF Watches
<1>3. (Watches' => Watches) /\ Now # Found
  BY <1>1 DEF Found, Plain, Step, Watches
<1>4. Quiet
  BY <1>1, <1>2, <1>3 DEF Quiet, Holds
<1>5. QED
  BY <1>1, <1>4, QuietKeeps

\* The reference to a new implementation.
LEMMA RootFindsKeeps ==
    ASSUME Kept, RootFinds
    PROVE  Kept'
<1>1. /\ steps # <<>> /\ Now.do = "found" /\ steps' = Nothing \o Tail(steps)
      /\ hosted' = hosted /\ process' = process /\ ending' = ending
      /\ registered' = registered /\ held' = BagAdd(held, Mine(Now.of))
  BY DEF RootFinds, Gains, Does, Continues, Nothing, hostVars, processVars
<1>2. BagToSet(held)' = BagToSet(held) \union {Mine(Now.of)}
  BY <1>1, Counted
<1>3. Side = "plugin" /\ Now = Found => Holds'
  BY <1>2 DEF Holds, Mine, Found, Plain, Step
<1>4. Now # Unwatch
  BY <1>1, UnwatchIs
<1>5. Quiet
  BY <1>1, <1>2, <1>3, <1>4 DEF Quiet, Watches, Holds
<1>6. QED
  BY <1>1, <1>5, QuietKeeps

\* What is undefined is not carried out any further.
LEMMA UnmovedKeeps ==
    ASSUME Kept, UNCHANGED <<hosted, steps, held, registered, process, ending>>
    PROVE  Kept'
<1>1. (Watches' <=> Watches) /\ (Holds' <=> Holds)
  BY DEF Watches, Holds
<1>2. InPlan(steps) => InPlan(steps)'
  BY <1>1 DEF InPlan, InUse
<1>3. \A b \in Bodies, r \in Results, p \in Plans : InCall(b, r, p) => InCall(b, r, p)'
  BY <1>1 DEF InCall, InUse
<1>4. \A n \in Seq(Pre), g \in Guards : BeforeWatch(n, g) => BeforeWatch(n, g)'
  BY <1>1 DEF BeforeWatch
<1>5. Where'
  BY <1>2, <1>3, <1>4 DEF Kept, Where
<1>6. QED
  BY <1>1, <1>5 DEF Kept

LEMMA StepsKeep ==
    ASSUME Kept, PluginStep, hosted \in PluginNames, hosted \notin LeavesLate, process = 0 => ~ending,
           ~InitializeEnds
    PROVE  Kept'
<1>1. CASE Misuses
  BY <1>1, UnmovedKeeps DEF Misuses, hostVars, processVars
<1>2. CASE DeinitializeEnds
  BY <1>2, UnmovedKeeps DEF DeinitializeEnds, hostVars, pointerVars, processVars
<1>3. CASE GivesBack
  BY <1>3, GivesBackLastKeeps, GivesBackOtherKeeps
<1>4. CASE Calls
  BY <1>4, CallsKeeps, PlainStepsKeep
<1>5. CASE Keeps \/ Points \/ SetsNull \/ CountsOnce \/ RootFails \/ QueryFinds \/ QueryMisses
              \/ CallsignFinds \/ CallsignMisses \/ Tests \/ Fails \/ ClearsId
  BY <1>5, PlainStepsKeep
<1>6. QED
  BY <1>1, <1>2, <1>3, <1>4, <1>5, RegistersKeeps, UnregistersKeeps, RootFindsKeeps, RootStartsKeeps,
     ReturnsGoodKeeps, ReturnsBadKeeps, ExitsKeeps, TerminatesKeeps DEF PluginStep

-----------------------------------------------------------------------------
(* The framework and the process.                                           *)

Framework ==
    /\ hosted \in PluginNames
    /\ stage \in {"up", "down"} => steps = Nothing
    /\ process = 0 => ~ending
    /\ ~apart => process = 0
    /\ activation \in Nat
    /\ activation = 0 => stage = "down"

LEMMA AnyDeinitialize ==
    ASSUME NEW h \in PluginNames, h \notin LeavesLate
    PROVE  Programs[h].Deinitialize \in Plans
BY ProgramsKeepTheRules, NothingIs

\* A function that has been carried out leaves nothing in the middle.
LEMMA AtTheEnd ==
    ASSUME Where, steps = Nothing
    PROVE  InPlan(Nothing)
<1>1. ASSUME NEW b \in Bodies, NEW r \in Results, NEW p \in Plans, steps = b \o (<<r>> \o p)
      PROVE  FALSE
  BY <1>1, NextInCall DEF Nothing
<1>2. ASSUME NEW n \in Seq(Pre), NEW g \in Guards, steps = n \o (<<Watch>> \o g)
      PROVE  FALSE
  BY <1>2, NextBeforeWatch DEF Nothing
<1>3. QED
  BY <1>1, <1>2 DEF Where

LEMMA DeinitializeBegins ==
    ASSUME Kept, steps = Nothing, hosted \in PluginNames, hosted \notin LeavesLate,
           steps' = Programs[hosted].Deinitialize,
           UNCHANGED <<hosted, held, registered, process, ending>>
    PROVE  Kept'
<1>1. InPlan(Nothing)
  BY AtTheEnd DEF Kept
<1>2. steps' \in Plans
  BY AnyDeinitialize
<1>3. Watches' => Watches
  BY DEF Watches
<1>4. Watches' => steps' \in Guards
  BY <1>3 DEF Kept
<1>5. Watches => InUse(steps)'
  BY <1>1 DEF InPlan, InUse, Holds, Nothing
<1>6. InPlan(steps)'
  BY <1>2, <1>3, <1>4, <1>5 DEF InPlan
<1>7. QED
  BY <1>3, <1>6 DEF Kept, Where

LEMMA ActivateKeeps ==
    ASSUME Activate, hosted \in PluginNames, hosted \notin LeavesLate
    PROVE  Kept'
<1>1. /\ process' = 0 /\ hosted' = hosted /\ ~Watches' /\ steps' = Programs[hosted].Initialize
  BY DEF Activate, Watches, hostVars, processVars
<1>2. CASE Programs[hosted].Initialize \in Plans
  <2>1. InPlan(steps)'
    BY <1>1, <1>2 DEF InPlan
  <2>2. QED
    BY <1>1, <2>1 DEF Kept, Where
<1>3. CASE Registering(Programs[hosted].Initialize) /\ Programs[hosted].Deinitialize \in Guards
  <2>1. PICK n \in Seq(Pre), g \in Guards : Programs[hosted].Initialize = n \o (<<Watch>> \o g)
    BY <1>3 DEF Registering
  <2>2. BeforeWatch(n, g)'
    BY <1>1, <1>3 DEF BeforeWatch
  <2>3. steps' = n \o (<<Watch>> \o g)
    BY <1>1, <2>1
  <2>4. Where'
    BY <2>2, <2>3 DEF Where
  <2>5. QED
    BY <1>1, <2>4 DEF Kept
<1>4. QED
  BY <1>2, <1>3, ProgramsKeepTheRules

LEMMA ProcessEndsKeeps ==
    ASSUME Kept, ProcessEnds
    PROVE  Kept'
<1>1. process' = 0 /\ hosted' = hosted /\ (Watches' => Watches)
  BY DEF ProcessEnds, Watches, hostVars
<1>2. CASE InPlan(steps)
  <2>1. steps' = steps
    BY <1>2, PluginSide DEF InPlan, ProcessEnds
  <2>2. InPlan(steps)'
    BY <1>1, <1>2, <2>1 DEF InPlan, InUse
  <2>3. QED
    BY <1>1, <2>2 DEF Kept, Where
<1>3. CASE \E b \in Bodies, r \in Results, p \in Plans : steps = b \o (<<r>> \o p) /\ InCall(b, r, p)
  <2>1. PICK b \in Bodies, r \in Results, p \in Plans : steps = b \o (<<r>> \o p) /\ InCall(b, r, p)
    BY <1>3
  <2>2. steps' = r.else \o p
    BY <2>1, CallSide DEF ProcessEnds
  <2>3. r.else \in Plans
    BY DEF Results
  <2>4. Watches' => r.else \in Guards /\ p \in Guards /\ InUse(r.else)'
    BY <1>1, <2>1 DEF InCall, InUse
  <2>5. InPlan(steps)'
    BY <2>2, <2>3, <2>4, LeavesCall
  <2>6. QED
    BY <1>1, <2>5 DEF Kept, Where
<1>4. CASE \E n \in Seq(Pre), g \in Guards : steps = n \o (<<Watch>> \o g) /\ BeforeWatch(n, g)
  <2>1. PICK n \in Seq(Pre), g \in Guards : steps = n \o (<<Watch>> \o g) /\ BeforeWatch(n, g)
    BY <1>4
  <2>2. steps' = steps
    BY <2>1, PluginSide DEF ProcessEnds
  <2>3. BeforeWatch(n, g)'
    BY <1>1, <2>1 DEF BeforeWatch
  <2>4. Where'
    BY <2>1, <2>2, <2>3 DEF Where
  <2>5. QED
    BY <1>1, <2>4 DEF Kept
<1>5. QED
  BY <1>2, <1>3, <1>4 DEF Kept, Where

\* A process that exits by itself is not watched any more.
LEMMA ExitsUnwatched ==
    ASSUME Kept, ProcessExits
    PROVE  ~Watches
<1>1. process # 0 /\ ~misused
  BY DEF ProcessExits
<1>2. ASSUME InPlan(steps), Watches
      PROVE  FALSE
  <2>1. ~ending /\ (Holds \/ (steps # <<>> /\ Head(steps) = Found))
    BY <1>1, <1>2 DEF InPlan, InUse
  <2>2. ~Does("found") /\ ~Holds
    BY <2>1, Sides DEF ProcessExits, Holds
  <2>3. steps # <<>> /\ Head(steps) = Found => Does("found")
    BY <1>1 DEF Does, Now, Nothing, Found, Plain, Step
  <2>4. QED
    BY <2>1, <2>2, <2>3
<1>3. ASSUME NEW b \in Bodies, NEW r \in Results, NEW p \in Plans, steps = b \o (<<r>> \o p),
             InCall(b, r, p), Watches
      PROVE  FALSE
  <2>1. ~ending
    BY <1>1, <1>3 DEF InCall, InUse
  <2>2. Side = "implementation"
    BY <1>3, CallSide
  <2>3. QED
    BY <2>1, <2>2 DEF ProcessExits
<1>4. ASSUME NEW n \in Seq(Pre), NEW g \in Guards, BeforeWatch(n, g)
      PROVE  ~Watches
  BY <1>4 DEF BeforeWatch
<1>5. QED
  BY <1>2, <1>3, <1>4 DEF Kept, Where

\* A process is told to end only while it lives, and something is left of a
\* function only while the framework is in it.
LEMMA FrameworkStays ==
    ASSUME Framework, [PluginNext]_pluginVars
    PROVE  Framework'
<1> USE DEF Framework
<1>1. ASSUME UNCHANGED <<hostVars, stage, activation, process, ending>>, steps # Nothing \/ steps' = steps
      PROVE  Framework'
  BY <1>1 DEF hostVars
<1>2. CASE Keeps \/ Points \/ SetsNull \/ CountsOnce \/ GivesBack \/ Registers \/ Unregisters
  BY <1>2, <1>1 DEF Keeps, Points, SetsNull, CountsOnce, GivesBack, Registers, Unregisters, Does, processVars
<1>3. CASE RootFails \/ RootFinds \/ QueryFinds \/ QueryMisses \/ CallsignFinds \/ CallsignMisses
  BY <1>3, <1>1
     DEF RootFails, RootFinds, QueryFinds, QueryMisses, CallsignFinds, CallsignMisses, Does, processVars
<1>4. CASE Calls \/ ReturnsGood \/ ReturnsBad \/ Tests \/ Fails \/ Exits \/ ClearsId
  BY <1>4, <1>1 DEF Calls, ReturnsGood, ReturnsBad, Tests, Fails, Exits, ClearsId, Does, processVars
<1>5. CASE Misuses
  BY <1>5, <1>1 DEF Misuses, processVars
<1>6. CASE RootStarts
  <2>1. /\ steps # Nothing /\ UNCHANGED <<hostVars, stage, activation, ending>>
        /\ process' = IF apart THEN activation ELSE 0
    BY <1>6 DEF RootStarts, Does
  <2>2. stage # "down" /\ activation # 0
    BY <2>1
  <2>3. QED
    BY <2>1, <2>2 DEF hostVars
<1>7. CASE Terminates
  <2>1. /\ steps # Nothing /\ UNCHANGED <<hostVars, stage, activation, process>>
        /\ ending' = (connectionId # 0 /\ process = connectionId)
    BY <1>7 DEF Terminates, Does
  <2>2. process = 0 => ~ending'
    BY <2>1
  <2>3. QED
    BY <2>1, <2>2 DEF hostVars
<1>8. CASE InitializeEnds \/ DeinitializeEnds
  BY <1>8 DEF InitializeEnds, DeinitializeEnds, hostVars, processVars
<1>9. CASE Activate
  BY <1>9 DEF Activate, hostVars, processVars
<1>10. CASE Deactivate \/ RunsSomeJob
  BY <1>10 DEF Deactivate, RunsSomeJob, RunsJob, hostVars, processVars
<1>11. CASE ProcessExits \/ Crash
  <2>1. /\ process' = 0 /\ ending' = FALSE /\ UNCHANGED <<hostVars, stage, activation>>
        /\ steps' = IF Side = "implementation" THEN AfterCall ELSE steps
    BY <1>11 DEF ProcessExits, Crash, ProcessEnds
  <2>2. steps = Nothing => Side = "plugin"
    BY PluginSide, NothingIs
  <2>3. steps = Nothing => steps' = Nothing
    BY <2>1, <2>2
  <2>4. QED
    BY <2>1, <2>3 DEF hostVars
<1>12. CASE UNCHANGED pluginVars
  BY <1>12 DEF pluginVars, hostVars, processVars
<1>13. QED
  BY <1>2, <1>3, <1>4, <1>5, <1>6, <1>7, <1>8, <1>9, <1>10, <1>11, <1>12 DEF PluginNext, PluginStep

LEMMA KeptStays ==
    ASSUME Framework, Kept, hosted \notin LeavesLate, [PluginNext]_pluginVars
    PROVE  Kept'
<1>1. hosted \in PluginNames /\ (process = 0 => ~ending)
  BY DEF Framework
<1>2. CASE PluginStep /\ ~InitializeEnds
  BY <1>1, <1>2, StepsKeep
<1>3. CASE InitializeEnds
  <2>1. /\ UNCHANGED <<hosted, held, registered, process, ending>> /\ steps = Nothing
        /\ steps' = steps \/ steps' = Programs[hosted].Deinitialize
    BY <1>3 DEF InitializeEnds, hostVars, pointerVars, processVars
  <2>2. CASE steps' = steps
    BY <2>1, <2>2, UnmovedKeeps
  <2>3. CASE steps' = Programs[hosted].Deinitialize
    BY <1>1, <2>1, <2>3, DeinitializeBegins
  <2>4. QED
    BY <2>1, <2>2, <2>3
<1>4. CASE Activate
  BY <1>1, <1>4, ActivateKeeps
<1>5. CASE Deactivate
  <2>1. /\ UNCHANGED <<hosted, held, registered, process, ending>> /\ steps = Nothing
        /\ steps' = Programs[hosted].Deinitialize
    BY <1>5 DEF Deactivate, Framework, hostVars, pointerVars, processVars
  <2>2. QED
    BY <1>1, <2>1, DeinitializeBegins
<1>6. CASE RunsSomeJob
  <2>1. /\ UNCHANGED <<hosted, held, registered, process, ending>>
        /\ \/ steps' = steps
           \/ steps = Nothing /\ steps' = Programs[hosted].Deinitialize
    BY <1>6 DEF RunsSomeJob, RunsJob, Framework, hostVars, pointerVars
  <2>2. CASE steps' = steps
    BY <2>1, <2>2, UnmovedKeeps
  <2>3. CASE steps = Nothing /\ steps' = Programs[hosted].Deinitialize
    BY <1>1, <2>1, <2>3, DeinitializeBegins
  <2>4. QED
    BY <2>1, <2>2, <2>3
<1>7. CASE ProcessExits \/ Crash
  BY <1>7, ProcessEndsKeeps DEF ProcessExits, Crash
<1>8. CASE UNCHANGED pluginVars
  BY <1>8, UnmovedKeeps DEF pluginVars, hostVars, pointerVars, processVars
<1>9. QED
  BY <1>2, <1>3, <1>4, <1>5, <1>6, <1>7, <1>8 DEF PluginNext

\* The plugin is the same throughout.
LEMMA HostStays ==
    ASSUME [PluginNext]_pluginVars
    PROVE  hosted' = hosted
BY DEF PluginNext, PluginStep, Keeps, Points, SetsNull, CountsOnce, GivesBack, Registers, Unregisters, Misuses,
       RootStarts, RootFails, RootFinds, QueryFinds, QueryMisses, CallsignFinds, CallsignMisses, Calls,
       ReturnsGood, ReturnsBad, Tests, Fails, Exits, Terminates, ClearsId, InitializeEnds, DeinitializeEnds,
       RunsSomeJob, RunsJob, Activate, Deactivate, ProcessExits, Crash, ProcessEnds, pluginVars, hostVars

\* Whatever ends without a crash submits nothing.
LEMMA JobsStay ==
    ASSUME hosted \notin LeavesLate => Kept, JobsTellCrashes, [PluginNext]_pluginVars
    PROVE  JobsTellCrashes'
<1>1. hosted' = hosted
  BY HostStays
<1>2. CASE PluginStep \/ Activate \/ Deactivate \/ UNCHANGED pluginVars
  <2>1. jobs' = jobs /\ deaths' = deaths
    BY <1>2
       DEF PluginStep, Keeps, Points, SetsNull, CountsOnce, GivesBack, Registers, Unregisters, Misuses,
           RootStarts, RootFails, RootFinds, QueryFinds, QueryMisses, CallsignFinds, CallsignMisses, Calls,
           ReturnsGood, ReturnsBad, Tests, Fails, Exits, Terminates, ClearsId, InitializeEnds,
           DeinitializeEnds, Activate, Deactivate, pluginVars, processVars
  <2>2. QED
    BY <1>1, <2>1 DEF JobsTellCrashes
<1>3. CASE RunsSomeJob
  <2>1. jobs' \subseteq jobs /\ deaths' = deaths
    BY <1>3 DEF RunsSomeJob, RunsJob
  <2>2. QED
    BY <1>1, <2>1 DEF JobsTellCrashes
<1>4. CASE ProcessExits
  <2>1. hosted \notin LeavesLate => Deactivated = {}
    BY <1>4, ExitsUnwatched DEF Deactivated, Watches
  <2>2. jobs' = jobs \union Deactivated /\ deaths' = deaths
    BY <1>4 DEF ProcessExits, ProcessEnds
  <2>3. QED
    BY <1>1, <2>1, <2>2 DEF JobsTellCrashes
<1>5. CASE Crash
  <2>1. Deactivated \subseteq {activation}
    BY DEF Deactivated
  <2>2. jobs' = jobs \union Deactivated /\ deaths' = deaths \union {<<activation, stage>>}
    BY <1>5 DEF Crash, ProcessEnds
  <2>3. <<activation, stage>>[1] = activation
    OBVIOUS
  <2>4. QED
    BY <1>1, <2>1, <2>2, <2>3 DEF JobsTellCrashes
<1>6. QED
  BY <1>2, <1>3, <1>4, <1>5 DEF PluginNext

\* Only a crash submits a deactivation (Notification::Deactivated of every
\* plugin that leaves the notification before it lets go of its
\* implementation): the end of the process that Deinitialize brings about
\* finds the plugin no longer registered.
THEOREM CrashesTold == PluginSpec => []JobsTellCrashes
<1> DEFINE Inv == Framework /\ (hosted \notin LeavesLate => Kept) /\ JobsTellCrashes
<1>1. PluginInit => Inv
  <2> SUFFICES ASSUME PluginInit PROVE Inv
    OBVIOUS
  <2>1. Framework
    BY DEF PluginInit, Framework
  <2>2. InPlan(steps) /\ ~Watches
    BY NothingIs DEF PluginInit, InPlan, Watches
  <2>3. JobsTellCrashes
    BY DEF PluginInit, JobsTellCrashes
  <2>4. QED
    BY <2>1, <2>2, <2>3 DEF Kept, Where
<1>2. Inv /\ [PluginNext]_pluginVars => Inv'
  <2> SUFFICES ASSUME Inv, [PluginNext]_pluginVars PROVE Inv'
    OBVIOUS
  <2>1. Framework' /\ JobsTellCrashes'
    BY FrameworkStays, JobsStay
  <2>2. hosted' = hosted
    BY HostStays
  <2>3. hosted' \notin LeavesLate => Kept'
    BY <2>2, KeptStays
  <2>4. QED
    BY <2>1, <2>3
<1>3. Inv => JobsTellCrashes
  OBVIOUS
<1>4. QED
  BY <1>1, <1>2, <1>3, PTL DEF PluginSpec
=============================================================================
