---------------------------- MODULE RDKShell_proofs ----------------------------
(***************************************************************************)
(* LaunchBarsDestroy and AtRestAllAgree for every number of callers and of *)
(* applications, as long as one launch and one destroy of an application   *)
(* are under way at a time (RsOneEach).                                    *)
(*                                                                         *)
(* The marks of launches and of destroys are disjoint, since each is set   *)
(* only where the other is not, and a call has its mark from its check to  *)
(* its end.  That the mark is still there rests on the place a call has    *)
(* reached telling what call it is, also when a handler or the render      *)
(* thread moves it on: they find it where they expect it.                  *)
(*                                                                         *)
(* At rest the records agree because of what each of them tells while      *)
(* something is under way: entries and listeners tell how far a change of  *)
(* the plugin has come, and a display without an active plugin belongs to  *)
(* a launch that is still to make it or to a change that is still to take  *)
(* it away.  For the latter a launch that has found no display must find   *)
(* its plugin unchanged until it has it activated (NewWaits).              *)
(*                                                                         *)
(* ClientsAreHeard of RDKWindowManager, whose render thread serves what    *)
(* RDKShell and others ask of it, is at the end.                           *)
(***************************************************************************)
EXTENDS RDKShell, WindowManager, TLAPS

LaunchPlaces  == {"finding", "cloning", "looking", "pushing", "waiting", "configuring",
                  "arranging", "setting", "finishing"}
DestroyPlaces == {"locking", "unlocking", "erasing"}
JobPlaces     == {"submitted", "inJob"}
Starting      == {"initialize", "pushing", "waiting", "created", "starting"}
Stopping      == {"deactivated", "deinitialize", "killing", "killed", "forgotten"}

Calls == [at : LaunchPlaces \cup DestroyPlaces \cup JobPlaces \cup {"idle", "suspending"},
          op : {"none", "launch", "destroy", "suspend"}, app : RsApps \cup {Nobody},
          suspend : BOOLEAN, launchType : {"unknown", "create", "activate"}, retried : BOOLEAN]
Changes == [at : Starting \cup Stopping \cup {"none"}, by : RsCallers \cup {Nobody}]

ShellTypes ==
    /\ call \in [RsCallers -> Calls]
    /\ change \in [RsApps -> Changes]
    /\ thunder \in [RsApps -> {"absent", "deactivated", "activation", "activated", "deactivation"}]

\* The place a call has reached tells what call it is.
CallOK(k) ==
    /\ k.at \in LaunchPlaces => k.op = "launch"
    /\ k.at \in DestroyPlaces => k.op = "destroy"
    /\ k.at \in JobPlaces => k.op \in {"launch", "destroy"}
    /\ k.at = "suspending" => k.op = "suspend"
    /\ IF k.at = "idle" THEN k.op = "none" ELSE k.app \in RsApps
PlacesTell == \A c \in RsCallers : CallOK(call[c])

\* Whose change it is waits in its job, and a plugin at rest has no change.
ChangeOK(a, ch) ==
    /\ ch.at # "none" /\ ch.by \in RsCallers =>
          call[ch.by].at = "inJob" /\ App(ch.by) = a
    /\ ch.at \in Starting => ch.by \in RsCallers /\ call[ch.by].op = "launch"
    /\ thunder[a] \in {"absent", "deactivated", "activated"} => ch.at = "none"
JobsWait == \A a \in RsApps : ChangeOK(a, change[a])

\* Who waits for the render thread is where it expects it.
RequestsWait ==
    /\ createRequests \subseteq RsCallers \cup RsApps
    /\ killRequests \subseteq RsApps
    /\ \A c \in RsCallers \cap createRequests : Doing(c, "waiting")
    /\ \A a \in RsApps : /\ a \in createRequests => Changing(a, "waiting")
                         /\ a \in killRequests => Changing(a, "killing")

\* What a call is, whatever place it has reached.
Is(c, op, a) == call[c].op = op /\ App(c) = a

MarksTell ==
    /\ gLaunchApplications \cap gDestroyApplications = {}
    /\ \A c \in RsCallers, a \in RsApps :
          /\ Is(c, "launch", a) => a \in gLaunchApplications
          /\ Is(c, "destroy", a) => a \in gDestroyApplications
    /\ \A a \in RsApps :
          /\ a \in gLaunchApplications => \E c \in RsCallers : Is(c, "launch", a)
          /\ a \in gDestroyApplications => \E c \in RsCallers : Is(c, "destroy", a)
    /\ \A c, d \in RsCallers, a \in RsApps, op \in {"launch", "destroy"} :
          Is(c, op, a) /\ Is(d, op, a) => c = d

ControlInv == ShellTypes /\ PlacesTell /\ JobsWait /\ RequestsWait
MarkInv == RsOneEach /\ ControlInv /\ MarksTell

USE DEF Doing, GoesTo, App, Changing, ChangesTo

\* Steps that move one call from one place to another, of the same kind.
LEMMA CallMoves ==
    ASSUME ControlInv, NEW c \in RsCallers, NEW k \in Calls,
           call' = [call EXCEPT ![c] = k], CallOK(k),
           call[c].at # "inJob", k.at # "inJob", call[c].at # "waiting",
           UNCHANGED <<change, killRequests>>,
           createRequests' = createRequests \/ (createRequests' = createRequests \cup {c} /\ k.at = "waiting"),
           thunder' = thunder \/ (/\ thunder' \in [RsApps -> {"absent", "deactivated"} \cup {thunder[a] : a \in RsApps}]
                                  /\ \A a \in RsApps : thunder'[a] = thunder[a] \/ thunder[a] = "absent")
    PROVE  ControlInv'
<1>1. ShellTypes'
  BY DEF ControlInv, ShellTypes
<1>2. PlacesTell'
  BY DEF ControlInv, ShellTypes, PlacesTell, CallOK
<1>3. ASSUME NEW a \in RsApps  PROVE ChangeOK(a, change[a])'
  <2>1. ChangeOK(a, change[a]) /\ change' = change
    BY DEF ControlInv, JobsWait
  <2>2. thunder'[a] = thunder[a] \/ thunder[a] = "absent"
    OBVIOUS
  <2>3. \A d \in RsCallers : call[d].at = "inJob" => call'[d] = call[d]
    BY DEF ControlInv, ShellTypes
  <2>4. change[a].at # "none" => ~(thunder'[a] \in {"absent", "deactivated", "activated"})
    BY <2>1, <2>2 DEF ChangeOK
  <2>5. change[a].at \in Starting => change[a].at # "none"
    BY DEF Starting
  <2> QED BY <2>1, <2>3, <2>4, <2>5 DEF ChangeOK
<1>4. JobsWait'
  BY <1>3 DEF JobsWait
<1>5. RequestsWait'
  BY RDKShellAssumption DEF ControlInv, ShellTypes, RequestsWait
<1> QED BY <1>1, <1>2, <1>4, <1>5 DEF ControlInv

\* A handler goes on to its next part.
LEMMA ChangeMoves ==
    ASSUME ControlInv, NEW a \in RsApps, NEW p \in Starting \cup Stopping,
           change' = [change EXCEPT ![a].at = p],
           change[a].at \notin {"none", "waiting", "killing"},
           p \in Starting => change[a].at \in Starting,
           UNCHANGED <<thunder, call>>,
           createRequests' = createRequests \/ (createRequests' = createRequests \cup {a} /\ p = "waiting"),
           killRequests' = killRequests \/ (killRequests' = killRequests \cup {a} /\ p = "killing")
    PROVE  ControlInv'
<1>1. ShellTypes'
  BY DEF ControlInv, ShellTypes, Changes
<1>2. PlacesTell'
  BY DEF ControlInv, PlacesTell, CallOK
<1>3. ASSUME NEW b \in RsApps  PROVE ChangeOK(b, change[b])'
  <2>1. ChangeOK(b, change[b])
    BY DEF ControlInv, JobsWait
  <2>2. CASE b = a
    <3>1. change'[a].at = p /\ change'[a].by = change[a].by
      BY DEF ControlInv, ShellTypes, Changes
    <3> QED BY <2>1, <2>2, <3>1 DEF ChangeOK
  <2>3. CASE b # a
    <3>1. change'[b] = change[b]
      BY <2>3 DEF ControlInv, ShellTypes
    <3> QED BY <2>1, <3>1 DEF ChangeOK
  <2> QED BY <2>2, <2>3
<1>4. JobsWait'
  BY <1>3 DEF JobsWait
<1>5. RequestsWait'
  BY RDKShellAssumption DEF ControlInv, ShellTypes, Changes, RequestsWait
<1> QED BY <1>1, <1>2, <1>4, <1>5 DEF ControlInv

\* A plugin is activated or deactivated, by the job of call c or by another.
LEMMA ChangeBegins ==
    ASSUME ControlInv, NEW a \in RsApps, NEW t \in {"activation", "deactivation"}, NEW ch \in Changes,
           thunder[a] \in {"deactivated", "activated"},
           thunder' = [thunder EXCEPT ![a] = t],
           change' = [change EXCEPT ![a] = ch],
           ch.at \in {"initialize", "deactivated"},
           \/ call' = call /\ ch.by = Nobody /\ ch.at = "deactivated"
           \/ /\ ch.by \in RsCallers /\ call[ch.by].at = "submitted" /\ App(ch.by) = a
              /\ call' = [call EXCEPT ![ch.by].at = "inJob"]
              /\ ch.at = "initialize" => call[ch.by].op = "launch",
           UNCHANGED queueVars
    PROVE  ControlInv'
<1>1. ShellTypes'
  BY DEF ControlInv, ShellTypes, Calls, JobPlaces
<1>2. PlacesTell'
  BY DEF ControlInv, ShellTypes, Calls, PlacesTell, CallOK, JobPlaces, LaunchPlaces, DestroyPlaces
<1>3. \A c \in RsCallers : call[c].at = "inJob" => call'[c] = call[c]
  BY DEF ControlInv, ShellTypes
<1>4. change[a].at = "none"
  BY DEF ControlInv, JobsWait, ChangeOK
<1>5. ASSUME NEW b \in RsApps  PROVE ChangeOK(b, change[b])'
  <2>1. ChangeOK(b, change[b])
    BY DEF ControlInv, JobsWait
  <2>2. CASE b = a
    <3>1. change'[a] = ch /\ thunder'[a] = t
      BY DEF ControlInv, ShellTypes
    <3>2. ch.by \in RsCallers =>
             call'[ch.by].at = "inJob" /\ call'[ch.by].app = a /\ call'[ch.by].op = call[ch.by].op
      BY RDKShellAssumption DEF ControlInv, ShellTypes, Calls
    <3>3. ch.at \in Starting => ch.at = "initialize"
      BY DEF Starting
    <3> QED BY <2>2, <3>1, <3>2, <3>3, RDKShellAssumption DEF ChangeOK
  <2>3. CASE b # a
    <3>1. change'[b] = change[b] /\ thunder'[b] = thunder[b]
      BY <2>3 DEF ControlInv, ShellTypes
    <3>2. change[b].at \in Starting => change[b].at # "none"
      BY DEF Starting
    <3> QED BY <1>3, <2>1, <3>1, <3>2 DEF ChangeOK
  <2> QED BY <2>2, <2>3
<1>6. JobsWait'
  BY <1>5 DEF JobsWait
<1>7. RequestsWait'
  BY <1>4 DEF ControlInv, ShellTypes, Calls, RequestsWait, queueVars
<1> QED BY <1>1, <1>2, <1>6, <1>7 DEF ControlInv

\* A change ends, and the call whose job it was goes on.
LEMMA ChangeEnds ==
    ASSUME ControlInv, NEW a \in RsApps, NEW t \in {"activated", "deactivated"},
           thunder' = [thunder EXCEPT ![a] = t],
           change' = [change EXCEPT ![a] = NoChange],
           change[a].at \notin {"none", "waiting", "killing"},
           \/ call' = call /\ change[a].by \notin RsCallers
           \/ /\ change[a].by \in RsCallers
              /\ \E k \in Calls : CallOK(k) /\ call' = [call EXCEPT ![change[a].by] = k],
           UNCHANGED queueVars
    PROVE  ControlInv'
<1>1. ShellTypes'
  BY DEF ControlInv, ShellTypes, NoChange, Changes
<1>2. PlacesTell'
  BY DEF ControlInv, ShellTypes, PlacesTell, CallOK
<1>3. change'[a] = NoChange /\ NoChange.at = "none"
  BY DEF ControlInv, ShellTypes, NoChange
<1>4. ASSUME NEW b \in RsApps  PROVE ChangeOK(b, change[b])'
  <2>1. ChangeOK(b, change[b]) /\ ChangeOK(a, change[a])
    BY DEF ControlInv, JobsWait
  <2>2. CASE b = a
    BY <1>3, <2>2 DEF ChangeOK, Starting
  <2>3. CASE b # a
    <3>1. change'[b] = change[b] /\ thunder'[b] = thunder[b]
      BY <2>3 DEF ControlInv, ShellTypes
    <3>2. change[b].at # "none" /\ change[b].by \in RsCallers => change[b].by # change[a].by
      BY <2>1, <2>3 DEF ChangeOK
    <3>3. change[b].at # "none" /\ change[b].by \in RsCallers => call'[change[b].by] = call[change[b].by]
      BY <3>2 DEF ControlInv, ShellTypes
    <3>4. change[b].at \in Starting => change[b].at # "none"
      BY DEF Starting
    <3> QED BY <2>1, <3>1, <3>3, <3>4 DEF ChangeOK
  <2> QED BY <2>2, <2>3
<1>5. JobsWait'
  BY <1>4 DEF JobsWait
<1>6. \A c \in RsCallers : Doing(c, "waiting") => call'[c] = call[c]
  BY DEF ControlInv, ShellTypes, JobsWait, ChangeOK
<1>7. RequestsWait'
  BY <1>3, <1>6 DEF ControlInv, ShellTypes, RequestsWait, queueVars
<1> QED BY <1>1, <1>2, <1>5, <1>7 DEF ControlInv

Places == LaunchPlaces \cup DestroyPlaces \cup JobPlaces \cup {"idle", "suspending"}

\* A call goes on to a place of its kind.
LEMMA CallGoes ==
    ASSUME ControlInv, NEW c \in RsCallers, NEW p \in Places \ {"idle", "inJob"}, GoesTo(c, p),
           call[c].at \notin {"idle", "inJob", "waiting"},
           CallOK([call[c] EXCEPT !.at = p]),
           UNCHANGED <<change, thunder, killRequests>>,
           createRequests' = createRequests \/ (createRequests' = createRequests \cup {c} /\ p = "waiting")
    PROVE  ControlInv'
<1> DEFINE k == [call[c] EXCEPT !.at = p]
<1>1. k \in Calls /\ k.at = p
  BY DEF ControlInv, ShellTypes, Calls, Places
<1>2. call' = [call EXCEPT ![c] = k]
  BY DEF ControlInv, ShellTypes
<1> HIDE DEF k
<1> QED BY <1>1, <1>2, CallMoves DEF k

\* A call ends.
LEMMA CallEnds ==
    ASSUME ControlInv, NEW c \in RsCallers, Ends(c),
           call[c].at \notin {"idle", "inJob", "waiting"},
           UNCHANGED <<change, thunder, queueVars>>
    PROVE  ControlInv'
<1>1. NoCall \in Calls /\ CallOK(NoCall) /\ NoCall.at = "idle"
  BY DEF NoCall, Calls, CallOK, LaunchPlaces, DestroyPlaces, JobPlaces
<1> QED BY <1>1, CallMoves DEF Ends, queueVars

\* A call begins.
LEMMA CallBegins ==
    ASSUME ControlInv, NEW c \in RsCallers, NEW a \in RsApps, NEW suspend \in BOOLEAN,
           NEW op \in {"launch", "destroy", "suspend"},
           NEW p \in {"finding", "locking", "suspending"}, Begins(c, op, a, suspend, p),
           p = "finding" => op = "launch", p = "locking" => op = "destroy", p = "suspending" => op = "suspend",
           UNCHANGED <<change, thunder, queueVars>>
    PROVE  ControlInv'
<1> DEFINE k == [NoCall EXCEPT !.at = p, !.op = op, !.app = a, !.suspend = suspend]
<1>1. k \in Calls /\ CallOK(k) /\ k.at = p
  BY DEF NoCall, Calls, CallOK, LaunchPlaces, DestroyPlaces, JobPlaces
<1>2. call' = [call EXCEPT ![c] = k] /\ call[c].at = "idle"
  BY DEF Begins
<1> HIDE DEF k
<1> QED BY <1>1, <1>2, CallMoves DEF queueVars

\* The steps of a call.
LEMMA CallStep ==
    ASSUME ControlInv, NEW c \in RsCallers, ShellStep(c)
    PROVE  ControlInv'
<1> USE DEF CallOK, Places, LaunchPlaces, DestroyPlaces, JobPlaces
<1>0. call \in [RsCallers -> Calls] /\ call[c] \in Calls /\ CallOK(call[c])
  BY DEF ControlInv, ShellTypes, PlacesTell
<1>1. CASE FindsPlugin(c)
  <2> DEFINE k(found) == [call[c] EXCEPT !.at = IF found THEN "configuring" ELSE "cloning",
                                         !.launchType = IF found THEN "unknown" ELSE "create"]
  <2>1. PICK found \in BOOLEAN : call' = [call EXCEPT ![c] = k(found)]
    BY <1>0, <1>1 DEF FindsPlugin
  <2>2. k(found) \in Calls /\ CallOK(k(found)) /\ k(found).at \in {"configuring", "cloning"}
    BY <1>0, <1>1 DEF FindsPlugin, Calls
  <2>3. call[c].at = "finding" /\ UNCHANGED <<change, thunder, createRequests, killRequests>>
    BY <1>1 DEF FindsPlugin, queueVars
  <2> HIDE DEF k
  <2> QED BY <2>1, <2>2, <2>3, CallMoves
<1>2. CASE FindsNoType(c)
  BY <1>2, CallEnds DEF FindsNoType
<1>3. CASE Clones(c)
  <2> DEFINE k == [call[c] EXCEPT !.at = "looking"]
  <2>1. call' = [call EXCEPT ![c] = k] /\ call[c].at = "cloning"
        /\ UNCHANGED <<change, createRequests, killRequests>>
    BY <1>0, <1>3 DEF Clones, queueVars
  <2>2. k \in Calls /\ CallOK(k) /\ k.at = "looking"
    BY <1>0, <1>3 DEF Clones, Calls
  <2>3. thunder' = thunder \/ (thunder[App(c)] = "absent" /\ thunder' = [thunder EXCEPT ![App(c)] = "deactivated"])
    BY <1>3 DEF Clones
  <2>4. thunder' = thunder \/ (/\ thunder' \in [RsApps -> {"absent", "deactivated"} \cup {thunder[a] : a \in RsApps}]
                               /\ \A a \in RsApps : thunder'[a] = thunder[a] \/ thunder[a] = "absent")
    BY <2>3 DEF ControlInv, ShellTypes
  <2> HIDE DEF k
  <2> QED BY <2>1, <2>2, <2>4, CallMoves
<1>4. CASE LooksForDisplay(c)
  <2>1. PICK p \in {"configuring", "pushing"} : GoesTo(c, p)
    BY <1>4 DEF LooksForDisplay
  <2>2. /\ call[c].at = "looking" /\ UNCHANGED <<change, thunder, createRequests, killRequests>>
        /\ CallOK([call[c] EXCEPT !.at = p])
    BY <1>0, <1>4 DEF LooksForDisplay, queueVars, Calls
  <2> QED BY <2>1, <2>2, CallGoes
<1>5. CASE PushesDisplay(c)
  BY <1>0, <1>5, CallGoes DEF PushesDisplay, Calls
<1>6. CASE Configures(c)
  <2> DEFINE k == IF call[c].launchType # "create" /\ thunder[App(c)] \in {"activation", "activated"}
                  THEN [call[c] EXCEPT !.at = "arranging"]
                  ELSE [call[c] EXCEPT !.at = "submitted",
                                       !.launchType = IF @ = "create" THEN "create" ELSE "activate"]
  <2>1. call' = [call EXCEPT ![c] = k] /\ call[c].at = "configuring"
        /\ UNCHANGED <<change, thunder, createRequests, killRequests>>
    BY <1>0, <1>6 DEF Configures, queueVars
  <2>2. k \in Calls /\ CallOK(k) /\ k.at \in {"arranging", "submitted"}
    BY <1>0, <1>6 DEF Configures, Calls
  <2> HIDE DEF k
  <2> QED BY <2>1, <2>2, CallMoves
<1>7. CASE ActivateJob(c)
  <2>1. CASE thunder[App(c)] = "deactivated"
    <3> DEFINE ch == [at |-> "initialize", by |-> c]
    <3>1. ch \in Changes /\ ch.at = "initialize" /\ ch.by = c
      BY DEF Changes, Starting
    <3>2. /\ App(c) \in RsApps /\ call[c].at = "submitted" /\ call[c].op = "launch"
          /\ thunder' = [thunder EXCEPT ![App(c)] = "activation"]
          /\ change' = [change EXCEPT ![App(c)] = ch]
          /\ call' = [call EXCEPT ![c].at = "inJob"] /\ UNCHANGED queueVars
      BY <1>0, <1>7, <2>1 DEF ActivateJob
    <3> HIDE DEF ch
    <3> QED BY <2>1, <3>1, <3>2, ChangeBegins
  <2>2. CASE thunder[App(c)] # "deactivated"
    <3> DEFINE k == IF thunder[App(c)] = "activated" THEN [call[c] EXCEPT !.at = "arranging"]
                    ELSE AfterFailure(call[c])
    <3>1. /\ call' = [call EXCEPT ![c] = k] /\ call[c].at = "submitted" /\ call[c].op = "launch"
          /\ UNCHANGED <<change, thunder, createRequests, killRequests>>
      BY <1>0, <1>7, <2>2 DEF ActivateJob, queueVars
    <3>2. k \in Calls /\ CallOK(k) /\ k.at \in {"arranging", "finishing", "submitted"}
      BY <1>0, <3>1 DEF Calls, AfterFailure
    <3> HIDE DEF k
    <3> QED BY <3>1, <3>2, CallMoves
  <2> QED BY <2>1, <2>2
<1>8. CASE Arranges(c)
  BY <1>0, <1>8, CallGoes DEF Arranges, queueVars, Calls
<1>9. CASE SetsState(c)
  BY <1>0, <1>9, CallGoes DEF SetsState, queueVars, Calls
<1>10. CASE LaunchEnds(c)
  BY <1>10, CallEnds DEF LaunchEnds
<1>11. CASE DestroyLocks(c)
  BY <1>0, <1>11, CallGoes DEF DestroyLocks, queueVars, Calls
<1>12. CASE DeactivateJob(c)
  <2>1. CASE thunder[App(c)] = "activated"
    <3> DEFINE ch == [at |-> "deactivated", by |-> c]
    <3>1. ch \in Changes /\ ch.at = "deactivated" /\ ch.by = c
      BY DEF Changes, Stopping
    <3>2. /\ App(c) \in RsApps /\ call[c].at = "submitted"
          /\ thunder' = [thunder EXCEPT ![App(c)] = "deactivation"]
          /\ change' = [change EXCEPT ![App(c)] = ch]
          /\ call' = [call EXCEPT ![c].at = "inJob"] /\ UNCHANGED queueVars
      BY <1>0, <1>12, <2>1 DEF DeactivateJob
    <3> HIDE DEF ch
    <3> QED BY <2>1, <3>1, <3>2, ChangeBegins
  <2>2. CASE thunder[App(c)] # "activated"
    BY <1>0, <1>12, <2>2, CallGoes DEF DeactivateJob, queueVars, Calls
  <2> QED BY <2>1, <2>2
<1>13. CASE DestroyUnlocks(c)
  BY <1>0, <1>13, CallGoes DEF DestroyUnlocks, queueVars, Calls
<1>14. CASE DestroyEnds(c)
  BY <1>14, CallEnds DEF DestroyEnds
<1>15. CASE Suspends(c)
  BY <1>15, CallEnds DEF Suspends
<1> QED BY <1>1, <1>2, <1>3, <1>4, <1>5, <1>6, <1>7, <1>8, <1>9, <1>10, <1>11, <1>12, <1>13, <1>14,
           <1>15 DEF ShellStep

\* The handlers of MonitorClients, and Thunder's own part of a change.
LEMMA ChangeGoes ==
    ASSUME ControlInv, NEW a \in RsApps, GoesOutside(a) \/ ChangeStep(a)
    PROVE  ControlInv'
<1> USE DEF Starting, Stopping
<1>0. /\ change[a] \in Changes /\ ChangeOK(a, change[a])
      /\ call \in [RsCallers -> Calls] /\ change \in [RsApps -> Changes]
  BY DEF ControlInv, ShellTypes, JobsWait
<1>1. CASE GoesOutside(a)
  <2> DEFINE ch == [at |-> "deactivated", by |-> Nobody]
  <2>1. ch \in Changes /\ ch.at = "deactivated" /\ ch.by = Nobody
    BY DEF Changes
  <2>2. /\ thunder[a] = "activated" /\ thunder' = [thunder EXCEPT ![a] = "deactivation"]
        /\ change' = [change EXCEPT ![a] = ch] /\ call' = call /\ UNCHANGED queueVars
    BY <1>1 DEF GoesOutside
  <2> HIDE DEF ch
  <2> QED BY <2>1, <2>2, ChangeBegins
<1>2. CASE InitializeLooks(a)
  <2>1. PICK p \in {"created", "pushing"} : ChangesTo(a, p)
    BY <1>2 DEF InitializeLooks
  <2>2. change[a].at = "initialize" /\ UNCHANGED <<thunder, call, createRequests, killRequests>>
    BY <1>2 DEF InitializeLooks, queueVars
  <2> QED BY <2>1, <2>2, ChangeMoves
<1>3. CASE InitializePushes(a)
  BY <1>3, ChangeMoves DEF InitializePushes
<1>4. CASE InitializeRegisters(a)
  BY <1>4, ChangeMoves DEF InitializeRegisters, queueVars
<1>5. CASE PluginStarts(a)
  <2> DEFINE c == change[a].by
             k == [call[c] EXCEPT !.at = "arranging"]
  <2>1. c \in RsCallers /\ call[c].op = "launch" /\ App(c) = a
    BY <1>0, <1>5 DEF PluginStarts, ChangeOK
  <2>2. k \in Calls /\ CallOK(k)
    BY <1>0, <2>1 DEF Calls, CallOK, LaunchPlaces, DestroyPlaces, JobPlaces
  <2>3. call' = [call EXCEPT ![change[a].by] = k]
    BY <1>0, <1>5, <2>1 DEF PluginStarts
  <2>4. /\ change[a].at = "starting" /\ thunder' = [thunder EXCEPT ![a] = "activated"]
        /\ change' = [change EXCEPT ![a] = NoChange] /\ UNCHANGED queueVars
    BY <1>5 DEF PluginStarts
  <2> HIDE DEF k
  <2> QED BY <2>1, <2>2, <2>3, <2>4, ChangeEnds
<1>6. CASE PluginFails(a)
  BY <1>6, ChangeMoves DEF PluginFails, queueVars
<1>7. CASE handleDeactivated(a)
  BY <1>7, ChangeMoves DEF handleDeactivated, queueVars
<1>8. CASE DeinitializePushes(a)
  BY <1>8, ChangeMoves DEF DeinitializePushes
<1>9. CASE DeinitializeForgets(a)
  BY <1>9, ChangeMoves DEF DeinitializeForgets, queueVars
<1>10. CASE PluginGone(a)
  <2> DEFINE c == change[a].by
             k == IF call[c].op = "launch" THEN AfterFailure(call[c])
                                           ELSE [call[c] EXCEPT !.at = "unlocking"]
  <2>1. /\ change[a].at = "forgotten" /\ thunder' = [thunder EXCEPT ![a] = "deactivated"]
        /\ change' = [change EXCEPT ![a] = NoChange] /\ UNCHANGED queueVars
    BY <1>10 DEF PluginGone
  <2>2. CASE c = Nobody
    <3>1. call' = call /\ c \notin RsCallers
      BY <1>10, <2>2, RDKShellAssumption DEF PluginGone
    <3> QED BY <2>1, <3>1, ChangeEnds
  <2>3. CASE c # Nobody
    <3>1. c \in RsCallers /\ call[c].at = "inJob" /\ App(c) = a
      BY <1>0, <2>1, <2>3 DEF Changes, ChangeOK
    <3>2. call[c] \in Calls /\ call[c].op \in {"launch", "destroy"} /\ CallOK(call[c])
      BY <1>0, <3>1 DEF ControlInv, PlacesTell, CallOK, JobPlaces
    <3>3. k \in Calls /\ CallOK(k)
      BY <3>1, <3>2 DEF Calls, CallOK, AfterFailure, LaunchPlaces, DestroyPlaces, JobPlaces
    <3>4. call' = [call EXCEPT ![change[a].by] = k]
      BY <1>0, <1>10, <2>3, <3>1 DEF PluginGone
    <3> HIDE DEF k
    <3> QED BY <2>1, <3>1, <3>3, <3>4, ChangeEnds
  <2> QED BY <2>2, <2>3
<1> QED BY <1>1, <1>2, <1>3, <1>4, <1>5, <1>6, <1>7, <1>8, <1>9, <1>10 DEF ChangeStep

\* The render thread answers whoever waits for it, and nobody else.
LEMMA FrameAnswers ==
    ASSUME ControlInv, ShellFrame
    PROVE  ControlInv'
<1>0. /\ call \in [RsCallers -> Calls] /\ change \in [RsApps -> Changes]
      /\ createRequests' = {} /\ killRequests' = {} /\ thunder' = thunder
  BY DEF ControlInv, ShellTypes, ShellFrame
<1>1. ASSUME NEW c \in RsCallers
      PROVE  \/ call'[c] = call[c]
             \/ Doing(c, "waiting") /\ call'[c] = [call[c] EXCEPT !.at = "configuring"]
  BY DEF ShellFrame, ControlInv, RequestsWait
<1>2. ASSUME NEW a \in RsApps
      PROVE  \/ change'[a] = change[a]
             \/ Changing(a, "waiting") /\ change'[a] = [change[a] EXCEPT !.at = "created"]
             \/ Changing(a, "killing") /\ change'[a] = [change[a] EXCEPT !.at = "killed"]
  <2>1. change'[a] = Answers[a]
    BY DEF ShellFrame
  <2> QED BY <2>1 DEF Answers, ControlInv, RequestsWait
<1>3. ASSUME NEW c \in RsCallers  PROVE call'[c] \in Calls /\ CallOK(call'[c])
  <2>1. call[c] \in Calls /\ CallOK(call[c])
    BY <1>0 DEF ControlInv, PlacesTell
  <2>2. ASSUME Doing(c, "waiting")
        PROVE  [call[c] EXCEPT !.at = "configuring"] \in Calls
               /\ CallOK([call[c] EXCEPT !.at = "configuring"])
    BY <2>1, <2>2 DEF Calls, CallOK, LaunchPlaces, DestroyPlaces, JobPlaces
  <2> QED BY <1>1, <2>1, <2>2
<1>4. ASSUME NEW a \in RsApps  PROVE change'[a] \in Changes
  BY <1>0, <1>2 DEF Changes, Starting, Stopping
<1>5. ShellTypes'
  <2>1. call' \in [RsCallers -> Calls]
    BY <1>3 DEF ShellFrame
  <2>2. change' \in [RsApps -> Changes]
    BY <1>4 DEF ShellFrame, Answers
  <2> QED BY <1>0, <2>1, <2>2 DEF ControlInv, ShellTypes
<1>6. ASSUME NEW a \in RsApps  PROVE ChangeOK(a, change[a])'
  <2>1. ChangeOK(a, change[a])
    BY DEF ControlInv, JobsWait
  <2>2. \A c \in RsCallers : call[c].at = "inJob" => call'[c] = call[c]
    BY <1>1
  <2>3. \A c \in RsCallers : call'[c].op = call[c].op /\ (call[c].at = "inJob" => call'[c] = call[c])
    BY <1>0, <1>1 DEF Calls
  <2>4. /\ change'[a].by = change[a].by
        /\ change'[a].at = "none" <=> change[a].at = "none"
        /\ change'[a].at \in Starting => change[a].at \in Starting
    BY <1>0, <1>2 DEF Changes, Starting, Stopping
  <2>5. change[a].at \in Starting => change[a].at # "none"
    BY DEF Starting
  <2> QED BY <1>0, <2>1, <2>3, <2>4, <2>5 DEF ChangeOK
<1>7. PlacesTell' /\ JobsWait'
  BY <1>3, <1>6 DEF PlacesTell, JobsWait
<1>8. RequestsWait'
  BY <1>0 DEF RequestsWait
<1> QED BY <1>5, <1>7, <1>8 DEF ControlInv

\* Every step leaves the control as the parts expect it.
LEMMA ControlKept ==
    ASSUME ControlInv, [ShellNext]_shellVars
    PROVE  ControlInv'
<1>1. ASSUME NEW c \in RsCallers, NEW a \in RsApps, NEW suspend \in BOOLEAN, LaunchBegins(c, a, suspend)
      PROVE  ControlInv'
  BY <1>1, CallBegins DEF LaunchBegins
<1>2. ASSUME NEW c \in RsCallers, NEW a \in RsApps, DestroyBegins(c, a)
      PROVE  ControlInv'
  BY <1>2, CallBegins DEF DestroyBegins
<1>3. ASSUME NEW c \in RsCallers, NEW a \in RsApps, SuspendBegins(c, a)
      PROVE  ControlInv'
  BY <1>3, CallBegins DEF SuspendBegins
<1>4. CASE UNCHANGED shellVars
  <2>1. UNCHANGED <<call, change, thunder, createRequests, killRequests>>
    BY <1>4 DEF shellVars, queueVars
  <2> QED BY <2>1 DEF ControlInv, ShellTypes, PlacesTell, JobsWait, ChangeOK, RequestsWait
<1> QED BY <1>1, <1>2, <1>3, <1>4, CallStep, ChangeGoes, FrameAnswers DEF ShellNext

-----------------------------------------------------------------------------
(* The marks. *)

\* A step that changes neither what the calls are nor the marks.
LEMMA KindsKept ==
    ASSUME MarksTell, UNCHANGED <<gLaunchApplications, gDestroyApplications>>,
           \A c \in RsCallers : call'[c].op = call[c].op /\ call'[c].app = App(c)
    PROVE  MarksTell'
  BY DEF MarksTell, Is

\* A call that ends takes its mark, which no other call has.
LEMMA MarkEnds ==
    ASSUME MarksTell, call \in [RsCallers -> Calls], NEW c \in RsCallers, Ends(c), NEW a \in RsApps,
           \/ /\ Is(c, "launch", a)
              /\ gLaunchApplications' = gLaunchApplications \ {a}
              /\ gDestroyApplications' = gDestroyApplications
           \/ /\ Is(c, "destroy", a)
              /\ gDestroyApplications' = gDestroyApplications \ {a}
              /\ gLaunchApplications' = gLaunchApplications
           \/ /\ Is(c, "suspend", a)
              /\ UNCHANGED <<gLaunchApplications, gDestroyApplications>>
    PROVE  MarksTell'
<1>1. /\ call'[c] = NoCall /\ NoCall.op = "none"
      /\ \A d \in RsCallers : d # c => call'[d] = call[d]
  BY DEF Ends, NoCall
<1>2. gLaunchApplications' \cap gDestroyApplications' = {}
  BY DEF MarksTell
<1>3. ASSUME NEW d \in RsCallers, NEW b \in RsApps, NEW op \in {"launch", "destroy"}, Is(d, op, b)'
      PROVE  d # c /\ Is(d, op, b)
  BY <1>1, <1>3 DEF Is
<1>4. ASSUME NEW d \in RsCallers, NEW b \in RsApps, Is(d, "launch", b)'
      PROVE  b \in gLaunchApplications'
  <2>1. d # c /\ Is(d, "launch", b) /\ b \in gLaunchApplications
    BY <1>3, <1>4 DEF MarksTell
  <2>2. Is(c, "launch", a) => a # b
    BY <2>1 DEF MarksTell
  <2> QED BY <2>1, <2>2
<1>5. ASSUME NEW d \in RsCallers, NEW b \in RsApps, Is(d, "destroy", b)'
      PROVE  b \in gDestroyApplications'
  <2>1. d # c /\ Is(d, "destroy", b) /\ b \in gDestroyApplications
    BY <1>3, <1>5 DEF MarksTell
  <2>2. Is(c, "destroy", a) => a # b
    BY <2>1 DEF MarksTell
  <2> QED BY <2>1, <2>2
<1>6. ASSUME NEW d \in RsCallers, NEW e \in RsCallers, NEW b \in RsApps, NEW op \in {"launch", "destroy"},
             Is(d, op, b)', Is(e, op, b)'
      PROVE  d = e
  BY <1>3, <1>6 DEF MarksTell
<1>7. ASSUME NEW b \in RsApps
      PROVE  /\ b \in gLaunchApplications' => \E d \in RsCallers : Is(d, "launch", b)'
             /\ b \in gDestroyApplications' => \E d \in RsCallers : Is(d, "destroy", b)'
  <2>1. ASSUME b \in gLaunchApplications'
        PROVE  \E d \in RsCallers : Is(d, "launch", b)'
    <3>1. PICK d \in RsCallers : Is(d, "launch", b)
      BY <2>1 DEF MarksTell
    <3>2. d # c
      BY <2>1, <3>1 DEF Is
    <3> QED BY <1>1, <3>1, <3>2 DEF Is
  <2>2. ASSUME b \in gDestroyApplications'
        PROVE  \E d \in RsCallers : Is(d, "destroy", b)'
    <3>1. PICK d \in RsCallers : Is(d, "destroy", b)
      BY <2>2 DEF MarksTell
    <3>2. d # c
      BY <2>2, <3>1 DEF Is
    <3> QED BY <1>1, <3>1, <3>2 DEF Is
  <2> QED BY <2>1, <2>2
<1> QED BY <1>2, <1>4, <1>5, <1>6, <1>7 DEF MarksTell

\* A call that begins sets its mark where the other is not.
LEMMA MarkBegins ==
    ASSUME MarksTell, RsOneEach, PlacesTell, call \in [RsCallers -> Calls], NEW c \in RsCallers, NEW a \in RsApps,
           NEW op \in {"launch", "destroy", "suspend"}, NEW p, NEW suspend, Begins(c, op, a, suspend, p),
           \/ /\ op = "launch" /\ a \notin gDestroyApplications
              /\ gLaunchApplications' = gLaunchApplications \cup {a}
              /\ gDestroyApplications' = gDestroyApplications
           \/ /\ op = "destroy" /\ a \notin gLaunchApplications
              /\ gDestroyApplications' = gDestroyApplications \cup {a}
              /\ gLaunchApplications' = gLaunchApplications
           \/ op = "suspend" /\ UNCHANGED <<gLaunchApplications, gDestroyApplications>>
    PROVE  MarksTell'
<1>1. /\ call'[c].op = op /\ call'[c].app = a
      /\ \A d \in RsCallers : d # c => call'[d] = call[d]
  BY DEF Begins, NoCall
<1>2. \A d \in RsCallers : ~Is(d, op, a)
  BY DEF Begins, InProgress, Is
<1>3. ASSUME NEW d \in RsCallers, NEW b \in RsApps, NEW o, Is(d, o, b)'
      PROVE  (d = c /\ o = op /\ b = a) \/ (d # c /\ Is(d, o, b))
  BY <1>1, <1>3 DEF Is
<1>4. gLaunchApplications' \cap gDestroyApplications' = {}
  BY DEF MarksTell
<1>5. ASSUME NEW d \in RsCallers, NEW b \in RsApps
      PROVE  /\ Is(d, "launch", b)' => b \in gLaunchApplications'
             /\ Is(d, "destroy", b)' => b \in gDestroyApplications'
  <2>1. /\ Is(d, "launch", b) => b \in gLaunchApplications
        /\ Is(d, "destroy", b) => b \in gDestroyApplications
    BY DEF MarksTell
  <2> QED BY <1>3, <2>1
<1>6. ASSUME NEW d \in RsCallers, NEW e \in RsCallers, NEW b \in RsApps, NEW o \in {"launch", "destroy"},
             Is(d, o, b)', Is(e, o, b)'
      PROVE  d = e
  <2>1. Is(d, o, b) /\ Is(e, o, b) => d = e
    BY DEF MarksTell
  <2> QED BY <1>2, <1>3, <1>6, <2>1
<1>7. ASSUME NEW b \in RsApps, NEW o \in {"launch", "destroy"}, NEW d \in RsCallers, Is(d, o, b)
      PROVE  Is(d, o, b)'
  BY <1>1, <1>7 DEF Begins, NoCall, Is, PlacesTell, CallOK
<1>8. ASSUME NEW b \in RsApps
      PROVE  /\ b \in gLaunchApplications' => \E d \in RsCallers : Is(d, "launch", b)'
             /\ b \in gDestroyApplications' => \E d \in RsCallers : Is(d, "destroy", b)'
  <2>1. Is(c, op, a)'
    BY <1>1 DEF Is
  <2>2. /\ b \in gLaunchApplications => \E d \in RsCallers : Is(d, "launch", b)'
        /\ b \in gDestroyApplications => \E d \in RsCallers : Is(d, "destroy", b)'
    BY <1>7 DEF MarksTell
  <2> QED BY <2>1, <2>2
<1> QED BY <1>4, <1>5, <1>6, <1>8 DEF MarksTell

\* The steps of a call keep the marks, or end it.
LEMMA CallMarks ==
    ASSUME ControlInv, MarksTell, NEW c \in RsCallers, ShellStep(c)
    PROVE  MarksTell'
<1>0. call \in [RsCallers -> Calls] /\ call[c] \in Calls /\ CallOK(call[c])
  BY DEF ControlInv, ShellTypes, PlacesTell
<1>1. ASSUME NEW k \in Calls, call' = [call EXCEPT ![c] = k], k.op = call[c].op, k.app = App(c),
             UNCHANGED <<gLaunchApplications, gDestroyApplications>>
      PROVE  MarksTell'
  BY <1>0, <1>1, KindsKept
<1>2. ASSUME NEW p \in Places, GoesTo(c, p), UNCHANGED marks
      PROVE  MarksTell'
  <2>1. call' = [call EXCEPT ![c] = [call[c] EXCEPT !.at = p]]
    BY <1>0, <1>2
  <2>2. [call[c] EXCEPT !.at = p] \in Calls
    BY <1>0 DEF Calls, Places
  <2> QED BY <1>0, <1>1, <1>2, <2>1, <2>2 DEF Calls, marks
<1> USE DEF Places, LaunchPlaces, DestroyPlaces, JobPlaces
<1>3. CASE FindsPlugin(c)
  <2>1. PICK found \in BOOLEAN :
           call' = [call EXCEPT ![c] = [call[c] EXCEPT !.at = IF found THEN "configuring" ELSE "cloning",
                                                       !.launchType = IF found THEN "unknown" ELSE "create"]]
    BY <1>0, <1>3 DEF FindsPlugin
  <2> QED BY <1>0, <1>1, <1>3, <2>1 DEF FindsPlugin, marks, Calls
<1>4. CASE FindsNoType(c)
  BY <1>0, <1>4, MarkEnds DEF FindsNoType, CallOK, Is
<1>5. CASE Clones(c) \/ PushesDisplay(c) \/ Arranges(c) \/ SetsState(c) \/ DestroyLocks(c) \/ DestroyUnlocks(c)
  BY <1>2, <1>5 DEF Clones, PushesDisplay, Arranges, SetsState, DestroyLocks, DestroyUnlocks
<1>6. CASE LooksForDisplay(c)
  <2>1. PICK p \in {"configuring", "pushing"} : GoesTo(c, p)
    BY <1>6 DEF LooksForDisplay
  <2> QED BY <1>2, <1>6, <2>1 DEF LooksForDisplay
<1>7. CASE Configures(c)
  <2>1. PICK type \in {"unknown", "create", "activate"}, p \in {"arranging", "submitted"} :
           call' = [call EXCEPT ![c] = [call[c] EXCEPT !.at = p, !.launchType = type]]
    BY <1>0, <1>7 DEF Configures, Calls
  <2> QED BY <1>0, <1>1, <1>7, <2>1 DEF Configures, marks, Calls
<1>8. CASE ActivateJob(c)
  <2>1. CASE thunder[App(c)] = "deactivated"
    BY <1>2, <1>8, <2>1 DEF ActivateJob
  <2>2. CASE thunder[App(c)] # "deactivated"
    <3> DEFINE k == IF thunder[App(c)] = "activated" THEN [call[c] EXCEPT !.at = "arranging"]
                    ELSE AfterFailure(call[c])
    <3>1. k \in Calls /\ k.op = call[c].op /\ k.app = App(c)
      BY <1>0 DEF AfterFailure, Calls
    <3>2. call' = [call EXCEPT ![c] = k]
      BY <1>0, <1>8, <2>2 DEF ActivateJob
    <3> HIDE DEF k
    <3> QED BY <1>1, <1>8, <3>1, <3>2 DEF ActivateJob, marks
  <2> QED BY <2>1, <2>2
<1>9. CASE LaunchEnds(c)
  BY <1>0, <1>9, MarkEnds DEF LaunchEnds, CallOK, Is
<1>10. CASE DeactivateJob(c)
  BY <1>2, <1>10 DEF DeactivateJob
<1>11. CASE DestroyEnds(c)
  BY <1>0, <1>11, MarkEnds DEF DestroyEnds, CallOK, Is
<1>12. CASE Suspends(c)
  BY <1>0, <1>12, MarkEnds DEF Suspends, CallOK, marks, Is
<1> QED BY <1>3, <1>4, <1>5, <1>6, <1>7, <1>8, <1>9, <1>10, <1>11, <1>12 DEF ShellStep

\* Handlers and the render thread move calls, whose marks stay.
LEMMA OthersKeepMarks ==
    ASSUME ControlInv, MarksTell, ShellFrame \/ \E a \in RsApps : GoesOutside(a) \/ ChangeStep(a)
    PROVE  MarksTell'
<1>0. call \in [RsCallers -> Calls]
  BY DEF ControlInv, ShellTypes
<1>1. CASE ShellFrame
  <2>1. \A c \in RsCallers : call'[c].op = call[c].op /\ call'[c].app = App(c)
    BY <1>0, <1>1 DEF ShellFrame, Calls
  <2> QED BY <1>1, <2>1, KindsKept DEF ShellFrame, marks
<1>2. ASSUME NEW a \in RsApps, PluginStarts(a)  PROVE MarksTell'
  <2>1. \A c \in RsCallers : call'[c].op = call[c].op /\ call'[c].app = App(c)
    BY <1>0, <1>2 DEF PluginStarts, Calls
  <2> QED BY <1>2, <2>1, KindsKept DEF PluginStarts, marks
<1>3. ASSUME NEW a \in RsApps, PluginGone(a)  PROVE MarksTell'
  <2>1. \A c \in RsCallers : call'[c].op = call[c].op /\ call'[c].app = App(c)
    BY <1>0, <1>3 DEF PluginGone, AfterFailure, Calls
  <2> QED BY <1>3, <2>1, KindsKept DEF PluginGone, marks
<1>4. ASSUME NEW a \in RsApps, GoesOutside(a) \/ (ChangeStep(a) /\ ~PluginStarts(a) /\ ~PluginGone(a))
      PROVE  MarksTell'
  <2>1. UNCHANGED <<call, gLaunchApplications, gDestroyApplications>>
    BY <1>4 DEF GoesOutside, ChangeStep, InitializeLooks, InitializePushes, InitializeRegisters,
                PluginFails, handleDeactivated, DeinitializePushes, DeinitializeForgets, marks
  <2> QED BY <2>1, KindsKept
<1> QED BY <1>1, <1>2, <1>3, <1>4

LEMMA MarksKept ==
    ASSUME MarkInv, [ShellNext]_shellVars
    PROVE  MarkInv'
<1> USE DEF MarkInv
<1>0. RsOneEach /\ ControlInv' /\ PlacesTell /\ call \in [RsCallers -> Calls]
  BY ControlKept DEF ControlInv, ShellTypes
<1>1. ASSUME NEW c \in RsCallers, NEW a \in RsApps, NEW suspend \in BOOLEAN, LaunchBegins(c, a, suspend)
      PROVE  MarksTell'
  BY <1>0, <1>1, MarkBegins DEF LaunchBegins
<1>2. ASSUME NEW c \in RsCallers, NEW a \in RsApps, DestroyBegins(c, a)
      PROVE  MarksTell'
  BY <1>0, <1>2, MarkBegins DEF DestroyBegins, Mark
<1>3. ASSUME NEW c \in RsCallers, NEW a \in RsApps, SuspendBegins(c, a)
      PROVE  MarksTell'
  BY <1>0, <1>3, MarkBegins DEF SuspendBegins, marks
<1>4. ASSUME UNCHANGED shellVars  PROVE MarksTell'
  BY <1>4, KindsKept DEF shellVars, marks
<1>5. MarksTell'
  BY <1>1, <1>2, <1>3, <1>4, CallMarks, OthersKeepMarks DEF ShellNext
<1> QED BY <1>0, <1>5

LEMMA MarksAtFirst ==
    ASSUME RsOneEach, ShellInit
    PROVE  MarkInv
<1>1. /\ NoCall \in Calls /\ CallOK(NoCall) /\ NoCall.op = "none"
      /\ NoChange \in Changes /\ NoChange.at = "none"
  BY DEF NoCall, Calls, CallOK, LaunchPlaces, DestroyPlaces, JobPlaces, NoChange, Changes
<1>2. ShellTypes /\ PlacesTell
  BY <1>1 DEF ShellInit, ShellTypes, PlacesTell
<1>3. JobsWait /\ RequestsWait
  BY <1>1 DEF ShellInit, JobsWait, ChangeOK, RequestsWait, Starting
<1>4. MarksTell
  BY <1>1 DEF ShellInit, MarksTell, Is
<1> QED BY <1>2, <1>3, <1>4 DEF MarkInv, ControlInv

\* A destroy is not under way together with a launch of its application:
\* launchWrapper and destroyWrapper each look for the other's mark and set
\* their own in one section, and keep it while they are under way.
THEOREM DestroyNeverUnderLaunch == RsOneEach /\ ShellSpec => []LaunchBarsDestroy
<1>1. RsOneEach /\ ShellInit => MarkInv
  BY MarksAtFirst
<1>2. MarkInv /\ [ShellNext]_shellVars => MarkInv'
  BY MarksKept
<1>3. MarkInv => LaunchBarsDestroy
  BY DEF MarkInv, MarksTell, Is, LaunchBarsDestroy, InProgress
<1> QED BY <1>1, <1>2, <1>3, PTL DEF ShellSpec

-----------------------------------------------------------------------------
(* AtRestAllAgree, for plugins whose type is not active itself and whose   *)
(* service can be cloned.                                                  *)

\* A plugin has its entry, and its listener unless that was denied, from its
\* registration until handleDeinitialized forgets it.
Registered == {"starting", "deactivated", "deinitialize", "killing", "killed"}
EntriesTell ==
    /\ \A a \in RsApps :
          /\ a \notin deniedListeners => (a \in shellListeners <=> a \in gActivePluginsData)
          /\ a \in gActivePluginsData <=> thunder[a] = "activated" \/ change[a].at \in Registered
          /\ a \in gExternalDestroyApplications => change[a].at \in {"deinitialize", "killing", "killed"}

\* A launch that found no plugin makes one, which nobody but it activates.
Makes == {"looking", "pushing", "waiting", "configuring", "submitted"}
New(c) == call[c].op = "launch" /\ call[c].launchType = "create" /\ ~call[c].retried
NewOK(c) ==
    /\ call[c].at = "finding" => ~call[c].retried
    /\ call[c].at \in {"cloning", "looking", "pushing", "waiting"} => New(c)
    /\ New(c) /\ call[c].at = "cloning" => thunder[App(c)] = "absent"
    /\ New(c) /\ call[c].at \in Makes => thunder[App(c)] = "deactivated"
NewWaits == \A c \in RsCallers : NewOK(c)

\* A plugin has its display while it is active, and without a plugin there
\* is one only where a new launch has made it, unless the compositor denied
\* what it was last asked.
Making(c, a) == New(c) /\ call[c].at \in Makes /\ App(c) = a
DisplayOK(a) ==
    /\ thunder[a] = "activated" \/ change[a].at \in {"created", "starting", "deactivated", "deinitialize"}
          => a \in shellDisplays
    /\ thunder[a] # "activated" /\ change[a].at \in {"none", "killed", "forgotten"} /\ a \in shellDisplays
          => \E c \in RsCallers : Making(c, a)
DisplaysTell == \A a \in RsApps \ deniedDisplays : DisplayOK(a)

FewFaults == RsFaults \subseteq {"type", "init", "display", "kill", "listener"}
RestInv == FewFaults /\ MarkInv /\ EntriesTell /\ NewWaits /\ DisplaysTell

\* The types and places, at hand for one application and one call.
LEMMA AtHand ==
    ASSUME MarkInv
    PROVE  /\ thunder \in [RsApps -> {"absent", "deactivated", "activation", "activated", "deactivation"}]
           /\ change \in [RsApps -> Changes] /\ call \in [RsCallers -> Calls]
           /\ \A a \in RsApps : ChangeOK(a, change[a])
           /\ \A c \in RsCallers : CallOK(call[c])
  BY DEF MarkInv, ControlInv, ShellTypes, JobsWait, PlacesTell

\* Nobody else changes the plugin a new launch is about to make.
LEMMA NewPluginStays ==
    ASSUME RestInv, ShellNext, NEW d \in RsCallers, New(d), call[d].at \in Makes \cup {"cloning"}
    PROVE  \/ thunder'[App(d)] = thunder[App(d)] /\ change'[App(d)] = change[App(d)]
           \/ Clones(d) \/ ActivateJob(d)
<1> DEFINE a == App(d)
<1>1. /\ a \in RsApps /\ thunder[a] \in {"absent", "deactivated"} /\ change[a].at = "none"
      /\ Is(d, "launch", a)
      /\ \A c \in RsCallers : Is(c, "launch", a) => c = d
  <2>1. a \in RsApps
    BY AtHand DEF RestInv, CallOK, Makes
  <2>2. thunder[a] \in {"absent", "deactivated"}
    BY DEF RestInv, NewWaits, NewOK
  <2> QED BY <2>1, <2>2, AtHand DEF RestInv, ChangeOK, MarkInv, MarksTell, Is, New
<1>2. thunder \in [RsApps -> {"absent", "deactivated", "activation", "activated", "deactivation"}]
      /\ change \in [RsApps -> Changes]
  BY AtHand DEF RestInv
<1>3. CASE UNCHANGED <<thunder, change>>
  BY <1>3
<1>4. ASSUME NEW c \in RsCallers, Clones(c)
      PROVE  c = d \/ (thunder'[a] = thunder[a] /\ change'[a] = change[a])
  <2>1. call[c].op = "launch"
    BY <1>4, AtHand DEF RestInv, Clones, CallOK, LaunchPlaces
  <2>2. App(c) = a => c = d
    BY <1>1, <2>1 DEF Is
  <2> QED BY <1>1, <1>2, <1>4, <2>2 DEF Clones
<1>5. ASSUME NEW c \in RsCallers, ActivateJob(c)
      PROVE  c = d \/ (thunder'[a] = thunder[a] /\ change'[a] = change[a])
  <2>1. App(c) = a => c = d
    BY <1>1, <1>5 DEF Is, ActivateJob
  <2> QED BY <1>1, <1>2, <1>5, <2>1 DEF ActivateJob
<1>6. ASSUME NEW c \in RsCallers, DeactivateJob(c)
      PROVE  thunder'[a] = thunder[a] /\ change'[a] = change[a]
  BY <1>1, <1>2, <1>6 DEF DeactivateJob
<1>7. ASSUME NEW b \in RsApps, GoesOutside(b) \/ ChangeStep(b)
      PROVE  thunder'[a] = thunder[a] /\ change'[a] = change[a]
  <2>1. b # a
    BY <1>1, <1>7 DEF GoesOutside, ChangeStep, InitializeLooks, InitializePushes, InitializeRegisters,
                      PluginStarts, PluginFails, handleDeactivated, DeinitializePushes, DeinitializeForgets,
                      PluginGone
  <2> QED BY <1>1, <1>2, <1>7, <2>1
          DEF GoesOutside, ChangeStep, InitializeLooks, InitializePushes, InitializeRegisters,
              PluginStarts, PluginFails, handleDeactivated, DeinitializePushes, DeinitializeForgets,
              PluginGone
<1>8. CASE ShellFrame
  <2>1. a \notin createRequests /\ a \notin killRequests
    BY <1>1 DEF RestInv, MarkInv, ControlInv, RequestsWait
  <2> QED BY <1>1, <1>8, <2>1 DEF ShellFrame, Answers
<1>9. ASSUME NEW c \in RsCallers, ShellStep(c), ~Clones(c), ~ActivateJob(c), ~DeactivateJob(c)
      PROVE  UNCHANGED <<thunder, change>>
  BY <1>9 DEF ShellStep, FindsPlugin, FindsNoType, LooksForDisplay, PushesDisplay, Configures, Arranges,
              SetsState, LaunchEnds, DestroyLocks, DestroyUnlocks, DestroyEnds, Suspends
<1>10. ASSUME NEW c \in RsCallers, NEW b \in RsApps,
              (\E suspend \in BOOLEAN : LaunchBegins(c, b, suspend)) \/ DestroyBegins(c, b) \/ SuspendBegins(c, b)
       PROVE  UNCHANGED <<thunder, change>>
  BY <1>10 DEF LaunchBegins, DestroyBegins, SuspendBegins
<1> QED BY <1>3, <1>4, <1>5, <1>6, <1>7, <1>8, <1>9, <1>10 DEF ShellNext

Started(c) == \E a \in RsApps : \/ \E suspend \in BOOLEAN : LaunchBegins(c, a, suspend)
                               \/ DestroyBegins(c, a) \/ SuspendBegins(c, a)

\* Who moves a call: itself, the change it waits for, or the render thread.
LEMMA CallMoved ==
    ASSUME RestInv, ShellNext, NEW d \in RsCallers
    PROVE  \/ call'[d] = call[d] \/ ShellStep(d) \/ Started(d)
           \/ call[d].at = "inJob"
           \/ ShellFrame /\ call[d].at = "waiting" /\ call'[d] = [call[d] EXCEPT !.at = "configuring"]
<1>0. call \in [RsCallers -> Calls] /\ \A a \in RsApps : ChangeOK(a, change[a])
  BY AtHand DEF RestInv
<1>1. ASSUME NEW c \in RsCallers, ShellStep(c), c # d  PROVE call'[d] = call[d]
  BY <1>0, <1>1 DEF ShellStep, FindsPlugin, FindsNoType, Clones, LooksForDisplay, PushesDisplay, Configures,
          ActivateJob, Arranges, SetsState, LaunchEnds, DestroyLocks, DeactivateJob, DestroyUnlocks, DestroyEnds,
          Suspends, Ends
<1>2. ASSUME NEW c \in RsCallers, Started(c), c # d  PROVE call'[d] = call[d]
  BY <1>0, <1>2 DEF Started, LaunchBegins, DestroyBegins, SuspendBegins, Begins
<1>3. ASSUME NEW a \in RsApps, GoesOutside(a) \/ ChangeStep(a)
      PROVE  call'[d] = call[d] \/ call[d].at = "inJob"
  <2>1. CASE PluginStarts(a) \/ PluginGone(a)
    <3>1. change[a].by = d => call[d].at = "inJob"
      BY <1>0, <2>1 DEF PluginStarts, PluginGone, ChangeOK
    <3>2. change[a].by # d => call'[d] = call[d]
      BY <1>0, <2>1 DEF PluginStarts, PluginGone
    <3> QED BY <3>1, <3>2
  <2>2. CASE ~(PluginStarts(a) \/ PluginGone(a))
    BY <1>3, <2>2 DEF GoesOutside, ChangeStep, InitializeLooks, InitializePushes, InitializeRegisters,
                      PluginFails, handleDeactivated, DeinitializePushes, DeinitializeForgets
  <2> QED BY <2>1, <2>2
<1>4. ASSUME ShellFrame
      PROVE  \/ call'[d] = call[d]
             \/ call[d].at = "waiting" /\ call'[d] = [call[d] EXCEPT !.at = "configuring"]
  BY <1>4 DEF ShellFrame, RestInv, MarkInv, ControlInv, RequestsWait
<1> QED BY <1>1, <1>2, <1>3, <1>4 DEF ShellNext, Started

\* What a step of its own makes of a call that is new, or finds it is.
LEMMA OwnStep ==
    ASSUME RestInv, NEW d \in RsCallers, ShellStep(d), call' \in [RsCallers -> Calls]
    PROVE  NewOK(d)'
<1>0. /\ call \in [RsCallers -> Calls] /\ CallOK(call[d]) /\ call[d] \in Calls /\ NewOK(d)
      /\ thunder \in [RsApps -> {"absent", "deactivated", "activation", "activated", "deactivation"}]
  BY AtHand DEF RestInv, NewWaits
<1> USE DEF NewOK, New, Makes
<1>1. CASE FindsPlugin(d)
  <2>1. /\ call[d].at = "finding" /\ ~call[d].retried /\ call[d].op = "launch" /\ thunder' = thunder
        /\ App(d) \in RsApps
    BY <1>0, <1>1 DEF FindsPlugin, CallOK, LaunchPlaces
  <2>2. \/ call' = [call EXCEPT ![d].at = "configuring", ![d].launchType = "unknown"]
        \/ call' = [call EXCEPT ![d].at = "cloning", ![d].launchType = "create"] /\ thunder[App(d)] = "absent"
    BY <1>1 DEF FindsPlugin, RestInv, FewFaults
  <2> QED BY <1>0, <2>1, <2>2 DEF Calls
<1>2. CASE FindsNoType(d) \/ LaunchEnds(d) \/ DestroyEnds(d) \/ Suspends(d)
  <2>1. call'[d] = NoCall
    BY <1>0, <1>2 DEF FindsNoType, LaunchEnds, DestroyEnds, Suspends, Ends
  <2> QED BY <2>1 DEF NoCall
<1>3. CASE Clones(d)
  <2>1. call' = [call EXCEPT ![d].at = "looking"] /\ New(d) /\ thunder[App(d)] = "absent" /\ App(d) \in RsApps
    BY <1>0, <1>3 DEF Clones, CallOK
  <2>2. thunder' = [thunder EXCEPT ![App(d)] = "deactivated"]
    BY <1>3, <2>1 DEF Clones, RestInv, FewFaults
  <2> QED BY <1>0, <2>1, <2>2 DEF Calls
<1>4. CASE LooksForDisplay(d) \/ PushesDisplay(d)
  BY <1>0, <1>4 DEF LooksForDisplay, PushesDisplay, Calls
<1>5. CASE Configures(d)
  <2>1. thunder' = thunder /\ call[d].at = "configuring"
    BY <1>5 DEF Configures
  <2>2. \/ call' = [call EXCEPT ![d].at = "arranging"]
        \/ /\ call' = [call EXCEPT ![d].at = "submitted", ![d].launchType = "create"]
           /\ call[d].launchType = "create"
        \/ call' = [call EXCEPT ![d].at = "submitted", ![d].launchType = "activate"]
    BY <1>0, <1>5 DEF Configures
  <2> QED BY <1>0, <2>1, <2>2 DEF Calls
<1>6. CASE ActivateJob(d)
  <2>1. \/ call'[d].at \in {"inJob", "arranging", "finishing"}
        \/ call'[d].at = "submitted" /\ call'[d].retried
    <3>1. CASE call' = [call EXCEPT ![d].at = "inJob"]
      BY <1>0, <3>1 DEF Calls
    <3>2. CASE call' = [call EXCEPT ![d] = [call[d] EXCEPT !.at = "arranging"]]
      BY <1>0, <3>2 DEF Calls
    <3>3. CASE call' = [call EXCEPT ![d] = AfterFailure(call[d])]
      BY <1>0, <3>3 DEF AfterFailure, Calls
    <3> QED BY <1>0, <1>6, <3>1, <3>2, <3>3 DEF ActivateJob
  <2> QED BY <2>1
<1>7. CASE DeactivateJob(d)
  BY <1>0, <1>7 DEF DeactivateJob, Calls
<1>8. CASE Arranges(d) \/ SetsState(d) \/ DestroyLocks(d) \/ DestroyUnlocks(d)
  <2>1. call[d].at \in {"locking", "unlocking"} => call[d].op # "launch"
    BY <1>0 DEF CallOK, DestroyPlaces
  <2> QED BY <1>0, <1>8, <2>1 DEF Arranges, SetsState, DestroyLocks, DestroyUnlocks, Calls
<1> QED BY <1>1, <1>2, <1>3, <1>4, <1>5, <1>6, <1>7, <1>8 DEF ShellStep

LEMMA NewWaitsKept ==
    ASSUME RestInv, ShellNext, NEW d \in RsCallers
    PROVE  NewOK(d)'
<1>0. /\ call \in [RsCallers -> Calls] /\ call' \in [RsCallers -> Calls] /\ NewOK(d)
      /\ \A a \in RsApps : ChangeOK(a, change[a])
  BY AtHand, MarksKept DEF RestInv, NewWaits, MarkInv, ControlInv, ShellTypes
<1>1. CASE ShellStep(d)
  BY <1>0, <1>1, OwnStep
<1>2. CASE Started(d)
  <2>1. PICK a \in RsApps, suspend \in BOOLEAN, op \in {"launch", "destroy", "suspend"},
             p \in {"finding", "locking", "suspending"} : Begins(d, op, a, suspend, p)
    BY <1>2 DEF Started, LaunchBegins, DestroyBegins, SuspendBegins
  <2>2. call'[d] = [NoCall EXCEPT !.at = p, !.op = op, !.app = a, !.suspend = suspend]
    BY <1>0, <2>1 DEF Begins
  <2>3. call'[d].at = p /\ call'[d].launchType = "unknown" /\ call'[d].retried = FALSE
    BY <2>2 DEF NoCall
  <2> QED BY <2>3 DEF NewOK, New, Makes
<1>3. CASE call[d].at = "inJob" /\ ~ShellStep(d)
  <2>1. \/ call'[d] = call[d] \/ call'[d].at \in {"arranging", "unlocking"} \/ call'[d] = AfterFailure(call[d])
    <3>1. ASSUME NEW a \in RsApps, PluginStarts(a) \/ PluginGone(a)
          PROVE  \/ call'[d] = call[d] \/ call'[d].at \in {"arranging", "unlocking"}
                 \/ call'[d] = AfterFailure(call[d])
      <4>1. CASE PluginStarts(a)
        BY <1>0, <4>1 DEF PluginStarts, Calls
      <4>2. CASE PluginGone(a)
        BY <1>0, <4>2 DEF PluginGone, Calls
      <4> QED BY <3>1, <4>1, <4>2
    <3>2. ASSUME NEW a \in RsApps, GoesOutside(a) \/ ChangeStep(a), ~PluginStarts(a), ~PluginGone(a)
          PROVE  call'[d] = call[d]
      BY <3>2 DEF GoesOutside, ChangeStep, InitializeLooks, InitializePushes, InitializeRegisters,
                  PluginFails, handleDeactivated, DeinitializePushes, DeinitializeForgets
    <3>3. ASSUME NEW c \in RsCallers, c # d, ShellStep(c) \/ Started(c)  PROVE call'[d] = call[d]
      BY <1>0, <3>3 DEF Started, LaunchBegins, DestroyBegins, SuspendBegins, Begins, Ends,
              ShellStep, FindsPlugin, FindsNoType, Clones, LooksForDisplay, PushesDisplay, Configures,
              ActivateJob, Arranges, SetsState, LaunchEnds, DestroyLocks, DeactivateJob, DestroyUnlocks,
              DestroyEnds, Suspends
    <3>4. ~Started(d)
      BY <1>3 DEF Started, LaunchBegins, DestroyBegins, SuspendBegins, Begins
    <3>5. CASE ShellFrame
      BY <1>0, <1>3, <3>5 DEF ShellFrame, RestInv, MarkInv, ControlInv, RequestsWait
    <3> QED BY <1>3, <3>1, <3>2, <3>3, <3>4, <3>5 DEF ShellNext, Started
  <2>2. call[d] \in Calls
    BY <1>0
  <2>3. CASE call'[d] = AfterFailure(call[d])
    <3>1. call'[d].at = "finishing" \/ (call'[d].at = "submitted" /\ call'[d].retried)
      BY <2>2, <2>3 DEF AfterFailure, Calls
    <3> QED BY <3>1 DEF NewOK, New, Makes
  <2>4. CASE call'[d] = call[d] \/ call'[d].at \in {"arranging", "unlocking"}
    BY <1>3, <2>4 DEF NewOK, New, Makes
  <2> QED BY <2>1, <2>3, <2>4
<1>4. CASE ShellFrame /\ call[d].at = "waiting" /\ call'[d] = [call[d] EXCEPT !.at = "configuring"]
  <2>1. thunder' = thunder /\ New(d) /\ thunder[App(d)] = "deactivated"
    BY <1>0, <1>4 DEF ShellFrame, NewOK, Makes
  <2>2. call[d] \in Calls
    BY <1>0
  <2> QED BY <1>4, <2>1, <2>2 DEF NewOK, New, Makes, Calls
<1>5. CASE call'[d] = call[d] /\ ~ShellStep(d)
  <2>1. ~Clones(d) /\ ~ActivateJob(d)
    BY <1>5 DEF ShellStep
  <2>2. New(d) /\ call[d].at \in Makes \cup {"cloning"} => thunder'[App(d)] = thunder[App(d)]
    BY <2>1, NewPluginStays
  <2>3. New(d)' <=> New(d)
    BY <1>5 DEF New
  <2> QED BY <1>0, <1>5, <2>2, <2>3 DEF NewOK
<1> QED BY <1>1, <1>2, <1>3, <1>4, <1>5, CallMoved

\* A new launch goes on making its plugin until it activates it.
LEMMA MakingStays ==
    ASSUME RestInv, ShellNext, NEW c \in RsCallers, NEW a \in RsApps, Making(c, a)
    PROVE  Making(c, a)' \/ change'[a].at = "initialize"
<1>0. /\ call \in [RsCallers -> Calls] /\ call[c] \in Calls /\ NewOK(c) /\ thunder[a] = "deactivated"
      /\ change \in [RsApps -> Changes]
  BY AtHand DEF RestInv, NewWaits, NewOK, Making
<1>1. CASE ShellStep(c)
  <2>1. CASE LooksForDisplay(c) \/ PushesDisplay(c)
    BY <1>0, <2>1 DEF LooksForDisplay, PushesDisplay, Making, New, Makes, Calls
  <2>2. CASE Configures(c)
    <3>1. call' = [call EXCEPT ![c].at = "submitted", ![c].launchType = "create"]
      BY <1>0, <2>2 DEF Configures, Making, New
    <3> QED BY <1>0, <3>1 DEF Making, New, Makes, Calls
  <2>3. CASE ActivateJob(c)
    BY <1>0, <2>3 DEF ActivateJob, Making
  <2>4. ~DeactivateJob(c)
    BY DEF DeactivateJob, Making, New
  <2> QED BY <1>1, <2>1, <2>2, <2>3, <2>4
          DEF ShellStep, FindsPlugin, FindsNoType, Clones, Arranges, SetsState, LaunchEnds, DestroyLocks,
              DestroyUnlocks, DestroyEnds, Suspends, Making, Makes
<1>2. CASE call'[c] = call[c]
  BY <1>2 DEF Making, New
<1>3. ~Started(c) /\ call[c].at # "inJob"
  BY DEF Started, LaunchBegins, DestroyBegins, SuspendBegins, Begins, Making, Makes
<1>4. CASE call'[c] = [call[c] EXCEPT !.at = "configuring"]
  BY <1>0, <1>4 DEF Making, New, Makes, Calls
<1> QED BY <1>1, <1>2, <1>3, <1>4, CallMoved

\* Entries, listeners and the marks of the deactivations by others.
LEMMA EntriesKept ==
    ASSUME RestInv, [ShellNext]_shellVars
    PROVE  EntriesTell'
<1> USE DEF Registered
<1>0. /\ thunder \in [RsApps -> {"absent", "deactivated", "activation", "activated", "deactivation"}]
      /\ change \in [RsApps -> Changes] /\ \A a \in RsApps : ChangeOK(a, change[a])
      /\ EntriesTell
  BY AtHand DEF RestInv
<1>1. ASSUME UNCHANGED <<thunder, change, clientVars, gExternalDestroyApplications>>
      PROVE  EntriesTell'
  BY <1>0, <1>1 DEF EntriesTell, clientVars
<1>2. ASSUME NEW c \in RsCallers, ShellStep(c)  PROVE EntriesTell'
  <2>0. UNCHANGED <<shellListeners, deniedListeners, gActivePluginsData, gExternalDestroyApplications>>
    BY <1>2 DEF ShellStep, FindsPlugin, FindsNoType, Clones, LooksForDisplay, PushesDisplay, Configures,
              ActivateJob, Arranges, SetsState, LaunchEnds, DestroyLocks, DeactivateJob, DestroyUnlocks,
              DestroyEnds, Suspends, clientVars, marks
  <2>1. CASE Clones(c)
    <3>1. \A a \in RsApps : change'[a] = change[a] /\ (thunder'[a] = "activated" <=> thunder[a] = "activated")
      BY <1>0, <2>1 DEF Clones
    <3> QED BY <1>0, <2>0, <3>1 DEF EntriesTell
  <2>2. CASE ActivateJob(c)
    <3>1. ASSUME NEW a \in RsApps
          PROVE  /\ thunder'[a] = "activated" <=> thunder[a] = "activated"
                 /\ change'[a] = change[a] \/ (change'[a].at = "initialize" /\ change[a].at = "none")
      BY <1>0, <2>2 DEF ActivateJob, ChangeOK
    <3> QED BY <1>0, <2>0, <3>1 DEF EntriesTell
  <2>3. CASE DeactivateJob(c)
    <3>1. ASSUME NEW a \in RsApps
          PROVE  \/ thunder'[a] = thunder[a] /\ change'[a] = change[a]
                 \/ thunder[a] = "activated" /\ change[a].at = "none" /\ change'[a].at = "deactivated"
      BY <1>0, <2>3 DEF DeactivateJob, ChangeOK
    <3> QED BY <1>0, <2>0, <3>1 DEF EntriesTell
  <2>4. CASE ~Clones(c) /\ ~ActivateJob(c) /\ ~DeactivateJob(c)
    BY <1>0, <1>2, <2>0, <2>4
       DEF ShellStep, FindsPlugin, FindsNoType, LooksForDisplay, PushesDisplay, Configures, Arranges,
           SetsState, LaunchEnds, DestroyLocks, DestroyUnlocks, DestroyEnds, Suspends, EntriesTell
  <2> QED BY <2>1, <2>2, <2>3, <2>4
<1>3. ASSUME NEW b \in RsApps, GoesOutside(b) \/ ChangeStep(b)  PROVE EntriesTell'
  <2> USE <1>0 DEF EntriesTell, ChangeOK, Starting
  <2>0. \A a \in RsApps : a # b => change'[a] = change[a] /\ thunder'[a] = thunder[a]
    <3>1. CASE GoesOutside(b) \/ PluginStarts(b) \/ PluginGone(b)
      BY <3>1 DEF GoesOutside, PluginStarts, PluginGone
    <3>2. CASE InitializeRegisters(b) \/ DeinitializeForgets(b)
      <4>1. thunder' = thunder /\ \E p : ChangesTo(b, p)
        BY <3>2 DEF InitializeRegisters, DeinitializeForgets
      <4> QED BY <4>1
    <3>3. CASE InitializeLooks(b) \/ InitializePushes(b) \/ PluginFails(b) \/ handleDeactivated(b) \/ DeinitializePushes(b)
      BY <3>3 DEF InitializeLooks, InitializePushes, PluginFails, handleDeactivated, DeinitializePushes
    <3> QED BY <1>3, <3>1, <3>2, <3>3 DEF ChangeStep
  <2>10. \A p : ChangesTo(b, p) => change'[b].at = p
    BY DEF Changes
  <2>1. CASE GoesOutside(b)
    BY <2>0, <2>1 DEF GoesOutside, clientVars, marks
  <2>2. CASE InitializeLooks(b) \/ InitializePushes(b)
    <3>1. /\ thunder'[b] = thunder[b] /\ change[b].at \in {"initialize", "pushing"}
          /\ change'[b].at \in {"created", "pushing", "waiting"}
      BY <2>2, <2>10 DEF InitializeLooks, InitializePushes
    <3>2. UNCHANGED <<shellListeners, deniedListeners, gActivePluginsData, gExternalDestroyApplications>>
      BY <2>2 DEF InitializeLooks, InitializePushes, clientVars, marks
    <3> QED BY <2>0, <3>1, <3>2
  <2>3. CASE InitializeRegisters(b)
    <3>1. thunder'[b] = thunder[b] /\ change[b].at = "created" /\ change'[b].at = "starting"
      BY <2>3 DEF InitializeRegisters
    <3>2. /\ gActivePluginsData' = gActivePluginsData \cup {b}
          /\ gExternalDestroyApplications' = gExternalDestroyApplications
      BY <2>3 DEF InitializeRegisters, marks
    <3>3. \A a \in RsApps : a \notin deniedListeners' => (a \in shellListeners' <=> a \in gActivePluginsData')
      BY <2>3, <3>2 DEF InitializeRegisters, Listens
    <3> QED BY <2>0, <3>1, <3>2, <3>3
  <2>4. CASE PluginStarts(b)
    BY <2>0, <2>4 DEF PluginStarts, NoChange, clientVars, marks
  <2>5. CASE PluginFails(b) \/ DeinitializePushes(b)
    <3>1. /\ thunder'[b] = thunder[b] /\ change[b].at \in {"starting", "deinitialize"}
          /\ change'[b].at \in {"deinitialize", "killing"}
      BY <2>5, <2>10 DEF PluginFails, DeinitializePushes
    <3>2. UNCHANGED <<shellListeners, deniedListeners, gActivePluginsData, gExternalDestroyApplications>>
      BY <2>5 DEF PluginFails, DeinitializePushes, clientVars, marks
    <3> QED BY <2>0, <3>1, <3>2
  <2>6. CASE handleDeactivated(b)
    <3>1. /\ thunder'[b] = thunder[b] /\ change[b].at = "deactivated" /\ change'[b].at = "deinitialize"
          /\ UNCHANGED <<shellListeners, deniedListeners, gActivePluginsData>>
      BY <2>6 DEF handleDeactivated, clientVars
    <3>2. \A a \in RsApps : a # b /\ a \in gExternalDestroyApplications' => a \in gExternalDestroyApplications
      BY <2>6 DEF handleDeactivated
    <3> QED BY <2>0, <3>1, <3>2
  <2>7. CASE DeinitializeForgets(b)
    <3>1. thunder'[b] # "activated" /\ change'[b].at = "forgotten"
      BY <2>7 DEF DeinitializeForgets
    <3>2. \A a \in RsApps : a \notin deniedListeners' => (a \in shellListeners' <=> a \in gActivePluginsData')
      BY <2>7 DEF DeinitializeForgets, Forgets, Listens
    <3> QED BY <2>0, <2>7, <3>1, <3>2 DEF DeinitializeForgets, Forgets
  <2>8. CASE PluginGone(b)
    BY <2>0, <2>8 DEF PluginGone, NoChange, clientVars, marks
  <2> QED BY <1>3, <2>1, <2>2, <2>3, <2>4, <2>5, <2>6, <2>7, <2>8 DEF ChangeStep
<1>4. CASE ShellFrame
  <2>1. UNCHANGED <<thunder, shellListeners, deniedListeners, gActivePluginsData, gExternalDestroyApplications>>
    BY <1>4 DEF ShellFrame, marks
  <2>2. ASSUME NEW a \in RsApps
        PROVE  /\ change'[a].at \in Registered <=> change[a].at \in Registered
               /\ change[a].at \in {"deinitialize", "killing", "killed"} =>
                     change'[a].at \in {"deinitialize", "killing", "killed"}
    <3>1. /\ a \in createRequests => change[a].at = "waiting"
          /\ a \in killRequests => change[a].at = "killing"
      BY DEF RestInv, MarkInv, ControlInv, RequestsWait
    <3>2. change'[a] = IF a \in createRequests THEN [change[a] EXCEPT !.at = "created"]
                       ELSE IF a \in killRequests THEN [change[a] EXCEPT !.at = "killed"] ELSE change[a]
      BY <1>4 DEF ShellFrame, Answers
    <3> QED BY <1>0, <3>1, <3>2 DEF Changes
  <2> QED BY <1>0, <2>1, <2>2 DEF EntriesTell
<1>5. ASSUME NEW c \in RsCallers, Started(c)  PROVE EntriesTell'
  BY <1>1, <1>5 DEF Started, LaunchBegins, DestroyBegins, SuspendBegins, marks
<1>6. CASE UNCHANGED shellVars
  BY <1>1, <1>6 DEF shellVars, marks
<1> QED BY <1>2, <1>3, <1>4, <1>5, <1>6 DEF ShellNext, Started

\* The display of one application: by the render thread, by a change of its
\* plugin, or by none of both.
LEMMA FrameDisplays ==
    ASSUME RestInv, ShellFrame, NEW a \in RsApps, a \notin deniedDisplays'
    PROVE  DisplayOK(a)'
<1>0. /\ change \in [RsApps -> Changes] /\ call \in [RsCallers -> Calls] /\ (a \notin deniedDisplays => DisplayOK(a))
      /\ createRequests \subseteq RsCallers \cup RsApps
      /\ a \in createRequests => change[a].at = "waiting"
      /\ a \in killRequests => change[a].at = "killing"
  BY AtHand DEF RestInv, DisplaysTell, MarkInv, ControlInv, RequestsWait
<1> DEFINE Clients(requests) == {ClientOf(p) : p \in requests}
<1> PICK made \in SUBSET createRequests, killed \in SUBSET killRequests :
      /\ shellDisplays' = (shellDisplays \cup Clients(made)) \ killed
      /\ deniedDisplays' = ((deniedDisplays \cup Clients(createRequests)) \ (Clients(made) \cup killed))
                            \cup (killRequests \ killed)
  BY DEF ShellFrame
<1>1. /\ thunder' = thunder
      /\ change'[a] = IF a \in createRequests THEN [change[a] EXCEPT !.at = "created"]
                      ELSE IF a \in killRequests THEN [change[a] EXCEPT !.at = "killed"] ELSE change[a]
  BY DEF ShellFrame, Answers
<1>2. thunder[a] = "activated" => change[a].at = "none"
  BY AtHand DEF RestInv, ChangeOK
<1>3. CASE a \in createRequests
  <2>1. change'[a].at = "created" /\ thunder[a] # "activated" /\ a \notin killRequests
    BY <1>0, <1>1, <1>2, <1>3 DEF Changes
  <2>2. ClientOf(a) = a
    BY DEF ClientOf
  <2>3. a \in Clients(made)
    BY <1>3, <2>1, <2>2
  <2> QED BY <1>1, <2>1, <2>3 DEF DisplayOK
<1>4. CASE a \notin createRequests /\ a \in killRequests
  <2>1. change'[a].at = "killed" /\ thunder[a] # "activated" /\ a \notin shellDisplays'
    BY <1>0, <1>1, <1>2, <1>4 DEF Changes
  <2> QED BY <1>1, <2>1 DEF DisplayOK
<1>5. CASE a \notin createRequests /\ a \notin killRequests
  <2>1. change'[a] = change[a] /\ (a \in shellDisplays => a \in shellDisplays')
    BY <1>1, <1>5
  <2>2. CASE a \in Clients(made)
    <3>1. PICK c \in made : ClientOf(c) = a
      BY <2>2
    <3>2. c \in RsCallers /\ App(c) = a /\ call[c].at = "waiting" /\ c \in createRequests
      BY <1>0, <1>5, <3>1 DEF ClientOf, RestInv, MarkInv, ControlInv, RequestsWait
    <3>3. New(c) /\ call'[c] = [call[c] EXCEPT !.at = "configuring"] /\ call[c] \in Calls
      BY <1>0, <3>2 DEF RestInv, NewWaits, NewOK, ShellFrame
    <3>4. Making(c, a)'
      BY <3>2, <3>3 DEF Making, New, Makes, Calls
    <3> QED BY <1>5, <2>2, <3>2, <3>4 DEF DisplayOK
  <2>3. CASE a \notin Clients(made)
    <3>1. a \notin deniedDisplays /\ (a \in shellDisplays' <=> a \in shellDisplays)
      BY <1>5, <2>3
    <3>2. ASSUME thunder[a] # "activated", change[a].at \in {"none", "killed", "forgotten"}, a \in shellDisplays
          PROVE  \E c \in RsCallers : Making(c, a)'
      <4>1. PICK c \in RsCallers : Making(c, a)
        BY <1>0, <3>1, <3>2 DEF DisplayOK
      <4>2. Making(c, a)'
        BY <2>1, <3>2, <4>1, MakingStays DEF ShellNext
      <4> QED BY <4>2
    <3> QED BY <1>0, <1>1, <2>1, <3>1, <3>2 DEF DisplayOK
  <2> QED BY <2>2, <2>3
<1> QED BY <1>3, <1>4, <1>5

LEMMA ChangeDisplays ==
    ASSUME RestInv, NEW a \in RsApps, a \notin deniedDisplays, GoesOutside(a) \/ ChangeStep(a)
    PROVE  DisplayOK(a)'
<1>0. /\ change \in [RsApps -> Changes] /\ DisplayOK(a) /\ ChangeOK(a, change[a])
      /\ thunder \in [RsApps -> {"absent", "deactivated", "activation", "activated", "deactivation"}]
  BY AtHand DEF RestInv, DisplaysTell
<1>1. shellDisplays' = shellDisplays
  BY DEF GoesOutside, ChangeStep, InitializeLooks, InitializePushes, InitializeRegisters, PluginStarts, PluginFails,
         handleDeactivated, DeinitializePushes, DeinitializeForgets, PluginGone, clientVars
<1>2. \A p : ChangesTo(a, p) => change'[a].at = p
  BY <1>0 DEF Changes
<1>3. \A c \in RsCallers : Making(c, a) => thunder[a] = "deactivated"
  BY DEF Making, RestInv, NewWaits, NewOK
<1>4. CASE GoesOutside(a)
  <2>1. thunder[a] = "activated" /\ thunder'[a] = "deactivation" /\ change'[a].at = "deactivated"
    BY <1>0, <1>4 DEF GoesOutside
  <2> QED BY <1>0, <1>1, <2>1 DEF DisplayOK
<1>5. CASE InitializeLooks(a)
  <2>1. change[a].at = "initialize" /\ thunder'[a] = thunder[a] /\ thunder[a] \in {"activation", "deactivation"}
    BY <1>0, <1>5 DEF InitializeLooks, ChangeOK
  <2>2. \A c \in RsCallers \cap createRequests : App(c) # a
    BY <2>1 DEF RestInv, MarkInv, ControlInv, RequestsWait, NewWaits, NewOK, Makes
  <2>3. a \notin createRequests /\ createRequests \subseteq RsCallers \cup RsApps
    BY <2>1 DEF RestInv, MarkInv, ControlInv, RequestsWait
  <2>4. isClientExists(a) => a \in shellDisplays
    BY <2>2, <2>3 DEF isClientExists, ClientOf
  <2>5. change'[a].at = IF isClientExists(a) THEN "created" ELSE "pushing"
    BY <1>2, <1>5 DEF InitializeLooks
  <2> QED BY <1>1, <2>1, <2>4, <2>5 DEF DisplayOK
<1>6. CASE InitializePushes(a) \/ InitializeRegisters(a) \/ PluginFails(a) \/ handleDeactivated(a) \/ DeinitializePushes(a)
  <2>1. /\ thunder'[a] = thunder[a] /\ thunder[a] # "activated"
        /\ \/ change[a].at = "pushing" /\ change'[a].at = "waiting"
           \/ change[a].at \in {"created", "starting", "deactivated"} /\ change'[a].at \in {"starting", "deinitialize"}
           \/ change[a].at = "deinitialize" /\ change'[a].at = "killing"
    BY <1>0, <1>2, <1>6 DEF InitializePushes, InitializeRegisters, PluginFails, handleDeactivated, DeinitializePushes,
                            ChangeOK
  <2> QED BY <1>0, <1>1, <2>1 DEF DisplayOK
<1>7. CASE PluginStarts(a)
  <2>1. change[a].at = "starting" /\ thunder'[a] = "activated" /\ change'[a].at = "none"
    BY <1>0, <1>7 DEF PluginStarts, NoChange
  <2> QED BY <1>0, <1>1, <2>1 DEF DisplayOK
<1>8. CASE DeinitializeForgets(a) \/ PluginGone(a)
  <2>1. /\ change[a].at \in {"killed", "forgotten"} /\ thunder[a] \notin {"activated", "deactivated"}
        /\ thunder'[a] # "activated" /\ change'[a].at \in {"none", "forgotten"}
    <3>1. CASE DeinitializeForgets(a)
      <4>1. change[a].at = "killed" /\ ChangesTo(a, "forgotten") /\ thunder' = thunder
        BY <3>1 DEF DeinitializeForgets
      <4> QED BY <1>0, <1>2, <4>1 DEF ChangeOK, Stopping, Starting
    <3>2. CASE PluginGone(a)
      BY <1>0, <3>2 DEF PluginGone, NoChange, ChangeOK
    <3> QED BY <1>8, <3>1, <3>2
  <2>2. a \notin shellDisplays
    BY <1>0, <1>3, <2>1 DEF DisplayOK
  <2> QED BY <1>1, <2>1, <2>2 DEF DisplayOK
<1> QED BY <1>4, <1>5, <1>6, <1>7, <1>8 DEF ChangeStep

LEMMA OtherDisplays ==
    ASSUME RestInv, ShellNext, NEW a \in RsApps, a \notin deniedDisplays,
           thunder'[a] = thunder[a] \/ (thunder[a] = "absent" /\ thunder'[a] = "deactivated"),
           change'[a] = change[a], UNCHANGED shellDisplays
    PROVE  DisplayOK(a)'
<1>1. DisplayOK(a) /\ ChangeOK(a, change[a])
  BY AtHand DEF RestInv, DisplaysTell
<1>2. ASSUME thunder'[a] # "activated", change[a].at \in {"none", "killed", "forgotten"}, a \in shellDisplays,
             thunder[a] # "activated"
      PROVE  \E c \in RsCallers : Making(c, a)'
  <2>1. PICK c \in RsCallers : Making(c, a)
    BY <1>1, <1>2 DEF DisplayOK
  <2>2. Making(c, a)'
    BY <1>2, <2>1, MakingStays
  <2> QED BY <2>2
<1> QED BY <1>1, <1>2 DEF DisplayOK

LEMMA DisplaysKept ==
    ASSUME RestInv, ShellNext, NEW a \in RsApps, a \notin deniedDisplays'
    PROVE  DisplayOK(a)'
<1>0. /\ change \in [RsApps -> Changes] /\ (a \notin deniedDisplays => DisplayOK(a)) /\ ChangeOK(a, change[a])
      /\ thunder \in [RsApps -> {"absent", "deactivated", "activation", "activated", "deactivation"}]
  BY AtHand DEF RestInv, DisplaysTell
<1>1. ASSUME NEW c \in RsCallers, ShellStep(c) \/ Started(c)  PROVE DisplayOK(a)'
  <2>1. UNCHANGED <<shellDisplays, deniedDisplays>>
    BY <1>1 DEF ShellStep, Started, LaunchBegins, DestroyBegins, SuspendBegins, FindsPlugin, FindsNoType, Clones,
              LooksForDisplay, PushesDisplay, Configures, ActivateJob, Arranges, SetsState, LaunchEnds, DestroyLocks,
              DeactivateJob, DestroyUnlocks, DestroyEnds, Suspends, clientVars
  <2>2. CASE ActivateJob(c) \/ DeactivateJob(c)
    <3>1. \/ thunder'[a] = thunder[a] /\ change'[a] = change[a]
          \/ thunder'[a] = "activation" /\ change'[a].at = "initialize"
          \/ thunder'[a] = "deactivation" /\ change'[a].at = "deactivated" /\ thunder[a] = "activated"
      BY <1>0, <2>2 DEF ActivateJob, DeactivateJob
    <3>2. CASE thunder'[a] = thunder[a] /\ change'[a] = change[a]
      BY <2>1, <3>2, OtherDisplays
    <3>3. CASE \/ thunder'[a] = "activation" /\ change'[a].at = "initialize"
               \/ thunder'[a] = "deactivation" /\ change'[a].at = "deactivated" /\ thunder[a] = "activated"
      BY <1>0, <2>1, <3>3 DEF DisplayOK
    <3> QED BY <3>1, <3>2, <3>3
  <2>3. CASE ~ActivateJob(c) /\ ~DeactivateJob(c)
    <3>1. /\ change' = change
          /\ thunder'[a] = thunder[a] \/ (thunder[a] = "absent" /\ thunder'[a] = "deactivated")
      BY <1>0, <1>1, <2>3
         DEF ShellStep, Started, LaunchBegins, DestroyBegins, SuspendBegins, FindsPlugin, FindsNoType, Clones,
             LooksForDisplay, PushesDisplay, Configures, Arranges, SetsState, LaunchEnds, DestroyLocks,
             DestroyUnlocks, DestroyEnds, Suspends
    <3> QED BY <2>1, <3>1, OtherDisplays
  <2> QED BY <2>2, <2>3
<1>2. ASSUME NEW b \in RsApps, GoesOutside(b) \/ ChangeStep(b), b # a  PROVE DisplayOK(a)'
  <2>1. thunder'[a] = thunder[a] /\ change'[a] = change[a] /\ UNCHANGED <<shellDisplays, deniedDisplays>>
    BY <1>0, <1>2
       DEF GoesOutside, ChangeStep, InitializeLooks, InitializePushes, InitializeRegisters, PluginStarts, PluginFails,
           handleDeactivated, DeinitializePushes, DeinitializeForgets, PluginGone, clientVars
  <2> QED BY <2>1, OtherDisplays
<1>3. ASSUME GoesOutside(a) \/ ChangeStep(a)  PROVE a \notin deniedDisplays
  BY <1>3 DEF GoesOutside, ChangeStep, InitializeLooks, InitializePushes, InitializeRegisters, PluginStarts, PluginFails,
          handleDeactivated, DeinitializePushes, DeinitializeForgets, PluginGone, clientVars
<1> QED BY <1>1, <1>2, <1>3, ChangeDisplays, FrameDisplays DEF ShellNext, Started

\* Whatever launches and destroys raced, failed or met a crash, at rest
\* RDKShell's records, the compositor's clients and Thunder's plugins agree.
THEOREM RestAlwaysAgrees == RsOneEach /\ FewFaults /\ ShellSpec => []AtRestAllAgree
<1>1. RsOneEach /\ FewFaults /\ ShellInit => RestInv
  <2> SUFFICES ASSUME RsOneEach, FewFaults, ShellInit  PROVE RestInv
    OBVIOUS
  <2>1. MarkInv
    BY MarksAtFirst
  <2>2. EntriesTell /\ DisplaysTell
    BY DEF ShellInit, EntriesTell, DisplaysTell, DisplayOK, NoChange, Registered
  <2>3. NewWaits
    BY DEF ShellInit, NewWaits, NewOK, New, NoCall
  <2> QED BY <2>1, <2>2, <2>3 DEF RestInv
<1>2. RestInv /\ [ShellNext]_shellVars => RestInv'
  <2> SUFFICES ASSUME RestInv, [ShellNext]_shellVars  PROVE RestInv'
    OBVIOUS
  <2>1. MarkInv' /\ EntriesTell'
    BY MarksKept, EntriesKept DEF RestInv
  <2>2. CASE ShellNext
    BY <2>1, <2>2, NewWaitsKept, DisplaysKept DEF RestInv, NewWaits, DisplaysTell
  <2>3. CASE UNCHANGED shellVars
    BY <2>1, <2>3 DEF RestInv, NewWaits, NewOK, New, DisplaysTell, DisplayOK, Making, shellVars, clientVars
  <2> QED BY <2>2, <2>3
<1>3. RestInv => AtRestAllAgree
  <2> SUFFICES ASSUME RestInv, NEW a \in RsApps, change[a].at = "none", \A c \in RsCallers : App(c) # a
               PROVE  /\ a \in gActivePluginsData <=> thunder[a] = "activated"
                      /\ a \notin deniedDisplays => (a \in shellDisplays <=> thunder[a] = "activated")
                      /\ a \notin deniedListeners => (a \in shellListeners <=> thunder[a] = "activated")
                      /\ a \notin gLaunchApplications \cup gDestroyApplications \cup gExternalDestroyApplications
    BY DEF AtRestAllAgree
  <2>1. a \in gActivePluginsData <=> thunder[a] = "activated"
    BY DEF RestInv, EntriesTell, Registered
  <2>2. a \notin deniedDisplays => (a \in shellDisplays <=> thunder[a] = "activated")
    BY DEF RestInv, DisplaysTell, DisplayOK, Making
  <2>3. (a \notin deniedListeners => (a \in shellListeners <=> a \in gActivePluginsData)) /\ a \notin gExternalDestroyApplications
    BY DEF RestInv, EntriesTell
  <2>4. a \notin gLaunchApplications /\ a \notin gDestroyApplications
    BY DEF RestInv, MarkInv, MarksTell, Is
  <2> QED BY <2>1, <2>2, <2>3, <2>4
<1> QED BY <1>1, <1>2, <1>3, PTL DEF ShellSpec

-----------------------------------------------------------------------------
(***************************************************************************)
(* RDKWindowManager.  Until the plugin is deinitialised, a display without *)
(* listener is one that a caller has been told of and is about to listen   *)
(* to, or one for which a caller met an error; a request nobody waits for  *)
(* any more is of the latter kind before there is a display.               *)
(***************************************************************************)
Told(c) == At(c, "posted") /\ caller[c].mResult

CallerPlaces == {"idle", "asking", "notQueued", "new", "waiting", "posted"}
CallerTypes == [at : CallerPlaces, client : Spellings \cup {NoOne}, mResult : BOOLEAN]
RequestTypes == [client : Spellings \cup {NoOne}, caller : WmCallers, waits : BOOLEAN]

RequestOK(q) ==
    IF q.waits THEN At(q.caller, "waiting") /\ q.client = caller[q.caller].client
               ELSE toLower(q.client) \in unheard

CallersOK ==
    /\ caller \in [WmCallers -> CallerTypes]
    /\ gCreateDisplayRequests \in Seq(RequestTypes)
    /\ \A k \in DOMAIN gCreateDisplayRequests : RequestOK(gCreateDisplayRequests[k])

HeardOrTold ==
    /\ wmListeners \subseteq wmDisplays
    /\ \A d \in wmDisplays \ wmListeners :
          d \in unheard \/ \E c \in WmCallers : Told(c) /\ toLower(caller[c].client) = d
    /\ \A c \in WmCallers : Told(c) => toLower(caller[c].client) \in wmDisplays

\* Initialize comes once while sRunning is true.
BeforeInitialize ==
    /\ renderThread = "none"
    /\ \A c \in WmCallers : At(c, "idle")
    /\ wmDisplays = {} /\ wmListeners = {} /\ gCreateDisplayRequests = <<>>

WindowInv ==
    /\ CallersOK
    /\ sRunning => \/ plugin = "off" /\ BeforeInitialize
                   \/ plugin = "on" /\ HeardOrTold

\* Requests stay what they were while nobody who waits is moved.
LEMMA RequestsKept ==
    ASSUME CallersOK, UNCHANGED gCreateDisplayRequests, unheard \subseteq unheard',
           \A c \in WmCallers : At(c, "waiting") => caller'[c] = caller[c]
    PROVE  \A k \in DOMAIN gCreateDisplayRequests' : RequestOK(gCreateDisplayRequests[k])'
<1> SUFFICES ASSUME NEW k \in DOMAIN gCreateDisplayRequests, NEW q, q = gCreateDisplayRequests[k]
             PROVE  RequestOK(q)'
  OBVIOUS
<1>1. q \in RequestTypes /\ RequestOK(q)
  BY DEF CallersOK
<1>2. q.waits => caller'[q.caller] = caller[q.caller]
  BY <1>1 DEF RequestOK, RequestTypes
<1> QED BY <1>1, <1>2 DEF RequestOK, At, toLower

\* A step of a caller that does not concern displays.
LEMMA CallerMoves ==
    ASSUME WindowInv, NEW c \in WmCallers, NEW at \in {"idle", "asking", "notQueued", "new", "waiting"},
           NEW s \in Spellings \cup {NoOne}, NEW ok \in BOOLEAN,
           caller' = [caller EXCEPT ![c] = [at |-> at, client |-> s, mResult |-> ok]],
           caller[c].at # "posted", UNCHANGED <<wmDisplays, wmListeners>>, unheard \subseteq unheard'
    PROVE  /\ caller' \in [WmCallers -> CallerTypes]
           /\ \A d \in WmCallers : d # c => caller'[d] = caller[d]
           /\ caller'[c] = [at |-> at, client |-> s, mResult |-> ok]
           /\ HeardOrTold => HeardOrTold'
<1>1. /\ caller' \in [WmCallers -> CallerTypes]
      /\ \A d \in WmCallers : d # c => caller'[d] = caller[d]
      /\ caller'[c] = [at |-> at, client |-> s, mResult |-> ok]
  BY DEF WindowInv, CallersOK, CallerTypes, CallerPlaces
<1>2. \A d \in WmCallers : (Told(d)' <=> Told(d)) /\ (Told(d) => caller'[d] = caller[d])
  BY <1>1 DEF Told, At
<1>3. ASSUME HeardOrTold PROVE HeardOrTold'
  BY <1>2, <1>3 DEF HeardOrTold
<1> QED BY <1>1, <1>3

\* A step of a caller in a call, other than pushing its request, giving up
\* on it, or waking.
LEMMA CallerGoesOn ==
    ASSUME WindowInv, NEW c \in WmCallers, NEW at \in {"idle", "asking", "notQueued", "new"},
           NEW s \in Spellings \cup {NoOne}, NEW ok \in BOOLEAN,
           caller' = [caller EXCEPT ![c] = [at |-> at, client |-> s, mResult |-> ok]],
           caller[c].at \notin {"waiting", "posted"}, sRunning => plugin = "on" /\ HeardOrTold,
           UNCHANGED <<plugin, sRunning, gCreateDisplayRequests, wmDisplays, wmListeners, unheard>>
    PROVE  WindowInv'
<1>1. /\ caller' \in [WmCallers -> CallerTypes]
      /\ \A d \in WmCallers : d # c => caller'[d] = caller[d]
      /\ HeardOrTold => HeardOrTold'
  BY CallerMoves
<1>2. \A k \in DOMAIN gCreateDisplayRequests' : RequestOK(gCreateDisplayRequests[k])'
  BY <1>1, RequestsKept DEF WindowInv, At
<1> QED BY <1>1, <1>2 DEF WindowInv, CallersOK

LEMMA CallerKeeps ==
    ASSUME WindowInv, NEW c \in WmCallers, CallerStep(c) \/ WaitFails(c)
    PROVE  WindowInv'
<1>1. /\ caller \in [WmCallers -> CallerTypes] /\ CallersOK
      /\ UNCHANGED <<plugin, sRunning, wmDisplays>>
  BY DEF WindowInv, CallersOK, CallerStep, LooksInQueue, LooksAtClients, Pushes, Wakes, WaitFails, renderVars
<1>2. ~At(c, "idle")
  BY DEF CallerStep, LooksInQueue, LooksAtClients, Pushes, Wakes, WaitFails, At
<1>3. sRunning => plugin = "on" /\ HeardOrTold
  BY <1>2 DEF WindowInv, BeforeInitialize
<1> PICK client, ok : client = caller[c].client /\ ok = caller[c].mResult
  OBVIOUS
<1>4. client \in Spellings \cup {NoOne} /\ ok \in BOOLEAN /\ caller[c] = [at |-> caller[c].at, client |-> client, mResult |-> ok]
  BY <1>1 DEF CallerTypes
<1>5. \A s : [caller[c] EXCEPT !.at = s] = [at |-> s, client |-> client, mResult |-> ok]
  BY <1>4
<1>6. \A s : Goes(c, s) => caller' = [caller EXCEPT ![c] = [at |-> s, client |-> client, mResult |-> ok]]
  BY <1>1, <1>5 DEF Goes
<1>7. CASE LooksInQueue(c) \/ LooksAtClients(c)
  <2>1. PICK s \in {"idle", "notQueued", "new"} : Goes(c, s)
    BY <1>7 DEF LooksInQueue, LooksAtClients
  <2>2. /\ caller[c].at \notin {"waiting", "posted"}
        /\ UNCHANGED <<gCreateDisplayRequests, wmListeners, unheard>>
    BY <1>7 DEF LooksInQueue, LooksAtClients, At
  <2> QED BY <1>1, <1>3, <1>4, <1>6, <2>1, <2>2, CallerGoesOn
<1>8. CASE Pushes(c)
  <2> PICK q : q = [client |-> client, caller |-> c, waits |-> TRUE]
    OBVIOUS
  <2>1. /\ caller[c].at = "new" /\ Goes(c, "waiting") /\ gCreateDisplayRequests' = Append(gCreateDisplayRequests, q)
        /\ UNCHANGED <<wmListeners, unheard>>
    BY <1>8 DEF Pushes, At
  <2>2. /\ caller' \in [WmCallers -> CallerTypes]
        /\ \A d \in WmCallers : d # c => caller'[d] = caller[d]
        /\ caller'[c] = [at |-> "waiting", client |-> client, mResult |-> ok]
        /\ HeardOrTold => HeardOrTold'
    <3>1. /\ caller' = [caller EXCEPT ![c] = [at |-> "waiting", client |-> client, mResult |-> ok]]
          /\ caller[c].at # "posted" /\ unheard \subseteq unheard'
      BY <1>6, <2>1
    <3> QED BY <1>1, <1>4, <2>1, <3>1, CallerMoves
  <2>3. q \in RequestTypes
    BY <1>4 DEF RequestTypes
  <2>4. RequestOK(q)'
    BY <2>2 DEF RequestOK, At
  <2>5. gCreateDisplayRequests' \in Seq(RequestTypes)
    BY <2>1, <2>3 DEF WindowInv, CallersOK
  <2>6. ASSUME NEW k \in DOMAIN gCreateDisplayRequests', NEW r, r = gCreateDisplayRequests'[k]
        PROVE  RequestOK(r)'
    <3>1. r = q \/ (k \in DOMAIN gCreateDisplayRequests /\ r = gCreateDisplayRequests[k])
      BY <2>1, <2>6 DEF WindowInv, CallersOK
    <3>2. ASSUME k \in DOMAIN gCreateDisplayRequests, r = gCreateDisplayRequests[k]
          PROVE  RequestOK(r)'
      <4>1. r \in RequestTypes /\ RequestOK(r)
        BY <3>2 DEF WindowInv, CallersOK
      <4>2. r.waits => r.caller # c /\ caller'[r.caller] = caller[r.caller]
        BY <2>1, <2>2, <4>1 DEF RequestOK, RequestTypes, At
      <4> QED BY <2>1, <4>1, <4>2 DEF RequestOK, At, toLower
    <3> QED BY <2>4, <3>1, <3>2
  <2>7. CallersOK'
    BY <2>2, <2>5, <2>6 DEF CallersOK
  <2> QED BY <1>1, <1>3, <2>2, <2>7 DEF WindowInv
<1>9. CASE WaitFails(c)
  <2> DEFINE left(q) == IF q.caller = c THEN [q EXCEPT !.waits = FALSE] ELSE q
  <2>1. /\ caller[c].at = "waiting" /\ Goes(c, "idle") /\ unheard' = unheard \cup {toLower(client)}
        /\ gCreateDisplayRequests' = [k \in DOMAIN gCreateDisplayRequests |-> left(gCreateDisplayRequests[k])]
        /\ UNCHANGED wmListeners
    BY <1>9 DEF WaitFails, At
  <2>2. /\ caller' \in [WmCallers -> CallerTypes]
        /\ \A d \in WmCallers : d # c => caller'[d] = caller[d]
        /\ HeardOrTold => HeardOrTold'
    BY <1>1, <1>4, <1>6, <2>1, CallerMoves
  <2>3. \A q \in RequestTypes : left(q) \in RequestTypes
    BY DEF RequestTypes
  <2>4. ASSUME NEW q \in RequestTypes, RequestOK(q)
        PROVE  RequestOK(left(q))'
    <3>1. CASE q.caller = c
      <4>1. left(q).waits = FALSE /\ left(q).client = q.client
        BY <3>1 DEF RequestTypes
      <4>2. toLower(q.client) \in unheard'
        BY <2>1, <2>4, <3>1 DEF RequestOK
      <4> HIDE DEF left
      <4> QED BY <4>1, <4>2 DEF RequestOK, toLower
    <3>2. CASE q.caller # c
      <4>1. q.waits => caller'[q.caller] = caller[q.caller]
        BY <2>2, <2>4, <3>2 DEF RequestTypes
      <4> QED BY <2>1, <2>4, <3>2, <4>1 DEF RequestOK, At, toLower
    <3> QED BY <3>1, <3>2
  <2> HIDE DEF left
  <2>5. /\ gCreateDisplayRequests \in Seq(RequestTypes)
        /\ \A k \in DOMAIN gCreateDisplayRequests : /\ gCreateDisplayRequests[k] \in RequestTypes
                                                    /\ RequestOK(gCreateDisplayRequests[k])
    BY DEF WindowInv, CallersOK
  <2>6. gCreateDisplayRequests' \in Seq(RequestTypes)
    BY <2>1, <2>3, <2>5
  <2>7. ASSUME NEW k \in DOMAIN gCreateDisplayRequests'
        PROVE  RequestOK(gCreateDisplayRequests[k])'
    <3>1. k \in DOMAIN gCreateDisplayRequests /\ gCreateDisplayRequests'[k] = left(gCreateDisplayRequests[k])
      BY <2>1
    <3> PICK r : r = left(gCreateDisplayRequests[k])
      OBVIOUS
    <3>2. RequestOK(r)'
      BY <2>4, <2>5, <3>1
    <3> QED BY <3>1, <3>2
  <2> QED BY <1>1, <1>3, <2>2, <2>6, <2>7 DEF WindowInv, CallersOK
<1>10. CASE Wakes(c)
  <2>1. /\ caller[c].at = "posted" /\ caller' = [caller EXCEPT ![c] = [at |-> "idle", client |-> client, mResult |-> ok]]
        /\ UNCHANGED gCreateDisplayRequests
        /\ \/ wmListeners' = wmListeners \cup (IF Adds(c) THEN {toLower(client)} ELSE {}) /\ unheard' = unheard
           \/ Adds(c) /\ unheard' = unheard \cup {toLower(client)} /\ wmListeners' = wmListeners
    BY <1>6, <1>10 DEF Wakes, At
  <2>2. /\ caller' \in [WmCallers -> CallerTypes]
        /\ \A d \in WmCallers : d # c => caller'[d] = caller[d]
        /\ caller'[c].at = "idle"
    BY <1>1, <1>4, <2>1 DEF CallerTypes, CallerPlaces
  <2>3. \A d \in WmCallers : At(d, "waiting") => caller'[d] = caller[d]
    BY <2>1, <2>2 DEF At
  <2>4. \A k \in DOMAIN gCreateDisplayRequests' : RequestOK(gCreateDisplayRequests[k])'
    BY <1>1, <2>1, <2>3, RequestsKept
  <2>5. CallersOK'
    BY <2>1, <2>2, <2>4 DEF WindowInv, CallersOK
  <2>6. ASSUME plugin = "on", HeardOrTold PROVE HeardOrTold'
    <3>2. \A d \in WmCallers : d # c => (Told(d)' <=> Told(d))
      BY <2>2 DEF Told, At
    <3>3. ~Told(c)'
      BY <2>2 DEF Told, At
    <3>4. Adds(c) <=> Told(c)
      BY <2>1, <2>6 DEF Adds, Told, At
    <3>5. wmListeners' \subseteq wmDisplays'
      BY <1>1, <2>1, <2>6, <3>4 DEF HeardOrTold
    <3>6. ASSUME NEW x \in wmDisplays, x \notin wmListeners', x \notin unheard'
          PROVE  \E d \in WmCallers : Told(d)' /\ toLower(caller'[d].client) = x
      <4>1. PICK d \in WmCallers : Told(d) /\ toLower(caller[d].client) = x
        BY <2>1, <2>6, <3>6 DEF HeardOrTold
      <4>2. d # c
        BY <2>1, <3>4, <3>6, <4>1
      <4> QED BY <2>2, <3>2, <4>1, <4>2
    <3>7. ASSUME NEW d \in WmCallers, Told(d)' PROVE toLower(caller'[d].client) \in wmDisplays
      BY <2>2, <2>6, <3>2, <3>3, <3>7 DEF HeardOrTold
    <3> QED BY <1>1, <3>5, <3>6, <3>7 DEF HeardOrTold, toLower
  <2> QED BY <1>1, <1>3, <2>5, <2>6 DEF WindowInv
<1> QED BY <1>7, <1>8, <1>9, <1>10 DEF CallerStep

LEMMA FrameKeeps ==
    ASSUME WindowInv, RenderFrame
    PROVE  WindowInv'
<1>1. /\ renderThread = "rendering"
      /\ UNCHANGED <<plugin, sRunning, wmListeners, unheard>>
      /\ gCreateDisplayRequests' = <<>>
  BY DEF RenderFrame
<1> PICK refused : wmDisplays' = Frame(refused).displays /\ caller' = Frame(refused).callers
  BY DEF RenderFrame
<1> DEFINE made == {k \in DOMAIN gCreateDisplayRequests : IsMade(k, refused)}
           Waits(c) == Of(c) # {}
           Gets(c) == Of(c) \cap made # {}
<1>2. /\ wmDisplays' = wmDisplays \cup {Client(k) : k \in made}
      /\ caller' = [c \in WmCallers |-> IF Waits(c) THEN [caller[c] EXCEPT !.at = "posted", !.mResult = Gets(c)]
                                                    ELSE caller[c]]
  BY DEF Frame, Served
<1>3. /\ caller \in [WmCallers -> CallerTypes]
      /\ \A k \in DOMAIN gCreateDisplayRequests : /\ gCreateDisplayRequests[k] \in RequestTypes
                                                  /\ RequestOK(gCreateDisplayRequests[k])
  BY DEF WindowInv, CallersOK
<1>4. \A c \in WmCallers : \A k : k \in Of(c) => /\ k \in DOMAIN gCreateDisplayRequests /\ At(c, "waiting")
                                               /\ Client(k) = toLower(caller[c].client)
  BY <1>3 DEF Of, RequestOK, Client
<1>5. \A k \in made : \/ Client(k) \in unheard
                      \/ \E c \in WmCallers : k \in Of(c)
  BY <1>3 DEF Of, RequestOK, Client, RequestTypes
<1>6. \A c \in WmCallers : Waits(c) => /\ At(c, "waiting")
                                       /\ caller'[c] = [at |-> "posted", client |-> caller[c].client, mResult |-> Gets(c)]
  <2> SUFFICES ASSUME NEW c \in WmCallers, Waits(c)
               PROVE  /\ At(c, "waiting")
                      /\ caller'[c] = [at |-> "posted", client |-> caller[c].client, mResult |-> Gets(c)]
    OBVIOUS
  <2>1. At(c, "waiting")
    BY <1>4
  <2> PICK b : b = Gets(c)
    OBVIOUS
  <2>2. caller'[c] = [caller[c] EXCEPT !.at = "posted", !.mResult = b]
    BY <1>2
  <2>3. caller[c] = [at |-> caller[c].at, client |-> caller[c].client, mResult |-> caller[c].mResult]
    BY <1>3 DEF CallerTypes
  <2>4. caller'[c] = [at |-> "posted", client |-> caller[c].client, mResult |-> b]
    BY <2>2, <2>3
  <2> QED BY <2>1, <2>4
<1>7. \A c \in WmCallers : ~Waits(c) => caller'[c] = caller[c]
  BY <1>2
<1>8. \A c : Gets(c) \in BOOLEAN
  OBVIOUS
<1>9. \A c \in WmCallers : \A k : k \in Of(c) /\ k \in made => Waits(c) /\ Gets(c)
  OBVIOUS
<1>10. \A c \in WmCallers : Gets(c) => \E k \in made : k \in Of(c)
  OBVIOUS
<1> HIDE DEF Waits, Gets
<1>11. CallersOK'
  <2>1. ASSUME NEW c \in WmCallers  PROVE caller'[c] \in CallerTypes
    <3>1. caller[c] \in CallerTypes
      BY <1>3
    <3> PICK b : b = Gets(c)
      OBVIOUS
    <3>2. b \in BOOLEAN
      BY <1>8
    <3>3. Waits(c) => caller'[c] = [at |-> "posted", client |-> caller[c].client, mResult |-> b]
      BY <1>6
    <3> QED BY <1>7, <3>1, <3>2, <3>3 DEF CallerTypes, CallerPlaces
  <2>2. caller' \in [WmCallers -> CallerTypes]
    BY <1>2, <2>1
  <2> QED BY <1>1, <2>2 DEF CallersOK
<1>12. \A c \in WmCallers : /\ Told(c)' <=> IF Waits(c) THEN Gets(c) ELSE Told(c)
                            /\ caller'[c].client = caller[c].client
  <2> SUFFICES ASSUME NEW c \in WmCallers
               PROVE  /\ Told(c)' <=> IF Waits(c) THEN Gets(c) ELSE Told(c)
                      /\ caller'[c].client = caller[c].client
    OBVIOUS
  <2> PICK b : b = Gets(c)
    OBVIOUS
  <2>1. CASE Waits(c)
    <3>1. caller'[c] = [at |-> "posted", client |-> caller[c].client, mResult |-> b]
      BY <1>6, <2>1
    <3> QED BY <2>1, <3>1 DEF Told, At
  <2>2. CASE ~Waits(c)
    BY <1>7, <2>2 DEF Told, At
  <2> QED BY <2>1, <2>2
<1>13. \A c \in WmCallers : Told(c) => ~Waits(c)
  BY <1>6 DEF Told, At
<1> HIDE DEF made
<1>14. ASSUME HeardOrTold PROVE HeardOrTold'
  <2>1. wmListeners' \subseteq wmDisplays'
    BY <1>1, <1>2, <1>14 DEF HeardOrTold
  <2>2. ASSUME NEW x \in wmDisplays', x \notin wmListeners, x \notin unheard
        PROVE  \E c \in WmCallers : Told(c)' /\ toLower(caller'[c].client) = x
    <3>1. CASE x \in wmDisplays
      <4>1. PICK c \in WmCallers : Told(c) /\ toLower(caller[c].client) = x
        BY <1>14, <2>2, <3>1 DEF HeardOrTold
      <4>2. Told(c)' /\ caller'[c].client = caller[c].client
        BY <1>12, <1>13, <4>1
      <4> QED BY <4>1, <4>2
    <3>2. CASE x \notin wmDisplays
      <4>1. PICK k \in made : x = Client(k)
        BY <1>2, <2>2, <3>2
      <4>2. PICK c \in WmCallers : k \in Of(c)
        BY <1>5, <2>2, <4>1
      <4>3. toLower(caller[c].client) = x /\ Waits(c) /\ Gets(c)
        BY <1>4, <1>9, <4>1, <4>2
      <4>4. Told(c)' /\ caller'[c].client = caller[c].client
        BY <1>12, <4>3
      <4> QED BY <4>3, <4>4
    <3> QED BY <3>1, <3>2
  <2>3. ASSUME NEW c \in WmCallers, Told(c)'
        PROVE  toLower(caller'[c].client) \in wmDisplays'
    <3>0. caller'[c].client = caller[c].client
      BY <1>12
    <3>1. CASE Waits(c)
      <4>1. PICK k \in made : k \in Of(c)
        BY <1>10, <1>12, <2>3, <3>1
      <4>2. Client(k) = toLower(caller[c].client)
        BY <1>4, <4>1
      <4> QED BY <1>2, <3>0, <4>1, <4>2
    <3>2. CASE ~Waits(c)
      BY <1>2, <1>12, <1>14, <2>3, <3>0, <3>2 DEF HeardOrTold
    <3> QED BY <3>1, <3>2
  <2> QED BY <1>1, <2>1, <2>2, <2>3 DEF HeardOrTold, toLower
<1> QED BY <1>1, <1>11, <1>14 DEF WindowInv, BeforeInitialize

\* ClientsAreHeard: while RDKWindowManager is on for the first time in its
\* process and no call is in progress it listens to the clients the
\* compositor has and to no others, for every number of callers and names,
\* although calls for one client race and the compositor refuses some of
\* them or does not tell its list; only a client for which a caller could
\* not wait, or could not add the listener, may go unheard.
THEOREM ClientsAlwaysHeard == WindowSpec => []ClientsAreHeard
<1>1. WindowInit => WindowInv
  BY DEF WindowInit, WindowInv, CallersOK, BeforeInitialize, At, CallerTypes, CallerPlaces
<1>2. WindowInv /\ [WindowNext]_windowVars => WindowInv'
  <2> SUFFICES ASSUME WindowInv, [WindowNext]_windowVars PROVE WindowInv'
    OBVIOUS
  <2>0. (\A c \in WmCallers : At(c, "waiting") => caller'[c] = caller[c]) /\ unheard \subseteq unheard'
          /\ UNCHANGED gCreateDisplayRequests
          => \A k \in DOMAIN gCreateDisplayRequests' : RequestOK(gCreateDisplayRequests[k])'
    BY RequestsKept DEF WindowInv
  <2>1. CASE Initialize
    <3>1. /\ UNCHANGED <<sRunning, gCreateDisplayRequests, wmDisplays, unheard, caller>>
          /\ plugin = "off" /\ plugin' = "on" /\ wmListeners' = {}
      BY <2>1 DEF Initialize
    <3>2. CallersOK'
      BY <2>0, <3>1 DEF WindowInv, CallersOK
    <3> QED BY <3>1, <3>2 DEF WindowInv, BeforeInitialize, HeardOrTold, Told, At
  <2>2. CASE RenderBegins
    <3>1. /\ UNCHANGED <<plugin, sRunning, gCreateDisplayRequests, wmDisplays, wmListeners, unheard, caller>>
          /\ renderThread # "none"
      BY <2>2 DEF RenderBegins
    <3>2. CallersOK'
      BY <2>0, <3>1 DEF WindowInv, CallersOK
    <3> QED BY <3>1, <3>2 DEF WindowInv, BeforeInitialize, HeardOrTold, Told, At
  <2>3. CASE RenderFrame
    BY <2>3, FrameKeeps
  <2>4. CASE StopsRunning \/ RemovesListeners
    <3>1. /\ UNCHANGED <<gCreateDisplayRequests, unheard, caller>> /\ ~sRunning'
      BY <2>4 DEF StopsRunning, RemovesListeners, WindowInv
    <3>2. CallersOK'
      BY <2>0, <3>1 DEF WindowInv, CallersOK
    <3> QED BY <3>1, <3>2 DEF WindowInv
  <2>5. CASE ClearsRequests
    BY <2>5 DEF ClearsRequests, WindowInv, CallersOK
  <2>6. ASSUME NEW c \in WmCallers, CallerStep(c) \/ WaitFails(c) PROVE WindowInv'
    BY <2>6, CallerKeeps
  <2>7. ASSUME NEW c \in WmCallers, NEW s \in Spellings, CreateDisplay(c, s) PROVE WindowInv'
    <3>1. /\ plugin = "on" /\ caller[c].at = "idle" /\ caller' = [caller EXCEPT ![c] = [at |-> "asking", client |-> s, mResult |-> FALSE]]
          /\ UNCHANGED <<plugin, sRunning, gCreateDisplayRequests, wmDisplays, wmListeners, unheard>>
      BY <2>7 DEF CreateDisplay, At, renderVars
    <3>2. sRunning => plugin = "on" /\ HeardOrTold
      BY <3>1 DEF WindowInv
    <3> QED BY <3>1, <3>2, CallerGoesOn
  <2>8. CASE UNCHANGED windowVars
    <3>1. UNCHANGED <<plugin, renderThread, sRunning, gCreateDisplayRequests, wmDisplays, wmListeners, unheard, caller>>
      BY <2>8 DEF windowVars, renderVars
    <3>2. CallersOK'
      BY <2>0, <3>1 DEF WindowInv, CallersOK
    <3> QED BY <3>1, <3>2 DEF WindowInv, BeforeInitialize, HeardOrTold, Told, At
  <2> QED BY <2>1, <2>2, <2>3, <2>4, <2>5, <2>6, <2>7, <2>8 DEF WindowNext, RenderStep, CallerMay
<1>3. WindowInv => ClientsAreHeard
  BY DEF WindowInv, HeardOrTold, Told, At, ClientsAreHeard
<1> QED BY <1>1, <1>2, <1>3, PTL DEF WindowSpec
=============================================================================
