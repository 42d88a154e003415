----------------------- MODULE WindowManagerRequests -----------------------
(***************************************************************************)
(* The requests of RDKWindowManager as steps.  Each checks its parameters  *)
(* and calls a method of the same name, which calls the compositor under   *)
(* gRdkWindowManagerMutex.  CreateDisplay with its render thread is also   *)
(* the subject of the module WindowManager.                                *)
(***************************************************************************)
EXTENDS RequestSteps

Tries(f)      == Under("gRdkWindowManagerMutex", Try(f))
Ignores(f)    == Under("gRdkWindowManagerMutex", Ignore(f))
Alters(f)     == Under("gRdkWindowManagerMutex", Effect(f))
Locked(body)  == Within("gRdkWindowManagerMutex", body)
Compositor(f) == Locked(<<Tries(f)>>)
Reads         == Locked(<<Under("gRdkWindowManagerMutex", Asks)>>)

Admin(steps)  == Within("mAdminLock", steps)
Registered    == Under("mAdminLock", Effect("notification"))

Register   == Admin(<<Maybe(<<Registered>>)>>)
Unregister == Admin(<<Either(<<Registered>>, <<Sets(FALSE)>>)>>)
\* The listeners are told with the lock held.
Dispatch   == Admin(<<Repeat(<<Under("mAdminLock", Effect("OnUserInactivity"))>>)>>)

isClientExists ==
    Peek("gRdkWindowManagerMutex") \o <<Maybe(Peek("gRdkWindowManagerMutex"))>>

\* That the listener cannot be added is only logged.
createDisplay == isClientExists \o <<Either(
    Locked(<<Alters("display requested")>>) \o <<Awaits("createDisplay"),
        IfGood(Locked(<<Ignores("addListener")>>), NoSteps)>>,
    <<Sets(FALSE)>>)>>
CreateDisplay == Needs(createDisplay)
GetClients == Reads

-----------------------------------------------------------------------------
(* Keys *)

addKeyIntercept == Compositor("addKeyIntercept")
AddKeyIntercept == Needs(addKeyIntercept)

\* What is malformed is skipped, and the result is the last intercept's.
addKeyIntercepts == <<Sets(FALSE), Repeat(<<Maybe(addKeyIntercept)>>)>>
AddKeyIntercepts == Needs(addKeyIntercepts)

removeKeyIntercept == Compositor("removeKeyIntercept")
RemoveKeyIntercept == Needs(removeKeyIntercept)

eachKey(f) == Locked(Body(<<Repeat(<<Either(<<Tries(f)>>, <<Sets(FALSE)>>), IfGood(NoSteps, <<Leaves>>)>>)>>))
addKeyListeners    == eachKey("addKeyListener")
removeKeyListeners == eachKey("removeKeyListener")
AddKeyListener    == Needs(addKeyListeners)
RemoveKeyListener == Needs(removeKeyListeners)

injectKey == Compositor("injectKey")
InjectKey == injectKey

generateKey == <<Sets(FALSE), Repeat(Locked(<<Maybe(<<Tries("generateKey")>>)>>))>>
GenerateKey == Needs(generateKey)

EnableKeyRepeats == Compositor("enableKeyRepeats")
GetKeyRepeatsEnabled == Reads
IgnoreKeyInputs == Compositor("ignoreKeyInputs")
KeyRepeatConfig == Needs(Locked(<<Alters("setKeyRepeatConfig")>>))

\* After a client that refuses or is no string, the others are left out.
EnableInputEvents == Needs(Locked(Body(<<Either(
    <<Repeat(<<Either(<<Tries("enableInputEvents")>>, <<Sets(FALSE)>>), IfGood(NoSteps, <<Leaves>>)>>)>>,
    <<Sets(FALSE)>>)>>)))

-----------------------------------------------------------------------------
(* Inactivity: failures of the compositor do not show *)

enableInactivityReporting == Locked(<<Alters("enableInactivityReporting")>>)
EnableInactivityReporting == enableInactivityReporting
setInactivityInterval == Locked(<<Ignores("setInactivityInterval")>>)
SetInactivityInterval == setInactivityInterval
resetInactivityTime == Locked(<<Ignores("resetInactivityTime")>>)
ResetInactivityTime == resetInactivityTime

-----------------------------------------------------------------------------
Catalogue == [
    Register |-> Register, Unregister |-> Unregister, Dispatch |-> Dispatch,
    CreateDisplay |-> CreateDisplay, GetClients |-> GetClients, AddKeyIntercept |-> AddKeyIntercept,
    AddKeyIntercepts |-> AddKeyIntercepts, RemoveKeyIntercept |-> RemoveKeyIntercept,
    AddKeyListener |-> AddKeyListener, RemoveKeyListener |-> RemoveKeyListener,
    InjectKey |-> InjectKey, GenerateKey |-> GenerateKey, EnableKeyRepeats |-> EnableKeyRepeats,
    GetKeyRepeatsEnabled |-> GetKeyRepeatsEnabled, IgnoreKeyInputs |-> IgnoreKeyInputs,
    KeyRepeatConfig |-> KeyRepeatConfig, EnableInputEvents |-> EnableInputEvents,
    EnableInactivityReporting |-> EnableInactivityReporting,
    SetInactivityInterval |-> SetInactivityInterval, ResetInactivityTime |-> ResetInactivityTime]
=============================================================================
