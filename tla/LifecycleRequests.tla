------------------------- MODULE LifecycleRequests -------------------------
(***************************************************************************)
(* The requests of LifecycleManager as steps.  LifecycleManager has what   *)
(* becomes of them; here are the locks they take, and the requests that    *)
(* only read.                                                              *)
(***************************************************************************)
EXTENDS RequestSteps

Admin(body) == Within("mAdminLock", body)
Registered  == Under("mAdminLock", Effect("notification"))

\* Two lists of listeners, for each of the two interfaces.
Register   == Admin(<<Maybe(<<Registered>>)>>)
Unregister == Admin(<<Either(<<Registered>>, <<Sets(FALSE)>>)>>)

\* The list of contexts is changed under the lock by the job that deletes
\* one, and walked and extended without it by every request.
getContext   == <<Under("mAdminLock", Looks)>>
Loaded       == Under("mAdminLock", Effect("mLoadedApplications"))
OfLoaded(body) == getContext \o <<Either(body, <<Sets(FALSE)>>)>>

\* An event is handled and told with the lock held.
Dispatch == Admin(<<
    Either(<<Maybe(<<Loaded>>), Repeat(<<Under("mAdminLock", Effect("notification called"))>>)>>,
           <<Maybe(getContext \o <<Effect("semaphore posted")>>)>>)>>)

-----------------------------------------------------------------------------
updateState == <<Effect("context")>> \o Within("gRequestMutex", <<Under("gRequestMutex", Effect("gRequests"))>>)

SpawnApp          == getContext \o <<Maybe(<<Loaded>>)>> \o updateState
SetTargetAppState == OfLoaded(updateState)
UnloadApp         == OfLoaded(updateState)
KillApp           == OfLoaded(updateState)
CloseApp          == OfLoaded(KillApp \o <<IfGood(<<Maybe(SpawnApp)>>, NoSteps)>>)

SendIntentToActiveApp == OfLoaded(<<Try("sendIntent"), IfGood(<<Effect("mMostRecentIntent")>>, NoSteps)>>)
AppReady              == OfLoaded(<<Effect("mAppReadySemaphore")>>)
StateChangeComplete   == NoSteps

\* Without its statistics an application is listed all the same.
GetLoadedApps == getContext \o <<Repeat(<<Maybe(<<Ignore("getRuntimeStats")>>)>>)>>
IsAppLoaded   == getContext

-----------------------------------------------------------------------------
Catalogue == [
    Register |-> Register, Unregister |-> Unregister, Dispatch |-> Dispatch, SpawnApp |-> SpawnApp,
    SetTargetAppState |-> SetTargetAppState, UnloadApp |-> UnloadApp, KillApp |-> KillApp,
    CloseApp |-> CloseApp, SendIntentToActiveApp |-> SendIntentToActiveApp, AppReady |-> AppReady,
    StateChangeComplete |-> StateChangeComplete, GetLoadedApps |-> GetLoadedApps,
    IsAppLoaded |-> IsAppLoaded]
=============================================================================
