------------------------- MODULE AppManagerRequests -------------------------
(***************************************************************************)
(* The requests of AppManager as steps.  The module AppManager has those   *)
(* that launch and end applications together with LifecycleManager; here   *)
(* they are each by themselves, with the locks they hold.                  *)
(***************************************************************************)
EXTENDS RequestSteps

Admin(body)     == Within("mAdminLock", body)
Connected(body) == Within("connector mAdminLock", body)
Registered      == Under("mAdminLock", Effect("notification"))
\* The handler of state changes walks the records under the connector's lock.
FindsRecord     == Under("connector mAdminLock", Looks)
ChangesRecord   == Under("connector mAdminLock", Effect("mAppInfo"))

Register   == Admin(<<Maybe(<<Registered>>)>>)
Unregister == Admin(<<Either(<<Registered>>, <<Sets(FALSE)>>)>>)
\* The listeners are told with the lock held.
Dispatch   == <<Maybe(Admin(<<Repeat(<<Under("mAdminLock", Effect("notification called"))>>)>>))>>
OnAppInstallationStatus == <<Repeat(<<Effect("job submitted")>>)>>

-----------------------------------------------------------------------------
(* Packages *)

fetchAppPackageList == <<Sets(FALSE), Maybe(<<Maybe(Within("package iterator", <<Sets(TRUE)>>))>>)>>
GetInstalledApps == Admin(fetchAppPackageList \o <<IfGood(<<Repeat(<<FindsRecord>>)>>, NoSteps)>>)
IsInstalled      == Admin(fetchAppPackageList)

createOrUpdatePackageInfoByAppId == <<Either(<<ChangesRecord>>, <<Sets(FALSE)>>)>>
removeAppInfoByAppId             == <<Either(<<ChangesRecord>>, <<Sets(FALSE)>>)>>

\* An application that is loaded and asleep needs no further lock.
packageLock ==
    Connected(<<Asks>>) \o <<FindsRecord, IfGood(<<Maybe(
        fetchAppPackageList
        \o <<IfGood(<<Either(<<Try("Lock"), IfGood(createOrUpdatePackageInfoByAppId, NoSteps)>>,
                             <<Sets(FALSE)>>)>>, NoSteps)>>)>>, NoSteps)>>

packageUnLock == <<FindsRecord, Either(
    <<Try("Unlock"), IfGood(removeAppInfoByAppId, NoSteps)>>, <<Sets(FALSE)>>)>>

\* getline's buffer is not freed, and taking the last character of an empty
\* string is undefined.
getCustomValues == <<
    Maybe(<<Takes("line")>> \o Within("aipath file", NoSteps)), Throws, Maybe(<<Effect("runtimeConfig")>>)>>

-----------------------------------------------------------------------------
(* Applications *)

\* With a connector, which there is once the plugin is configured.
Launches(f) == Admin(<<Sets(FALSE), Maybe(
    packageLock \o getCustomValues \o <<IfGood(Connected(<<Try(f)>>), NoSteps)>>)>>)
LaunchApp  == Launches("launch")
PreloadApp == Launches("preLoadApp")
CloseApp   == Needs(Admin(<<Sets(FALSE), Maybe(Connected(<<Try("closeApp")>>))>>))

\* The application ends although its package may stay locked.
Ends(f) == <<Maybe(Connected(<<Try(f)>>) \o <<IfGood(packageUnLock, NoSteps)>>)>>
TerminateApp == Needs(Admin(<<Sets(FALSE)>> \o Ends("terminateApp")))
KillApp      == Admin(Ends("killApp"))

sendIntent == <<Sets(FALSE), Maybe(<<Maybe(
    Connected(<<FindsRecord, Maybe(<<Try("SendIntentToActiveApp")>>)>>))>>)>>
SendIntent == Admin(<<Maybe(sendIntent)>>)

\* The records are brought up to date on the way.
getLoadedApps == Connected(Body(<<Sets(FALSE), Maybe(
    <<Asks, IfGood(<<Maybe(<<Leaves>>), Repeat(<<ChangesRecord>>)>>, NoSteps)>>)>>))
GetLoadedApps == Admin(<<Sets(FALSE), Maybe(getLoadedApps)>>)

-----------------------------------------------------------------------------
(* Properties and data *)

\* The store is connected to when it is first needed; the reference is kept.
OnStore(step) == Needs(Admin(<<Sets(FALSE), Maybe(<<step>>)>>))
GetAppProperty == OnStore(Asks)
SetAppProperty == OnStore(Try("SetValue"))

OnStorage(f) == Admin(<<Either(<<Try(f)>>, <<Sets(FALSE)>>)>>)
ClearAppData    == Needs(OnStorage("Clear"))
ClearAllAppData == OnStorage("ClearAll")

\* What is not implemented answers success, the limits with -1.
NotImplemented == NoSteps

-----------------------------------------------------------------------------
Catalogue == [
    Register |-> Register, Unregister |-> Unregister, Dispatch |-> Dispatch,
    OnAppInstallationStatus |-> OnAppInstallationStatus, GetInstalledApps |-> GetInstalledApps,
    IsInstalled |-> IsInstalled, LaunchApp |-> LaunchApp, PreloadApp |-> PreloadApp,
    CloseApp |-> CloseApp, TerminateApp |-> TerminateApp, KillApp |-> KillApp,
    SendIntent |-> SendIntent, GetLoadedApps |-> GetLoadedApps, GetAppProperty |-> GetAppProperty,
    SetAppProperty |-> SetAppProperty, ClearAppData |-> ClearAppData,
    ClearAllAppData |-> ClearAllAppData, StartSystemApp |-> NotImplemented,
    StopSystemApp |-> NotImplemented, GetAppMetadata |-> NotImplemented,
    GetMaxRunningApps |-> NotImplemented, GetMaxHibernatedApps |-> NotImplemented,
    GetMaxHibernatedFlashUsage |-> NotImplemented, GetMaxInactiveRamUsage |-> NotImplemented]
=============================================================================
