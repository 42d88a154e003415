-------------------------- MODULE PackageRequests --------------------------
(***************************************************************************)
(* The requests of PackageManager as steps.  PackageManager and            *)
(* PackageDownloader have what they do to packages and downloads; here are *)
(* their locks and replies, and the requests that only read.               *)
(***************************************************************************)
EXTENDS RequestSteps

Admin(body) == Within("mAdminLock", body)
Registered  == Under("mAdminLock", Effect("notification"))
Listening   == <<Repeat(<<Under("mAdminLock", Effect("notification called"))>>)>>

\* One list of listeners for downloads, one for installations.
Register   == Admin(<<Maybe(<<Registered>>)>>)
Unregister == Admin(<<Either(<<Registered>>, <<Sets(FALSE)>>)>>)
\* A listener of downloads that goes takes the thread with it, whether it is
\* known or not; with no thread left to join, join throws.
UnregisterDownloads == <<Effect("thread ended"), Throws>> \o Unregister

NotifyDownloadStatus == Admin(Listening)
NotifyInstallStatus  == Admin(Listening)

-----------------------------------------------------------------------------
(* Downloads *)

Queue(body) == Within("mMutex", body)
Download    == Queue(<<Under("mMutex", Effect("mDownloadQueue"))>>)
getNext     == Queue(<<Under("mMutex", Looks), Maybe(<<Under("mMutex", Effect("mInprogressDownload"))>>)>>)

\* The download in progress is looked at without the lock under which the
\* thread takes the next one.
InProgress == Under("mMutex", Looks)
OnInProgress(f) == <<InProgress, Either(<<Either(<<Effect(f)>>, <<Sets(FALSE)>>)>>, <<Sets(FALSE)>>)>>
Pause     == OnInProgress("paused")
Resume    == OnInProgress("resumed")
Cancel    == OnInProgress("cancelled")
RateLimit == OnInProgress("rate set")
Progress  == <<InProgress, Asks>>
Delete    == <<InProgress, Either(<<Try("remove")>>, <<Sets(FALSE)>>)>>
\* Not implemented, and answers success.
GetStorageDetails == NoSteps

-----------------------------------------------------------------------------
(* Installation.  The states of packages are not guarded by a lock. *)

OfKnown(body) == <<Either(body, <<Sets(FALSE)>>)>>

createStorageManagerObject == <<Either(<<Sets(TRUE)>>, <<Asks>>)>>
\* A package that could not be installed stays in the list.
Install == Needs(<<Maybe(<<Effect("mState")>>)>> \o createStorageManagerObject \o <<IfGood(
    <<Try("CreateStorage"), IfGood(NotifyInstallStatus \o <<Try("Install")>>, NoSteps)>>
    \o NotifyInstallStatus, NoSteps)>>)
\* UNINSTALLED is told although the library may have failed.
Uninstall == OfKnown(createStorageManagerObject \o <<IfGood(
    <<Try("DeleteStorage"),
      IfGood(NotifyInstallStatus \o <<Try("Uninstall")>> \o NotifyInstallStatus, NoSteps)>>, NoSteps)>>)

ListPackages  == NoSteps
Config        == OfKnown(NoSteps)
\* Of a package it does not know it answers success too.
PackageState  == NoSteps
GetLockedInfo == OfKnown(NoSteps)

Counts == Effect("mLockCount")
Lock   == OfKnown(<<Either(<<Counts>>, <<Try("Lock"), IfGood(<<Counts>>, NoSteps)>>)>>)
\* The count is taken down before the library is asked.
Unlock == OfKnown(<<Either(<<Counts, Maybe(<<Try("Unlock")>>)>>, <<Sets(FALSE)>>)>>)

-----------------------------------------------------------------------------
Catalogue == [
    Register |-> Register, Unregister |-> Unregister, RegisterDownloads |-> Register,
    UnregisterDownloads |-> UnregisterDownloads, NotifyDownloadStatus |-> NotifyDownloadStatus,
    getNext |-> getNext, Download |-> Download, Pause |-> Pause, Resume |-> Resume, Cancel |-> Cancel,
    RateLimit |-> RateLimit, Progress |-> Progress, Delete |-> Delete,
    GetStorageDetails |-> GetStorageDetails, Install |-> Install, Uninstall |-> Uninstall,
    ListPackages |-> ListPackages, Config |-> Config, PackageState |-> PackageState,
    GetLockedInfo |-> GetLockedInfo, Lock |-> Lock, Unlock |-> Unlock]
=============================================================================
