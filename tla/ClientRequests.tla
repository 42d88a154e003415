--------------------------- MODULE ClientRequests ---------------------------
(***************************************************************************)
(* The requests of two plugins that are clients of one daemon each, as     *)
(* steps: Telemetry of T2, over rbus, with its jobs of power changes (the  *)
(* privacy mode is in UserSettings); ResourceManager of the Essos resource *)
(* manager, beside whose list of blocked applications it keeps one.        *)
(***************************************************************************)
EXTENDS RequestSteps

Admin(body) == Within("_adminLock", body)
Registered  == Under("_adminLock", Effect("notification"))

Register   == Admin(<<Maybe(<<Registered>>)>>)
Unregister == Admin(<<Either(<<Registered>>, <<Sets(FALSE)>>)>>)

\* The default profiles, unless profiles are stored; at activation.
setRFCReportProfiles == <<
    Maybe(Within("profile directory", NoSteps)),
    Maybe(Within("profile file", <<Maybe(<<Ignore("setRFCParameter")>>)>>))>>

SetReportProfileStatus == Needs(<<Either(<<Try("setRFCParameter")>>, <<Sets(FALSE)>>)>>)
LogApplicationEvent    == Needs(<<Effect("sendMessage")>>)

\* The answer of T2 comes later, in onReportUploadStatus.
OverRbus(f) == <<Either(<<Try(f)>>, <<Sets(FALSE)>>)>>
UploadReport == OverRbus("T2_ON_DEMAND_REPORT")
AbortReport  == OverRbus("T2_ABORT_ON_DEMAND_REPORT")

onReportUploadStatus == <<Effect("job submitted")>>
\* A report is uploaded when the device falls asleep, and aborted when it
\* falls asleep deeply.
onPowerModeChanged == <<Maybe(<<Effect("job submitted")>>)>>

\* Reports are asked for, and listeners told, with the lock held.
Dispatch == Admin(<<Either(<<Either(UploadReport, AbortReport)>>,
                           <<Repeat(<<Under("_adminLock", Effect("OnReportUpload"))>>)>>)>>)

-----------------------------------------------------------------------------
TelemetryCatalogue == [
    Register |-> Register, Unregister |-> Unregister, setRFCReportProfiles |-> setRFCReportProfiles,
    SetReportProfileStatus |-> SetReportProfileStatus, LogApplicationEvent |-> LogApplicationEvent,
    UploadReport |-> UploadReport, AbortReport |-> AbortReport,
    onReportUploadStatus |-> onReportUploadStatus, onPowerModeChanged |-> onPowerModeChanged,
    Dispatch |-> Dispatch]

-----------------------------------------------------------------------------
(* ResourceManager *)

setAVBlocked == <<Try("blacklist"), IfGood(<<Effect("mAppsAVBlacklistStatus")>>, NoSteps)>>
\* Without a resource manager, with the feature off, or without the
\* parameters nothing is done, with success.
setAVBlockedWrapper == <<Maybe(<<Maybe(setAVBlocked)>>)>>
getBlockedAVApplicationsWrapper == <<Sets(FALSE), Maybe(<<Sets(TRUE)>>)>>

\* One call to TextToSpeech, which has to answer success.
reserveTTSResource        == <<Try("setACL")>>
reserveTTSResourceForApps == <<Try("setACL")>>
\* Done without doing anything when the feature is off.
reserveTTSResourceWrapper        == <<Maybe(Needs(reserveTTSResource))>>
reserveTTSResourceWrapperForApps == <<Maybe(Needs(reserveTTSResourceForApps))>>

ResourceCatalogue == [
    setAVBlocked |-> setAVBlockedWrapper,
    getBlockedAVApplications |-> getBlockedAVApplicationsWrapper,
    reserveTTSResource |-> reserveTTSResourceWrapper,
    reserveTTSResourceForApps |-> reserveTTSResourceWrapperForApps]
=============================================================================
