----------------------------- MODULE MCServices -----------------------------
(***************************************************************************)
(* Seven services that share nothing, for TLC in one run: the choice of    *)
(* part made at the start says which of them runs, and the others stand    *)
(* still in their initial states.                                          *)
(***************************************************************************)
EXTENDS RuntimeManager, PackageDownloader, USBMassStorage, PersistentStore, UserSettings,
    Monitor, Analytics

VARIABLE part
serviceVars == <<part, runtimeVars, downloaderVars, usbVars, storeVars, settingsVars, monitorVars,
                 analyticsVars>>

\* What may differ from the start is fixed in a service that stands still.
Init ==
    /\ part \in {"runtime", "downloader", "usb", "store", "settings", "monitor", "analytics"}
    /\ RuntimeInit /\ DownloaderInit /\ UsbInit /\ StoreInit /\ SettingsInit /\ MonitorInit /\ AnalyticsInit
    /\ part # "usb" => attached = {}
    /\ part # "settings" => \A s \in Settings : stored[s] = NoValue
    /\ part # "monitor" => restartLimit = 0 /\ restartWindow
    /\ part # "analytics" => timeKnown /\ mBackends

Only(p) == part = p /\ UNCHANGED part

Next ==
    \/ /\ Only("runtime") /\ RuntimeNext
       /\ UNCHANGED <<downloaderVars, usbVars, storeVars, settingsVars, monitorVars, analyticsVars>>
    \/ /\ Only("downloader") /\ DownloaderNext
       /\ UNCHANGED <<runtimeVars, usbVars, storeVars, settingsVars, monitorVars, analyticsVars>>
    \/ /\ Only("usb") /\ UsbNext
       /\ UNCHANGED <<runtimeVars, downloaderVars, storeVars, settingsVars, monitorVars, analyticsVars>>
    \/ /\ Only("store") /\ StoreNext
       /\ UNCHANGED <<runtimeVars, downloaderVars, usbVars, settingsVars, monitorVars, analyticsVars>>
    \/ /\ Only("settings") /\ SettingsNext
       /\ UNCHANGED <<runtimeVars, downloaderVars, usbVars, storeVars, monitorVars, analyticsVars>>
    \/ /\ Only("monitor") /\ MonitorNext
       /\ UNCHANGED <<runtimeVars, downloaderVars, usbVars, storeVars, settingsVars, analyticsVars>>
    \/ /\ Only("analytics") /\ AnalyticsNext
       /\ UNCHANGED <<runtimeVars, downloaderVars, usbVars, storeVars, settingsVars, monitorVars>>

\* The first job of each pool is taken, and Dobby finishes what it was told.
Fairness ==
    /\ \A i \in Instances : WF_runtimeVars(part = "runtime" /\ DobbyFinishes(i))
    /\ WF_runtimeVars(part = "runtime" /\ OciDispatch(1))
    /\ WF_runtimeVars(part = "runtime" /\ RtDispatch(1))

Spec == Init /\ [][Next]_serviceVars /\ Fairness
=============================================================================
