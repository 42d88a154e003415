--------------------------- MODULE PluginPrograms ---------------------------
(***************************************************************************)
(* What the plugins do with pointers, references and registrations when    *)
(* they are activated and deactivated, as sequences of steps: Initialize   *)
(* and Deinitialize of the plugin, and what its implementation does when   *)
(* it is created, configured and destroyed.  PluginActivation carries the  *)
(* steps out.                                                              *)
(*                                                                         *)
(* A step names the member it uses.  In every plugin the members that hold *)
(* the framework's IShell, the implementation and its IConfiguration are   *)
(* called service, impl and configure here.  Assertions are left out, as   *)
(* in a release build.                                                     *)
(***************************************************************************)
EXTENDS Sequences

Nothing == <<>>
Step(do, x, then, else) ==
    [do |-> do, of |-> x, body |-> Nothing, then |-> then, else |-> else]
Plain(do, x) == Step(do, x, Nothing, Nothing)

Keep(x)    == Plain("keep", x)      \* x = argument or new object, with a reference
Point(x)   == Plain("point", x)     \* x = argument or new object, without
AddRef(x)  == Plain("addRef", x)
Release(x) == Plain("release", x)
Forget(x)  == Plain("forget", x)    \* x = nullptr
Drop(x)    == Plain("drop", x)      \* x->Release(); x = nullptr

\* x->Register(r); what a plugin has opened with JSON-RPC, or started.
Register(x, r)   == [Plain("register", x) EXCEPT !.then = <<r>>]
Unregister(x, r) == [Plain("unregister", x) EXCEPT !.then = <<r>>]
Opens(r)  == Register("this", r)
Closes(r) == Unregister("this", r)
Watch     == Register("service", "death")   \* of the implementation's process
Unwatch   == Unregister("service", "death")

\* x = the implementation, an interface of it, or another plugin; then the
\* first steps if there is one, the second if not.
Root(then, else)          == Step("root", "impl", then, else)
Query(x, then, else)      == Step("query", x, then, else)
ByCallsign(x, then, else) == Step("byCallsign", x, then, else)

\* x->f(): the steps of f, then good if it succeeds and bad if not.
Call(x, f, good, bad) == [Step("call", x, good, bad) EXCEPT !.body = f]
Refuse == Plain("refuse", "")           \* f returns an error

If(x, then)    == Step("if", x, then, Nothing)
IfDrop(x)      == If(x, <<Drop(x)>>)
Sometimes(then) == Step("sometimes", "", then, Nothing)  \* if a thread has come so far
IfLeave(x, r)  == If(x, <<Unregister(x, r), Drop(x)>>)
Fail           == Plain("fail", "")     \* Initialize will return a message
Exit           == Plain("exit", "")     \* Initialize returns at once
IfFailed(then) == Step("ifFailed", "", then, Nothing)

\* The end of most plugins: the connection, if there is one, is terminated
\* after the implementation has been released.
Terminate == Plain("terminate", "")
ClearId   == Plain("clearId", "")
End       == <<Drop("impl"), Terminate>>
Leave     == <<ClearId, Drop("service")>>

-----------------------------------------------------------------------------
(* AppManager *)

AppManagerDeinitialize == <<
    Unwatch,
    If("impl", <<Unregister("impl", "sink"), Closes("JAppManager"), IfDrop("configure")>> \o End)>> \o Leave

\* What the queries have counted is counted once more.
createLifecycleManagerRemoteObject ==
    ByCallsign("LifecycleManager",
        <<ByCallsign("LifecycleManagerState",
            <<AddRef("LifecycleManager"), AddRef("LifecycleManagerState"),
              Register("LifecycleManagerState", "states")>>, Nothing)>>, Nothing)

createPackageManagerObject ==
    ByCallsign("PackageHandler",
        <<ByCallsign("PackageInstaller",
            <<AddRef("PackageInstaller"), Register("PackageInstaller", "packages")>>, Nothing)>>, Nothing)

AppManagerConfigure == <<
    Keep("mCurrentservice"), Point("connector"), Keep("connector service"),
    createLifecycleManagerRemoteObject,
    ByCallsign("PersistentStore", Nothing, Nothing),
    createPackageManagerObject,
    ByCallsign("StorageManager", Nothing, Nothing)>>

AppManagerInitialize == <<
    Keep("service"), Watch,
    Root(<<Query("configure",
        <<Register("impl", "sink"), Opens("JAppManager"),
          Call("configure", AppManagerConfigure, Nothing, <<Fail>>)>>, <<Fail>>)>>, <<Fail>>),
    IfFailed(AppManagerDeinitialize)>>

\* The object of StorageManager stays.
AppManagerDestroyed == <<
    If("connector",
        <<IfDrop("LifecycleManager"), IfLeave("LifecycleManagerState", "states"),
          IfDrop("connector service"), Forget("connector")>>),
    IfDrop("PersistentStore"), IfDrop("PackageHandler"),
    IfLeave("PackageInstaller", "packages"), IfDrop("mCurrentservice")>>

-----------------------------------------------------------------------------
(* LifecycleManager: the result of Configure is not looked at, and the      *)
(* transition thread is started last, when both plugins have been found.    *)

LifecycleManagerConfigure == <<
    Keep("mService"), Point("mRuntimeManagerHandler"),
    ByCallsign("RuntimeManager", <<Register("RuntimeManager", "containers")>>, <<Refuse>>),
    Point("mWindowManagerHandler"),
    ByCallsign("RDKWindowManager", <<Register("RDKWindowManager", "windows")>>, <<Refuse>>),
    Point("thread"), Opens("thread")>>

LifecycleManagerInitialize == <<
    Keep("service"),
    Root(<<
        Query("configure",
            <<Call("configure", LifecycleManagerConfigure, Nothing, Nothing), Drop("configure")>>, Nothing),
        Query("mLifecycleManagerState", Nothing, Nothing),
        Register("mLifecycleManagerState", "sink"), Opens("JLifecycleManagerState")>>, <<Fail>>)>>

LifecycleManagerDeinitialize == <<
    If("mLifecycleManagerState",
        <<Unregister("mLifecycleManagerState", "sink"), Closes("JLifecycleManagerState"),
          Drop("mLifecycleManagerState")>>),
    If("impl", End)>> \o Leave

\* Joining a thread that was not started throws, and the rest of
\* RequestHandler::terminate is skipped.
LifecycleManagerDestroyed == <<
    If("thread",
        <<Closes("thread"), Forget("thread"),
          If("mWindowManagerHandler", <<Unregister("RDKWindowManager", "windows"), Drop("RDKWindowManager")>>),
          If("mRuntimeManagerHandler", <<Unregister("RuntimeManager", "containers"), Drop("RuntimeManager")>>)>>),
    IfDrop("mService")>>

-----------------------------------------------------------------------------
(* RuntimeManager *)

RuntimeManagerDeinitialize == <<If("impl", <<IfDrop("configure")>> \o End)>> \o Leave

RuntimeManagerConfigure == <<
    Keep("mCurrentservice"),
    ByCallsign("StorageManager", Nothing, Nothing),
    ByCallsign("RDKWindowManager",
        <<AddRef("RDKWindowManager"), Register("RDKWindowManager", "windows")>>, Nothing),
    ByCallsign("OCIContainer", <<Register("OCIContainer", "containers")>>, <<Refuse>>)>>

RuntimeManagerInitialize == <<
    Keep("service"),
    Root(<<Query("configure",
        <<Call("configure", RuntimeManagerConfigure, Nothing, <<Fail>>)>>, <<Fail>>)>>, <<Fail>>),
    IfFailed(RuntimeManagerDeinitialize)>>

RuntimeManagerDestroyed == <<
    IfDrop("mCurrentservice"), IfDrop("StorageManager"),
    IfLeave("RDKWindowManager", "windows"), IfLeave("OCIContainer", "containers")>>

-----------------------------------------------------------------------------
(* OCIContainer *)

OCIContainerDeinitialize == <<
    If("impl", <<Unregister("impl", "sink"), Closes("JOCIContainer")>> \o End),
    ClearId,
    If("service", <<Unwatch, Drop("service")>>)>>

OCIContainerInitialize == <<
    Keep("service"), Watch,
    Root(<<Register("impl", "sink"), Opens("JOCIContainer")>>, <<Fail>>),
    IfFailed(OCIContainerDeinitialize)>>

OCIContainerCreated   == <<Opens("DobbyInterface")>>
OCIContainerDestroyed == <<Closes("DobbyInterface")>>

-----------------------------------------------------------------------------
(* PackageManager: two of the three interfaces are not released, and the    *)
(* implementation's Deinitialize is never called.                           *)

PackageManagerConfigure ==
    <<Keep("mCurrentservice"), ByCallsign("StorageManager", Nothing, Nothing), Opens("downloader")>>

PackageManagerInitialize == <<
    Keep("service"), Watch,
    Root(<<
        Call("impl", PackageManagerConfigure, Nothing, Nothing),
        Register("impl", "downloads"), Opens("JPackageDownloader"),
        Query("mPackageInstaller",
            <<Register("mPackageInstaller", "installs"), Opens("JPackageInstaller")>>, Nothing),
        Query("mPackageHandler", <<Opens("JPackageHandler")>>, Nothing)>>, <<Fail>>)>>

\* Unregister joins the downloader's thread.
PackageManagerDeinitialize == <<
    If("service", <<
        Unwatch,
        If("mPackageHandler", <<Closes("JPackageHandler")>>),
        If("mPackageInstaller", <<Unregister("mPackageInstaller", "installs"), Closes("JPackageInstaller")>>),
        If("impl",
            <<Call("impl", <<Closes("downloader")>>, Nothing, Nothing),
              Unregister("impl", "downloads"), Closes("JPackageDownloader")>> \o End),
        Drop("service"), ClearId>>)>>

PackageManagerDestroyed == <<IfDrop("StorageManager")>>

-----------------------------------------------------------------------------
(* StorageManager *)

StorageManagerDropsAnyway ==
    <<Drop("configure"), If("impl", <<Closes("JStorageManager")>> \o End)>> \o Leave
StorageManagerDeinitialize ==
    <<IfDrop("configure"), If("impl", <<Closes("JStorageManager")>> \o End)>> \o Leave

StorageManagerConfigure == <<Keep("mCurrentservice"), ByCallsign("PersistentStore", Nothing, Nothing)>>

StorageManagerInitialize == <<
    Keep("service"),
    Root(<<
        Query("configure", <<Call("configure", StorageManagerConfigure, Nothing, <<Fail>>)>>, <<Fail>>),
        Opens("JStorageManager")>>, <<Fail>>),
    IfFailed(StorageManagerDeinitialize)>>

StorageManagerDestroyed == <<IfDrop("PersistentStore"), IfDrop("mCurrentservice")>>

-----------------------------------------------------------------------------
(* RDKWindowManager *)

RDKWindowManagerDeinitialize == <<
    If("impl",
        <<Unregister("impl", "sink"), Closes("JRDKWindowManager"),
          If("service", <<Call("impl", <<IfDrop("mService"), Closes("shellThread")>>, Nothing, Nothing)>>)>> \o End),
    If("service", <<Unwatch, Drop("service")>>),
    ClearId>>

RDKWindowManagerInitialize == <<
    Keep("service"), Watch,
    Root(<<Call("impl", <<Keep("mService"), Opens("shellThread")>>,
                <<Register("impl", "sink"), Opens("JRDKWindowManager")>>, <<Fail>>)>>, <<Fail>>),
    IfFailed(RDKWindowManagerDeinitialize)>>

-----------------------------------------------------------------------------
(* USBDevice *)

USBDeviceDeinitialize == <<
    If("impl", <<Unregister("impl", "sink"), Closes("JUSBDevice")>> \o End),
    If("service", <<Unwatch, Drop("service")>>),
    ClearId>>

USBDeviceInitialize == <<
    Keep("service"), Watch,
    Root(<<Register("impl", "sink"), Opens("JUSBDevice")>>, <<Fail>>),
    IfFailed(USBDeviceDeinitialize)>>

USBDeviceCreated   == <<Opens("libusb")>>
USBDeviceDestroyed == <<Closes("libusb")>>

-----------------------------------------------------------------------------
(* USBMassStorage *)

USBMassStorageDeinitialize == <<
    Unwatch,
    If("impl",
        <<Unregister("impl", "sink"), Closes("JUSBMassStorage"), Release("configure")>> \o End)>> \o Leave

USBMassStorageConfigure ==
    <<Keep("_service"), ByCallsign("USBDevice", <<Register("USBDevice", "devices")>>, Nothing)>>

USBMassStorageInitialize == <<
    Keep("service"), Watch,
    Root(<<
        Query("configure", <<Call("configure", USBMassStorageConfigure, Nothing, <<Fail>>)>>, <<Fail>>),
        Register("impl", "sink"), Opens("JUSBMassStorage")>>, <<Fail>>),
    IfFailed(USBMassStorageDeinitialize)>>

\* Nothing is unregistered.
USBMassStorageDestroyed == <<IfDrop("USBDevice"), IfDrop("_service")>>

-----------------------------------------------------------------------------
(* UserSettings *)

UserSettingsDeinitialize == <<
    Unwatch,
    If("impl",
        <<Unregister("impl", "sink"), Closes("JUserSettings"), Closes("JUserSettingsInspector"),
          Drop("configure"), Drop("_userSettingsInspector")>> \o End)>> \o Leave

UserSettingsConfigure ==
    <<Keep("_service"), ByCallsign("PersistentStore", <<Register("PersistentStore", "values")>>, Nothing)>>

UserSettingsInitialize == <<
    Keep("service"), Watch,
    Root(<<
        Query("configure", <<Call("configure", UserSettingsConfigure, Nothing, <<Fail>>)>>, <<Fail>>),
        Register("impl", "sink"), Opens("JUserSettings"),
        Query("_userSettingsInspector", <<Opens("JUserSettingsInspector")>>, <<Fail>>)>>, <<Fail>>),
    IfFailed(UserSettingsDeinitialize)>>

UserSettingsDestroyed == <<IfDrop("PersistentStore"), IfDrop("_service")>>

-----------------------------------------------------------------------------
(* Telemetry, built with rbus *)

TelemetryInitialize == <<
    Keep("service"), Watch,
    Root(<<
        Query("configure",
            <<Call("configure",
                <<Keep("_service"),
                  ByCallsign("PowerManager", <<Register("PowerManager", "modes")>>, Nothing),
                  ByCallsign("UserSettings", <<Register("UserSettings", "settings")>>, Nothing)>>,
                Nothing, <<Fail>>)>>, <<Fail>>),
        Register("impl", "sink"), Opens("JTelemetry")>>, <<Fail>>)>>

TelemetryDeinitialize == <<
    Unwatch,
    If("impl",
        <<Unregister("impl", "sink"), Closes("JTelemetry"), Release("configure")>> \o End)>> \o Leave

\* The framework's object is forgotten, not released.
TelemetryDestroyed ==
    <<IfLeave("PowerManager", "modes"), Forget("_service"), IfLeave("UserSettings", "settings")>>

-----------------------------------------------------------------------------
(* CloudStore *)

\* The second call's query for IConfiguration is released again.
CloudStoreInitialize == <<
    Keep("service"),
    ByCallsign("SecurityAgent", <<Drop("SecurityAgent")>>, Nothing),
    Watch,
    Root(<<
        Query("configure",
            <<Call("configure", <<AddRef("_accountStore2"), Release("_accountStore2")>>, Nothing, Nothing),
              Drop("configure")>>, <<Fail>>),
        Opens("JStore2"), Register("impl", "sink")>>, <<Fail>>)>>

CloudStoreLeavesLast == <<
    If("impl", <<Unregister("impl", "sink"), Closes("JStore2")>> \o End), Unwatch>> \o Leave
CloudStoreDeinitialize == <<
    Unwatch,
    If("impl", <<Unregister("impl", "sink"), Closes("JStore2")>> \o End)>> \o Leave

CloudStoreCreated   == <<Keep("_accountStore2")>>
CloudStoreDestroyed == <<IfDrop("_accountStore2")>>

-----------------------------------------------------------------------------
(* PersistentStore *)

PersistentStoreInitialize == <<
    Keep("service"), Watch,
    Root(<<
        Query("_store2", <<Register("_store2", "sink")>>, Nothing),
        Query("_storeCache", Nothing, Nothing),
        Query("_storeInspector", Nothing, Nothing),
        Query("_storeLimit", Nothing, Nothing)>>, <<Fail>>)>>

PersistentStoreForgetsLimit == <<
    Unwatch,
    If("impl",
        <<IfLeave("_store2", "sink"), IfDrop("_storeCache"), IfDrop("_storeInspector")>> \o End)>> \o Leave
PersistentStoreDeinitialize == <<
    Unwatch,
    If("impl",
        <<IfLeave("_store2", "sink"),
          IfDrop("_storeCache"), IfDrop("_storeInspector"), IfDrop("_storeLimit")>> \o End)>> \o Leave

PersistentStoreCreated == <<
    Keep("_deviceStore2"), Register("_deviceStore2", "values"),
    Keep("_deviceStoreCache"), Keep("_deviceStoreInspector"), Keep("_deviceStoreLimit")>>

PersistentStoreDestroyed == <<
    IfLeave("_deviceStore2", "values"),
    IfDrop("_deviceStoreCache"), IfDrop("_deviceStoreInspector"), IfDrop("_deviceStoreLimit")>>

-----------------------------------------------------------------------------
(* SharedStorage *)

SharedStorageConfigure == <<
    Keep("_service"),
    ByCallsign("_psObject", <<Register("_psObject", "values")>>, Nothing),
    ByCallsign("_psInspector", Nothing, Nothing),
    ByCallsign("_psLimit", Nothing, Nothing),
    ByCallsign("_psCache", Nothing, Nothing),
    ByCallsign("_csObject", <<Register("_csObject", "values")>>, Nothing)>>

SharedStorageInitialize == <<
    Keep("service"), Watch,
    Root(<<
        Query("configure", <<Call("configure", SharedStorageConfigure, Nothing, <<Fail>>)>>, <<Fail>>),
        Opens("JSharedStorage"), Register("impl", "sink")>>, <<Fail>>),
    IfFailed(<<Exit>>),
    Query("_storeInspector", <<Opens("JSharedStorageInspector")>>, <<Fail, Exit>>),
    Query("_storeLimit", <<Opens("JSharedStorageLimit")>>, <<Fail, Exit>>),
    Query("_storeCache", <<Opens("JSharedStorageCache")>>, <<Fail, Exit>>)>>

\* The last three interfaces are not released.
SharedStorageDeinitialize == <<
    Unwatch,
    If("impl", <<Unregister("impl", "sink"), Closes("JSharedStorage"), Drop("configure")>> \o End),
    If("_storeInspector", <<Closes("JSharedStorageInspector")>>),
    If("_storeLimit", <<Closes("JSharedStorageLimit")>>),
    If("_storeCache", <<Closes("JSharedStorageCache")>>)>> \o Leave

SharedStorageDestroyed == <<
    IfDrop("_psObject"), IfDrop("_psInspector"), IfDrop("_psLimit"), IfDrop("_psCache"),
    IfDrop("_csObject"), IfDrop("_service")>>

-----------------------------------------------------------------------------
(* Analytics *)

AnalyticsInitialize == <<
    Point("service"),
    Root(<<
        Query("configure",
            <<Call("configure", <<Point("mShell")>>, Nothing, Nothing), Drop("configure")>>, Nothing),
        Opens("JAnalytics")>>, <<Fail>>)>>

AnalyticsDeinitialize == <<If("impl", <<Closes("JAnalytics")>> \o End)>>

AnalyticsCreated   == <<Opens("mThread")>>
AnalyticsDestroyed == <<Closes("mThread")>>

-----------------------------------------------------------------------------
(* NativeJS: the connection is not terminated, and the thread is joined    *)
(* only if it has made its renderer by then.                                *)

NativeJSInitialize == <<
    Point("service"),
    Root(Nothing, <<Fail, Forget("service"), Exit>>),
    Call("impl", <<Opens("mRenderThread")>>, Nothing, Nothing),
    Opens("JNativeJS")>>

NativeJSDeinitialize == <<
    If("impl",
        <<Closes("JNativeJS"), Call("impl", <<Sometimes(<<Closes("mRenderThread")>>)>>, Nothing, Nothing),
          Drop("impl"), Forget("service")>>)>>

-----------------------------------------------------------------------------
(* MessageControl has no separate implementation. *)

MessageControlInitialize == <<
    Keep("service"), Opens("outputs"), Opens("_webSocketExporter"), Opens("JMessageControl"),
    Watch, Opens("_worker")>>

MessageControlDeinitialize == <<
    If("service",
        <<Closes("JMessageControl"), Closes("_worker"), Unwatch,
          Closes("_webSocketExporter"), Closes("outputs"), Drop("service")>>)>>

-----------------------------------------------------------------------------
Lifecycle(initialize, deinitialize, created, destroyed) ==
    [Initialize |-> initialize, Deinitialize |-> deinitialize,
     Created |-> created, Destroyed |-> destroyed]

Programs == [
    AppManager |->
        Lifecycle(AppManagerInitialize, AppManagerDeinitialize, Nothing, AppManagerDestroyed),
    LifecycleManager |->
        Lifecycle(LifecycleManagerInitialize, LifecycleManagerDeinitialize, Nothing, LifecycleManagerDestroyed),
    RuntimeManager |->
        Lifecycle(RuntimeManagerInitialize, RuntimeManagerDeinitialize, Nothing, RuntimeManagerDestroyed),
    OCIContainer |->
        Lifecycle(OCIContainerInitialize, OCIContainerDeinitialize, OCIContainerCreated, OCIContainerDestroyed),
    PackageManager |->
        Lifecycle(PackageManagerInitialize, PackageManagerDeinitialize, Nothing, PackageManagerDestroyed),
    StorageManager |->
        Lifecycle(StorageManagerInitialize, StorageManagerDeinitialize, Nothing, StorageManagerDestroyed),
    RDKWindowManager |->
        Lifecycle(RDKWindowManagerInitialize, RDKWindowManagerDeinitialize, Nothing, Nothing),
    USBDevice |->
        Lifecycle(USBDeviceInitialize, USBDeviceDeinitialize, USBDeviceCreated, USBDeviceDestroyed),
    USBMassStorage |->
        Lifecycle(USBMassStorageInitialize, USBMassStorageDeinitialize, Nothing, USBMassStorageDestroyed),
    UserSettings |->
        Lifecycle(UserSettingsInitialize, UserSettingsDeinitialize, Nothing, UserSettingsDestroyed),
    Telemetry |->
        Lifecycle(TelemetryInitialize, TelemetryDeinitialize, Nothing, TelemetryDestroyed),
    CloudStore |->
        Lifecycle(CloudStoreInitialize, CloudStoreDeinitialize, CloudStoreCreated, CloudStoreDestroyed),
    PersistentStore |->
        Lifecycle(PersistentStoreInitialize, PersistentStoreDeinitialize, PersistentStoreCreated, PersistentStoreDestroyed),
    SharedStorage |->
        Lifecycle(SharedStorageInitialize, SharedStorageDeinitialize, Nothing, SharedStorageDestroyed),
    Analytics |->
        Lifecycle(AnalyticsInitialize, AnalyticsDeinitialize, AnalyticsCreated, AnalyticsDestroyed),
    NativeJS |-> Lifecycle(NativeJSInitialize, NativeJSDeinitialize, Nothing, Nothing),
    MessageControl |->
        Lifecycle(MessageControlInitialize, MessageControlDeinitialize, Nothing, Nothing)]
=============================================================================
