--------------------------- MODULE StoreRequests ---------------------------
(***************************************************************************)
(* The requests of the stores as steps: the SQLite file behind             *)
(* PersistentStore, the remote service behind CloudStore, and              *)
(* SharedStorage, which hands each request to the store of its scope, the  *)
(* device or the account, if that was there at activation.                 *)
(***************************************************************************)
EXTENDS RequestSteps

Clients(body) == Within("_clientLock", body)
Registered    == Under("_clientLock", Effect("notification"))

\* Neither checks for a client it has already, and both answer success.
Register       == Clients(<<Registered>>)
Unregister     == Clients(<<Maybe(<<Registered>>)>>)
\* The clients are told by a job, with the lock held.
OnValueChanged == Clients(<<Repeat(<<Under("_clientLock", Effect("ValueChanged"))>>)>>)
Told           == <<IfGood(<<Effect("job submitted")>>, NoSteps)>>

-----------------------------------------------------------------------------
(* The file: one statement after the other, with no transaction. *)

\* A namespace made for what then fails stays.
InNamespace(statement) == <<Try("insert namespace"), IfGood(<<Try(statement)>>, NoSteps)>>
IsTimeSynced           == <<Asks>>
SetValue  == <<Maybe(IsTimeSynced), IfGood(InNamespace("insert item") \o Told, NoSteps)>>
SetNamespaceStorageLimit == InNamespace("insert limit")
GetValue        == <<Asks>>
DeleteKey       == <<Try("delete from item")>>
DeleteNamespace == <<Try("delete from namespace")>>
FlushCache      == <<Try("sqlite3_db_cacheflush"), Effect("sync")>>
GetKeys         == <<Asks>>
GetNamespaces   == <<Asks>>
GetStorageSizes == <<Asks>>
GetNamespaceStorageLimit == <<Asks>>

FileCatalogue == [
    Register |-> Register, Unregister |-> Unregister, OnValueChanged |-> OnValueChanged,
    SetValue |-> SetValue, GetValue |-> GetValue, DeleteKey |-> DeleteKey,
    DeleteNamespace |-> DeleteNamespace, FlushCache |-> FlushCache, GetKeys |-> GetKeys,
    GetNamespaces |-> GetNamespaces, GetStorageSizes |-> GetStorageSizes,
    SetNamespaceStorageLimit |-> SetNamespaceStorageLimit,
    GetNamespaceStorageLimit |-> GetNamespaceStorageLimit]

-----------------------------------------------------------------------------
(* The service: one call each, with a deadline.                             *)

\* The token may be missing: then the call is made with an empty one.
GetToken == <<Maybe(Within("authservice", NoSteps))>>
Authorized(call) == <<Maybe(GetToken)>> \o call
RemoteSetValue        == Authorized(<<Try("UpdateValue")>>) \o Told
RemoteGetValue        == Authorized(<<Asks>>) \o <<IfGood(<<Maybe(IsTimeSynced)>>, NoSteps)>>
RemoteDeleteKey       == Authorized(<<Try("DeleteValue")>>)
RemoteDeleteNamespace == Authorized(<<Try("DeleteAllValues")>>)

ServiceCatalogue == [
    Register |-> Register, Unregister |-> Unregister, OnValueChanged |-> OnValueChanged,
    SetValue |-> RemoteSetValue, GetValue |-> RemoteGetValue, DeleteKey |-> RemoteDeleteKey,
    DeleteNamespace |-> RemoteDeleteNamespace]

-----------------------------------------------------------------------------
(* SharedStorage *)

Listeners(step) == Under("_adminLock", step)

\* The list of listeners is changed without the lock under which they are
\* told.
SharedRegister   == <<Maybe(<<Listeners(Effect("notification"))>>)>>
SharedUnregister == <<Either(<<Listeners(Effect("notification"))>>, <<Sets(FALSE)>>)>>

ValueChanged == <<Effect("job submitted")>>
Dispatch == Within("_adminLock", <<Repeat(<<Listeners(Effect("OnValueChanged"))>>)>>)

\* No store for an unknown scope or one that was not there.
getRemoteStoreObject(body) == <<Sets(FALSE), Maybe(body)>>
SharedSetValue        == getRemoteStoreObject(<<Try("SetValue")>>)
SharedGetValue        == getRemoteStoreObject(<<Asks>>)
SharedDeleteKey       == getRemoteStoreObject(<<Try("DeleteKey")>>)
SharedDeleteNamespace == getRemoteStoreObject(<<Try("DeleteNamespace")>>)

\* Only for the device, and if the interface was there.
OnDevice(step) == <<Sets(FALSE), Maybe(<<Maybe(<<step>>)>>)>>
SharedGetKeys         == OnDevice(Asks)
SharedGetNamespaces   == OnDevice(Asks)
SharedGetStorageSizes == OnDevice(Asks)
SharedSetNamespaceStorageLimit == OnDevice(Try("SetNamespaceStorageLimit"))
SharedGetNamespaceStorageLimit == OnDevice(Asks)
SharedFlushCache == <<Sets(FALSE), Maybe(<<Try("FlushCache")>>)>>

SharedCatalogue == [
    Register |-> SharedRegister, Unregister |-> SharedUnregister, ValueChanged |-> ValueChanged,
    Dispatch |-> Dispatch, SetValue |-> SharedSetValue, GetValue |-> SharedGetValue,
    DeleteKey |-> SharedDeleteKey, DeleteNamespace |-> SharedDeleteNamespace,
    GetKeys |-> SharedGetKeys, GetNamespaces |-> SharedGetNamespaces,
    GetStorageSizes |-> SharedGetStorageSizes,
    SetNamespaceStorageLimit |-> SharedSetNamespaceStorageLimit,
    GetNamespaceStorageLimit |-> SharedGetNamespaceStorageLimit, FlushCache |-> SharedFlushCache]
=============================================================================
