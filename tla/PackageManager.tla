--------------------------- MODULE PackageManager ---------------------------
(***************************************************************************)
(* The installer and the handler of the PackageManager plugin, on top of   *)
(* StorageManager: packages are installed into and removed from the        *)
(* package library, and locked in it while applications run from them.     *)
(*                                                                         *)
(* None of these calls takes a lock.  One client installs and uninstalls,  *)
(* and Handlers are the threads that lock and unlock; a call can be        *)
(* overtaken wherever it calls the library or StorageManager.  A package   *)
(* is a pair of an application id and a version.                           *)
(***************************************************************************)
EXTENDS StorageManager

CONSTANTS
    Packages,           \* <<application id, version>>
    Handlers,           \* threads that call Lock and Unlock
    STORAGE_MAX_SIZE,   \* the quota of every application
    LibraryFaults,      \* what the library may refuse
    MaxLocks,           \* bound: locks of one package
    MaxRestarts         \* bound: restarts of the device

ASSUME PackageAssumption ==
    /\ Packages \subseteq StoredApps \X Nat
    /\ STORAGE_MAX_SIZE \in 1..DiskSize
    /\ LibraryFaults \subseteq {"install", "uninstall", "lock", "unlock"}
    /\ MaxLocks \in Nat /\ MaxRestarts \in Nat

VARIABLES
    mState,         \* per package: install state, lock count, unpacked path known
    installer,      \* the installing client's call
    handler,        \* per thread, its Lock or Unlock
    installed,      \* external: the packages of the library
    libLocks,       \* external: the packages the library has unpacked and locked
    torn,           \* history: applications whose uninstallation did not finish
    restarts        \* counter for the bound

packageVars == <<mState, installer, handler, installed, libLocks, torn, restarts>>
pkgVars == <<storageVars, packageVars>>

\* For runs: one version of every application.
OneVersionEach == StoredApps \X {1}

InstallStates == {"UNINSTALLED", "INSTALLING", "INSTALLED", "INSTALL_FAILURE", "UNINSTALLING"}
NewState  == [install |-> "UNINSTALLED", locks |-> 0, unpacked |-> FALSE]
NoCall    == [pc |-> "idle"]

PkgInit ==
    /\ StorageInit
    /\ mState = <<>>
    /\ installer = NoCall
    /\ handler = [h \in Handlers |-> NoCall]
    /\ installed = {}
    /\ libLocks = {}
    /\ torn = {}
    /\ restarts = 0

InMap(p) == p \in DOMAIN mState
StateOf(p) == IF InMap(p) THEN mState[p] ELSE NewState
Put(p, s) == mState' = With(mState, p, s)

\* GetVersion: the first package of the application in the map.
VersionsOf(a) == {p \in DOMAIN mState : p[1] = a}
FirstOf(a) == CHOOSE p \in VersionsOf(a) : \A q \in VersionsOf(a) : p[2] <= q[2]

-----------------------------------------------------------------------------
(* Install. *)

\* Whether the result of CreateStorage lets the installation go on.
Whatever(ok) == TRUE
Created(ok)  == ok

Install(p) ==
    /\ installer = NoCall
    /\ \E ok \in BOOLEAN :
          LET state == IF Created(ok) THEN "INSTALLING" ELSE StateOf(p).install
          IN  /\ CreateStorage(p[1], STORAGE_MAX_SIZE, ok)
              /\ Put(p, [StateOf(p) EXCEPT !.install = state])
              /\ installer' = IF Created(ok) THEN [pc |-> "installing", package |-> p] ELSE NoCall
    /\ UNCHANGED <<handler, installed, libLocks, torn, restarts>>

InstallReturns(p, state) ==
    /\ installer = [pc |-> "installing", package |-> p]
    /\ Put(p, [mState[p] EXCEPT !.install = state])
    /\ installer' = NoCall

LibraryInstalls(p) ==
    /\ \/ InstallReturns(p, "INSTALLED") /\ installed' = installed \cup {p}
       \/ /\ "install" \in LibraryFaults
          /\ InstallReturns(p, "INSTALL_FAILURE")
          /\ UNCHANGED installed
    /\ torn' = torn \ {p[1]}
    /\ UNCHANGED <<storageVars, handler, libLocks, restarts>>

-----------------------------------------------------------------------------
(* Uninstall deletes the storage first. *)

Uninstall(a) ==
    /\ installer = NoCall
    /\ VersionsOf(a) # {}
    /\ LET p == FirstOf(a)
       IN  \/ DeleteStorage(a, FALSE) /\ UNCHANGED <<packageVars>>
           \/ /\ DeleteStorage(a, TRUE)
              /\ Put(p, [mState[p] EXCEPT !.install = "UNINSTALLING"])
              /\ installer' = [pc |-> "uninstalling", package |-> p]
              /\ torn' = torn \cup {a}
              /\ UNCHANGED <<handler, installed, libLocks, restarts>>

\* The library knows the application only, not the version.  Its answer
\* makes no difference to the state.
LibraryUninstalls(p) ==
    /\ installer = [pc |-> "uninstalling", package |-> p]
    /\ Put(p, [mState[p] EXCEPT !.install = "UNINSTALLED"])
    /\ installer' = NoCall
    /\ \/ /\ installed' = {q \in installed : q[1] # p[1]}
          /\ torn' = torn \ {p[1]}
       \/ /\ "uninstall" \in LibraryFaults
          /\ UNCHANGED <<installed, torn>>
    /\ UNCHANGED <<storageVars, handler, libLocks, restarts>>

-----------------------------------------------------------------------------
(* Lock and Unlock.  Only the first lock and the last unlock of a package  *)
(* reach the library.                                                      *)

HandlerCall(h, pc, p) == handler' = [handler EXCEPT ![h] = [pc |-> pc, package |-> p]]
HandlerDone(h) == handler' = [handler EXCEPT ![h] = NoCall]
unchangedByHandler == <<storageVars, installer, installed, torn, restarts>>

Lock(h, p) ==
    /\ handler[h] = NoCall
    /\ InMap(p) /\ mState[p].locks < MaxLocks
    /\ \/ /\ mState[p].locks > 0
          /\ Put(p, [mState[p] EXCEPT !.locks = @ + 1])
          /\ UNCHANGED handler
       \/ /\ mState[p].locks = 0
          /\ HandlerCall(h, "locking", p)
          /\ UNCHANGED mState
    /\ UNCHANGED <<libLocks, unchangedByHandler>>

LibraryLocks(h, p) ==
    /\ handler[h] = [pc |-> "locking", package |-> p]
    /\ \/ /\ p \in installed
          /\ libLocks' = libLocks \cup {p}
          /\ Put(p, [mState[p] EXCEPT !.locks = @ + 1, !.unpacked = TRUE])
       \/ /\ p \notin installed \/ "lock" \in LibraryFaults
          /\ UNCHANGED <<libLocks, mState>>
    /\ HandlerDone(h)
    /\ UNCHANGED unchangedByHandler

IsLocked(p) == InMap(p) /\ mState[p].locks > 0
AnyLock(p)  == TRUE
LastLock(p) == mState[p].locks = 1

Unlock(h, p) ==
    /\ handler[h] = NoCall
    /\ IsLocked(p)
    /\ Put(p, [mState[p] EXCEPT !.locks = @ - 1])
    /\ IF LastLock(p) THEN HandlerCall(h, "unlocking", p) ELSE UNCHANGED handler
    /\ UNCHANGED <<libLocks, unchangedByHandler>>

LibraryUnlocks(h, p) ==
    /\ handler[h] = [pc |-> "unlocking", package |-> p]
    /\ \/ libLocks' = libLocks \ {p}
       \/ "unlock" \in LibraryFaults /\ UNCHANGED libLocks
    /\ Put(p, [mState[p] EXCEPT !.unpacked = FALSE])
    /\ HandlerDone(h)
    /\ UNCHANGED unchangedByHandler

-----------------------------------------------------------------------------
(* Requests that other plugins make of StorageManager, and a restart of    *)
(* the device, which may come at any time.                                 *)

StorageRequest ==
    /\ \/ \E a \in StoredApps :
             \/ \E uid \in Owners, ok \in BOOLEAN : GetStorage(a, uid, ok)
             \/ Clear(a)
             \/ AppWrites(a)
       \/ \E exempt \in SUBSET StoredApps : ClearAll(exempt)
    /\ UNCHANGED packageVars

\* InitializeState: the library tells what is installed.
Restart ==
    /\ restarts < MaxRestarts
    /\ restarts' = restarts + 1
    /\ StorageRestart
    /\ mState' = [p \in installed |-> [NewState EXCEPT !.install = "INSTALLED"]]
    /\ installer' = NoCall
    /\ handler' = [h \in Handlers |-> NoCall]
    /\ libLocks' = {}
    /\ UNCHANGED <<installed, torn>>

-----------------------------------------------------------------------------
PkgNext ==
    \/ \E p \in Packages : Install(p) \/ LibraryInstalls(p) \/ LibraryUninstalls(p)
    \/ \E a \in StoredApps : Uninstall(a)
    \/ \E h \in Handlers, p \in Packages :
          Lock(h, p) \/ LibraryLocks(h, p) \/ Unlock(h, p) \/ LibraryUnlocks(h, p)
    \/ StorageRequest
    \/ Restart

PkgSpec == PkgInit /\ [][PkgNext]_pkgVars

-----------------------------------------------------------------------------
(* What is claimed. *)

TypeOK ==
    /\ DOMAIN mStorageAppInfo \subseteq StoredApps
    /\ \A a \in DOMAIN mStorageAppInfo :
          mStorageAppInfo[a] \in [quota : Nat, uid : Owners \cup {Unowned}]
    /\ DOMAIN directories \subseteq StoredApps
    /\ \A a \in DOMAIN directories :
          directories[a] \in [owner : Owners \cup {Unowned}, used : Nat]
    /\ DOMAIN quotaSize \subseteq StoredApps
    /\ \A a \in DOMAIN quotaSize : quotaSize[a] \in Nat
    /\ DOMAIN mState \subseteq Packages
    /\ \A p \in DOMAIN mState :
          mState[p] \in [install : InstallStates, locks : Nat, unpacked : BOOLEAN]
    /\ installer = NoCall \/ installer \in [pc : {"installing", "uninstalling"}, package : DOMAIN mState]
    /\ \A h \in Handlers :
          handler[h] = NoCall \/ handler[h] \in [pc : {"locking", "unlocking"}, package : DOMAIN mState]
    /\ installed \subseteq Packages /\ libLocks \subseteq Packages
    /\ torn \subseteq StoredApps

\* Who reserves space finds it: what the applications on record may still
\* write is free, whatever was created, resized, cleared, deleted, forgotten
\* or restarted meanwhile.
PromiseFits == Promised(mStorageAppInfo) <= Free

\* Records and directories agree: no record without its directory, and an
\* owner on record owns the directory.
RecordsMatchDirectories ==
    \A a \in DOMAIN mStorageAppInfo :
        /\ OnDisk(a)
        /\ mStorageAppInfo[a].uid \in {Unowned, directories[a].owner}

\* An installed package has the directory of its application, unless the
\* library failed, or the device restarted, in the middle of Uninstall.
InstalledHasStorage ==
    \A p \in installed : OnDisk(p[1]) \/ p[1] \in torn

\* A package counted as locked is locked in the library and its path known:
\* the first lock and the last unlock, and no other, reach the library.
LockedWhileCounted ==
    \A p \in DOMAIN mState : mState[p].locks > 0 => p \in libLocks /\ mState[p].unpacked

\* Once Install succeeds the application has its full quota, even if an
\* earlier record of it had lost it.
InstallDelivers ==
    [][\A p \in Packages :
          installer = [pc |-> "installing", package |-> p] /\ installed' # installed =>
              HasStorage(p[1]) /\ mStorageAppInfo[p[1]].quota = STORAGE_MAX_SIZE]_pkgVars
=============================================================================
