------------------------ MODULE PackageManager_proofs ------------------------
(***************************************************************************)
(* PackageManager on StorageManager, for every set of packages, size of    *)
(* the disk and fault: records match directories, what is installed has    *)
(* storage, and an install that succeeds delivers it.  With one handler    *)
(* thread, what is counted as locked is locked.  And what is promised to   *)
(* applications is free, as long as PersistentStore can be read.           *)
(***************************************************************************)
EXTENDS PackageManager, WellFoundedInduction, FiniteSetTheorems, TLAPS

Uids == Owners \cup {Unowned}

RecordTypes ==
    /\ DOMAIN mStorageAppInfo \subseteq StoredApps
    /\ \A a \in DOMAIN mStorageAppInfo : mStorageAppInfo[a] \in [quota : Nat, uid : Uids]
DirectoryTypes ==
    /\ DOMAIN directories \subseteq StoredApps
    /\ \A a \in DOMAIN directories : directories[a] \in [owner : Uids, used : Nat]
QuotaTypes ==
    /\ DOMAIN quotaSize \subseteq StoredApps
    /\ \A a \in DOMAIN quotaSize : quotaSize[a] \in Nat

\* What a request of StorageManager keeps.
StorageInv == RecordTypes /\ DirectoryTypes /\ QuotaTypes /\ RecordsMatchDirectories

MapTypes ==
    /\ DOMAIN mState \subseteq Packages
    /\ \A p \in DOMAIN mState :
          mState[p] \in [install : InstallStates, locks : Nat, unpacked : BOOLEAN]
InstallerTypes ==
    installer = NoCall \/ installer \in [pc : {"installing", "uninstalling"}, package : DOMAIN mState]
HandlerTypes ==
    /\ handler \in [Handlers -> {NoCall} \cup [pc : {"locking", "unlocking"}, package : DOMAIN mState]]
LibraryTypes ==
    installed \subseteq Packages /\ libLocks \subseteq Packages /\ torn \subseteq StoredApps

\* While the library installs a package, the storage made for it stays.
Delivering ==
    installer.pc = "installing" =>
        /\ HasStorage(installer.package[1])
        /\ mStorageAppInfo[installer.package[1]].quota = STORAGE_MAX_SIZE

PkgInv ==
    /\ StorageInv
    /\ MapTypes /\ InstallerTypes /\ HandlerTypes /\ LibraryTypes
    /\ Delivering
    /\ InstalledHasStorage

\* A package whose lock or unlock is in the library is not counted.
InLibrary ==
    \A h \in Handlers :
        handler[h] # NoCall => handler[h].package \in DOMAIN mState /\ mState[handler[h].package].locks = 0
LockInv == InLibrary /\ LockedWhileCounted

-----------------------------------------------------------------------------
(* Requests of StorageManager keep what they should, and at most drop the  *)
(* directory they are asked to delete.                                     *)

QuotasOK(q) == DOMAIN q \subseteq StoredApps /\ \A a \in DOMAIN q : q[a] \in Nat

LEMMA ForgottenTyped ==
    ASSUME QuotaTypes, NEW a, NEW q \in Forgotten(a)
    PROVE  QuotasOK(q)
<1>1. QuotasOK(quotaSize) /\ QuotasOK(Drop(quotaSize, a))
  BY DEF QuotaTypes, QuotasOK, Drop
<1> QED BY <1>1 DEF Forgotten

LEMMA RetrievalInv ==
    ASSUME StorageInv, NEW a, RetrievalFails(a)
    PROVE  StorageInv'
<1>1. QuotaTypes'
  BY ForgottenTyped DEF StorageInv, RetrievalFails, QuotaTypes, QuotasOK
<1>2. mStorageAppInfo' = Drop(mStorageAppInfo, a) /\ directories' = directories
  BY DEF RetrievalFails
<1>3. RecordTypes' /\ DirectoryTypes'
  BY <1>2 DEF StorageInv, RecordTypes, DirectoryTypes, Drop
<1>4. RecordsMatchDirectories'
  BY <1>2 DEF StorageInv, RecordsMatchDirectories, OnDisk, Drop
<1> QED BY <1>1, <1>3, <1>4 DEF StorageInv

LEMMA CreateInv ==
    ASSUME StorageInv, NEW a \in StoredApps, NEW size \in Nat, NEW ok \in BOOLEAN,
           CreateStorage(a, size, ok)
    PROVE  /\ StorageInv'
           /\ DOMAIN directories \subseteq DOMAIN directories'
           /\ ok => HasStorage(a)' /\ mStorageAppInfo'[a].quota = size
<1>1. CASE UNCHANGED storageVars /\ (ok => SameQuota(a, size))
  BY <1>1 DEF storageVars, StorageInv, RecordTypes, DirectoryTypes, QuotaTypes, RecordsMatchDirectories,
              SameQuota, HasStorage, Recorded, OnDisk
<1>2. ASSUME NEW stored \in Forgotten(a), ~ok,
             mStorageAppInfo' = Drop(mStorageAppInfo, a), quotaSize' = stored, directories' = directories
      PROVE  StorageInv'
  <2>1. QuotaTypes'
    BY <1>2, ForgottenTyped DEF StorageInv, QuotaTypes, QuotasOK
  <2>2. RecordTypes' /\ DirectoryTypes'
    BY <1>2 DEF StorageInv, RecordTypes, DirectoryTypes, Drop
  <2>3. RecordsMatchDirectories'
    BY <1>2 DEF StorageInv, RecordsMatchDirectories, OnDisk, Drop
  <2> QED BY <2>1, <2>2, <2>3 DEF StorageInv
<1>3. ASSUME NEW stored \in Forgotten(a),
             mStorageAppInfo' = With(Drop(mStorageAppInfo, a), a, [quota |-> size, uid |-> Unowned]),
             directories' = IF OnDisk(a) THEN directories
                            ELSE With(directories, a, [owner |-> Unowned, used |-> 0]),
             quotaSize' = With(stored, a, size) \/ quotaSize' = stored
      PROVE  /\ StorageInv'
             /\ DOMAIN directories \subseteq DOMAIN directories'
             /\ HasStorage(a)' /\ mStorageAppInfo'[a].quota = size
  <2>1. QuotasOK(stored)
    BY ForgottenTyped DEF StorageInv
  <2>2. QuotaTypes'
    BY <1>3, <2>1 DEF QuotaTypes, QuotasOK, With
  <2>3. /\ DOMAIN mStorageAppInfo' = DOMAIN mStorageAppInfo \cup {a}
        /\ mStorageAppInfo'[a] = [quota |-> size, uid |-> Unowned]
        /\ \A b \in DOMAIN mStorageAppInfo : b # a => mStorageAppInfo'[b] = mStorageAppInfo[b]
    BY <1>3 DEF With, Drop
  <2>4. /\ DOMAIN directories' = DOMAIN directories \cup {a}
        /\ \A b \in DOMAIN directories : directories'[b] = directories[b]
        /\ a \notin DOMAIN directories => directories'[a] = [owner |-> Unowned, used |-> 0]
    BY <1>3 DEF With, OnDisk
  <2>5. RecordTypes'
    <3>1. mStorageAppInfo'[a] \in [quota : Nat, uid : Uids]
      BY <2>3 DEF Uids
    <3>2. \A b \in DOMAIN mStorageAppInfo' : b # a => mStorageAppInfo'[b] \in [quota : Nat, uid : Uids]
      BY <2>3 DEF StorageInv, RecordTypes
    <3> QED BY <2>3, <3>1, <3>2 DEF StorageInv, RecordTypes
  <2>6. DirectoryTypes'
    <3>1. a \notin DOMAIN directories => directories'[a] \in [owner : Uids, used : Nat]
      BY <2>4 DEF Uids
    <3>2. \A b \in DOMAIN directories : directories'[b] \in [owner : Uids, used : Nat]
      BY <2>4 DEF StorageInv, DirectoryTypes
    <3>3. DOMAIN directories' \subseteq StoredApps
      BY <2>4 DEF StorageInv, DirectoryTypes
    <3> QED BY <2>4, <3>1, <3>2, <3>3 DEF DirectoryTypes
  <2>7. RecordsMatchDirectories'
    BY <2>3, <2>4 DEF StorageInv, RecordsMatchDirectories, OnDisk
  <2> QED BY <2>2, <2>3, <2>4, <2>5, <2>6, <2>7 DEF StorageInv, HasStorage, Recorded, OnDisk
<1> QED BY <1>1, <1>2, <1>3 DEF CreateStorage

\* What empties directories, or fills them, keeps their owners.
LEMMA OwnersKept ==
    ASSUME StorageInv, UNCHANGED <<mStorageAppInfo, quotaSize>>,
           DOMAIN directories' = DOMAIN directories,
           \A b \in DOMAIN directories :
               \E n \in Nat : directories'[b] = [directories[b] EXCEPT !.used = n]
    PROVE  StorageInv'
<1>1. \A b \in DOMAIN directories :
          directories'[b] \in [owner : Uids, used : Nat] /\ directories'[b].owner = directories[b].owner
  BY DEF StorageInv, DirectoryTypes
<1>2. RecordTypes' /\ QuotaTypes'
  BY DEF StorageInv, RecordTypes, QuotaTypes
<1>3. DirectoryTypes'
  BY <1>1 DEF StorageInv, DirectoryTypes
<1>4. RecordsMatchDirectories'
  BY <1>1 DEF StorageInv, RecordsMatchDirectories, OnDisk
<1> QED BY <1>2, <1>3, <1>4 DEF StorageInv

LEMMA GetInv ==
    ASSUME StorageInv, NEW a \in StoredApps, NEW uid \in Owners, NEW ok \in BOOLEAN,
           GetStorage(a, uid, ok)
    PROVE  StorageInv' /\ DOMAIN directories' = DOMAIN directories
<1>1. CASE RetrievalFails(a)
  BY <1>1, RetrievalInv DEF RetrievalFails
<1>2. CASE UNCHANGED storageVars
  BY <1>2 DEF storageVars, StorageInv, RecordTypes, DirectoryTypes, QuotaTypes, RecordsMatchDirectories,
              OnDisk
<1>3. CASE /\ HasStorage(a)
           /\ directories' = [directories EXCEPT ![a].owner = uid]
           /\ mStorageAppInfo' = [mStorageAppInfo EXCEPT ![a].uid = uid]
           /\ UNCHANGED quotaSize
  <2>1. /\ DOMAIN mStorageAppInfo' = DOMAIN mStorageAppInfo
        /\ DOMAIN directories' = DOMAIN directories
        /\ a \in DOMAIN mStorageAppInfo /\ a \in DOMAIN directories
    BY <1>3 DEF HasStorage, Recorded, OnDisk
  <2>2. /\ mStorageAppInfo'[a] \in [quota : Nat, uid : Uids] /\ mStorageAppInfo'[a].uid = uid
        /\ directories'[a] \in [owner : Uids, used : Nat] /\ directories'[a].owner = uid
    BY <1>3, <2>1 DEF StorageInv, RecordTypes, DirectoryTypes, Uids
  <2>3. /\ \A b \in DOMAIN mStorageAppInfo : b # a => mStorageAppInfo'[b] = mStorageAppInfo[b]
        /\ \A b \in DOMAIN directories : b # a => directories'[b] = directories[b]
    BY <1>3
  <2>4. RecordTypes'
    BY <2>1, <2>2, <2>3 DEF StorageInv, RecordTypes
  <2>5. DirectoryTypes'
    BY <2>1, <2>2, <2>3 DEF StorageInv, DirectoryTypes
  <2>6. RecordsMatchDirectories'
    BY <2>1, <2>2, <2>3 DEF StorageInv, RecordsMatchDirectories, OnDisk
  <2> QED BY <1>3, <2>1, <2>4, <2>5, <2>6 DEF StorageInv, QuotaTypes
<1> QED BY <1>1, <1>2, <1>3 DEF GetStorage, RetrievalFails, storageVars

LEMMA EntriesInv ==
    ASSUME StorageInv, NEW a \in StoredApps, NEW ok \in BOOLEAN,
           deleteDirectoryEntries(a, ok), UNCHANGED <<mStorageAppInfo, quotaSize>>
    PROVE  StorageInv' /\ DOMAIN directories' = DOMAIN directories
<1>1. CASE UNCHANGED directories
  BY <1>1 DEF StorageInv, RecordTypes, DirectoryTypes, QuotaTypes, RecordsMatchDirectories, OnDisk
<1>2. ASSUME NEW n \in Nat, directories' = [directories EXCEPT ![a].used = n]
      PROVE  StorageInv' /\ DOMAIN directories' = DOMAIN directories
  <2>1. DOMAIN directories' = DOMAIN directories
    BY <1>2
  <2>2. ASSUME NEW b \in DOMAIN directories
        PROVE  \E m \in Nat : directories'[b] = [directories[b] EXCEPT !.used = m]
    <3>1. CASE b = a
      BY <1>2, <3>1
    <3>2. CASE b # a
      <4>1. directories'[b] = directories[b] /\ directories[b] \in [owner : Uids, used : Nat]
        BY <1>2, <3>2 DEF StorageInv, DirectoryTypes
      <4> QED BY <4>1
    <3> QED BY <3>1, <3>2
  <2> QED BY <2>1, <2>2, OwnersKept
<1>3. HasStorage(a) => directories[a].used \in Nat
  BY DEF StorageInv, DirectoryTypes, HasStorage, OnDisk
<1> QED BY <1>1, <1>2, <1>3 DEF deleteDirectoryEntries, Emptied

LEMMA DeleteInv ==
    ASSUME StorageInv, NEW a \in StoredApps, NEW ok \in BOOLEAN, DeleteStorage(a, ok)
    PROVE  /\ StorageInv'
           /\ ~ok => DOMAIN directories' = DOMAIN directories
           /\ ok => DOMAIN directories' = DOMAIN directories \ {a}
<1>1. CASE ~ok /\ UNCHANGED storageVars
  BY <1>1 DEF storageVars, StorageInv, RecordTypes, DirectoryTypes, QuotaTypes, RecordsMatchDirectories,
              OnDisk
<1>2. CASE ~ok /\ deleteDirectoryEntries(a, FALSE) /\ UNCHANGED <<mStorageAppInfo, quotaSize>>
  BY <1>2, EntriesInv
<1>3. CASE ~ok /\ HasStorage(a) /\ directories' = Emptied(a) /\ UNCHANGED <<mStorageAppInfo, quotaSize>>
  <2>1. deleteDirectoryEntries(a, TRUE)
    BY <1>3 DEF deleteDirectoryEntries
  <2> QED BY <1>3, <2>1, EntriesInv
<1>4. CASE /\ ok
           /\ directories' = Drop(directories, a)
           /\ mStorageAppInfo' = Drop(mStorageAppInfo, a)
           /\ quotaSize' \in Forgotten(a)
  <2>1. QuotaTypes'
    BY <1>4, ForgottenTyped DEF StorageInv, QuotaTypes, QuotasOK
  <2>2. /\ DOMAIN directories' = DOMAIN directories \ {a}
        /\ DOMAIN mStorageAppInfo' = DOMAIN mStorageAppInfo \ {a}
        /\ \A b \in DOMAIN directories' : directories'[b] = directories[b]
        /\ \A b \in DOMAIN mStorageAppInfo' : mStorageAppInfo'[b] = mStorageAppInfo[b]
    BY <1>4 DEF Drop
  <2>3. RecordTypes' /\ DirectoryTypes'
    BY <2>2 DEF StorageInv, RecordTypes, DirectoryTypes
  <2>4. RecordsMatchDirectories'
    BY <2>2 DEF StorageInv, RecordsMatchDirectories, OnDisk
  <2> QED BY <1>4, <2>1, <2>2, <2>3, <2>4 DEF StorageInv
<1> QED BY <1>1, <1>2, <1>3, <1>4 DEF DeleteStorage

LEMMA ClearAllInv ==
    ASSUME StorageInv, NEW exempt, ClearAll(exempt)
    PROVE  StorageInv' /\ DOMAIN directories' = DOMAIN directories
<1>1. PICK left \in [DOMAIN directories -> 0..DiskSize] :
          directories' = [a \in DOMAIN directories |-> [directories[a] EXCEPT !.used = left[a]]]
  BY DEF ClearAll
<1>2. \A a \in DOMAIN directories : left[a] \in Nat
  BY StorageAssumption
<1>3. DOMAIN directories' = DOMAIN directories
  BY <1>1
<1>4. \A b \in DOMAIN directories :
          \E n \in Nat : directories'[b] = [directories[b] EXCEPT !.used = n]
  BY <1>1, <1>2
<1> QED BY <1>3, <1>4, OwnersKept DEF ClearAll

LEMMA WriteInv ==
    ASSUME StorageInv, NEW a \in StoredApps, AppWrites(a)
    PROVE  StorageInv' /\ DOMAIN directories' = DOMAIN directories
<1>1. /\ a \in DOMAIN directories
      /\ directories' = [directories EXCEPT ![a].used = directories[a].used + 1]
  BY DEF AppWrites, HasStorage, OnDisk
<1>2. \A b \in DOMAIN directories : directories[b] \in [owner : Uids, used : Nat]
  BY DEF StorageInv, DirectoryTypes
<1>3. directories[a].used + 1 \in Nat
  BY <1>1, <1>2
<1>4. \A b \in DOMAIN directories :
          \E n \in Nat : directories'[b] = [directories[b] EXCEPT !.used = n]
  <2> TAKE b \in DOMAIN directories
  <2>1. CASE b = a
    BY <1>1, <1>3, <2>1
  <2>2. CASE b # a
    <3>1. directories'[b] = directories[b] /\ directories[b].used \in Nat
      BY <1>1, <1>2, <2>2
    <3>2. directories'[b] = [directories[b] EXCEPT !.used = directories[b].used]
      BY <1>2, <3>1
    <3> QED BY <3>1, <3>2
  <2> QED BY <2>1, <2>2
<1>5. DOMAIN directories' = DOMAIN directories
  BY <1>1
<1> QED BY <1>4, <1>5, OwnersKept DEF AppWrites

LEMMA RestartInv ==
    ASSUME StorageInv, StorageRestart
    PROVE  StorageInv' /\ directories' = directories
<1>1. PICK unread \in SUBSET StoredApps :
          mStorageAppInfo' =
              [a \in DOMAIN directories \cap WellNamed |->
                  [quota |-> IF a \in DOMAIN quotaSize \ unread THEN quotaSize[a] ELSE 0,
                   uid   |-> directories[a].owner]]
  BY DEF StorageRestart
<1>2. directories' = directories /\ quotaSize' = quotaSize
  BY DEF StorageRestart
<1>3. ASSUME NEW a \in DOMAIN mStorageAppInfo'
      PROVE  /\ a \in DOMAIN directories
             /\ mStorageAppInfo'[a] \in [quota : Nat, uid : Uids]
             /\ mStorageAppInfo'[a].uid = directories[a].owner
  <2>1. a \in DOMAIN directories /\ directories[a].owner \in Uids
    BY <1>1 DEF StorageInv, DirectoryTypes
  <2>2. (IF a \in DOMAIN quotaSize \ unread THEN quotaSize[a] ELSE 0) \in Nat
    BY DEF StorageInv, QuotaTypes
  <2> QED BY <1>1, <2>1, <2>2
<1>4. RecordTypes' /\ RecordsMatchDirectories'
  BY <1>2, <1>3 DEF StorageInv, RecordTypes, DirectoryTypes, RecordsMatchDirectories, OnDisk
<1> QED BY <1>2, <1>4 DEF StorageInv, DirectoryTypes, QuotaTypes

-----------------------------------------------------------------------------
(* The map of PackageManager. *)

StateTypes == [install : InstallStates, locks : Nat, unpacked : BOOLEAN]

LEMMA PackageParts ==
    ASSUME NEW p \in Packages
    PROVE  p[1] \in StoredApps /\ p[2] \in Nat
BY PackageAssumption

LEMMA StateTyped ==
    ASSUME MapTypes, NEW p
    PROVE  StateOf(p) \in StateTypes
<1>1. NewState \in StateTypes
  BY DEF NewState, StateTypes, InstallStates
<1> QED BY <1>1 DEF StateOf, InMap, MapTypes, StateTypes

LEMMA PutKeeps ==
    ASSUME MapTypes, NEW p \in Packages, NEW s \in StateTypes, Put(p, s)
    PROVE  /\ MapTypes'
           /\ DOMAIN mState' = DOMAIN mState \cup {p}
           /\ mState'[p] = s
           /\ \A q \in DOMAIN mState : q # p => mState'[q] = mState[q]
<1>1. /\ DOMAIN mState' = DOMAIN mState \cup {p}
      /\ mState'[p] = s
      /\ \A q \in DOMAIN mState : q # p => mState'[q] = mState[q]
  BY DEF Put, With
<1> QED BY <1>1 DEF MapTypes, StateTypes

\* GetVersion finds a version if there is one.
LEMMA FirstVersion ==
    ASSUME MapTypes, NEW a, VersionsOf(a) # {}
    PROVE  FirstOf(a) \in DOMAIN mState /\ FirstOf(a)[1] = a
<1> DEFINE versions == {p[2] : p \in VersionsOf(a)}
           before == OpToRel(<, Nat)
<1>1. versions \subseteq Nat /\ versions # {}
  BY PackageParts DEF VersionsOf, MapTypes
<1>2. /\ IsWellFoundedOn(before, Nat)
      /\ \A m, n \in Nat : n < m => <<n, m>> \in before
  BY NatLessThanWellFounded DEF OpToRel
<1>3. PICK m \in versions : \A n \in versions : m <= n
  <2> HIDE DEF versions, before
  <2>1. PICK m \in versions : \A n \in versions : ~(<<n, m>> \in before)
    BY <1>1, <1>2, WFMin
  <2>2. ASSUME NEW n \in versions  PROVE m <= n
    <3>1. m \in Nat /\ n \in Nat
      BY <1>1
    <3>2. ~(n < m)
      BY <1>2, <2>1, <3>1
    <3> QED BY <3>1, <3>2
  <2> QED BY <2>2
<1>4. PICK p \in VersionsOf(a) : p[2] = m
  BY <1>3
<1>5. \A q \in VersionsOf(a) : p[2] <= q[2]
  BY <1>3, <1>4
<1>6. FirstOf(a) \in VersionsOf(a)
  BY <1>4, <1>5 DEF FirstOf
<1> QED BY <1>6 DEF VersionsOf

LEMMA PkgFrame ==
    ASSUME PkgInv, UNCHANGED <<storageVars, installer, installed, torn>>,
           MapTypes', DOMAIN mState \subseteq DOMAIN mState', HandlerTypes', libLocks' \subseteq Packages
    PROVE  PkgInv'
<1>1. StorageInv'
  BY DEF PkgInv, storageVars, StorageInv, RecordTypes, DirectoryTypes, QuotaTypes, RecordsMatchDirectories,
         OnDisk
<1>2. InstallerTypes' /\ LibraryTypes'
  BY DEF PkgInv, InstallerTypes, LibraryTypes
<1>3. Delivering' /\ InstalledHasStorage'
  BY DEF PkgInv, Delivering, InstalledHasStorage, HasStorage, Recorded, OnDisk, storageVars
<1> QED BY <1>1, <1>2, <1>3 DEF PkgInv

-----------------------------------------------------------------------------
(* The actions. *)

LEMMA QuotaIsNat == STORAGE_MAX_SIZE \in Nat
BY StorageAssumption, PackageAssumption

\* Handlers and installer keep their types when the map grows.
LEMMA MapGrows ==
    ASSUME DOMAIN mState \subseteq DOMAIN mState'
    PROVE  /\ HandlerTypes /\ handler' = handler => HandlerTypes'
           /\ InstallerTypes /\ installer' = installer => InstallerTypes'
BY DEF HandlerTypes, InstallerTypes

LEMMA InstallKeeps ==
    ASSUME PkgInv, NEW p \in Packages, Install(p)
    PROVE  PkgInv'
<1> DEFINE a == p[1]
<1>1. PICK ok \in BOOLEAN :
          LET state == IF Created(ok) THEN "INSTALLING" ELSE StateOf(p).install
          IN  /\ CreateStorage(a, STORAGE_MAX_SIZE, ok)
              /\ Put(p, [StateOf(p) EXCEPT !.install = state])
              /\ installer' = IF Created(ok) THEN [pc |-> "installing", package |-> p] ELSE NoCall
  BY DEF Install
<1>2. UNCHANGED <<handler, installed, libLocks, torn>>
  BY DEF Install
<1>3. /\ StorageInv'
      /\ DOMAIN directories \subseteq DOMAIN directories'
      /\ ok => HasStorage(a)' /\ mStorageAppInfo'[a].quota = STORAGE_MAX_SIZE
  BY <1>1, CreateInv, PackageParts, QuotaIsNat DEF PkgInv
<1>4. [StateOf(p) EXCEPT !.install = IF Created(ok) THEN "INSTALLING" ELSE StateOf(p).install] \in StateTypes
  <2>1. StateOf(p) \in StateTypes
    BY StateTyped DEF PkgInv
  <2> QED BY <2>1 DEF StateTypes, InstallStates
<1>5. MapTypes' /\ DOMAIN mState' = DOMAIN mState \cup {p}
  BY <1>1, <1>4, PutKeeps DEF PkgInv
<1>6. HandlerTypes'
  BY <1>2, <1>5, MapGrows DEF PkgInv
<1>7. InstallerTypes' /\ Delivering'
  <2>1. CASE ok
    <3>1. installer' = [pc |-> "installing", package |-> p]
      BY <1>1, <2>1 DEF Created
    <3> QED BY <1>3, <1>5, <2>1, <3>1 DEF InstallerTypes, Delivering
  <2>2. CASE ~ok
    <3>1. installer' = NoCall
      BY <1>1, <2>2 DEF Created
    <3> QED BY <3>1 DEF InstallerTypes, Delivering, NoCall
  <2> QED BY <2>1, <2>2
<1>8. LibraryTypes' /\ InstalledHasStorage'
  BY <1>2, <1>3 DEF PkgInv, LibraryTypes, InstalledHasStorage, OnDisk
<1> QED BY <1>3, <1>5, <1>6, <1>7, <1>8 DEF PkgInv

LEMMA ReturnKeeps ==
    ASSUME PkgInv, NEW p \in Packages, NEW pc, NEW state \in InstallStates,
           installer = [pc |-> pc, package |-> p], installer' = NoCall,
           Put(p, [mState[p] EXCEPT !.install = state]), UNCHANGED <<storageVars, handler, libLocks>>
    PROVE  StorageInv' /\ MapTypes' /\ InstallerTypes' /\ HandlerTypes' /\ Delivering'
<1>1. p \in DOMAIN mState
  <2>1. installer # NoCall
    <3>1. "package" \in DOMAIN installer /\ "package" \notin DOMAIN NoCall
      BY DEF NoCall
    <3> QED BY <3>1
  <2>2. installer.package \in DOMAIN mState
    BY <2>1 DEF PkgInv, InstallerTypes
  <2> QED BY <2>2
<1>2. [mState[p] EXCEPT !.install = state] \in StateTypes
  BY <1>1 DEF PkgInv, MapTypes, StateTypes
<1>3. MapTypes' /\ DOMAIN mState' = DOMAIN mState \cup {p}
  BY <1>2, PutKeeps DEF PkgInv
<1>4. HandlerTypes'
  BY <1>3, MapGrows DEF PkgInv
<1>5. StorageInv'
  BY DEF PkgInv, storageVars, StorageInv, RecordTypes, DirectoryTypes, QuotaTypes, RecordsMatchDirectories,
         OnDisk
<1> QED BY <1>3, <1>4, <1>5 DEF InstallerTypes, Delivering, NoCall

LEMMA LibraryInstallsKeeps ==
    ASSUME PkgInv, NEW p \in Packages, LibraryInstalls(p)
    PROVE  PkgInv'
<1>1. PICK state \in {"INSTALLED", "INSTALL_FAILURE"} :
          /\ InstallReturns(p, state)
          /\ installed' = installed \cup {p} \/ installed' = installed
  BY DEF LibraryInstalls
<1>2. UNCHANGED <<storageVars, handler, libLocks>> /\ torn' = torn \ {p[1]}
  BY DEF LibraryInstalls
<1>3. StorageInv' /\ MapTypes' /\ InstallerTypes' /\ HandlerTypes' /\ Delivering'
  <2>1. state \in InstallStates
    BY DEF InstallStates
  <2> QED BY <1>1, <1>2, <2>1, ReturnKeeps DEF InstallReturns
<1>4. OnDisk(p[1])
  BY <1>1 DEF InstallReturns, PkgInv, Delivering, HasStorage
<1>5. InstalledHasStorage' /\ LibraryTypes'
  BY <1>1, <1>2, <1>4 DEF PkgInv, InstalledHasStorage, LibraryTypes, OnDisk, storageVars
<1> QED BY <1>3, <1>5 DEF PkgInv

LEMMA UninstallKeeps ==
    ASSUME PkgInv, NEW a \in StoredApps, Uninstall(a)
    PROVE  PkgInv'
<1> DEFINE p == FirstOf(a)
<1>1. p \in DOMAIN mState /\ p \in Packages /\ p[1] = a
  BY FirstVersion DEF Uninstall, PkgInv, MapTypes
<1>2. CASE DeleteStorage(a, FALSE) /\ UNCHANGED packageVars
  <2>1. StorageInv' /\ DOMAIN directories' = DOMAIN directories
    BY <1>2, DeleteInv DEF PkgInv
  <2>2. MapTypes' /\ InstallerTypes' /\ HandlerTypes' /\ LibraryTypes'
    BY <1>2 DEF PkgInv, packageVars, MapTypes, InstallerTypes, HandlerTypes, LibraryTypes
  <2>3. Delivering' /\ InstalledHasStorage'
    BY <1>2, <2>1 DEF PkgInv, packageVars, Uninstall, Delivering, NoCall, InstalledHasStorage, OnDisk
  <2> QED BY <2>1, <2>2, <2>3 DEF PkgInv
<1>3. CASE /\ DeleteStorage(a, TRUE)
           /\ Put(p, [mState[p] EXCEPT !.install = "UNINSTALLING"])
           /\ installer' = [pc |-> "uninstalling", package |-> p]
           /\ torn' = torn \cup {a}
           /\ UNCHANGED <<handler, installed, libLocks, restarts>>
  <2>1. StorageInv' /\ DOMAIN directories' = DOMAIN directories \ {a}
    BY <1>3, DeleteInv DEF PkgInv
  <2>2. [mState[p] EXCEPT !.install = "UNINSTALLING"] \in StateTypes
    BY <1>1 DEF PkgInv, MapTypes, StateTypes, InstallStates
  <2>3. MapTypes' /\ DOMAIN mState' = DOMAIN mState \cup {p}
    BY <1>1, <1>3, <2>2, PutKeeps DEF PkgInv
  <2>4. HandlerTypes'
    BY <1>3, <2>3, MapGrows DEF PkgInv
  <2>5. InstallerTypes' /\ Delivering'
    BY <1>3, <2>3 DEF InstallerTypes, Delivering
  <2>6. LibraryTypes' /\ InstalledHasStorage'
    BY <1>3, <2>1 DEF PkgInv, LibraryTypes, InstalledHasStorage, OnDisk
  <2> QED BY <2>1, <2>3, <2>4, <2>5, <2>6 DEF PkgInv
<1> QED BY <1>2, <1>3 DEF Uninstall

LEMMA LibraryUninstallsKeeps ==
    ASSUME PkgInv, NEW p \in Packages, LibraryUninstalls(p)
    PROVE  PkgInv'
<1>1. UNCHANGED <<storageVars, handler, libLocks>>
  BY DEF LibraryUninstalls
<1>2. StorageInv' /\ MapTypes' /\ InstallerTypes' /\ HandlerTypes' /\ Delivering'
  <2>1. "UNINSTALLED" \in InstallStates
    BY DEF InstallStates
  <2> QED BY <1>1, <2>1, ReturnKeeps DEF LibraryUninstalls
<1>3. LibraryTypes' /\ InstalledHasStorage'
  <2>1. CASE installed' = {q \in installed : q[1] # p[1]} /\ torn' = torn \ {p[1]}
    BY <1>1, <2>1 DEF PkgInv, LibraryTypes, InstalledHasStorage, OnDisk, storageVars
  <2>2. CASE UNCHANGED <<installed, torn>>
    BY <1>1, <2>2 DEF PkgInv, LibraryTypes, InstalledHasStorage, OnDisk, storageVars
  <2> QED BY <2>1, <2>2 DEF LibraryUninstalls
<1> QED BY <1>2, <1>3 DEF PkgInv

\* Whose call a handler is in.
LEMMA CallTyped ==
    ASSUME PkgInv, NEW h \in Handlers, NEW pc, NEW p, handler[h] = [pc |-> pc, package |-> p]
    PROVE  p \in DOMAIN mState /\ mState[p] \in StateTypes
<1>1. handler[h] # NoCall
  <2>1. "package" \in DOMAIN handler[h] /\ "package" \notin DOMAIN NoCall
    BY DEF NoCall
  <2> QED BY <2>1
<1>2. handler[h].package \in DOMAIN mState
  BY <1>1 DEF PkgInv, HandlerTypes
<1> QED BY <1>2 DEF PkgInv, MapTypes, StateTypes

\* A step of handler h leaves it idle or in a call for p.
LEMMA HandlerSteps ==
    ASSUME PkgInv, NEW h \in Handlers, NEW p \in DOMAIN mState, NEW s \in StateTypes,
           Put(p, s) \/ UNCHANGED mState,
           \/ handler' = handler
           \/ HandlerDone(h)
           \/ HandlerCall(h, "locking", p)
           \/ HandlerCall(h, "unlocking", p),
           UNCHANGED unchangedByHandler, libLocks' \subseteq Packages
    PROVE  PkgInv'
<1>1. p \in Packages
  BY DEF PkgInv, MapTypes
<1>2. MapTypes' /\ DOMAIN mState' = DOMAIN mState
  BY <1>1, PutKeeps DEF PkgInv, MapTypes
<1>3. HandlerTypes'
  <2> DEFINE ps == DOMAIN mState
             values == {NoCall} \cup [pc : {"locking", "unlocking"}, package : ps]
  <2>1. handler \in [Handlers -> values]
    BY DEF PkgInv, HandlerTypes
  <2>2. /\ NoCall \in values
        /\ [pc |-> "locking", package |-> p] \in values
        /\ [pc |-> "unlocking", package |-> p] \in values
    OBVIOUS
  <2>3. handler' \in [Handlers -> values]
    <3> HIDE DEF values
    <3> QED BY <2>1, <2>2 DEF HandlerDone, HandlerCall
  <2> QED BY <1>2, <2>3 DEF HandlerTypes
<1> QED BY <1>2, <1>3, PkgFrame DEF unchangedByHandler

LEMMA HandlerKeeps ==
    ASSUME PkgInv, NEW h \in Handlers, NEW p \in Packages,
           Lock(h, p) \/ LibraryLocks(h, p) \/ Unlock(h, p) \/ LibraryUnlocks(h, p)
    PROVE  PkgInv'
<1>1. p \in DOMAIN mState => mState[p] \in StateTypes
  BY DEF PkgInv, MapTypes, StateTypes
<1>2. libLocks \subseteq Packages
  BY DEF PkgInv, LibraryTypes
<1>3. CASE Lock(h, p)
  <2>1. p \in DOMAIN mState
    BY <1>3 DEF Lock, InMap
  <2>2. [mState[p] EXCEPT !.locks = @ + 1] \in StateTypes
    BY <1>1, <2>1 DEF StateTypes
  <2> QED BY <1>2, <1>3, <2>1, <2>2, HandlerSteps DEF Lock
<1>4. CASE LibraryLocks(h, p)
  <2>1. p \in DOMAIN mState
    BY <1>4, CallTyped DEF LibraryLocks
  <2>2. [mState[p] EXCEPT !.locks = @ + 1, !.unpacked = TRUE] \in StateTypes
    <3> DEFINE r == [mState[p] EXCEPT !.locks = @ + 1]
    <3>1. r \in StateTypes
      BY <1>1, <2>1 DEF StateTypes
    <3>2. [r EXCEPT !.unpacked = TRUE] \in StateTypes
      <4> HIDE DEF r
      <4> QED BY <3>1 DEF StateTypes
    <3>3. [r EXCEPT !.unpacked = TRUE] = [mState[p] EXCEPT !.locks = @ + 1, !.unpacked = TRUE]
      BY <1>1, <2>1 DEF StateTypes
    <3> QED BY <3>2, <3>3
  <2>3. libLocks' \subseteq Packages
    BY <1>2, <1>4 DEF LibraryLocks
  <2> QED BY <1>4, <2>1, <2>2, <2>3, HandlerSteps DEF LibraryLocks
<1>5. CASE Unlock(h, p)
  <2>1. p \in DOMAIN mState /\ mState[p].locks > 0
    BY <1>5 DEF Unlock, IsLocked, InMap
  <2>2. [mState[p] EXCEPT !.locks = @ - 1] \in StateTypes
    BY <1>1, <2>1 DEF StateTypes
  <2> QED BY <1>2, <1>5, <2>1, <2>2, HandlerSteps DEF Unlock
<1>6. CASE LibraryUnlocks(h, p)
  <2>1. p \in DOMAIN mState
    BY <1>6, CallTyped DEF LibraryUnlocks
  <2>2. [mState[p] EXCEPT !.unpacked = FALSE] \in StateTypes
    BY <1>1, <2>1 DEF StateTypes
  <2>3. libLocks' \subseteq Packages
    BY <1>2, <1>6 DEF LibraryUnlocks
  <2> QED BY <1>6, <2>1, <2>2, <2>3, HandlerSteps DEF LibraryUnlocks
<1> QED BY <1>3, <1>4, <1>5, <1>6

LEMMA RequestKeeps ==
    ASSUME PkgInv, StorageRequest
    PROVE  PkgInv'
<1>1. StorageInv' /\ DOMAIN directories' = DOMAIN directories
  <2>1. ASSUME NEW a \in StoredApps, NEW uid \in Owners, NEW ok \in BOOLEAN, GetStorage(a, uid, ok)
        PROVE  StorageInv' /\ DOMAIN directories' = DOMAIN directories
    BY <2>1, GetInv DEF PkgInv
  <2>2. ASSUME NEW a \in StoredApps, Clear(a)
        PROVE  StorageInv' /\ DOMAIN directories' = DOMAIN directories
    BY <2>2, EntriesInv DEF PkgInv, Clear
  <2>3. ASSUME NEW a \in StoredApps, AppWrites(a)
        PROVE  StorageInv' /\ DOMAIN directories' = DOMAIN directories
    BY <2>3, WriteInv DEF PkgInv
  <2>4. ASSUME NEW exempt \in SUBSET StoredApps, ClearAll(exempt)
        PROVE  StorageInv' /\ DOMAIN directories' = DOMAIN directories
    BY <2>4, ClearAllInv DEF PkgInv
  <2> QED BY <2>1, <2>2, <2>3, <2>4 DEF StorageRequest
<1>2. UNCHANGED packageVars
  BY DEF StorageRequest
<1>3. MapTypes' /\ InstallerTypes' /\ HandlerTypes' /\ LibraryTypes'
  BY <1>2 DEF PkgInv, packageVars, MapTypes, InstallerTypes, HandlerTypes, LibraryTypes
<1>4. InstalledHasStorage'
  BY <1>1, <1>2 DEF PkgInv, packageVars, InstalledHasStorage, OnDisk
<1>5. Delivering'
  <2>1. SUFFICES ASSUME installer.pc = "installing"
                 PROVE  /\ HasStorage(installer.package[1])'
                        /\ mStorageAppInfo'[installer.package[1]].quota = STORAGE_MAX_SIZE
    BY <1>2 DEF Delivering, packageVars
  <2> DEFINE x == installer.package[1]
  <2>2. installer' = installer
    BY <1>2 DEF packageVars
  <2>3. HasStorage(x) /\ mStorageAppInfo[x].quota = STORAGE_MAX_SIZE
    BY <2>1 DEF PkgInv, Delivering
  <2>4. CASE UNCHANGED mStorageAppInfo
    BY <1>1, <2>2, <2>3, <2>4 DEF HasStorage, Recorded, OnDisk
  <2>5. ASSUME NEW a \in StoredApps, NEW uid \in Owners, NEW ok \in BOOLEAN, GetStorage(a, uid, ok)
        PROVE  HasStorage(x)' /\ mStorageAppInfo'[x].quota = STORAGE_MAX_SIZE
    <3>1. CASE RetrievalFails(a)
      <4>1. x # a /\ mStorageAppInfo' = Drop(mStorageAppInfo, a)
        BY <2>3, <3>1 DEF RetrievalFails
      <4> QED BY <1>1, <2>2, <2>3, <4>1 DEF Drop, HasStorage, Recorded, OnDisk
    <3>2. CASE mStorageAppInfo' = [mStorageAppInfo EXCEPT ![a].uid = uid]
      <4>1. mStorageAppInfo'[x].quota = mStorageAppInfo[x].quota
        <5>1. mStorageAppInfo[x] \in [quota : Nat, uid : Uids] /\ x \in DOMAIN mStorageAppInfo
          BY <2>3 DEF PkgInv, StorageInv, RecordTypes, HasStorage, Recorded
        <5>2. CASE x = a
          BY <3>2, <5>1, <5>2
        <5>3. CASE x # a
          BY <3>2, <5>1, <5>3
        <5> QED BY <5>2, <5>3
      <4> QED BY <1>1, <2>2, <2>3, <3>2, <4>1 DEF HasStorage, Recorded, OnDisk
    <3> QED BY <2>4, <2>5, <3>1, <3>2 DEF GetStorage, storageVars
  <2> QED BY <2>4, <2>5 DEF StorageRequest, Clear, AppWrites, ClearAll
<1> QED BY <1>1, <1>3, <1>4, <1>5 DEF PkgInv

LEMMA RestartKeeps ==
    ASSUME PkgInv, Restart
    PROVE  PkgInv'
<1>1. StorageInv' /\ directories' = directories
  BY RestartInv DEF PkgInv, Restart
<1>2. MapTypes'
  <2>1. [NewState EXCEPT !.install = "INSTALLED"] \in StateTypes
    BY DEF NewState, StateTypes, InstallStates
  <2> QED BY <2>1 DEF PkgInv, LibraryTypes, Restart, MapTypes, StateTypes
<1>3. HandlerTypes'
  BY DEF Restart, HandlerTypes
<1>4. InstallerTypes' /\ Delivering'
  BY DEF Restart, InstallerTypes, Delivering, NoCall
<1>5. LibraryTypes' /\ InstalledHasStorage'
  BY <1>1 DEF PkgInv, Restart, LibraryTypes, InstalledHasStorage, OnDisk
<1> QED BY <1>1, <1>2, <1>3, <1>4, <1>5 DEF PkgInv

LEMMA PkgStarts == PkgInit => PkgInv
<1> SUFFICES ASSUME PkgInit  PROVE PkgInv
  OBVIOUS
<1>1. StorageInv
  BY DEF PkgInit, StorageInit, StorageInv, RecordTypes, DirectoryTypes, QuotaTypes, RecordsMatchDirectories
<1>2. MapTypes /\ InstallerTypes /\ HandlerTypes /\ LibraryTypes
  BY DEF PkgInit, MapTypes, InstallerTypes, HandlerTypes, LibraryTypes
<1>3. Delivering /\ InstalledHasStorage
  BY DEF PkgInit, Delivering, NoCall, InstalledHasStorage
<1> QED BY <1>1, <1>2, <1>3 DEF PkgInv

LEMMA PkgStep == PkgInv /\ [PkgNext]_pkgVars => PkgInv'
<1> SUFFICES ASSUME PkgInv, [PkgNext]_pkgVars  PROVE PkgInv'
  OBVIOUS
<1>1. ASSUME NEW p \in Packages, Install(p) \/ LibraryInstalls(p) \/ LibraryUninstalls(p)
      PROVE  PkgInv'
  BY <1>1, InstallKeeps, LibraryInstallsKeeps, LibraryUninstallsKeeps
<1>2. ASSUME NEW a \in StoredApps, Uninstall(a)  PROVE PkgInv'
  BY <1>2, UninstallKeeps
<1>3. ASSUME NEW h \in Handlers, NEW p \in Packages,
             Lock(h, p) \/ LibraryLocks(h, p) \/ Unlock(h, p) \/ LibraryUnlocks(h, p)
      PROVE  PkgInv'
  BY <1>3, HandlerKeeps
<1>4. CASE UNCHANGED pkgVars
  <2>1. HandlerTypes' /\ MapTypes' /\ libLocks' \subseteq Packages
    BY <1>4 DEF pkgVars, packageVars, PkgInv, HandlerTypes, MapTypes, LibraryTypes
  <2> QED BY <1>4, <2>1, PkgFrame DEF pkgVars, packageVars
<1> QED BY <1>1, <1>2, <1>3, <1>4, RequestKeeps, RestartKeeps DEF PkgNext

-----------------------------------------------------------------------------
(* Locks, with one handler thread. *)

OneHandler == \A g, h \in Handlers : g = h

\* Steps that neither lock nor unlock.
LEMMA LocksFrame ==
    ASSUME LockInv, UNCHANGED <<handler, libLocks>>, DOMAIN mState \subseteq DOMAIN mState',
           \A q \in DOMAIN mState :
               mState'[q].locks = mState[q].locks /\ mState'[q].unpacked = mState[q].unpacked,
           \A q \in DOMAIN mState' \ DOMAIN mState : mState'[q].locks = 0
    PROVE  LockInv'
<1>1. InLibrary'
  BY DEF LockInv, InLibrary
<1>2. LockedWhileCounted'
  BY DEF LockInv, LockedWhileCounted
<1> QED BY <1>1, <1>2 DEF LockInv

\* The installer changes nothing of a package but its install state.
LEMMA InstallerLocks ==
    ASSUME PkgInv, LockInv, NEW p \in Packages, NEW state \in InstallStates,
           Put(p, [StateOf(p) EXCEPT !.install = state]), UNCHANGED <<handler, libLocks>>
    PROVE  LockInv'
<1>1. StateOf(p) \in StateTypes
  BY StateTyped DEF PkgInv
<1>2. [StateOf(p) EXCEPT !.install = state] \in StateTypes
  BY <1>1 DEF StateTypes
<1>3. /\ DOMAIN mState' = DOMAIN mState \cup {p}
      /\ mState'[p] = [StateOf(p) EXCEPT !.install = state]
      /\ \A q \in DOMAIN mState : q # p => mState'[q] = mState[q]
  BY <1>2, PutKeeps DEF PkgInv
<1>4. mState'[p].locks = StateOf(p).locks /\ mState'[p].unpacked = StateOf(p).unpacked
  BY <1>1, <1>3 DEF StateTypes
<1>5. IF p \in DOMAIN mState THEN StateOf(p) = mState[p] ELSE StateOf(p).locks = 0
  BY DEF StateOf, InMap, NewState
<1> QED BY <1>3, <1>4, <1>5, LocksFrame

LEMMA InstallerKeepsLocks ==
    ASSUME PkgInv, LockInv, NEW p \in Packages,
           Install(p) \/ LibraryInstalls(p) \/ LibraryUninstalls(p)
    PROVE  LockInv'
<1>1. CASE Install(p)
  <2>1. PICK ok \in BOOLEAN :
            Put(p, [StateOf(p) EXCEPT !.install = IF Created(ok) THEN "INSTALLING" ELSE StateOf(p).install])
    BY <1>1 DEF Install
  <2>2. (IF Created(ok) THEN "INSTALLING" ELSE StateOf(p).install) \in InstallStates
    BY StateTyped DEF PkgInv, StateTypes, InstallStates
  <2>3. UNCHANGED <<handler, libLocks>>
    BY <1>1 DEF Install
  <2> QED BY <2>1, <2>2, <2>3, InstallerLocks
<1>2. ASSUME NEW state \in InstallStates, NEW pc, installer = [pc |-> pc, package |-> p],
             Put(p, [mState[p] EXCEPT !.install = state]), UNCHANGED <<handler, libLocks>>
      PROVE  LockInv'
  <2>1. installer # NoCall
    <3>1. "package" \in DOMAIN installer /\ "package" \notin DOMAIN NoCall
      BY <1>2 DEF NoCall
    <3> QED BY <3>1
  <2>2. installer.package \in DOMAIN mState
    BY <2>1 DEF PkgInv, InstallerTypes
  <2>3. StateOf(p) = mState[p]
    BY <1>2, <2>2 DEF StateOf, InMap
  <2> QED BY <1>2, <2>3, InstallerLocks
<1>3. {"INSTALLED", "INSTALL_FAILURE", "UNINSTALLED"} \subseteq InstallStates
  BY DEF InstallStates
<1> QED BY <1>1, <1>2, <1>3 DEF LibraryInstalls, InstallReturns, LibraryUninstalls

LEMMA UninstallKeepsLocks ==
    ASSUME PkgInv, LockInv, NEW a \in StoredApps, Uninstall(a)
    PROVE  LockInv'
<1>1. CASE UNCHANGED packageVars
  BY <1>1, LocksFrame DEF packageVars
<1>2. CASE Put(FirstOf(a), [mState[FirstOf(a)] EXCEPT !.install = "UNINSTALLING"])
           /\ UNCHANGED <<handler, libLocks>>
  <2>1. FirstOf(a) \in DOMAIN mState /\ FirstOf(a) \in Packages
    BY FirstVersion DEF Uninstall, PkgInv, MapTypes
  <2>2. StateOf(FirstOf(a)) = mState[FirstOf(a)] /\ "UNINSTALLING" \in InstallStates
    BY <2>1 DEF StateOf, InMap, InstallStates
  <2> QED BY <1>2, <2>1, <2>2, InstallerLocks
<1> QED BY <1>1, <1>2 DEF Uninstall

LEMMA HandlerKeepsLocks ==
    ASSUME OneHandler, PkgInv, LockInv, NEW h \in Handlers, NEW p \in Packages,
           Lock(h, p) \/ LibraryLocks(h, p) \/ Unlock(h, p) \/ LibraryUnlocks(h, p)
    PROVE  LockInv'
<1>1. \A g \in Handlers : g = h
  BY DEF OneHandler
<1>2. handler \in [Handlers -> {NoCall} \cup [pc : {"locking", "unlocking"}, package : DOMAIN mState]]
  BY DEF PkgInv, HandlerTypes
<1>3. \A q \in DOMAIN mState : mState[q] \in StateTypes
  BY DEF PkgInv, MapTypes, StateTypes
<1>4. ASSUME NEW s, p \in DOMAIN mState, Put(p, s)
      PROVE  /\ DOMAIN mState' = DOMAIN mState /\ mState'[p] = s
             /\ \A q \in DOMAIN mState : q # p => mState'[q] = mState[q]
  BY <1>4 DEF Put, With
<1>5. CASE Lock(h, p)
  <2>1. p \in DOMAIN mState /\ handler[h] = NoCall /\ libLocks' = libLocks
    BY <1>5 DEF Lock, InMap
  <2>2. CASE mState[p].locks > 0 /\ Put(p, [mState[p] EXCEPT !.locks = @ + 1]) /\ UNCHANGED handler
    <3>1. mState'[p].unpacked = mState[p].unpacked
      BY <1>3, <1>4, <2>1, <2>2 DEF StateTypes
    <3>2. InLibrary'
      BY <1>1, <2>1, <2>2 DEF InLibrary
    <3>3. LockedWhileCounted'
      BY <1>4, <2>1, <2>2, <3>1 DEF LockInv, LockedWhileCounted
    <3> QED BY <3>2, <3>3 DEF LockInv
  <2>3. CASE mState[p].locks = 0 /\ HandlerCall(h, "locking", p) /\ UNCHANGED mState
    <3>1. handler'[h].package = p
      BY <1>2, <2>3 DEF HandlerCall
    <3> QED BY <1>1, <2>1, <2>3, <3>1 DEF LockInv, InLibrary, LockedWhileCounted
  <2> QED BY <1>5, <2>2, <2>3 DEF Lock
<1>6. CASE LibraryLocks(h, p)
  <2>1. p \in DOMAIN mState
    BY <1>6, CallTyped DEF LibraryLocks
  <2>2. handler'[h] = NoCall
    BY <1>2, <1>6 DEF LibraryLocks, HandlerDone
  <2>3. InLibrary'
    BY <1>1, <2>2 DEF InLibrary
  <2>4. CASE libLocks' = libLocks \cup {p} /\ Put(p, [mState[p] EXCEPT !.locks = @ + 1, !.unpacked = TRUE])
    <3>1. mState'[p].unpacked = TRUE
      <4>1. mState'[p] = [mState[p] EXCEPT !.locks = @ + 1, !.unpacked = TRUE]
        BY <1>4, <2>1, <2>4
      <4>2. "unpacked" \in DOMAIN mState[p]
        BY <1>3, <2>1 DEF StateTypes
      <4> QED BY <4>1, <4>2
    <3>2. LockedWhileCounted'
      BY <1>4, <2>1, <2>4, <3>1 DEF LockInv, LockedWhileCounted
    <3> QED BY <2>3, <3>2 DEF LockInv
  <2>5. CASE UNCHANGED <<libLocks, mState>>
    BY <2>3, <2>5 DEF LockInv, LockedWhileCounted
  <2> QED BY <1>6, <2>4, <2>5 DEF LibraryLocks
<1>7. CASE Unlock(h, p)
  <2>1. /\ p \in DOMAIN mState /\ mState[p].locks > 0 /\ handler[h] = NoCall /\ libLocks' = libLocks
        /\ Put(p, [mState[p] EXCEPT !.locks = @ - 1])
    BY <1>7 DEF Unlock, IsLocked, InMap
  <2>2. /\ mState'[p].unpacked = mState[p].unpacked
        /\ mState'[p].locks = mState[p].locks - 1
    BY <1>3, <1>4, <2>1 DEF StateTypes
  <2>3. LockedWhileCounted'
    BY <1>4, <2>1, <2>2 DEF LockInv, LockedWhileCounted
  <2>4. InLibrary'
    <3>1. CASE LastLock(p) /\ HandlerCall(h, "unlocking", p)
      <4>1. handler'[h].package = p /\ mState'[p].locks = 0
        BY <1>2, <2>2, <3>1 DEF HandlerCall, LastLock
      <4> QED BY <1>1, <1>4, <2>1, <4>1 DEF InLibrary
    <3>2. CASE UNCHANGED handler
      BY <1>1, <2>1, <3>2 DEF InLibrary
    <3> QED BY <1>7, <3>1, <3>2 DEF Unlock
  <2> QED BY <2>3, <2>4 DEF LockInv
<1>8. CASE LibraryUnlocks(h, p)
  <2>1. p \in DOMAIN mState
    BY <1>8, CallTyped DEF LibraryUnlocks
  <2>2. handler'[h] = NoCall
    BY <1>2, <1>8 DEF LibraryUnlocks, HandlerDone
  <2>3. mState[p].locks = 0
    <3>1. handler[h] # NoCall /\ handler[h].package = p
      <4>1. "package" \in DOMAIN handler[h] /\ "package" \notin DOMAIN NoCall
        BY <1>8 DEF LibraryUnlocks, NoCall
      <4> QED BY <1>8, <4>1 DEF LibraryUnlocks
    <3> QED BY <3>1 DEF LockInv, InLibrary
  <2>4. Put(p, [mState[p] EXCEPT !.unpacked = FALSE]) /\ libLocks \ {p} \subseteq libLocks'
    BY <1>8 DEF LibraryUnlocks
  <2>5. mState'[p].locks = 0
    BY <1>3, <1>4, <2>1, <2>3, <2>4 DEF StateTypes
  <2>6. LockedWhileCounted'
    BY <1>4, <2>1, <2>4, <2>5 DEF LockInv, LockedWhileCounted
  <2> QED BY <1>1, <2>2, <2>6 DEF LockInv, InLibrary
<1> QED BY <1>5, <1>6, <1>7, <1>8

LEMMA LockStep ==
    OneHandler /\ PkgInv /\ LockInv /\ [PkgNext]_pkgVars => LockInv'
<1> SUFFICES ASSUME OneHandler, PkgInv, LockInv, [PkgNext]_pkgVars  PROVE LockInv'
  OBVIOUS
<1>1. ASSUME NEW p \in Packages, Install(p) \/ LibraryInstalls(p) \/ LibraryUninstalls(p)
      PROVE  LockInv'
  BY <1>1, InstallerKeepsLocks
<1>2. ASSUME NEW a \in StoredApps, Uninstall(a)  PROVE LockInv'
  BY <1>2, UninstallKeepsLocks
<1>3. ASSUME NEW h \in Handlers, NEW p \in Packages,
             Lock(h, p) \/ LibraryLocks(h, p) \/ Unlock(h, p) \/ LibraryUnlocks(h, p)
      PROVE  LockInv'
  BY <1>3, HandlerKeepsLocks
<1>4. CASE StorageRequest \/ UNCHANGED pkgVars
  BY <1>4, LocksFrame DEF StorageRequest, packageVars, pkgVars
<1>5. CASE Restart
  BY <1>5 DEF Restart, NewState, LockInv, InLibrary, LockedWhileCounted
<1> QED BY <1>1, <1>2, <1>3, <1>4, <1>5 DEF PkgNext

-----------------------------------------------------------------------------
(* Space.  A unit of the disk is taken or promised; it is told by the      *)
(* directory it belongs to and by its number in it.                        *)

TakenIn(dirs) == UNION {{a} \X (1..dirs[a].used) : a \in DOMAIN dirs}
UsedIn(dirs, a) == IF a \in DOMAIN dirs THEN dirs[a].used ELSE 0
RestsIn(dirs, records) ==
    UNION {{a} \X (UsedIn(dirs, a) + 1 .. records[a].quota) : a \in DOMAIN records}

LEMMA UnitsNamed ==
    /\ Taken = TakenIn(directories) /\ Taken' = TakenIn(directories')
    /\ \A records : Rests(records) = RestsIn(directories, records)
    /\ Rests(mStorageAppInfo)' = RestsIn(directories', mStorageAppInfo')
<1>1. \A a \in DOMAIN directories : Used(a) = directories[a].used
  BY DEF Used, OnDisk
<1>2. \A a \in DOMAIN directories' : Used(a)' = directories'[a].used
  BY DEF Used, OnDisk
<1>3. /\ \A a : Used(a) = UsedIn(directories, a)
      /\ \A a : Used(a)' = UsedIn(directories', a)
  BY DEF Used, OnDisk, UsedIn
<1>4. Taken = TakenIn(directories)
  BY <1>1 DEF Taken, TakenIn
<1>5. Taken' = TakenIn(directories')
  BY <1>2 DEF Taken, TakenIn
<1>6. \A records : Rests(records) = RestsIn(directories, records)
  BY <1>3 DEF Rests, RestsIn
<1>7. Rests(mStorageAppInfo)' = RestsIn(directories', mStorageAppInfo')
  BY <1>3 DEF Rests, RestsIn
<1> QED BY <1>4, <1>5, <1>6, <1>7

LEMMA TakenUnit ==
    ASSUME NEW dirs, NEW u
    PROVE  u \in TakenIn(dirs) <=> \E a \in DOMAIN dirs : \E n \in 1..dirs[a].used : u = <<a, n>>
<1>1. u \in TakenIn(dirs) <=> \E a \in DOMAIN dirs : u \in {a} \X (1..dirs[a].used)
  <2> DEFINE part(a) == {a} \X (1..dirs[a].used)
             parts == {part(a) : a \in DOMAIN dirs}
  <2>1. (\E p \in parts : u \in p) <=> \E a \in DOMAIN dirs : u \in part(a)
    OBVIOUS
  <2>2. u \in UNION parts <=> \E p \in parts : u \in p
    OBVIOUS
  <2>3. TakenIn(dirs) = UNION parts
    BY DEF TakenIn
  <2> QED BY <2>1, <2>2, <2>3
<1>2. \A a : u \in {a} \X (1..dirs[a].used) <=> \E n \in 1..dirs[a].used : u = <<a, n>>
  OBVIOUS
<1> QED BY <1>1, <1>2

LEMMA RestUnit ==
    ASSUME NEW dirs, NEW records, NEW u
    PROVE  u \in RestsIn(dirs, records) <=>
               \E a \in DOMAIN records : \E n \in UsedIn(dirs, a) + 1 .. records[a].quota : u = <<a, n>>
<1>1. u \in RestsIn(dirs, records) <=>
          \E a \in DOMAIN records : u \in {a} \X (UsedIn(dirs, a) + 1 .. records[a].quota)
  <2> DEFINE part(a) == {a} \X (UsedIn(dirs, a) + 1 .. records[a].quota)
             parts == {part(a) : a \in DOMAIN records}
  <2>1. (\E p \in parts : u \in p) <=> \E a \in DOMAIN records : u \in part(a)
    OBVIOUS
  <2>2. u \in UNION parts <=> \E p \in parts : u \in p
    OBVIOUS
  <2>3. RestsIn(dirs, records) = UNION parts
    BY DEF RestsIn
  <2> QED BY <2>1, <2>2, <2>3
<1>2. \A a : u \in {a} \X (UsedIn(dirs, a) + 1 .. records[a].quota) <=>
                 \E n \in UsedIn(dirs, a) + 1 .. records[a].quota : u = <<a, n>>
  OBVIOUS
<1> QED BY <1>1, <1>2

\* Finitely many directories have finitely many units.
LEMMA UnitsFinite ==
    ASSUME NEW S, IsFiniteSet(S), NEW size, \A a \in S : size[a] \in Nat,
           NEW units, \A u \in units : \E a \in S : \E n \in 1..size[a] : u = <<a, n>>
    PROVE  IsFiniteSet(units) /\ Cardinality(units) \in Nat
<1> DEFINE parts == {{a} \X (1..size[a]) : a \in S}
           g == [a \in S |-> {a} \X (1..size[a])]
<1>1. IsFiniteSet(parts)
  <2>1. \A a \in S : g[a] = {a} \X (1..size[a])
    OBVIOUS
  <2>2. \A p \in parts : \E a \in S : g[a] = p
    BY <2>1
  <2>3. g \in [S -> parts]
    <3>1. \A a \in S : {a} \X (1..size[a]) \in parts
      OBVIOUS
    <3> HIDE DEF parts
    <3> QED BY <3>1
  <2> HIDE DEF parts, g
  <2>4. g \in Surjection(S, parts)
    BY <2>2, <2>3 DEF Surjection
  <2> QED BY <2>4, FS_Surjection
<1>2. ASSUME NEW p \in parts PROVE IsFiniteSet(p)
  <2>1. PICK a \in S : p = {a} \X (1..size[a])
    OBVIOUS
  <2>2. 1 \in Int /\ size[a] \in Int
    OBVIOUS
  <2>3. IsFiniteSet({a}) /\ IsFiniteSet(1..size[a])
    BY <2>2, FS_Singleton, FS_Interval
  <2> QED BY <2>1, <2>3, FS_Product
<1>3. IsFiniteSet(UNION parts)
  <2> HIDE DEF parts
  <2> QED BY <1>1, <1>2, FS_UNION
<1>4. units \subseteq UNION parts
  <2> SUFFICES ASSUME NEW u \in units PROVE u \in UNION parts
    OBVIOUS
  <2>1. PICK a \in S : \E n \in 1..size[a] : u = <<a, n>>
    OBVIOUS
  <2>2. u \in {a} \X (1..size[a]) /\ {a} \X (1..size[a]) \in parts
    BY <2>1
  <2> QED BY <2>2
<1> QED BY <1>3, <1>4, FS_Subset, FS_CardinalityType

LEMMA TakenFinite ==
    ASSUME NEW dirs, IsFiniteSet(DOMAIN dirs), \A a \in DOMAIN dirs : dirs[a].used \in Nat
    PROVE  IsFiniteSet(TakenIn(dirs)) /\ Cardinality(TakenIn(dirs)) \in Nat
<1> DEFINE size == [a \in DOMAIN dirs |-> dirs[a].used]
<1>1. \A a \in DOMAIN dirs : size[a] = dirs[a].used
  OBVIOUS
<1> HIDE DEF size
<1>2. \A u \in TakenIn(dirs) : \E a \in DOMAIN dirs : \E n \in 1..size[a] : u = <<a, n>>
  BY <1>1, TakenUnit
<1>3. \A a \in DOMAIN dirs : size[a] \in Nat
  BY <1>1
<1> QED BY <1>2, <1>3, UnitsFinite

LEMMA RestsFinite ==
    ASSUME NEW dirs, \A a \in DOMAIN dirs : dirs[a].used \in Nat,
           NEW records, IsFiniteSet(DOMAIN records), \A a \in DOMAIN records : records[a].quota \in Nat
    PROVE  IsFiniteSet(RestsIn(dirs, records)) /\ Cardinality(RestsIn(dirs, records)) \in Nat
<1> DEFINE size == [a \in DOMAIN records |-> records[a].quota]
<1>1. \A a \in DOMAIN records : size[a] = records[a].quota
  OBVIOUS
<1> HIDE DEF size
<1>2. \A a : UsedIn(dirs, a) \in Nat
  BY DEF UsedIn
<1>3. ASSUME NEW u \in RestsIn(dirs, records)
      PROVE  \E a \in DOMAIN records : \E n \in 1..size[a] : u = <<a, n>>
  <2>0. PICK a \in DOMAIN records : \E n \in UsedIn(dirs, a) + 1 .. records[a].quota : u = <<a, n>>
    BY <1>3, RestUnit
  <2>1. PICK n \in UsedIn(dirs, a) + 1 .. records[a].quota : u = <<a, n>>
    BY <2>0
  <2>2. n \in 1..size[a]
    BY <1>1, <1>2, <2>1
  <2> QED BY <2>1, <2>2
<1>4. \A a \in DOMAIN records : size[a] \in Nat
  BY <1>1
<1> QED BY <1>3, <1>4, UnitsFinite

\* What keeps a promise: every record stands for the full quota or for none;
\* PersistentStore never has one that the record lacks, nor one that comes
\* back with a restart for a directory that is without a record.
QuotasKept ==
    /\ \A a \in DOMAIN quotaSize : quotaSize[a] = STORAGE_MAX_SIZE
    /\ \A a \in DOMAIN mStorageAppInfo :
          a \in DOMAIN quotaSize => mStorageAppInfo[a].quota = STORAGE_MAX_SIZE
    /\ \A a \in WellNamed : OnDisk(a) /\ ~Recorded(a) => a \notin DOMAIN quotaSize

FewOfBoth == IsFiniteSet(DOMAIN mStorageAppInfo) /\ IsFiniteSet(DOMAIN directories)
UnitsFit ==
    Cardinality(TakenIn(directories)) + Cardinality(RestsIn(directories, mStorageAppInfo)) <= DiskSize

SpaceInv == FewOfBoth /\ QuotasKept /\ UnitsFit

LEMMA UnitsTyped ==
    ASSUME StorageInv, FewOfBoth
    PROVE  /\ IsFiniteSet(TakenIn(directories)) /\ Cardinality(TakenIn(directories)) \in Nat
           /\ IsFiniteSet(RestsIn(directories, mStorageAppInfo))
           /\ Cardinality(RestsIn(directories, mStorageAppInfo)) \in Nat
           /\ \A a \in DOMAIN directories : directories[a].used \in Nat
           /\ \A a \in DOMAIN mStorageAppInfo : mStorageAppInfo[a].quota \in Nat
<1>1. /\ \A a \in DOMAIN directories : directories[a].used \in Nat
      /\ \A a \in DOMAIN mStorageAppInfo : mStorageAppInfo[a].quota \in Nat
  BY DEF StorageInv, DirectoryTypes, RecordTypes
<1> QED BY <1>1, TakenFinite, RestsFinite DEF FewOfBoth

\* What is freed may be promised again.
LEMMA FreedUnits ==
    ASSUME NEW T, NEW P, NEW T2, NEW P2, IsFiniteSet(T), IsFiniteSet(P),
           T2 \subseteq T, P2 \subseteq P \cup (T \ T2)
    PROVE  Cardinality(T2) + Cardinality(P2) <= Cardinality(T) + Cardinality(P)
<1> DEFINE freed == T \ T2
<1>1. IsFiniteSet(T2) /\ IsFiniteSet(freed)
  BY FS_Subset
<1>2. T = T2 \cup freed /\ T2 \cap freed = {}
  OBVIOUS
<1>3. Cardinality(T2 \cup freed) = Cardinality(T2) + Cardinality(freed) - Cardinality(T2 \cap freed)
  BY <1>1, FS_Union
<1>4. Cardinality({}) = 0 /\ Cardinality(T2) \in Nat /\ Cardinality(freed) \in Nat /\ Cardinality(P) \in Nat
  BY <1>1, FS_EmptySet, FS_CardinalityType
<1>5. /\ IsFiniteSet(P \cup freed)
      /\ Cardinality(P \cup freed) = Cardinality(P) + Cardinality(freed) - Cardinality(P \cap freed)
  BY <1>1, FS_Union
<1>6. Cardinality(P \cap freed) \in Nat
  BY FS_Intersection, FS_CardinalityType
<1>7. IsFiniteSet(P2) /\ Cardinality(P2) <= Cardinality(P \cup freed)
  BY <1>5, FS_Subset
<1>8. Cardinality(P2) \in Nat /\ Cardinality(P \cup freed) \in Nat
  BY <1>5, <1>7, FS_CardinalityType
<1> HIDE DEF freed
<1>9. Cardinality(T) = Cardinality(T2) + Cardinality(freed)
  <2>1. Cardinality(T) = Cardinality(T2 \cup freed) /\ Cardinality(T2 \cap freed) = 0
    BY <1>2, <1>4
  <2> QED BY <1>3, <1>4, <2>1
<1>10. Cardinality(P2) <= Cardinality(P) + Cardinality(freed)
  BY <1>4, <1>5, <1>6, <1>7, <1>8
<1> QED BY <1>4, <1>8, <1>9, <1>10

\* A request that lets no directory grow, and leaves no record with a quota
\* it did not have.
LEMMA SpaceShrinks ==
    ASSUME StorageInv, SpaceInv, StorageInv',
           DOMAIN directories' \subseteq DOMAIN directories,
           \A b \in DOMAIN directories' : directories'[b].used <= directories[b].used,
           DOMAIN mStorageAppInfo' \subseteq DOMAIN mStorageAppInfo \cup DOMAIN directories,
           \A b \in DOMAIN mStorageAppInfo' :
               \/ mStorageAppInfo'[b].quota = 0
               \/ b \in DOMAIN mStorageAppInfo /\ mStorageAppInfo'[b].quota = mStorageAppInfo[b].quota
    PROVE  FewOfBoth' /\ UnitsFit'
<1> DEFINE T == TakenIn(directories)   P == RestsIn(directories, mStorageAppInfo)
           T2 == TakenIn(directories') P2 == RestsIn(directories', mStorageAppInfo')
<1>1. FewOfBoth'
  <2>1. IsFiniteSet(DOMAIN directories') /\ IsFiniteSet(DOMAIN mStorageAppInfo \cup DOMAIN directories)
    BY FS_Subset, FS_Union DEF SpaceInv, FewOfBoth
  <2> QED BY <2>1, FS_Subset DEF FewOfBoth
<1>2. /\ \A a \in DOMAIN directories : directories[a].used \in Nat
      /\ \A a \in DOMAIN mStorageAppInfo : mStorageAppInfo[a].quota \in Nat
      /\ \A a \in DOMAIN directories' : directories'[a].used \in Nat
      /\ \A a \in DOMAIN mStorageAppInfo' : mStorageAppInfo'[a].quota \in Nat
  BY DEF StorageInv, DirectoryTypes, RecordTypes
<1>3. /\ DOMAIN mStorageAppInfo' \subseteq DOMAIN directories'
      /\ DOMAIN mStorageAppInfo \subseteq DOMAIN directories
  BY DEF StorageInv, RecordsMatchDirectories, OnDisk
<1>4. T2 \subseteq T
  <2> SUFFICES ASSUME NEW u \in T2 PROVE u \in T
    OBVIOUS
  <2>1. PICK a \in DOMAIN directories' : \E n \in 1..directories'[a].used : u = <<a, n>>
    BY TakenUnit
  <2>2. \E n \in 1..directories[a].used : u = <<a, n>>
    <3>1. PICK n \in 1..directories'[a].used : u = <<a, n>>
      BY <2>1
    <3>2. n \in 1..directories[a].used
      BY <1>2, <2>1, <3>1
    <3> QED BY <3>1, <3>2
  <2> QED BY <2>1, <2>2, TakenUnit
<1>5. P2 \subseteq P \cup (T \ T2)
  <2> SUFFICES ASSUME NEW u \in P2, u \notin P PROVE u \in T /\ u \notin T2
    OBVIOUS
  <2>1. PICK a \in DOMAIN mStorageAppInfo' :
            \E n \in UsedIn(directories', a) + 1 .. mStorageAppInfo'[a].quota : u = <<a, n>>
    BY RestUnit
  <2>2. PICK n \in UsedIn(directories', a) + 1 .. mStorageAppInfo'[a].quota : u = <<a, n>>
    BY <2>1
  <2>3. a \in DOMAIN directories' /\ a \in DOMAIN directories
    BY <1>3, <2>1
  <2>4. UsedIn(directories', a) = directories'[a].used /\ UsedIn(directories, a) = directories[a].used
    BY <2>3 DEF UsedIn
  <2>5. directories'[a].used \in Nat /\ directories[a].used \in Nat /\ mStorageAppInfo'[a].quota \in Nat
    BY <1>2, <2>1, <2>3
  <2>6. n \in Nat /\ n > directories'[a].used /\ n <= mStorageAppInfo'[a].quota
    BY <2>2, <2>4, <2>5
  <2>7. a \in DOMAIN mStorageAppInfo /\ mStorageAppInfo'[a].quota = mStorageAppInfo[a].quota
    BY <2>1, <2>5, <2>6
  <2>8. n <= directories[a].used
    <3> SUFFICES ASSUME n > directories[a].used PROVE FALSE
      BY <2>5, <2>6
    <3>1. n \in directories[a].used + 1 .. mStorageAppInfo[a].quota
      BY <2>5, <2>6, <2>7
    <3> QED BY <2>2, <2>4, <2>7, <3>1, RestUnit
  <2>9. n \in 1..directories[a].used
    BY <2>5, <2>6, <2>8
  <2>10. u \in T
    BY <2>2, <2>3, <2>9, TakenUnit
  <2>11. ASSUME u \in T2 PROVE FALSE
    <3>1. PICK b \in DOMAIN directories' : \E m \in 1..directories'[b].used : u = <<b, m>>
      BY <2>11, TakenUnit
    <3>2. PICK m \in 1..directories'[b].used : u = <<b, m>>
      BY <3>1
    <3>3. b = a /\ m = n
      BY <2>2, <3>2
    <3> QED BY <2>5, <2>6, <3>2, <3>3
  <2> QED BY <2>10, <2>11
<1>6. /\ IsFiniteSet(T) /\ Cardinality(T) \in Nat /\ IsFiniteSet(P) /\ Cardinality(P) \in Nat
      /\ Cardinality(T) + Cardinality(P) <= DiskSize
  BY UnitsTyped DEF SpaceInv, UnitsFit
<1>7. Cardinality(T2) \in Nat /\ Cardinality(P2) \in Nat
  BY <1>1, <1>2, TakenFinite, RestsFinite DEF FewOfBoth
<1> HIDE DEF T, P, T2, P2
<1>8. Cardinality(T2) + Cardinality(P2) <= Cardinality(T) + Cardinality(P)
  BY <1>4, <1>5, <1>6, FreedUnits
<1>9. Cardinality(T2) + Cardinality(P2) <= DiskSize
  BY <1>6, <1>7, <1>8, StorageAssumption
<1> QED BY <1>1, <1>9 DEF T2, P2, UnitsFit

LEMMA QuotasSame ==
    ASSUME QuotasKept, UNCHANGED quotaSize, DOMAIN mStorageAppInfo' = DOMAIN mStorageAppInfo,
           \A b \in DOMAIN mStorageAppInfo : mStorageAppInfo'[b].quota = mStorageAppInfo[b].quota,
           DOMAIN directories' \subseteq DOMAIN directories
    PROVE  QuotasKept'
BY DEF QuotasKept, OnDisk, Recorded

\* Requests that leave the records with their quotas.
LEMMA RecordsStay ==
    ASSUME StorageInv, SpaceInv, StorageInv', UNCHANGED quotaSize,
           DOMAIN mStorageAppInfo' = DOMAIN mStorageAppInfo,
           \A b \in DOMAIN mStorageAppInfo : mStorageAppInfo'[b].quota = mStorageAppInfo[b].quota,
           DOMAIN directories' = DOMAIN directories,
           \A b \in DOMAIN directories : directories'[b].used <= directories[b].used
    PROVE  SpaceInv'
<1>1. QuotasKept'
  BY QuotasSame DEF SpaceInv
<1>2. FewOfBoth' /\ UnitsFit'
  BY SpaceShrinks
<1> QED BY <1>1, <1>2 DEF SpaceInv

LEMMA StorageUnchanged ==
    ASSUME StorageInv, SpaceInv, UNCHANGED storageVars
    PROVE  SpaceInv'
<1>1. UNCHANGED <<mStorageAppInfo, directories, quotaSize>>
  BY DEF storageVars
<1> QED BY <1>1 DEF SpaceInv, QuotasKept, FewOfBoth, UnitsFit, OnDisk, Recorded

LEMMA GetSpace ==
    ASSUME StorageInv, SpaceInv, NEW a \in StoredApps, NEW uid \in Owners, NEW ok \in BOOLEAN,
           GetStorage(a, uid, ok)
    PROVE  SpaceInv'
<1>1. StorageInv'
  BY GetInv
<1>2. /\ \A b \in DOMAIN directories : directories[b] \in [owner : Uids, used : Nat]
      /\ \A b \in DOMAIN mStorageAppInfo : mStorageAppInfo[b] \in [quota : Nat, uid : Uids]
  BY DEF StorageInv, DirectoryTypes, RecordTypes
<1>3. CASE RetrievalFails(a)
  <2>1. ~Recorded(a)
    BY <1>3 DEF RetrievalFails, HasStorage, StorageInv, RecordsMatchDirectories, Recorded
  <2>2. UNCHANGED <<quotaSize, directories>> /\ mStorageAppInfo' = Drop(mStorageAppInfo, a)
    BY <1>3, <2>1 DEF RetrievalFails, Forgotten
  <2>3. /\ DOMAIN mStorageAppInfo' = DOMAIN mStorageAppInfo
        /\ \A b \in DOMAIN mStorageAppInfo : mStorageAppInfo'[b] = mStorageAppInfo[b]
    BY <2>1, <2>2 DEF Drop, Recorded
  <2>4. \A b \in DOMAIN directories : directories'[b].used <= directories[b].used
    BY <1>2, <2>2
  <2> QED BY <1>1, <2>2, <2>3, <2>4, RecordsStay
<1>4. CASE UNCHANGED storageVars
  BY <1>4, StorageUnchanged
<1>5. CASE /\ directories' = [directories EXCEPT ![a].owner = uid]
           /\ mStorageAppInfo' = [mStorageAppInfo EXCEPT ![a].uid = uid]
           /\ UNCHANGED quotaSize
  <2>1. DOMAIN mStorageAppInfo' = DOMAIN mStorageAppInfo /\ DOMAIN directories' = DOMAIN directories
    BY <1>5
  <2>2. ASSUME NEW b \in DOMAIN mStorageAppInfo PROVE mStorageAppInfo'[b].quota = mStorageAppInfo[b].quota
    <3>1. CASE b = a
      BY <1>2, <1>5, <3>1
    <3>2. CASE b # a
      BY <1>5, <3>2
    <3> QED BY <3>1, <3>2
  <2>3. ASSUME NEW b \in DOMAIN directories PROVE directories'[b].used <= directories[b].used
    <3>1. directories'[b].used = directories[b].used
      <4>1. CASE b = a
        BY <1>2, <1>5, <4>1
      <4>2. CASE b # a
        BY <1>5, <4>2
      <4> QED BY <4>1, <4>2
    <3>2. directories[b].used \in Nat
      BY <1>2
    <3> QED BY <3>1, <3>2
  <2> QED BY <1>1, <1>5, <2>1, <2>2, <2>3, RecordsStay
<1> QED BY <1>3, <1>4, <1>5 DEF GetStorage

\* Removing entries makes a directory smaller.
LEMMA EntriesSmaller ==
    ASSUME StorageInv, NEW a \in StoredApps, NEW ok \in BOOLEAN, deleteDirectoryEntries(a, ok)
    PROVE  /\ DOMAIN directories' = DOMAIN directories
           /\ \A b \in DOMAIN directories : directories'[b].used <= directories[b].used
<1>1. \A b \in DOMAIN directories : directories[b] \in [owner : Uids, used : Nat]
  BY DEF StorageInv, DirectoryTypes
<1>2. ASSUME NEW n \in Nat, OnDisk(a), n <= directories[a].used, directories' = [directories EXCEPT ![a].used = n],
             NEW b \in DOMAIN directories
      PROVE  directories'[b].used <= directories[b].used
  <2>1. CASE b = a
    BY <1>1, <1>2, <2>1
  <2>2. CASE b # a
    <3>1. directories'[b] = directories[b] /\ directories[b].used \in Nat
      BY <1>1, <1>2, <2>2
    <3> QED BY <3>1
  <2> QED BY <2>1, <2>2
<1>3. CASE UNCHANGED directories
  BY <1>1, <1>3
<1>4. CASE HasStorage(a) /\ directories' = Emptied(a)
  <2>1. OnDisk(a) /\ 0 \in Nat /\ 0 <= directories[a].used
    BY <1>1, <1>4 DEF HasStorage, OnDisk
  <2> QED BY <1>2, <1>4, <2>1 DEF Emptied
<1>5. CASE HasStorage(a) /\ \E left \in 0..directories[a].used : directories' = [directories EXCEPT ![a].used = left]
  <2>1. OnDisk(a) /\ directories[a].used \in Nat
    BY <1>1, <1>5 DEF HasStorage, OnDisk
  <2>2. PICK left \in 0..directories[a].used : directories' = [directories EXCEPT ![a].used = left]
    BY <1>5
  <2>3. left \in Nat /\ left <= directories[a].used
    BY <2>1, <2>2
  <2> QED BY <1>2, <2>1, <2>2, <2>3
<1> QED BY <1>3, <1>4, <1>5 DEF deleteDirectoryEntries

LEMMA EntriesSpace ==
    ASSUME StorageInv, SpaceInv, NEW a \in StoredApps, NEW ok \in BOOLEAN,
           deleteDirectoryEntries(a, ok), UNCHANGED <<mStorageAppInfo, quotaSize>>
    PROVE  SpaceInv'
<1>1. StorageInv'
  BY EntriesInv
<1>2. /\ DOMAIN directories' = DOMAIN directories
      /\ \A b \in DOMAIN directories : directories'[b].used <= directories[b].used
  BY EntriesSmaller
<1> QED BY <1>1, <1>2, RecordsStay

LEMMA ClearAllSpace ==
    ASSUME StorageInv, SpaceInv, NEW exempt, ClearAll(exempt)
    PROVE  SpaceInv'
<1>1. StorageInv'
  BY ClearAllInv
<1>2. PICK left \in [DOMAIN directories -> 0..DiskSize] :
          /\ \A a \in DOMAIN directories : left[a] \in Left(a, exempt)
          /\ directories' = [a \in DOMAIN directories |-> [directories[a] EXCEPT !.used = left[a]]]
  BY DEF ClearAll
<1>3. DOMAIN directories' = DOMAIN directories
  BY <1>2
<1>4. ASSUME NEW b \in DOMAIN directories PROVE directories'[b].used <= directories[b].used
  <2>1. directories[b] \in [owner : Uids, used : Nat]
    BY DEF StorageInv, DirectoryTypes
  <2>2. Used(b) = directories[b].used
    BY DEF Used, OnDisk
  <2>3. left[b] <= directories[b].used
    BY <1>2, <2>1, <2>2 DEF Left
  <2>4. directories'[b].used = left[b]
    BY <1>2, <2>1
  <2> QED BY <2>3, <2>4
<1>5. UNCHANGED <<mStorageAppInfo, quotaSize>>
  BY DEF ClearAll
<1> QED BY <1>1, <1>3, <1>4, <1>5, RecordsStay

LEMMA DeleteSpace ==
    ASSUME StorageInv, SpaceInv, NEW a \in StoredApps, NEW ok \in BOOLEAN, DeleteStorage(a, ok)
    PROVE  SpaceInv'
<1>1. StorageInv'
  BY DeleteInv
<1>2. CASE UNCHANGED storageVars
  BY <1>2, StorageUnchanged
<1>3. CASE deleteDirectoryEntries(a, FALSE) /\ UNCHANGED <<mStorageAppInfo, quotaSize>>
  BY <1>3, EntriesSpace
<1>4. CASE HasStorage(a) /\ directories' = Emptied(a) /\ UNCHANGED <<mStorageAppInfo, quotaSize>>
  <2>1. deleteDirectoryEntries(a, TRUE)
    BY <1>4 DEF deleteDirectoryEntries
  <2> QED BY <1>4, <2>1, EntriesSpace
<1>5. CASE /\ directories' = Drop(directories, a)
           /\ mStorageAppInfo' = Drop(mStorageAppInfo, a)
           /\ quotaSize' \in Forgotten(a)
  <2>1. /\ DOMAIN directories' = DOMAIN directories \ {a}
        /\ \A b \in DOMAIN directories' : directories'[b] = directories[b]
        /\ DOMAIN mStorageAppInfo' = DOMAIN mStorageAppInfo \ {a}
        /\ \A b \in DOMAIN mStorageAppInfo' : mStorageAppInfo'[b] = mStorageAppInfo[b]
    BY <1>5 DEF Drop
  <2>2. \A b \in DOMAIN directories' : directories'[b].used <= directories[b].used
    <3>1. \A b \in DOMAIN directories : directories[b].used \in Nat
      BY DEF StorageInv, DirectoryTypes
    <3> QED BY <2>1, <3>1
  <2>3. FewOfBoth' /\ UnitsFit'
    BY <1>1, <2>1, <2>2, SpaceShrinks
  <2>4. \A b \in DOMAIN quotaSize' : b \in DOMAIN quotaSize /\ quotaSize'[b] = quotaSize[b]
    BY <1>5 DEF Forgotten, Drop
  <2>5. QuotasKept'
    BY <2>1, <2>4 DEF SpaceInv, QuotasKept, OnDisk, Recorded
  <2> QED BY <2>3, <2>5 DEF SpaceInv
<1> QED BY <1>2, <1>3, <1>4, <1>5 DEF DeleteStorage

\* A new record is made only where its quota is free beyond all promises.
LEMMA UnitsReserved ==
    ASSUME StorageInv, SpaceInv, StorageInv', NEW a \in StoredApps, NEW size \in Nat, NEW others,
           DOMAIN others = DOMAIN mStorageAppInfo \ {a},
           \A b \in DOMAIN others : others[b] = mStorageAppInfo[b],
           hasEnoughStorageFreeSpace(others, size),
           DOMAIN mStorageAppInfo' = DOMAIN others \cup {a},
           \A b \in DOMAIN others : mStorageAppInfo'[b] = others[b],
           mStorageAppInfo'[a].quota = size,
           DOMAIN directories' = DOMAIN directories \cup {a},
           \A b \in DOMAIN directories : directories'[b] = directories[b],
           a \notin DOMAIN directories => directories'[a].used = 0
    PROVE  FewOfBoth' /\ UnitsFit'
<1> DEFINE T == TakenIn(directories)   P == RestsIn(directories, others)
           T2 == TakenIn(directories') P2 == RestsIn(directories', mStorageAppInfo')
           new == {a} \X (1..size)
<1>1. FewOfBoth' /\ IsFiniteSet(DOMAIN others)
  <2>1. IsFiniteSet(DOMAIN others)
    BY FS_Subset DEF SpaceInv, FewOfBoth
  <2>2. IsFiniteSet({a})
    BY FS_Singleton
  <2>3. IsFiniteSet(DOMAIN others \cup {a}) /\ IsFiniteSet(DOMAIN directories \cup {a})
    BY <2>1, <2>2, FS_Union DEF SpaceInv, FewOfBoth
  <2>4. FewOfBoth'
    BY <2>3 DEF FewOfBoth
  <2> QED BY <2>1, <2>4
<1>2. /\ \A b \in DOMAIN directories : directories[b].used \in Nat
      /\ \A b \in DOMAIN directories' : directories'[b].used \in Nat
      /\ \A b \in DOMAIN others : others[b].quota \in Nat
      /\ \A b \in DOMAIN mStorageAppInfo' : mStorageAppInfo'[b].quota \in Nat
  BY DEF StorageInv, DirectoryTypes, RecordTypes
<1>3. \A b : UsedIn(directories', b) = UsedIn(directories, b) /\ UsedIn(directories, b) \in Nat
  BY <1>2 DEF UsedIn
<1>4. T2 \subseteq T
  <2> SUFFICES ASSUME NEW u \in T2 PROVE u \in T
    OBVIOUS
  <2>1. PICK b \in DOMAIN directories' : \E n \in 1..directories'[b].used : u = <<b, n>>
    BY TakenUnit
  <2>2. b \in DOMAIN directories
    BY <2>1
  <2> QED BY <2>1, <2>2, TakenUnit
<1>5. P2 \subseteq P \cup new
  <2> SUFFICES ASSUME NEW u \in P2 PROVE u \in P \cup new
    OBVIOUS
  <2>1. PICK b \in DOMAIN mStorageAppInfo' :
            \E n \in UsedIn(directories', b) + 1 .. mStorageAppInfo'[b].quota : u = <<b, n>>
    BY RestUnit
  <2>2. PICK n \in UsedIn(directories, b) + 1 .. mStorageAppInfo'[b].quota : u = <<b, n>>
    BY <1>3, <2>1
  <2>3. CASE b = a
    <3>1. n \in 1..size
      BY <1>3, <2>2, <2>3
    <3> QED BY <2>2, <2>3, <3>1
  <2>4. CASE b # a
    <3>1. b \in DOMAIN others /\ n \in UsedIn(directories, b) + 1 .. others[b].quota
      BY <2>1, <2>2, <2>4
    <3> QED BY <2>2, <3>1, RestUnit
  <2> QED BY <2>3, <2>4
<1>6. IsFiniteSet(new) /\ Cardinality(new) = size
  <2>1. 1 \in Int /\ size \in Int /\ size = IF 1 > size THEN 0 ELSE size - 1 + 1
    OBVIOUS
  <2>2. IsFiniteSet({a}) /\ Cardinality({a}) = 1 /\ IsFiniteSet(1..size) /\ Cardinality(1..size) = size
    BY <2>1, FS_Singleton, FS_Interval
  <2>3. IsFiniteSet(new) /\ Cardinality(new) = Cardinality({a}) * Cardinality(1..size)
    BY <2>2, FS_Product
  <2> QED BY <2>2, <2>3
<1>7. IsFiniteSet(T) /\ Cardinality(T) \in Nat /\ IsFiniteSet(P) /\ Cardinality(P) \in Nat
  BY <1>1, <1>2, TakenFinite, RestsFinite DEF SpaceInv, FewOfBoth
<1>8. DiskSize - Cardinality(T) - Cardinality(P) >= size
  BY UnitsNamed DEF hasEnoughStorageFreeSpace, Free, Promised
<1>9. Cardinality(T2) \in Nat /\ Cardinality(P2) \in Nat
  BY <1>1, <1>2, TakenFinite, RestsFinite DEF FewOfBoth
<1> HIDE DEF T, P, T2, P2, new
<1>10. Cardinality(T2) <= Cardinality(T)
  BY <1>4, <1>7, FS_Subset
<1>11. Cardinality(P2) <= Cardinality(P) + size
  <2>1. /\ IsFiniteSet(P \cup new)
        /\ Cardinality(P \cup new) = Cardinality(P) + Cardinality(new) - Cardinality(P \cap new)
    BY <1>6, <1>7, FS_Union
  <2>2. Cardinality(P \cap new) \in Nat /\ Cardinality(P \cup new) \in Nat
    BY <1>7, <2>1, FS_Intersection, FS_CardinalityType
  <2>3. Cardinality(P2) <= Cardinality(P \cup new)
    BY <1>5, <2>1, FS_Subset
  <2> QED BY <1>6, <1>7, <1>9, <2>1, <2>2, <2>3
<1>12. Cardinality(T2) + Cardinality(P2) <= DiskSize
  BY <1>7, <1>8, <1>9, <1>10, <1>11, StorageAssumption
<1> QED BY <1>1, <1>12 DEF T2, P2, UnitsFit

LEMMA CreateSpace ==
    ASSUME StorageInv, SpaceInv, NEW a \in StoredApps, NEW ok \in BOOLEAN,
           CreateStorage(a, STORAGE_MAX_SIZE, ok)
    PROVE  SpaceInv'
<1> DEFINE size == STORAGE_MAX_SIZE
           others == Drop(mStorageAppInfo, a)
<1>1. size \in Nat /\ StorageInv'
  BY QuotaIsNat, CreateInv
<1>2. /\ DOMAIN others = DOMAIN mStorageAppInfo \ {a}
      /\ \A b \in DOMAIN others : others[b] = mStorageAppInfo[b]
  BY DEF Drop
<1>3. CASE UNCHANGED storageVars
  BY <1>3, StorageUnchanged
<1>4. ASSUME ~SameQuota(a, size), NEW stored \in Forgotten(a)
      PROVE  /\ \A b \in DOMAIN stored : b \in DOMAIN quotaSize /\ stored[b] = quotaSize[b]
             /\ a \in DOMAIN stored => ~Recorded(a)
  <2>1. \A b \in DOMAIN stored : b \in DOMAIN quotaSize /\ stored[b] = quotaSize[b]
    BY <1>4 DEF Forgotten, Drop
  <2>2. ASSUME a \in DOMAIN stored, Recorded(a) PROVE FALSE
    <3>1. OnDisk(a) /\ mStorageAppInfo[a].quota = STORAGE_MAX_SIZE
      BY <2>1, <2>2 DEF SpaceInv, QuotasKept, Recorded, StorageInv, RecordsMatchDirectories
    <3> QED BY <1>4, <2>2, <3>1 DEF SameQuota, HasStorage
  <2> QED BY <2>1, <2>2
<1>5. ASSUME ~SameQuota(a, size), NEW stored \in Forgotten(a),
             mStorageAppInfo' = others, quotaSize' = stored, directories' = directories
      PROVE  SpaceInv'
  <2>1. \A b \in DOMAIN directories' : directories'[b].used <= directories[b].used
    <3>1. \A b \in DOMAIN directories : directories[b].used \in Nat
      BY DEF StorageInv, DirectoryTypes
    <3> QED BY <1>5, <3>1
  <2>2. FewOfBoth' /\ UnitsFit'
    <3>1. /\ DOMAIN mStorageAppInfo' \subseteq DOMAIN mStorageAppInfo
          /\ \A b \in DOMAIN mStorageAppInfo' : mStorageAppInfo'[b] = mStorageAppInfo[b]
      BY <1>2, <1>5
    <3> QED BY <1>1, <1>5, <2>1, <3>1, SpaceShrinks
  <2>3. QuotasKept'
    <3> HIDE DEF others
    <3> QED BY <1>2, <1>4, <1>5 DEF SpaceInv, QuotasKept, OnDisk, Recorded
  <2> QED BY <2>2, <2>3 DEF SpaceInv
<1>6. ASSUME ~SameQuota(a, size), NEW stored \in Forgotten(a), hasEnoughStorageFreeSpace(others, size),
             mStorageAppInfo' = With(others, a, [quota |-> size, uid |-> Unowned]),
             directories' = IF OnDisk(a) THEN directories
                            ELSE With(directories, a, [owner |-> Unowned, used |-> 0]),
             quotaSize' = With(stored, a, size) \/ quotaSize' = stored
      PROVE  SpaceInv'
  <2>1. /\ DOMAIN mStorageAppInfo' = DOMAIN others \cup {a}
        /\ \A b \in DOMAIN others : mStorageAppInfo'[b] = others[b]
        /\ mStorageAppInfo'[a].quota = size
    <3> HIDE DEF size
    <3>1. DOMAIN mStorageAppInfo' = DOMAIN others \cup {a} /\ mStorageAppInfo'[a].quota = size
      BY <1>6 DEF With
    <3>2. \A b \in DOMAIN others : b # a
      BY <1>2
    <3> HIDE DEF others
    <3>3. \A b \in DOMAIN others : mStorageAppInfo'[b] = others[b]
      BY <1>6, <3>2 DEF With
    <3> QED BY <3>1, <3>3
  <2>2. /\ DOMAIN directories' = DOMAIN directories \cup {a}
        /\ \A b \in DOMAIN directories : directories'[b] = directories[b]
        /\ a \notin DOMAIN directories => directories'[a].used = 0
    BY <1>6 DEF With, OnDisk
  <2> HIDE DEF others, size
  <2>3. FewOfBoth' /\ UnitsFit'
    BY <1>1, <1>2, <1>6, <2>1, <2>2, UnitsReserved
  <2>4. /\ DOMAIN quotaSize' \subseteq DOMAIN quotaSize \cup {a}
        /\ \A b \in DOMAIN quotaSize' : b # a => quotaSize'[b] = quotaSize[b]
        /\ a \in DOMAIN quotaSize' => quotaSize'[a] = size
    <3>1. CASE quotaSize' = stored
      BY <1>4, <1>6, <3>1 DEF SpaceInv, QuotasKept, size
    <3>2. CASE quotaSize' = With(stored, a, size)
      BY <1>4, <1>6, <3>2 DEF With
    <3> QED BY <1>6, <3>1, <3>2
  <2>5. QuotasKept'
    BY <1>2, <2>1, <2>2, <2>4 DEF SpaceInv, QuotasKept, OnDisk, Recorded, size
  <2> QED BY <2>3, <2>5 DEF SpaceInv
<1> QED BY <1>3, <1>5, <1>6 DEF CreateStorage

\* What an application writes was promised to it.
LEMMA WriteSpace ==
    ASSUME StorageInv, SpaceInv, NEW a \in StoredApps, AppWrites(a)
    PROVE  SpaceInv'
<1> DEFINE T == TakenIn(directories)   P == RestsIn(directories, mStorageAppInfo)
           T2 == TakenIn(directories') P2 == RestsIn(directories', mStorageAppInfo')
<1> PICK k : k = directories[a].used + 1
  OBVIOUS
<1> PICK x : x = <<a, k>>
  OBVIOUS
<1>1. StorageInv' /\ UNCHANGED <<mStorageAppInfo, quotaSize>>
  BY WriteInv DEF AppWrites
<1>2. /\ a \in DOMAIN directories /\ a \in DOMAIN mStorageAppInfo
      /\ directories' = [directories EXCEPT ![a].used = directories[a].used + 1]
      /\ directories[a].used < mStorageAppInfo[a].quota
  BY DEF AppWrites, HasStorage, OnDisk, Recorded, Used
<1>3. /\ \A b \in DOMAIN directories : directories[b] \in [owner : Uids, used : Nat]
      /\ \A b \in DOMAIN mStorageAppInfo : mStorageAppInfo[b].quota \in Nat
      /\ \A b \in DOMAIN directories : directories[b].used \in Nat
  BY DEF StorageInv, DirectoryTypes, RecordTypes
<1>4. /\ DOMAIN directories' = DOMAIN directories /\ directories'[a].used = k /\ k \in Nat /\ k > 0
      /\ \A b \in DOMAIN directories : b # a => directories'[b] = directories[b]
  BY <1>2, <1>3
<1>5. T2 \subseteq T \cup {x}
  <2> SUFFICES ASSUME NEW u \in T2, u # x PROVE u \in T
    OBVIOUS
  <2>1. PICK b \in DOMAIN directories' : \E n \in 1..directories'[b].used : u = <<b, n>>
    BY TakenUnit
  <2>2. PICK n \in 1..directories'[b].used : u = <<b, n>>
    BY <2>1
  <2>3. CASE b # a
    BY <1>4, <2>1, <2>2, <2>3, TakenUnit
  <2>4. CASE b = a
    <3>1. n # k
      BY <2>2, <2>4
    <3>2. n \in 1..directories[a].used
      BY <1>2, <1>3, <1>4, <2>2, <2>4, <3>1
    <3> QED BY <1>2, <2>2, <2>4, <3>2, TakenUnit
  <2> QED BY <2>3, <2>4
<1>6. x \in P
  <2>1. k \in UsedIn(directories, a) + 1 .. mStorageAppInfo[a].quota
    BY <1>2, <1>3, <1>4 DEF UsedIn
  <2> QED BY <1>2, <2>1, RestUnit
<1>7. P2 \subseteq P \ {x}
  <2> SUFFICES ASSUME NEW u \in P2 PROVE u \in P /\ u # x
    OBVIOUS
  <2>1. PICK b \in DOMAIN mStorageAppInfo :
            \E n \in UsedIn(directories', b) + 1 .. mStorageAppInfo[b].quota : u = <<b, n>>
    BY <1>1, RestUnit
  <2>2. PICK n \in UsedIn(directories', b) + 1 .. mStorageAppInfo[b].quota : u = <<b, n>>
    BY <2>1
  <2>3. CASE b # a
    <3>1. UsedIn(directories', b) = UsedIn(directories, b)
      BY <1>4, <2>3 DEF UsedIn
    <3>2. u \in P
      BY <2>1, <2>2, <3>1, RestUnit
    <3> QED BY <2>2, <2>3, <3>2
  <2>4. CASE b = a
    <3>1. UsedIn(directories', a) = k /\ UsedIn(directories, a) + 1 = k /\ UsedIn(directories, a) \in Nat
      BY <1>2, <1>3, <1>4 DEF UsedIn
    <3>2. n > k /\ n \in UsedIn(directories, a) + 1 .. mStorageAppInfo[a].quota
      BY <1>2, <1>3, <1>4, <2>2, <2>4, <3>1
    <3>3. u \in P
      BY <1>2, <2>2, <2>4, <3>2, RestUnit
    <3>4. n # k
      BY <1>4, <3>2
    <3> QED BY <2>2, <2>4, <3>3, <3>4
  <2> QED BY <2>3, <2>4
<1>8. /\ IsFiniteSet(T) /\ Cardinality(T) \in Nat /\ IsFiniteSet(P) /\ Cardinality(P) \in Nat
      /\ Cardinality(T) + Cardinality(P) <= DiskSize
  BY UnitsTyped DEF SpaceInv, UnitsFit
<1>9. FewOfBoth' /\ QuotasKept'
  <2>1. FewOfBoth'
    BY <1>1, <1>4 DEF SpaceInv, FewOfBoth
  <2>2. QuotasKept'
    BY <1>1, <1>4, QuotasSame DEF SpaceInv
  <2> QED BY <2>1, <2>2
<1>10. UnitsFit'
  <2> HIDE DEF T, P
  <2>1. IsFiniteSet(T \cup {x}) /\ Cardinality(T \cup {x}) <= Cardinality(T) + 1
    <3>1. /\ IsFiniteSet(T \cup {x})
          /\ Cardinality(T \cup {x}) = Cardinality(T) \/ Cardinality(T \cup {x}) = Cardinality(T) + 1
      BY <1>8, FS_AddElement
    <3> QED BY <1>8, <3>1
  <2>2. IsFiniteSet(P \ {x}) /\ Cardinality(P \ {x}) = Cardinality(P) - 1
    BY <1>6, <1>8, FS_RemoveElement
  <2>3. IsFiniteSet(T2) /\ Cardinality(T2) <= Cardinality(T \cup {x})
    BY <1>5, <2>1, FS_Subset
  <2>4. IsFiniteSet(P2) /\ Cardinality(P2) <= Cardinality(P \ {x})
    BY <1>7, <2>2, FS_Subset
  <2>5. /\ Cardinality(T2) \in Nat /\ Cardinality(P2) \in Nat
        /\ Cardinality(T \cup {x}) \in Nat /\ Cardinality(P \ {x}) \in Nat
    BY <2>1, <2>2, <2>3, <2>4, FS_CardinalityType
  <2> HIDE DEF T2, P2
  <2>6. Cardinality(T2) + Cardinality(P2) <= DiskSize
    BY <1>8, <2>1, <2>2, <2>3, <2>4, <2>5, StorageAssumption
  <2> QED BY <2>6 DEF T2, P2, UnitsFit
<1> QED BY <1>9, <1>10 DEF SpaceInv

\* After a restart the quotas are those PersistentStore has, if it can be read.
LEMMA RestartSpace ==
    ASSUME "get" \notin StorageFaults, StorageInv, SpaceInv, StorageRestart
    PROVE  SpaceInv'
<1>1. StorageInv' /\ UNCHANGED <<directories, quotaSize>>
  BY RestartInv DEF StorageRestart
<1>2. mStorageAppInfo' = [a \in DOMAIN directories \cap WellNamed |->
                              [quota |-> IF a \in DOMAIN quotaSize \ {} THEN quotaSize[a] ELSE 0,
                               uid   |-> directories[a].owner]]
  BY DEF StorageRestart
<1>3. /\ DOMAIN mStorageAppInfo' = DOMAIN directories \cap WellNamed
      /\ \A b \in DOMAIN mStorageAppInfo' :
             mStorageAppInfo'[b].quota = IF b \in DOMAIN quotaSize THEN quotaSize[b] ELSE 0
  BY <1>2
<1>4. ASSUME NEW b \in DOMAIN mStorageAppInfo'
      PROVE  \/ mStorageAppInfo'[b].quota = 0
             \/ b \in DOMAIN mStorageAppInfo /\ mStorageAppInfo'[b].quota = mStorageAppInfo[b].quota
  BY <1>3, <1>4 DEF SpaceInv, QuotasKept, OnDisk, Recorded
<1>5. \A b \in DOMAIN directories' : directories'[b].used <= directories[b].used
  <2>1. \A b \in DOMAIN directories : directories[b].used \in Nat
    BY DEF StorageInv, DirectoryTypes
  <2> QED BY <1>1, <2>1
<1>6. DOMAIN mStorageAppInfo' \subseteq DOMAIN mStorageAppInfo \cup DOMAIN directories
  BY <1>3
<1>7. FewOfBoth' /\ UnitsFit'
  BY <1>1, <1>4, <1>5, <1>6, SpaceShrinks
<1>8. QuotasKept'
  BY <1>1, <1>3 DEF SpaceInv, QuotasKept, OnDisk, Recorded
<1> QED BY <1>7, <1>8 DEF SpaceInv

LEMMA SpaceStep ==
    ASSUME "get" \notin StorageFaults, PkgInv, SpaceInv, [PkgNext]_pkgVars
    PROVE  SpaceInv'
<1>1. StorageInv
  BY DEF PkgInv
<1>2. ASSUME NEW p \in Packages, Install(p) \/ LibraryInstalls(p) \/ LibraryUninstalls(p)
      PROVE  SpaceInv'
  <2>1. p[1] \in StoredApps
    BY PackageParts
  <2>2. CASE Install(p)
    BY <1>1, <2>1, <2>2, CreateSpace DEF Install
  <2>3. CASE UNCHANGED storageVars
    BY <1>1, <2>3, StorageUnchanged
  <2> QED BY <1>2, <2>2, <2>3 DEF LibraryInstalls, LibraryUninstalls
<1>3. ASSUME NEW a \in StoredApps, Uninstall(a)  PROVE SpaceInv'
  BY <1>1, <1>3, DeleteSpace DEF Uninstall
<1>4. ASSUME NEW h \in Handlers, NEW p \in Packages,
             Lock(h, p) \/ LibraryLocks(h, p) \/ Unlock(h, p) \/ LibraryUnlocks(h, p)
      PROVE  SpaceInv'
  BY <1>1, <1>4, StorageUnchanged DEF Lock, LibraryLocks, Unlock, LibraryUnlocks, unchangedByHandler
<1>5. CASE StorageRequest
  <2>1. ASSUME NEW a \in StoredApps, NEW uid \in Owners, NEW ok \in BOOLEAN, GetStorage(a, uid, ok)
        PROVE  SpaceInv'
    BY <1>1, <2>1, GetSpace
  <2>2. ASSUME NEW a \in StoredApps, Clear(a)  PROVE SpaceInv'
    BY <1>1, <2>2, EntriesSpace DEF Clear
  <2>3. ASSUME NEW a \in StoredApps, AppWrites(a)  PROVE SpaceInv'
    BY <1>1, <2>3, WriteSpace
  <2>4. ASSUME NEW exempt \in SUBSET StoredApps, ClearAll(exempt)  PROVE SpaceInv'
    BY <1>1, <2>4, ClearAllSpace
  <2> QED BY <1>5, <2>1, <2>2, <2>3, <2>4 DEF StorageRequest
<1>6. CASE Restart
  BY <1>1, <1>6, RestartSpace DEF Restart
<1>7. CASE UNCHANGED pkgVars
  BY <1>1, <1>7, StorageUnchanged DEF pkgVars
<1> QED BY <1>2, <1>3, <1>4, <1>5, <1>6, <1>7 DEF PkgNext

-----------------------------------------------------------------------------
(* The theorems. *)

\* Every variable keeps its type: what the code reads back from its maps,
\* from PersistentStore and from the directories is what it has put there.
THEOREM TypesHold == PkgSpec => []TypeOK
<1>1. PkgInv => TypeOK
  BY DEF PkgInv, TypeOK, StorageInv, RecordTypes, DirectoryTypes, QuotaTypes, MapTypes, InstallerTypes,
         HandlerTypes, LibraryTypes, Uids
<1> QED BY <1>1, PkgStarts, PkgStep, PTL DEF PkgSpec

\* StorageManager has no record without its directory, and knows its owner,
\* whatever system call fails and whenever the device restarts.
THEOREM RecordsAlwaysMatch == PkgSpec => []RecordsMatchDirectories
<1>1. PkgInv => RecordsMatchDirectories
  BY DEF PkgInv, StorageInv
<1> QED BY <1>1, PkgStarts, PkgStep, PTL DEF PkgSpec

\* An installed package has its directory, unless Uninstall was cut short
\* between StorageManager and the library.
THEOREM InstalledAlwaysHasStorage == PkgSpec => []InstalledHasStorage
<1>1. PkgInv => InstalledHasStorage
  BY DEF PkgInv
<1> QED BY <1>1, PkgStarts, PkgStep, PTL DEF PkgSpec

\* Install that succeeds leaves the application with its full quota.
THEOREM InstallAlwaysDelivers == PkgSpec => InstallDelivers
<1> DEFINE Delivers ==
        \A p \in Packages :
            installer = [pc |-> "installing", package |-> p] /\ installed' # installed =>
                HasStorage(p[1]) /\ mStorageAppInfo[p[1]].quota = STORAGE_MAX_SIZE
<1>1. PkgInv => Delivers
  BY DEF PkgInv, Delivering
<1> QED BY <1>1, PkgStarts, PkgStep, PTL DEF PkgSpec, InstallDelivers

\* With one handler thread a package counted as locked is locked in the
\* library and its path known.
THEOREM CountedAlwaysLocked ==
    ASSUME OneHandler
    PROVE  PkgSpec => []LockedWhileCounted
<1>1. PkgInit => LockInv
  BY DEF PkgInit, LockInv, InLibrary, LockedWhileCounted
<1>2. PkgInv /\ LockInv /\ [PkgNext]_pkgVars => LockInv'
  BY LockStep
<1>3. LockInv => LockedWhileCounted
  BY DEF LockInv
<1> QED BY <1>1, <1>2, <1>3, PkgStarts, PkgStep, PTL DEF PkgSpec

\* PromiseFits: what the applications on record may still write is free, as
\* long as PersistentStore can be read, whatever else fails.
THEOREM PromisesAlwaysFit == "get" \notin StorageFaults => (PkgSpec => []PromiseFits)
<1> SUFFICES ASSUME "get" \notin StorageFaults PROVE PkgSpec => []PromiseFits
  OBVIOUS
<1>1. PkgInit => SpaceInv
  <2> SUFFICES ASSUME PkgInit PROVE SpaceInv
    OBVIOUS
  <2>1. mStorageAppInfo = <<>> /\ directories = <<>> /\ quotaSize = <<>>
    BY DEF PkgInit, StorageInit
  <2>2. DOMAIN mStorageAppInfo = {} /\ DOMAIN directories = {} /\ DOMAIN quotaSize = {}
    BY <2>1
  <2>3. TakenIn(directories) = {} /\ RestsIn(directories, mStorageAppInfo) = {}
    BY <2>2, TakenUnit, RestUnit
  <2>4. IsFiniteSet({}) /\ Cardinality({}) = 0
    BY FS_EmptySet
  <2>5. FewOfBoth /\ QuotasKept
    BY <2>2, <2>4 DEF FewOfBoth, QuotasKept, OnDisk, Recorded
  <2>6. UnitsFit
    BY <2>3, <2>4, StorageAssumption DEF UnitsFit
  <2> QED BY <2>5, <2>6 DEF SpaceInv
<1>2. PkgInv /\ SpaceInv /\ [PkgNext]_pkgVars => SpaceInv'
  BY SpaceStep
<1>3. PkgInv /\ SpaceInv => PromiseFits
  <2> SUFFICES ASSUME PkgInv, SpaceInv PROVE PromiseFits
    OBVIOUS
  <2>1. /\ Cardinality(TakenIn(directories)) \in Nat
        /\ Cardinality(RestsIn(directories, mStorageAppInfo)) \in Nat
        /\ Cardinality(TakenIn(directories)) + Cardinality(RestsIn(directories, mStorageAppInfo)) <= DiskSize
    BY UnitsTyped DEF PkgInv, SpaceInv, UnitsFit
  <2>2. Cardinality(RestsIn(directories, mStorageAppInfo)) <= DiskSize - Cardinality(TakenIn(directories))
    BY <2>1, StorageAssumption
  <2> QED BY <2>2, UnitsNamed DEF PromiseFits, Promised, Free
<1> QED BY <1>1, <1>2, <1>3, PkgStarts, PkgStep, PTL DEF PkgSpec
=============================================================================
