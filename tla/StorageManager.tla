--------------------------- MODULE StorageManager ---------------------------
(***************************************************************************)
(* The StorageManager plugin: a directory and a quota for every            *)
(* application, a record of both in memory, and the quota once more in     *)
(* PersistentStore, from where a restart takes it.                         *)
(*                                                                         *)
(* Every request holds mStorageManagerImplLock from beginning to end, so a *)
(* request is one step.  Whether it succeeded is the parameter ok, which   *)
(* the callers see.  Sizes are in units of the disk.                       *)
(***************************************************************************)
EXTENDS Integers, FiniteSets

CONSTANTS
    StoredApps,     \* application ids
    WellNamed,      \* the ids isValidAppStorageDirectory accepts
    Owners,         \* user ids that applications run under
    DiskSize,       \* size of the disk
    StorageFaults   \* which system calls may fail

ASSUME StorageAssumption ==
    /\ WellNamed \subseteq StoredApps
    /\ DiskSize \in Nat
    /\ StorageFaults \subseteq {"mkdir", "unlink", "rmdir", "chown", "set", "get", "delete"}

Unowned == "unowned"    \* a uid of -1, and the owner of a directory just made

VARIABLES
    mStorageAppInfo,    \* the records: quota and owner
    directories,        \* external: the directories, their owners and what they take up
    quotaSize           \* external: the quotas in PersistentStore

storageVars == <<mStorageAppInfo, directories, quotaSize>>

StorageInit ==
    /\ mStorageAppInfo = <<>>
    /\ directories = <<>>
    /\ quotaSize = <<>>

Drop(f, a) == [x \in DOMAIN f \ {a} |-> f[x]]
With(f, a, v) == [x \in DOMAIN f \cup {a} |-> IF x = a THEN v ELSE f[x]]
Recorded(a) == a \in DOMAIN mStorageAppInfo
OnDisk(a) == a \in DOMAIN directories

-----------------------------------------------------------------------------
(* Space. *)

Used(a) == IF OnDisk(a) THEN directories[a].used ELSE 0

\* Sums of sizes, as numbers of units.
Taken == UNION {{a} \X (1..Used(a)) : a \in DOMAIN directories}
Free == DiskSize - Cardinality(Taken)

\* What the applications on record may still write.  One that took more
\* than its quota counts for nothing.
Rests(records) == UNION {{a} \X (Used(a) + 1 .. records[a].quota) : a \in DOMAIN records}
Promised(records) == Cardinality(Rests(records))

FreeIsEnough(records, size)              == Free >= size
hasEnoughStorageFreeSpace(records, size) == Free - Promised(records) >= size

-----------------------------------------------------------------------------
(* Records. *)

\* retrieveAppStorageInfoByAppID
HasStorage(a) == Recorded(a) /\ OnDisk(a)

\* removeAppStorageInfoByAppID: what PersistentStore may hold afterwards.
Forgotten(a) ==
    IF Recorded(a)
    THEN {Drop(quotaSize, a)} \cup (IF "delete" \in StorageFaults THEN {quotaSize} ELSE {})
    ELSE {quotaSize}

\* A record without a directory is dropped by the request that meets it.
RetrievalFails(a) ==
    /\ ~HasStorage(a)
    /\ mStorageAppInfo' = Drop(mStorageAppInfo, a)
    /\ quotaSize' \in Forgotten(a)
    /\ UNCHANGED directories

-----------------------------------------------------------------------------
(* Requests. *)

AnyQuota(a, size)  == HasStorage(a)
SameQuota(a, size) == HasStorage(a) /\ mStorageAppInfo[a].quota = size

\* Anything but a record with the very quota is removed before the space is
\* looked for, and stays removed without enough of it.
CreateStorage(a, size, ok) ==
    \/ ~ok /\ "mkdir" \in StorageFaults /\ UNCHANGED storageVars
    \/ ok /\ SameQuota(a, size) /\ UNCHANGED storageVars
    \/ /\ ~SameQuota(a, size)
       /\ LET others == Drop(mStorageAppInfo, a)
              enough == hasEnoughStorageFreeSpace(others, size)
          IN  \E stored \in Forgotten(a) :
                \/ /\ ~ok
                   /\ ~enough \/ (~OnDisk(a) /\ "mkdir" \in StorageFaults)
                   /\ mStorageAppInfo' = others
                   /\ quotaSize' = stored
                   /\ UNCHANGED directories
                \/ /\ enough
                   /\ mStorageAppInfo' = With(others, a, [quota |-> size, uid |-> Unowned])
                   /\ directories' = IF OnDisk(a) THEN directories
                                     ELSE With(directories, a, [owner |-> Unowned, used |-> 0])
                   /\ \/ ok /\ quotaSize' = With(stored, a, size)
                      \/ ~ok /\ "set" \in StorageFaults /\ quotaSize' = stored

GetStorage(a, uid, ok) ==
    \/ ~ok /\ RetrievalFails(a)
    \/ /\ HasStorage(a)
       /\ \/ ok /\ mStorageAppInfo[a].uid = uid /\ UNCHANGED storageVars
          \/ /\ mStorageAppInfo[a].uid # uid
             /\ \/ ~ok /\ "chown" \in StorageFaults /\ UNCHANGED storageVars
                \/ /\ ok
                   /\ directories' = [directories EXCEPT ![a].owner = uid]
                   /\ mStorageAppInfo' = [mStorageAppInfo EXCEPT ![a].uid = uid]
                   /\ UNCHANGED quotaSize

\* deleteDirectoryEntries: how much of directory a is left, the directory
\* itself in any case.
Removed(a) == Drop(directories, a)
Emptied(a) == [directories EXCEPT ![a].used = 0]
deleteDirectoryEntries(a, ok) ==
    \/ ~ok /\ ~HasStorage(a) /\ UNCHANGED directories
    \/ ok /\ HasStorage(a) /\ directories' = Emptied(a)
    \/ /\ ~ok /\ HasStorage(a) /\ "unlink" \in StorageFaults
       /\ \E left \in 0..directories[a].used : directories' = [directories EXCEPT ![a].used = left]

DeleteStorage(a, ok) ==
    \/ ~ok /\ ~Recorded(a) /\ UNCHANGED storageVars
    \/ /\ ~ok /\ Recorded(a)
       /\ deleteDirectoryEntries(a, FALSE)
       /\ UNCHANGED <<mStorageAppInfo, quotaSize>>
    \/ /\ ~ok /\ HasStorage(a) /\ "rmdir" \in StorageFaults
       /\ directories' = Emptied(a)
       /\ UNCHANGED <<mStorageAppInfo, quotaSize>>
    \/ /\ ok /\ HasStorage(a)
       /\ directories' = Drop(directories, a)
       /\ mStorageAppInfo' = Drop(mStorageAppInfo, a)
       /\ quotaSize' \in Forgotten(a)

Clear(a) ==
    /\ \E ok \in BOOLEAN : deleteDirectoryEntries(a, ok)
    /\ UNCHANGED <<mStorageAppInfo, quotaSize>>

\* What may be left of a directory by ClearAll, which goes over all of
\* them: those without a record stay as they are.
Left(a, exempt) ==
    IF a \in exempt \/ ~Recorded(a) THEN {Used(a)}
    ELSE IF "unlink" \in StorageFaults THEN 0..Used(a) ELSE {0}

ClearAll(exempt) ==
    /\ \E left \in [DOMAIN directories -> 0..DiskSize] :
          /\ \A a \in DOMAIN directories : left[a] \in Left(a, exempt)
          /\ directories' = [a \in DOMAIN directories |-> [directories[a] EXCEPT !.used = left[a]]]
    /\ UNCHANGED <<mStorageAppInfo, quotaSize>>

-----------------------------------------------------------------------------
(* Surroundings. *)

\* External: an application that keeps to its quota writes a unit.
AppWrites(a) ==
    /\ HasStorage(a)
    /\ Used(a) < mStorageAppInfo[a].quota
    /\ Free > 0
    /\ directories' = [directories EXCEPT ![a].used = @ + 1]
    /\ UNCHANGED <<mStorageAppInfo, quotaSize>>

\* populateAppInfoCacheFromStoragePath, after a restart: the directories
\* tell the records, and PersistentStore the quotas, 0 if it cannot.
StorageRestart ==
    /\ \E unread \in IF "get" \in StorageFaults THEN SUBSET StoredApps ELSE {{}} :
          mStorageAppInfo' =
              [a \in DOMAIN directories \cap WellNamed |->
                  [quota |-> IF a \in DOMAIN quotaSize \ unread THEN quotaSize[a] ELSE 0,
                   uid   |-> directories[a].owner]]
    /\ UNCHANGED <<directories, quotaSize>>
=============================================================================
