--------------------------- MODULE USBMassStorage ---------------------------
(***************************************************************************)
(* USBMassStorage on top of USBDevice: mass storage devices come and go,   *)
(* USBDevice tells it by a job, USBMassStorage mounts and unmounts in jobs *)
(* of its own, mounts at start-up what is there already, and on demand in  *)
(* GetMountPoints.                                                         *)
(*                                                                         *)
(* Only the jobs hold _adminLock, one at a time in an order that the       *)
(* threads of the pool decide.  The records are shared with the other two  *)
(* without a lock; the model takes each access for atomic.                 *)
(***************************************************************************)
EXTENDS Naturals, Sequences, FiniteSets

CONSTANTS
    Devices,            \* device names
    PartitionCount,     \* partitions of a device
    UsbPoolThreads,     \* threads of the worker pools
    UsbFaults,          \* what may go wrong
    MaxUsbEvents            \* bound: devices plugged in and out, and calls of GetMountPoints

ASSUME UsbAssumption ==
    /\ IsFiniteSet(Devices)
    /\ PartitionCount \in Nat \ {0}
    /\ UsbPoolThreads \in Nat \ {0}
    /\ UsbFaults \subseteq {"path", "mount", "busy"}
    /\ MaxUsbEvents \in Nat

VARIABLES
    attached,               \* external: the devices that are plugged in
    usbJobs, storageJobs,   \* jobs of USBDevice and of USBMassStorage
    registered,             \* USBMassStorage listens to USBDevice
    listed,                 \* MountDevicesOnBootUp has asked for the devices
    bootList,               \* the devices MountDevicesOnBootUp has still to mount
    usbStorageDeviceInfo,   \* per device, how often it is in the list of devices
    usbStorageMountInfo,    \* per device, partitions and where they are mounted
    mounts,                 \* external: what is mounted where
    mounting,               \* per thread, the DeviceMount it is in
    unmounting,             \* the DispatchUnMountEvent of the job
    failed,                 \* history: devices that came with no path, failed to mount, or had events out of order
    usbEvents                   \* counter for the bound

usbVars == <<attached, usbJobs, storageJobs, registered, listed, bootList, usbStorageDeviceInfo,
             usbStorageMountInfo, mounts, mounting, unmounting, failed, usbEvents>>

MountThreads == {"boot", "job", "client"}
NotMounting  == [pc |-> "idle"]
UsbEvent(kind, d, path) == [kind |-> kind, dev |-> d, path |-> path]
Paths == IF "path" \in UsbFaults THEN BOOLEAN ELSE {TRUE}

UsbInit ==
    /\ attached \in SUBSET Devices
    /\ usbJobs = <<>> /\ storageJobs = <<>>
    /\ registered = FALSE
    /\ listed = FALSE
    /\ bootList = <<>>
    /\ usbStorageDeviceInfo = [d \in Devices |-> 0]
    /\ usbStorageMountInfo = [d \in Devices |-> <<>>]
    /\ mounts = {}
    /\ mounting = [t \in MountThreads |-> NotMounting]
    /\ unmounting = NotMounting
    /\ failed = {}
    /\ usbEvents = 0

UsbEventCounted == usbEvents < MaxUsbEvents /\ usbEvents' = usbEvents + 1
Add(d)    == usbStorageDeviceInfo' = [usbStorageDeviceInfo EXCEPT ![d] = @ + 1]
OneLess(n) == IF n = 0 THEN 0 ELSE n - 1
Remove(d) == usbStorageDeviceInfo' = [usbStorageDeviceInfo EXCEPT ![d] = OneLess(@)]

-----------------------------------------------------------------------------
(* USBDevice: hotplug callbacks and their jobs. *)

LeftJobs(q, k) == SubSeq(q, 1, k - 1) \o SubSeq(q, k + 1, Len(q))

\* A thread of the pool carries out the kth job, before those that others
\* have taken and not carried out yet.
OutOfOrder(q, k) == IF \E j \in 1..(k - 1) : q[j].dev = q[k].dev THEN {q[k].dev} ELSE {}

\* The path of a device that has just come may not be found.
PlugIn(d) ==
    /\ d \notin attached
    /\ UsbEventCounted
    /\ attached' = attached \cup {d}
    /\ \E path \in Paths :
          /\ usbJobs' = Append(usbJobs, UsbEvent("in", d, path))
          /\ failed' = IF path THEN failed \ {d} ELSE failed \cup {d}
    /\ UNCHANGED <<storageJobs, registered, listed, bootList, usbStorageDeviceInfo,
                   usbStorageMountInfo, mounts, mounting, unmounting>>

PlugOut(d) ==
    /\ d \in attached
    /\ UsbEventCounted
    /\ attached' = attached \ {d}
    /\ usbJobs' = Append(usbJobs, UsbEvent("out", d, FALSE))
    /\ UNCHANGED <<storageJobs, registered, listed, bootList, usbStorageDeviceInfo,
                   usbStorageMountInfo, mounts, mounting, unmounting, failed>>

\* OnDevicePluggedIn asks whether a device without a name is mounted
\* already, which none is.
StorageJobs(e) ==
    IF registered /\ (e.kind = "in" => e.path) THEN Append(storageJobs, e) ELSE storageJobs

UsbDispatch(k) ==
    /\ k \in DOMAIN usbJobs
    /\ usbJobs' = LeftJobs(usbJobs, k)
    /\ failed' = failed \cup OutOfOrder(usbJobs, k)
    /\ storageJobs' = StorageJobs(usbJobs[k])
    /\ UNCHANGED <<attached, registered, listed, bootList, usbStorageDeviceInfo, usbStorageMountInfo,
                   mounts, mounting, unmounting, usbEvents>>

-----------------------------------------------------------------------------
(* DeviceMount, in three kinds of threads. *)

Begun(d) == [pc |-> "find", dev |-> d, part |-> 1, path |-> 0, success |-> FALSE]

\* The first directory that stat does not find.
Taken == {m.path : m \in mounts}
FirstFree == CHOOSE i \in 1..(Cardinality(Taken) + 1) : i \notin Taken /\ \A j \in 1..(i - 1) : j \in Taken

FindMountPoint(t) ==
    /\ mounting[t].pc = "find"
    /\ mounting' = [mounting EXCEPT ![t].pc = "make", ![t].path = FirstFree]
    /\ UNCHANGED <<attached, usbJobs, storageJobs, registered, listed, bootList, usbStorageDeviceInfo,
                   usbStorageMountInfo, mounts, failed, usbEvents, unmounting>>

\* The next partition; or the end, when a device that a job has mounted
\* enters the list, however often it is there.
Continue(t, mounted) ==
    LET m == mounting[t]
        success == m.success \/ mounted
        last == m.part = PartitionCount
    IN  /\ mounting' = [mounting EXCEPT ![t] =
               IF last THEN NotMounting
               ELSE [m EXCEPT !.pc = "find", !.part = @ + 1, !.path = 0, !.success = success]]
        /\ failed' = IF last /\ ~success THEN failed \cup {m.dev} ELSE failed
        /\ IF last /\ success /\ t = "job" THEN Add(m.dev) ELSE UNCHANGED usbStorageDeviceInfo

\* Whether mkdir makes the directory: another thread may have been faster.
Makes(path) == path \notin Taken

MountPartition(t) ==
    /\ mounting[t].pc = "make"
    /\ LET m == mounting[t]
           mount == [part |-> <<m.dev, m.part>>, path |-> m.path]
       IN  \/ /\ Makes(m.path) /\ m.dev \in attached
              /\ mounts' = mounts \cup {mount}
              /\ usbStorageMountInfo' = [usbStorageMountInfo EXCEPT ![m.dev] = Append(@, mount)]
              /\ Continue(t, TRUE)
           \/ /\ ~Makes(m.path) \/ m.dev \notin attached \/ "mount" \in UsbFaults
              /\ Continue(t, FALSE)
              /\ UNCHANGED <<mounts, usbStorageMountInfo>>
    /\ UNCHANGED <<attached, usbJobs, storageJobs, registered, listed, bootList, usbEvents, unmounting>>

-----------------------------------------------------------------------------
(* Start-up: listen first, then ask for the devices that are there. *)

InSomeOrder(S) == {s \in [1..Cardinality(S) -> S] : \A i, j \in DOMAIN s : i # j => s[i] # s[j]}

Register ==
    /\ ~registered
    /\ registered' = TRUE
    /\ UNCHANGED <<attached, usbJobs, storageJobs, listed, bootList, usbStorageDeviceInfo,
                   usbStorageMountInfo, mounts, mounting, unmounting, failed, usbEvents>>

AnyTime == TRUE
MayList == registered

ListDevices ==
    /\ MayList /\ ~listed
    /\ listed' = TRUE
    /\ \E found \in SUBSET attached :
          /\ "path" \notin UsbFaults => found = attached
          /\ bootList' \in InSomeOrder(found)
          /\ failed' = failed \cup (attached \ found)
    /\ UNCHANGED <<attached, usbJobs, storageJobs, registered, usbStorageDeviceInfo,
                   usbStorageMountInfo, mounts, mounting, unmounting, usbEvents>>

MountOnBootUp ==
    /\ mounting["boot"] = NotMounting
    /\ bootList # <<>>
    /\ bootList' = Tail(bootList)
    /\ Add(Head(bootList))
    /\ mounting' = [mounting EXCEPT !["boot"] = Begun(Head(bootList))]
    /\ UNCHANGED <<attached, usbJobs, storageJobs, registered, listed, usbStorageMountInfo,
                   mounts, failed, usbEvents, unmounting>>

-----------------------------------------------------------------------------
(* The jobs, with _adminLock, in several steps each. *)

NextJob(k, kind, d) ==
    /\ mounting["job"] = NotMounting /\ unmounting = NotMounting
    /\ k \in DOMAIN storageJobs
    /\ storageJobs[k].kind = kind /\ storageJobs[k].dev = d
    /\ storageJobs' = LeftJobs(storageJobs, k)
    /\ failed' = failed \cup OutOfOrder(storageJobs, k)

DispatchMountEvent(k, d) ==
    /\ NextJob(k, "in", d)
    /\ mounting' = [mounting EXCEPT !["job"] = Begun(d)]
    /\ UNCHANGED <<attached, usbJobs, registered, listed, bootList, usbStorageDeviceInfo,
                   usbStorageMountInfo, mounts, unmounting, usbEvents>>

Unmount(pc, d, part, success) == [pc |-> pc, dev |-> d, part |-> part, success |-> success]

\* A device without records leaves the list; for another the loop over its
\* records begins.
DispatchUnMountEvent(k, d) ==
    /\ NextJob(k, "out", d)
    /\ IF usbStorageMountInfo[d] = <<>>
       THEN Remove(d) /\ UNCHANGED unmounting
       ELSE unmounting' = Unmount("unmount", d, 1, FALSE) /\ UNCHANGED usbStorageDeviceInfo
    /\ UNCHANGED <<attached, usbJobs, registered, listed, bootList, usbStorageMountInfo, mounts,
                   mounting, usbEvents>>

unchangedByUnmount == <<attached, usbJobs, storageJobs, registered, listed, bootList, mounting, failed, usbEvents>>

\* umount and rmdir, which may find the partition busy.  Another thread may
\* mount in the directory from now on, and the record is still there.
UnmountPartition ==
    LET m == unmounting
        records == usbStorageMountInfo[m.dev]
    IN  /\ m.pc = "unmount" /\ m.part \in DOMAIN records
        /\ \/ /\ mounts' = mounts \ {records[m.part]}
              /\ unmounting' = Unmount("unmount", m.dev, m.part + 1, TRUE)
           \/ /\ "busy" \in UsbFaults
              /\ unmounting' = Unmount("unmount", m.dev, m.part + 1, m.success)
              /\ UNCHANGED mounts
        /\ UNCHANGED <<usbStorageDeviceInfo, usbStorageMountInfo, unchangedByUnmount>>

\* After the loop listeners are told if any partition was unmounted.
UnmountTold ==
    LET m == unmounting
    IN  /\ m.pc = "unmount" /\ m.part \notin DOMAIN usbStorageMountInfo[m.dev]
        /\ unmounting' = IF m.success THEN Unmount("erase", m.dev, m.part, TRUE) ELSE NotMounting
        /\ UNCHANGED <<usbStorageDeviceInfo, usbStorageMountInfo, mounts, unchangedByUnmount>>

\* All records of the device go, those added meanwhile and those of the
\* busy partitions included.
EraseRecords ==
    /\ unmounting.pc = "erase"
    /\ usbStorageMountInfo' = [usbStorageMountInfo EXCEPT ![unmounting.dev] = <<>>]
    /\ Remove(unmounting.dev)
    /\ unmounting' = NotMounting
    /\ UNCHANGED <<mounts, unchangedByUnmount>>

-----------------------------------------------------------------------------
(* Clients. *)

\* GetDeviceList fills an empty list from USBDevice.
GetDeviceList ==
    /\ \A d \in Devices : usbStorageDeviceInfo[d] = 0
    /\ usbStorageDeviceInfo' = [d \in Devices |-> IF d \in attached THEN 1 ELSE 0]
    /\ UNCHANGED <<attached, usbJobs, storageJobs, registered, listed, bootList,
                   usbStorageMountInfo, mounts, mounting, unmounting, failed, usbEvents>>

\* GetMountPoints mounts a device on the list that has no mounts.
GetMountPoints(d) ==
    /\ UsbEventCounted
    /\ mounting["client"] = NotMounting
    /\ usbStorageMountInfo[d] = <<>> /\ usbStorageDeviceInfo[d] > 0
    /\ mounting' = [mounting EXCEPT !["client"] = Begun(d)]
    /\ UNCHANGED <<attached, usbJobs, storageJobs, registered, listed, bootList,
                   usbStorageDeviceInfo, usbStorageMountInfo, mounts, failed, unmounting>>

-----------------------------------------------------------------------------
UsbNext ==
    \/ \E d \in Devices :
          \/ PlugIn(d) \/ PlugOut(d)
          \/ \E k \in 1..UsbPoolThreads : DispatchMountEvent(k, d) \/ DispatchUnMountEvent(k, d)
          \/ GetMountPoints(d)
    \/ \E k \in 1..UsbPoolThreads : UsbDispatch(k)
    \/ UnmountPartition \/ UnmountTold \/ EraseRecords
    \/ Register \/ ListDevices \/ MountOnBootUp
    \/ \E t \in MountThreads : FindMountPoint(t) \/ MountPartition(t)
    \/ GetDeviceList

UsbSpec == UsbInit /\ [][UsbNext]_usbVars

-----------------------------------------------------------------------------
(* What is claimed. *)

\* The records that a job has unmounted and not erased yet.
Passed(d) ==
    {k \in DOMAIN usbStorageMountInfo[d] :
        unmounting # NotMounting /\ unmounting.dev = d /\ unmounting.success /\ k < unmounting.part}
Kept(d) == DOMAIN usbStorageMountInfo[d] \ Passed(d)

\* What is on record is mounted, there and nowhere else on record, whichever
\* threads look for a free directory at the same time and whatever part of
\* an unmount fails; but for what a job has just unmounted, whose records it
\* erases after all of them are done and listeners know.  When there is
\* nothing left to do, no device that is plugged in has been missed, whether
\* it came before, while or after the plugin started: it is mounted, or
\* mounting it failed, or news of it came in the wrong order.
MountsMatchDevices ==
    /\ \A d, e \in Devices :
           \A j \in Kept(d), k \in Kept(e) :
               /\ usbStorageMountInfo[d][j] \in mounts
               /\ usbStorageMountInfo[d][j].path = usbStorageMountInfo[e][k].path => d = e /\ j = k
    /\ listed /\ bootList = <<>> /\ usbJobs = <<>> /\ storageJobs = <<>>
           /\ unmounting = NotMounting /\ (\A t \in MountThreads : mounting[t] = NotMounting) =>
               \A d \in attached : usbStorageMountInfo[d] # <<>> \/ d \in failed
=============================================================================
