----------------------------- MODULE Services_proofs -----------------------------
(***************************************************************************)
(* Theorems about the small services Monitor, PackageDownloader,           *)
(* UserSettings with Telemetry, USBMassStorage with USBDevice, Analytics   *)
(* and PersistentStore, for every value of their constants.                *)
(***************************************************************************)
EXTENDS Monitor, PackageDownloader, UserSettings, USBMassStorage, Analytics,
        PersistentStore, SequenceTheorems, FiniteSetTheorems, TLAPS

(***************************************************************************)
(* Monitor.  The number of restarts exceeds the count, which starts at 0   *)
(* with the first restart, by one at most; so the next count, twice the    *)
(* count and one, is never below the number of restarts it allows less     *)
(* one.                                                                    *)
(***************************************************************************)
CountInv ==
    /\ restartLimit \in Nat
    /\ restartCount \in Nat
    /\ tries \in Nat
    /\ tries <= restartCount + 1

\* One call of RegisterRestart: the invariant is kept, and what is restarted
\* is within the limit.
LEMMA RegisterKeeps ==
    ASSUME CountInv, NEW jobs, RegisterRestart(jobs)
    PROVE  /\ CountInv'
           /\ tries' > tries => restartLimit = 0 \/ tries' <= restartLimit
<1>1. NewCount \in Nat
  BY DEF CountInv, NewCount
<1>2. CASE ~Below(NewCount)
  <2>1. restartCount' = 0 /\ tries' = 0 /\ restartLimit' = restartLimit
    BY <1>2 DEF RegisterRestart
  <2> QED BY <2>1 DEF CountInv
<1>3. CASE Below(NewCount) /\ WithinWindow
  <2>1. /\ NewCount = restartCount + restartCount + 1
        /\ restartCount' = NewCount /\ tries' = tries + 1 /\ restartLimit' = restartLimit
    BY <1>3 DEF RegisterRestart, NewCount
  <2>2. restartLimit = 0 \/ NewCount < restartLimit
    BY <1>3 DEF Below
  <2> QED BY <1>1, <2>1, <2>2 DEF CountInv
<1>4. CASE Below(NewCount) /\ ~WithinWindow
  <2>1. NewCount = 0 /\ restartCount' = 0 /\ tries' = 1 /\ restartLimit' = restartLimit
    BY <1>4 DEF RegisterRestart, NewCount
  <2>2. restartLimit = 0 \/ 0 < restartLimit
    BY <1>4, <2>1 DEF Below
  <2> QED BY <2>1, <2>2 DEF CountInv
<1> QED BY <1>2, <1>3, <1>4

\* A step registers a restart, or leaves the counts alone.
LEMMA StepCounts ==
    ASSUME CountInv, [MonitorNext]_monitorVars
    PROVE  /\ CountInv'
           /\ tries' > tries => restartLimit = 0 \/ tries' <= restartLimit
<1>1. ASSUME NEW jobs, Fails(jobs)
      PROVE  /\ CountInv'
             /\ tries' > tries => restartLimit = 0 \/ tries' <= restartLimit
  BY <1>1, RegisterKeeps DEF Fails
<1>2. ASSUME UNCHANGED <<restartLimit, restartCount, tries>>
      PROVE  CountInv' /\ ~(tries' > tries)
  BY <1>2 DEF CountInv
<1>3. CASE Probe
  BY <1>2, <1>3 DEF Probe, restartVars
<1>4. CASE RunJob
  BY <1>1, <1>2, <1>4 DEF RunJob, Activated, restartVars
<1>5. CASE GoesBad \/ UserStarts \/ UserStops \/ WindowEnds
  BY <1>2, <1>5 DEF GoesBad, UserStarts, Activated, UserStops, WindowEnds, restartVars
<1>6. CASE Crashes
  BY <1>1, <1>6 DEF Crashes
<1>7. ASSUME NEW limit \in RestartLimits, NEW window \in BOOLEAN, UpdateRestartLimits(limit, window)
      PROVE  CountInv' /\ ~(tries' > tries)
  BY <1>7, MonitorAssumption DEF UpdateRestartLimits, CountInv
<1>8. CASE UNCHANGED monitorVars
  BY <1>2, <1>8 DEF monitorVars, restartVars
<1> QED BY <1>3, <1>4, <1>5, <1>6, <1>7, <1>8 DEF MonitorNext

\* Monitor restarts a plugin no more often within a window than the limit
\* says: HandleDeinitialized and RegisterRestart.
THEOREM RestartsStayBounded == MonitorSpec => RestartsBounded
<1>1. MonitorInit => CountInv
  BY MonitorAssumption DEF MonitorInit, CountInv
<1>2. CountInv /\ [MonitorNext]_monitorVars => CountInv'
  BY StepCounts
<1>3. CountInv /\ [MonitorNext]_monitorVars
         => [tries' > tries => restartLimit = 0 \/ tries' <= restartLimit]_monitorVars
  BY StepCounts
<1> QED BY <1>1, <1>2, <1>3, PTL DEF MonitorSpec, RestartsBounded

(***************************************************************************)
(* PackageDownloader.  Only the download in progress can be cancelled, and *)
(* an id is queued once, so that a download leaves the queue uncancelled;  *)
(* the sleep before each further attempt asks whether it has been          *)
(* cancelled since.  Hence no attempt is about to start on a download that *)
(* had a late one.                                                         *)
(***************************************************************************)
Items == [id : Nat, retries : Nat]
Threads == [pc : {"loop", "toWait", "waiting", "ended", "attempt", "transfer", "backoff", "report", "reset"},
            attempt : Nat, result : {"none", "Success", "404", "HttpError", "DiskError"}]
QueueIndices == 1..Len(mDownloadQueue)

DownloaderTypes ==
    /\ mDownloadQueue \in Seq(Items)
    /\ mInprogressDownload \in Items
    /\ thread \in Threads
    /\ mNextDownloadId \in Nat /\ mNextDownloadId <= MaxDownloads
    /\ late \in [Downloads -> Nat]
    /\ cancelled \subseteq Nat

\* Ids are given once, and what waits was never in progress.
QueueFresh ==
    /\ mInprogressDownload.id <= mNextDownloadId
    /\ \A d \in cancelled : d <= mNextDownloadId
    /\ \A k \in QueueIndices :
          /\ mDownloadQueue[k].id \in 1..mNextDownloadId
          /\ mDownloadQueue[k].id # mInprogressDownload.id
          /\ mDownloadQueue[k].id \notin cancelled
    /\ \A k, l \in QueueIndices : mDownloadQueue[k].id = mDownloadQueue[l].id => k = l

LateOnce ==
    /\ \A d \in Downloads : late[d] <= 1 /\ (late[d] = 1 => d \in cancelled)
    /\ thread.pc \in {"loop", "toWait", "waiting", "ended"} => mInprogressDownload = NoDownload
    /\ thread.pc \in {"attempt", "transfer", "backoff"} => mInprogressDownload.id \in Downloads
    /\ thread.pc = "attempt" => late[mInprogressDownload.id] = 0

DownloaderInv == DownloaderTypes /\ QueueFresh /\ LateOnce

\* A new id is put at an end of the queue.
LEMMA DownloadQueues ==
    ASSUME DownloaderInv, NEW retries \in Retries, NEW priority \in BOOLEAN, Download(retries, priority)
    PROVE  DownloaderInv'
<1> DEFINE di == [id |-> mNextDownloadId + 1, retries |-> IF retries = 0 THEN MIN_RETRIES ELSE retries]
           n == mNextDownloadId
           q == mDownloadQueue
<1>1. /\ di \in Items /\ di.id = n + 1 /\ n' = n + 1 /\ n \in Nat /\ n + 1 <= MaxDownloads
      /\ q' = <<di>> \o q \/ q' = Append(q, di)
  BY DownloaderAssumption DEF Download, DownloaderInv, DownloaderTypes, Items, MIN_RETRIES
<1>2. UNCHANGED <<mInprogressDownload, late, cancelled>>
  BY DEF Download
<1>3. thread' = thread \/ (thread.pc = "waiting" /\ thread' = [thread EXCEPT !.pc = "loop"])
  BY DEF Download, Notify, Goto
<1> HIDE DEF di
<1>4. \/ q' \in Seq(Items) /\ Len(q') = Len(q) + 1 /\ q'[1] = di /\ \A k \in 1..Len(q') : k # 1 => q'[k] = q[k - 1]
      \/ q' \in Seq(Items) /\ Len(q') = Len(q) + 1 /\ q'[Len(q')] = di /\ \A k \in 1..Len(q) : q'[k] = q[k]
  <2>1. CASE q' = <<di>> \o q
    BY <1>1, <2>1 DEF DownloaderInv, DownloaderTypes
  <2>2. CASE q' = Append(q, di)
    BY <1>1, <2>2 DEF DownloaderInv, DownloaderTypes
  <2> QED BY <1>1, <2>1, <2>2
<1>5. \A k \in 1..Len(q') : q'[k] = di \/ \E l \in QueueIndices : q'[k] = q[l]
  BY <1>4 DEF QueueIndices, DownloaderInv, DownloaderTypes
<1>6. \A k, l \in 1..Len(q') : q'[k].id = q'[l].id => k = l
  <2>1. \A k \in QueueIndices : q[k].id \in 1..n /\ \A l \in QueueIndices : q[k].id = q[l].id => k = l
    BY DEF DownloaderInv, QueueFresh
  <2>2. \A m \in 1..n : m # di.id
    BY <1>1
  <2>3. CASE q'[1] = di /\ \A k \in 1..Len(q') : k # 1 => q'[k] = q[k - 1]
    <3>1. ASSUME NEW k \in 1..Len(q'), k # 1
          PROVE  k - 1 \in QueueIndices /\ q'[k] = q[k - 1] /\ q'[k].id # di.id
      <4>1. Len(q) \in Nat /\ Len(q') = Len(q) + 1
        BY <1>4 DEF DownloaderInv, DownloaderTypes
      <4>2. k - 1 \in 1..Len(q)
        BY <3>1, <4>1
      <4>3. q'[k] = q[k - 1]
        BY <2>3, <3>1, <4>2
      <4> QED BY <2>1, <2>2, <4>2, <4>3 DEF QueueIndices
    <3>2. ASSUME NEW k \in 1..Len(q'), NEW l \in 1..Len(q'), q'[k].id = q'[l].id
          PROVE  k = l
      <4>1. CASE k = 1 \/ l = 1
        BY <2>3, <3>1, <3>2, <4>1
      <4>2. CASE k # 1 /\ l # 1
        BY <2>1, <3>1, <3>2, <4>2
      <4> QED BY <4>1, <4>2
    <3> QED BY <3>2
  <2>4. CASE q'[Len(q')] = di /\ \A k \in 1..Len(q) : q'[k] = q[k]
    <3>1. ASSUME NEW k \in 1..Len(q'), k # Len(q')
          PROVE  k \in QueueIndices /\ q'[k] = q[k] /\ q'[k].id # di.id
      <4>1. Len(q) \in Nat /\ Len(q') = Len(q) + 1
        BY <1>4 DEF DownloaderInv, DownloaderTypes
      <4>2. k \in 1..Len(q)
        BY <3>1, <4>1
      <4>3. q'[k] = q[k]
        BY <2>4, <3>1, <4>2
      <4> QED BY <2>1, <2>2, <4>2, <4>3 DEF QueueIndices
    <3>2. ASSUME NEW k \in 1..Len(q'), NEW l \in 1..Len(q'), q'[k].id = q'[l].id
          PROVE  k = l
      <4>1. CASE k = Len(q') \/ l = Len(q')
        BY <2>4, <3>1, <3>2, <4>1
      <4>2. CASE k # Len(q') /\ l # Len(q')
        BY <2>1, <3>1, <3>2, <4>2
      <4> QED BY <4>1, <4>2
    <3> QED BY <3>2
  <2> QED BY <1>4, <2>3, <2>4
<1>7. QueueFresh'
  <2>1. mInprogressDownload.id \in Nat
    BY DEF DownloaderInv, DownloaderTypes, Items
  <2>2. ASSUME NEW k \in 1..Len(q')
        PROVE  /\ q'[k].id \in 1..n + 1
               /\ q'[k].id # mInprogressDownload.id /\ q'[k].id \notin cancelled
    BY <1>1, <1>5, <2>1 DEF DownloaderInv, QueueFresh
  <2>3. \A d \in cancelled : d <= n + 1
    <3>1. \A d \in cancelled : d \in Nat /\ d <= n
      BY DEF DownloaderInv, DownloaderTypes, QueueFresh
    <3> QED BY <1>1, <3>1
  <2>4. mInprogressDownload.id <= n + 1
    BY <1>1, <2>1 DEF DownloaderInv, QueueFresh
  <2> QED BY <1>1, <1>2, <1>6, <2>2, <2>3, <2>4 DEF QueueFresh, QueueIndices
<1>8. DownloaderTypes'
  BY <1>1, <1>2, <1>3, <1>4 DEF DownloaderInv, DownloaderTypes, Threads
<1>9. LateOnce'
  BY <1>2, <1>3 DEF DownloaderInv, DownloaderTypes, Threads, LateOnce
<1> QED BY <1>7, <1>8, <1>9 DEF DownloaderInv

\* The thread takes the head of the queue, or keeps what it has.
LEMMA NextIsFresh ==
    ASSUME DownloaderInv, getNext
    PROVE  DownloaderInv'
<1> DEFINE q == mDownloadQueue
<1>1. UNCHANGED <<late, cancelled, mNextDownloadId>> /\ thread' \in Threads
  BY DEF getNext, unchangedByLoop, clientVars, Goto, AtLoop, DownloaderInv, DownloaderTypes, Threads
<1>2. CASE UNCHANGED <<mDownloadQueue, mInprogressDownload>> /\ thread'.pc \in {"ended", "toWait"}
  BY <1>1, <1>2 DEF getNext, DownloaderInv, DownloaderTypes, QueueFresh, QueueIndices, LateOnce
<1>3. CASE /\ q # <<>> /\ mInprogressDownload' = Head(q) /\ q' = Tail(q)
           /\ thread'.pc = "attempt"
  <2>1. /\ Len(q) \in Nat \ {0} /\ q' \in Seq(Items) /\ Len(q') = Len(q) - 1
        /\ \A k \in 1..Len(q') : k + 1 \in QueueIndices /\ q'[k] = q[k + 1]
    BY <1>3 DEF QueueIndices, DownloaderInv, DownloaderTypes
  <2>2. 1 \in QueueIndices /\ Head(q) = q[1] /\ q[1] \in Items
    BY <2>1 DEF QueueIndices, DownloaderInv, DownloaderTypes
  <2>3. /\ q[1].id \in 1..mNextDownloadId /\ q[1].id \notin cancelled
        /\ \A k \in QueueIndices : q[k].id = q[1].id => k = 1
    BY <2>2 DEF DownloaderInv, QueueFresh
  <2>4. ASSUME NEW k \in 1..Len(q')
        PROVE  /\ q'[k].id \in 1..mNextDownloadId
               /\ q'[k].id # q[1].id
               /\ q'[k].id \notin cancelled
               /\ \A l \in 1..Len(q') : q'[k].id = q'[l].id => k = l
    <3>1. k + 1 \in QueueIndices /\ q'[k] = q[k + 1] /\ k + 1 # 1
      BY <2>1
    <3>2. \A l \in 1..Len(q') : q'[k].id = q'[l].id => k + 1 = l + 1
      BY <2>1, <3>1 DEF DownloaderInv, QueueFresh
    <3> QED BY <2>3, <3>1, <3>2 DEF DownloaderInv, QueueFresh
  <2>5. QueueFresh'
    BY <1>1, <1>3, <2>2, <2>3, <2>4 DEF DownloaderInv, DownloaderTypes, QueueFresh, QueueIndices
  <2>6. q[1].id \in Downloads /\ late[q[1].id] = 0
    <3>1. q[1].id \in Downloads
      BY <2>3, DownloaderAssumption DEF Downloads, DownloaderInv, DownloaderTypes
    <3> QED BY <2>3, <3>1 DEF DownloaderInv, DownloaderTypes, LateOnce
  <2>7. LateOnce'
    BY <1>1, <1>3, <2>2, <2>6 DEF DownloaderInv, LateOnce
  <2> QED BY <1>1, <1>3, <2>1, <2>2, <2>5, <2>7 DEF DownloaderInv, DownloaderTypes
<1>4. mInprogressDownload = NoDownload /\ thread.pc = "loop"
  BY DEF getNext, DownloaderInv, LateOnce
<1> QED BY <1>2, <1>3, <1>4 DEF getNext, Goto, AtLoop, DownloaderInv, DownloaderTypes, Threads

\* An attempt is late once at most: at its start none was.
LEMMA AttemptOnce ==
    ASSUME DownloaderInv, Attempt
    PROVE  DownloaderInv'
<1> DEFINE d == mInprogressDownload.id
<1>0. UNCHANGED <<mDownloadQueue, mInprogressDownload, cancelled, mNextDownloadId>>
  BY DEF Attempt, clientVars
<1>1. d \in Downloads /\ late[d] = 0 /\ thread' \in Threads /\ thread'.pc = "transfer"
  <2>1. d \in Downloads /\ late[d] = 0
    BY DEF Attempt, DownloaderInv, LateOnce
  <2>2. thread \in Threads
    BY DEF DownloaderInv, DownloaderTypes
  <2>3. thread' = [thread EXCEPT !.pc = "transfer", !.attempt = thread.attempt + 1]
    BY DEF Attempt
  <2>4. thread.attempt + 1 \in Nat
    BY <2>2 DEF Threads
  <2>5. thread' \in Threads /\ thread'.pc = "transfer"
    BY <2>2, <2>3, <2>4 DEF Threads
  <2> QED BY <2>1, <2>5
<1>2. /\ late' \in [Downloads -> Nat]
      /\ late'[d] = IF d \in cancelled THEN 1 ELSE 0
      /\ \A e \in Downloads : e # d => late'[e] = late[e]
  BY <1>1 DEF Attempt, DownloaderInv, DownloaderTypes
<1>3. DownloaderTypes' /\ QueueFresh'
  BY <1>0, <1>1, <1>2 DEF DownloaderInv, DownloaderTypes, QueueFresh, QueueIndices
<1>4. LateOnce'
  BY <1>0, <1>1, <1>2 DEF DownloaderInv, LateOnce
<1> QED BY <1>3, <1>4 DEF DownloaderInv

\* What is cancelled is in progress.
LEMMA CancelsInProgress ==
    ASSUME DownloaderInv, Cancel
    PROVE  DownloaderInv'
<1>1. UNCHANGED <<mDownloadQueue, mInprogressDownload, thread, late, mNextDownloadId>>
      /\ cancelled' = cancelled \cup {mInprogressDownload.id}
  BY DEF Cancel
<1>2. QueueFresh'
  BY <1>1 DEF DownloaderInv, QueueFresh, QueueIndices
<1>3. DownloaderTypes' /\ LateOnce'
  BY <1>1 DEF DownloaderInv, DownloaderTypes, Items, LateOnce
<1> QED BY <1>2, <1>3 DEF DownloaderInv

\* The other steps of the thread.
LEMMA ThreadMoves ==
    ASSUME DownloaderInv,
           UNCHANGED <<mDownloadQueue, late, cancelled, mNextDownloadId>>,
           thread' \in Threads,
           \/ /\ mInprogressDownload' = mInprogressDownload
              /\ \/ thread.pc \in {"toWait", "waiting"} /\ thread'.pc \in {"waiting", "loop"}
                 \/ thread.pc = "backoff" /\ thread'.pc = "attempt" /\ mInprogressDownload.id \notin cancelled
                 \/ thread'.pc \in {"report", "reset"}
                 \/ thread.pc = "transfer" /\ thread'.pc = "backoff" /\ mInprogressDownload.id \in Downloads
                 \/ thread' = thread
           \/ mInprogressDownload' = NoDownload /\ thread'.pc = "loop"
    PROVE  DownloaderInv'
<1>1. DownloaderTypes'
  BY DEF DownloaderInv, DownloaderTypes, NoDownload, None, Items
<1>2. QueueFresh'
  BY DEF DownloaderInv, DownloaderTypes, NoDownload, None, QueueFresh, QueueIndices
<1>3. LateOnce'
  BY DEF DownloaderInv, DownloaderTypes, LateOnce
<1> QED BY <1>1, <1>2, <1>3 DEF DownloaderInv

LEMMA StepOnce ==
    ASSUME DownloaderInv, [DownloaderNext]_downloaderVars
    PROVE  DownloaderInv'
<1>0. thread \in Threads /\ mInprogressDownload \in Items
  BY DEF DownloaderInv, DownloaderTypes
<1>1. CASE CancelTransfer \/ \E p \in BOOLEAN : SetPaused(p)
  BY <1>0, <1>1, ThreadMoves DEF CancelTransfer, SetPaused
<1>2. CASE EndDownloads
  BY <1>0, <1>2, ThreadMoves DEF EndDownloads, Notify, Goto, Threads
<1>3. CASE Wait \/ SpuriousWake
  BY <1>0, <1>3, ThreadMoves DEF Wait, SpuriousWake, Goto, Threads, unchangedByLoop, clientVars
<1>4. CASE TransferEnds
  <2>1. PICK result \in {"Success", "404", "HttpError", "DiskError"} :
           thread' = [thread EXCEPT !.result = result, !.pc = IF Final(result) THEN "report" ELSE "backoff"]
    BY <1>4 DEF TransferEnds
  <2>2. thread' \in Threads /\ thread'.pc \in {"report", "backoff"}
    BY <1>0, <2>1 DEF Threads
  <2>3. /\ thread.pc = "transfer"
        /\ UNCHANGED <<mDownloadQueue, mInprogressDownload, late, cancelled, mNextDownloadId>>
    BY <1>4 DEF TransferEnds
  <2>4. mInprogressDownload.id \in Downloads
    BY <2>3 DEF DownloaderInv, LateOnce
  <2> QED BY <2>2, <2>3, <2>4, ThreadMoves
<1>5. CASE Backoff
  <2>1. /\ thread.pc = "backoff"
        /\ UNCHANGED <<mDownloadQueue, mInprogressDownload, late, cancelled, mNextDownloadId>>
    BY <1>5 DEF Backoff, unchangedByLoop, clientVars
  <2>2. /\ thread' \in Threads
        /\ thread'.pc = "report" \/ (thread'.pc = "attempt" /\ mInprogressDownload.id \notin cancelled)
    BY <1>0, <1>5 DEF Backoff, Goto, Threads, Cancelled
  <2> QED BY <2>1, <2>2, ThreadMoves
<1>6. CASE NotifyDownloadStatus
  BY <1>0, <1>6, ThreadMoves DEF NotifyDownloadStatus, Goto, Threads, unchangedByLoop, clientVars
<1>7. CASE Reset
  BY <1>7, ThreadMoves DEF Reset, AtLoop, Threads, unchangedByLoop, clientVars
<1>8. CASE UNCHANGED downloaderVars
  BY <1>0, <1>8, ThreadMoves DEF downloaderVars, clientVars
<1> QED BY <1>1, <1>2, <1>3, <1>4, <1>5, <1>6, <1>7, <1>8, DownloadQueues, NextIsFresh, AttemptOnce,
           CancelsInProgress DEF DownloaderNext, ThreadStep

\* A download is attempted at most once after its Cancel was accepted,
\* whatever the thread was about: the loop of downloader asks after each
\* sleep, and only the attempt about to start escapes it.
THEOREM CancelAlwaysBinds == DownloaderSpec => []CancelBinds
<1>1. DownloaderInit => DownloaderInv
  <2> SUFFICES ASSUME DownloaderInit  PROVE DownloaderInv
    OBVIOUS
  <2>1. DownloaderTypes
    BY DownloaderAssumption DEF DownloaderInit, DownloaderTypes, NoDownload, None, Items, AtLoop, Threads
  <2>2. QueueFresh
    BY DEF DownloaderInit, QueueFresh, QueueIndices, NoDownload, None
  <2>3. LateOnce
    BY DEF DownloaderInit, LateOnce, AtLoop
  <2> QED BY <2>1, <2>2, <2>3 DEF DownloaderInv
<1>2. DownloaderInv /\ [DownloaderNext]_downloaderVars => DownloaderInv'
  BY StepOnce
<1>3. DownloaderInv => CancelBinds
  BY DEF DownloaderInv, LateOnce, CancelBinds
<1> QED BY <1>1, <1>2, <1>3, PTL DEF DownloaderSpec

(***************************************************************************)
(* UserSettings.  What was said last of a setting is what is stored: by    *)
(* the last job of the store about it, by the last job of UserSettings if  *)
(* there is none, and by the listener if there is neither.  A mode that    *)
(* Telemetry has read is out of date only while a change is on its way,    *)
(* whose job makes the activation late.                                    *)
(***************************************************************************)
LastTrue(q, s, v) ==
    \A k \in DOMAIN q : q[k].key = s /\ (\A j \in DOMAIN q : j > k => q[j].key # s) => q[k].value = v

SettingEvents == [key : Settings, value : Values]

SettingsTypes ==
    /\ stored \in [Settings -> Values \cup {NoValue}]
    /\ storeJobs \in Seq(SettingEvents) /\ settingsJobs \in Seq(SettingEvents)
    /\ heard \in [Settings -> Values \cup {NoValue}]
    /\ telemetry = [pc |-> telemetry.pc, mode |-> telemetry.mode]
    /\ telemetry.pc \in {"off", "read", "late", "active"}
    /\ telemetry.pc # "off" => listening
    /\ listening \in BOOLEAN

SettingNews(s) ==
    /\ LastTrue(storeJobs, s, stored[s])
    /\ ~About(storeJobs, s) => LastTrue(settingsJobs, s, stored[s])
    /\ ~About(storeJobs, s) /\ ~About(settingsJobs, s) => heard[s] \in {NoValue, stored[s]}

ModeNews ==
    ~About(storeJobs, PrivacyMode) /\ ~About(settingsJobs, PrivacyMode) =>
        /\ telemetry.pc = "read" => telemetry.mode = GetUserSettingsValue(PrivacyMode)
        /\ telemetry.pc = "active" /\ ~missed /\ PrivacyMode \notin overtaken =>
               t2Mode = GetUserSettingsValue(PrivacyMode)

SettingsInv ==
    SettingsTypes /\ (\A s \in Settings : s \in overtaken \/ SettingNews(s)) /\ ModeNews

LEMMA LastOfAppend ==
    ASSUME NEW q \in Seq(SettingEvents), NEW e \in SettingEvents, NEW s, NEW v
    PROVE  /\ Append(q, e) \in Seq(SettingEvents)
           /\ About(Append(q, e), s) <=> About(q, s) \/ e.key = s
           /\ e.key = s => (LastTrue(Append(q, e), s, v) <=> e.value = v)
           /\ e.key # s => (LastTrue(Append(q, e), s, v) <=> LastTrue(q, s, v))
<1> DEFINE p == Append(q, e)
<1>1. /\ p \in Seq(SettingEvents) /\ DOMAIN p = 1..(Len(q) + 1) /\ DOMAIN q = 1..Len(q) /\ Len(q) \in Nat
      /\ p[Len(q) + 1] = e /\ \A k \in 1..Len(q) : p[k] = q[k]
  OBVIOUS
<1> HIDE DEF p
<1>2. About(p, s) <=> About(q, s) \/ e.key = s
  BY <1>1 DEF About
<1>3. ASSUME e.key = s PROVE LastTrue(p, s, v) <=> e.value = v
  BY <1>1, <1>3 DEF LastTrue
<1>4. ASSUME e.key # s PROVE LastTrue(p, s, v) <=> LastTrue(q, s, v)
  <2>1. ASSUME LastTrue(p, s, v) PROVE LastTrue(q, s, v)
    BY <1>1, <1>4, <2>1 DEF LastTrue
  <2>2. ASSUME LastTrue(q, s, v) PROVE LastTrue(p, s, v)
    BY <1>1, <1>4, <2>2 DEF LastTrue
  <2> QED BY <2>1, <2>2
<1> QED BY <1>1, <1>2, <1>3, <1>4 DEF p

\* What is left of a sequence without its kth element.
Cut(q, k) == SubSeq(q, 1, k - 1) \o SubSeq(q, k + 1, Len(q))

LEMMA CutProperties ==
    ASSUME NEW S, NEW q \in Seq(S), NEW k \in DOMAIN q
    PROVE  /\ Cut(q, k) \in Seq(S)
           /\ k \in Nat \ {0} /\ q[k] \in S
           /\ \A i \in DOMAIN q : /\ i \in Nat \ {0}
                                  /\ i < k => i \in DOMAIN Cut(q, k) /\ Cut(q, k)[i] = q[i]
                                  /\ i > k => i - 1 \in DOMAIN Cut(q, k) /\ Cut(q, k)[i - 1] = q[i]
           /\ \A i \in DOMAIN Cut(q, k) : /\ i \in Nat \ {0}
                                          /\ i < k => i \in DOMAIN q /\ Cut(q, k)[i] = q[i]
                                          /\ i >= k => i + 1 \in DOMAIN q /\ Cut(q, k)[i] = q[i + 1]
<1> DEFINE n == Len(q)
           a == SubSeq(q, 1, k - 1)
           b == SubSeq(q, k + 1, n)
<1>1. n \in Nat /\ DOMAIN q = 1..n /\ k \in 1..n /\ \A i \in 1..n : q[i] \in S
  BY LenProperties, ElementOfSeq
<1>2. a \in Seq(S) /\ Len(a) = k - 1 /\ \A i \in 1..(k - 1) : a[i] = q[i]
  <2>1. 1 \in Int /\ k - 1 \in Int /\ \A i \in 1..(k - 1) : q[i] \in S
    BY <1>1
  <2>2. /\ a \in Seq(S) /\ Len(a) = IF 1 <= k - 1 THEN (k - 1) - 1 + 1 ELSE 0
        /\ \A i \in 1..((k - 1) - 1 + 1) : a[i] = q[1 + i - 1]
    BY <2>1, SubSeqProperties
  <2>3. (k - 1) - 1 + 1 = k - 1 /\ (~(1 <= k - 1) => k - 1 = 0) /\ \A i \in 1..(k - 1) : 1 + i - 1 = i
    BY <1>1
  <2> QED BY <2>2, <2>3
<1>3. b \in Seq(S) /\ Len(b) = n - k /\ \A i \in 1..(n - k) : b[i] = q[k + i]
  <2>1. k + 1 \in Int /\ n \in Int /\ \A i \in (k + 1)..n : q[i] \in S
    BY <1>1
  <2>2. /\ b \in Seq(S) /\ Len(b) = IF k + 1 <= n THEN n - (k + 1) + 1 ELSE 0
        /\ \A i \in 1..(n - (k + 1) + 1) : b[i] = q[(k + 1) + i - 1]
    BY <2>1, SubSeqProperties
  <2>3. n - (k + 1) + 1 = n - k /\ (~(k + 1 <= n) => n - k = 0) /\ \A i \in 1..(n - k) : (k + 1) + i - 1 = k + i
    BY <1>1
  <2> QED BY <2>2, <2>3
<1> HIDE DEF n, a, b
<1> PICK c : c = a \o b
  OBVIOUS
<1>4. /\ c \in Seq(S) /\ Len(c) = Len(a) + Len(b) /\ DOMAIN c = 1..Len(c)
      /\ \A i \in 1..(Len(a) + Len(b)) : c[i] = IF i <= Len(a) THEN a[i] ELSE b[i - Len(a)]
  BY <1>2, <1>3, ConcatProperties, LenProperties
<1>5. DOMAIN c = 1..(n - 1) /\ \A i \in 1..(n - 1) : c[i] = IF i < k THEN q[i] ELSE q[i + 1]
  <2>1. Len(a) + Len(b) = n - 1
    BY <1>1, <1>2, <1>3
  <2>2. ASSUME NEW i \in 1..(n - 1), i < k PROVE c[i] = q[i]
    BY <1>1, <1>2, <1>4, <2>1, <2>2
  <2>3. ASSUME NEW i \in 1..(n - 1), ~(i < k) PROVE c[i] = q[i + 1]
    <3> DEFINE j == i - (k - 1)
    <3>1. j \in 1..(n - k) /\ k + j = i + 1 /\ ~(i <= Len(a)) /\ i - Len(a) = j
      BY <1>1, <1>2, <2>3
    <3> HIDE DEF j
    <3>2. c[i] = b[j]
      BY <1>4, <2>1, <3>1
    <3>3. b[j] = q[k + j]
      BY <1>3, <3>1
    <3> QED BY <3>1, <3>2, <3>3
  <2> QED BY <1>4, <2>1, <2>2, <2>3
<1>6. Cut(q, k) = c
  BY DEF Cut, a, b, n
<1>7. ASSUME NEW i \in DOMAIN q
      PROVE  /\ i \in Nat \ {0}
             /\ i < k => i \in DOMAIN c /\ c[i] = q[i]
             /\ i > k => i - 1 \in DOMAIN c /\ c[i - 1] = q[i]
  <2>1. i \in Nat \ {0} /\ (i < k => i \in 1..(n - 1))
    BY <1>1
  <2>2. ASSUME i > k PROVE i - 1 \in 1..(n - 1) /\ ~(i - 1 < k) /\ (i - 1) + 1 = i
    BY <1>1, <2>2
  <2>3. ASSUME i > k PROVE c[i - 1] = q[(i - 1) + 1]
    BY <1>5, <2>2, <2>3
  <2> QED BY <1>5, <2>1, <2>2, <2>3
<1>8. ASSUME NEW i \in DOMAIN c
      PROVE  /\ i \in Nat \ {0}
             /\ i < k => i \in DOMAIN q /\ c[i] = q[i]
             /\ i >= k => i + 1 \in DOMAIN q /\ c[i] = q[i + 1]
  BY <1>1, <1>5
<1> QED BY <1>1, <1>4, <1>6, <1>7, <1>8

\* The kth element, with none about the same before it, was the last about
\* it, or it was not the one that counts.
LEMMA LastOfCut ==
    ASSUME NEW q \in Seq(SettingEvents), NEW k \in DOMAIN q, NEW s, NEW v
    PROVE  /\ q[k] \in SettingEvents /\ Cut(q, k) \in Seq(SettingEvents)
           /\ About(q, s) <=> About(Cut(q, k), s) \/ q[k].key = s
           /\ ~(q[k].key = s /\ \E j \in 1..(k - 1) : q[j].key = q[k].key) =>
                 /\ LastTrue(q, s, v) => LastTrue(Cut(q, k), s, v)
                 /\ LastTrue(q, s, v) /\ q[k].key = s /\ ~About(Cut(q, k), s) => q[k].value = v
<1> PICK p : p = Cut(q, k)
  OBVIOUS
<1>1. /\ p \in Seq(SettingEvents) /\ k \in Nat \ {0} /\ q[k] \in SettingEvents
      /\ \A i \in DOMAIN q : /\ i \in Nat \ {0}
                             /\ i < k => i \in DOMAIN p /\ p[i] = q[i]
                             /\ i > k => i - 1 \in DOMAIN p /\ p[i - 1] = q[i]
      /\ \A i \in DOMAIN p : /\ i \in Nat \ {0}
                             /\ i < k => i \in DOMAIN q /\ p[i] = q[i]
                             /\ i >= k => i + 1 \in DOMAIN q /\ p[i] = q[i + 1]
  BY CutProperties
<1>2. About(q, s) <=> About(p, s) \/ q[k].key = s
  <2>1. ASSUME NEW i \in DOMAIN q, q[i].key = s, q[k].key # s PROVE About(p, s)
    <3>1. i < k \/ i > k
      BY <1>1, <2>1
    <3> QED BY <1>1, <2>1, <3>1 DEF About
  <2>2. ASSUME NEW i \in DOMAIN p, p[i].key = s PROVE About(q, s)
    <3>1. i < k \/ i >= k
      BY <1>1
    <3> QED BY <1>1, <2>2, <3>1 DEF About
  <2> QED BY <2>1, <2>2 DEF About
<1>3. ASSUME ~(q[k].key = s /\ \E j \in 1..(k - 1) : q[j].key = q[k].key), LastTrue(q, s, v)
      PROVE  LastTrue(p, s, v)
  <2> SUFFICES ASSUME NEW i \in DOMAIN p, p[i].key = s, \A j \in DOMAIN p : j > i => p[j].key # s
               PROVE  p[i].value = v
    BY DEF LastTrue
  <2>1. CASE i < k
    <3>1. i \in DOMAIN q /\ q[i] = p[i] /\ i \in 1..(k - 1)
      BY <1>1, <2>1
    <3>2. q[k].key # s
      BY <1>3, <3>1
    <3>3. ASSUME NEW j \in DOMAIN q, j > i PROVE q[j].key # s
      <4>1. j < k \/ j = k \/ j > k
        BY <1>1
      <4>2. CASE j < k
        BY <1>1, <3>3, <4>2
      <4>3. CASE j > k
        <5>1. j - 1 \in DOMAIN p /\ p[j - 1] = q[j] /\ j - 1 > i
          BY <1>1, <2>1, <4>3
        <5> QED BY <5>1
      <4> QED BY <3>2, <4>1, <4>2, <4>3
    <3> QED BY <1>3, <3>1, <3>3 DEF LastTrue
  <2>2. CASE i >= k
    <3>1. i + 1 \in DOMAIN q /\ q[i + 1] = p[i]
      BY <1>1, <2>2
    <3>2. ASSUME NEW j \in DOMAIN q, j > i + 1 PROVE q[j].key # s
      <4>1. j - 1 \in DOMAIN p /\ p[j - 1] = q[j] /\ j - 1 > i
        BY <1>1, <2>2, <3>2
      <4> QED BY <4>1
    <3> QED BY <1>3, <3>1, <3>2 DEF LastTrue
  <2> QED BY <1>1, <2>1, <2>2
<1>4. ASSUME LastTrue(q, s, v), q[k].key = s, ~About(p, s) PROVE q[k].value = v
  <2>1. ASSUME NEW j \in DOMAIN q, j > k PROVE q[j].key # s
    BY <1>1, <1>4, <2>1 DEF About
  <2> QED BY <1>1, <1>4, <2>1 DEF LastTrue
<1> QED BY <1>1, <1>2, <1>3, <1>4

\* The last news is the value that has just been stored.
LEMMA SetFollows ==
    ASSUME SettingsInv, NEW s \in Settings, NEW value \in Values, SetUserSettingsValue(s, value)
    PROVE  SettingsInv'
<1> DEFINE e == [key |-> s, value |-> value]
<1>1. UNCHANGED <<settingsJobs, heard, telemetry, listening, t2Mode, missed>>
  BY DEF SetUserSettingsValue, telemetryVars
<1>2. CASE UNCHANGED <<stored, storeJobs, overtaken>>
  BY <1>1, <1>2 DEF SettingsInv, SettingsTypes, SettingNews, ModeNews, GetUserSettingsValue
<1>3. CASE stored' = [stored EXCEPT ![s] = value] /\ storeJobs' = Append(storeJobs, e) /\ StartsAnew(s)
  <2>1. e \in SettingEvents /\ e.key = s /\ e.value = value
    BY DEF SettingEvents
  <2> HIDE DEF e
  <2>2. stored' \in [Settings -> Values \cup {NoValue}] /\ stored'[s] = value
        /\ \A t \in Settings : t # s => stored'[t] = stored[t]
    BY <1>3 DEF SettingsInv, SettingsTypes
  <2>3. SettingsTypes'
    BY <1>1, <1>3, <2>1, <2>2, LastOfAppend DEF SettingsInv, SettingsTypes
  <2>4. ASSUME NEW t \in Settings, t \notin overtaken' PROVE SettingNews(t)'
    <3>1. /\ About(storeJobs', t) <=> About(storeJobs, t) \/ s = t
          /\ s = t => LastTrue(storeJobs', t, stored'[t])
          /\ s # t => (LastTrue(storeJobs', t, stored[t]) <=> LastTrue(storeJobs, t, stored[t]))
      BY <1>3, <2>1, <2>2, LastOfAppend DEF SettingsInv, SettingsTypes
    <3>2. s # t => SettingNews(t)
      BY <1>3, <2>4 DEF SettingsInv, StartsAnew
    <3> QED BY <1>1, <2>2, <3>1, <3>2 DEF SettingNews
  <2>5. ModeNews'
    <3>1. About(storeJobs', PrivacyMode) <=> About(storeJobs, PrivacyMode) \/ s = PrivacyMode
      BY <1>3, <2>1, LastOfAppend DEF SettingsInv, SettingsTypes
    <3>2. s # PrivacyMode => (PrivacyMode \in overtaken' <=> PrivacyMode \in overtaken)
      BY <1>3 DEF StartsAnew
    <3> QED BY <1>1, <2>2, <3>1, <3>2, SettingsAssumption DEF SettingsInv, ModeNews, GetUserSettingsValue
  <2> QED BY <2>3, <2>4, <2>5 DEF SettingsInv
<1> QED BY <1>2, <1>3 DEF SetUserSettingsValue

\* A job of the store becomes the last job of UserSettings.
LEMMA ValueChangedFollows ==
    ASSUME SettingsInv, NEW n, ValueChanged(n)
    PROVE  SettingsInv'
<1> PICK e : e = storeJobs[n]
  OBVIOUS
<1>1. /\ n \in DOMAIN storeJobs /\ storeJobs' = Cut(storeJobs, n) /\ settingsJobs' = Append(settingsJobs, e)
      /\ overtaken \subseteq overtaken' /\ overtaken' \subseteq overtaken \cup {e.key}
      /\ (\E j \in 1..(n - 1) : storeJobs[j].key = storeJobs[n].key) => e.key \in overtaken'
      /\ UNCHANGED <<stored, heard, telemetry, listening, t2Mode, missed>>
  BY DEF ValueChanged, telemetryVars, LeftChanges, Cut, Overtakes
<1>2. storeJobs \in Seq(SettingEvents) /\ settingsJobs \in Seq(SettingEvents)
  BY DEF SettingsInv, SettingsTypes
<1>3. \A t, v : /\ e \in SettingEvents /\ storeJobs' \in Seq(SettingEvents)
                /\ About(storeJobs, t) <=> About(storeJobs', t) \/ e.key = t
                /\ t \notin overtaken' =>
                      /\ LastTrue(storeJobs, t, v) => LastTrue(storeJobs', t, v)
                      /\ LastTrue(storeJobs, t, v) /\ e.key = t /\ ~About(storeJobs', t) => e.value = v
  BY <1>1, <1>2, LastOfCut
<1>4. \A t, v : /\ settingsJobs' \in Seq(SettingEvents)
                /\ About(settingsJobs', t) <=> About(settingsJobs, t) \/ e.key = t
                /\ e.key = t => (LastTrue(settingsJobs', t, v) <=> e.value = v)
                /\ e.key # t => (LastTrue(settingsJobs', t, v) <=> LastTrue(settingsJobs, t, v))
  BY <1>1, <1>2, <1>3, LastOfAppend
<1>5. SettingsTypes'
  BY <1>1, <1>3, <1>4 DEF SettingsInv, SettingsTypes
<1>6. ASSUME NEW t \in Settings, t \notin overtaken' PROVE SettingNews(t)'
  <2>1. SettingNews(t)
    BY <1>1, <1>6 DEF SettingsInv
  <2>2. CASE e.key = t
    BY <1>1, <1>3, <1>4, <1>6, <2>1, <2>2 DEF SettingNews
  <2>3. CASE e.key # t
    BY <1>1, <1>3, <1>4, <1>6, <2>1, <2>3 DEF SettingNews
  <2> QED BY <2>2, <2>3
<1>7. ModeNews'
  BY <1>1, <1>3, <1>4 DEF SettingsInv, ModeNews, GetUserSettingsValue
<1> QED BY <1>5, <1>6, <1>7 DEF SettingsInv

\* The listener hears what the job says; so does T2, and an activation that
\* has read the mode before comes late.
LEMMA DispatchFollows ==
    ASSUME SettingsInv, NEW n, Dispatch(n)
    PROVE  SettingsInv'
<1> PICK e : e = settingsJobs[n]
  OBVIOUS
<1> DEFINE tellT2 == listening /\ e.key = PrivacyMode
<1>1. /\ n \in DOMAIN settingsJobs /\ settingsJobs' = Cut(settingsJobs, n)
      /\ overtaken \subseteq overtaken' /\ overtaken' \subseteq overtaken \cup {e.key}
      /\ (\E j \in 1..(n - 1) : settingsJobs[j].key = settingsJobs[n].key) => e.key \in overtaken'
      /\ heard' = [heard EXCEPT ![e.key] = e.value]
      /\ IF tellT2 THEN NotifyT2(e.value, FALSE) ELSE UNCHANGED <<t2Mode, missed>>
      /\ telemetry' = IF tellT2 /\ telemetry.pc = "read" THEN [telemetry EXCEPT !.pc = "late"] ELSE telemetry
      /\ UNCHANGED <<stored, storeJobs, listening>>
  BY DEF Dispatch, LeftChanges, Cut, Overtakes
<1>2. storeJobs \in Seq(SettingEvents) /\ settingsJobs \in Seq(SettingEvents)
  BY DEF SettingsInv, SettingsTypes
<1>3. \A t, v : /\ e \in SettingEvents /\ settingsJobs' \in Seq(SettingEvents)
                /\ About(settingsJobs, t) <=> About(settingsJobs', t) \/ e.key = t
                /\ t \notin overtaken' =>
                      /\ LastTrue(settingsJobs, t, v) => LastTrue(settingsJobs', t, v)
                      /\ LastTrue(settingsJobs, t, v) /\ e.key = t /\ ~About(settingsJobs', t) => e.value = v
  BY <1>1, <1>2, LastOfCut
<1>4. e.key \in Settings /\ e.value \in Values
  BY <1>3 DEF SettingEvents
<1>5. /\ heard' \in [Settings -> Values \cup {NoValue}] /\ heard'[e.key] = e.value
      /\ \A t \in Settings : t # e.key => heard'[t] = heard[t]
  BY <1>1, <1>4 DEF SettingsInv, SettingsTypes
<1>6. /\ telemetry' = [pc |-> telemetry'.pc, mode |-> telemetry'.mode]
      /\ telemetry'.pc = IF tellT2 /\ telemetry.pc = "read" THEN "late" ELSE telemetry.pc
      /\ telemetry'.mode = telemetry.mode
  <2>1. telemetry = [pc |-> telemetry.pc, mode |-> telemetry.mode]
    BY DEF SettingsInv, SettingsTypes
  <2>2. PICK x, y : x = telemetry.pc /\ y = telemetry.mode
    OBVIOUS
  <2>3. telemetry = [pc |-> x, mode |-> y]
    BY <2>1, <2>2
  <2> QED BY <1>1, <2>2, <2>3
<1> HIDE DEF tellT2
<1>7. SettingsTypes'
  <2>1. telemetry.pc \in {"off", "read", "late", "active"} /\ (telemetry.pc # "off" => listening) /\ listening \in BOOLEAN
    BY DEF SettingsInv, SettingsTypes
  <2>2. telemetry'.pc \in {"off", "read", "late", "active"} /\ (telemetry'.pc # "off" => listening')
    BY <1>1, <1>6, <2>1
  <2> QED BY <1>1, <1>3, <1>5, <1>6, <2>1, <2>2 DEF SettingsInv, SettingsTypes
<1>8. ASSUME NEW t \in Settings, t \notin overtaken' PROVE SettingNews(t)'
  <2>1. SettingNews(t)
    BY <1>1, <1>8 DEF SettingsInv
  <2>2. CASE e.key = t
    BY <1>1, <1>3, <1>5, <1>8, <2>1, <2>2 DEF SettingNews
  <2>3. CASE e.key # t
    BY <1>1, <1>3, <1>5, <1>8, <2>1, <2>3 DEF SettingNews
  <2> QED BY <2>2, <2>3
<1>9. ModeNews'
  <2> SUFFICES ASSUME ~About(storeJobs, PrivacyMode), ~About(settingsJobs', PrivacyMode)
               PROVE  /\ telemetry'.pc = "read" => telemetry'.mode = GetUserSettingsValue(PrivacyMode)
                      /\ telemetry'.pc = "active" /\ ~missed' /\ PrivacyMode \notin overtaken' =>
                             t2Mode' = GetUserSettingsValue(PrivacyMode)
    BY <1>1 DEF ModeNews, GetUserSettingsValue
  <2>1. CASE e.key = PrivacyMode
    <3>1. PrivacyMode \notin overtaken' => stored[PrivacyMode] = e.value
      BY <1>1, <1>3, <2>1, SettingsAssumption DEF SettingsInv, SettingNews
    <3>2. PrivacyMode \notin overtaken' => GetUserSettingsValue(PrivacyMode) = e.value
      BY <1>4, <3>1 DEF GetUserSettingsValue, Values, NoValue
    <3>3. telemetry.pc # "off" => tellT2
      BY <2>1 DEF SettingsInv, SettingsTypes, tellT2
    <3>4. telemetry'.pc # "read" /\ (telemetry'.pc = "active" => tellT2)
      BY <1>6, <3>3
    <3>5. telemetry'.pc = "active" /\ ~missed' => t2Mode' = e.value
      BY <1>1, <3>4 DEF NotifyT2
    <3> QED BY <3>2, <3>4, <3>5
  <2>2. CASE e.key # PrivacyMode
    <3>1. ~tellT2 /\ ~About(settingsJobs, PrivacyMode) /\ (PrivacyMode \in overtaken' <=> PrivacyMode \in overtaken)
      BY <1>1, <1>3, <2>2 DEF tellT2
    <3> QED BY <1>1, <1>6, <3>1 DEF SettingsInv, ModeNews
  <2> QED BY <2>1, <2>2
<1> QED BY <1>7, <1>8, <1>9 DEF SettingsInv

\* Telemetry reads what is stored, and tells it unless it was overtaken.
LEMMA TelemetryFollows ==
    ASSUME "get" \notin SettingsFaults, SettingsInv,
           RegisterWithSettings \/ ReadPrivacyMode \/ TellPrivacyMode \/ TelemetryStops
    PROVE  SettingsInv'
<1>1. UNCHANGED <<stored, storeJobs, settingsJobs, heard, overtaken>>
  BY DEF RegisterWithSettings, ReadPrivacyMode, TellPrivacyMode, TelemetryStops, unchangedByTelemetry
<1>2. \A s \in Settings : s \in overtaken' \/ SettingNews(s)'
  BY <1>1 DEF SettingsInv, SettingNews
<1>3. CASE RegisterWithSettings
  BY <1>1, <1>2, <1>3 DEF RegisterWithSettings, SettingsInv, SettingsTypes, ModeNews, GetUserSettingsValue
<1>4. CASE ReadPrivacyMode
  <2>1. telemetry' = Phase("read", GetUserSettingsValue(PrivacyMode)) /\ listening /\ listening'
    BY <1>4 DEF ReadPrivacyMode, GetPrivacyMode, MayRead
  <2>2. telemetry'.pc = "read" /\ telemetry'.mode = GetUserSettingsValue(PrivacyMode)
        /\ telemetry' = [pc |-> telemetry'.pc, mode |-> telemetry'.mode]
    BY <2>1 DEF Phase
  <2> QED BY <1>1, <1>2, <2>1, <2>2 DEF SettingsInv, SettingsTypes, ModeNews, GetUserSettingsValue
<1>5. CASE TellPrivacyMode
  <2>1. /\ telemetry' = Phase("active", NoValue) /\ listening /\ listening'
        /\ telemetry.pc \in {"read", "late"}
        /\ NotifyT2(telemetry.mode, telemetry.pc = "late")
    BY <1>5 DEF TellPrivacyMode
  <2>2. telemetry'.pc = "active" /\ telemetry' = [pc |-> telemetry'.pc, mode |-> telemetry'.mode]
    BY <2>1 DEF Phase
  <2>3. ~missed' => telemetry.pc = "read" /\ t2Mode' = telemetry.mode
    BY <2>1 DEF NotifyT2
  <2> QED BY <1>1, <1>2, <2>1, <2>2, <2>3 DEF SettingsInv, SettingsTypes, ModeNews, GetUserSettingsValue
<1>6. CASE TelemetryStops
  <2>1. telemetry'.pc = "off" /\ telemetry' = [pc |-> telemetry'.pc, mode |-> telemetry'.mode] /\ listening' = FALSE
    BY <1>6 DEF TelemetryStops, Phase
  <2> QED BY <1>1, <1>2, <2>1 DEF SettingsInv, SettingsTypes, ModeNews
<1> QED BY <1>3, <1>4, <1>5, <1>6

\* SettingsFollow: as long as the store can be read, a listener that has
\* heard of a setting knows its value when nothing is on its way, and T2 has
\* the privacy mode UserSettings reports, unless the pool's threads brought
\* news of that setting in the wrong order, or the last telling failed or
\* came late; for every number of threads.
THEOREM SettingsAlwaysFollow == "get" \notin SettingsFaults => (SettingsSpec => []SettingsFollow)
<1> SUFFICES ASSUME "get" \notin SettingsFaults PROVE SettingsSpec => []SettingsFollow
  OBVIOUS
<1>1. SettingsInit => SettingsInv
  <2> SUFFICES ASSUME SettingsInit PROVE SettingsInv
    OBVIOUS
  <2>1. telemetry.pc = "off" /\ telemetry = [pc |-> telemetry.pc, mode |-> telemetry.mode]
    BY DEF SettingsInit, Phase
  <2>2. SettingsTypes
    <3>1. storeJobs \in Seq(SettingEvents) /\ settingsJobs \in Seq(SettingEvents)
      BY DEF SettingsInit
    <3>2. stored \in [Settings -> Values \cup {NoValue}] /\ heard \in [Settings -> Values \cup {NoValue}]
      BY DEF SettingsInit
    <3>3. listening = FALSE
      BY DEF SettingsInit
    <3> QED BY <2>1, <3>1, <3>2, <3>3 DEF SettingsTypes
  <2> QED BY <2>1, <2>2 DEF SettingsInit, SettingsInv, SettingNews, ModeNews, LastTrue, Phase
<1>2. SettingsInv /\ [SettingsNext]_settingsVars => SettingsInv'
  <2> SUFFICES ASSUME SettingsInv, [SettingsNext]_settingsVars PROVE SettingsInv'
    OBVIOUS
  <2>1. CASE UNCHANGED settingsVars
    BY <2>1 DEF settingsVars, telemetryVars, SettingsInv, SettingsTypes, SettingNews, ModeNews, GetUserSettingsValue
  <2> QED BY <2>1, SetFollows, ValueChangedFollows, DispatchFollows, TelemetryFollows DEF SettingsNext
<1>3. SettingsInv => SettingsFollow
  BY SettingsAssumption DEF SettingsInv, SettingNews, ModeNews, SettingsFollow, About
<1> QED BY <1>1, <1>2, <1>3, PTL DEF SettingsSpec

(***************************************************************************)
(* USBMassStorage.  Records: paths of mounts differ, because mkdir makes a *)
(* directory once, and a mount is on record once, but for the records that *)
(* an unmount has passed.  Devices: the last event about a device that is  *)
(* plugged in says so, unless it was overtaken; while the event is on its  *)
(* way the device will be mounted by a job, and without one it waits in    *)
(* the list of the boot, is being mounted, or is on record.  A job that    *)
(* unmounts is never the last about it, until it has erased the records.   *)
(***************************************************************************)
UsbJobType   == [kind : {"in", "out"}, dev : Devices, path : BOOLEAN]
OfDevice(q, d) == \E k \in DOMAIN q : q[k].dev = d
EndsIn(q, d) ==
    \A k \in DOMAIN q : q[k].dev = d /\ (\A j \in DOMAIN q : j > k => q[j].dev # d)
                            => q[k].kind = "in" /\ q[k].path

IsMounting(m) ==
    /\ m = [pc |-> m.pc, dev |-> m.dev, part |-> m.part, path |-> m.path, success |-> m.success]
    /\ m.pc \in {"find", "make"} /\ m.dev \in Devices /\ m.success \in BOOLEAN

Unmounts == [pc : {"unmount", "erase"}, dev : Devices, part : Nat \ {0}, success : BOOLEAN]

UsbTypes ==
    /\ attached \subseteq Devices
    /\ usbJobs \in Seq(UsbJobType) /\ storageJobs \in Seq(UsbJobType)
    /\ bootList \in Seq(Devices)
    /\ registered \in BOOLEAN /\ listed \in BOOLEAN
    /\ listed => registered
    /\ ~registered => storageJobs = <<>>
    /\ DOMAIN mounting = MountThreads
    /\ mounting = [t \in MountThreads |-> mounting[t]]
    /\ \A t \in MountThreads : mounting[t] = NotMounting \/ IsMounting(mounting[t])
    /\ unmounting = NotMounting \/ unmounting \in Unmounts
    /\ ~registered => unmounting = NotMounting

RecordsInv ==
    /\ \E S : usbStorageMountInfo \in [Devices -> Seq(S)]
    /\ \A m, n \in mounts : m.path = n.path => m = n
    /\ \A d, e \in Devices :
           \A j \in Kept(d), k \in Kept(e) :
               /\ usbStorageMountInfo[d][j] \in mounts
               /\ usbStorageMountInfo[d][j] = usbStorageMountInfo[e][k] => d = e /\ j = k

OnRecord(d) == usbStorageMountInfo[d] # <<>>
Mounts(t, d) == mounting[t] # NotMounting /\ mounting[t].dev = d /\ (mounting[t].success => OnRecord(d))

Unmounting(d) == unmounting # NotMounting /\ unmounting.dev = d

EventsTell(d) ==
    d \in attached /\ d \notin failed =>
        /\ EndsIn(usbJobs, d)
        /\ ~OfDevice(usbJobs, d) =>
               EndsIn(storageJobs, d) /\ (Unmounting(d) => OfDevice(storageJobs, d))

Attended(d) ==
    listed /\ d \in attached /\ d \notin failed =>
        \/ OfDevice(usbJobs, d) \/ OfDevice(storageJobs, d) \/ (\E k \in DOMAIN bootList : bootList[k] = d)
        \/ Mounts("job", d) \/ Mounts("boot", d) \/ OnRecord(d)

UsbInv == UsbTypes /\ RecordsInv /\ \A d \in Devices : EventsTell(d) /\ Attended(d)

LEMMA JobAppended ==
    ASSUME NEW q \in Seq(UsbJobType), NEW e \in UsbJobType, NEW d
    PROVE  /\ Append(q, e) \in Seq(UsbJobType)
           /\ OfDevice(Append(q, e), d) <=> OfDevice(q, d) \/ e.dev = d
           /\ e.dev = d => (EndsIn(Append(q, e), d) <=> e.kind = "in" /\ e.path)
           /\ e.dev # d => (EndsIn(Append(q, e), d) <=> EndsIn(q, d))
<1> DEFINE p == Append(q, e)
<1>1. /\ p \in Seq(UsbJobType) /\ DOMAIN p = 1..(Len(q) + 1) /\ DOMAIN q = 1..Len(q) /\ Len(q) \in Nat
      /\ p[Len(q) + 1] = e /\ \A k \in 1..Len(q) : p[k] = q[k]
  OBVIOUS
<1> HIDE DEF p
<1>2. OfDevice(p, d) <=> OfDevice(q, d) \/ e.dev = d
  BY <1>1 DEF OfDevice
<1>3. ASSUME e.dev = d PROVE EndsIn(p, d) <=> e.kind = "in" /\ e.path
  BY <1>1, <1>3 DEF EndsIn
<1>4. ASSUME e.dev # d PROVE EndsIn(p, d) <=> EndsIn(q, d)
  <2>1. ASSUME EndsIn(p, d) PROVE EndsIn(q, d)
    BY <1>1, <1>4, <2>1 DEF EndsIn
  <2>2. ASSUME EndsIn(q, d) PROVE EndsIn(p, d)
    BY <1>1, <1>4, <2>2 DEF EndsIn
  <2> QED BY <2>1, <2>2
<1> QED BY <1>1, <1>2, <1>3, <1>4 DEF p

\* The kth job, with none about the same device before it, was the last
\* about it, or it was not the one that counts.
LEMMA JobTaken ==
    ASSUME NEW q \in Seq(UsbJobType), NEW k \in DOMAIN q, NEW d
    PROVE  /\ q[k] \in UsbJobType /\ LeftJobs(q, k) \in Seq(UsbJobType)
           /\ OfDevice(q, d) <=> OfDevice(LeftJobs(q, k), d) \/ q[k].dev = d
           /\ d \notin OutOfOrder(q, k) =>
                 /\ EndsIn(q, d) => EndsIn(LeftJobs(q, k), d)
                 /\ EndsIn(q, d) /\ q[k].dev = d /\ ~OfDevice(LeftJobs(q, k), d)
                       => q[k].kind = "in" /\ q[k].path
<1> PICK p : p = LeftJobs(q, k)
  OBVIOUS
<1>1. /\ p \in Seq(UsbJobType) /\ k \in Nat \ {0} /\ q[k] \in UsbJobType
      /\ \A i \in DOMAIN q : /\ i \in Nat \ {0}
                             /\ i < k => i \in DOMAIN p /\ p[i] = q[i]
                             /\ i > k => i - 1 \in DOMAIN p /\ p[i - 1] = q[i]
      /\ \A i \in DOMAIN p : /\ i \in Nat \ {0}
                             /\ i < k => i \in DOMAIN q /\ p[i] = q[i]
                             /\ i >= k => i + 1 \in DOMAIN q /\ p[i] = q[i + 1]
  <2>1. p = Cut(q, k)
    BY DEF LeftJobs, Cut
  <2> QED BY <2>1, CutProperties
<1>2. OfDevice(q, d) <=> OfDevice(p, d) \/ q[k].dev = d
  <2>1. ASSUME NEW i \in DOMAIN q, q[i].dev = d, q[k].dev # d PROVE OfDevice(p, d)
    <3>1. i < k \/ i > k
      BY <1>1, <2>1
    <3> QED BY <1>1, <2>1, <3>1 DEF OfDevice
  <2>2. ASSUME NEW i \in DOMAIN p, p[i].dev = d PROVE OfDevice(q, d)
    <3>1. i < k \/ i >= k
      BY <1>1
    <3> QED BY <1>1, <2>2, <3>1 DEF OfDevice
  <2> QED BY <2>1, <2>2 DEF OfDevice
<1>3. ASSUME d \notin OutOfOrder(q, k), EndsIn(q, d) PROVE EndsIn(p, d)
  <2> SUFFICES ASSUME NEW i \in DOMAIN p, p[i].dev = d, \A j \in DOMAIN p : j > i => p[j].dev # d
               PROVE  p[i].kind = "in" /\ p[i].path
    BY DEF EndsIn
  <2>1. CASE i < k
    <3>1. i \in DOMAIN q /\ q[i] = p[i] /\ i \in 1..(k - 1)
      BY <1>1, <2>1
    <3>2. q[k].dev # d
      BY <1>3, <3>1 DEF OutOfOrder
    <3>3. ASSUME NEW j \in DOMAIN q, j > i PROVE q[j].dev # d
      <4>1. j < k \/ j = k \/ j > k
        BY <1>1
      <4>2. CASE j < k
        BY <1>1, <3>3, <4>2
      <4>3. CASE j > k
        <5>1. j - 1 \in DOMAIN p /\ p[j - 1] = q[j] /\ j - 1 > i
          BY <1>1, <2>1, <4>3
        <5> QED BY <5>1
      <4> QED BY <3>2, <4>1, <4>2, <4>3
    <3> QED BY <1>3, <3>1, <3>3 DEF EndsIn
  <2>2. CASE i >= k
    <3>1. i + 1 \in DOMAIN q /\ q[i + 1] = p[i]
      BY <1>1, <2>2
    <3>2. ASSUME NEW j \in DOMAIN q, j > i + 1 PROVE q[j].dev # d
      <4>1. j - 1 \in DOMAIN p /\ p[j - 1] = q[j] /\ j - 1 > i
        BY <1>1, <2>2, <3>2
      <4> QED BY <4>1
    <3> QED BY <1>3, <3>1, <3>2 DEF EndsIn
  <2> QED BY <1>1, <2>1, <2>2
<1>4. ASSUME EndsIn(q, d), q[k].dev = d, ~OfDevice(p, d) PROVE q[k].kind = "in" /\ q[k].path
  <2>1. ASSUME NEW j \in DOMAIN q, j > k PROVE q[j].dev # d
    BY <1>1, <1>4, <2>1 DEF OfDevice
  <2> QED BY <1>1, <1>4, <2>1 DEF EndsIn
<1> QED BY <1>1, <1>2, <1>3, <1>4

LEMMA SeqOver ==
    ASSUME NEW S, NEW T, NEW q \in Seq(S), \A k \in DOMAIN q : q[k] \in T
    PROVE  q \in Seq(T)
<1>1. Len(q) \in Nat /\ q = [k \in 1..Len(q) |-> q[k]] /\ DOMAIN q = 1..Len(q)
  OBVIOUS
<1>2. q \in [1..Len(q) -> T]
  BY <1>1
<1> QED BY <1>1, <1>2, SeqDef

\* Mounts may go, as long as those of the records that are kept stay.
LEMMA RecordsKept ==
    ASSUME RecordsInv, UNCHANGED usbStorageMountInfo, mounts' \subseteq mounts,
           \A d \in Devices : Kept(d)' \subseteq Kept(d),
           \A d \in Devices : \A k \in Kept(d)' : usbStorageMountInfo[d][k] \in mounts'
    PROVE  RecordsInv'
<1>1. \E S : usbStorageMountInfo' \in [Devices -> Seq(S)]
  BY DEF RecordsInv
<1>2. \A m, n \in mounts' : m.path = n.path => m = n
  BY DEF RecordsInv
<1>3. ASSUME NEW d \in Devices, NEW e \in Devices, NEW j \in Kept(d)', NEW k \in Kept(e)'
      PROVE  /\ usbStorageMountInfo'[d][j] \in mounts'
             /\ usbStorageMountInfo'[d][j] = usbStorageMountInfo'[e][k] => d = e /\ j = k
  <2>1. j \in Kept(d) /\ k \in Kept(e)
    BY <1>3
  <2> QED BY <1>3, <2>1 DEF RecordsInv
<1> QED BY <1>1, <1>2, <1>3 DEF RecordsInv

\* What the mounts and records do not see.
LEMMA RecordsFrame ==
    ASSUME RecordsInv, UNCHANGED <<usbStorageMountInfo, mounts, unmounting>>
    PROVE  RecordsInv'
<1>1. \A d \in Devices : Kept(d)' = Kept(d)
  BY DEF Kept, Passed
<1>2. \A d \in Devices : \A k \in Kept(d)' : usbStorageMountInfo[d][k] \in mounts'
  BY <1>1 DEF RecordsInv
<1> QED BY <1>1, <1>2, RecordsKept

-----------------------------------------------------------------------------
\* A device comes or goes: its event is the last.
LEMMA PlugKeeps ==
    ASSUME UsbInv, NEW d \in Devices, PlugIn(d) \/ PlugOut(d)
    PROVE  UsbInv'
<1>1. UNCHANGED <<storageJobs, registered, listed, bootList, usbStorageMountInfo, mounts, mounting, unmounting>>
  BY DEF PlugIn, PlugOut
<1>2. PICK e \in UsbJobType :
         /\ usbJobs' = Append(usbJobs, e) /\ e.dev = d
         /\ attached' \subseteq attached \cup {d}
         /\ d \in attached' /\ d \notin failed' => e.kind = "in" /\ e.path
         /\ \A c \in Devices : c # d => (c \in attached' => c \in attached) /\ (c \in failed => c \in failed')
  <2>1. CASE PlugIn(d)
    <3>1. PICK path \in Paths : /\ usbJobs' = Append(usbJobs, UsbEvent("in", d, path))
                                /\ failed' = IF path THEN failed \ {d} ELSE failed \cup {d}
      BY <2>1 DEF PlugIn
    <3>2. path \in BOOLEAN /\ attached' = attached \cup {d}
      BY <2>1 DEF Paths, PlugIn
    <3>3. UsbEvent("in", d, path) \in UsbJobType /\ UsbEvent("in", d, path).dev = d
          /\ UsbEvent("in", d, path).kind = "in" /\ UsbEvent("in", d, path).path = path
      BY <3>2 DEF UsbEvent, UsbJobType
    <3> QED BY <3>1, <3>2, <3>3
  <2>2. CASE PlugOut(d)
    <3>1. usbJobs' = Append(usbJobs, UsbEvent("out", d, FALSE)) /\ attached' = attached \ {d} /\ failed' = failed
      BY <2>2 DEF PlugOut
    <3>2. UsbEvent("out", d, FALSE) \in UsbJobType /\ UsbEvent("out", d, FALSE).dev = d
      BY DEF UsbEvent, UsbJobType
    <3> QED BY <3>1, <3>2
  <2> QED BY <2>1, <2>2
<1>3. \A c : /\ usbJobs' \in Seq(UsbJobType)
             /\ OfDevice(usbJobs', c) <=> OfDevice(usbJobs, c) \/ e.dev = c
             /\ e.dev = c => (EndsIn(usbJobs', c) <=> e.kind = "in" /\ e.path)
             /\ e.dev # c => (EndsIn(usbJobs', c) <=> EndsIn(usbJobs, c))
  BY <1>2, JobAppended DEF UsbInv, UsbTypes
<1>4. UsbTypes'
  BY <1>1, <1>2, <1>3 DEF UsbInv, UsbTypes
<1>5. RecordsInv'
  BY <1>1, RecordsFrame DEF UsbInv
<1>6. ASSUME NEW c \in Devices PROVE EventsTell(c)' /\ Attended(c)'
  <2>1. CASE c = d
    BY <1>2, <1>3, <2>1 DEF EventsTell, Attended
  <2>2. CASE c # d
    BY <1>1, <1>2, <1>3, <2>2 DEF UsbInv, EventsTell, Unmounting, Attended, Mounts, OnRecord
  <2> QED BY <2>1, <2>2
<1> QED BY <1>4, <1>5, <1>6 DEF UsbInv

\* The event of a device reaches the jobs of USBMassStorage, once it listens.
LEMMA UsbDispatchKeeps ==
    ASSUME UsbInv, NEW k \in Nat, UsbDispatch(k)
    PROVE  UsbInv'
<1> PICK e : e = usbJobs[k]
  OBVIOUS
<1>1. /\ k \in DOMAIN usbJobs /\ usbJobs' = LeftJobs(usbJobs, k)
      /\ failed' = failed \cup OutOfOrder(usbJobs, k)
      /\ storageJobs' = IF registered /\ (e.kind = "in" => e.path) THEN Append(storageJobs, e) ELSE storageJobs
      /\ UNCHANGED <<attached, registered, listed, bootList, usbStorageMountInfo, mounts, mounting, unmounting>>
  BY DEF UsbDispatch, StorageJobs
<1>2. usbJobs \in Seq(UsbJobType) /\ storageJobs \in Seq(UsbJobType)
  BY DEF UsbInv, UsbTypes
<1>3. \A c : /\ e \in UsbJobType /\ usbJobs' \in Seq(UsbJobType)
             /\ OfDevice(usbJobs, c) <=> OfDevice(usbJobs', c) \/ e.dev = c
             /\ c \notin failed' =>
                   /\ c \notin failed
                   /\ EndsIn(usbJobs, c) => EndsIn(usbJobs', c)
                   /\ EndsIn(usbJobs, c) /\ e.dev = c /\ ~OfDevice(usbJobs', c) => e.kind = "in" /\ e.path
  BY <1>1, <1>2, JobTaken
<1>4. CASE registered /\ (e.kind = "in" => e.path)
  <2>1. \A c : /\ storageJobs' \in Seq(UsbJobType)
               /\ OfDevice(storageJobs', c) <=> OfDevice(storageJobs, c) \/ e.dev = c
               /\ e.dev = c => (EndsIn(storageJobs', c) <=> e.kind = "in" /\ e.path)
               /\ e.dev # c => (EndsIn(storageJobs', c) <=> EndsIn(storageJobs, c))
    BY <1>1, <1>2, <1>3, <1>4, JobAppended
  <2>2. UsbTypes'
    BY <1>1, <1>3, <1>4, <2>1 DEF UsbInv, UsbTypes
  <2>3. ASSUME NEW c \in Devices PROVE EventsTell(c)' /\ Attended(c)'
    <3>1. EventsTell(c) /\ Attended(c)
      BY DEF UsbInv
    <3>2. EventsTell(c)'
      BY <1>1, <1>3, <2>1, <3>1 DEF EventsTell, Unmounting
    <3>3. Attended(c)'
      BY <1>1, <1>3, <2>1, <3>1 DEF Attended, Mounts, OnRecord
    <3> QED BY <3>2, <3>3
  <2> QED BY <1>1, <2>2, <2>3, RecordsFrame DEF UsbInv
<1>5. CASE ~(registered /\ (e.kind = "in" => e.path))
  <2>1. storageJobs' = storageJobs
    BY <1>1, <1>5
  <2>2. UsbTypes'
    BY <1>1, <1>3, <2>1 DEF UsbInv, UsbTypes
  <2>3. ASSUME NEW c \in Devices PROVE EventsTell(c)' /\ Attended(c)'
    <3>1. /\ EventsTell(c) /\ Attended(c) /\ (listed => registered)
          /\ ~registered => storageJobs = <<>> /\ unmounting = NotMounting
      BY DEF UsbInv, UsbTypes
    <3>2. EventsTell(c)'
      <4> SUFFICES ASSUME c \in attached, c \notin failed'
                   PROVE  /\ EndsIn(usbJobs', c)
                          /\ ~OfDevice(usbJobs', c) =>
                                EndsIn(storageJobs, c) /\ (Unmounting(c) => OfDevice(storageJobs, c))
        BY <1>1, <2>1 DEF EventsTell, Unmounting
      <4>1. EndsIn(usbJobs, c) /\ EndsIn(usbJobs', c)
        BY <1>3, <3>1 DEF EventsTell
      <4>2. ASSUME ~OfDevice(usbJobs', c)
            PROVE  EndsIn(storageJobs, c) /\ (Unmounting(c) => OfDevice(storageJobs, c))
        <5>1. CASE ~registered
          BY <3>1, <5>1 DEF EndsIn, Unmounting
        <5>2. CASE registered
          <6>1. ~OfDevice(usbJobs, c)
            BY <1>3, <1>5, <4>1, <4>2, <5>2
          <6> QED BY <1>3, <3>1, <6>1 DEF EventsTell
        <5> QED BY <5>1, <5>2
      <4> QED BY <4>1, <4>2
    <3>3. Attended(c)'
      <4> SUFFICES ASSUME listed, c \in attached, c \notin failed', ~OfDevice(usbJobs', c),
                          ~OfDevice(storageJobs, c)
                   PROVE  \/ \E i \in DOMAIN bootList : bootList[i] = c
                          \/ Mounts("job", c) \/ Mounts("boot", c) \/ OnRecord(c)
        BY <1>1, <2>1 DEF Attended, Mounts, OnRecord
      <4>1. EndsIn(usbJobs, c)
        BY <1>3, <3>1 DEF EventsTell
      <4>2. ~OfDevice(usbJobs, c)
        BY <1>3, <1>5, <3>1, <4>1
      <4> QED BY <1>3, <3>1, <4>2 DEF Attended
    <3> QED BY <3>2, <3>3
  <2> QED BY <1>1, <2>2, <2>3, RecordsFrame DEF UsbInv
<1> QED BY <1>4, <1>5

\* Every device found gets a place in the list.
LEMMA OrderIsComplete ==
    ASSUME NEW S, IsFiniteSet(S), NEW s \in InSomeOrder(S)
    PROVE  s \in Seq(S) /\ \A d \in S : \E k \in DOMAIN s : s[k] = d
<1>1. Cardinality(S) \in Nat
  BY FS_CardinalityType
<1>2. s \in [1..Cardinality(S) -> S] /\ \A i, j \in 1..Cardinality(S) : i # j => s[i] # s[j]
  BY DEF InSomeOrder
<1>3. s \in Injection(1..Cardinality(S), S)
  BY <1>2 DEF Injection, IsInjective
<1>4. Cardinality(1..Cardinality(S)) = Cardinality(S)
  BY <1>1, FS_Interval
<1>5. s \in Surjection(1..Cardinality(S), S)
  BY <1>3, <1>4, FS_Injection
<1>6. \A d \in S : \E k \in 1..Cardinality(S) : s[k] = d
  BY <1>5 DEF Surjection
<1> QED BY <1>1, <1>2, <1>6, SeqDef

\* Devices found go on the list, and those that are not count as failed.
LEMMA StartKeeps ==
    ASSUME UsbInv, Register \/ ListDevices
    PROVE  UsbInv'
<1>1. UNCHANGED <<attached, usbJobs, storageJobs, usbStorageMountInfo, mounts, mounting, unmounting>>
  BY DEF Register, ListDevices
<1>2. RecordsInv'
  BY <1>1, RecordsFrame DEF UsbInv
<1>3. CASE Register
  <2>1. registered' = TRUE /\ UNCHANGED <<listed, bootList, failed>>
    BY <1>3 DEF Register
  <2>2. UsbTypes'
    BY <1>1, <2>1 DEF UsbInv, UsbTypes
  <2> QED BY <1>1, <1>2, <2>1, <2>2 DEF UsbInv, EventsTell, Unmounting, Attended, Mounts, OnRecord
<1>4. CASE ListDevices
  <2>1. PICK found \in SUBSET attached :
           bootList' \in InSomeOrder(found) /\ failed' = failed \cup (attached \ found)
    BY <1>4 DEF ListDevices
  <2>2. registered /\ listed' = TRUE /\ UNCHANGED registered
    BY <1>4 DEF ListDevices, MayList
  <2>3. IsFiniteSet(found) /\ found \subseteq Devices
    <3>1. found \in SUBSET Devices
      BY DEF UsbInv, UsbTypes
    <3> QED BY <3>1, UsbAssumption, FS_Subset
  <2>4. bootList' \in Seq(found) /\ \A d \in found : \E k \in DOMAIN bootList' : bootList'[k] = d
    BY <2>1, <2>3, OrderIsComplete
  <2>5. bootList' \in Seq(Devices)
    BY <2>3, <2>4, SeqOver
  <2>6. UsbTypes'
    BY <1>1, <2>2, <2>5 DEF UsbInv, UsbTypes
  <2>7. ASSUME NEW d \in Devices PROVE EventsTell(d)' /\ Attended(d)'
    BY <1>1, <2>1, <2>2, <2>4 DEF UsbInv, EventsTell, Unmounting, Attended
  <2> QED BY <1>2, <2>6, <2>7 DEF UsbInv
<1> QED BY <1>3, <1>4

\* A thread begins to mount a device.
LEMMA MountBegins ==
    ASSUME UsbInv, NEW t \in MountThreads, NEW d \in Devices,
           mounting' = [mounting EXCEPT ![t] = Begun(d)]
    PROVE  /\ DOMAIN mounting' = MountThreads /\ mounting' = [u \in MountThreads |-> mounting'[u]]
           /\ \A u \in MountThreads : mounting'[u] = NotMounting \/ IsMounting(mounting'[u])
           /\ mounting'[t] # NotMounting /\ mounting'[t].dev = d /\ ~mounting'[t].success
           /\ \A u \in MountThreads : u # t => mounting'[u] = mounting[u]
<1>1. PICK m : m = Begun(d)
  OBVIOUS
<1>2. IsMounting(m) /\ m.pc = "find" /\ m.dev = d /\ m.success = FALSE
  BY <1>1 DEF Begun, IsMounting
<1>3. m # NotMounting
  <2>1. NotMounting.pc = "idle"
    BY DEF NotMounting
  <2> QED BY <1>2, <2>1
<1>4. DOMAIN mounting = MountThreads /\ mounting = [u \in MountThreads |-> mounting[u]]
      /\ \A u \in MountThreads : mounting[u] = NotMounting \/ IsMounting(mounting[u])
  BY DEF UsbInv, UsbTypes
<1>5. mounting' = [mounting EXCEPT ![t] = m]
  BY <1>1
<1>6. mounting'[t] = m /\ \A u \in MountThreads : u # t => mounting'[u] = mounting[u]
  BY <1>4, <1>5
<1>7. DOMAIN mounting' = MountThreads /\ mounting' = [u \in MountThreads |-> mounting'[u]]
  BY <1>4, <1>5
<1> QED BY <1>2, <1>3, <1>4, <1>6, <1>7

LEMMA MountOnBootUpKeeps ==
    ASSUME UsbInv, MountOnBootUp
    PROVE  UsbInv'
<1> PICK d : d = Head(bootList)
  OBVIOUS
<1>1. /\ bootList # <<>> /\ bootList' = Tail(bootList)
      /\ mounting["boot"] = NotMounting
      /\ mounting' = [mounting EXCEPT !["boot"] = Begun(d)]
      /\ UNCHANGED <<attached, usbJobs, storageJobs, registered, listed, usbStorageMountInfo, mounts, unmounting,
                     failed>>
  BY DEF MountOnBootUp
<1>2. bootList \in Seq(Devices) /\ d \in Devices /\ bootList' \in Seq(Devices)
  BY <1>1 DEF UsbInv, UsbTypes
<1>3. /\ DOMAIN mounting' = MountThreads /\ mounting' = [u \in MountThreads |-> mounting'[u]]
      /\ \A u \in MountThreads : mounting'[u] = NotMounting \/ IsMounting(mounting'[u])
      /\ mounting'["boot"] # NotMounting /\ mounting'["boot"].dev = d /\ ~mounting'["boot"].success
      /\ \A u \in MountThreads : u # "boot" => mounting'[u] = mounting[u]
  <2>1. "boot" \in MountThreads
    BY DEF MountThreads
  <2> QED BY <1>1, <1>2, <2>1, MountBegins
<1>4. UsbTypes'
  BY <1>1, <1>2, <1>3 DEF UsbInv, UsbTypes
<1>5. RecordsInv'
  BY <1>1, RecordsFrame DEF UsbInv
<1>6. ASSUME NEW c \in Devices PROVE EventsTell(c)' /\ Attended(c)'
  <2>1. EventsTell(c) /\ Attended(c)
    BY DEF UsbInv
  <2>2. EventsTell(c)'
    BY <1>1, <2>1 DEF EventsTell, Unmounting
  <2>3. (\E k \in DOMAIN bootList : bootList[k] = c) => c = d \/ (\E k \in DOMAIN bootList' : bootList'[k] = c)
    <3>1. SUFFICES ASSUME NEW k \in DOMAIN bootList, bootList[k] = c, c # d
                   PROVE  \E j \in DOMAIN bootList' : bootList'[j] = c
      OBVIOUS
    <3>2. k # 1 /\ k \in 1..Len(bootList)
      BY <1>1, <1>2, <3>1
    <3>3. k - 1 \in DOMAIN bootList' /\ bootList'[k - 1] = c
      BY <1>1, <1>2, <3>1, <3>2
    <3> QED BY <3>3
  <2>4. Mounts("boot", c) => FALSE
    BY <1>1 DEF Mounts
  <2>5. Mounts("job", c) => Mounts("job", c)'
    BY <1>1, <1>3 DEF Mounts, OnRecord, MountThreads
  <2>6. Mounts("boot", d)'
    BY <1>3 DEF Mounts
  <2>7. OnRecord(c)' <=> OnRecord(c)
    BY <1>1 DEF OnRecord
  <2>8. Attended(c)'
    BY <1>1, <2>1, <2>3, <2>4, <2>5, <2>6, <2>7 DEF Attended
  <2> QED BY <2>2, <2>8
<1> QED BY <1>4, <1>5, <1>6 DEF UsbInv

\* A job takes over from its event.
LEMMA MountJobKeeps ==
    ASSUME UsbInv, NEW k \in Nat, NEW d \in Devices, DispatchMountEvent(k, d)
    PROVE  UsbInv'
<1>1. /\ k \in DOMAIN storageJobs /\ storageJobs' = LeftJobs(storageJobs, k) /\ storageJobs[k].dev = d
      /\ failed' = failed \cup OutOfOrder(storageJobs, k)
      /\ mounting["job"] = NotMounting /\ unmounting = NotMounting
      /\ mounting' = [mounting EXCEPT !["job"] = Begun(d)]
      /\ UNCHANGED <<attached, usbJobs, registered, listed, bootList, usbStorageMountInfo, mounts, unmounting>>
  BY DEF DispatchMountEvent, NextJob
<1>2. \A c : /\ storageJobs' \in Seq(UsbJobType)
             /\ OfDevice(storageJobs, c) <=> OfDevice(storageJobs', c) \/ d = c
             /\ c \notin failed' => c \notin failed /\ (EndsIn(storageJobs, c) => EndsIn(storageJobs', c))
  BY <1>1, JobTaken DEF UsbInv, UsbTypes
<1>3. /\ DOMAIN mounting' = MountThreads /\ mounting' = [u \in MountThreads |-> mounting'[u]]
      /\ \A u \in MountThreads : mounting'[u] = NotMounting \/ IsMounting(mounting'[u])
      /\ mounting'["job"] # NotMounting /\ mounting'["job"].dev = d /\ ~mounting'["job"].success
      /\ \A u \in MountThreads : u # "job" => mounting'[u] = mounting[u]
  <2>1. "job" \in MountThreads
    BY DEF MountThreads
  <2> QED BY <1>1, <2>1, MountBegins
<1>4. UsbTypes'
  <2>1. registered \/ storageJobs = <<>>
    BY DEF UsbInv, UsbTypes
  <2>2. registered
    BY <1>1, <2>1
  <2> QED BY <1>1, <1>2, <1>3, <2>2 DEF UsbInv, UsbTypes
<1>5. RecordsInv'
  BY <1>1, RecordsFrame DEF UsbInv
<1>6. ASSUME NEW c \in Devices PROVE EventsTell(c)' /\ Attended(c)'
  <2>1. EventsTell(c) /\ Attended(c)
    BY DEF UsbInv
  <2>2. EventsTell(c)'
    BY <1>1, <1>2, <2>1 DEF EventsTell, Unmounting
  <2>3. Mounts("job", c) => FALSE
    BY <1>1 DEF Mounts
  <2>4. Mounts("boot", c) => Mounts("boot", c)'
    BY <1>1, <1>3 DEF Mounts, OnRecord, MountThreads
  <2>5. Mounts("job", d)'
    BY <1>3 DEF Mounts
  <2>6. OnRecord(c)' <=> OnRecord(c)
    BY <1>1 DEF OnRecord
  <2>7. Attended(c)'
    BY <1>1, <1>2, <2>1, <2>3, <2>4, <2>5, <2>6 DEF Attended
  <2> QED BY <2>2, <2>7
<1> QED BY <1>4, <1>5, <1>6 DEF UsbInv

\* A client looks after the mounts of a device on the list.
LEMMA ClientKeeps ==
    ASSUME UsbInv, (\E d \in Devices : GetMountPoints(d)) \/ GetDeviceList
    PROVE  UsbInv'
<1>1. UNCHANGED <<attached, usbJobs, storageJobs, registered, listed, bootList, usbStorageMountInfo, mounts,
                  unmounting, failed>>
  BY DEF GetMountPoints, GetDeviceList
<1>2. RecordsInv'
  BY <1>1, RecordsFrame DEF UsbInv
<1>3. /\ DOMAIN mounting' = MountThreads /\ mounting' = [u \in MountThreads |-> mounting'[u]]
      /\ \A u \in MountThreads : mounting'[u] = NotMounting \/ IsMounting(mounting'[u])
      /\ \A u \in MountThreads : u # "client" => mounting'[u] = mounting[u]
  <2>1. CASE GetDeviceList
    BY <2>1 DEF GetDeviceList, UsbInv, UsbTypes
  <2>2. CASE \E d \in Devices : GetMountPoints(d)
    <3>1. "client" \in MountThreads
      BY DEF MountThreads
    <3>2. PICK d \in Devices : mounting' = [mounting EXCEPT !["client"] = Begun(d)]
      BY <2>2 DEF GetMountPoints
    <3> QED BY <3>1, <3>2, MountBegins
  <2> QED BY <2>1, <2>2
<1>4. UsbTypes'
  BY <1>1, <1>3 DEF UsbInv, UsbTypes
<1>5. ASSUME NEW c \in Devices PROVE EventsTell(c)' /\ Attended(c)'
  <2>1. (Mounts("job", c)' <=> Mounts("job", c)) /\ (Mounts("boot", c)' <=> Mounts("boot", c))
    BY <1>1, <1>3 DEF Mounts, OnRecord, MountThreads
  <2> QED BY <1>1, <2>1 DEF UsbInv, EventsTell, Unmounting, Attended, OnRecord
<1> QED BY <1>2, <1>4, <1>5 DEF UsbInv

ToMake(m, x)    == [m EXCEPT !.pc = "make", !.path = x]
ToFind(m, y, z) == [m EXCEPT !.pc = "find", !.part = y, !.path = 0, !.success = z]

LEMMA MakeEdits ==
    ASSUME NEW m, IsMounting(m), NEW x
    PROVE  /\ IsMounting(ToMake(m, x)) /\ ToMake(m, x) # NotMounting
           /\ ToMake(m, x).dev = m.dev /\ ToMake(m, x).success = m.success
<1>1. PICK a, b, n, p, s : /\ m = [pc |-> a, dev |-> b, part |-> n, path |-> p, success |-> s]
                           /\ b \in Devices /\ s \in BOOLEAN
  BY DEF IsMounting
<1>2. m.dev = b /\ m.success = s
  BY <1>1
<1>3. [m EXCEPT !.pc = "make"] = [pc |-> "make", dev |-> b, part |-> n, path |-> p, success |-> s]
  BY <1>1
<1>4. \A r : r = [pc |-> "make", dev |-> b, part |-> n, path |-> p, success |-> s]
        => [r EXCEPT !.path = x] = [pc |-> "make", dev |-> b, part |-> n, path |-> x, success |-> s]
  OBVIOUS
<1>10. ToMake(m, x) = [pc |-> "make", dev |-> b, part |-> n, path |-> x, success |-> s]
  BY <1>1, <1>3, <1>4 DEF ToMake
<1>11. NotMounting.pc = "idle"
  BY DEF NotMounting
<1>12. ToMake(m, x).pc = "make" /\ ToMake(m, x).dev = b /\ ToMake(m, x).success = s
  BY <1>10
<1>13. IsMounting(ToMake(m, x))
  BY <1>1, <1>10, <1>12 DEF IsMounting
<1> QED BY <1>2, <1>11, <1>12, <1>13

LEMMA FindEdits ==
    ASSUME NEW m, IsMounting(m), NEW y, NEW z \in BOOLEAN
    PROVE  /\ IsMounting(ToFind(m, y, z)) /\ ToFind(m, y, z) # NotMounting
           /\ ToFind(m, y, z).dev = m.dev /\ ToFind(m, y, z).success = z
<1>1. PICK a, b, n, p, s : /\ m = [pc |-> a, dev |-> b, part |-> n, path |-> p, success |-> s]
                           /\ b \in Devices /\ s \in BOOLEAN
  BY DEF IsMounting
<1>2. m.dev = b /\ m.success = s
  BY <1>1
<1>6. [m EXCEPT !.pc = "find"] = [pc |-> "find", dev |-> b, part |-> n, path |-> p, success |-> s]
  BY <1>1
<1>7. \A r : r = [pc |-> "find", dev |-> b, part |-> n, path |-> p, success |-> s]
        => [r EXCEPT !.part = y] = [pc |-> "find", dev |-> b, part |-> y, path |-> p, success |-> s]
  OBVIOUS
<1>8. \A r : r = [pc |-> "find", dev |-> b, part |-> y, path |-> p, success |-> s]
        => [r EXCEPT !.path = 0] = [pc |-> "find", dev |-> b, part |-> y, path |-> 0, success |-> s]
  OBVIOUS
<1>9. \A r : r = [pc |-> "find", dev |-> b, part |-> y, path |-> 0, success |-> s]
        => [r EXCEPT !.success = z] = [pc |-> "find", dev |-> b, part |-> y, path |-> 0, success |-> z]
  OBVIOUS
<1>10. ToFind(m, y, z) = [pc |-> "find", dev |-> b, part |-> y, path |-> 0, success |-> z]
  BY <1>1, <1>6, <1>7, <1>8, <1>9 DEF ToFind
<1>11. NotMounting.pc = "idle"
  BY DEF NotMounting
<1>12. ToFind(m, y, z).pc = "find" /\ ToFind(m, y, z).dev = b /\ ToFind(m, y, z).success = z
  BY <1>10
<1>13. IsMounting(ToFind(m, y, z))
  BY <1>1, <1>10, <1>12 DEF IsMounting
<1> QED BY <1>2, <1>11, <1>12, <1>13

LEMMA FindKeeps ==
    ASSUME UsbInv, NEW t \in MountThreads, FindMountPoint(t)
    PROVE  UsbInv'
<1>1. /\ mounting[t].pc = "find"
      /\ mounting' = [mounting EXCEPT ![t].pc = "make", ![t].path = FirstFree]
      /\ UNCHANGED <<attached, usbJobs, storageJobs, registered, listed, bootList, usbStorageMountInfo,
                     mounts, unmounting, failed>>
  BY DEF FindMountPoint
<1>2. DOMAIN mounting = MountThreads /\ mounting = [u \in MountThreads |-> mounting[u]]
      /\ \A u \in MountThreads : mounting[u] = NotMounting \/ IsMounting(mounting[u])
  BY DEF UsbInv, UsbTypes
<1>3. NotMounting.pc = "idle"
  BY DEF NotMounting
<1>4. mounting[t] # NotMounting /\ IsMounting(mounting[t])
  BY <1>1, <1>2, <1>3
<1>5. PICK m, f : m = mounting[t] /\ f = FirstFree
  OBVIOUS
<1>6. mounting'[t] = ToMake(m, f) /\ \A u \in MountThreads : u # t => mounting'[u] = mounting[u]
  BY <1>1, <1>2, <1>5 DEF ToMake
<1>7. /\ IsMounting(mounting'[t]) /\ mounting'[t] # NotMounting
      /\ mounting'[t].dev = mounting[t].dev /\ mounting'[t].success = mounting[t].success
  BY <1>4, <1>5, <1>6, MakeEdits
<1>8. DOMAIN mounting' = MountThreads /\ mounting' = [u \in MountThreads |-> mounting'[u]]
  BY <1>1, <1>2
<1>9. UsbTypes'
  BY <1>1, <1>2, <1>6, <1>7, <1>8 DEF UsbInv, UsbTypes
<1>10. ASSUME NEW c \in Devices PROVE EventsTell(c)' /\ Attended(c)'
  <2>1. ASSUME NEW u \in MountThreads, Mounts(u, c) PROVE Mounts(u, c)'
    BY <1>1, <1>6, <1>7, <2>1 DEF Mounts, OnRecord
  <2>2. "job" \in MountThreads /\ "boot" \in MountThreads
    BY DEF MountThreads
  <2> QED BY <1>1, <2>1, <2>2 DEF UsbInv, EventsTell, Unmounting, Attended, OnRecord
<1> QED BY <1>1, <1>9, <1>10, RecordsFrame DEF UsbInv

\* A partition more on record, in a directory of its own; or none.
LEMMA RecordAdded ==
    ASSUME RecordsInv, NEW d \in Devices, NEW m, \A n \in mounts : n.path # m.path, UNCHANGED unmounting,
           mounts' = mounts \cup {m},
           usbStorageMountInfo' = [usbStorageMountInfo EXCEPT ![d] = Append(@, m)]
    PROVE  RecordsInv' /\ \A c \in Devices : OnRecord(c) \/ c = d => OnRecord(c)'
<1> DEFINE info == usbStorageMountInfo
           q == info[d]
<1> PICK S : info \in [Devices -> Seq(S)]
  BY DEF RecordsInv
<1>1. q \in Seq(S)
  OBVIOUS
<1>2. info'[d] = Append(q, m) /\ (\A c \in Devices : c # d => info'[c] = info[c]) /\ DOMAIN info' = Devices
  OBVIOUS
<1> DEFINE T == S \cup {m}
<1>3. \A c \in Devices : info[c] \in Seq(T)
  <2> SUFFICES ASSUME NEW c \in Devices PROVE info[c] \in Seq(T)
    OBVIOUS
  <2>1. info[c] \in Seq(S) /\ \A k \in DOMAIN info[c] : info[c][k] \in T
    OBVIOUS
  <2> HIDE DEF T
  <2> QED BY <2>1, SeqOver
<1>4. /\ info'[d] \in Seq(T) /\ info'[d] # <<>>
      /\ DOMAIN info'[d] = 1..(Len(q) + 1) /\ DOMAIN q = 1..Len(q) /\ Len(q) \in Nat
      /\ info'[d][Len(q) + 1] = m /\ \A k \in 1..Len(q) : info'[d][k] = q[k]
  <2>1. q \in Seq(T) /\ m \in T
    BY <1>3
  <2>2. PICK p : p = Append(q, m)
    OBVIOUS
  <2>3. /\ p \in Seq(T) /\ p # <<>> /\ DOMAIN p = 1..(Len(q) + 1) /\ DOMAIN q = 1..Len(q) /\ Len(q) \in Nat
        /\ p[Len(q) + 1] = m /\ \A k \in 1..Len(q) : p[k] = q[k]
    <3> HIDE DEF T, q
    <3> QED BY <2>1, <2>2
  <2> QED BY <1>2, <2>2, <2>3
<1>5. info' \in [Devices -> Seq(T)]
  BY <1>2, <1>3, <1>4
<1>6. \A n, l \in mounts' : n.path = l.path => n = l
  BY DEF RecordsInv
<1>7. m \notin mounts
  OBVIOUS
<1>8. ASSUME NEW c \in Devices, NEW e \in Devices, NEW j \in Kept(c)', NEW k \in Kept(e)'
      PROVE  info'[c][j] \in mounts' /\ (info'[c][j] = info'[e][k] => c = e /\ j = k)
  <2>1. ASSUME NEW b \in Devices, NEW i \in Kept(b)'
        PROVE  \/ i \in Kept(b) /\ info'[b][i] = info[b][i] /\ info[b][i] \in mounts
               \/ b = d /\ i = Len(q) + 1 /\ info'[b][i] = m
    <3>1. i \in DOMAIN info'[b] /\ (i \in DOMAIN info[b] => i \in Kept(b))
      BY <2>1 DEF Kept, Passed
    <3>2. CASE b # d
      <4>1. i \in Kept(b) /\ info'[b] = info[b]
        BY <1>2, <3>1, <3>2
      <4> QED BY <4>1 DEF RecordsInv
    <3>3. CASE b = d
      <4>1. CASE i = Len(q) + 1
        BY <1>4, <3>3, <4>1
      <4>2. CASE i # Len(q) + 1
        <5>1. i \in 1..Len(q)
          BY <1>4, <3>1, <3>3, <4>2
        <5>2. i \in Kept(b) /\ info'[b][i] = info[b][i]
          BY <1>4, <3>1, <3>3, <5>1
        <5> QED BY <5>2 DEF RecordsInv
      <4> QED BY <4>1, <4>2
    <3> QED BY <3>2, <3>3
  <2>2. info'[c][j] \in mounts'
    BY <1>8, <2>1
  <2>3. ASSUME info'[c][j] = info'[e][k] PROVE c = e /\ j = k
    <3>1. CASE info'[c][j] = m
      BY <1>7, <1>8, <2>1, <2>3, <3>1
    <3>2. CASE info'[c][j] # m
      <4>1. /\ j \in Kept(c) /\ info'[c][j] = info[c][j]
            /\ k \in Kept(e) /\ info'[e][k] = info[e][k]
        BY <1>8, <2>1, <2>3, <3>2
      <4>2. info[c][j] = info[e][k]
        BY <2>3, <4>1
      <4> QED BY <4>1, <4>2 DEF RecordsInv
    <3> QED BY <3>1, <3>2
  <2> QED BY <2>2, <2>3
<1>9. RecordsInv'
  <2>1. \E U : usbStorageMountInfo' \in [Devices -> Seq(U)]
    BY <1>5
  <2> QED BY <2>1, <1>6, <1>8 DEF RecordsInv
<1>10. \A c \in Devices : OnRecord(c) \/ c = d => OnRecord(c)'
  BY <1>2, <1>4 DEF OnRecord
<1> QED BY <1>9, <1>10

\* A thread that ends having mounted nothing leaves its device to failed.
LEMMA MountPartitionKeeps ==
    ASSUME UsbInv, NEW t \in MountThreads, MountPartition(t)
    PROVE  UsbInv'
<1> PICK m : m = mounting[t]
  OBVIOUS
<1> PICK mount : mount = [part |-> <<m.dev, m.part>>, path |-> m.path]
  OBVIOUS
<1>1. /\ m.pc = "make"
      /\ \/ /\ Makes(m.path)
            /\ mounts' = mounts \cup {mount}
            /\ usbStorageMountInfo' = [usbStorageMountInfo EXCEPT ![m.dev] = Append(@, mount)]
            /\ Continue(t, TRUE)
         \/ /\ Continue(t, FALSE)
            /\ UNCHANGED <<mounts, usbStorageMountInfo>>
      /\ UNCHANGED <<attached, usbJobs, storageJobs, registered, listed, bootList, unmounting>>
  BY DEF MountPartition
<1>2. DOMAIN mounting = MountThreads /\ mounting = [u \in MountThreads |-> mounting[u]]
      /\ \A u \in MountThreads : mounting[u] = NotMounting \/ IsMounting(mounting[u])
  BY DEF UsbInv, UsbTypes
<1>3. NotMounting.pc = "idle"
  BY DEF NotMounting
<1>4. m # NotMounting /\ IsMounting(m)
  BY <1>1, <1>2, <1>3
<1>5. PICK mounted \in BOOLEAN :
         /\ Continue(t, mounted)
         /\ RecordsInv'
         /\ \A c \in Devices : OnRecord(c) => OnRecord(c)'
         /\ mounted => OnRecord(m.dev)'
  <2>1. CASE /\ Makes(m.path)
             /\ mounts' = mounts \cup {mount}
             /\ usbStorageMountInfo' = [usbStorageMountInfo EXCEPT ![m.dev] = Append(@, mount)]
             /\ Continue(t, TRUE)
    <3>1. m.dev \in Devices
      BY <1>4 DEF IsMounting
    <3>2. \A n \in mounts : n.path # mount.path
      BY <2>1 DEF Makes, Taken
    <3>3. RecordsInv' /\ \A c \in Devices : OnRecord(c) \/ c = m.dev => OnRecord(c)'
      BY <1>1, <2>1, <3>1, <3>2, RecordAdded DEF UsbInv
    <3> QED BY <2>1, <3>1, <3>3
  <2>2. CASE Continue(t, FALSE) /\ UNCHANGED <<mounts, usbStorageMountInfo>>
    BY <1>1, <2>2, RecordsFrame DEF UsbInv, OnRecord
  <2> QED BY <1>1, <2>1, <2>2
<1> DEFINE success == m.success \/ mounted
           last == m.part = PartitionCount
<1>6. /\ mounting' = [mounting EXCEPT ![t] =
              IF last THEN NotMounting
              ELSE [m EXCEPT !.pc = "find", !.part = @ + 1, !.path = 0, !.success = success]]
      /\ failed' = IF last /\ ~success THEN failed \cup {m.dev} ELSE failed
  BY <1>5 DEF Continue
<1>7. /\ DOMAIN mounting' = MountThreads /\ mounting' = [u \in MountThreads |-> mounting'[u]]
      /\ mounting'[t] = IF last THEN NotMounting
                        ELSE [m EXCEPT !.pc = "find", !.part = @ + 1, !.path = 0, !.success = success]
      /\ \A u \in MountThreads : u # t => mounting'[u] = mounting[u]
  BY <1>2, <1>6
<1>8. ~last => IsMounting(mounting'[t]) /\ mounting'[t] # NotMounting
               /\ mounting'[t].dev = m.dev /\ mounting'[t].success = success
  <2> SUFFICES ASSUME ~last PROVE IsMounting(mounting'[t]) /\ mounting'[t] # NotMounting
               /\ mounting'[t].dev = m.dev /\ mounting'[t].success = success
    OBVIOUS
  <2>1. PICK y, z : y = m.part + 1 /\ z = success
    OBVIOUS
  <2>2. z \in BOOLEAN
    BY <1>4, <2>1 DEF IsMounting
  <2>3. mounting'[t] = ToFind(m, y, z)
    BY <1>7, <2>1 DEF ToFind
  <2>4. IsMounting(ToFind(m, y, z)) /\ ToFind(m, y, z) # NotMounting
        /\ ToFind(m, y, z).dev = m.dev /\ ToFind(m, y, z).success = z
    BY <1>4, <2>2, FindEdits
  <2> QED BY <2>1, <2>3, <2>4
<1> HIDE DEF success, last
<1>9. UsbTypes'
  BY <1>1, <1>2, <1>7, <1>8 DEF UsbInv, UsbTypes
<1>10. ASSUME NEW c \in Devices PROVE EventsTell(c)' /\ Attended(c)'
  <2>1. EventsTell(c) /\ Attended(c) /\ (c \in failed => c \in failed')
    BY <1>6 DEF UsbInv
  <2>2. EventsTell(c)'
    BY <1>1, <2>1 DEF EventsTell, Unmounting
  <2>3. ASSUME NEW u \in MountThreads, Mounts(u, c), c \notin failed' PROVE Mounts(u, c)' \/ OnRecord(c)'
    <3>1. CASE u # t
      BY <1>5, <1>7, <2>3, <3>1 DEF Mounts
    <3>2. CASE u = t
      <4>1. c = m.dev /\ (m.success => OnRecord(c))
        BY <2>3, <3>2 DEF Mounts
      <4>2. success => OnRecord(c)'
        BY <1>5, <4>1 DEF success
      <4>3. CASE last
        BY <1>6, <2>3, <4>1, <4>2, <4>3
      <4>4. CASE ~last
        BY <1>8, <3>2, <4>1, <4>2, <4>4 DEF Mounts
      <4> QED BY <4>3, <4>4
    <3> QED BY <3>1, <3>2
  <2>4. "job" \in MountThreads /\ "boot" \in MountThreads
    BY DEF MountThreads
  <2>5. Attended(c)'
    BY <1>1, <1>5, <2>1, <2>3, <2>4 DEF Attended
  <2> QED BY <2>2, <2>5
<1> QED BY <1>5, <1>9, <1>10 DEF UsbInv

\* A job that unmounts is not the last about its device, if that is plugged
\* in.
LEMMA UnmountBegins ==
    ASSUME UsbInv, NEW k \in Nat, NEW d \in Devices, DispatchUnMountEvent(k, d)
    PROVE  UsbInv'
<1>1. /\ k \in DOMAIN storageJobs /\ storageJobs' = LeftJobs(storageJobs, k)
      /\ storageJobs[k].kind = "out" /\ storageJobs[k].dev = d
      /\ failed' = failed \cup OutOfOrder(storageJobs, k)
      /\ unmounting = NotMounting
      /\ unmounting' \in {NotMounting, Unmount("unmount", d, 1, FALSE)}
      /\ UNCHANGED <<attached, usbJobs, registered, listed, bootList, usbStorageMountInfo, mounts, mounting>>
  BY DEF DispatchUnMountEvent, NextJob
<1>2. Unmount("unmount", d, 1, FALSE) \in Unmounts /\ Unmount("unmount", d, 1, FALSE).dev = d
      /\ Unmount("unmount", d, 1, FALSE).success = FALSE
  BY DEF Unmount, Unmounts
<1>3. \A c : /\ storageJobs' \in Seq(UsbJobType)
             /\ OfDevice(storageJobs, c) <=> OfDevice(storageJobs', c) \/ d = c
             /\ c \notin failed' =>
                   /\ c \notin failed
                   /\ EndsIn(storageJobs, c) => EndsIn(storageJobs', c)
                   /\ EndsIn(storageJobs, c) /\ d = c => OfDevice(storageJobs', c)
  <2>1. storageJobs \in Seq(UsbJobType)
    BY DEF UsbInv, UsbTypes
  <2> QED BY <1>1, <2>1, JobTaken
<1>4. RecordsInv'
  <2>1. \A c \in Devices : Kept(c) = DOMAIN usbStorageMountInfo[c] /\ Kept(c)' = DOMAIN usbStorageMountInfo'[c]
    BY <1>1, <1>2 DEF Kept, Passed
  <2>2. \A c \in Devices : \A j \in Kept(c)' : usbStorageMountInfo[c][j] \in mounts'
    BY <1>1, <2>1 DEF UsbInv, RecordsInv
  <2> QED BY <1>1, <2>1, <2>2, RecordsKept DEF UsbInv
<1>5. UsbTypes'
  <2>1. registered \/ storageJobs = <<>>
    BY DEF UsbInv, UsbTypes
  <2>2. registered
    BY <1>1, <2>1
  <2> QED BY <1>1, <1>2, <1>3, <2>2 DEF UsbInv, UsbTypes
<1>6. ASSUME NEW c \in Devices PROVE EventsTell(c)' /\ Attended(c)'
  <2>1. EventsTell(c) /\ Attended(c)
    BY DEF UsbInv
  <2>2. Unmounting(c)' => c = d
    BY <1>1, <1>2 DEF Unmounting
  <2>3. EventsTell(c)'
    BY <1>1, <1>3, <2>1, <2>2 DEF EventsTell
  <2>4. CASE c = d
    <3> SUFFICES ASSUME c \in attached, c \notin failed' PROVE OfDevice(usbJobs, c) \/ OfDevice(storageJobs', c)
      BY <1>1, <2>3 DEF Attended
    <3>1. c \notin failed
      BY <1>3
    <3>2. OfDevice(usbJobs, c) \/ EndsIn(storageJobs, c)
      BY <2>1, <3>1 DEF EventsTell
    <3> QED BY <1>3, <2>4, <3>2
  <2>5. CASE c # d
    BY <1>1, <1>3, <2>1, <2>3, <2>5 DEF Attended, Mounts, OnRecord
  <2> QED BY <2>3, <2>4, <2>5
<1> QED BY <1>4, <1>5, <1>6 DEF UsbInv

\* One partition of a device, or the end of the loop.
LEMMA UnmountKeeps ==
    ASSUME UsbInv, UnmountPartition \/ UnmountTold
    PROVE  UsbInv'
<1> PICK m : m = unmounting
  OBVIOUS
<1>1. /\ m.pc = "unmount"
      /\ UNCHANGED <<attached, usbJobs, storageJobs, registered, listed, bootList, mounting, failed,
                     usbStorageMountInfo>>
  BY DEF UnmountPartition, UnmountTold, unchangedByUnmount
<1>2. NotMounting.pc = "idle"
  BY DEF NotMounting
<1>3. m \in Unmounts /\ m # NotMounting
  BY <1>1, <1>2 DEF UsbInv, UsbTypes
<1>4. m.dev \in Devices /\ m.part \in Nat \ {0} /\ m.success \in BOOLEAN /\ m.part + 1 \in Nat \ {0}
  BY <1>3 DEF Unmounts
<1>5. \A c \in Devices : DOMAIN usbStorageMountInfo[c] \subseteq Nat
  <2> PICK S : usbStorageMountInfo \in [Devices -> Seq(S)]
    BY DEF UsbInv, RecordsInv
  <2> SUFFICES ASSUME NEW c \in Devices PROVE DOMAIN usbStorageMountInfo[c] \subseteq Nat
    OBVIOUS
  <2>1. usbStorageMountInfo[c] \in Seq(S)
    OBVIOUS
  <2> QED BY <2>1
<1>6. /\ unmounting' = NotMounting \/ (unmounting' \in Unmounts /\ unmounting'.dev = m.dev)
      /\ RecordsInv'
  <2>1. CASE UnmountPartition
    <3>1. m.part \in DOMAIN usbStorageMountInfo[m.dev]
      BY <2>1 DEF UnmountPartition
    <3>2. CASE /\ mounts' = mounts \ {usbStorageMountInfo[m.dev][m.part]}
               /\ unmounting' = Unmount("unmount", m.dev, m.part + 1, TRUE)
      <4>1. /\ unmounting' \in Unmounts /\ unmounting'.dev = m.dev /\ unmounting' # NotMounting
            /\ unmounting'.part = m.part + 1 /\ unmounting'.success = TRUE
        <5>1. \A n \in Nat \ {0} : LET u == Unmount("unmount", m.dev, n, TRUE)
                                   IN  u \in Unmounts /\ u.dev = m.dev /\ u # NotMounting /\ u.part = n /\ u.success
          BY <1>2, <1>4 DEF Unmount, Unmounts
        <5> QED BY <1>4, <3>2, <5>1
      <4>2. ASSUME NEW c \in Devices, NEW k \in Kept(c)'
            PROVE  k \in Kept(c) /\ usbStorageMountInfo[c][k] \in mounts'
        <5>1. k \in DOMAIN usbStorageMountInfo[c] /\ k \in Nat /\ (c = m.dev => ~(k < m.part + 1))
          BY <1>1, <1>5, <4>1 DEF Kept, Passed
        <5>2. k \in Kept(c) /\ (c = m.dev => k # m.part)
          BY <1>4, <5>1 DEF Kept, Passed
        <5>3. m.part \in Kept(m.dev)
          BY <1>4, <3>1 DEF Kept, Passed
        <5> QED BY <1>4, <3>2, <5>2, <5>3 DEF UsbInv, RecordsInv
      <4> QED BY <1>1, <3>2, <4>1, <4>2, RecordsKept DEF UsbInv
    <3>3. CASE mounts' = mounts /\ unmounting' = Unmount("unmount", m.dev, m.part + 1, m.success)
      <4>1. /\ unmounting' \in Unmounts /\ unmounting'.dev = m.dev /\ unmounting' # NotMounting
            /\ unmounting'.part = m.part + 1 /\ unmounting'.success = m.success
        BY <1>2, <1>4, <3>3 DEF Unmount, Unmounts
      <4>2. ASSUME NEW c \in Devices, NEW k \in Kept(c)'
            PROVE  k \in Kept(c) /\ usbStorageMountInfo[c][k] \in mounts'
        <5>1. k \in DOMAIN usbStorageMountInfo[c] /\ k \in Nat
              /\ (c = m.dev /\ m.success => ~(k < m.part + 1))
          BY <1>1, <1>5, <4>1 DEF Kept, Passed
        <5>2. k \in Kept(c)
          BY <1>4, <5>1 DEF Kept, Passed
        <5> QED BY <3>3, <5>2 DEF UsbInv, RecordsInv
      <4> QED BY <1>1, <3>3, <4>1, <4>2, RecordsKept DEF UsbInv
    <3> QED BY <2>1, <3>2, <3>3 DEF UnmountPartition
  <2>2. CASE UnmountTold
    <3>1. /\ unmounting' = IF m.success THEN Unmount("erase", m.dev, m.part, TRUE) ELSE NotMounting
          /\ mounts' = mounts
      BY <2>2 DEF UnmountTold
    <3>2. m.success => /\ unmounting' \in Unmounts /\ unmounting'.dev = m.dev /\ unmounting' # NotMounting
                       /\ unmounting'.part = m.part /\ unmounting'.success = TRUE
      BY <1>2, <1>4, <3>1 DEF Unmount, Unmounts
    <3>3. \A c \in Devices : Kept(c)' = Kept(c)
      <4>1. CASE m.success
        BY <1>1, <1>3, <3>2, <4>1 DEF Kept, Passed
      <4>2. CASE ~m.success
        BY <1>1, <3>1, <4>2 DEF Kept, Passed
      <4> QED BY <4>1, <4>2
    <3>4. \A c \in Devices : \A k \in Kept(c)' : usbStorageMountInfo[c][k] \in mounts'
      BY <3>1, <3>3 DEF UsbInv, RecordsInv
    <3>5. RecordsInv'
      BY <1>1, <3>1, <3>3, <3>4, RecordsKept DEF UsbInv
    <3> QED BY <3>1, <3>2, <3>5
  <2> QED BY <2>1, <2>2
<1>7. UsbTypes'
  BY <1>1, <1>3, <1>6 DEF UsbInv, UsbTypes
<1>8. ASSUME NEW c \in Devices PROVE EventsTell(c)' /\ Attended(c)'
  <2>1. EventsTell(c) /\ Attended(c)
    BY DEF UsbInv
  <2>2. Unmounting(c)' => Unmounting(c)
    BY <1>3, <1>6 DEF Unmounting
  <2> QED BY <1>1, <2>1, <2>2 DEF EventsTell, Attended, Mounts, OnRecord
<1> QED BY <1>6, <1>7, <1>8 DEF UsbInv

\* More is to come of a device whose records go, if it is plugged in.
LEMMA EraseKeeps ==
    ASSUME UsbInv, EraseRecords
    PROVE  UsbInv'
<1> PICK d : d = unmounting.dev
  OBVIOUS
<1> DEFINE info == usbStorageMountInfo
<1>1. /\ unmounting.pc = "erase" /\ unmounting' = NotMounting
      /\ info' = [info EXCEPT ![d] = <<>>]
      /\ UNCHANGED <<attached, usbJobs, storageJobs, registered, listed, bootList, mounting, failed, mounts>>
  BY DEF EraseRecords, unchangedByUnmount
<1>2. NotMounting.pc = "idle"
  BY DEF NotMounting
<1>3. unmounting # NotMounting /\ d \in Devices
  BY <1>1, <1>2 DEF UsbInv, UsbTypes, Unmounts
<1> PICK S : info \in [Devices -> Seq(S)]
  BY DEF UsbInv, RecordsInv
<1>4. info'[d] = <<>> /\ (\A c \in Devices : c # d => info'[c] = info[c]) /\ DOMAIN info' = Devices
  BY <1>1, <1>3
<1>5. RecordsInv'
  <2>1. info' \in [Devices -> Seq(S)]
    <3>1. <<>> \in Seq(S)
      OBVIOUS
    <3> QED BY <1>1, <3>1
  <2>2. ASSUME NEW c \in Devices, NEW k \in Kept(c)'
        PROVE  c # d /\ k \in Kept(c) /\ info'[c][k] = info[c][k]
    <3>1. k \in DOMAIN info'[c]
      BY <2>2 DEF Kept
    <3>2. c # d
      BY <1>4, <3>1
    <3>3. k \in Kept(c)
      BY <1>4, <3>1, <3>2 DEF Kept, Passed
    <3> QED BY <1>4, <3>2, <3>3
  <2>3. ASSUME NEW c \in Devices, NEW e \in Devices, NEW j \in Kept(c)', NEW k \in Kept(e)'
        PROVE  info'[c][j] \in mounts' /\ (info'[c][j] = info'[e][k] => c = e /\ j = k)
    <3>1. j \in Kept(c) /\ info'[c][j] = info[c][j] /\ k \in Kept(e) /\ info'[e][k] = info[e][k]
      BY <2>2, <2>3
    <3> QED BY <1>1, <3>1 DEF UsbInv, RecordsInv
  <2>4. \A m, n \in mounts' : m.path = n.path => m = n
    BY <1>1 DEF UsbInv, RecordsInv
  <2>5. \E T : usbStorageMountInfo' \in [Devices -> Seq(T)]
    BY <2>1
  <2> QED BY <2>3, <2>4, <2>5 DEF RecordsInv
<1>6. UsbTypes'
  BY <1>1 DEF UsbInv, UsbTypes
<1>7. ASSUME NEW c \in Devices PROVE EventsTell(c)' /\ Attended(c)'
  <2>1. EventsTell(c) /\ Attended(c)
    BY DEF UsbInv
  <2>2. EventsTell(c)'
    BY <1>1, <2>1 DEF EventsTell, Unmounting
  <2>3. CASE c = d
    <3>1. Unmounting(c)
      BY <1>3, <2>3 DEF Unmounting
    <3> QED BY <1>1, <2>1, <2>2, <3>1 DEF EventsTell, Attended
  <2>4. CASE c # d
    <3>1. info'[c] = info[c]
      BY <1>4, <2>4
    <3> QED BY <1>1, <2>1, <2>2, <3>1 DEF Attended, Mounts, OnRecord
  <2> QED BY <2>2, <2>3, <2>4
<1> QED BY <1>5, <1>6, <1>7 DEF UsbInv

\* What is on record is mounted, in one place each, until an unmount passes
\* it; and when nothing is left to do, every device that is plugged in is
\* mounted, unless mounting it failed or news of it came in the wrong order.
THEOREM MountsAlwaysMatch == UsbSpec => []MountsMatchDevices
<1>1. UsbInit => UsbInv
  <2> SUFFICES ASSUME UsbInit PROVE UsbInv
    OBVIOUS
  <2>1. usbJobs = <<>> /\ storageJobs = <<>> /\ bootList = <<>> /\ mounts = {} /\ listed = FALSE
        /\ registered = FALSE /\ attached \subseteq Devices /\ unmounting = NotMounting
    BY DEF UsbInit
  <2>2. (\E S : usbStorageMountInfo \in [Devices -> Seq(S)]) /\ \A d \in Devices : usbStorageMountInfo[d] = <<>>
    <3>1. usbStorageMountInfo \in [Devices -> Seq({})]
      BY DEF UsbInit
    <3> QED BY <3>1 DEF UsbInit
  <2>3. UsbTypes
    <3>1. usbJobs \in Seq(UsbJobType) /\ storageJobs \in Seq(UsbJobType) /\ bootList \in Seq(Devices)
      BY <2>1
    <3>2. DOMAIN mounting = MountThreads /\ mounting = [t \in MountThreads |-> mounting[t]]
          /\ \A t \in MountThreads : mounting[t] = NotMounting
      BY DEF UsbInit
    <3> QED BY <2>1, <3>1, <3>2 DEF UsbTypes
  <2>4. RecordsInv
    BY <2>1, <2>2 DEF RecordsInv, Kept
  <2> QED BY <2>1, <2>3, <2>4 DEF UsbInv, EventsTell, Unmounting, Attended, EndsIn
<1>2. UsbInv /\ [UsbNext]_usbVars => UsbInv'
  <2> SUFFICES ASSUME UsbInv, [UsbNext]_usbVars PROVE UsbInv'
    OBVIOUS
  <2>1. CASE UNCHANGED usbVars
    <3>1. UsbTypes' /\ RecordsInv'
      BY <2>1, RecordsFrame DEF usbVars, UsbInv, UsbTypes
    <3> QED BY <2>1, <3>1 DEF usbVars, UsbInv, EventsTell, Unmounting, Attended, Mounts, OnRecord
  <2>2. 1..UsbPoolThreads \subseteq Nat
    BY UsbAssumption
  <2> QED BY <2>1, <2>2, PlugKeeps, UsbDispatchKeeps, StartKeeps, MountOnBootUpKeeps, MountJobKeeps,
             UnmountBegins, UnmountKeeps, EraseKeeps, ClientKeeps, FindKeeps, MountPartitionKeeps DEF UsbNext
<1>3. UsbInv => MountsMatchDevices
  <2> SUFFICES ASSUME UsbInv PROVE MountsMatchDevices
    OBVIOUS
  <2>1. ASSUME NEW d \in Devices, NEW e \in Devices, NEW j \in Kept(d), NEW k \in Kept(e)
        PROVE  /\ usbStorageMountInfo[d][j] \in mounts
               /\ usbStorageMountInfo[d][j].path = usbStorageMountInfo[e][k].path => d = e /\ j = k
    <3>1. usbStorageMountInfo[d][j] \in mounts /\ usbStorageMountInfo[e][k] \in mounts
      BY <2>1 DEF UsbInv, RecordsInv
    <3> QED BY <2>1, <3>1 DEF UsbInv, RecordsInv
  <2>2. ASSUME listed, bootList = <<>>, usbJobs = <<>>, storageJobs = <<>>,
               \A t \in MountThreads : mounting[t] = NotMounting, NEW d \in attached
        PROVE  usbStorageMountInfo[d] # <<>> \/ d \in failed
    <3>1. d \in Devices
      BY DEF UsbInv, UsbTypes
    <3>2. ~OfDevice(usbJobs, d) /\ ~OfDevice(storageJobs, d) /\ ~(\E k \in DOMAIN bootList : bootList[k] = d)
      BY <2>2 DEF OfDevice
    <3>3. ~Mounts("job", d) /\ ~Mounts("boot", d)
      BY <2>2 DEF Mounts, MountThreads
    <3> QED BY <2>2, <3>1, <3>2, <3>3 DEF UsbInv, Attended, OnRecord
  <2> QED BY <2>1, <2>2 DEF MountsMatchDevices
<1> QED BY <1>1, <1>2, <1>3, PTL DEF UsbSpec

(***************************************************************************)
(* Analytics.  An event is in one of four places, in the order in which it *)
(* goes through them, or thrown away; one that waits for the time has no   *)
(* timestamp, and none waits once the thread knows the time.               *)
(***************************************************************************)
Accepted == [id : Nat, stamped : BOOLEAN]
Actions  == {Idle, Shutdown, Ended, [type |-> "populate"]} \cup [type : {"send"}, payload : Accepted]

Before(e, f)  == e.stamped = f.stamped => e.id < f.id
Among(q, e)   == \E k \in DOMAIN q : q[k] = e
Carries(a, e) == a.type = "send" /\ a.payload = e
Queued(q, e)  == \E k \in DOMAIN q : Carries(q[k], e)
Past(e)       == Among(sent, e) \/ Among(mEventQueue, e)
Lost(e)       == e \in lost
InLine(e)     == \E k \in Sends : Line[k].payload = e

Ordered(q)        == \A j, k \in DOMAIN q : j < k => Before(q[j], q[k])
OrderedActions(q) == \A j, k \in DOMAIN q : \A e, f \in Accepted :
                        j < k /\ Carries(q[j], e) /\ Carries(q[k], f) => Before(e, f)

AnalyticsTypes ==
    /\ accepted \in Seq(Accepted) /\ sent \in Seq(Accepted) /\ mEventQueue \in Seq(Accepted)
    /\ mActionQueue \in Seq(Actions) /\ action \in Actions
    /\ lost \subseteq Accepted

FlowInv ==
    /\ \A k \in DOMAIN accepted : accepted[k].id = k
    /\ \A e \in Accepted :
          Past(e) \/ Carries(action, e) \/ Queued(mActionQueue, e) \/ Lost(e) <=> Among(accepted, e)
    /\ \A e \in Accepted : Lost(e) => ~Past(e) /\ ~Carries(action, e) /\ ~Queued(mActionQueue, e)
    /\ \A e \in Accepted : Lost(e) => ~mBackends \/ (action = Ended /\ ~mSysTimeValid /\ ~e.stamped)
    /\ Ordered(sent) /\ Ordered(mEventQueue) /\ OrderedActions(mActionQueue)
    /\ \A e, f \in Accepted :
          /\ Among(sent, e) /\ Among(mEventQueue, f) => Before(e, f)
          /\ Past(e) /\ Carries(action, f) => Before(e, f)
          /\ (Past(e) \/ Carries(action, e)) /\ Queued(mActionQueue, f) => Before(e, f)
    /\ mSysTimeValid => mEventQueue = <<>>
    /\ \A e \in Accepted : Among(mEventQueue, e) => ~e.stamped

AnalyticsInv == AnalyticsTypes /\ FlowInv

LEMMA AmongAppended ==
    ASSUME NEW q \in Seq(Accepted), NEW e \in Accepted
    PROVE  /\ Append(q, e) \in Seq(Accepted)
           /\ \A f : Among(Append(q, e), f) <=> Among(q, f) \/ f = e
           /\ Ordered(q) /\ (\A f \in Accepted : Among(q, f) => Before(f, e)) => Ordered(Append(q, e))
<1> PICK p : p = Append(q, e)
  OBVIOUS
<1>1. /\ p \in Seq(Accepted) /\ Len(q) \in Nat
      /\ \A k \in DOMAIN q : k \in Nat /\ k < Len(q) + 1 /\ k \in DOMAIN p /\ p[k] = q[k] /\ q[k] \in Accepted
      /\ Len(q) + 1 \in DOMAIN p /\ p[Len(q) + 1] = e
      /\ \A k \in DOMAIN p : k \in Nat /\ (k \in DOMAIN q \/ k = Len(q) + 1)
  OBVIOUS
<1>2. \A f : Among(p, f) <=> Among(q, f) \/ f = e
  BY <1>1 DEF Among
<1>3. ASSUME Ordered(q), \A f \in Accepted : Among(q, f) => Before(f, e), NEW j \in DOMAIN p, NEW k \in DOMAIN p, j < k
      PROVE  Before(p[j], p[k])
  <2>1. j \in DOMAIN q
    BY <1>1, <1>3
  <2>2. CASE k \in DOMAIN q
    BY <1>1, <1>3, <2>1, <2>2 DEF Ordered
  <2>3. CASE k = Len(q) + 1
    BY <1>1, <1>3, <2>1, <2>3 DEF Among
  <2> QED BY <1>1, <2>2, <2>3
<1> QED BY <1>1, <1>2, <1>3 DEF Ordered

LEMMA AmongJoined ==
    ASSUME NEW p \in Seq(Accepted), NEW q \in Seq(Accepted)
    PROVE  /\ p \o q \in Seq(Accepted)
           /\ \A f : Among(p \o q, f) <=> Among(p, f) \/ Among(q, f)
           /\ Ordered(p) /\ Ordered(q) /\ (\A e, f \in Accepted : Among(p, e) /\ Among(q, f) => Before(e, f))
                 => Ordered(p \o q)
<1> PICK r, m, n : r = p \o q /\ m = Len(p) /\ n = Len(q)
  OBVIOUS
<1>1. /\ r \in Seq(Accepted) /\ m \in Nat /\ n \in Nat
      /\ \A k \in DOMAIN p : k \in Nat /\ k <= m /\ k \in DOMAIN r /\ r[k] = p[k] /\ p[k] \in Accepted
      /\ \A k \in DOMAIN q : k \in Nat /\ k > 0 /\ k + m \in DOMAIN r /\ r[k + m] = q[k] /\ q[k] \in Accepted
      /\ \A k \in DOMAIN r : k \in Nat /\ (k \in DOMAIN p \/ (k > m /\ k - m \in DOMAIN q /\ r[k] = q[k - m]))
  OBVIOUS
<1>2. \A f : Among(r, f) <=> Among(p, f) \/ Among(q, f)
  BY <1>1 DEF Among
<1>3. ASSUME Ordered(p), Ordered(q), \A e, f \in Accepted : Among(p, e) /\ Among(q, f) => Before(e, f),
             NEW j \in DOMAIN r, NEW k \in DOMAIN r, j < k
      PROVE  Before(r[j], r[k])
  <2>1. CASE j \in DOMAIN p /\ k \in DOMAIN p
    BY <1>1, <1>3, <2>1 DEF Ordered
  <2>2. CASE j \in DOMAIN p /\ k \notin DOMAIN p
    <3>1. k - m \in DOMAIN q /\ r[k] = q[k - m] /\ r[j] = p[j]
      BY <1>1, <2>2
    <3> QED BY <1>1, <1>3, <2>2, <3>1 DEF Among
  <2>3. CASE j \notin DOMAIN p /\ k \notin DOMAIN p
    <3>1. /\ k - m \in DOMAIN q /\ r[k] = q[k - m] /\ j - m \in DOMAIN q /\ r[j] = q[j - m]
          /\ j - m < k - m
      BY <1>1, <1>3, <2>3
    <3> QED BY <1>3, <3>1 DEF Ordered
  <2>4. CASE j \notin DOMAIN p /\ k \in DOMAIN p
    BY <1>1, <1>3, <2>4
  <2> QED BY <2>1, <2>2, <2>3, <2>4
<1> QED BY <1>1, <1>2, <1>3 DEF Ordered

LEMMA ActionAppended ==
    ASSUME NEW q \in Seq(Actions), NEW a \in Actions
    PROVE  /\ Append(q, a) \in Seq(Actions)
           /\ \A f : Queued(Append(q, a), f) <=> Queued(q, f) \/ Carries(a, f)
           /\ OrderedActions(q) /\ (\A e, f \in Accepted : Queued(q, e) /\ Carries(a, f) => Before(e, f))
                 => OrderedActions(Append(q, a))
<1> PICK p : p = Append(q, a)
  OBVIOUS
<1>1. /\ p \in Seq(Actions) /\ Len(q) \in Nat
      /\ \A k \in DOMAIN q : k \in Nat /\ k < Len(q) + 1 /\ k \in DOMAIN p /\ p[k] = q[k]
      /\ Len(q) + 1 \in DOMAIN p /\ p[Len(q) + 1] = a
      /\ \A k \in DOMAIN p : k \in Nat /\ (k \in DOMAIN q \/ k = Len(q) + 1)
  OBVIOUS
<1>2. \A f : Queued(p, f) <=> Queued(q, f) \/ Carries(a, f)
  BY <1>1 DEF Queued
<1>3. ASSUME OrderedActions(q), \A e, f \in Accepted : Queued(q, e) /\ Carries(a, f) => Before(e, f),
             NEW j \in DOMAIN p, NEW k \in DOMAIN p, NEW e \in Accepted, NEW f \in Accepted, j < k,
             Carries(p[j], e), Carries(p[k], f)
      PROVE  Before(e, f)
  <2>1. j \in DOMAIN q
    BY <1>1, <1>3
  <2>2. CASE k \in DOMAIN q
    BY <1>1, <1>3, <2>1, <2>2 DEF OrderedActions
  <2>3. CASE k = Len(q) + 1
    BY <1>1, <1>3, <2>1, <2>3 DEF Queued
  <2> QED BY <1>1, <2>2, <2>3
<1> QED BY <1>1, <1>2, <1>3 DEF OrderedActions

LEMMA ActionTaken ==
    ASSUME NEW q \in Seq(Actions), q # <<>>
    PROVE  /\ Tail(q) \in Seq(Actions) /\ Head(q) \in Actions
           /\ \A f : Queued(q, f) <=> Queued(Tail(q), f) \/ Carries(Head(q), f)
           /\ OrderedActions(q) => /\ OrderedActions(Tail(q))
                                   /\ \A e, f \in Accepted : Carries(Head(q), e) /\ Queued(Tail(q), f) => Before(e, f)
<1> PICK p, a : p = Tail(q) /\ a = Head(q)
  OBVIOUS
<1>1. /\ p \in Seq(Actions) /\ a \in Actions /\ 1 \in DOMAIN q /\ q[1] = a
      /\ \A k \in DOMAIN p : k \in Nat /\ k > 0 /\ k + 1 \in DOMAIN q /\ p[k] = q[k + 1]
      /\ \A k \in DOMAIN q : k \in Nat /\ (k = 1 \/ (k - 1 \in DOMAIN p /\ p[k - 1] = q[k]))
  OBVIOUS
<1>2. \A f : Queued(q, f) <=> Queued(p, f) \/ Carries(a, f)
  BY <1>1 DEF Queued
<1>3. ASSUME OrderedActions(q), NEW j \in DOMAIN p, NEW k \in DOMAIN p, NEW e \in Accepted, NEW f \in Accepted, j < k,
             Carries(p[j], e), Carries(p[k], f)
      PROVE  Before(e, f)
  <2>1. j + 1 \in DOMAIN q /\ k + 1 \in DOMAIN q /\ j + 1 < k + 1 /\ q[j + 1] = p[j] /\ q[k + 1] = p[k]
    BY <1>1, <1>3
  <2> QED BY <1>3, <2>1 DEF OrderedActions
<1>4. ASSUME OrderedActions(q), NEW k \in DOMAIN p, NEW e \in Accepted, NEW f \in Accepted, Carries(a, e), Carries(p[k], f)
      PROVE  Before(e, f)
  <2>1. k + 1 \in DOMAIN q /\ 1 < k + 1 /\ q[k + 1] = p[k]
    BY <1>1
  <2> QED BY <1>1, <1>4, <2>1 DEF OrderedActions
<1> QED BY <1>1, <1>2, <1>3, <1>4 DEF OrderedActions, Queued

LEMMA AnalyticsStep ==
    ASSUME AnalyticsInv, [AnalyticsNext]_analyticsVars
    PROVE  AnalyticsInv'
<1> USE DEF AnalyticsInv
<1>1. /\ Idle \in Actions /\ Shutdown \in Actions /\ Ended \in Actions /\ [type |-> "populate"] \in Actions
      /\ \A e : /\ ~Carries(Idle, e) /\ ~Carries(Shutdown, e) /\ ~Carries(Ended, e)
               /\ ~Carries([type |-> "populate"], e)
      /\ Idle # Ended /\ Shutdown # Ended /\ [type |-> "populate"] # Ended /\ Ended.type \notin {"populate", "send"}
      /\ \A e \in Accepted : /\ SendEventAction(e) \in Actions
                             /\ \A f : Carries(SendEventAction(e), f) <=> f = e
  BY DEF Idle, Shutdown, Ended, Actions, Carries, SendEventAction
<1>2. ASSUME NEW stamped \in BOOLEAN, SendEvent(stamped) PROVE AnalyticsInv'
  <2> PICK e : e = [id |-> Len(accepted) + 1, stamped |-> stamped]
    OBVIOUS
  <2>1. /\ mActionQueue' = Append(mActionQueue, SendEventAction(e)) /\ accepted' = Append(accepted, e)
        /\ UNCHANGED <<mEventQueue, mSysTimeValid, mBackends, action, sent, lost>>
    BY <1>2 DEF SendEvent
  <2>2. e \in Accepted /\ \A f \in Accepted : Among(accepted, f) => f.id < e.id
    BY DEF Accepted, AnalyticsTypes, FlowInv, Among
  <2>3. /\ accepted' \in Seq(Accepted)
        /\ \A f : Among(accepted', f) <=> Among(accepted, f) \/ f = e
    BY <2>1, <2>2, AmongAppended DEF AnalyticsTypes
  <2>4. \A f \in Accepted : Among(accepted, f) => Before(f, e)
    BY <2>2 DEF Before
  <2>5. /\ mActionQueue' \in Seq(Actions)
        /\ \A f : Queued(mActionQueue', f) <=> Queued(mActionQueue, f) \/ f = e
        /\ OrderedActions(mActionQueue')
    <3>1. \A f, g \in Accepted : Queued(mActionQueue, f) /\ Carries(SendEventAction(e), g) => Before(f, g)
      BY <1>1, <2>2, <2>4 DEF FlowInv
    <3> QED BY <1>1, <2>1, <2>2, <3>1, ActionAppended DEF AnalyticsTypes, FlowInv
  <2>9. ~Past(e) /\ ~Carries(action, e) /\ ~Queued(mActionQueue, e) /\ ~Lost(e)
    BY <2>2 DEF FlowInv, Accepted
  <2>6. \A f \in Accepted : Past(f) \/ Carries(action, f) => Before(f, e)
    BY <2>4 DEF FlowInv
  <2>7. \A k \in DOMAIN accepted' : accepted'[k].id = k
    BY <2>1, <2>2 DEF AnalyticsTypes, FlowInv
  <2>8. AnalyticsTypes'
    BY <2>1, <2>3, <2>5 DEF AnalyticsTypes
  <2> QED BY <2>1, <2>2, <2>3, <2>5, <2>6, <2>7, <2>8, <2>9 DEF FlowInv, Past, Lost
<1>3. CASE PushShutdown
  <2>1. mActionQueue' = Append(mActionQueue, Shutdown) /\ UNCHANGED <<mEventQueue, mSysTimeValid, mBackends, action, sent, lost, accepted>>
    BY <1>3 DEF PushShutdown
  <2>2. /\ mActionQueue' \in Seq(Actions)
        /\ \A f : Queued(mActionQueue', f) <=> Queued(mActionQueue, f)
        /\ OrderedActions(mActionQueue')
    BY <1>1, <2>1, ActionAppended DEF AnalyticsTypes, FlowInv
  <2> QED BY <2>1, <2>2 DEF AnalyticsTypes, FlowInv, Past, Lost
<1>4. CASE TakeAction
  <2>1. /\ action = Idle /\ mActionQueue # <<>> /\ action' = Head(mActionQueue) /\ mActionQueue' = Tail(mActionQueue)
        /\ UNCHANGED <<mEventQueue, mSysTimeValid, mBackends, sent, lost, accepted>>
    BY <1>4 DEF TakeAction
  <2>2. /\ mActionQueue' \in Seq(Actions) /\ action' \in Actions
        /\ \A f : Queued(mActionQueue, f) <=> Queued(mActionQueue', f) \/ Carries(action', f)
        /\ OrderedActions(mActionQueue')
        /\ \A e, f \in Accepted : Carries(action', e) /\ Queued(mActionQueue', f) => Before(e, f)
    BY <2>1, ActionTaken DEF AnalyticsTypes, FlowInv
  <2>3. action # Ended /\ \A f : ~Carries(action, f)
    BY <1>1, <2>1
  <2> QED BY <2>1, <2>2, <2>3 DEF AnalyticsTypes, FlowInv, Past, Lost
<1>5. CASE TakePopulate
  <2>1. /\ action = Idle /\ action' = [type |-> "populate"]
        /\ UNCHANGED <<mActionQueue, mEventQueue, mSysTimeValid, mBackends, sent, lost, accepted>>
    BY <1>5 DEF TakePopulate
  <2>2. action' \in Actions /\ action # Ended /\ \A f : ~Carries(action, f) /\ ~Carries(action', f)
    BY <1>1, <2>1
  <2> QED BY <2>1, <2>2 DEF AnalyticsTypes, FlowInv, Past, Lost
<1>6. CASE PopulateTimeInfo
  <2>1. /\ action.type = "populate" /\ action' = Idle /\ UNCHANGED <<mActionQueue, mBackends, accepted>>
    BY <1>6 DEF PopulateTimeInfo
  <2>2. action' \in Actions /\ action # Ended /\ \A f : ~Carries(action, f) /\ ~Carries(action', f)
    BY <1>1, <2>1 DEF Carries
  <2>3. CASE timeKnown
    <3>1. SendEventToBackend(SubSeq(mEventQueue, 1, Len(mEventQueue))) /\ mEventQueue' = SubSeq(mEventQueue, Len(mEventQueue) + 1, Len(mEventQueue))
      BY <1>6, <2>3 DEF PopulateTimeInfo, AllOfThem
    <3>2. \A q \in Seq(Accepted) : SubSeq(q, 1, Len(q)) = q /\ SubSeq(q, Len(q) + 1, Len(q)) = <<>>
      OBVIOUS
    <3>3. SendEventToBackend(mEventQueue) /\ mEventQueue' = <<>>
      BY <3>1, <3>2 DEF AnalyticsTypes
    <3>4. mEventQueue' \in Seq(Accepted) /\ Ordered(mEventQueue') /\ \A f : ~Among(mEventQueue', f)
      BY <3>3 DEF Among, Ordered
    <3>5. CASE mBackends
      <4>1. sent' = sent \o mEventQueue /\ lost' = lost
        BY <3>3, <3>5 DEF SendEventToBackend
      <4>2. /\ sent' \in Seq(Accepted) /\ Ordered(sent')
            /\ \A f : Among(sent', f) <=> Among(sent, f) \/ Among(mEventQueue, f)
        BY <4>1, AmongJoined DEF AnalyticsTypes, FlowInv
      <4> QED BY <2>1, <2>2, <3>3, <3>4, <4>1, <4>2 DEF AnalyticsTypes, FlowInv, Past, Lost
    <3>6. CASE ~mBackends
      <4>1. sent' = sent /\ (\A f : Lost(f)' <=> Lost(f) \/ Among(mEventQueue, f)) /\ lost' \subseteq Accepted
        BY <3>3, <3>6 DEF SendEventToBackend, Lost, Among, AnalyticsTypes
      <4>2. \A f \in Accepted : Among(mEventQueue, f) => ~Among(sent, f) /\ ~Queued(mActionQueue, f)
        BY DEF FlowInv, Before, Accepted, Past
      <4> QED BY <2>1, <2>2, <3>3, <3>4, <3>6, <4>1, <4>2 DEF AnalyticsTypes, FlowInv, Past
    <3> QED BY <3>5, <3>6
  <2>4. CASE ~timeKnown
    <3>1. UNCHANGED <<sent, lost, mEventQueue>> /\ mSysTimeValid' = timeKnown
      BY <1>6, <2>4 DEF PopulateTimeInfo
    <3> QED BY <2>1, <2>2, <2>4, <3>1 DEF AnalyticsTypes, FlowInv, Past, Lost
  <2> QED BY <2>3, <2>4
<1>7. CASE CarryOutSend
  <2> PICK e : e = action.payload
    OBVIOUS
  <2>1. action.type = "send" /\ action' = Idle /\ UNCHANGED <<mActionQueue, mSysTimeValid, mBackends, accepted>>
    BY <1>7 DEF CarryOutSend
  <2>2. e \in Accepted
    BY <2>1 DEF AnalyticsTypes, Actions, Idle, Shutdown, Ended
  <2>3. /\ action' \in Actions /\ action # Ended
        /\ (\A f : ~Carries(action', f)) /\ \A f : Carries(action, f) <=> f = e
    BY <1>1, <2>1 DEF Carries
  <2>4. CASE mSysTimeValid \/ e.stamped
    <3>1. SendEventToBackend(<<e>>) /\ UNCHANGED mEventQueue
      BY <1>7, <2>4 DEF CarryOutSend
    <3>2. \A f \in Accepted : Among(mEventQueue, f) => Before(e, f)
      BY <2>4 DEF FlowInv, Before, Among
    <3>3. CASE mBackends
      <4>1. sent' = Append(sent, e) /\ lost' = lost
        BY <2>2, <3>1, <3>3 DEF SendEventToBackend, AnalyticsTypes
      <4>2. /\ sent' \in Seq(Accepted) /\ Ordered(sent')
            /\ \A f : Among(sent', f) <=> Among(sent, f) \/ f = e
        BY <2>2, <2>3, <4>1, AmongAppended DEF AnalyticsTypes, FlowInv, Past
      <4> QED BY <2>1, <2>2, <2>3, <3>1, <3>2, <4>1, <4>2 DEF AnalyticsTypes, FlowInv, Past, Lost
    <3>4. CASE ~mBackends
      <4>1. sent' = sent /\ (\A f : Lost(f)' <=> Lost(f) \/ f = e) /\ lost' \subseteq Accepted
        BY <2>2, <3>1, <3>4 DEF SendEventToBackend, Lost, AnalyticsTypes
      <4>2. ~Past(e) /\ ~Queued(mActionQueue, e)
        BY <2>2, <2>3 DEF FlowInv, Before, Accepted
      <4> QED BY <2>1, <2>2, <2>3, <3>1, <3>4, <4>1, <4>2 DEF AnalyticsTypes, FlowInv, Past
    <3> QED BY <3>3, <3>4
  <2>5. CASE ~(mSysTimeValid \/ e.stamped)
    <3>1. mEventQueue' = Append(mEventQueue, e) /\ UNCHANGED <<sent, lost>>
      BY <1>7, <2>5 DEF CarryOutSend
    <3>2. /\ mEventQueue' \in Seq(Accepted) /\ Ordered(mEventQueue')
          /\ \A f : Among(mEventQueue', f) <=> Among(mEventQueue, f) \/ f = e
      BY <2>2, <2>3, <3>1, AmongAppended DEF AnalyticsTypes, FlowInv, Past
    <3> QED BY <2>1, <2>2, <2>3, <2>5, <3>1, <3>2 DEF AnalyticsTypes, FlowInv, Past, Lost
  <2> QED BY <2>4, <2>5
<1>8. CASE ThreadEnds
  <2>1. /\ action = Shutdown /\ action' = Ended /\ mEventQueue' = <<>>
        /\ UNCHANGED <<mActionQueue, mSysTimeValid, mBackends, sent, accepted>>
    BY <1>8 DEF ThreadEnds
  <2>2. (\A f : Lost(f)' <=> Lost(f) \/ Among(mEventQueue, f)) /\ lost' \subseteq Accepted
    BY <1>8 DEF ThreadEnds, Lost, Among, AnalyticsTypes
  <2>3. action' \in Actions /\ action # Ended /\ \A f : ~Carries(action, f) /\ ~Carries(action', f)
    BY <1>1, <2>1
  <2>4. mEventQueue' \in Seq(Accepted) /\ Ordered(mEventQueue') /\ \A f : ~Among(mEventQueue', f)
    BY <2>1 DEF Among, Ordered
  <2>5. \A f \in Accepted : Among(mEventQueue, f) =>
           ~Among(sent, f) /\ ~Queued(mActionQueue, f) /\ ~f.stamped /\ ~mSysTimeValid
    BY DEF FlowInv, Before, Accepted, Past, Among
  <2> QED BY <2>1, <2>2, <2>3, <2>4, <2>5 DEF AnalyticsTypes, FlowInv, Past
<1>9. CASE TimeBecomesKnown \/ UNCHANGED analyticsVars
  <2>1. UNCHANGED <<mActionQueue, mEventQueue, mSysTimeValid, mBackends, action, sent, lost, accepted>>
    BY <1>9 DEF TimeBecomesKnown, analyticsVars
  <2> QED BY <2>1 DEF AnalyticsTypes, FlowInv, Past, Lost
<1> QED BY <1>2, <1>3, <1>4, <1>5, <1>6, <1>7, <1>8, <1>9 DEF AnalyticsNext

\* The order of the places is the order of the line.
LEMMA LineInOrder ==
    ASSUME AnalyticsInv
    PROVE  EventsKeepOrder
<1> USE DEF AnalyticsInv
<1> DEFINE m == Len(sent)
           n == Len(mEventQueue)
           past == sent \o mEventQueue
           head == [k \in DOMAIN past |-> SendEventAction(past[k])]
<1>1. /\ past \in Seq(Accepted) /\ Ordered(past)
      /\ \A f : Among(past, f) <=> Past(f)
  BY AmongJoined DEF AnalyticsTypes, FlowInv, Past
<1> HIDE DEF past
<1>2. Len(past) \in Nat /\ DOMAIN past = 1..Len(past) /\ \A k \in DOMAIN past : past[k] \in Accepted
  BY <1>1
<1>3. \A e \in Accepted : SendEventAction(e) \in Actions /\ SendEventAction(e).type = "send" /\ SendEventAction(e).payload = e
  BY DEF SendEventAction, Actions
<1>4. head \in Seq(Actions) /\ Len(head) = Len(past) /\ \A k \in DOMAIN past : head[k] = SendEventAction(past[k])
  BY <1>2, <1>3
<1> HIDE DEF head
<1>5. Line = (head \o <<action>>) \o mActionQueue
  BY DEF Line, head, past
<1> PICK l : l = Len(past)
  OBVIOUS
<1>6. /\ l \in Nat /\ DOMAIN past = 1..l
      /\ \A k \in DOMAIN Line : k \in Nat /\ (k \in 1..l \/ k = l + 1 \/ (k > l + 1 /\ k - (l + 1) \in DOMAIN mActionQueue))
      /\ \A k \in 1..l : k \in DOMAIN Line /\ Line[k] = SendEventAction(past[k])
      /\ l + 1 \in DOMAIN Line /\ Line[l + 1] = action
      /\ \A k \in DOMAIN mActionQueue : k \in Nat /\ k > 0 /\ k + (l + 1) \in DOMAIN Line /\ Line[k + (l + 1)] = mActionQueue[k]
  <2> PICK h : h = head \o <<action>>
    OBVIOUS
  <2>1. /\ h \in Seq(Actions) /\ Len(h) = l + 1 /\ h[l + 1] = action
        /\ \A k \in 1..l : h[k] = head[k]
    <3>1. action \in Actions /\ l \in Nat /\ head \in Seq(Actions) /\ Len(head) = l
      BY <1>2, <1>4 DEF AnalyticsTypes
    <3>2. h = Append(head, action)
      BY <3>1
    <3> QED BY <3>1, <3>2
  <2>2. Line = h \o mActionQueue /\ mActionQueue \in Seq(Actions) /\ l \in Nat /\ DOMAIN past = 1..l
    BY <1>2, <1>5 DEF AnalyticsTypes
  <2>3. /\ DOMAIN Line = 1..(l + 1 + Len(mActionQueue)) /\ Len(mActionQueue) \in Nat
        /\ \A k \in 1..(l + 1) : Line[k] = h[k]
        /\ \A k \in DOMAIN mActionQueue : k \in 1..Len(mActionQueue) /\ Line[k + (l + 1)] = mActionQueue[k]
        /\ DOMAIN mActionQueue = 1..Len(mActionQueue)
    <3>1. DOMAIN mActionQueue = 1..Len(mActionQueue) /\ Len(mActionQueue) \in Nat
      BY <2>2
    <3>2. Len(Line) = Len(h) + Len(mActionQueue) /\ DOMAIN Line = 1..Len(Line)
      BY <2>1, <2>2
    <3>3. DOMAIN Line = 1..(l + 1 + Len(mActionQueue))
      BY <2>1, <2>2, <3>1, <3>2
    <3>4. \A k \in 1..(l + 1) : Line[k] = h[k]
      BY <2>1, <2>2
    <3>5. \A k \in 1..Len(mActionQueue) : Line[k + (l + 1)] = mActionQueue[k]
      BY <2>1, <2>2
    <3> QED BY <3>1, <3>3, <3>4, <3>5
  <2>4. \A k \in 1..l : k \in DOMAIN Line /\ Line[k] = SendEventAction(past[k])
    <3>1. \A k \in 1..l : k \in 1..(l + 1) /\ k \in DOMAIN Line /\ k \in DOMAIN past
      BY <2>2, <2>3
    <3> QED BY <1>4, <2>1, <2>3, <3>1
  <2>5. \A k \in DOMAIN Line : k \in Nat /\ (k \in 1..l \/ k = l + 1 \/ (k > l + 1 /\ k - (l + 1) \in DOMAIN mActionQueue))
    BY <2>2, <2>3
  <2>6. l + 1 \in DOMAIN Line /\ Line[l + 1] = action
    BY <2>1, <2>2, <2>3
  <2>7. \A k \in DOMAIN mActionQueue : k \in Nat /\ k > 0 /\ k + (l + 1) \in DOMAIN Line
    BY <2>2, <2>3
  <2> QED BY <2>2, <2>3, <2>4, <2>5, <2>6, <2>7
<1>7. \A k \in 1..l : past[k] \in Accepted /\ Line[k].type = "send" /\ Line[k].payload = past[k] /\ Past(past[k])
  BY <1>1, <1>2, <1>3, <1>6 DEF Among
<1>8. \A k \in DOMAIN Line : /\ k \notin 1..l => Line[k] \in Actions
                             /\ Line[k].type = "send" => Line[k].payload \in Accepted
  <2>1. \A a \in Actions : a.type = "send" => a.payload \in Accepted
    BY DEF Actions, Idle, Shutdown, Ended
  <2>2. \A k \in DOMAIN Line : k \notin 1..l => Line[k] \in Actions
    BY <1>6 DEF AnalyticsTypes
  <2> QED BY <1>7, <2>1, <2>2
<1>9. \A e \in Accepted : InLine(e) <=> Past(e) \/ Carries(action, e) \/ Queued(mActionQueue, e)
  <2> SUFFICES ASSUME NEW e \in Accepted
               PROVE  InLine(e) <=> Past(e) \/ Carries(action, e) \/ Queued(mActionQueue, e)
    OBVIOUS
  <2>1. ASSUME NEW k \in Sends, Line[k].payload = e PROVE Past(e) \/ Carries(action, e) \/ Queued(mActionQueue, e)
    BY <1>6, <1>7, <2>1 DEF Sends, Carries, Queued
  <2>2. ASSUME Past(e) PROVE \E k \in Sends : Line[k].payload = e
    BY <1>1, <1>6, <1>7, <2>2 DEF Among, Sends
  <2>3. ASSUME Carries(action, e) \/ Queued(mActionQueue, e) PROVE \E k \in Sends : Line[k].payload = e
    BY <1>6, <2>3 DEF Sends, Carries, Queued
  <2> QED BY <2>1, <2>2, <2>3 DEF InLine
<1>10. /\ {Line[k].payload : k \in Sends} \cup lost = {accepted[k] : k \in DOMAIN accepted}
       /\ {Line[k].payload : k \in Sends} \cap lost = {}
  <2> PICK K, A : K = {Line[k].payload : k \in Sends} /\ A = {accepted[k] : k \in DOMAIN accepted}
    OBVIOUS
  <2>1. K \subseteq Accepted /\ \A e : e \in K <=> InLine(e)
    BY <1>8 DEF Sends, InLine
  <2>2. A \subseteq Accepted /\ \A e : e \in A <=> Among(accepted, e)
    BY DEF AnalyticsTypes, Among
  <2>3. \A e \in Accepted : (InLine(e) \/ Lost(e) <=> Among(accepted, e)) /\ (Lost(e) => ~InLine(e))
    BY <1>9 DEF FlowInv
  <2>4. \A e \in Accepted : (e \in K \/ e \in lost <=> e \in A) /\ (e \in lost => e \notin K)
    BY <2>1, <2>2, <2>3 DEF Lost
  <2>5. K \subseteq Accepted /\ A \subseteq Accepted /\ lost \subseteq Accepted
    BY <2>1, <2>2 DEF AnalyticsTypes
  <2>6. K \cup lost = A /\ K \cap lost = {}
    <3> HIDE DEF AnalyticsInv
    <3> QED BY <2>4, <2>5, Zenon
  <2> QED BY <2>6
<1>12. \A e \in lost : mBackends => action = Ended /\ ~mSysTimeValid /\ ~e.stamped
  BY DEF AnalyticsTypes, FlowInv, Lost
<1>11. ASSUME NEW j \in Sends, NEW k \in Sends, j < k
       PROVE  Before(Line[j].payload, Line[k].payload)
  <2> PICK e, f : e = Line[j].payload /\ f = Line[k].payload
    OBVIOUS
  <2>1. e \in Accepted /\ f \in Accepted /\ j \in DOMAIN Line /\ k \in DOMAIN Line /\ Line[j].type = "send" /\ Line[k].type = "send"
    BY <1>8 DEF Sends
  <2>2. j \in Nat /\ k \in Nat
    BY <1>6, <2>1
  <2>3. CASE k \in 1..l
    <3>1. j \in 1..l /\ e = past[j] /\ f = past[k]
      BY <1>6, <1>7, <1>11, <2>1, <2>3
    <3> QED BY <1>1, <1>6, <1>11, <2>3, <3>1 DEF Ordered
  <2>4. CASE k = l + 1
    <3>1. j \in 1..l /\ Past(e) /\ Carries(action, f)
      BY <1>6, <1>7, <1>11, <2>1, <2>2, <2>4 DEF Carries
    <3> QED BY <2>1, <3>1 DEF FlowInv
  <2>5. CASE k > l + 1
    <3>1. k - (l + 1) \in DOMAIN mActionQueue /\ Carries(mActionQueue[k - (l + 1)], f)
      <4>1. k - (l + 1) \in DOMAIN mActionQueue
        BY <1>6, <2>1, <2>2, <2>5
      <4>2. (k - (l + 1)) + (l + 1) = k
        BY <1>6, <2>2
      <4> QED BY <1>6, <2>1, <4>1, <4>2 DEF Carries
    <3>2. Queued(mActionQueue, f)
      BY <3>1 DEF Queued
    <3>3. CASE j \in 1..l \/ j = l + 1
      <4>1. Past(e) \/ Carries(action, e)
        BY <1>6, <1>7, <2>1, <3>3 DEF Carries
      <4> QED BY <2>1, <3>2, <4>1 DEF FlowInv
    <3>4. CASE j > l + 1
      <4>1. j - (l + 1) \in DOMAIN mActionQueue /\ (j - (l + 1)) + (l + 1) = j /\ j - (l + 1) < k - (l + 1)
        BY <1>6, <1>11, <2>1, <2>2, <3>4
      <4>2. Carries(mActionQueue[j - (l + 1)], e)
        BY <1>6, <2>1, <4>1 DEF Carries
      <4> QED BY <2>1, <3>1, <4>1, <4>2 DEF FlowInv, OrderedActions
    <3> QED BY <1>6, <2>1, <2>2, <3>3, <3>4
  <2> QED BY <1>6, <2>1, <2>2, <2>3, <2>4, <2>5
<1> QED BY <1>10, <1>11, <1>12 DEF EventsKeepOrder, Before

\* EventsKeepOrder: no event given to Analytics is sent twice or overtakes
\* another of its kind, and none is lost but those that come where no backend
\* is and those that wait for an unknown time when the thread ends; for every
\* number of events, whenever the time becomes known and the destructor runs.
THEOREM EventsAlwaysKeepOrder == AnalyticsSpec => []EventsKeepOrder
<1>1. AnalyticsInit => AnalyticsInv
  <2> SUFFICES ASSUME AnalyticsInit PROVE AnalyticsInv
    OBVIOUS
  <2>1. AnalyticsTypes
    BY DEF AnalyticsInit, AnalyticsTypes, Actions
  <2>2. DOMAIN accepted = {} /\ DOMAIN sent = {} /\ DOMAIN mEventQueue = {} /\ DOMAIN mActionQueue = {} /\ mEventQueue = <<>>
        /\ lost = {} /\ \A e : ~Carries(action, e)
    BY DEF AnalyticsInit, Carries, Idle
  <2> QED BY <2>1, <2>2 DEF AnalyticsInv, FlowInv, Past, Lost, Among, Queued, Ordered, OrderedActions
<1>2. AnalyticsInv /\ [AnalyticsNext]_analyticsVars => AnalyticsInv'
  BY AnalyticsStep
<1>3. AnalyticsInv => EventsKeepOrder
  BY LineInOrder
<1> QED BY <1>1, <1>2, <1>3, PTL DEF AnalyticsSpec

(***************************************************************************)
(* PersistentStore.  A sum of lengths is a number of bytes, so it grows by *)
(* no more than is inserted and shrinks with what is removed; and what a   *)
(* restart can find, the file or the backup, was within the limits.        *)
(***************************************************************************)
Rows(items1, n) == {row \in DOMAIN items1 : row[1] = n}

WithinLimits(t) ==
    /\ IsFiniteSet(t[1]) /\ IsFiniteSet(DOMAIN t[2])
    /\ \A row \in DOMAIN t[2] : t[2][row] \in Nat
    /\ \A n \in DOMAIN t[3] : t[3][n] \in Nat
    /\ Cardinality(Bytes(t[2], DOMAIN t[2])) + Cardinality(t[1]) <= MaxSize
    /\ \A n \in Namespaces : Cardinality(Bytes(t[2], Rows(t[2], n))) <= DefaultLimit

Statements ==
    {NoStatement} \cup [op : {"item"}, ns : Namespaces, key : Keys, value : ValueLengths]
                  \cup [op : {"limit"}, ns : Namespaces, size : NamespaceLimits]

StoreInv ==
    /\ WithinLimits(tables) /\ WithinLimits(backup)
    /\ backup = <<backup[1], backup[2], backup[3]>> /\ backup = atBoot
    /\ storeCall \in [StoreClients -> Statements]
    /\ boots \in Nat

LEMMA BytesFinite ==
    ASSUME NEW f, NEW S, IsFiniteSet(S), \A row \in S : f[row] \in Nat
    PROVE  /\ IsFiniteSet(Bytes(f, S)) /\ Cardinality(Bytes(f, S)) \in Nat
<1> DEFINE parts == {{row} \X (1..f[row]) : row \in S}
           g == [row \in S |-> {row} \X (1..f[row])]
<1>1. g \in Surjection(S, parts)
  <2>1. \A row \in S : {row} \X (1..f[row]) \in parts
    OBVIOUS
  <2>2. \A p \in parts : \E row \in S : {row} \X (1..f[row]) = p
    OBVIOUS
  <2>3. g = [row \in S |-> g[row]] /\ \A row \in S : g[row] = {row} \X (1..f[row])
    OBVIOUS
  <2>4. \A row \in S : g[row] \in parts
    BY <2>1, <2>3
  <2>5. \A p \in parts : \E row \in S : g[row] = p
    BY <2>2, <2>3
  <2> HIDE DEF parts, g
  <2>6. g \in [S -> parts]
    BY <2>3, <2>4
  <2> QED BY <2>5, <2>6 DEF Surjection
<1> HIDE DEF g
<1>2. IsFiniteSet(parts)
  <2> HIDE DEF parts
  <2> QED BY <1>1, FS_Surjection
<1>3. ASSUME NEW p \in parts PROVE IsFiniteSet(p)
  <2>1. PICK row \in S : p = {row} \X (1..f[row])
    OBVIOUS
  <2>2. 1 \in Int /\ f[row] \in Int
    OBVIOUS
  <2>3. IsFiniteSet({row}) /\ IsFiniteSet(1..f[row])
    BY <2>2, FS_Singleton, FS_Interval
  <2> QED BY <2>1, <2>3, FS_Product
<1>4. IsFiniteSet(UNION parts)
  <2> HIDE DEF parts
  <2> QED BY <1>2, <1>3, FS_UNION
<1> QED BY <1>4, FS_CardinalityType DEF Bytes

\* Fewer rows, or the same with the same lengths, take up no more.
LEMMA BytesFewer ==
    ASSUME NEW f, NEW S, IsFiniteSet(S), \A row \in S : f[row] \in Nat,
           NEW g, NEW T, T \subseteq S, \A row \in T : g[row] = f[row]
    PROVE  Cardinality(Bytes(g, T)) <= Cardinality(Bytes(f, S))
<1>1. Bytes(g, T) \subseteq Bytes(f, S)
  BY DEF Bytes
<1> QED BY <1>1, BytesFinite, FS_Subset

\* One row put in takes up its length at most.
LEMMA BytesMore ==
    ASSUME NEW f, NEW S, IsFiniteSet(S), \A row \in S : f[row] \in Nat,
           NEW r, NEW n \in Nat, NEW g, NEW T, T \subseteq S \cup {r},
           r \in T => g[r] = n, \A row \in T \ {r} : g[row] = f[row]
    PROVE  Cardinality(Bytes(g, T)) <= Cardinality(Bytes(f, S)) + n
<1> DEFINE new == {r} \X (1..n)
<1>1. Bytes(g, T) \subseteq Bytes(f, S) \cup new
  <2> SUFFICES ASSUME NEW b \in Bytes(g, T) PROVE b \in Bytes(f, S) \cup new
    OBVIOUS
  <2>1. PICK row \in T : b \in {row} \X (1..g[row])
    <3>1. \E p \in {{row} \X (1..g[row]) : row \in T} : b \in p
      BY DEF Bytes
    <3> QED BY <3>1
  <2>2. CASE row = r
    BY <2>1, <2>2
  <2>3. CASE row # r
    <3>1. row \in S /\ b \in {row} \X (1..f[row])
      BY <2>1, <2>3
    <3>2. {row} \X (1..f[row]) \in {{x} \X (1..f[x]) : x \in S}
      BY <3>1
    <3> QED BY <3>1, <3>2 DEF Bytes
  <2> QED BY <2>2, <2>3
<1>2. IsFiniteSet(new) /\ Cardinality(new) = n
  <2>0. 1 \in Int /\ n \in Int /\ n = IF 1 > n THEN 0 ELSE n - 1 + 1
    OBVIOUS
  <2>1. IsFiniteSet({r}) /\ Cardinality({r}) = 1 /\ IsFiniteSet(1..n) /\ Cardinality(1..n) = n
    BY <2>0, FS_Singleton, FS_Interval
  <2>2. IsFiniteSet(new) /\ Cardinality(new) = Cardinality({r}) * Cardinality(1..n)
    BY <2>1, FS_Product
  <2> QED BY <2>1, <2>2
<1> HIDE DEF new
<1>3. IsFiniteSet(Bytes(f, S)) /\ Cardinality(Bytes(f, S)) \in Nat
  BY BytesFinite
<1>4. /\ IsFiniteSet(Bytes(f, S) \cup new)
      /\ Cardinality(Bytes(f, S) \cup new) = Cardinality(Bytes(f, S)) + n - Cardinality(Bytes(f, S) \cap new)
  BY <1>2, <1>3, FS_Union
<1>5. Cardinality(Bytes(f, S) \cap new) \in Nat
  BY <1>3, FS_Intersection, FS_CardinalityType
<1>6. /\ Cardinality(Bytes(g, T)) <= Cardinality(Bytes(f, S) \cup new)
      /\ IsFiniteSet(Bytes(g, T))
  BY <1>1, <1>4, FS_Subset
<1>7. Cardinality(Bytes(g, T)) \in Nat /\ Cardinality(Bytes(f, S) \cup new) \in Nat
  BY <1>4, <1>6, FS_CardinalityType
<1> QED BY <1>3, <1>4, <1>5, <1>6, <1>7

\* What a step promises of the limits, for tables that are within them.
LEMMA NoGrowth ==
    ASSUME StoreInv, WithinLimits(tables)',
           \A n \in Namespaces : SumOf(ItemsOf(n))' <= SumOf(ItemsOf(n))
    PROVE  StaysWithinLimits
<1>1. \A n : ItemsOf(n) = Rows(items, n)
  BY DEF ItemsOf, Rows
<1>2. \A n : ItemsOf(n)' = Rows(items', n)
  BY DEF ItemsOf, Rows
<1>3. /\ StoreSize' <= MaxSize
      /\ \A n \in Namespaces : SumOf(ItemsOf(n))' <= DefaultLimit
  BY <1>2 DEF WithinLimits, tables, SumOf, StoreSize
<1>4. \A n \in Namespaces : SumOf(ItemsOf(n)) \in Nat /\ SumOf(ItemsOf(n))' \in Nat
  <2> SUFFICES ASSUME NEW n \in Namespaces PROVE SumOf(ItemsOf(n)) \in Nat /\ SumOf(ItemsOf(n))' \in Nat
    OBVIOUS
  <2>1. /\ IsFiniteSet(DOMAIN items) /\ IsFiniteSet(DOMAIN items')
        /\ (\A row \in DOMAIN items : items[row] \in Nat) /\ \A row \in DOMAIN items' : items'[row] \in Nat
    BY DEF StoreInv, WithinLimits, tables
  <2>2. IsFiniteSet(Rows(items, n)) /\ IsFiniteSet(Rows(items', n))
    BY <2>1, FS_Subset DEF Rows
  <2>3. Cardinality(Bytes(items, Rows(items, n))) \in Nat /\ Cardinality(Bytes(items', Rows(items', n))) \in Nat
    BY <2>1, <2>2, BytesFinite DEF Rows
  <2> QED BY <1>1, <1>2, <2>3 DEF SumOf
<1> QED BY <1>3, <1>4 DEF StaysWithinLimits

\* A step that takes rows away, or leaves them.
LEMMA RowsTaken ==
    ASSUME StoreInv, IsFiniteSet(names'), Cardinality(names') <= Cardinality(names),
           DOMAIN items' \subseteq DOMAIN items, \A row \in DOMAIN items' : items'[row] = items[row],
           \A n \in DOMAIN limits' : limits'[n] \in Nat
    PROVE  WithinLimits(tables)' /\ StaysWithinLimits
<1>1. IsFiniteSet(DOMAIN items) /\ (\A row \in DOMAIN items : items[row] \in Nat)
      /\ IsFiniteSet(names) /\ Cardinality(names) \in Nat /\ Cardinality(names') \in Nat
  BY FS_CardinalityType DEF StoreInv, WithinLimits, tables
<1>2. IsFiniteSet(DOMAIN items') /\ \A row \in DOMAIN items' : items'[row] \in Nat
  BY <1>1, FS_Subset
<1>3. ASSUME NEW n
      PROVE  /\ Cardinality(Bytes(items', Rows(items', n))) <= Cardinality(Bytes(items, Rows(items, n)))
             /\ Cardinality(Bytes(items', Rows(items', n))) \in Nat /\ Cardinality(Bytes(items, Rows(items, n))) \in Nat
  <2>1. /\ Rows(items', n) \subseteq Rows(items, n)
        /\ Rows(items, n) \subseteq DOMAIN items /\ Rows(items', n) \subseteq DOMAIN items'
    BY DEF Rows
  <2>2. IsFiniteSet(Rows(items, n)) /\ IsFiniteSet(Rows(items', n))
    BY <1>1, <1>2, <2>1, FS_Subset
  <2>3. Cardinality(Bytes(items', Rows(items', n))) <= Cardinality(Bytes(items, Rows(items, n)))
    BY <1>1, <2>1, <2>2, BytesFewer
  <2> QED BY <1>1, <1>2, <2>1, <2>2, <2>3, BytesFinite
<1>4. /\ Cardinality(Bytes(items', DOMAIN items')) <= Cardinality(Bytes(items, DOMAIN items))
      /\ Cardinality(Bytes(items', DOMAIN items')) \in Nat /\ Cardinality(Bytes(items, DOMAIN items)) \in Nat
  BY <1>1, <1>2, BytesFewer, BytesFinite
<1>5. /\ Cardinality(Bytes(items, DOMAIN items)) + Cardinality(names) <= MaxSize
      /\ \A n \in Namespaces : Cardinality(Bytes(items, Rows(items, n))) <= DefaultLimit
  BY DEF StoreInv, WithinLimits, tables
<1>6. WithinLimits(tables)'
  <2>1. Cardinality(Bytes(items', DOMAIN items')) + Cardinality(names') <= MaxSize
    BY <1>1, <1>4, <1>5, StoreAssumption
  <2>2. \A n \in Namespaces : Cardinality(Bytes(items', Rows(items', n))) <= DefaultLimit
    BY <1>3, <1>5, StoreAssumption
  <2> QED BY <1>1, <1>2, <2>1, <2>2 DEF WithinLimits, tables
<1>7. \A n \in Namespaces : SumOf(ItemsOf(n))' <= SumOf(ItemsOf(n))
  BY <1>3 DEF SumOf, ItemsOf, Rows
<1> QED BY <1>6, <1>7, NoGrowth

\* The first statement of SetValue and SetNamespaceStorageLimit.
LEMMA NameInserted ==
    ASSUME StoreInv, NEW c \in StoreClients, NEW second, FirstStatement(c, second)
    PROVE  WithinLimits(tables)' /\ StaysWithinLimits
<1>1. /\ NamespaceFits /\ names' = names \cup {second.ns} /\ UNCHANGED <<items, limits>>
  BY DEF FirstStatement
<1>2. /\ IsFiniteSet(names) /\ Cardinality(names) \in Nat
      /\ IsFiniteSet(DOMAIN items) /\ (\A row \in DOMAIN items : items[row] \in Nat)
      /\ Cardinality(Bytes(items, DOMAIN items)) \in Nat
  BY FS_CardinalityType, BytesFinite DEF StoreInv, WithinLimits, tables
<1>3. IsFiniteSet(names') /\ Cardinality(names') <= Cardinality(names) + 1 /\ Cardinality(names') \in Nat
  <2> PICK x : x = second.ns
    OBVIOUS
  <2>1. /\ IsFiniteSet(names \cup {x})
        /\ Cardinality(names \cup {x}) = IF x \in names THEN Cardinality(names) ELSE Cardinality(names) + 1
    BY <1>2, FS_AddElement
  <2>2. names' = names \cup {x}
    BY <1>1
  <2> QED BY <1>2, <2>1, <2>2
<1>4. Cardinality(Bytes(items, DOMAIN items)) + Cardinality(names) + 1 <= MaxSize
  BY <1>1 DEF NamespaceFits, StoreSize, SumOf
<1>5. Cardinality(Bytes(items, DOMAIN items)) + Cardinality(names') <= MaxSize
  BY <1>2, <1>3, <1>4, StoreAssumption
<1>6. WithinLimits(tables)'
  BY <1>1, <1>2, <1>3, <1>5 DEF StoreInv, WithinLimits, tables
<1>7. \A n \in Namespaces : SumOf(ItemsOf(n))' <= SumOf(ItemsOf(n))
  <2> SUFFICES ASSUME NEW n \in Namespaces PROVE SumOf(ItemsOf(n)) <= SumOf(ItemsOf(n))
    BY <1>1 DEF SumOf, ItemsOf
  <2>1. Rows(items, n) \subseteq DOMAIN items
    BY DEF Rows
  <2>2. IsFiniteSet(Rows(items, n)) /\ \A row \in Rows(items, n) : items[row] \in Nat
    BY <1>2, <2>1, FS_Subset
  <2>3. Cardinality(Bytes(items, Rows(items, n))) \in Nat
    BY <2>2, BytesFinite
  <2> QED BY <2>3 DEF SumOf, ItemsOf, Rows
<1> QED BY <1>6, <1>7, NoGrowth

\* The second statement of SetValue, when the triggers let it pass.
LEMMA ItemInserted ==
    ASSUME StoreInv, NEW n \in Namespaces, NEW k, NEW length \in Nat, ItemFits(n, length),
           items' = With(items, <<n, k>>, length), UNCHANGED <<names, limits>>
    PROVE  WithinLimits(tables)' /\ StaysWithinLimits
<1> PICK r : r = <<n, k>>
  OBVIOUS
<1>1. /\ DOMAIN items' = DOMAIN items \cup {r} /\ items'[r] = length
      /\ \A row \in DOMAIN items' \ {r} : items'[row] = items[row]
  BY DEF With
<1>2. /\ IsFiniteSet(names) /\ Cardinality(names) \in Nat
      /\ IsFiniteSet(DOMAIN items) /\ (\A row \in DOMAIN items : items[row] \in Nat)
  BY FS_CardinalityType DEF StoreInv, WithinLimits, tables
<1>3. IsFiniteSet(DOMAIN items') /\ \A row \in DOMAIN items' : items'[row] \in Nat
  BY <1>1, <1>2, FS_AddElement
<1>4. /\ Cardinality(Bytes(items', DOMAIN items')) <= Cardinality(Bytes(items, DOMAIN items)) + length
      /\ Cardinality(Bytes(items', DOMAIN items')) \in Nat /\ Cardinality(Bytes(items, DOMAIN items)) \in Nat
  BY <1>1, <1>2, <1>3, BytesMore, BytesFinite
<1>5. /\ Cardinality(Bytes(items, DOMAIN items)) + Cardinality(names) + length <= MaxSize
      /\ Cardinality(Bytes(items, Rows(items, n))) + length <= DefaultLimit
      /\ n \in DOMAIN limits => Cardinality(Bytes(items, Rows(items, n))) + length <= limits[n]
  BY DEF ItemFits, StoreSize, SumOf, ItemsOf, Rows
<1>6. ASSUME NEW m
      PROVE  /\ IsFiniteSet(Rows(items, m)) /\ (\A row \in Rows(items, m) : items[row] \in Nat)
             /\ Cardinality(Bytes(items', Rows(items', m))) \in Nat /\ Cardinality(Bytes(items, Rows(items, m))) \in Nat
  <2>1. Rows(items, m) \subseteq DOMAIN items /\ Rows(items', m) \subseteq DOMAIN items'
    BY DEF Rows
  <2>2. IsFiniteSet(Rows(items, m)) /\ IsFiniteSet(Rows(items', m))
    BY <1>2, <1>3, <2>1, FS_Subset
  <2> QED BY <1>2, <1>3, <2>1, <2>2, BytesFinite
<1>7. Cardinality(Bytes(items', Rows(items', n))) <= Cardinality(Bytes(items, Rows(items, n))) + length
  <2>1. Rows(items', n) \subseteq Rows(items, n) \cup {r} /\ Rows(items', n) \subseteq DOMAIN items'
    BY <1>1 DEF Rows
  <2> QED BY <1>1, <1>6, <2>1, BytesMore
<1>8. \A m : m # n => Bytes(items', Rows(items', m)) = Bytes(items, Rows(items, m))
  <2> SUFFICES ASSUME NEW m, m # n PROVE Bytes(items', Rows(items', m)) = Bytes(items, Rows(items, m))
    OBVIOUS
  <2>1. r[1] = n
    OBVIOUS
  <2>2. Rows(items', m) = Rows(items, m) /\ \A row \in Rows(items, m) : items'[row] = items[row]
    BY <1>1, <2>1 DEF Rows
  <2> QED BY <2>2 DEF Bytes
<1>9. WithinLimits(tables)'
  <2>1. Cardinality(Bytes(items', DOMAIN items')) + Cardinality(names) <= MaxSize
    BY <1>2, <1>4, <1>5, StoreAssumption
  <2>2. \A m \in Namespaces : Cardinality(Bytes(items', Rows(items', m))) <= DefaultLimit
    <3> SUFFICES ASSUME NEW m \in Namespaces PROVE Cardinality(Bytes(items', Rows(items', m))) <= DefaultLimit
      OBVIOUS
    <3>1. CASE m = n
      BY <1>5, <1>6, <1>7, <3>1, StoreAssumption
    <3>2. CASE m # n
      BY <1>8, <3>2 DEF StoreInv, WithinLimits, tables
    <3> QED BY <3>1, <3>2
  <2>3. \A m \in DOMAIN limits' : limits'[m] \in Nat
    BY DEF StoreInv, WithinLimits, tables
  <2> QED BY <1>2, <1>3, <2>1, <2>2, <2>3 DEF WithinLimits, tables
<1>10. /\ \A m : SumOf(ItemsOf(m)) = Cardinality(Bytes(items, Rows(items, m)))
       /\ \A m : SumOf(ItemsOf(m))' = Cardinality(Bytes(items', Rows(items', m)))
  BY DEF SumOf, ItemsOf, Rows
<1>11. ASSUME NEW m \in Namespaces, SumOf(ItemsOf(m))' > SumOf(ItemsOf(m)), m \in DOMAIN limits
       PROVE  SumOf(ItemsOf(m))' <= limits[m]
  <2>0. limits[m] \in Nat
    BY <1>11 DEF StoreInv, WithinLimits, tables
  <2>1. m = n
    BY <1>6, <1>8, <1>10, <1>11
  <2>2. Cardinality(Bytes(items, Rows(items, n))) + length <= limits[n]
    BY <1>5, <1>11, <2>1
  <2> QED BY <1>6, <1>7, <1>10, <2>0, <2>1, <2>2
<1>12. StoreSize' <= MaxSize /\ \A m \in Namespaces : SumOf(ItemsOf(m))' <= DefaultLimit
  BY <1>9, <1>10 DEF WithinLimits, tables, SumOf, StoreSize
<1> QED BY <1>9, <1>11, <1>12 DEF StaysWithinLimits

LEMMA StoreStep ==
    ASSUME StoreInv, [StoreNext]_storeVars
    PROVE  StoreInv' /\ (UNCHANGED storeVars \/ (StaysWithinLimits /\ RestartKeepsTables))
<1>0. /\ WithinLimits(tables) /\ WithinLimits(backup) /\ backup = atBoot /\ backup = <<backup[1], backup[2], backup[3]>>
      /\ storeCall \in [StoreClients -> Statements] /\ boots \in Nat
      /\ \A n \in DOMAIN limits : limits[n] \in Nat
  BY DEF StoreInv, WithinLimits, tables
<1>1. ASSUME WithinLimits(tables)', StaysWithinLimits, UNCHANGED <<backup, boots, atBoot>>,
             storeCall' \in [StoreClients -> Statements]
      PROVE  StoreInv' /\ StaysWithinLimits /\ RestartKeepsTables
  BY <1>0, <1>1 DEF StoreInv, RestartKeepsTables, WithinLimits
<1>2. IsFiniteSet(names) /\ IsFiniteSet(DOMAIN items)
  BY <1>0 DEF WithinLimits, tables
<1>3. NoStatement \in Statements
  BY DEF Statements
<1>4. ASSUME NEW c \in StoreClients, NEW second \in Statements, FirstStatement(c, second)
      PROVE  StoreInv' /\ StaysWithinLimits /\ RestartKeepsTables
  <2>1. UNCHANGED <<backup, boots, atBoot>> /\ storeCall' \in [StoreClients -> Statements]
    BY <1>0, <1>4 DEF FirstStatement
  <2> QED BY <1>1, <1>4, <2>1, NameInserted
<1>5. ASSUME NEW c \in StoreClients, InsertItem(c)
      PROVE  StoreInv' /\ StaysWithinLimits /\ RestartKeepsTables
  <2> PICK call : call = storeCall[c]
    OBVIOUS
  <2>1. /\ SecondStatement(c, "item") /\ UNCHANGED limits
        /\ \/ /\ ItemFits(call.ns, 1 + call.value)
              /\ items' = With(items, <<call.ns, call.key>>, 1 + call.value)
           \/ UNCHANGED items
    BY <1>5 DEF InsertItem
  <2>2. /\ call.op = "item" /\ UNCHANGED <<names, backup, boots, atBoot>>
        /\ storeCall' \in [StoreClients -> Statements]
    BY <1>0, <1>3, <2>1 DEF SecondStatement
  <2>3. call.ns \in Namespaces /\ call.value \in Nat
    <3>1. call \in Statements
      BY <1>0
    <3>2. call \in [op : {"item"}, ns : Namespaces, key : Keys, value : ValueLengths]
      BY <2>2, <3>1 DEF Statements, NoStatement
    <3> QED BY <3>2, StoreAssumption
  <2>4. WithinLimits(tables)' /\ StaysWithinLimits
    <3>1. CASE UNCHANGED items
      <4>1. Cardinality(names') <= Cardinality(names)
        BY <1>2, <2>2, FS_CardinalityType
      <4> QED BY <1>0, <1>2, <2>1, <2>2, <3>1, <4>1, RowsTaken
    <3>2. CASE ItemFits(call.ns, 1 + call.value) /\ items' = With(items, <<call.ns, call.key>>, 1 + call.value)
      <4>1. 1 + call.value \in Nat
        BY <2>3
      <4> QED BY <2>1, <2>2, <2>3, <3>2, <4>1, ItemInserted
    <3> QED BY <2>1, <3>1, <3>2
  <2> QED BY <1>1, <2>2, <2>4
<1>6. ASSUME NEW c \in StoreClients, InsertLimit(c)
      PROVE  StoreInv' /\ StaysWithinLimits /\ RestartKeepsTables
  <2>1. UNCHANGED <<names, items, backup, boots, atBoot>> /\ storeCall' \in [StoreClients -> Statements]
    BY <1>0, <1>3, <1>6 DEF InsertLimit, SecondStatement
  <2>2. Cardinality(names') <= Cardinality(names)
    BY <1>2, <2>1, FS_CardinalityType
  <2>3. \A n \in DOMAIN limits' : limits'[n] \in Nat
    <3>1. limits' = limits \/ limits' = With(limits, storeCall[c].ns, storeCall[c].size)
      BY <1>6 DEF InsertLimit
    <3>2. storeCall[c] \in [op : {"limit"}, ns : Namespaces, size : NamespaceLimits]
      <4>1. storeCall[c] \in Statements /\ storeCall[c].op = "limit"
        BY <1>0, <1>6 DEF InsertLimit, SecondStatement
      <4> QED BY <4>1 DEF Statements, NoStatement
    <3> QED BY <1>0, <3>1, <3>2, StoreAssumption DEF With
  <2> QED BY <1>1, <1>2, <2>1, <2>2, <2>3, RowsTaken
<1>7. ASSUME NEW n \in Namespaces, DeleteNamespace(n) \/ \E k \in Keys : DeleteKey(n, k)
      PROVE  StoreInv' /\ StaysWithinLimits /\ RestartKeepsTables
  <2>1. /\ UNCHANGED <<backup, boots, atBoot, storeCall>> /\ names' \subseteq names
        /\ \E gone : items' = Without(items, gone)
        /\ \A m \in DOMAIN limits' : m \in DOMAIN limits /\ limits'[m] = limits[m]
    BY <1>7 DEF DeleteNamespace, DeleteKey, Without
  <2>2. IsFiniteSet(names') /\ Cardinality(names') <= Cardinality(names)
    BY <1>2, <2>1, FS_Subset
  <2>3. DOMAIN items' \subseteq DOMAIN items /\ \A row \in DOMAIN items' : items'[row] = items[row]
    BY <2>1 DEF Without
  <2> QED BY <1>0, <1>1, <2>1, <2>2, <2>3, RowsTaken
<1>8. ASSUME NEW corrupt \in BOOLEAN, StoreRestart(corrupt)
      PROVE  StoreInv' /\ StaysWithinLimits /\ RestartKeepsTables
  <2> PICK file, copy : file = BackupAfterCheck(corrupt).file /\ copy = BackupAfterCheck(corrupt).copy
    OBVIOUS
  <2>1. /\ names' = file[1] /\ items' = file[2] /\ limits' = file[3] /\ backup' = copy /\ atBoot' = file
        /\ storeCall' = [c \in StoreClients |-> NoStatement] /\ boots' = boots + 1
    BY <1>8 DEF StoreRestart
  <2>2. copy = file /\ file \in {tables, backup}
    BY DEF BackupAfterCheck
  <2>3. WithinLimits(file) /\ file = <<file[1], file[2], file[3]>>
    <3>1. CASE file = tables
      BY <1>0, <3>1 DEF tables
    <3>2. CASE file = backup
      BY <1>0, <3>2
    <3> QED BY <2>2, <3>1, <3>2
  <2>4. WithinLimits(tables)' /\ WithinLimits(backup)'
    BY <2>1, <2>2, <2>3 DEF WithinLimits, tables
  <2>5. StoreInv'
    BY <1>0, <1>3, <2>1, <2>2, <2>3, <2>4 DEF StoreInv
  <2>6. StaysWithinLimits
    <3>1. boots' # boots
      BY <1>0, <2>1
    <3>2. StoreSize' <= MaxSize /\ \A n \in Namespaces : SumOf(ItemsOf(n))' <= DefaultLimit
      BY <2>4 DEF WithinLimits, tables, SumOf, StoreSize, ItemsOf, Rows
    <3> QED BY <3>1, <3>2 DEF StaysWithinLimits
  <2>7. RestartKeepsTables
    <3>1. tables' = file
      BY <2>1, <2>3 DEF tables
    <3> QED BY <1>0, <2>2, <3>1 DEF RestartKeepsTables
  <2> QED BY <2>5, <2>6, <2>7
<1>9. ASSUME UNCHANGED storeVars PROVE StoreInv'
  BY <1>0, <1>9 DEF StoreInv, WithinLimits, storeVars, tables
<1>10. /\ \A n \in Namespaces, k \in Keys, value \in ValueLengths :
             [op |-> "item", ns |-> n, key |-> k, value |-> value] \in Statements
       /\ \A n \in Namespaces, size \in NamespaceLimits : [op |-> "limit", ns |-> n, size |-> size] \in Statements
  BY DEF Statements
<1>11. ASSUME NEW c \in StoreClients,
              \/ \E n \in Namespaces, k \in Keys, value \in ValueLengths : SetValue(c, n, k, value)
              \/ \E n \in Namespaces, size \in NamespaceLimits : SetNamespaceStorageLimit(c, n, size)
       PROVE  StoreInv' /\ StaysWithinLimits /\ RestartKeepsTables
  BY <1>4, <1>10, <1>11 DEF SetValue, SetNamespaceStorageLimit
<1> QED BY <1>5, <1>6, <1>7, <1>8, <1>9, <1>11 DEF StoreNext

\* StoreIsSound: no step takes the tables of PersistentStore beyond the
\* limits, although a call is two statements, and no restart loses them, for
\* every number of clients and restarts and all sizes and limits.
THEOREM StoreAlwaysSound == StoreSpec => StoreIsSound
<1>1. StoreInit => StoreInv
  <2> SUFFICES ASSUME StoreInit PROVE StoreInv
    OBVIOUS
  <2>1. ASSUME NEW t, t[1] = {}, t[2] = <<>>, t[3] = <<>> PROVE WithinLimits(t)
    <3>1. DOMAIN t[2] = {} /\ DOMAIN t[3] = {} /\ (\A n : Rows(t[2], n) = {}) /\ Bytes(t[2], {}) = {}
      BY <2>1 DEF Rows, Bytes
    <3>2. IsFiniteSet({}) /\ Cardinality({}) = 0
      BY FS_EmptySet
    <3>3. MaxSize \in Nat /\ DefaultLimit \in Nat /\ Cardinality({}) + Cardinality({}) <= MaxSize /\ Cardinality({}) <= DefaultLimit
      BY <3>2, StoreAssumption
    <3> QED BY <2>1, <3>1, <3>2, <3>3 DEF WithinLimits
  <2>2. /\ tables = <<{}, <<>>, <<>>>> /\ backup = <<{}, <<>>, <<>>>> /\ atBoot = backup /\ boots \in Nat
        /\ storeCall \in [StoreClients -> Statements]
    BY DEF StoreInit, tables, NoTables, Statements
  <2>3. <<{}, <<>>, <<>>>>[1] = {} /\ <<{}, <<>>, <<>>>>[2] = <<>> /\ <<{}, <<>>, <<>>>>[3] = <<>>
    OBVIOUS
  <2>4. WithinLimits(<<{}, <<>>, <<>>>>)
    BY <2>1, <2>3
  <2> QED BY <2>2, <2>4 DEF StoreInv
<1>2. StoreInv /\ [StoreNext]_storeVars => StoreInv'
  BY StoreStep
<1>3. StoreInv /\ [StoreNext]_storeVars => [StaysWithinLimits /\ RestartKeepsTables]_storeVars
  BY StoreStep
<1> QED BY <1>1, <1>2, <1>3, PTL DEF StoreSpec, StoreIsSound
=============================================================================
