-------------------------- MODULE PackageDownloader --------------------------
(***************************************************************************)
(* The downloader of the PackageManager plugin: clients put downloads into *)
(* a queue, one thread takes them out and tries each a few times, and      *)
(* clients cancel, pause and resume the one in progress.                   *)
(*                                                                         *)
(* mMutex protects the queue.  The download in progress is read by clients *)
(* and reset by the thread without it; the model takes such a read for     *)
(* atomic.                                                                 *)
(***************************************************************************)
EXTENDS Naturals, Sequences

CONSTANTS
    Retries,        \* what options.retries may ask for, 0 for the default
    MaxDownloads    \* bound: downloads asked for

ASSUME DownloaderAssumption == Retries \subseteq Nat /\ MaxDownloads \in Nat

MIN_RETRIES == 2
None == 0           \* no download; ids start at 1

VARIABLES
    mDownloadQueue,         \* records of id and attempts allowed
    mInprogressDownload,    \* such a record, or id None
    thread,                 \* program counter, attempts made and last result
    cancelled,              \* the ids whose DownloadInfo is cancelled
    canceller,              \* the id whose Cancel is between its two writes
    bCancel,                \* the flag of HttpClient the transfer looks at
    paused,                 \* the transfer is paused
    mNextDownloadId,
    done,                   \* the thread is to end
    late                    \* history: per id, attempts started after it was cancelled

clientVars == <<cancelled, canceller, paused, mNextDownloadId, done>>
downloaderVars == <<mDownloadQueue, mInprogressDownload, thread, bCancel, late, clientVars>>

Downloads == 1..MaxDownloads
NoDownload == [id |-> None, retries |-> 0]
AtLoop == [pc |-> "loop", attempt |-> 0, result |-> "none"]

DownloaderInit ==
    /\ mDownloadQueue = <<>>
    /\ mInprogressDownload = NoDownload
    /\ thread = AtLoop
    /\ cancelled = {}
    /\ canceller = None
    /\ bCancel = FALSE
    /\ paused = FALSE
    /\ mNextDownloadId = 0
    /\ done = FALSE
    /\ late = [d \in Downloads |-> 0]

Goto(pc) == thread' = [thread EXCEPT !.pc = pc]

\* notify_one reaches the thread only while it waits.
Notify == IF thread.pc = "waiting" THEN Goto("loop") ELSE UNCHANGED thread

-----------------------------------------------------------------------------
(* Clients. *)

Download(retries, priority) ==
    /\ mNextDownloadId < MaxDownloads
    /\ mNextDownloadId' = mNextDownloadId + 1
    /\ LET di == [id |-> mNextDownloadId + 1,
                  retries |-> IF retries = 0 THEN MIN_RETRIES ELSE retries]
       IN  mDownloadQueue' = IF priority THEN <<di>> \o mDownloadQueue
                             ELSE Append(mDownloadQueue, di)
    /\ Notify
    /\ UNCHANGED <<mInprogressDownload, bCancel, late, cancelled, canceller, paused, done>>

\* The DownloadInfo first, then the transfer, which may be another's by then.
Cancel ==
    /\ canceller = None
    /\ mInprogressDownload.id # None
    /\ cancelled' = cancelled \cup {mInprogressDownload.id}
    /\ canceller' = mInprogressDownload.id
    /\ UNCHANGED <<mDownloadQueue, mInprogressDownload, thread, bCancel, late, paused,
                   mNextDownloadId, done>>

CancelTransfer ==
    /\ canceller # None
    /\ bCancel' = TRUE
    /\ canceller' = None
    /\ UNCHANGED <<mDownloadQueue, mInprogressDownload, thread, late, cancelled, paused,
                   mNextDownloadId, done>>

\* Pausing takes effect on a transfer only.
SetPaused(p) ==
    /\ mInprogressDownload.id # None
    /\ thread.pc = "transfer"
    /\ paused' = p
    /\ UNCHANGED <<mDownloadQueue, mInprogressDownload, thread, bCancel, late, cancelled,
                   canceller, mNextDownloadId, done>>

\* Unregister of the downloader's listener ends the thread.
EndDownloads ==
    /\ ~done
    /\ done' = TRUE
    /\ Notify
    /\ UNCHANGED <<mDownloadQueue, mInprogressDownload, bCancel, late, cancelled, canceller,
                   paused, mNextDownloadId>>

-----------------------------------------------------------------------------
(* The thread. *)

unchangedByLoop == <<bCancel, late, clientVars>>

getNext ==
    /\ thread.pc = "loop"
    /\ \/ /\ done
          /\ Goto("ended")
          /\ UNCHANGED <<mDownloadQueue, mInprogressDownload>>
       \/ /\ ~done /\ mInprogressDownload = NoDownload /\ mDownloadQueue = <<>>
          /\ Goto("toWait")
          /\ UNCHANGED <<mDownloadQueue, mInprogressDownload>>
       \/ /\ ~done /\ (mInprogressDownload # NoDownload \/ mDownloadQueue # <<>>)
          /\ IF mInprogressDownload = NoDownload
             THEN /\ mInprogressDownload' = Head(mDownloadQueue)
                  /\ mDownloadQueue' = Tail(mDownloadQueue)
             ELSE UNCHANGED <<mDownloadQueue, mInprogressDownload>>
          /\ thread' = [AtLoop EXCEPT !.pc = "attempt"]
    /\ UNCHANGED unchangedByLoop

\* The mutex was free in between, and the wait has no predicate.
Wait ==
    /\ thread.pc = "toWait"
    /\ Goto("waiting")
    /\ UNCHANGED <<mDownloadQueue, mInprogressDownload, unchangedByLoop>>

SpuriousWake ==
    /\ thread.pc = "waiting"
    /\ Goto("loop")
    /\ UNCHANGED <<mDownloadQueue, mInprogressDownload, unchangedByLoop>>

\* downloadFile clears bCancel whoever has set it.
Attempt ==
    /\ thread.pc = "attempt"
    /\ bCancel' = FALSE
    /\ late' = [late EXCEPT ![mInprogressDownload.id] =
                   IF mInprogressDownload.id \in cancelled THEN @ + 1 ELSE @]
    /\ thread' = [thread EXCEPT !.pc = "transfer", !.attempt = @ + 1]
    /\ UNCHANGED <<mDownloadQueue, mInprogressDownload, clientVars>>

\* Results are final, or tried again.  What the server says of a complete
\* transfer makes no difference, except for 404.
Final(result) == result \in {"Success", "404"} \/ thread.attempt = mInprogressDownload.retries

TransferEnds ==
    /\ thread.pc = "transfer"
    /\ ~paused \/ bCancel
    /\ \E result \in {"Success", "404", "HttpError", "DiskError"} :
          thread' = [thread EXCEPT !.result = result,
                                   !.pc = IF Final(result) THEN "report" ELSE "backoff"]
    /\ paused' = FALSE
    /\ UNCHANGED <<mDownloadQueue, mInprogressDownload, bCancel, late, cancelled, canceller,
                   mNextDownloadId, done>>

\* Whether the loop is left after the sleep before an attempt.
Unasked   == FALSE
Cancelled == mInprogressDownload.id \in cancelled

Backoff ==
    /\ thread.pc = "backoff"
    /\ Goto(IF Cancelled THEN "report" ELSE "attempt")
    /\ UNCHANGED <<mDownloadQueue, mInprogressDownload, unchangedByLoop>>

NotifyDownloadStatus ==
    /\ thread.pc = "report"
    /\ Goto("reset")
    /\ UNCHANGED <<mDownloadQueue, mInprogressDownload, unchangedByLoop>>

Reset ==
    /\ thread.pc = "reset"
    /\ mInprogressDownload' = NoDownload
    /\ thread' = AtLoop
    /\ UNCHANGED <<mDownloadQueue, unchangedByLoop>>

-----------------------------------------------------------------------------
ThreadStep ==
    getNext \/ Wait \/ Attempt \/ TransferEnds \/ Backoff \/ NotifyDownloadStatus \/ Reset

DownloaderNext ==
    \/ \E retries \in Retries, priority \in BOOLEAN : Download(retries, priority)
    \/ Cancel \/ CancelTransfer
    \/ \E p \in BOOLEAN : SetPaused(p)
    \/ EndDownloads
    \/ ThreadStep \/ SpuriousWake

DownloaderSpec == DownloaderInit /\ [][DownloaderNext]_downloaderVars

-----------------------------------------------------------------------------
(* What is claimed. *)

\* A cancelled download is attempted at most once more: the one attempt that
\* clears the flag just set.
CancelBinds == \A d \in Downloads : late[d] <= 1
=============================================================================
