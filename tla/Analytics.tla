------------------------------ MODULE Analytics ------------------------------
(***************************************************************************)
(* Analytics: clients put events into a queue, and one thread passes them  *)
(* to a backend.  An event that has only an uptime waits in a second queue *)
(* until the time of the system is known, which the thread asks when it    *)
(* has had nothing to do for a while.                                      *)
(*                                                                         *)
(* mQueueMutex protects the first queue; the second belongs to the thread. *)
(* An event is its number, and whether it came with an epoch timestamp.    *)
(* Configure succeeds when no backend could be loaded too; the events are  *)
(* then thrown away as they come.  What still waits for the time when the  *)
(* thread ends goes with it.                                               *)
(***************************************************************************)
EXTENDS Naturals, Sequences

CONSTANT MaxEvents      \* bound: events

ASSUME AnalyticsAssumption == MaxEvents \in Nat

VARIABLES
    mActionQueue,       \* actions for the thread
    mEventQueue,        \* events that wait for the time
    mSysTimeValid,      \* what the thread knows of the time
    timeKnown,          \* external: time and time zone are known
    mBackends,          \* whether Configure has loaded a backend
    action,             \* the action the thread has taken and not yet carried out
    sent,               \* external: what the backend got
    lost,               \* history: what was thrown away
    accepted            \* history: what SendEvent took

analyticsVars == <<mActionQueue, mEventQueue, mSysTimeValid, timeKnown, mBackends, action, sent, lost, accepted>>

Idle     == [type |-> "none"]
Shutdown == [type |-> "shutdown"]
Ended    == [type |-> "ended"]      \* the thread has returned
SendEventAction(e) == [type |-> "send", payload |-> e]

AnalyticsInit ==
    /\ mActionQueue = <<>> /\ mEventQueue = <<>>
    /\ mSysTimeValid = FALSE
    /\ timeKnown \in BOOLEAN /\ mBackends \in BOOLEAN
    /\ action = Idle
    /\ sent = <<>> /\ lost = {} /\ accepted = <<>>

Closing == action \in {Shutdown, Ended} \/ \E k \in DOMAIN mActionQueue : mActionQueue[k] = Shutdown

-----------------------------------------------------------------------------
SendEvent(stamped) ==
    /\ ~Closing
    /\ Len(accepted) < MaxEvents
    /\ LET e == [id |-> Len(accepted) + 1, stamped |-> stamped]
       IN  /\ mActionQueue' = Append(mActionQueue, SendEventAction(e))
           /\ accepted' = Append(accepted, e)
    /\ UNCHANGED <<mEventQueue, mSysTimeValid, timeKnown, mBackends, action, sent, lost>>

\* The destructor.
PushShutdown ==
    /\ ~Closing
    /\ mActionQueue' = Append(mActionQueue, Shutdown)
    /\ UNCHANGED <<mEventQueue, mSysTimeValid, timeKnown, mBackends, action, sent, lost, accepted>>

-----------------------------------------------------------------------------
(* The thread. *)

TakeAction ==
    /\ action = Idle
    /\ mActionQueue # <<>>
    /\ action' = Head(mActionQueue)
    /\ mActionQueue' = Tail(mActionQueue)
    /\ UNCHANGED <<mEventQueue, mSysTimeValid, timeKnown, mBackends, sent, lost, accepted>>

\* The wait has timed out with nothing in the queue.
TakePopulate ==
    /\ action = Idle
    /\ mActionQueue = <<>> /\ ~mSysTimeValid
    /\ action' = [type |-> "populate"]
    /\ UNCHANGED <<mActionQueue, mEventQueue, mSysTimeValid, timeKnown, mBackends, sent, lost, accepted>>

SendEventToBackend(events) ==
    IF mBackends THEN sent' = sent \o events /\ UNCHANGED lost
                 ELSE lost' = lost \cup {events[k] : k \in DOMAIN events} /\ UNCHANGED sent

\* How many of the waiting events are sent once the time is known.
OnlyFirst == IF mEventQueue = <<>> THEN 0 ELSE 1
AllOfThem == Len(mEventQueue)

PopulateTimeInfo ==
    /\ action.type = "populate"
    /\ action' = Idle
    /\ mSysTimeValid' = timeKnown
    /\ IF timeKnown
       THEN /\ SendEventToBackend(SubSeq(mEventQueue, 1, AllOfThem))
            /\ mEventQueue' = SubSeq(mEventQueue, AllOfThem + 1, Len(mEventQueue))
       ELSE UNCHANGED <<sent, lost, mEventQueue>>
    /\ UNCHANGED <<mActionQueue, timeKnown, mBackends, accepted>>

CarryOutSend ==
    /\ action.type = "send"
    /\ action' = Idle
    /\ IF mSysTimeValid \/ action.payload.stamped
       THEN /\ SendEventToBackend(<<action.payload>>)
            /\ UNCHANGED mEventQueue
       ELSE /\ mEventQueue' = Append(mEventQueue, action.payload)
            /\ UNCHANGED <<sent, lost>>
    /\ UNCHANGED <<mActionQueue, mSysTimeValid, timeKnown, mBackends, accepted>>

\* The thread returns; the destructor, which has joined it, destroys the
\* events that wait.
ThreadEnds ==
    /\ action = Shutdown
    /\ action' = Ended
    /\ mEventQueue' = <<>>
    /\ lost' = lost \cup {mEventQueue[k] : k \in DOMAIN mEventQueue}
    /\ UNCHANGED <<mActionQueue, mSysTimeValid, timeKnown, mBackends, sent, accepted>>

\* External
TimeBecomesKnown ==
    /\ ~timeKnown
    /\ timeKnown' = TRUE
    /\ UNCHANGED <<mActionQueue, mEventQueue, mSysTimeValid, mBackends, action, sent, lost, accepted>>

-----------------------------------------------------------------------------
AnalyticsNext ==
    \/ \E stamped \in BOOLEAN : SendEvent(stamped)
    \/ PushShutdown
    \/ TakeAction \/ TakePopulate \/ PopulateTimeInfo \/ CarryOutSend \/ ThreadEnds
    \/ TimeBecomesKnown

AnalyticsSpec == AnalyticsInit /\ [][AnalyticsNext]_analyticsVars

-----------------------------------------------------------------------------
(* What is claimed. *)

\* All the events as actions, from the first that was sent to the last in
\* the queue, and where in this line an event is.
Line ==
    LET past == sent \o mEventQueue
    IN  [k \in DOMAIN past |-> SendEventAction(past[k])] \o <<action>> \o mActionQueue
Sends == {k \in DOMAIN Line : Line[k].type = "send"}

\* No event is sent twice or overtaken by one of its kind, and none is lost
\* that the backend could have had: what was sent, what waits for the time,
\* what the thread has in hand and what is in the queue are, in this order,
\* what was accepted and not thrown away; and thrown away is only what no
\* backend was there for, or what waited for a time that was still unknown
\* when the thread ended.
EventsKeepOrder ==
    LET kept == {Line[k].payload : k \in Sends}
    IN  /\ kept \cup lost = {accepted[k] : k \in DOMAIN accepted}
        /\ kept \cap lost = {}
        /\ \A e \in lost : mBackends => action = Ended /\ ~mSysTimeValid /\ ~e.stamped
        /\ \A j, k \in Sends :
              j < k /\ Line[j].payload.stamped = Line[k].payload.stamped =>
                  Line[j].payload.id < Line[k].payload.id
=============================================================================
