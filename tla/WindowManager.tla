---------------------------- MODULE WindowManager ----------------------------
(***************************************************************************)
(* RDKWindowManager: callers of CreateDisplay queue a request and sleep on *)
(* its semaphore; the render thread serves the queue once per frame; the   *)
(* plugin may be deinitialised in between, and initialised again in the    *)
(* same process.                                                           *)
(*                                                                         *)
(* Every action is one section of code under gRdkWindowManagerMutex, or    *)
(* the wait between two of them.                                           *)
(***************************************************************************)
EXTENDS Naturals, SequencesExt

CONSTANTS
    WmCallers,      \* threads of the worker pool with a CreateDisplay
    WmNames,        \* client names; each is spelled with and without capitals
    WmFaults,       \* what may fail
    MaxCreates      \* bound: calls of CreateDisplay

ASSUME WindowManagerAssumption ==
    /\ WmFaults \subseteq {"list", "create", "wait", "listener"}
    /\ MaxCreates \in Nat

Spellings == [name : WmNames, capitals : BOOLEAN]
toLower(s) == [s EXCEPT !.capitals = FALSE]
NoOne == [name |-> "", capitals |-> FALSE]

VARIABLES
    plugin,                  \* how far Initialize and Deinitialize are
    renderThread,            \* shellThread
    sRunning,                \* a static variable: true once per process
    gCreateDisplayRequests,  \* requests: client, caller, whether it still waits
    wmDisplays,              \* external: the compositor's clients, in lower case
    wmListeners,             \* clients with mEventListener
    unheard,                 \* history: clients for which a caller met an error
    caller,                  \* per caller, where it is, what it asks for, mResult
    creates                  \* bound: calls so far

renderVars == <<plugin, renderThread, sRunning>>
windowVars == <<renderVars, gCreateDisplayRequests, wmDisplays, wmListeners, unheard, caller, creates>>

WindowInit ==
    /\ plugin = "off" /\ renderThread = "none" /\ sRunning = TRUE
    /\ gCreateDisplayRequests = <<>>
    /\ wmDisplays = {} /\ wmListeners = {} /\ unheard = {}
    /\ caller = [c \in WmCallers |-> [at |-> "idle", client |-> NoOne, mResult |-> FALSE]]
    /\ creates = 0

At(c, where) == caller[c].at = where
Goes(c, where) == caller' = [caller EXCEPT ![c].at = where]

-----------------------------------------------------------------------------
(* CreateDisplay. *)

\* createDisplay begins; a call without a client changes nothing.
CreateDisplay(c, s) ==
    /\ plugin = "on" /\ At(c, "idle") /\ creates < MaxCreates
    /\ caller' = [caller EXCEPT ![c] = [at |-> "asking", client |-> s, mResult |-> FALSE]]
    /\ creates' = creates + 1
    /\ UNCHANGED <<renderVars, gCreateDisplayRequests, wmDisplays, wmListeners, unheard>>

\* isClientExists: first the queue, by the spelling of the request, ...
IsQueued(s) == \E q \in ToSet(gCreateDisplayRequests) : q.client = s

LooksInQueue(c) ==
    /\ At(c, "asking")
    /\ Goes(c, IF IsQueued(caller[c].client) THEN "idle" ELSE "notQueued")
    /\ UNCHANGED <<renderVars, gCreateDisplayRequests, wmDisplays, wmListeners, unheard, creates>>

\* ... then, in a section of its own, the compositor's clients in lower
\* case.  When the list cannot be had, the client is taken not to exist.
LooksAtClients(c) ==
    /\ At(c, "notQueued")
    /\ \E clientList \in {wmDisplays} \cup (IF "list" \in WmFaults THEN {{}} ELSE {}) :
          Goes(c, IF toLower(caller[c].client) \in clientList THEN "idle" ELSE "new")
    /\ UNCHANGED <<renderVars, gCreateDisplayRequests, wmDisplays, wmListeners, unheard, creates>>

Pushes(c) ==
    /\ At(c, "new")
    /\ gCreateDisplayRequests' = Append(gCreateDisplayRequests,
                                        [client |-> caller[c].client, caller |-> c, waits |-> TRUE])
    /\ Goes(c, "waiting")
    /\ UNCHANGED <<renderVars, wmDisplays, wmListeners, unheard, creates>>

\* sem_wait ends with an error before sem_post: the caller returns with
\* mResult still false, and its request stays in the queue.
WaitFails(c) ==
    /\ "wait" \in WmFaults /\ At(c, "waiting")
    /\ Goes(c, "idle")
    /\ gCreateDisplayRequests' = [k \in DOMAIN gCreateDisplayRequests |->
          LET q == gCreateDisplayRequests[k]
          IN  IF q.caller = c THEN [q EXCEPT !.waits = FALSE] ELSE q]
    /\ unheard' = unheard \cup {toLower(caller[c].client)}
    /\ UNCHANGED <<renderVars, wmDisplays, wmListeners, creates>>

\* After sem_wait.  Deinitialize leaves no mEventListener to add.
AddsAnyway(c) == plugin # "off"
Adds(c) == caller[c].mResult /\ plugin # "off"

\* That addListener fails is logged, and success is returned all the same.
Wakes(c) ==
    /\ At(c, "posted")
    /\ Goes(c, "idle")
    /\ \/ /\ wmListeners' = wmListeners \cup (IF Adds(c) THEN {toLower(caller[c].client)} ELSE {})
          /\ UNCHANGED unheard
       \/ /\ "listener" \in WmFaults /\ Adds(c)
          /\ unheard' = unheard \cup {toLower(caller[c].client)}
          /\ UNCHANGED wmListeners
    /\ UNCHANGED <<renderVars, gCreateDisplayRequests, wmDisplays, creates>>

-----------------------------------------------------------------------------
(* The render thread. *)

\* No guard keeps it from coming a second time in the process: its listener
\* is a new one, and sRunning still false.
Initialize ==
    /\ plugin = "off"
    /\ plugin' = "on" /\ renderThread' = "begun"
    /\ wmListeners' = {}
    /\ UNCHANGED <<sRunning, gCreateDisplayRequests, wmDisplays, unheard, caller, creates>>

RenderBegins ==
    /\ renderThread = "begun"
    /\ renderThread' = IF sRunning THEN "rendering" ELSE "ended"
    /\ UNCHANGED <<plugin, sRunning, gCreateDisplayRequests, wmDisplays, wmListeners, unheard, caller, creates>>

\* The requests of a frame, one after the other.  The compositor refuses a
\* client it has, and may refuse any: what makes a display is the first
\* request for it that is not refused.
Client(k) == toLower(gCreateDisplayRequests[k].client)
IsMade(k, refused) ==
    /\ Client(k) \notin wmDisplays
    /\ k \notin refused
    /\ \A j \in 1..(k - 1) : Client(j) = Client(k) => j \in refused

Of(c) == {k \in DOMAIN gCreateDisplayRequests :
            gCreateDisplayRequests[k].caller = c /\ gCreateDisplayRequests[k].waits}

Served(refused) ==
    LET made == {k \in DOMAIN gCreateDisplayRequests : IsMade(k, refused)}
    IN  [displays |-> wmDisplays \cup {Client(k) : k \in made},
         callers  |-> [c \in WmCallers |->
            IF Of(c) # {}
            THEN [caller[c] EXCEPT !.at = "posted", !.mResult = Of(c) \cap made # {}]
            ELSE caller[c]]]

\* A request that could not be met is dropped without sem_post.
ServedSilently(refused) ==
    LET done == Served(refused)
    IN  [done EXCEPT !.callers = [c \in WmCallers |->
            IF done.callers[c].at = "posted" /\ ~done.callers[c].mResult /\ At(c, "waiting")
            THEN caller[c] ELSE done.callers[c]]]

Frame(refused) == Served(refused)

RenderFrame ==
    /\ renderThread = "rendering"
    /\ \E refused \in SUBSET (IF "create" \in WmFaults THEN DOMAIN gCreateDisplayRequests ELSE {}) :
          /\ wmDisplays' = Frame(refused).displays
          /\ caller' = Frame(refused).callers
    /\ gCreateDisplayRequests' = <<>>
    /\ renderThread' = IF sRunning THEN "rendering" ELSE "ended"
    /\ UNCHANGED <<plugin, sRunning, wmListeners, unheard, creates>>

-----------------------------------------------------------------------------
(* Deinitialize. *)

\* RdkWindowManager::deinitialize and sRunning, under the mutex.
StopsRunning ==
    /\ plugin = "on"
    /\ plugin' = "stopping" /\ sRunning' = FALSE
    /\ UNCHANGED <<renderThread, gCreateDisplayRequests, wmDisplays, wmListeners, unheard, caller, creates>>

\* The thread has been joined: the listener leaves the clients there are, if
\* the compositor tells them and does as it is asked.
RemovesListeners ==
    /\ plugin = "stopping" /\ renderThread = "ended"
    /\ plugin' = "stopped"
    /\ \E stay \in SUBSET (IF WmFaults \cap {"list", "listener"} = {} THEN {} ELSE wmListeners) :
          wmListeners' = (wmListeners \ wmDisplays) \cup stay
    /\ UNCHANGED <<renderThread, sRunning, gCreateDisplayRequests, wmDisplays, unheard, caller, creates>>

\* Requests that came after the last frame lose their semaphore under the
\* caller that waits for it.
ClearsRequests ==
    /\ plugin = "stopped"
    /\ plugin' = "off"
    /\ gCreateDisplayRequests' = <<>>
    /\ UNCHANGED <<renderThread, sRunning, wmDisplays, wmListeners, unheard, caller, creates>>

-----------------------------------------------------------------------------
CallerStep(c) == LooksInQueue(c) \/ LooksAtClients(c) \/ Pushes(c) \/ Wakes(c)
CallerMay(c) == WaitFails(c) \/ \E s \in Spellings : CreateDisplay(c, s)
RenderStep == RenderBegins \/ RenderFrame

WindowNext ==
    \/ Initialize \/ StopsRunning \/ RemovesListeners \/ ClearsRequests
    \/ RenderStep
    \/ \E c \in WmCallers : CallerStep(c) \/ CallerMay(c)

\* Callers and the render thread are threads, and no lock is held for good.
WindowFairness ==
    /\ \A c \in WmCallers : WF_windowVars(CallerStep(c))
    /\ WF_windowVars(RenderStep)

WindowSpec == WindowInit /\ [][WindowNext]_windowVars /\ WindowFairness

-----------------------------------------------------------------------------
(* What is claimed. *)

\* A call of CreateDisplay returns, whether the compositor makes the display
\* or refuses it, until the plugin is deinitialised for the first time in the
\* process: from then on nothing sets sRunning again, and a call of a later
\* activation waits for a thread that has ended.
CreateReturns ==
    \A c \in WmCallers : ~At(c, "idle") ~> (At(c, "idle") \/ ~sRunning)

\* While the plugin is on for the first time and no call is in progress, it
\* listens to nothing but clients the compositor has, and to every one of
\* them but those for which a caller could not wait or could not listen,
\* whatever calls for one client raced and whichever of them was refused.
ClientsAreHeard ==
    plugin = "on" /\ sRunning /\ (\A c \in WmCallers : At(c, "idle")) =>
        wmListeners \subseteq wmDisplays /\ wmDisplays \ wmListeners \subseteq unheard
=============================================================================
