------------------------------- MODULE Monitor -------------------------------
(***************************************************************************)
(* Monitor watches a plugin, has it deactivated when it is not operational *)
(* or takes too much memory, and activates it again, but not more often    *)
(* within a window of time than a limit says.                              *)
(*                                                                         *)
(* Observed plugins share nothing but the probing job; one is modelled.    *)
(* The framework activates and deactivates in jobs, one at a time, and     *)
(* notifies Monitor within.  Of the window only matters whether it is      *)
(* open.                                                                   *)
(***************************************************************************)
EXTENDS Naturals, Sequences

CONSTANTS
    RestartLimits,      \* the limits that may be set, 0 for none
    MaxFailures         \* bound: failures of the plugin

ASSUME MonitorAssumption == RestartLimits \subseteq Nat /\ MaxFailures \in Nat

VARIABLES
    plugin,                 \* external: inactive, good or bad
    watched,                \* _active, with its IMemory interface
    monitorJobs,            \* jobs that activate or deactivate the plugin
    restartLimit,           \* _restartLimit
    restartWindow,          \* whether _restartWindow is not 0
    windowOpen,             \* _restartWindowStart is set and not over
    restartCount,           \* _restartCount
    tries,                  \* history: restarts since the window opened or Monitor gave up
    failures                \* counter for the bound

restartVars == <<restartLimit, restartWindow, windowOpen, restartCount, tries>>
monitorVars == <<plugin, watched, monitorJobs, restartVars, failures>>

MonitorInit ==
    /\ plugin = "inactive"
    /\ watched = FALSE
    /\ monitorJobs = <<>>
    /\ restartLimit \in RestartLimits
    /\ restartWindow \in BOOLEAN
    /\ windowOpen = FALSE
    /\ restartCount = 0
    /\ tries = 0
    /\ failures = 0

-----------------------------------------------------------------------------
\* The count of restarts within the window: twice the last and one.
WithinWindow == windowOpen \/ ~restartWindow
NewCount == IF WithinWindow THEN restartCount + restartCount + 1 ELSE 0

AtMost(count) == restartLimit = 0 \/ count <= restartLimit
Below(count)  == restartLimit = 0 \/ count < restartLimit

\* RegisterRestart, and what Deinitialized does with its answer; job is the
\* queue without the job that is running.
RegisterRestart(jobs) ==
    /\ windowOpen' = (windowOpen \/ ~WithinWindow)
    /\ restartCount' = IF Below(NewCount) THEN NewCount ELSE 0
    /\ monitorJobs' = IF Below(NewCount) THEN Append(jobs, "activate") ELSE jobs
    /\ tries' = IF ~Below(NewCount) THEN 0 ELSE IF WithinWindow THEN tries + 1 ELSE 1
    /\ UNCHANGED <<restartLimit, restartWindow>>

\* Deactivated with the reason FAILURE or MEMORY_EXCEEDED.
Fails(jobs) ==
    /\ failures < MaxFailures
    /\ failures' = failures + 1
    /\ plugin' = "inactive"
    /\ watched' = FALSE
    /\ RegisterRestart(jobs)

Activated ==
    /\ plugin' = "good"
    /\ watched' = TRUE
    /\ UNCHANGED <<restartVars, failures>>

-----------------------------------------------------------------------------
\* The probing job: Evaluate.  It may come again before the plugin is
\* deactivated; Len bounds how often.
Probe ==
    /\ watched /\ plugin = "bad"
    /\ Len(monitorJobs) < 2
    /\ monitorJobs' = Append(monitorJobs, "deactivate")
    /\ UNCHANGED <<plugin, watched, restartVars, failures>>

\* External: the framework runs the first job, which does nothing if the
\* plugin is in that state already.
RunJob ==
    /\ monitorJobs # <<>>
    /\ LET rest == Tail(monitorJobs)
       IN  \/ Head(monitorJobs) = "deactivate" /\ plugin # "inactive" /\ Fails(rest)
           \/ Head(monitorJobs) = "activate" /\ plugin = "inactive" /\ Activated /\ monitorJobs' = rest
           \/ /\ (Head(monitorJobs) = "activate") # (plugin = "inactive")
              /\ monitorJobs' = rest
              /\ UNCHANGED <<plugin, watched, restartVars, failures>>

\* External: the plugin goes bad, or ends by itself, and users start and
\* stop it.
GoesBad ==
    /\ plugin = "good"
    /\ plugin' = "bad"
    /\ UNCHANGED <<watched, monitorJobs, restartVars, failures>>

Crashes == plugin # "inactive" /\ Fails(monitorJobs)

UserStarts == plugin = "inactive" /\ Activated /\ UNCHANGED monitorJobs

UserStops ==
    /\ plugin # "inactive"
    /\ plugin' = "inactive"
    /\ watched' = FALSE
    /\ UNCHANGED <<monitorJobs, restartVars, failures>>

WindowEnds ==
    /\ windowOpen
    /\ windowOpen' = FALSE
    /\ UNCHANGED <<plugin, watched, monitorJobs, restartLimit, restartWindow, restartCount, tries, failures>>

\* endpoint_restartlimits, at any time.
UpdateRestartLimits(limit, window) ==
    /\ restartLimit' = limit /\ restartWindow' = window
    /\ UNCHANGED <<plugin, watched, monitorJobs, windowOpen, restartCount, tries, failures>>

-----------------------------------------------------------------------------
MonitorNext ==
    \/ Probe \/ RunJob
    \/ GoesBad \/ Crashes \/ UserStarts \/ UserStops
    \/ WindowEnds
    \/ \E limit \in RestartLimits, window \in BOOLEAN : UpdateRestartLimits(limit, window)

MonitorSpec == MonitorInit /\ [][MonitorNext]_monitorVars

-----------------------------------------------------------------------------
(* What is claimed. *)

\* However the plugin fails and the limits change, Monitor restarts it no
\* more often than the limit that holds then says, since the window opened
\* or since it gave up last.
RestartsBounded ==
    [][tries' > tries => restartLimit = 0 \/ tries' <= restartLimit]_monitorVars
=============================================================================
