------------------------------- MODULE MCShell -------------------------------
(***************************************************************************)
(* Five parts that share nothing, for TLC in one run: the path search of   *)
(* LifecycleManager, RDKWindowManager, RDKShell, the activation of any     *)
(* plugin, and any one request of a plugin.  The choice of part made at    *)
(* the start says which of them runs; the others stand still.              *)
(***************************************************************************)
EXTENDS MCStatePath, WindowManager, RDKShell, PluginActivation, Requests

VARIABLE part
allVars == <<part, pathVars, windowVars, shellVars, pluginVars, requestVars>>

\* Each part has choices of its own to start from; they are fixed where
\* another part runs.
Init ==
    /\ part \in {"path", "windows", "shell", "plugins", "requests"}
    /\ part # "path" => /\ table = mPossibleStateTransitions
                        /\ start = "LOADING" /\ target = "LOADING"
    /\ part # "plugins" => hosted = "PersistentStore" /\ apart = TRUE /\ cleansUp = TRUE
    /\ part # "requests" => serving = <<"AppManager", "Register">>
    /\ PathInit /\ WindowInit /\ ShellInit /\ PluginInit /\ RequestInit

Only(p) == part = p /\ UNCHANGED part

Next ==
    \/ Only("path") /\ Ask /\ UNCHANGED <<windowVars, shellVars, pluginVars, requestVars>>
    \/ Only("windows") /\ WindowNext /\ UNCHANGED <<pathVars, shellVars, pluginVars, requestVars>>
    \/ Only("shell") /\ ShellNext /\ UNCHANGED <<pathVars, windowVars, pluginVars, requestVars>>
    \/ Only("plugins") /\ PluginNext /\ UNCHANGED <<pathVars, windowVars, shellVars, requestVars>>
    \/ Only("requests") /\ RequestNext /\ UNCHANGED <<pathVars, windowVars, shellVars, pluginVars>>

\* The fairness of each part, for the part that runs.
Fairness ==
    /\ \A c \in WmCallers : WF_windowVars(part = "windows" /\ CallerStep(c))
    /\ WF_windowVars(part = "windows" /\ RenderStep)
    /\ \A c \in RsCallers : WF_shellVars(part = "shell" /\ ShellStep(c))
    /\ \A a \in RsApps : WF_shellVars(part = "shell" /\ ChangeStep(a))
    /\ WF_shellVars(part = "shell" /\ ShellFrame)
    /\ WF_pluginVars(part = "plugins" /\ PluginStep)
    /\ WF_pluginVars(part = "plugins" /\ RunsSomeJob)

Spec == Init /\ [][Next]_allVars /\ Fairness

\* Every call that waits for the render thread returns, in either plugin.
CallsReturn == CreateReturns /\ ShellCallsReturn
=============================================================================
