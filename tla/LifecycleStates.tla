-------------------------- MODULE LifecycleStates --------------------------
(***************************************************************************)
(* The states an application instance goes through and the transition      *)
(* table of the LifecycleManager plugin (StateHandler::initialize).        *)
(***************************************************************************)
EXTENDS Sequences, Naturals

LifecycleStates ==
    {"UNLOADED", "LOADING", "INITIALIZING", "PAUSED",
     "ACTIVE", "SUSPENDED", "HIBERNATED", "TERMINATING"}

(***************************************************************************)
(* For each state the ordered list of states it may be entered from.  The  *)
(* order matters: the search below tries the predecessors in this order.   *)
(***************************************************************************)
mPossibleStateTransitions ==
    [s \in LifecycleStates |->
        CASE s = "UNLOADED"     -> <<>>
          [] s = "LOADING"      -> <<"UNLOADED">>
          [] s = "INITIALIZING" -> <<"LOADING">>
          [] s = "PAUSED"       -> <<"INITIALIZING", "ACTIVE", "SUSPENDED">>
          [] s = "ACTIVE"       -> <<"PAUSED">>
          [] s = "SUSPENDED"    -> <<"INITIALIZING", "PAUSED", "HIBERNATED">>
          [] s = "HIBERNATED"   -> <<"SUSPENDED">>
          [] s = "TERMINATING"  -> <<"PAUSED", "SUSPENDED">>]

(***************************************************************************)
(* The same table as a set of edges, closed by the edge out of             *)
(* TERMINATING that changeState adds to every path that ends there.        *)
(***************************************************************************)
Edges ==
    {<<"UNLOADED", "LOADING">>, <<"LOADING", "INITIALIZING">>,
     <<"INITIALIZING", "PAUSED">>, <<"ACTIVE", "PAUSED">>,
     <<"SUSPENDED", "PAUSED">>, <<"PAUSED", "ACTIVE">>,
     <<"INITIALIZING", "SUSPENDED">>, <<"PAUSED", "SUSPENDED">>,
     <<"HIBERNATED", "SUSPENDED">>, <<"SUSPENDED", "HIBERNATED">>,
     <<"PAUSED", "TERMINATING">>, <<"SUSPENDED", "TERMINATING">>,
     <<"TERMINATING", "UNLOADED">>}

(***************************************************************************)
(* The steps changeState takes towards a target follow the table; they end *)
(* in the target, or in UNLOADED behind TERMINATING, and meet these states *)
(* nowhere before.                                                         *)
(***************************************************************************)
Walk(s, p) ==
    /\ <<s, p[1]>> \in Edges
    /\ \A i \in 1..(Len(p) - 1) : <<p[i], p[i + 1]>> \in Edges

Final(t) == IF t = "TERMINATING" THEN "UNLOADED" ELSE t

IsPath(s, t, p) ==
    /\ Walk(s, p)
    /\ p[Len(p)] = Final(t)
    /\ \A i \in DOMAIN p : p[i] \in {Final(t), "UNLOADED"} =>
          i = Len(p) /\ (p[i] = "UNLOADED" => t = "TERMINATING")
=============================================================================
