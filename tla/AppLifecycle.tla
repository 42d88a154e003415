---------------------------- MODULE AppLifecycle ----------------------------
(***************************************************************************)
(* What the LifecycleManager promises about the states of applications,    *)
(* without requests, threads or events: one application at a time is       *)
(* moved, along the transition table, towards the goal of one request; a   *)
(* movement that is not abandoned ends in its goal, or in UNLOADED when    *)
(* the goal was TERMINATING.  AppManager keeps it too, whatever it asks.   *)
(***************************************************************************)
EXTENDS LifecycleStates

CONSTANTS Contexts, Null

VARIABLES state, moving, goal
vars == <<state, moving, goal>>

Init == /\ state = [c \in Contexts |-> "UNLOADED"]
        /\ moving = Null
        /\ goal = Null

Begin(c, g) ==
    /\ moving = Null
    /\ state[c] # g
    /\ moving' = c
    /\ goal' = g
    /\ UNCHANGED state

Move(s) ==
    /\ moving \in Contexts
    /\ <<state[moving], s>> \in Edges
    /\ state' = [state EXCEPT ![moving] = s]
    /\ \/ UNCHANGED <<moving, goal>>
       \/ s = Final(goal) /\ moving' = Null /\ goal' = Null

Abandon ==
    /\ moving # Null
    /\ moving' = Null
    /\ goal' = Null
    /\ UNCHANGED state

Next == \/ \E c \in Contexts, g \in LifecycleStates : Begin(c, g)
        \/ \E s \in LifecycleStates : Move(s)
        \/ Abandon

Spec == Init /\ [][Next]_vars
=============================================================================
