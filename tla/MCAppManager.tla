---------------------------- MODULE MCAppManager ----------------------------
(***************************************************************************)
(* Instances of AppManager for TLC.                                        *)
(***************************************************************************)
EXTENDS AppManager, StatePath

DfsSteps ==
    [s \in LifecycleStates |-> [t \in LifecycleStates |->
        StepsFound(mPossibleStateTransitions, s, t)]]
=============================================================================
