------------------------- MODULE MCLifecycleManager -------------------------
(***************************************************************************)
(* Instances of LifecycleManager for TLC: the paths are the ones the       *)
(* search of StateHandler finds.                                           *)
(***************************************************************************)
EXTENDS LifecycleProperties, StatePath, TLC

DfsSteps ==
    [s \in LifecycleStates |-> [t \in LifecycleStates |->
        StepsFound(mPossibleStateTransitions, s, t)]]

\* The theorem about EventsTellHistory asks this of the paths.
ASSUME SearchAssumption == TerminatesAlike

Symmetry == Permutations(Contexts)
=============================================================================
