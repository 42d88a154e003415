------------------------------ MODULE StatePath ------------------------------
(***************************************************************************)
(* StateHandler::isValidTransition: a depth-first search that runs         *)
(* backwards from the target over the predecessor lists.  The map of seen  *)
(* states is shared by all branches and a branch that fails leaves its     *)
(* marks behind.  A table is a parameter, so the search can be checked on  *)
(* other graphs than the one the plugin builds.                            *)
(***************************************************************************)
EXTENDS LifecycleStates, SequencesExt

(***************************************************************************)
(* One round of the loop over the predecessors.  acc holds what the code   *)
(* passes by reference and returns: the map of seen states, the vector     *)
(* foundPath and pathPresent.  A round is skipped after the break and for  *)
(* a state that was seen; Unwind is what follows the recursive call r.     *)
(***************************************************************************)
SkipNoBreak(acc, p) == p \in acc.seen
Skip(acc, p)        == acc.present \/ p \in acc.seen

Unwind(acc, r, p) ==
    [r EXCEPT !.path = IF r.present THEN acc.path \o Append(@, p) ELSE acc.path \o @]

isValidTransition(table, start, target) ==
    LET search[t \in DOMAIN table, seen \in SUBSET DOMAIN table] ==
            IF t = start
            THEN [present |-> TRUE, seen |-> seen, path |-> <<>>]
            ELSE FoldLeft(
                     LAMBDA acc, p :
                         IF Skip(acc, p) THEN acc ELSE Unwind(acc, search[p, acc.seen], p),
                     [present |-> FALSE, seen |-> seen \cup {t}, path |-> <<>>],
                     table[t])
    IN  search[target, {}]

(***************************************************************************)
(* The steps changeState takes from `start' to `target': the path without  *)
(* its first element, the target, and UNLOADED after TERMINATING.  Empty   *)
(* when the request is refused or there is nothing to do.                  *)
(***************************************************************************)
StepsFound(table, start, target) ==
    LET found == isValidTransition(table, start, target)
    IN  IF start = target \/ ~found.present
        THEN <<>>
        ELSE Tail(found.path) \o <<target>>
             \o (IF target = "TERMINATING" THEN <<"UNLOADED">> ELSE <<>>)
=============================================================================
