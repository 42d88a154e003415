----------------------------- MODULE MCStatePath -----------------------------
(***************************************************************************)
(* Checks the search against reachability, on the plugin's own table and   *)
(* on every predecessor table over three states.                           *)
(***************************************************************************)
EXTENDS StatePath, Naturals, FiniteSets

CONSTANT SmallNodes     \* the nodes of the enumerated tables

Lists(S) == UNION {{q \in [1..n -> S] : IsInjective(q)} : n \in 0..Cardinality(S)}

VARIABLES table, start, target, answer
pathVars == <<table, start, target, answer>>

PathInit ==
        /\ \/ table = mPossibleStateTransitions
           \/ table \in [SmallNodes -> Lists(SmallNodes)]
        /\ start \in DOMAIN table
        /\ target \in DOMAIN table
        /\ answer = <<>>

Ask == /\ answer = <<>>
       /\ answer' = <<isValidTransition(table, start, target),
                      StepsFound(table, start, target)>>
       /\ UNCHANGED <<table, start, target>>

-----------------------------------------------------------------------------
Precedes(a, b) == a \in ToSet(table[b])

\* The reference: as many rounds of one step as there are nodes.
ReachableFrom(s) ==
    FoldLeft(LAMBDA acc, k : acc \cup {b \in DOMAIN table : \E a \in acc : Precedes(a, b)},
             {s}, [k \in 1..Cardinality(DOMAIN table) |-> k])

Answered == answer # <<>>
Found    == answer[1].present

\* isValidTransition answers true exactly when the target can be reached
\* from the start: marking the states of a failed branch as seen for good
\* never hides a path that a later branch needed.
FoundIffReachable == Answered => (Found <=> target \in ReachableFrom(start))

\* The vector filled on the way out of the recursion is a simple path in the
\* table: it begins at the start (so changeState may skip its element 0),
\* its last element precedes the target, and no state is entered twice: an
\* application is never started, resumed or suspended twice by one request.
PathIsSimple ==
    (Answered /\ Found /\ start # target) =>
        LET p == answer[1].path \o <<target>>
        IN  /\ p[1] = start
            /\ \A i \in 1..(Len(p) - 1) : Precedes(p[i], p[i + 1])
            /\ IsInjective(p)

\* The answer to a request is right, and so is the path that comes with it.
PathIsRight == FoundIffReachable /\ PathIsSimple
=============================================================================
