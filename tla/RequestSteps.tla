---------------------------- MODULE RequestSteps ----------------------------
(***************************************************************************)
(* The steps from which the requests of plugins are put together: the      *)
(* locks they take, the calls they make and what they do with the results. *)
(* A request is a sequence of steps.  It has one result, success or not,   *)
(* which starts as success; Requests carries the steps out.                *)
(***************************************************************************)
EXTENDS Sequences

NoSteps == <<>>
RequestStep(do, x, then, else) ==
    [do |-> do, of |-> x, then |-> then, else |-> else, under |-> ""]
SimpleStep(do, x) == RequestStep(do, x, NoSteps, NoSteps)

\* A lock, or something begun that has to be ended.
Takes(l)   == SimpleStep("take", l)
Frees(l)   == SimpleStep("free", l)

\* result = f(), which succeeds with effect or fails without.
Try(f)     == SimpleStep("try", f)
\* The same for f carried out by another thread, which is waited for.
Awaits(f)  == SimpleStep("await", f)
\* The same for f that has failed before.
Retry(f)   == SimpleStep("retry", f)
\* What f did is taken back, if that succeeds.
Undo(f)    == SimpleStep("undo", f)
\* f(), whose result is not looked at.
Ignore(f)  == SimpleStep("ignore", f)
\* f() without a result, or an assignment.
Effect(f)  == SimpleStep("effect", f)
\* A look at what later steps write back.
Looks      == SimpleStep("look", "")
\* The step uses what lock l guards.
Under(l, step) == [step EXCEPT !.under = l]
\* An exception, perhaps, which ends the process.
Throws     == SimpleStep("throw", "")

Sets(b)    == SimpleStep("set", b)
IfGood(then, else) == RequestStep("ifGood", "", then, else)
\* A look at parameters, data or the state of others.
Either(then, else) == RequestStep("either", "", then, else)
Maybe(then)        == Either(then, NoSteps)
Repeat(body)       == SimpleStep("repeat", body)

\* A function body; Return(b) leaves it with the result b, Leaves with the
\* result as it is.
Returned   == SimpleStep("returned", "")
Body(body) == body \o <<Returned>>
Return(b)  == SimpleStep("return", b)
Leaves     == SimpleStep("leave", "")

\* A lock held for the length of a function.
Guarded(l, body) == <<Takes(l)>> \o Body(body) \o <<Frees(l)>>
Within(l, body)  == <<Takes(l)>> \o body \o <<Frees(l)>>
\* A look at what l guards, on which later steps depend.
Peek(l)          == Within(l, <<Under(l, Looks)>>)

\* What many requests begin with: without its parameters it is refused.
Needs(body) == <<Either(body, <<Sets(FALSE)>>)>>
\* A query that succeeds or not and changes nothing.
Asks        == Either(<<Sets(TRUE)>>, <<Sets(FALSE)>>)
=============================================================================
