-------------------------- MODULE MCAsyncDeferred ---------------------------
(***************************************************************************)
(* A Deferred with a cancellation handler and a task, a combine of both, a *)
(* transform of the combine and one of the task, shared by the main script *)
(* and two other tasks, of which t1 is a background task.                  *)
(***************************************************************************)
EXTENDS AsyncDeferred

CONSTANTS t1, t2, d1, c1, x1, x2, u1

MCTasks == {t1, t2}
MCBackground == {t1}
MCCancellable == {}
MCCalls == [f \in Fibers |-> CASE f = Root -> 3 [] f = t1 -> 2 [] f = t2 -> 1]
MCPlain == {d1}
MCCombined == {c1}
MCTransformed == {x1, x2}
MCOutside == {u1}
MCInputs == c1 :> <<d1, u1>>
MCSource == (x1 :> c1) @@ (x2 :> u1)
MCHandled == <<d1>>

\* One order of creation.
MCInit == Init /\ ready = <<t1, t2>> /\ shutdown = <<d1>>
MCSpec == MCInit /\ [][Next]_vars /\ WF_vars(Next)
=============================================================================
