-------------------------- MODULE MCAsyncCondition --------------------------
(***************************************************************************)
(* The main script and three tasks share one condition; t1 is a background *)
(* task, t2 and the main script are in a context that can be cancelled.    *)
(***************************************************************************)
EXTENDS AsyncCondition

CONSTANTS t1, t2, t3

MCTasks == {t1, t2, t3}
MCBackground == {t1}
MCCancellable == {t2, Root}
MCCalls == [f \in Fibers |-> IF f = t3 THEN 2 ELSE 3]

=============================================================================
