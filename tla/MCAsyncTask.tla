---------------------------- MODULE MCAsyncTask ----------------------------
(***************************************************************************)
(* Three tasks: the main script awaits all of them, t1 awaits t2 and t3,   *)
(* t2 awaits t3; t2 runs in the background.                                *)
(***************************************************************************)
EXTENDS AsyncTask

CONSTANTS t1, t2, t3

MCTasks == {t1, t2, t3}
MCBackground == {t2}
MCCalls == [f \in Fibers |-> IF f = t3 THEN 1 ELSE 2]
MCHandles == [f \in Fibers |-> CASE f = Root -> {t1, t2, t3}
                                 [] f = t1 -> {t2, t3}
                                 [] f = t2 -> {t3}
                                 [] f = t3 -> {}]
MCChained == {t1, t2}

=============================================================================
