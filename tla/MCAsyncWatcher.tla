--------------------------- MODULE MCAsyncWatcher ---------------------------
(***************************************************************************)
(* The main script and two tasks share watchers; t1 is a background task,  *)
(* t2 can be cancelled.                                                    *)
(***************************************************************************)
EXTENDS AsyncWatcher

CONSTANTS t1, t2, w1, w2, w3, w4

MCTasks == {t1, t2}
MCBackground == {t1}
MCCancellable == {t2}
MCCalls == [f \in Fibers |-> 2]
MCWatchers == {w1, w2, w3, w4}
MCKind == (w1 :> "timer") @@ (w2 :> "poll") @@ (w3 :> "monitor") @@ (w4 :> "signal")

\* One watcher is open.
MCInit == Init /\ Cardinality({w \in Watchers : ~closed[w]}) = 1
MCSpec == MCInit /\ [][Next]_vars /\ WF_vars(Internal)
=============================================================================
