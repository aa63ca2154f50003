--------------------------- MODULE MCAsyncChannel ---------------------------
(***************************************************************************)
(* The main script and two tasks, of which one is a background task and    *)
(* the other can be cancelled, share a channel without buffer and one with *)
(* two slots.                                                              *)
(***************************************************************************)
EXTENDS AsyncChannel

CONSTANTS t1, t2, c0, c2

MCTasks == {t1, t2}
MCBackground == {t1}
MCCancellable == {t2}
MCCalls == [f \in Fibers |-> 2]
MCChannels == {c0, c2}
MCSize == (c0 :> 0) @@ (c2 :> 2)

\* The two channels are used one at a time: the other one is closed.
MCInit == Init /\ \E c \in Channels : closed = [d \in Channels |-> d = c]
MCSpec == MCInit /\ [][Next]_vars /\ WF_vars(Next)

=============================================================================
