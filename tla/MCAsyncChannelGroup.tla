------------------------ MODULE MCAsyncChannelGroup ------------------------
(***************************************************************************)
(* The main script and two tasks, which can be cancelled and of which t1   *)
(* is a background task, have a group each over an unbuffered channel c1   *)
(* and a channel c2 with one slot; the group of t2 has the channels in the *)
(* other order and the SHUFFLE flag.                                       *)
(***************************************************************************)
EXTENDS AsyncChannelGroup

CONSTANTS t1, t2, c1, c2

MCTasks == {t1, t2}
MCBackground == {t1}
MCCancellable == {t1, t2}
MCSize == (c1 :> 0) @@ (c2 :> 1)
MCEntries == [f \in Fibers |-> IF f = t2 THEN <<c2, c1>> ELSE <<c1, c2>>]
MCShuffled == {t2}
MCCalls == [f \in Fibers |-> IF f = t2 THEN 2 ELSE 1]

=============================================================================
