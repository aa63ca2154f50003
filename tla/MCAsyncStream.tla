--------------------------- MODULE MCAsyncStream ----------------------------
(***************************************************************************)
(* A stream with a ring buffer of two cells.  The main script leaves one   *)
(* asynchronous write behind; t1 reads, flushes and closes; t2 reads,      *)
(* writes, flushes and shuts the sides down.                               *)
(***************************************************************************)
EXTENDS AsyncStream

CONSTANTS t1, t2

MCTasks == {t1, t2}
MCBackground == {}
MCCalls == [f \in Fibers |-> CASE f = Root -> 1 [] f = t1 -> 3 [] f = t2 -> 3]
MCMay == (Root :> {"asyncwrite"})
         @@ (t1 :> {"read", "timedread", "flush", "close"})
         @@ (t2 :> {"read", "write", "flush", "shutwr", "shutrd"})

\* The reader can be cancelled; in the run about cancelled writes, the writer.
MCCancellable == {t1}
MCWriterCancellable == {t2}

\* One order of creation.
MCInit == Init /\ ready = <<t1, t2>>
MCSpec == /\ MCInit /\ [][Next]_vars
          /\ WF_vars(Internal) /\ WF_vars(timeout_read) /\ WF_vars(WriteCancelled)
=============================================================================
