------------------------- MODULE MCSyncReaderwriter -------------------------
(***************************************************************************)
(* Three processes share a reader-writer lock.                             *)
(***************************************************************************)
EXTENDS SyncReaderwriter

CONSTANTS p1, p2, p3

MCProcs == {p1, p2, p3}
MCCalls == [p \in Procs |-> IF p = p1 THEN 2 ELSE 1]
MCAmounts == [p \in Procs |-> CASE p = p1 -> {"INFINITE", "some"}
                                [] p = p2 -> {"INFINITE"}
                                [] p = p3 -> {"some", "none"}]
=============================================================================
