------------------------- MODULE MCSyncNamedMemory -------------------------
(***************************************************************************)
(* Two processes open and close one name, twice each.                      *)
(***************************************************************************)
EXTENDS SyncNamedMemory

CONSTANTS p1, p2

MCProcs == {p1, p2}
=============================================================================
