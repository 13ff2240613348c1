------------------------- MODULE MCManagementAccess -------------------------
(* Three requests, one of them a write, with a slot each and one connection  *)
(* for all: two may wait for it, and the write competes with the loop of the *)
(* coordinator.                                                              *)
EXTENDS ManagementAccess

CONSTANTS r1, r2, r3
=============================================================================
