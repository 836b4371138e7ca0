-------------------------- MODULE MCSyncRefinement --------------------------
(***************************************************************************)
(* An instance of SyncRefinement for TLC.                                  *)
(***************************************************************************)
EXTENDS SyncRefinement

CONSTANTS k1, k2

(* The guest queues other work and calls sync by itself. *)
BusyGuest == [f \in Functions |-> IF f = "dwork" THEN 0 ELSE 1]
=============================================================================
