---------------------------- MODULE MCPrintStatus ----------------------------
(***************************************************************************)
(* An instance of PrintStatus for TLC.                                     *)
(***************************************************************************)
EXTENDS MCSyncMount, PrintStatus
=============================================================================
