------------------------------ MODULE MCClients ------------------------------
(***************************************************************************)
(* Two scanners and a testmain, on two VMs.                                *)
(***************************************************************************)
EXTENDS Clients

CONSTANTS s1, s2, m, a, b

(* The failures somebody notices, with the interrupt; those nobody does:   *)
(* of the ghost disk and umount, and of the other calls; all at once.      *)
FaultLoads ==
  {{"init", "connect", "fork", "intr"},
   {"attach", "umount"},
   {"init", "connect", "mount", "fork", "chdir", "exec"},
   Failures \ {"intr"}}

OneVmTwice == [p \in Procs |-> IF p = s2 THEN b ELSE a]
=============================================================================
