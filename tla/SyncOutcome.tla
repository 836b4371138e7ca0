----------------------------- MODULE SyncOutcome -----------------------------
(***************************************************************************)
(* What a call of syncmount::do_sync may leave behind, as its caller sees  *)
(* it: the VM's pause count and whether the guest has flushed its page     *)
(* cache.  SyncMount uses this in place of do_sync; SyncRefinement shows   *)
(* that DoSync does no more than this.                                     *)
(***************************************************************************)
EXTENDS Integers

CONSTANT NestedPause  \* TRUE: the hypervisor counts pauses; FALSE: a flag

(* The hypervisor, as vmi_pause_vm and vmi_resume_vm use it. *)

PauseVM(p)  == IF NestedPause THEN p + 1 ELSE 1
ResumeVM(p) == IF NestedPause /\ p > 0 THEN p - 1 ELSE 0

(* A VM with pause count p is paused for the planting of breakpoints, and  *)
(* the call returns if the kernel lacks the symbols.  Otherwise the VM is  *)
(* resumed and, unless the global interrupted is set, the event loop runs: *)
(* it ends with a pause when the guest has synced or a listen has failed,  *)
(* with two when the listen fails that ran the last callback, and without  *)
(* one at the safety halt.  One resume ends the call.  A guest that is     *)
(* still paused takes part in nothing: then the loop only ends if it is    *)
(* cut short, or does not end at all (no outcome); nor does it end when    *)
(* the ghost disk could not be attached and the guest does not reach dwork *)
(* by itself.                                                              *)
Outcomes(p, known, interrupted, cut) ==
  LET once    == ResumeVM(PauseVM(p))
      End(q, f) == [paused |-> ResumeVM(q), flushed |-> f]
      looped  == IF once = 0 THEN {End(PauseVM(once), TRUE)} ELSE {}
      late    == IF once = 0 THEN {End(PauseVM(PauseVM(once)), TRUE)} ELSE {}
      failed  == {End(PauseVM(once), FALSE)}
      halted  == IF once = 0 THEN {End(once, FALSE)} ELSE {}
  IN  CASE ~known -> {[paused |-> PauseVM(p), flushed |-> FALSE]}
        [] known /\ interrupted -> {End(once, FALSE)}
        [] known /\ ~interrupted /\ cut ->
             looped \cup late \cup failed \cup halted
        [] OTHER -> looped
=============================================================================
