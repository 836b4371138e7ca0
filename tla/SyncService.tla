----------------------------- MODULE SyncService -----------------------------
(***************************************************************************)
(* The abstract syncmount::do_sync: a caller that holds vmi_global_lock    *)
(* enters, and comes back to one of the Outcomes for the VM as it was.     *)
(* Between calls do_nbd_mount pauses the VM and release_mount resumes it.  *)
(***************************************************************************)
EXTENDS SyncOutcome

CONSTANT MaxPause  \* bound: pauses outside do_sync

VARIABLES
  inside,   \* is a call under way?
  known,    \* does the guest's kernel have the symbols?
  pauses,   \* the VM's pause count, as callers see it
  skip,     \* the global interrupted, as a call finds it
  cut,      \* was the last event loop cut short?
  flushed   \* has the guest synced since the last call began?

vars == <<inside, known, pauses, skip, cut, flushed>>

Init ==
  /\ inside = FALSE /\ pauses = 0 /\ skip = FALSE /\ cut = FALSE
  /\ flushed = FALSE
  /\ known \in BOOLEAN

Enter ==
  /\ ~inside
  /\ inside' = TRUE
  /\ flushed' = FALSE /\ cut' = FALSE
  /\ UNCHANGED <<known, pauses, skip>>

(* A guest may also have synced by itself. *)
Leave ==
  /\ inside
  /\ inside' = FALSE
  /\ cut' \in BOOLEAN
  /\ \E out \in Outcomes(pauses, known, skip, cut') :
       /\ pauses' = out.paused
       /\ flushed' \in {out.flushed, TRUE}
  /\ skip' = (skip \/ known)
  /\ UNCHANGED known

Outside ==
  /\ ~inside
  /\ \/ /\ pauses' \in {PauseVM(pauses), ResumeVM(pauses)}
        /\ pauses' <= MaxPause
        /\ UNCHANGED flushed
     \/ flushed' = TRUE /\ UNCHANGED pauses
  /\ UNCHANGED <<inside, known, skip, cut>>

Next == Enter \/ Leave \/ Outside

Spec == Init /\ [][Next]_vars
=============================================================================
