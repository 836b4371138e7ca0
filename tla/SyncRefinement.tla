---------------------------- MODULE SyncRefinement ----------------------------
(***************************************************************************)
(* DoSync together with the pauses its callers make, shown to implement    *)
(* SyncService: what SyncMount takes for granted of do_sync is what the    *)
(* breakpoints, callbacks and exits of the event loop amount to.           *)
(***************************************************************************)
EXTENDS DoSync

CONSTANT MaxPause  \* bound: pauses outside do_sync

VARIABLE entry  \* history: the VM and interrupted when the call began

Entered == [paused |-> paused, skip |-> interrupted # 0]

(* do_nbd_mount's pause and release_mount's resume, between calls.         *)
CallerPauses ==
  /\ phase = "idle"
  /\ paused' \in {PauseVM(paused), ResumeVM(paused)} /\ paused' <= MaxPause
  /\ UNCHANGED <<callVars, globalVars, events, ghost, guestVars, histVars>>

InitR == Init /\ entry = Entered

NextR ==
  /\ Next \/ CallerPauses
  /\ entry' = IF phase = "idle" /\ phase' # "idle" THEN Entered ELSE entry

SpecR == InitR /\ [][NextR]_<<vars, entry>>

----------------------------------------------------------------------------
Inside == phase # "idle"

Service == INSTANCE SyncService WITH
  inside  <- Inside,
  pauses  <- IF Inside THEN entry.paused ELSE paused,
  skip    <- IF Inside THEN entry.skip ELSE interrupted # 0,
  cut     <- ~Inside /\ ~(Orderly \/ interrupted = 0),
  flushed <- ~Inside /\ synced

(* A call of do_sync changes the VM's pause count, and flushes or not, as  *)
(* SyncMount has it do, whatever the guest's tasks do meanwhile: from each *)
(* of its exits, for a VM that was running or that callers had paused, for *)
(* the first call in a process and for a later one.                        *)
ImplementsSyncService == Service!Spec
=============================================================================
