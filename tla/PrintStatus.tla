----------------------------- MODULE PrintStatus -----------------------------
(***************************************************************************)
(* syncmount::print_status in a thread of its own, beside the threads of   *)
(* SyncMount.  It only reads, but to read whether a slot is locked it      *)
(* locks the slot and unlocks it, and vmi_global_lock is held throughout.  *)
(***************************************************************************)
EXTENDS SyncMount

CONSTANTS
  Monitor,  \* the thread that calls print_status
  MaxPrint  \* bound: its calls

ASSUME MonitorAssumption ==
  Monitor \notin Threads \cup {NoThread} /\ MaxPrint \in Nat

VARIABLES
  mpc, mix,  \* its program counter and the index of its loop
  prints     \* its budget of calls

monitorVars == <<mpc, mix, prints>>
varsP == <<vars, monitorVars>>

InitP == Init /\ mpc = "idle" /\ mix = 0 /\ prints = MaxPrint

Unlocking(s, locked) == l' = [l EXCEPT ![s] = locked]

PrintLock ==
  /\ mpc = "idle" /\ prints > 0 /\ vmi_lock = NoThread
  /\ \E t \in Threads : pc[t] # "exited"
  /\ mpc' = "try" /\ mix' = 0 /\ prints' = prints - 1
  /\ vmi_lock' = Monitor
  /\ UNCHANGED <<pc, callVars, slotVars, lk, hostVars, rest>>

PrintFree ==
  /\ mpc = "try" /\ mix < DEVMAX /\ ~l[mix]
  /\ mpc' = "locked"
  /\ Unlocking(mix, TRUE)
  /\ UNCHANGED <<pc, callVars, refcount, vmi, last_used, lockVars, hostVars,
                 rest, mix, prints>>

PrintKeep ==  \* mutant: does not unlock the slot again
  /\ mpc = "locked"
  /\ mpc' = "try" /\ mix' = mix + 1
  /\ UNCHANGED <<vars, prints>>

PrintUnlock ==
  /\ mpc = "locked"
  /\ mpc' = "try" /\ mix' = mix + 1
  /\ Unlocking(mix, FALSE)
  /\ UNCHANGED <<pc, callVars, refcount, vmi, last_used, lockVars, hostVars,
                 rest, prints>>

PrintTaken ==
  /\ mpc = "try" /\ mix < DEVMAX /\ l[mix]
  /\ mix' = mix + 1
  /\ UNCHANGED <<vars, mpc, prints>>

PrintEnd ==
  /\ mpc = "try" /\ mix = DEVMAX
  /\ mpc' = "idle"
  /\ vmi_lock' = NoThread
  /\ UNCHANGED <<pc, callVars, slotVars, lk, hostVars, rest, mix, prints>>

PrintStep == PrintLock \/ PrintFree \/ PrintUnlock \/ PrintTaken \/ PrintEnd

(* The process may exit while this thread is in its call, but nobody       *)
(* destroys the HAMain under it.                                           *)
NextP ==
  \/ PrintStep
  \/ /\ Next
     /\ IF \A t \in Threads : pc'[t] = "exited"
        THEN /\ mpc = "idle" \/ \E t \in Threads : pc[t] # "idle"
             /\ mpc' = "idle" /\ UNCHANGED <<mix, prints>>
        ELSE UNCHANGED monitorVars

SpecP == InitP /\ [][NextP]_varsP

(* The threads of SyncMount and this one run, and time passes.             *)
FairSpecP ==
  /\ SpecP
  /\ \A t \in Threads : WF_varsP(Step(t) /\ UNCHANGED monitorVars)
  /\ WF_varsP(Tick /\ UNCHANGED monitorVars)
  /\ WF_varsP(PrintStep)

----------------------------------------------------------------------------
(* print_status takes no slot out of use: one that is locked, by neither   *)
(* print_status (538-541) nor a thread about to name it, is in the name of *)
(* a VM.                                                                   *)
LockedNamed ==
  \A s \in Slots :
    l[s] => \/ vmi[s] # NoVM
            \/ mpc = "locked" /\ mix = s
            \/ \E t \in Threads : pc[t] = "claim" /\ ix[t] = s
=============================================================================
