----------------------------- MODULE ClientsProofs -----------------------------
(***************************************************************************)
(* Theorems about Clients, for every number of processes and of VMs, and   *)
(* for every set of calls that may fail.                                   *)
(***************************************************************************)
EXTENDS Clients, TLAPS

USE DEF hostVars, vars

(* A process has the device from qemu-nbd -c to qemu-nbd -d, the directory *)
(* from the mount to the umount, and its VM paused in between.             *)
Connected == {"pause", "mount", "mounted", "wait", "unmount", "destroy",
              "umount", "disconnect"}
Mounted   == {"mounted", "wait", "unmount", "destroy", "umount"}
Holding   == {"mount", "mounted", "wait", "unmount"}

(* LibVMI's handle on the VM is open, and nobody else has one: until the   *)
(* process is through with the VM or, if the child may return and take the *)
(* event channel along, until it has forked.                               *)
Early    == {"sync", "stuck", "connect", "pause", "mount", "mounted"}
Attached ==
  IF "exec" \in MayFail THEN Early ELSE Early \cup {"wait", "unmount", "destroy"}
HandleInv ==
  /\ \A p \in Procs : pc[p] \in Attached => p \in handle
  /\ \A p, q \in handle : VmOf[p] = VmOf[q] => p = q

(* While a process reads the disk its VM does not run: because nobody else *)
(* attaches to the VM ...                                                  *)
StandsStill == \A p \in Procs : pc[p] \in Holding => paused[VmOf[p]] > 0
StillInv    == "exec" \notin MayFail => StandsStill

(* ... or because do_sync, as long as no listen fails, waits for ever for  *)
(* a VM that is paused, where pauses nest.                                 *)
Waits   == NestedPause /\ "sync" \notin MayFail
Busy    == {"connect", "pause"} \cup Holding
OneBusy ==
  \A p, q \in Procs :
    pc[p] \in Busy /\ pc[q] \in Busy /\ VmOf[p] = VmOf[q] => p = q
WaitInv == Waits => OneBusy /\ StandsStill

(* The calls whose results nobody looks at succeed.                        *)
Heeded == MayFail \cap {"sync", "mount", "chdir", "exec"} = {}

(* Then the device and the directory have one owner, who has flushed.      *)
OwnerInv ==
  Heeded =>
    /\ \A p \in Procs :
         /\ pc[p] \in Connected => nbd = VmOf[p] /\ p \in flushed
         /\ pc[p] = "connect" => p \in flushed
         /\ pc[p] \in Mounted => mnt = VmOf[p]
         /\ child[p] \in {"none", "forked", "exec", "scan", "gone"}
         /\ child[p] \in {"exec", "scan"} => p \in inside
    /\ \A p, q \in Procs : pc[p] \in Connected /\ pc[q] \in Connected => p = q

(* Somebody was interrupted: whatever that process had stays behind.       *)
Killed == \E p \in Procs : pc[p] = "killed"

----------------------------------------------------------------------------
(* Type correctness. *)

(* The hypervisor's pause count is a number, whichever way it counts.      *)
LEMMA PauseCounts ==
  ASSUME NEW n \in Nat
  PROVE  /\ PauseVM(n) \in Nat /\ PauseVM(n) > 0 /\ ResumeVM(n) \in Nat
         /\ PauseVM(0) = 1 /\ ResumeVM(1) = 0 /\ ResumeVM(0) = 0
  BY ClientsAssumption DEF PauseVM, ResumeVM

(* do_sync leaves a number.  Unless a listen fails it flushes, the VM runs *)
(* afterwards and, where pauses nest, it ran before.  Where they do not    *)
(* nest the VM runs afterwards in any case.                                *)
LEMMA SyncCounts ==
  ASSUME NEW n \in Nat, NEW out \in Outcomes(n, TRUE, FALSE, "sync" \in MayFail)
  PROVE  /\ out.paused \in Nat
         /\ "sync" \notin MayFail => out.flushed /\ out.paused = 0
         /\ ~NestedPause => out.paused = 0
         /\ Waits => n = 0
<1> DEFINE once == ResumeVM(PauseVM(n))
           End(q, f) == [paused |-> ResumeVM(q), flushed |-> f]
<1>1. once \in Nat
  BY PauseCounts
<1>2. \/ out = End(PauseVM(once), TRUE) /\ once = 0
      \/ /\ "sync" \in MayFail
         /\ out \in {End(PauseVM(PauseVM(once)), TRUE), End(PauseVM(once), FALSE),
                     End(once, FALSE)}
  BY DEF Outcomes
<1>3. /\ ResumeVM(PauseVM(once)) \in Nat /\ ResumeVM(once) \in Nat
      /\ ResumeVM(PauseVM(PauseVM(once))) \in Nat
  BY <1>1, PauseCounts
<1>4. out.paused \in Nat
  BY <1>2, <1>3
<1>5. "sync" \notin MayFail => out.flushed /\ out.paused = 0
  BY <1>2, PauseCounts
<1>6. ~NestedPause => out.paused = 0
  BY <1>2 DEF ResumeVM
<1>7. Waits => n = 0
  BY <1>2, ClientsAssumption DEF Waits, PauseVM, ResumeVM
<1> QED
  BY <1>4, <1>5, <1>6, <1>7

(* A process has no child before it forks; testmain never has one.         *)
Childless ==
  \A p \in Procs :
    p \notin Spawners \/ pc[p] \in Early \cup {"start"} => child[p] = "none"

(* Only a child whose exec fails returns from main.                        *)
Returning == {"returns", "destroyed", "drop"}
NoReturn  ==
  "exec" \notin MayFail => \A p \in Procs : child[p] \notin Returning

Types == TypeOK /\ Childless /\ NoReturn

LEMMA TypeStep ==
  ASSUME Types, [Next]_vars
  PROVE  Types'
<1>0. MayFail' = MayFail
  BY DEF Next
<1> USE <1>0, ClientsAssumption
    DEF Types, TypeOK, Childless, NoReturn, Returning, Early, Goto, Child, Over
<1>1. ASSUME NEW p \in Procs, AddAgent(p) PROVE Types'
  BY <1>1 DEF AddAgent
<1>2. ASSUME NEW p \in Procs, SyncGuest(p) PROVE Types'
  <2>1. PICK out \in Outcomes(paused[VmOf[p]], TRUE, FALSE, "sync" \in MayFail) :
          paused' = [paused EXCEPT ![VmOf[p]] = out.paused]
    BY <1>2 DEF SyncGuest
  <2>2. paused' \in [VMs -> Nat]
    <3>1. paused[VmOf[p]] \in Nat
      OBVIOUS
    <3>2. out.paused \in Nat
      BY <3>1, SyncCounts
    <3> QED
      BY <2>1, <3>2
  <2>3. /\ pc' = [pc EXCEPT ![p] = "connect"] /\ pc[p] = "sync"
        /\ flushed' \subseteq Procs
        /\ UNCHANGED <<child, inside, handle, nbd, mnt>>
    BY <1>2 DEF SyncGuest
  <2> QED
    BY <2>2, <2>3
<1>3. ASSUME NEW p \in Procs, Connect(p) PROVE Types'
  BY <1>3 DEF Connect
<1>4. ASSUME NEW p \in Procs, PauseGuest(p) PROVE Types'
  BY <1>4, PauseCounts DEF PauseGuest
<1>5. ASSUME NEW p \in Procs, MountFs(p) PROVE Types'
  BY <1>5 DEF MountFs, Unmounted
<1>6. ASSUME NEW p \in Procs, Fork(p) PROVE Types'
  BY <1>6 DEF Fork
<1>7. ASSUME NEW p \in Procs, Wait(p) PROVE Types'
  BY <1>7 DEF Wait
<1>8. ASSUME NEW p \in Procs, List(p) PROVE Types'
  BY <1>8 DEF List
<1>9. ASSUME NEW p \in Procs, UnmountDisk(p) PROVE Types'
  BY <1>9, PauseCounts DEF UnmountDisk
<1>10. ASSUME NEW p \in Procs, DeleteAgents(p) \/ DropDisconnect(p)
       PROVE  Types'
  BY <1>10 DEF DeleteAgents, DropDisconnect
<1>16. ASSUME NEW p \in Procs, DropUmount(p) PROVE Types'
  <2>1. mnt' \in VMs \cup {NoVM}
    BY <1>16 DEF DropUmount, Unmounted
  <2>2. /\ pc[p] = "umount" /\ pc' = [pc EXCEPT ![p] = "disconnect"]
        /\ UNCHANGED <<child, inside, flushed, handle, nbd, paused>>
    BY <1>16 DEF DropUmount
  <2> QED
    BY <2>1, <2>2
<1>11. ASSUME NEW p \in Procs, Chdir(p) \/ Execvp(p) \/ ScanEnds(p)
       PROVE  Types'
  <2>1. CASE Execvp(p)
    <3>1. PICK ok \in Results("exec") :
            Child(p, "exec", IF ok THEN "scan" ELSE "returns")
      BY <2>1 DEF Execvp
    <3>2. "exec" \notin MayFail => ok = TRUE
      BY DEF Results
    <3> QED
      BY <2>1, <3>1, <3>2 DEF Execvp
  <2>2. CASE Chdir(p) \/ ScanEnds(p)
    BY <2>2 DEF Chdir, ScanEnds
  <2> QED
    BY <1>11, <2>1, <2>2, Zenon
<1>12. ASSUME NEW p \in Procs,
              ChildDestroy(p) \/ ChildUmount(p) \/ ChildDisconnect(p)
       PROVE  Types'
  BY <1>12 DEF ChildDestroy, ChildUmount, ChildDisconnect, Unmounted
<1>13. ASSUME NEW p \in Procs, Interrupt(p) PROVE Types'
  BY <1>13 DEF Interrupt
<1>14. ASSUME NEW p \in Procs, SyncHangs(p) PROVE Types'
  BY <1>14, PauseCounts DEF SyncHangs
<1>15. CASE UNCHANGED vars
  BY <1>15
<1> QED
  BY <1>1, <1>2, <1>3, <1>4, <1>5, <1>6, <1>7, <1>8, <1>9, <1>10, <1>11,
     <1>12, <1>13, <1>14, <1>15, <1>16
  DEF Next, Step, ChildStep, SyncWaits, AllOver

(* Every variable keeps its type; a process reaches unmount_disk only with *)
(* its child behind it (clam_spawn.c 87), and whoever works in the mount   *)
(* point is a child that was forked and has not ended.                     *)
THEOREM TypeCorrect == Spec => []TypeOK
<1>1. Init => Types
  BY ClientsAssumption DEF Init, Types, TypeOK, Childless, NoReturn, Returning
<1>2. Types /\ [Next]_vars => Types'
  BY TypeStep
<1>3. Types => TypeOK
  BY DEF Types
<1> QED
  BY <1>1, <1>2, <1>3, PTL DEF Spec

----------------------------------------------------------------------------
(* One handle per VM. *)

(* The steps that leave a process where it is, or take it on to a place    *)
(* from which its handle is still open.                                    *)
LEMMA HandleStep ==
  ASSUME Types, HandleInv, [Next]_vars
  PROVE  HandleInv'
<1>0. MayFail' = MayFail
  BY DEF Next
<1> USE <1>0, ClientsAssumption
    DEF Types, TypeOK, HandleInv, Attached, Early, Goto, Over
<1>1. ASSUME NEW p \in Procs, AddAgent(p) PROVE HandleInv'
  BY <1>1 DEF AddAgent
<1>2. ASSUME NEW p \in Procs,
             \/ SyncGuest(p) \/ SyncHangs(p) \/ PauseGuest(p)
             \/ MountFs(p) \/ Fork(p)
      PROVE  HandleInv'
  BY <1>2 DEF SyncGuest, SyncHangs, PauseGuest, MountFs, Fork
<1>3. ASSUME NEW p \in Procs, Connect(p) PROVE HandleInv'
  BY <1>3 DEF Connect
<1>4. ASSUME NEW p \in Procs,
             Wait(p) \/ List(p) \/ UnmountDisk(p) \/ DeleteAgents(p)
      PROVE  HandleInv'
  BY <1>4 DEF Wait, List, UnmountDisk, DeleteAgents
<1>5. ASSUME NEW p \in Procs, DropUmount(p) \/ DropDisconnect(p)
      PROVE  HandleInv'
  BY <1>5 DEF DropUmount, DropDisconnect
<1>6. ASSUME NEW p \in Procs, ChildStep(p), ~ChildDestroy(p) PROVE HandleInv'
  BY <1>6 DEF ChildStep, Chdir, Execvp, ScanEnds, ChildUmount, ChildDisconnect
<1>7. ASSUME NEW p \in Procs, ChildDestroy(p) PROVE HandleInv'
  <2>1. /\ child[p] = "returns" /\ pc' = pc
        /\ handle' \subseteq handle /\ \A q \in handle : q # p => q \in handle'
    BY <1>7 DEF ChildDestroy, Child
  <2>2. "exec" \in MayFail /\ pc[p] \notin Early
    BY <2>1 DEF NoReturn, Returning, Childless
  <2> QED
    BY <2>1, <2>2
<1>8. ASSUME NEW p \in Procs, Interrupt(p) PROVE HandleInv'
  BY <1>8 DEF Interrupt
<1>9. CASE UNCHANGED vars
  BY <1>9
<1> QED
  BY <1>1, <1>2, <1>3, <1>4, <1>5, <1>6, <1>7, <1>8, <1>9
  DEF Next, Step, SyncWaits, AllOver

(* Two processes in calls for one VM are one.                              *)
LEMMA OneForVm ==
  ASSUME HandleInv, NEW p \in Procs, NEW q \in Procs,
         pc[p] \in Attached, pc[q] \in Attached, VmOf[p] = VmOf[q]
  PROVE  p = q
  BY DEF HandleInv

(* Only a process in a call for its VM changes the VM's pause count.       *)
LEMMA PauseChanges ==
  ASSUME TypeOK, [Next]_vars
  PROVE  \/ UNCHANGED paused
         \/ \E p \in Procs : \/ SyncGuest(p) \/ SyncHangs(p)
                             \/ PauseGuest(p) \/ UnmountDisk(p)
  BY DEF Next, Step, ChildStep, SyncWaits, AllOver, AddAgent, Connect, MountFs,
         Fork, Wait, List, DeleteAgents, DropUmount, DropDisconnect, Chdir,
         Execvp, ScanEnds, ChildDestroy, ChildUmount, ChildDisconnect, Interrupt

(* The steps that end or begin holding a VM.                               *)
LEMMA HoldingChanges ==
  ASSUME TypeOK, [Next]_vars
  PROVE  \/ \E p \in Procs : \/ SyncGuest(p) \/ PauseGuest(p)
                             \/ UnmountDisk(p) \/ Interrupt(p)
         \/ \A p \in Procs :
              /\ pc[p] \in Holding <=> pc'[p] \in Holding
              /\ pc'[p] \in Busy => pc[p] \in Busy
              /\ pc[p] = "killed" <=> pc'[p] = "killed"
<1> DEFINE Same == \A p \in Procs :
                     /\ pc[p] \in Holding <=> pc'[p] \in Holding
                     /\ pc'[p] \in Busy => pc[p] \in Busy
                     /\ pc[p] = "killed" <=> pc'[p] = "killed"
<1> USE DEF TypeOK, Holding, Busy, Goto
<1>1. ASSUME NEW p \in Procs, AddAgent(p) PROVE Same
  BY <1>1 DEF AddAgent
<1>2. ASSUME NEW p \in Procs, SyncHangs(p) \/ MountFs(p) \/ Fork(p)
      PROVE  Same
  BY <1>2 DEF SyncHangs, MountFs, Fork
<1>3. ASSUME NEW p \in Procs, Connect(p) PROVE Same
  BY <1>3 DEF Connect
<1>4. ASSUME NEW p \in Procs,
             \/ Wait(p) \/ List(p) \/ DeleteAgents(p)
             \/ DropUmount(p) \/ DropDisconnect(p)
      PROVE  Same
  BY <1>4 DEF Wait, List, DeleteAgents, DropUmount, DropDisconnect
<1>5. ASSUME NEW p \in Procs, ChildStep(p) PROVE Same
  BY <1>5 DEF ChildStep, Chdir, Execvp, ScanEnds, ChildDestroy, ChildUmount,
              ChildDisconnect
<1> HIDE DEF Same
<1>6. CASE UNCHANGED vars
  BY <1>6 DEF Same
<1> QED
  BY <1>1, <1>2, <1>3, <1>4, <1>5, <1>6
  DEF Next, Step, SyncWaits, AllOver, Same

LEMMA StillStep ==
  ASSUME TypeOK, HandleInv, StillInv, [Next]_vars
  PROVE  StillInv'
<1>0. MayFail' = MayFail
  BY DEF Next
<1> SUFFICES ASSUME "exec" \notin MayFail
             PROVE  StandsStill'
  BY <1>0 DEF StillInv
<1> USE ClientsAssumption DEF TypeOK, StillInv, StandsStill, Goto
<1>1. ASSUME NEW p \in Procs, SyncGuest(p) \/ SyncHangs(p) PROVE StandsStill'
  <2>1. /\ pc[p] = "sync"
        /\ pc' = [pc EXCEPT ![p] = "connect"] \/ pc' = [pc EXCEPT ![p] = "stuck"]
        /\ \A v \in VMs : v # VmOf[p] => paused'[v] = paused[v]
    BY <1>1 DEF SyncGuest, SyncHangs
  <2>2. \A q \in Procs : pc[q] \in Holding => VmOf[q] # VmOf[p]
    BY <2>1, OneForVm DEF Attached, Early, Holding
  <2> QED
    BY <2>1, <2>2 DEF Holding
<1>2. ASSUME NEW p \in Procs, PauseGuest(p) PROVE StandsStill'
  <2>1. /\ pc[p] = "pause" /\ pc' = [pc EXCEPT ![p] = "mount"]
        /\ \A v \in VMs : v # VmOf[p] => paused'[v] = paused[v]
        /\ paused'[VmOf[p]] = PauseVM(paused[VmOf[p]])
    BY <1>2 DEF PauseGuest
  <2>2. paused'[VmOf[p]] > 0
    BY <2>1, PauseCounts
  <2> QED
    BY <2>1, <2>2 DEF Holding
<1>3. ASSUME NEW p \in Procs, UnmountDisk(p) PROVE StandsStill'
  <2>1. /\ pc[p] = "unmount" /\ pc' = [pc EXCEPT ![p] = "destroy"]
        /\ \A v \in VMs : v # VmOf[p] => paused'[v] = paused[v]
    BY <1>3 DEF UnmountDisk
  <2>2. \A q \in Procs : pc[q] \in Holding /\ q # p => VmOf[q] # VmOf[p]
    BY <2>1, OneForVm DEF Attached, Early, Holding
  <2> QED
    BY <2>1, <2>2 DEF Holding
<1>4. ASSUME NEW p \in Procs, Interrupt(p) PROVE StandsStill'
  BY <1>4 DEF Interrupt, Holding
<1> QED
  BY <1>1, <1>2, <1>3, <1>4, PauseChanges, HoldingChanges

(* Where do_sync waits for a VM that is paused, the process that passes it *)
(* finds nobody else between its do_sync and the release of the slot.      *)
LEMMA WaitStep ==
  ASSUME TypeOK, HandleInv, WaitInv, [Next]_vars
  PROVE  WaitInv'
<1>0. MayFail' = MayFail
  BY DEF Next
<1> SUFFICES ASSUME Waits
             PROVE  OneBusy' /\ StandsStill'
  BY <1>0 DEF WaitInv, Waits
<1>a. OneBusy /\ StandsStill
  BY DEF WaitInv
<1> USE ClientsAssumption DEF TypeOK, Goto
<1>1. ASSUME NEW p \in Procs, SyncGuest(p) PROVE OneBusy' /\ StandsStill'
  <2>1. /\ pc[p] = "sync" /\ pc' = [pc EXCEPT ![p] = "connect"]
        /\ \A v \in VMs : v # VmOf[p] => paused'[v] = paused[v]
    BY <1>1 DEF SyncGuest
  <2>2. paused[VmOf[p]] = 0
    <3>1. PICK out \in Outcomes(paused[VmOf[p]], TRUE, FALSE, "sync" \in MayFail) :
            paused' = [paused EXCEPT ![VmOf[p]] = out.paused]
      BY <1>1 DEF SyncGuest
    <3>2. paused[VmOf[p]] \in Nat
      OBVIOUS
    <3> HIDE DEF TypeOK, Goto
    <3> QED
      BY <3>1, <3>2, SyncCounts
  <2>3. ASSUME NEW q \in Procs, pc[q] \in Busy PROVE VmOf[q] # VmOf[p]
    <3>1. CASE pc[q] \in Early
      <4>1. pc[p] \in Attached /\ pc[q] \in Attached /\ p # q
        BY <2>1, <2>3, <3>1 DEF Attached, Early, Busy, Holding
      <4> QED
        BY <4>1, OneForVm
    <3>2. CASE pc[q] \notin Early
      <4>1. paused[VmOf[q]] > 0
        BY <1>a, <2>3, <3>2 DEF StandsStill, Early, Busy, Holding
      <4> QED
        BY <2>2, <4>1
    <3> QED
      BY <3>1, <3>2
  <2>4. OneBusy'
    BY <1>a, <2>1, <2>3 DEF OneBusy
  <2>5. StandsStill'
    BY <1>a, <2>1, <2>3 DEF StandsStill, Busy, Holding
  <2> QED
    BY <2>4, <2>5
<1>2. ASSUME NEW p \in Procs, SyncHangs(p) PROVE OneBusy' /\ StandsStill'
  <2>1. /\ pc[p] = "sync" /\ pc' = [pc EXCEPT ![p] = "stuck"]
        /\ paused' = [paused EXCEPT ![VmOf[p]] = ResumeVM(PauseVM(@))]
    BY <1>2 DEF SyncHangs
  <2>2. paused' = paused
    BY <2>1 DEF Waits, PauseVM, ResumeVM
  <2> QED
    BY <1>a, <2>1, <2>2 DEF OneBusy, StandsStill, Busy, Holding
<1>3. ASSUME NEW p \in Procs, PauseGuest(p) PROVE OneBusy' /\ StandsStill'
  <2>1. /\ pc[p] = "pause" /\ pc' = [pc EXCEPT ![p] = "mount"]
        /\ \A v \in VMs : v # VmOf[p] => paused'[v] = paused[v]
        /\ paused'[VmOf[p]] = PauseVM(paused[VmOf[p]])
    BY <1>3 DEF PauseGuest
  <2>2. paused'[VmOf[p]] > 0
    BY <2>1, PauseCounts
  <2>3. OneBusy'
    BY <1>a, <2>1 DEF OneBusy, Busy
  <2>4. StandsStill'
    BY <1>a, <2>1, <2>2 DEF StandsStill, Holding
  <2> QED
    BY <2>3, <2>4
<1>4. ASSUME NEW p \in Procs, UnmountDisk(p) PROVE OneBusy' /\ StandsStill'
  <2>1. /\ pc[p] = "unmount" /\ pc' = [pc EXCEPT ![p] = "destroy"]
        /\ \A v \in VMs : v # VmOf[p] => paused'[v] = paused[v]
    BY <1>4 DEF UnmountDisk
  <2>2. \A q \in Procs : pc[q] \in Holding /\ q # p => VmOf[q] # VmOf[p]
    BY <1>a, <2>1 DEF OneBusy, Busy, Holding
  <2>3. OneBusy'
    BY <1>a, <2>1 DEF OneBusy, Busy, Holding
  <2>4. StandsStill'
    BY <1>a, <2>1, <2>2 DEF StandsStill, Holding
  <2> QED
    BY <2>3, <2>4
<1>5. ASSUME NEW p \in Procs, Interrupt(p) PROVE OneBusy' /\ StandsStill'
  BY <1>a, <1>5 DEF Interrupt, OneBusy, StandsStill, Busy, Holding
<1>6. CASE /\ UNCHANGED paused
           /\ \A p \in Procs : /\ pc[p] \in Holding <=> pc'[p] \in Holding
                               /\ pc'[p] \in Busy => pc[p] \in Busy
  BY <1>a, <1>6 DEF OneBusy, StandsStill
<1> QED
  BY <1>1, <1>2, <1>3, <1>4, <1>5, <1>6, PauseChanges, HoldingChanges

----------------------------------------------------------------------------
(* The scanner's disk. *)

(* Where every result that is ignored is a success no child returns from   *)
(* main, so only the device's owner unmounts and disconnects it.           *)
LEMMA OwnerStep ==
  ASSUME Types, OwnerInv, [Next]_vars
  PROVE  OwnerInv'
<1> MayFail' = MayFail
  BY DEF Next
<1> SUFFICES ASSUME Heeded
             PROVE  OwnerInv'
  BY DEF OwnerInv, Heeded
<1> USE ClientsAssumption
    DEF Types, TypeOK, Childless, Early, OwnerInv, Connected, Mounted, Goto,
        Child, Over
<1>1. ASSUME NEW p \in Procs, AddAgent(p) PROVE OwnerInv'
  BY <1>1 DEF AddAgent
<1>2. ASSUME NEW p \in Procs, SyncGuest(p) PROVE OwnerInv'
  <2>1. PICK out \in Outcomes(paused[VmOf[p]], TRUE, FALSE, "sync" \in MayFail) :
          flushed' = IF out.flushed THEN flushed \cup {p} ELSE flushed
    BY <1>2 DEF SyncGuest
  <2>2. paused[VmOf[p]] \in Nat /\ "sync" \notin MayFail
    BY DEF Heeded
  <2>3. out.flushed
    BY <2>2, SyncCounts
  <2>4. /\ pc[p] = "sync" /\ pc' = [pc EXCEPT ![p] = "connect"]
        /\ UNCHANGED <<child, inside, nbd, mnt>>
    BY <1>2 DEF SyncGuest
  <2> QED
    BY <2>1, <2>3, <2>4
<1>3. ASSUME NEW p \in Procs, Connect(p) PROVE OwnerInv'
  <2>1. CASE nbd = NoVM
    <3>1. \A q \in Procs : pc[q] \notin Connected
      BY <2>1
    <3> QED
      BY <1>3, <3>1 DEF Connect
  <2>2. CASE nbd # NoVM
    BY <1>3, <2>2 DEF Connect
  <2> QED
    BY <2>1, <2>2
<1>4. ASSUME NEW p \in Procs, PauseGuest(p) PROVE OwnerInv'
  BY <1>4 DEF PauseGuest
<1>5. ASSUME NEW p \in Procs, MountFs(p) PROVE OwnerInv'
  <2>1. /\ pc[p] = "mount" /\ pc' = [pc EXCEPT ![p] = "mounted"]
        /\ nbd = VmOf[p] /\ mnt' = nbd
        /\ UNCHANGED <<child, inside, flushed, nbd>>
    <3>1. PICK ok \in Results("mount"), under \in Unmounted :
            mnt' = IF ok /\ nbd # NoVM THEN nbd ELSE under
      BY <1>5 DEF MountFs
    <3>2. ok = TRUE
      BY DEF Results, Heeded
    <3>3. pc[p] = "mount" /\ nbd = VmOf[p] /\ nbd # NoVM
      BY <1>5 DEF MountFs
    <3> QED
      BY <1>5, <3>1, <3>2, <3>3 DEF MountFs
  <2> QED
    BY <2>1
<1>6. ASSUME NEW p \in Procs, Fork(p) \/ SyncHangs(p) PROVE OwnerInv'
  BY <1>6 DEF Fork, SyncHangs
<1>7. ASSUME NEW p \in Procs, Wait(p) \/ List(p) \/ UnmountDisk(p)
      PROVE  OwnerInv'
  BY <1>7 DEF Wait, List, UnmountDisk
<1>8. ASSUME NEW p \in Procs, DeleteAgents(p) PROVE OwnerInv'
  BY <1>8 DEF DeleteAgents
<1>9. ASSUME NEW p \in Procs, DropUmount(p) PROVE OwnerInv'
  BY <1>9 DEF DropUmount
<1>10. ASSUME NEW p \in Procs, DropDisconnect(p) PROVE OwnerInv'
  BY <1>10 DEF DropDisconnect
<1>11. ASSUME NEW p \in Procs, Chdir(p) PROVE OwnerInv'
  BY <1>11 DEF Chdir, Results, Heeded
<1>12. ASSUME NEW p \in Procs, Execvp(p) \/ ScanEnds(p) PROVE OwnerInv'
  <2>1. UNCHANGED <<pc, flushed, nbd, mnt>>
    BY <1>12 DEF Execvp, ScanEnds
  <2>2. CASE Execvp(p)
    <3>1. child' = [child EXCEPT ![p] = "scan"] /\ child[p] = "exec"
      BY <2>2 DEF Execvp, Results, Heeded
    <3>2. UNCHANGED inside
      BY <2>2 DEF Execvp
    <3> QED
      BY <2>1, <3>1, <3>2
  <2>3. CASE ScanEnds(p)
    <3>1. child' = [child EXCEPT ![p] = "gone"] /\ inside' = inside \ {p}
      BY <2>3 DEF ScanEnds
    <3> QED
      BY <2>1, <3>1
  <2> QED
    BY <1>12, <2>2, <2>3
<1>13. ASSUME NEW p \in Procs,
              ChildDestroy(p) \/ ChildUmount(p) \/ ChildDisconnect(p)
       PROVE  FALSE
  BY <1>13 DEF ChildDestroy, ChildUmount, ChildDisconnect
<1>14. ASSUME NEW p \in Procs, Interrupt(p) PROVE OwnerInv'
  BY <1>14 DEF Interrupt
<1>15. CASE UNCHANGED vars
  BY <1>15
<1> QED
  BY <1>1, <1>2, <1>3, <1>4, <1>5, <1>6, <1>7, <1>8, <1>9, <1>10, <1>11,
     <1>12, <1>13, <1>14, <1>15
  DEF Next, Step, ChildStep, SyncWaits, AllOver

(* A child that scans has its parent waiting behind it, which owns the     *)
(* device and has paused the VM.                                           *)
LEMMA ScannerHasGuest ==
  ASSUME TypeOK, OwnerInv, StillInv
  PROVE  ScansGuest
<1> SUFFICES ASSUME Heeded, NEW p \in Procs, child[p] = "scan"
             PROVE  /\ p \in inside /\ p \in flushed
                    /\ nbd = VmOf[p] /\ mnt = VmOf[p] /\ paused[VmOf[p]] > 0
  BY DEF ScansGuest, Heeded
<1>1. pc[p] \in {"mounted", "wait"}
  BY DEF TypeOK
<1>2. StandsStill
  BY DEF StillInv, Heeded
<1> QED
  BY <1>1, <1>2 DEF OwnerInv, StandsStill, Connected, Mounted, Holding

(* The README's promise for clam_spawn: while its child runs the scanner,  *)
(* the scanner is in the mount point, the disk there is the VM's it was    *)
(* started for, flushed for it, and the VM stands still (clam_spawn.c      *)
(* 69-87), however many clients run on the host and share /dev/nbd0, and   *)
(* also when others are interrupted; unless a call fails whose result      *)
(* nobody looks at.                                                        *)
THEOREM ScannerScansGuest == Spec => []ScansGuest
<1>1. Init => Types /\ HandleInv /\ StillInv /\ OwnerInv
  BY ClientsAssumption
  DEF Init, Types, TypeOK, Childless, NoReturn, Returning, HandleInv, StillInv,
      StandsStill, OwnerInv, Attached, Early, Holding, Connected, Mounted
<1>2. Types /\ HandleInv /\ StillInv /\ OwnerInv /\ [Next]_vars
        => Types' /\ HandleInv' /\ StillInv' /\ OwnerInv'
  BY TypeStep, HandleStep, StillStep, OwnerStep DEF Types
<1>3. Types /\ StillInv /\ OwnerInv => ScansGuest
  BY ScannerHasGuest DEF Types
<1> QED
  BY <1>1, <1>2, <1>3, PTL DEF Spec

----------------------------------------------------------------------------
(* What the clients leave behind. *)

DeviceOwned == nbd # NoVM => \E p \in Procs : pc[p] \in Connected
DirOwned    ==
  {"umount", "exec"} \cap MayFail = {} /\ mnt # NoVM =>
    \E p \in Procs : pc[p] \in Mounted
PauseOwned ==
  \A v \in VMs :
    \/ paused[v] = 0
    \/ paused[v] = 1 /\ \E p \in Procs : VmOf[p] = v /\ pc[p] \in Holding
PauseInv == "sync" \notin MayFail \/ ~NestedPause => PauseOwned

(* A child in the mount point has its parent waiting behind it.            *)
LEMMA ChildKeepsDir ==
  ASSUME TypeOK, inside # {}
  PROVE  \E q \in Procs : pc[q] \in {"mounted", "wait"}
<1>1. PICK q \in Procs : child[q] \notin {"none", "gone"}
  BY DEF TypeOK
<1> QED
  BY <1>1 DEF TypeOK

LEMMA DeviceStep ==
  ASSUME TypeOK, DeviceOwned, [Next]_vars, ~Killed'
  PROVE  DeviceOwned' /\ ~Killed
<1> USE DEF TypeOK, DeviceOwned, Connected, Killed, Goto
<1> DEFINE Done == DeviceOwned' /\ ~Killed
<1>1. ASSUME NEW p \in Procs, AddAgent(p) PROVE Done
  BY <1>1 DEF AddAgent
<1>2. ASSUME NEW p \in Procs, \/ SyncGuest(p) \/ SyncHangs(p) \/ PauseGuest(p) \/ MountFs(p)
      PROVE  Done
  BY <1>2 DEF SyncGuest, SyncHangs, PauseGuest, MountFs
<1>3. ASSUME NEW p \in Procs, Connect(p) PROVE Done
  BY <1>3 DEF Connect
<1>4. ASSUME NEW p \in Procs, Fork(p) \/ Wait(p) \/ List(p) PROVE Done
  BY <1>4 DEF Fork, Wait, List
<1>5. ASSUME NEW p \in Procs,
             UnmountDisk(p) \/ DeleteAgents(p) \/ DropUmount(p)
      PROVE  Done
  BY <1>5 DEF UnmountDisk, DeleteAgents, DropUmount
<1>6. ASSUME NEW p \in Procs, DropDisconnect(p) PROVE Done
  BY <1>6 DEF DropDisconnect
<1>7. ASSUME NEW p \in Procs, ChildStep(p) PROVE Done
  BY <1>7 DEF ChildStep, Chdir, Execvp, ScanEnds, ChildDestroy, ChildUmount,
              ChildDisconnect
<1>8. ASSUME NEW p \in Procs, Interrupt(p) PROVE FALSE
  BY <1>8 DEF Interrupt
<1>9. CASE UNCHANGED vars
  BY <1>9
<1> HIDE DEF Done
<1>10. Done
  BY <1>1, <1>2, <1>3, <1>4, <1>5, <1>6, <1>7, <1>8, <1>9
  DEF Next, Step, SyncWaits, AllOver, Done
<1> QED
  BY <1>10 DEF Done

LEMMA DirStep ==
  ASSUME TypeOK, DirOwned, [Next]_vars, ~Killed'
  PROVE  DirOwned'
<1>0. MayFail' = MayFail
  BY DEF Next
<1> SUFFICES ASSUME {"umount", "exec"} \cap MayFail = {}
             PROVE  DirOwned'
  BY <1>0 DEF DirOwned
<1>u. Unmounted = {IF inside = {} THEN NoVM ELSE mnt}
  BY DEF Unmounted
<1> USE <1>0 DEF TypeOK, DirOwned, Mounted, Killed, Goto
<1>1. ASSUME NEW p \in Procs, AddAgent(p) PROVE DirOwned'
  BY <1>1 DEF AddAgent
<1>2. ASSUME NEW p \in Procs, SyncGuest(p) \/ SyncHangs(p) \/ PauseGuest(p)
      PROVE  DirOwned'
  BY <1>2 DEF SyncGuest, SyncHangs, PauseGuest
<1>3. ASSUME NEW p \in Procs, Connect(p) PROVE DirOwned'
  BY <1>3 DEF Connect
<1>4. ASSUME NEW p \in Procs, Fork(p) \/ Wait(p) \/ List(p) PROVE DirOwned'
  BY <1>4 DEF Fork, Wait, List
<1>5. ASSUME NEW p \in Procs,
             UnmountDisk(p) \/ DeleteAgents(p) \/ DropDisconnect(p)
      PROVE  DirOwned'
  BY <1>5 DEF UnmountDisk, DeleteAgents, DropDisconnect
<1>6. ASSUME NEW p \in Procs, DropUmount(p) PROVE DirOwned'
  <2>1. /\ pc[p] = "umount" /\ pc' = [pc EXCEPT ![p] = "disconnect"]
        /\ mnt' = IF inside = {} THEN NoVM ELSE mnt
    BY <1>u, <1>6 DEF DropUmount
  <2>2. CASE inside = {}
    BY <2>1, <2>2
  <2>3. CASE inside # {}
    <3>1. PICK q \in Procs : pc[q] \in {"mounted", "wait"}
      BY <2>3, ChildKeepsDir
    <3> QED
      BY <2>1, <3>1
  <2> QED
    BY <2>2, <2>3
<1>7. ASSUME NEW p \in Procs, ChildStep(p) PROVE DirOwned'
  BY <1>u, <1>7
  DEF ChildStep, Chdir, Execvp, ScanEnds, ChildDestroy, ChildUmount,
      ChildDisconnect
<1>8. ASSUME NEW p \in Procs, Interrupt(p) PROVE FALSE
  BY <1>8 DEF Interrupt
<1>9. ASSUME NEW p \in Procs, MountFs(p) PROVE DirOwned'
  BY <1>9 DEF MountFs
<1>10. CASE UNCHANGED vars
  BY <1>10
<1> QED
  BY <1>1, <1>2, <1>3, <1>4, <1>5, <1>6, <1>7, <1>8, <1>9, <1>10
  DEF Next, Step, SyncWaits, AllOver

LEMMA PauseStep ==
  ASSUME TypeOK, WaitInv, PauseInv, [Next]_vars, ~Killed'
  PROVE  PauseInv'
<1>0. MayFail' = MayFail
  BY DEF Next
<1> SUFFICES ASSUME "sync" \notin MayFail \/ ~NestedPause
             PROVE  PauseOwned'
  BY <1>0 DEF PauseInv
<1>a. PauseOwned
  BY DEF PauseInv
<1> USE ClientsAssumption DEF TypeOK, Goto
<1>1. ASSUME NEW p \in Procs, SyncGuest(p) PROVE PauseOwned'
  <2>1. /\ pc[p] = "sync" /\ pc' = [pc EXCEPT ![p] = "connect"]
    BY <1>1 DEF SyncGuest
  <2>2. PICK out \in Outcomes(paused[VmOf[p]], TRUE, FALSE, "sync" \in MayFail) :
          paused' = [paused EXCEPT ![VmOf[p]] = out.paused]
    BY <1>1 DEF SyncGuest
  <2>3. out.paused = 0
    <3>1. paused[VmOf[p]] \in Nat
      OBVIOUS
    <3> QED
      BY <3>1, SyncCounts
  <2> QED
    BY <1>a, <2>1, <2>2, <2>3 DEF PauseOwned, Holding
<1>2. ASSUME NEW p \in Procs, SyncHangs(p) PROVE PauseOwned'
  <2>1. /\ pc[p] = "sync" /\ pc' = [pc EXCEPT ![p] = "stuck"]
        /\ paused' = [paused EXCEPT ![VmOf[p]] = ResumeVM(PauseVM(@))]
    BY <1>2 DEF SyncHangs
  <2>2. paused'[VmOf[p]] \in {paused[VmOf[p]], 0}
    BY <2>1 DEF PauseVM, ResumeVM
  <2> QED
    BY <1>a, <2>1, <2>2 DEF PauseOwned, Holding
<1>3. ASSUME NEW p \in Procs, PauseGuest(p) PROVE PauseOwned'
  <2>1. /\ pc[p] = "pause" /\ pc' = [pc EXCEPT ![p] = "mount"]
        /\ paused' = [paused EXCEPT ![VmOf[p]] = PauseVM(@)]
    BY <1>3 DEF PauseGuest
  <2>2. paused'[VmOf[p]] = 1
    <3>1. CASE ~NestedPause
      BY <2>1, <3>1 DEF PauseVM
    <3>2. CASE NestedPause
      <4>1. OneBusy
        BY <3>2 DEF WaitInv, Waits
      <4>2. \A q \in Procs : pc[q] \in Holding => VmOf[q] # VmOf[p]
        BY <2>1, <4>1 DEF OneBusy, Busy, Holding
      <4>3. paused[VmOf[p]] = 0
        BY <1>a, <4>2 DEF PauseOwned
      <4> QED
        BY <2>1, <4>3, PauseCounts
    <3> QED
      BY <3>1, <3>2
  <2> QED
    BY <1>a, <2>1, <2>2 DEF PauseOwned, Holding
<1>4. ASSUME NEW p \in Procs, UnmountDisk(p) PROVE PauseOwned'
  <2>1. /\ pc[p] = "unmount" /\ pc' = [pc EXCEPT ![p] = "destroy"]
        /\ paused' = [paused EXCEPT ![VmOf[p]] = ResumeVM(@)]
    BY <1>4 DEF UnmountDisk
  <2>2. paused'[VmOf[p]] = 0
    <3>1. paused[VmOf[p]] \in {0, 1}
      BY <1>a DEF PauseOwned
    <3> QED
      BY <2>1, <3>1, PauseCounts
  <2> QED
    BY <1>a, <2>1, <2>2 DEF PauseOwned, Holding
<1>5. ASSUME NEW p \in Procs, Interrupt(p) PROVE FALSE
  BY <1>5 DEF Interrupt, Killed
<1>6. CASE /\ UNCHANGED paused
           /\ \A p \in Procs : pc[p] \in Holding <=> pc'[p] \in Holding
  BY <1>a, <1>6 DEF PauseOwned
<1> QED
  BY <1>1, <1>2, <1>3, <1>4, <1>5, <1>6, PauseChanges, HoldingChanges

(* A process that was interrupted stays so. *)
LEMMA StaysKilled ==
  ASSUME Types, [Next]_vars, Killed
  PROVE  Killed'
<1>1. PICK q \in Procs : pc[q] = "killed"
  BY DEF Killed
<1>2. pc'[q] = "killed"
  <2> USE <1>1 DEF Types, TypeOK, Goto, Over
  <2>1. ASSUME NEW p \in Procs, Step(p) PROVE pc'[q] = "killed"
    BY <2>1 DEF Step, AddAgent, SyncGuest, Connect, PauseGuest, MountFs, Fork,
                Wait, List, UnmountDisk, DeleteAgents, DropUmount,
                DropDisconnect
  <2>2. ASSUME NEW p \in Procs, ChildStep(p) PROVE pc'[q] = "killed"
    BY <2>2 DEF ChildStep, Chdir, Execvp, ScanEnds, ChildDestroy, ChildUmount,
                ChildDisconnect
  <2>3. ASSUME NEW p \in Procs, Interrupt(p) \/ SyncHangs(p)
        PROVE  pc'[q] = "killed"
    BY <2>3 DEF Interrupt, SyncHangs
  <2> QED
    BY <2>1, <2>2, <2>3 DEF Next, SyncWaits, AllOver, vars
<1> QED
  BY <1>2 DEF Killed

(* However the clients' calls interleave and whichever of them fails, when *)
(* they have all ended by themselves no device is connected: the library's *)
(* exits (libhyperagent.cc 127, syncmount.cc 698) come before there is     *)
(* something to undo, and drop_all_mounts (504-516) disconnects it.  No VM *)
(* is paused, unless pauses nest and a listen fails: the one that ran the  *)
(* last callback leaves two pauses for one resume (250, 384-385, 443).     *)
(* Nothing is mounted, unless a umount fails or a child returns from main. *)
(* A process whose ghost disk cannot be attached does not end.             *)
THEOREM HostIsTidy == Spec => []Tidy
<1> DEFINE IInv == /\ Types /\ HandleInv /\ WaitInv
                   /\ ~Killed => DeviceOwned /\ DirOwned /\ PauseInv
<1>1. Init => IInv
  BY ClientsAssumption
  DEF Init, Types, TypeOK, Childless, NoReturn, Returning, Early, HandleInv,
      Attached, WaitInv, OneBusy, Busy, StandsStill, Holding, Connected, Mounted,
      DeviceOwned, DirOwned, PauseInv, PauseOwned
<1>2. IInv /\ [Next]_vars => IInv'
  <2> SUFFICES ASSUME IInv, [Next]_vars PROVE IInv'
    OBVIOUS
  <2>1. Types' /\ HandleInv' /\ WaitInv'
    BY TypeStep, HandleStep, WaitStep DEF Types
  <2>2. ASSUME ~Killed' PROVE (DeviceOwned /\ DirOwned /\ PauseInv)'
    <3>1. ~Killed
      BY <2>2, StaysKilled DEF Types
    <3> QED
      BY <2>2, <3>1, DeviceStep, DirStep, PauseStep DEF Types
  <2> QED
    BY <2>1, <2>2
<1>3. IInv => Tidy
  BY DEF Tidy, Killed, DeviceOwned, DirOwned, PauseInv, PauseOwned, Connected,
         Mounted, Holding
<1> QED
  BY <1>1, <1>2, <1>3, PTL DEF Spec
=============================================================================
