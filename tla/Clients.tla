------------------------------- MODULE Clients -------------------------------
(***************************************************************************)
(* The two programs of the repository, clam_spawn and testmain, as         *)
(* processes of one host.  Each has one thread and mounts one VM, so its   *)
(* request_mount takes the first record of its own slot table: every       *)
(* process works on /dev/nbd0 and on the one directory for it.             *)
(*                                                                         *)
(* clam_spawn forks after the mount.  Its child enters the mount point and *)
(* becomes the scanner; when that fails it returns from main and destroys  *)
(* its copy of the HAMain.                                                 *)
(***************************************************************************)
EXTENDS SyncOutcome

CONSTANTS
  Procs,    \* processes of the host
  Spawners, \* those that run clam_spawn; the others run testmain
  VMs,
  VmOf,     \* the VM each process is started for
  Faults,   \* sets of calls that may fail together: see Failures
  NoVM

(* intr: the process and its child are interrupted at the terminal; the    *)
(* others are the calls.                                                   *)
Failures ==
  {"init", "sync", "attach", "connect", "umount", "mount", "fork", "chdir",
   "exec", "intr"}

ASSUME ClientsAssumption ==
  /\ Spawners \subseteq Procs
  /\ VmOf \in [Procs -> VMs]
  /\ Faults \subseteq SUBSET Failures
  /\ NoVM \notin VMs /\ NestedPause \in BOOLEAN

VARIABLES
  MayFail,  \* the calls that may fail in this behaviour
  pc,       \* the process
  child,    \* the child it has forked
  inside,   \* processes whose child has the mount point as its directory
  flushed,  \* processes whose do_sync made the guest flush
  handle,   \* processes whose VM's LibVMI handle is open
  nbd,      \* the disk behind /dev/nbd0
  mnt,      \* the file system at its mount point
  paused    \* Xen's pause count of each VM

hostVars == <<nbd, mnt, paused>>
vars == <<MayFail, pc, child, inside, flushed, handle, hostVars>>

Over == {"done", "exited", "killed"}

Init ==
  /\ MayFail \in Faults
  /\ pc = [p \in Procs |-> "start"]
  /\ child = [p \in Procs |-> "none"]
  /\ inside = {} /\ flushed = {} /\ handle = {}
  /\ nbd = NoVM /\ mnt = NoVM
  /\ paused = [v \in VMs |-> 0]

Goto(p, from, to)  == pc[p] = from /\ pc' = [pc EXCEPT ![p] = to]
Child(p, from, to) == child[p] = from /\ child' = [child EXCEPT ![p] = to]

(* The results a call may have.                                            *)
Results(call) == {TRUE} \cup (IF call \in MayFail THEN {FALSE} ELSE {})

----------------------------------------------------------------------------
(* main, up to the mount point. *)

(* HAConfig's constructor: a failed vmi_init_complete exits.  A VM has one *)
(* listener for its events.                                                *)
AddAgent(p) ==
  /\ \E ok \in Results("init") :
       IF ok /\ \A q \in handle : VmOf[q] # VmOf[p]
       THEN Goto(p, "start", "sync") /\ handle' = handle \cup {p}
       ELSE Goto(p, "start", "exited") /\ UNCHANGED handle
  /\ UNCHANGED <<child, inside, flushed, hostVars>>

(* mount_disk: do_sync, the first of its process.  It waits for ever (no   *)
(* outcome) when the VM was left paused.                                   *)
SyncGuest(p) ==
  /\ Goto(p, "sync", "connect")
  /\ \E out \in Outcomes(paused[VmOf[p]], TRUE, FALSE, "sync" \in MayFail) :
       /\ paused' = [paused EXCEPT ![VmOf[p]] = out.paused]
       /\ flushed' = IF out.flushed THEN flushed \cup {p} ELSE flushed
  /\ UNCHANGED <<child, inside, handle, nbd, mnt>>

(* xl block-attach fails, and the event loop goes on.                      *)
SyncHangs(p) ==
  /\ "attach" \in MayFail
  /\ Goto(p, "sync", "stuck")
  /\ paused' = [paused EXCEPT ![VmOf[p]] = ResumeVM(PauseVM(@))]
  /\ UNCHANGED <<child, inside, flushed, handle, nbd, mnt>>

ConnectAnyway(p) ==  \* mutant: does not look at qemu-nbd's result
  /\ Goto(p, "connect", "pause")
  /\ nbd' = IF nbd = NoVM THEN VmOf[p] ELSE nbd
  /\ UNCHANGED <<child, inside, flushed, handle, mnt, paused>>

(* qemu-nbd -c: the device may be another process's.  A failure exits.     *)
Connect(p) ==
  /\ \E ok \in Results("connect") :
       IF ok /\ nbd = NoVM
       THEN /\ Goto(p, "connect", "pause")
            /\ nbd' = VmOf[p] /\ UNCHANGED handle
       ELSE /\ Goto(p, "connect", "exited")
            /\ handle' = handle \ {p} /\ UNCHANGED nbd
  /\ UNCHANGED <<child, inside, flushed, mnt, paused>>

PauseGuest(p) ==
  /\ Goto(p, "pause", "mount")
  /\ paused' = [paused EXCEPT ![VmOf[p]] = PauseVM(@)]
  /\ UNCHANGED <<child, inside, flushed, handle, nbd, mnt>>

(* What umount leaves.  It fails while a child works in the mount point.   *)
(* Where it may fail for other reasons, or a child that returns has        *)
(* disconnected a device under its users, mounts cover one another, and a  *)
(* umount uncovers any.                                                    *)
Unmounted ==
  IF {"umount", "exec"} \cap MayFail # {} THEN VMs \cup {NoVM}
  ELSE {IF inside = {} THEN NoVM ELSE mnt}

(* umount, then mount, which fails without a disk; neither result is       *)
(* looked at.                                                              *)
MountFs(p) ==
  /\ Goto(p, "mount", "mounted")
  /\ \E ok \in Results("mount"), under \in Unmounted :
       mnt' = IF ok /\ nbd # NoVM THEN nbd ELSE under
  /\ UNCHANGED <<child, inside, flushed, handle, nbd, paused>>

----------------------------------------------------------------------------
(* clam_spawn's child. *)

(* A failed fork leaves -1 in pid: the parent goes on, as it does when     *)
(* there is a child.                                                       *)
Fork(p) ==
  /\ p \in Spawners
  /\ Goto(p, "mounted", "wait")
  /\ \E ok \in Results("fork") :
       child' = [child EXCEPT ![p] = IF ok THEN "forked" ELSE "none"]
  /\ UNCHANGED <<inside, flushed, handle, hostVars>>

(* The result of chdir is not looked at.                                   *)
Chdir(p) ==
  /\ Child(p, "forked", "exec")
  /\ \E ok \in Results("chdir") :
       inside' = IF ok THEN inside \cup {p} ELSE inside
  /\ UNCHANGED <<pc, flushed, handle, hostVars>>

Execvp(p) ==
  /\ \E ok \in Results("exec") :
       Child(p, "exec", IF ok THEN "scan" ELSE "returns")
  /\ UNCHANGED <<pc, inside, flushed, handle, hostVars>>

ScanEnds(p) ==
  /\ Child(p, "scan", "gone")
  /\ inside' = inside \ {p}
  /\ UNCHANGED <<pc, flushed, handle, hostVars>>

(* return -1: the child's ~HAMain.  ~HAConfig's vmi_destroy may close the  *)
(* VM's event channel for the parent too.                                  *)
ChildDestroy(p) ==
  /\ Child(p, "returns", "destroyed")
  /\ handle' \in {handle, handle \ {p}}
  /\ UNCHANGED <<pc, inside, flushed, hostVars>>

(* Then drop_all_mounts.                                                   *)
ChildUmount(p) ==
  /\ Child(p, "destroyed", "drop")
  /\ mnt' \in Unmounted
  /\ UNCHANGED <<pc, inside, flushed, handle, nbd, paused>>

ChildDisconnect(p) ==
  /\ Child(p, "drop", "gone")
  /\ inside' = inside \ {p}
  /\ nbd' = NoVM
  /\ UNCHANGED <<pc, flushed, handle, mnt, paused>>

----------------------------------------------------------------------------
(* The end of main. *)

WaitNot(p) ==  \* mutant: does not wait for the child
  /\ Goto(p, "wait", "unmount")
  /\ UNCHANGED <<child, inside, flushed, handle, hostVars>>

(* waitpid; without a child it returns at once.                            *)
Wait(p) ==
  /\ Goto(p, "wait", "unmount")
  /\ child[p] \in {"none", "gone"}
  /\ UNCHANGED <<child, inside, flushed, handle, hostVars>>

(* testmain lists the mount point itself.                                  *)
List(p) ==
  /\ p \notin Spawners
  /\ Goto(p, "mounted", "unmount")
  /\ UNCHANGED <<child, inside, flushed, handle, hostVars>>

UnmountDiskOnly(p) ==  \* mutant: releases the slot and resumes nothing
  /\ Goto(p, "unmount", "destroy")
  /\ UNCHANGED <<child, inside, flushed, handle, hostVars>>

(* unmount_disk: the mount stays, the VM runs.                             *)
UnmountDisk(p) ==
  /\ Goto(p, "unmount", "destroy")
  /\ paused' = [paused EXCEPT ![VmOf[p]] = ResumeVM(@)]
  /\ UNCHANGED <<child, inside, flushed, handle, nbd, mnt>>

(* ~HAMain: delete each HAConfig, then destroy sm.                         *)
DeleteAgents(p) ==
  /\ Goto(p, "destroy", "umount")
  /\ handle' = handle \ {p}
  /\ UNCHANGED <<child, inside, flushed, hostVars>>

DropUmount(p) ==
  /\ Goto(p, "umount", "disconnect")
  /\ mnt' \in Unmounted
  /\ UNCHANGED <<child, inside, flushed, handle, nbd, paused>>

DropDisconnectNot(p) ==  \* mutant: the device stays connected
  /\ Goto(p, "disconnect", "done")
  /\ UNCHANGED <<child, inside, flushed, handle, hostVars>>

DropDisconnect(p) ==
  /\ Goto(p, "disconnect", "done")
  /\ nbd' = NoVM
  /\ UNCHANGED <<child, inside, flushed, handle, mnt, paused>>

(* Nothing in the programs handles a signal.                               *)
Interrupt(p) ==
  /\ "intr" \in MayFail
  /\ pc[p] \notin {"start"} \cup Over
  /\ pc' = [pc EXCEPT ![p] = "killed"]
  /\ child' = [child EXCEPT ![p] = IF @ = "none" THEN "none" ELSE "gone"]
  /\ inside' = inside \ {p} /\ handle' = handle \ {p}
  /\ UNCHANGED <<flushed, hostVars>>

(* The event loop without a ghost disk, or of a VM that is paused.         *)
SyncWaits(p) ==
  /\ \/ pc[p] = "stuck"
     \/ pc[p] = "sync" /\ NestedPause /\ paused[VmOf[p]] > 0
  /\ UNCHANGED vars

AllOver == (\A p \in Procs : pc[p] \in Over) /\ UNCHANGED vars

Step(p) ==
  \/ AddAgent(p) \/ SyncGuest(p) \/ Connect(p) \/ PauseGuest(p) \/ MountFs(p)
  \/ Fork(p) \/ Wait(p) \/ List(p)
  \/ UnmountDisk(p) \/ DeleteAgents(p) \/ DropUmount(p) \/ DropDisconnect(p)

ChildStep(p) ==
  \/ Chdir(p) \/ Execvp(p) \/ ScanEnds(p) \/ ChildDestroy(p)
  \/ ChildUmount(p) \/ ChildDisconnect(p)

Next ==
  /\ \/ \E p \in Procs : \/ Step(p) \/ ChildStep(p)
                         \/ Interrupt(p) \/ SyncHangs(p) \/ SyncWaits(p)
     \/ AllOver
  /\ UNCHANGED MayFail

Spec == Init /\ [][Next]_vars

(* Processes run, and a scanner comes to its end.                          *)
FairSpec ==
  /\ Spec
  /\ \A p \in Procs : /\ WF_vars(Step(p) /\ UNCHANGED MayFail)
                     /\ WF_vars(ChildStep(p) /\ UNCHANGED MayFail)

----------------------------------------------------------------------------
(* Properties. *)

(* A process on its way out has its child behind it, and every child that  *)
(* works in the mount point is one that was forked.                        *)
TypeOK ==
  /\ pc \in [Procs -> {"start", "sync", "stuck", "connect", "pause", "mount",
                      "mounted", "wait", "unmount", "destroy", "umount",
                      "disconnect"} \cup Over]
  /\ child \in [Procs -> {"none", "forked", "exec", "scan", "returns",
                         "destroyed", "drop", "gone"}]
  /\ \A p \in Procs : pc[p] \notin {"mounted", "wait"} => child[p] \in {"none", "gone"}
  /\ inside \subseteq
       {p \in Procs :
          child[p] \in {"exec", "scan", "returns", "destroyed", "drop"}}
  /\ flushed \subseteq Procs /\ handle \subseteq Procs
  /\ nbd \in VMs \cup {NoVM} /\ mnt \in VMs \cup {NoVM}
  /\ paused \in [VMs -> Nat]

(* README.md: the wrapper "Flushes a VM's page cache using VMI, then execs *)
(* clamscan" (clam_spawn.c 68-87).  The scanner runs in the mount point,   *)
(* the disk there is its VM's, flushed for it, and the VM stands still: as *)
(* long as none of the calls fails whose results nobody looks at.          *)
ScansGuest ==
  MayFail \cap {"sync", "mount", "chdir", "exec"} = {} =>
  \A p \in Procs : child[p] = "scan" =>
    /\ p \in inside /\ p \in flushed
    /\ nbd = VmOf[p] /\ mnt = VmOf[p]
    /\ paused[VmOf[p]] > 0

(* When every process has ended by itself, from main or by one of the      *)
(* library's two exits, the host is as it was: no device connected; no VM  *)
(* paused, unless pauses nest and a listen may have failed; nothing        *)
(* mounted, unless a umount may have.                                      *)
Tidy ==
  (\A p \in Procs : pc[p] \in {"done", "exited"}) =>
    /\ nbd = NoVM
    /\ "sync" \notin MayFail \/ ~NestedPause => \A v \in VMs : paused[v] = 0
    /\ {"umount", "exec"} \cap MayFail = {} => mnt = NoVM

(* Every process comes to its end (clam_spawn.c 87, testmain.c 63), if no  *)
(* other was interrupted and do_sync's listens and its block-attach work:  *)
(* an interrupt or a failed listen leaves a VM paused, and do_sync then    *)
(* waits for ever, as it does without the ghost disk.                      *)
Ends ==
  {"sync", "attach"} \cap MayFail = {}
  /\ [](\A p \in Procs : pc[p] # "killed")
    => \A p \in Procs : <>(pc[p] \in Over)
=============================================================================
