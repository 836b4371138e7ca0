----------------------------- MODULE MountService -----------------------------
(***************************************************************************)
(* What HAMain::mount_disk and unmount_disk promise together, with nothing *)
(* of slots, locks and commands: a client asks for the disk of a VM, is    *)
(* given a mount point that shows it, and gives it back.  What a mount     *)
(* point shows changes only while no client has it in use.                 *)
(***************************************************************************)
CONSTANTS Clients, VMs, Devices, NoVM, NoDevice

VARIABLES
  asked,  \* the VM a client has asked for and not been given
  reads,  \* the mount point a client has in use, for each VM
  shows   \* the VM whose disk is at a mount point

vars == <<asked, reads, shows>>

Nobody  == [k \in Clients |-> NoVM]
Nothing == [k \in Clients |-> [v \in VMs |-> NoDevice]]

InUse(d) == \E k \in Clients, v \in VMs : reads[k][v] = d

Init ==
  /\ asked = Nobody /\ reads = Nothing
  /\ shows = [d \in Devices |-> NoVM]

Ask(k, v) ==
  /\ asked[k] = NoVM /\ reads[k][v] = NoDevice
  /\ asked' = [asked EXCEPT ![k] = v]
  /\ UNCHANGED <<reads, shows>>

Prepare(d) ==
  /\ ~InUse(d)
  /\ \E v \in VMs \cup {NoVM} : shows' = [shows EXCEPT ![d] = v]
  /\ UNCHANGED <<asked, reads>>

Grant(k) ==
  /\ asked[k] # NoVM
  /\ \E d \in Devices :
       /\ shows[d] = asked[k]
       /\ reads' = [reads EXCEPT ![k][asked[k]] = d]
  /\ asked' = [asked EXCEPT ![k] = NoVM]
  /\ UNCHANGED shows

GiveBack(k, v) ==
  /\ asked[k] = NoVM /\ reads[k][v] # NoDevice
  /\ reads' = [reads EXCEPT ![k][v] = NoDevice]
  /\ UNCHANGED <<asked, shows>>

(* The process ends, and with it every use.                                *)
End ==
  /\ asked' = Nobody /\ reads' = Nothing
  /\ shows' \in [Devices -> VMs \cup {NoVM}]

Next ==
  \/ \E k \in Clients : Grant(k)
  \/ \E k \in Clients, v \in VMs : Ask(k, v) \/ GiveBack(k, v)
  \/ \E d \in Devices : Prepare(d)
  \/ End

Spec == Init /\ [][Next]_vars
=============================================================================
