--------------------------- MODULE SyncMountService ---------------------------
(***************************************************************************)
(* SyncMount seen by its clients.                                          *)
(***************************************************************************)
EXTENDS SyncMount

(* The VM a thread has asked for: in request_mount, not in release_mount.  *)
Asked ==
  [t \in Threads |->
     IF pc[t] \in {"drop", "dropped", "resume"} THEN NoVM ELSE req[t]]

MS == INSTANCE MountService WITH
  Clients <- Threads, Devices <- Slots, NoDevice <- NoSlot,
  asked <- Asked, reads <- mp, shows <- mnt

(* The slot table, with its locks, scans, steals, remounts, exits and      *)
(* restarts, gives its clients the service of MountService: whoever is     *)
(* handed a mount point (syncmount.cc 567, 584, 650) finds the VM asked    *)
(* for there, and no mount, umount or steal of another thread touches the  *)
(* mount point until it is given back.                                     *)
ImplementsMountService == MS!Spec
=============================================================================
