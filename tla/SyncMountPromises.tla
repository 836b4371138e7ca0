-------------------------- MODULE SyncMountPromises --------------------------
(***************************************************************************)
(* What the slot table promises its clients, where each VM has one thread  *)
(* and either there is a slot per VM or the one thread is alone and steals *)
(* (as in testmain.c and clam_spawn.c), for every number of VMs and slots: *)
(* a client reads the disk it asked for, the table implements              *)
(* MountService, its counts are right, and the pauses and resumes of a VM  *)
(* balance.                                                                *)
(***************************************************************************)
EXTENDS SyncMountProofs, SyncMountService

USE DEF callVars, slotVars, lockVars, hostVars, heldVars, histVars, rest,
        shared, vars

(* A slot per VM, or nobody to steal it from but oneself.                  *)
Undisturbed ==
  /\ Exclusive
  /\ \/ IsFiniteSet(VMs) /\ Cardinality(VMs) <= DEVMAX
     \/ \E t \in Threads : Threads = {t}

(* Nobody steals, or a lone thread does and takes an idle slot.            *)
StealInv ==
  /\ AllSlotsLockedBeforeSteal
  /\ NeverSteals \/ (EvictsLeastRecent /\ \E t \in Threads : Threads = {t})

LEMMA StealInvariant ==
  ASSUME Undisturbed
  PROVE  Spec => []StealInv
<1>1. CASE IsFiniteSet(VMs) /\ Cardinality(VMs) <= DEVMAX
  BY <1>1, EnoughSlotsNoSteal, StealIsLastResort, PTL
  DEF Undisturbed, StealInv
<1>2. CASE \E t \in Threads : Threads = {t}
  <2>1. Spec => []EvictsLeastRecent
    BY <1>2, LeastRecentEvicted
  <2>2. EvictsLeastRecent /\ AllSlotsLockedBeforeSteal => StealInv
    BY <1>2 DEF StealInv
  <2> QED
    BY <2>1, <2>2, StealIsLastResort, PTL
<1> QED
  BY <1>1, <1>2 DEF Undisturbed

----------------------------------------------------------------------------
(* The invariant: disks. *)

(* What an umount fails to remove a mount covers, or neither fails: not    *)
(* both the umount before a mount and the mount itself may fail, nor does  *)
(* a child unmount what covers the rest of a failed umount.                *)
Covering == "umount" \in MayFail => {"mount", "exec"} \cap MayFail = {}

(* The file system d is VM v's; or there is none, if mounts may fail or    *)
(* somebody may unmount everything.                                        *)
Shows(d, v) ==
  Covering =>
    d = v \/ (d = NoVM /\ {"mount", "exec"} \cap MayFail # {})

(* In do_nbd_mount.                                                        *)
Mounting == {"synclock", "sync", "stuck", "connect", "pause", "mount"}

(* In a call, with a slot that is the VM's.                                *)
Busy == Mounting \cup {"hit", "bump", "return"}

(* With a slot that is to get another name.                                *)
Taking == {"evict", "evictresume", "disconnect", "claim"}

(* A client's mount point belongs to the slot that names its VM.           *)
HeldShown ==
  \A t \in Threads, v \in VMs :
    mp[t][v] # NoSlot => vmi[mp[t][v]] = v /\ Shows(mnt[mp[t][v]], v)

(* A thread that mounts works on the slot that names its VM.               *)
Working ==
  \A t \in Threads :
    /\ pc[t] \in Busy =>
         req[t] \in Serves[t] /\ vmi[ix[t]] = req[t]
    /\ pc[t] \in {"pause", "mount"} => Shows(nbd[ix[t]], req[t])
    /\ pc[t] \in {"hit", "bump", "return"} => Shows(mnt[ix[t]], req[t])

(* A slot that is to get a name is locked and in no client's hands.  One   *)
(* found free has no name yet, and one thread to claim it; one stolen is   *)
(* a lone thread's.                                                        *)
Claiming ==
  \A t \in Threads : pc[t] \in Taking =>
    /\ l[ix[t]] /\ \A u \in Threads, v \in VMs : mp[u][v] # ix[t]
    /\ vmi[ix[t]] = NoVM \/ Threads = {t}
    /\ \A u \in Threads \ {t} : pc[u] \in Taking => ix[u] # ix[t]

NamedTaken == \A s \in Slots : vmi[s] # NoVM => l[s]

(* A slot shows the disk of the VM it names, or a thread is mounting it.   *)
NamedShown ==
  \A s \in Slots : vmi[s] # NoVM =>
    \/ Shows(mnt[s], vmi[s])
    \/ \E t \in Threads : pc[t] \in Mounting \cup Taking /\ ix[t] = s

(* As long as no process exits in the middle, a device in use belongs to a *)
(* slot with a name.                                                       *)
Devices ==
  "connect" \notin MayFail =>
    /\ \A s \in Slots : nbd[s] # NoVM => vmi[s] # NoVM
    /\ \A t \in Threads :
         pc[t] \in {"claim", "synclock", "sync", "connect"} => nbd[ix[t]] = NoVM

DiskInv ==
  HeldShown /\ Working /\ Claiming /\ NamedTaken /\ NamedShown /\ Devices

----------------------------------------------------------------------------
(* The invariant: clients and counts. *)

Releasing == {"drop", "dropped", "resume"}

(* A thread outside a call has asked for nothing; a VM in a call is not    *)
(* held; a client holds only VMs it serves.                                *)
Unasked    == \A t \in Threads : pc[t] \in Outside => req[t] = NoVM
NotHeld    == \A t \in Threads, v \in VMs : req[t] = v => mp[t][v] = NoSlot
HeldServed == \A t \in Threads, v \in VMs : mp[t][v] # NoSlot => v \in Serves[t]

ClientInv == Unasked /\ NotHeld /\ HeldServed

(* The slot noted in mountdev is the one the client holds, and a release   *)
(* works on the slot that names its VM.                                    *)
Noted ==
  \A t \in Threads, v \in VMs : mp[t][v] # NoSlot => mountdev[v] = mp[t][v]
ReleasingOwn ==
  \A t \in Threads : pc[t] \in Releasing =>
    req[t] \in Serves[t] /\ vmi[ix[t]] = req[t]

NoteInv == Noted /\ ReleasingOwn

(* The VM's slot is counted for the client that has its mount point, or    *)
(* for the call that will hand it out or has taken it back.                *)
Counting == Mounting \cup {"return", "drop", "dropped"}
Counted(t, v) == mp[t][v] # NoSlot \/ (req[t] = v /\ pc[t] \in Counting)

CountsRight ==
  \A t \in Threads, s \in Slots :
    vmi[s] \in Serves[t] => refcount[s] = IF Counted(t, vmi[s]) THEN 1 ELSE 0
UnnamedIdle == \A s \in Slots : vmi[s] = NoVM => refcount[s] = 0
NamedServed ==
  \A s \in Slots : vmi[s] # NoVM => \E t \in Threads : vmi[s] \in Serves[t]
CountLoaded ==
  \A t \in Threads : /\ pc[t] = "bump" => reg[t] = 0
                     /\ pc[t] = "dropped" => reg[t] = 1

CountInv == CountsRight /\ UnnamedIdle /\ NamedServed /\ CountLoaded

(* All that holds of the table and its clients.                            *)
TableInv ==
  SearchInv /\ StealInv /\ DiskInv /\ ClientInv /\ NoteInv /\ CountInv

----------------------------------------------------------------------------
(* Steps that touch no slot's name, lock, device or mount point, and at    *)
(* most take a thread out of a call.                                       *)

Quiet(t) ==
  \/ RemountMiss(t) \/ RemountEnd(t) \/ GrabMiss(t) \/ GrabEnd(t) \/ GetName(t)
  \/ LruLock(t) \/ LruAge(t) \/ LruWeigh(t) \/ LruSleep(t)
  \/ ReleaseLoad(t) \/ ReleaseStore(t) \/ ReleaseResume(t)
  \/ GetVmiLock(t) \/ RelVmiLock(t)
  \/ \E v \in VMs : MountDisk(t, v)

LEMMA QuietSteps ==
  ASSUME TypeOK, NEW t \in Threads, Quiet(t)
  PROVE  /\ UNCHANGED <<vmi, l, nbd, mnt, mp>> /\ OthersStay(t)
         /\ pc[t] \notin Mounting \cup Taking
         /\ pc'[t] \notin Busy \cup Taking
<1> USE DEF TypeOK, LocalTypes, OthersStay, Mounting, Busy, Taking,
           Goto, Leave
<1>1. CASE RemountMiss(t)   BY <1>1 DEF RemountMiss
<1>2. CASE RemountEnd(t)    BY <1>2 DEF RemountEnd
<1>3. CASE GrabMiss(t)      BY <1>3 DEF GrabMiss
<1>4. CASE GrabEnd(t)       BY <1>4 DEF GrabEnd
<1>5. CASE GetName(t)       BY <1>5 DEF GetName
<1>6. CASE ReleaseLoad(t)   BY <1>6 DEF ReleaseLoad
<1>7. CASE ReleaseStore(t)  BY <1>7 DEF ReleaseStore
<1>8. CASE ReleaseResume(t) BY <1>8 DEF ReleaseResume
<1>9. CASE GetVmiLock(t)    BY <1>9 DEF GetVmiLock
<1>10. CASE RelVmiLock(t)   BY <1>10 DEF RelVmiLock
<1>11. CASE LruLock(t)      BY <1>11 DEF LruLock
<1>12. CASE LruAge(t)       BY <1>12 DEF LruAge
<1>13. CASE LruWeigh(t)     BY <1>13 DEF LruWeigh
<1>14. CASE LruSleep(t)     BY <1>14 DEF LruSleep
<1>15. ASSUME NEW v \in VMs, MountDisk(t, v)
       PROVE  /\ UNCHANGED <<vmi, l, nbd, mnt, mp>> /\ OthersStay(t)
              /\ pc[t] \notin Mounting \cup Taking
              /\ pc'[t] \notin Busy \cup Taking
  BY <1>15 DEF MountDisk
<1> QED
  BY <1>1, <1>2, <1>3, <1>4, <1>5, <1>6, <1>7, <1>8, <1>9, <1>10, <1>11,
     <1>12, <1>13, <1>14, <1>15
  DEF Quiet

LEMMA QuietDisks ==
  ASSUME TypeOK, DiskInv, NEW t \in Threads, Quiet(t)
  PROVE  DiskInv'
<1>1. /\ UNCHANGED <<vmi, l, nbd, mnt, mp>> /\ OthersStay(t)
      /\ pc[t] \notin Mounting \cup Taking /\ pc'[t] \notin Busy \cup Taking
  BY QuietSteps
<1> USE DEF DiskInv, OthersStay, Busy, Mounting, Taking
<1>2. HeldShown' /\ NamedTaken'
  BY <1>1 DEF HeldShown, NamedTaken, Shows
<1>3. Working'
  BY <1>1 DEF Working, Shows
<1>4. Claiming'
  BY <1>1 DEF Claiming
<1>5. NamedShown'
  BY <1>1 DEF NamedShown, Shows
<1>6. Devices'
  BY <1>1 DEF Devices
<1> QED
  BY <1>2, <1>3, <1>4, <1>5, <1>6

----------------------------------------------------------------------------
(* Steps of a call that has found its slot. *)

(* Two threads in calls work on different slots.                           *)
LEMMA SlotsApart ==
  ASSUME Exclusive, TypeOK, Working, NEW t \in Threads, NEW u \in Threads,
         t # u, pc[t] \in Busy, pc[u] \in Busy
  PROVE  ix[t] \in Slots /\ ix[u] \in Slots /\ ix[t] # ix[u]
<1>1. ix[t] \in Slots /\ ix[u] \in Slots
  BY DEF TypeOK, CallOK, Busy, Mounting, Outside, Searching
<1>2. req[t] # req[u]
  BY DEF Working, Exclusive
<1> QED
  BY <1>1, <1>2 DEF Working

(* So does one that claims a slot.                                         *)
LEMMA ClaimApart ==
  ASSUME TypeOK, Working, Claiming, NEW t \in Threads, NEW u \in Threads,
         pc[t] = "claim", pc[u] \in Busy
  PROVE  ix[t] \in Slots /\ ix[u] \in Slots /\ ix[t] # ix[u]
<1>1. u # t
  BY DEF Busy, Mounting
<1>2. /\ ix[t] \in Slots /\ ix[u] \in Slots
      /\ vmi[ix[t]] = NoVM /\ vmi[ix[u]] = req[u] /\ req[u] \in VMs
  BY <1>1
  DEF TypeOK, CallOK, Busy, Mounting, Taking, Outside, Searching, Claiming,
      Working
<1> QED
  BY <1>2, ConstantsAssumption

(* What a mount leaves at the mount point is the VM's disk, or nothing.    *)
LEMMA MountShows ==
  ASSUME TypeOK, HeldShown, Working, NEW t \in Threads,
         pc[t] = "mount", NEW under \in UmountLeaves(ix[t]),
         NEW fs \in MountCovers(t, under)
  PROVE  Shows(fs, req[t])
<1>1. /\ ix[t] \in Slots /\ ix[t] # NoSlot /\ vmi[ix[t]] = req[t]
      /\ req[t] \in VMs /\ req[t] # NoVM /\ Shows(nbd[ix[t]], req[t])
  BY ConstantsAssumption
  DEF TypeOK, CallOK, Outside, Searching, Working, Busy, Mounting, Slots, NoSlot
<1>2. CASE {"mount", "exec"} \cap MayFail = {}
  BY <1>1, <1>2 DEF Shows, MountCovers
<1>3. CASE {"mount", "exec"} \cap MayFail # {}
  <2>1. Covering => LazyLeaves = {NoVM}
    BY <1>3 DEF Covering, LazyLeaves
  <2>2. InUse(ix[t]) => Shows(mnt[ix[t]], req[t])
    BY <1>1 DEF InUse, HeldShown
  <2>3. Shows(under, req[t])
    BY <1>3, <2>1, <2>2 DEF UmountLeaves, Shows
  <2> QED
    BY <1>1, <2>3 DEF MountCovers
<1> QED
  BY <1>2, <1>3

LEMMA CallDisks ==
  ASSUME Exclusive, TypeOK, SearchInv, DiskInv, NEW t \in Threads,
         \/ RemountHit(t) \/ RemountLoad(t) \/ RemountStore(t)
         \/ GrabSlot(t) \/ Claim(t) \/ SyncLock(t) \/ DoSync(t)
         \/ DoSyncStuck(t) \/ Connect(t)
         \/ PauseForMount(t) \/ MountFs(t) \/ Return(t)
         \/ \E v \in VMs : UnmountDisk(t, v)
  PROVE  DiskInv'
<1> USE ConstantsAssumption
    DEF TypeOK, LocalTypes, SlotTypes, HostTypes, ClientTypes, DiskInv,
        HeldShown, Working, Claiming, NamedTaken, NamedShown, Devices, Busy,
        Mounting, Taking, Shows, Goto
<1>1. CASE RemountHit(t)
  <2>1. ix[t] \in Slots /\ req[t] \in Serves[t] /\ vmi[ix[t]] = req[t]
                        /\ req[t] \in VMs
    BY <1>1 DEF RemountHit, Slots, SearchInv, NotNamed, CallOK, Outside
  <2>2. ASSUME NEW u \in Threads, pc[u] \in Mounting \cup Taking,
               ix[u] = ix[t]
        PROVE  FALSE
    <3>1. u # t
      BY <1>1, <2>2 DEF RemountHit
    <3>2. CASE pc[u] \in Mounting
      <4>1. req[u] = req[t] /\ req[u] \in Serves[u]
        BY <2>1, <2>2, <3>2
      <4> QED
        BY <2>1, <3>1, <4>1 DEF Exclusive
    <3>3. CASE pc[u] \in Taking
      BY <2>1, <2>2, <3>1, <3>3
    <3> QED
      BY <2>2, <3>2, <3>3
  <2>3. Shows(mnt[ix[t]], req[t])
    <3>1. vmi[ix[t]] # NoVM /\ NamedShown
      BY <2>1
    <3> HIDE DEF DiskInv, Shows, Mounting, Taking, HeldShown, Working, Devices
    <3> QED
      BY <3>1, <2>1, <2>2
  <2>4. Working'
    BY <1>1, <2>1, <2>3 DEF RemountHit
  <2>5. HeldShown' /\ Claiming' /\ NamedTaken'
    BY <1>1 DEF RemountHit
  <2>6. NamedShown'
    BY <1>1, <2>1, <2>3 DEF RemountHit
  <2>7. Devices'
    BY <1>1 DEF RemountHit
  <2> QED
    BY <2>4, <2>5, <2>6, <2>7
<1>2. CASE RemountLoad(t)
  <2>1. HeldShown' /\ Working' /\ Claiming' /\ NamedTaken'
    BY <1>2 DEF RemountLoad
  <2>2. NamedShown' /\ Devices'
    BY <1>2 DEF RemountLoad
  <2> QED
    BY <2>1, <2>2
<1>3. CASE RemountStore(t)
  <2>1. HeldShown' /\ Working' /\ Claiming' /\ NamedTaken'
    BY <1>3 DEF RemountStore
  <2>2. NamedShown' /\ Devices'
    BY <1>3 DEF RemountStore
  <2> QED
    BY <2>1, <2>2
<1>4. CASE GrabSlot(t)
  <2>1. /\ ix[t] \in Slots /\ ~ l[ix[t]] /\ vmi[ix[t]] = NoVM
        /\ ix[t] # NoSlot
    BY <1>4 DEF GrabSlot, Slots, NoSlot
  <2>2. /\ \A u \in Threads \ {t} : pc[u] \in Taking => ix[u] # ix[t]
        /\ \A u \in Threads, v \in VMs : mp[u][v] # ix[t]
    BY <2>1
  <2>3. Claiming'
    BY <1>4, <2>1, <2>2 DEF GrabSlot
  <2>4. HeldShown' /\ Working' /\ NamedTaken'
    BY <1>4 DEF GrabSlot
  <2>5. NamedShown'
    BY <1>4 DEF GrabSlot
  <2>6. Devices'
    BY <1>4, <2>1 DEF GrabSlot
  <2> QED
    BY <2>3, <2>4, <2>5, <2>6
<1>5. CASE Claim(t)
  <2>1. /\ ix[t] \in Slots /\ req[t] \in VMs /\ req[t] \in Serves[t]
        /\ l[ix[t]] /\ \A u \in Threads, v \in VMs : mp[u][v] # ix[t]
    BY <1>5 DEF Claim, SearchInv, NotNamed, Looking, CallOK, Outside, Searching
  <2>2. \A s \in Slots : vmi'[s] = IF s = ix[t] THEN req[t] ELSE vmi[s]
    BY <1>5 DEF Claim
  <2>3. \A u \in Threads : pc[u] \in Busy => ix[u] \in Slots /\ ix[u] # ix[t]
    BY <1>5, ClaimApart DEF Claim
  <2>4. Working'
    BY <1>5, <2>1, <2>2, <2>3 DEF Claim
  <2>5. Devices'
    BY <1>5, <2>1, <2>2, <2>3 DEF Claim
  <2>6. HeldShown' /\ Claiming' /\ NamedTaken' /\ NamedShown'
    BY <1>5 DEF Claim, CallOK, Outside, Searching
  <2> QED
    BY <2>4, <2>5, <2>6
<1>6. CASE SyncLock(t)
  BY <1>6 DEF SyncLock
<1>7. CASE DoSync(t)
  BY <1>7 DEF DoSync
<1>8. CASE Connect(t)
  <2>1. /\ ix[t] \in Slots /\ pc[t] \in Busy
        /\ \A u \in Threads \ {t} : pc[u] \in Busy => ix[u] # ix[t]
    BY <1>8, SlotsApart DEF Connect, CallOK, Outside, Searching
  <2>2. Working'
    BY <1>8, <2>1 DEF Connect
  <2>3. HeldShown' /\ Claiming' /\ NamedTaken'
    BY <1>8 DEF Connect
  <2>4. NamedShown'
    BY <1>8 DEF Connect
  <2>5. Devices'
    BY <1>8, <2>1 DEF Connect
  <2> QED
    BY <2>2, <2>3, <2>4, <2>5
<1>9. CASE PauseForMount(t)
  BY <1>9 DEF PauseForMount
<1>10. CASE MountFs(t)
  <2>1. /\ ix[t] \in Slots /\ pc[t] = "mount" /\ pc[t] \in Busy
        /\ \A u \in Threads \ {t} : pc[u] \in Busy => ix[u] # ix[t]
    BY <1>10, SlotsApart DEF MountFs, CallOK, Outside, Searching
  <2>2. PICK under \in UmountLeaves(ix[t]) :
           \E fs \in MountCovers(t, under) : mnt' = [mnt EXCEPT ![ix[t]] = fs]
    BY <1>10 DEF MountFs
  <2>3. PICK fs \in MountCovers(t, under) : mnt' = [mnt EXCEPT ![ix[t]] = fs]
    BY <2>2
  <2>4. vmi[ix[t]] = req[t] /\ Shows(fs, req[t])
    <3> HIDE DEF Shows, TypeOK, HeldShown, Working
    <3> QED
      BY <2>1, MountShows DEF Working
  <2>5. /\ mnt' = [mnt EXCEPT ![ix[t]] = fs] /\ mnt'[ix[t]] = fs
        /\ pc' = [pc EXCEPT ![t] = "return"]
        /\ UNCHANGED <<vmi, l, nbd, mp, req, ix>> /\ ix[t] # NoSlot
    BY <1>10, <2>1, <2>3 DEF MountFs, Slots, NoSlot
  <2>6. Working'
    BY <2>1, <2>4, <2>5
  <2>7. HeldShown'
    BY <2>1, <2>4, <2>5
  <2>8. Claiming' /\ NamedTaken' /\ Devices'
    BY <2>1, <2>5
  <2>9. NamedShown'
    BY <2>1, <2>4, <2>5
  <2> QED
    BY <2>6, <2>7, <2>8, <2>9
<1>11. CASE Return(t)
  <2>1. /\ ix[t] \in Slots /\ req[t] \in VMs /\ pc[t] = "return"
        /\ vmi[ix[t]] = req[t] /\ Shows(mnt[ix[t]], req[t])
    BY <1>11 DEF Return, CallOK, Outside, Searching
  <2>2. /\ mp' = [mp EXCEPT ![t][req[t]] = ix[t]]
        /\ pc' = [pc EXCEPT ![t] = "idle"]
        /\ req' = [req EXCEPT ![t] = NoVM] /\ ix' = [ix EXCEPT ![t] = 0]
        /\ UNCHANGED <<vmi, l, nbd, mnt>>
    BY <1>11 DEF Return, Leave
  <2>3. HeldShown' /\ Working' /\ NamedTaken'
    BY <2>1, <2>2
  <2>4. ASSUME NEW u \in Threads \ {t}, pc[u] \in Taking PROVE ix[u] # ix[t]
    <3>1. vmi[ix[u]] = NoVM
      BY <2>4 DEF DiskInv, Claiming
    <3> QED
      BY <2>1, <3>1
  <2>5. Claiming'
    BY <2>2, <2>4
  <2>6. NamedShown' /\ Devices'
    BY <2>1, <2>2
  <2> QED
    BY <2>3, <2>5, <2>6
<1>12. ASSUME NEW v \in VMs, UnmountDisk(t, v) PROVE DiskInv'
  <2>1. HeldShown'
    BY <1>12 DEF UnmountDisk, NoSlot
  <2>2. Working' /\ NamedTaken'
    BY <1>12 DEF UnmountDisk
  <2>3. Claiming'
    <3>1. /\ pc' = [pc EXCEPT ![t] = "drop"]
          /\ mp' = [mp EXCEPT ![t][v] = NoSlot]
          /\ ix' = [ix EXCEPT ![t] = mountdev[v]] /\ UNCHANGED <<vmi, l>>
      BY <1>12 DEF UnmountDisk, SlotOf
    <3>2. ASSUME NEW u \in Threads, pc[u] \in Taking PROVE ix[u] # NoSlot
      BY <3>2 DEF CallOK, Outside, Searching, Slots, NoSlot
    <3> QED
      BY <3>1, <3>2
  <2>4. NamedShown'
    BY <1>12 DEF UnmountDisk
  <2>5. Devices'
    BY <1>12 DEF UnmountDisk
  <2> QED
    BY <2>1, <2>2, <2>3, <2>4, <2>5
<1>13. CASE DoSyncStuck(t)
  BY <1>13 DEF DoSyncStuck
<1> QED
  BY <1>1, <1>2, <1>3, <1>4, <1>5, <1>6, <1>7, <1>8, <1>9, <1>10, <1>11,
     <1>12, <1>13

----------------------------------------------------------------------------
(* The process, and the whole. *)

(* A process that ends takes the table with it, and leaves its devices     *)
(* only if a command failed.                                               *)
LEMMA EndDisks ==
  ASSUME TypeOK, ProcessEnds,
         "connect" \notin MayFail => \A s \in Slots : nbd'[s] = NoVM
  PROVE  DiskInv'
<1> USE DEF ProcessEnds, DiskInv, HeldShown, Working, Claiming, NamedTaken,
            NamedShown, Devices, Busy, Mounting, Taking, NoSlot
<1>1. HeldShown' /\ NamedTaken' /\ NamedShown'
  OBVIOUS
<1>2. Working' /\ Claiming' /\ Devices'
  OBVIOUS
<1> QED
  BY <1>1, <1>2

LEMMA ConnectFailsDisks ==
  ASSUME TypeOK, DiskInv, NEW t \in Threads, ConnectFails(t)
  PROVE  DiskInv'
<1>1. "connect" \in MayFail
  BY DEF ConnectFails, DiskInv, Devices
<1> QED
  BY <1>1, EndDisks DEF ConnectFails

(* A child that returns may unmount what its parent's clients read.        *)
LEMMA ChildDisks ==
  ASSUME TypeOK, DiskInv, NEW t \in Threads, ChildReturns(t)
  PROVE  DiskInv'
<1> USE DEF TypeOK, CallOK, Outside, Searching, DiskInv, Busy, Mounting, Taking,
            Shows, ChildReturns, DropAllMounts, ClientTypes, NoSlot
<1>0. Covering => \A s \in Slots : mnt'[s] \in {mnt[s], NoVM}
  BY DEF Covering, UmountLeaves, LazyLeaves
<1>1. HeldShown'
  BY <1>0 DEF HeldShown
<1>2. Working' /\ Claiming' /\ NamedTaken'
  BY <1>0 DEF Working, Claiming, NamedTaken
<1>3. NamedShown'
  BY <1>0 DEF NamedShown
<1>4. Devices'
  BY DEF Devices
<1> QED
  BY <1>1, <1>2, <1>3, <1>4

(* A lone thief's slot is idle: no client holds a mount point there.       *)
LEMMA PickDisks ==
  ASSUME TypeOK, TableInv, StealInv', NEW t \in Threads, LruPick(t)
  PROVE  DiskInv'
<1> USE DEF TypeOK, LocalTypes, Goto
<1>1. /\ pc' = [pc EXCEPT ![t] = "evict"] /\ pc[t] = "scan"
      /\ ix' = [ix EXCEPT ![t] = lru[t].maxix] /\ lru[t].maxix \in Slots
      /\ UNCHANGED <<req, vmi, l, refcount, nbd, mnt, mp>>
  BY DEF LruPick, Scans
<1> DEFINE s == lru[t].maxix
<1>2. Threads = {t} /\ refcount[s] = 0 /\ l[s]
  <2>1. Threads = {t} /\ EvictsLeastRecent'
    BY <1>1 DEF StealInv, NeverSteals, Stealing
  <2>2. refcount[s] = 0
    BY <1>1, <2>1 DEF EvictsLeastRecent
  <2>3. l[s]
    BY <1>1 DEF TableInv, StealInv, AllSlotsLockedBeforeSteal, Stealing
  <2> QED
    BY <2>1, <2>2, <2>3
<1>3. ASSUME NEW v \in VMs, mp[t][v] = s PROVE FALSE
  <2>1. mp[t][v] # NoSlot
    BY <1>1, <1>3 DEF Slots, NoSlot
  <2>2. vmi[s] = v /\ v \in Serves[t] /\ Counted(t, v)
    BY <1>3, <2>1 DEF TableInv, DiskInv, HeldShown, ClientInv, HeldServed,
                      Counted
  <2> QED
    BY <1>1, <1>2, <2>2 DEF TableInv, CountInv, CountsRight
<1> USE DEF TableInv, DiskInv, Busy, Mounting, Taking
<1>4. HeldShown' /\ NamedTaken'
  BY <1>1 DEF HeldShown, NamedTaken, Shows
<1>5. Working' /\ Claiming'
  BY <1>1, <1>2, <1>3 DEF Working, Claiming, Shows
<1>6. NamedShown' /\ Devices'
  BY <1>1 DEF NamedShown, Devices, Shows
<1> QED
  BY <1>4, <1>5, <1>6

(* do_nbd_unmount on the stolen slot.                                      *)
LEMMA StealDisks ==
  ASSUME TypeOK, TableInv, NEW t \in Threads,
         EvictUmount(t) \/ EvictResume(t) \/ Disconnect(t)
  PROVE  DiskInv'
<1> USE DEF TypeOK, LocalTypes, HostTypes, TableInv, DiskInv, Busy, Mounting,
            Taking, Goto
<1>1. Threads = {t} /\ ix[t] \in Slots
  BY DEF EvictUmount, EvictResume, Disconnect, StealInv, NeverSteals, Stealing,
         CallOK, Outside, Searching
<1>2. CASE EvictUmount(t)
  BY <1>1, <1>2
  DEF EvictUmount, HeldShown, Working, Claiming, NamedTaken, NamedShown,
      Devices
<1>3. CASE EvictResume(t)
  BY <1>1, <1>3
  DEF EvictResume, HeldShown, Working, Claiming, NamedTaken, NamedShown,
      Devices
<1>4. CASE Disconnect(t)
  BY <1>1, <1>4
  DEF Disconnect, HeldShown, Working, Claiming, NamedTaken, NamedShown,
      Devices
<1> QED
  BY <1>2, <1>3, <1>4

LEMMA DiskStep ==
  ASSUME Exclusive, TypeOK, TableInv, StealInv', [Next]_vars
  PROVE  DiskInv'
<1> USE DEF TableInv
<1>1. ASSUME NEW t \in Threads, Step(t) PROVE DiskInv'
  <2>1. \/ Quiet(t) \/ ConnectFails(t) \/ LruUnlock(t)
        \/ RemountHit(t) \/ RemountLoad(t) \/ RemountStore(t)
        \/ GrabSlot(t) \/ Claim(t) \/ SyncLock(t) \/ DoSync(t) \/ Connect(t)
        \/ PauseForMount(t) \/ MountFs(t) \/ Return(t)
        \/ LruPick(t) \/ EvictUmount(t) \/ EvictResume(t) \/ Disconnect(t)
    BY <1>1 DEF Step, Quiet
  <2>2. CASE LruUnlock(t)
    BY <2>2 DEF LruUnlock, DiskInv, HeldShown, Working, Claiming, NamedTaken,
                NamedShown, Devices
  <2> QED
    BY <2>1, <2>2, QuietDisks, ConnectFailsDisks, CallDisks, PickDisks,
       StealDisks
<1>2. ASSUME NEW t \in Threads, Call(t) PROVE DiskInv'
  BY <1>2, QuietDisks, CallDisks DEF Call, Quiet
<1>3. CASE Shutdown
  BY <1>3, EndDisks DEF Shutdown, DropAllMounts
<1>4. ASSUME NEW t \in Threads, ChildReturns(t) PROVE DiskInv'
  BY <1>4, ChildDisks
<1>5. CASE Restart
  BY <1>5 DEF Restart, TypeOK, LocalTypes, DiskInv, HeldShown, Working,
              Claiming, NamedTaken, NamedShown, Devices, Busy, Mounting,
              Taking
<1>6. CASE Tick \/ Ended \/ UNCHANGED vars
  BY <1>6 DEF Tick, Ended, DiskInv, HeldShown, Working, Claiming, NamedTaken,
              NamedShown, Devices
<1>7. ASSUME NEW t \in Threads, DoSyncWaits(t) PROVE UNCHANGED vars
  BY <1>7 DEF DoSyncWaits
<1>8. ASSUME NEW t \in Threads, DoSyncStuck(t) PROVE DiskInv'
  BY <1>8, CallDisks
<1> QED
  BY <1>1, <1>2, <1>3, <1>4, <1>5, <1>6, <1>7, <1>8 DEF Next

LEMMA DiskInit == Init => DiskInv
  BY DEF Init, DiskInv, HeldShown, Working, Claiming, NamedTaken, NamedShown,
         Devices, Busy, Mounting, Taking, NoSlot
----------------------------------------------------------------------------
(* Steps no client can see: the thread stays in its call, or its release   *)
(* ends, and no mount point changes hands or content.                      *)

Hidden(t) ==
  \/ RemountMiss(t) \/ RemountHit(t) \/ RemountLoad(t) \/ RemountStore(t)
  \/ RemountEnd(t) \/ GrabMiss(t) \/ GrabSlot(t) \/ GrabEnd(t) \/ Claim(t)
  \/ GetName(t) \/ LruLock(t) \/ LruAge(t) \/ LruWeigh(t) \/ LruSleep(t)
  \/ LruPick(t) \/ EvictResume(t) \/ Disconnect(t)
  \/ SyncLock(t) \/ DoSync(t) \/ Connect(t) \/ PauseForMount(t)
  \/ LruUnlock(t) \/ ReleaseLoad(t) \/ ReleaseStore(t) \/ ReleaseResume(t)
  \/ GetVmiLock(t) \/ RelVmiLock(t) \/ DoSyncStuck(t) \/ DoSyncWaits(t)

Stays(t) ==
  \/ UNCHANGED req /\ (pc[t] \in Releasing <=> pc'[t] \in Releasing)
                   /\ (pc'[t] \in Outside => pc[t] \in Outside)
  \/ /\ pc[t] \in Releasing /\ pc'[t] \in Outside
     /\ req' = [req EXCEPT ![t] = NoVM]

LEMMA HiddenSteps ==
  ASSUME TypeOK, NEW t \in Threads, Hidden(t)
  PROVE  UNCHANGED <<mp, mnt>> /\ OthersStay(t) /\ Stays(t)
<1> USE DEF TypeOK, LocalTypes, OthersStay, Stays, Releasing, Outside, Goto
<1>1. CASE RemountMiss(t)    BY <1>1 DEF RemountMiss
<1>2. CASE RemountHit(t)     BY <1>2 DEF RemountHit
<1>3. CASE RemountLoad(t)    BY <1>3 DEF RemountLoad
<1>4. CASE RemountStore(t)   BY <1>4 DEF RemountStore
<1>5. CASE RemountEnd(t)     BY <1>5 DEF RemountEnd
<1>6. CASE GrabMiss(t)       BY <1>6 DEF GrabMiss
<1>7. CASE GrabSlot(t)       BY <1>7 DEF GrabSlot
<1>8. CASE GrabEnd(t)        BY <1>8 DEF GrabEnd
<1>9. CASE Claim(t)          BY <1>9 DEF Claim
<1>10. CASE GetName(t)       BY <1>10 DEF GetName
<1>11. CASE SyncLock(t)      BY <1>11 DEF SyncLock
<1>12. CASE DoSync(t)        BY <1>12 DEF DoSync
<1>13. CASE Connect(t)       BY <1>13 DEF Connect
<1>14. CASE PauseForMount(t) BY <1>14 DEF PauseForMount
<1>15. CASE LruUnlock(t)     BY <1>15 DEF LruUnlock
<1>16. CASE ReleaseLoad(t)   BY <1>16 DEF ReleaseLoad
<1>17. CASE ReleaseStore(t)  BY <1>17 DEF ReleaseStore
<1>18. CASE ReleaseResume(t) BY <1>18 DEF ReleaseResume, Leave
<1>19. CASE GetVmiLock(t)    BY <1>19 DEF GetVmiLock
<1>20. CASE RelVmiLock(t)    BY <1>20 DEF RelVmiLock
<1>21. CASE DoSyncWaits(t)   BY <1>21 DEF DoSyncWaits
<1>22. CASE LruLock(t)       BY <1>22 DEF LruLock
<1>23. CASE LruAge(t)        BY <1>23 DEF LruAge
<1>24. CASE LruWeigh(t)      BY <1>24 DEF LruWeigh
<1>25. CASE LruSleep(t)      BY <1>25 DEF LruSleep
<1>26. CASE LruPick(t)       BY <1>26 DEF LruPick
<1>27. CASE EvictResume(t)   BY <1>27 DEF EvictResume
<1>28. CASE Disconnect(t)    BY <1>28 DEF Disconnect
<1>29. CASE DoSyncStuck(t)   BY <1>29 DEF DoSyncStuck
<1> QED
  BY <1>1, <1>2, <1>3, <1>4, <1>5, <1>6, <1>7, <1>8, <1>9, <1>10, <1>11,
     <1>12, <1>13, <1>14, <1>15, <1>16, <1>17, <1>18, <1>19, <1>20, <1>21,
     <1>22, <1>23, <1>24, <1>25, <1>26, <1>27, <1>28, <1>29
  DEF Hidden

(* The steps that are left.                                                *)
LEMMA VisibleSteps ==
  ASSUME TypeOK, Next
  PROVE  \/ \E t \in Threads :
              \/ Hidden(t) \/ EvictUmount(t) \/ MountFs(t) \/ Return(t)
              \/ ChildReturns(t)
              \/ \E v \in VMs : MountDisk(t, v) \/ UnmountDisk(t, v)
         \/ ProcessEnds /\ mnt' \in [Slots -> VMs \cup {NoVM}]
         \/ UNCHANGED <<req, mp, mnt>> /\ \A t \in Threads :
              pc'[t] = pc[t] \/ (pc[t] = "exited" /\ pc'[t] = "idle")
<1>1. ASSUME NEW t \in Threads, Step(t)
      PROVE  \/ Hidden(t) \/ EvictUmount(t) \/ MountFs(t) \/ Return(t)
             \/ ProcessEnds /\ mnt' \in [Slots -> VMs \cup {NoVM}]
  BY <1>1 DEF Step, Hidden, ConnectFails, TypeOK, HostTypes
<1>2. ASSUME NEW t \in Threads, Call(t)
      PROVE  Hidden(t) \/ \E v \in VMs : MountDisk(t, v) \/ UnmountDisk(t, v)
  BY <1>2 DEF Call, Hidden
<1>3. CASE Shutdown
  BY <1>3 DEF Shutdown, DropAllMounts
<1>4. ASSUME NEW t \in Threads, DoSyncStuck(t) \/ DoSyncWaits(t)
      PROVE  Hidden(t)
  BY <1>4 DEF Hidden
<1>5. CASE Restart \/ Tick \/ Ended
  BY <1>5 DEF Restart, Tick, Ended, TypeOK, LocalTypes
<1> QED
  BY <1>1, <1>2, <1>3, <1>4, <1>5 DEF Next

----------------------------------------------------------------------------
LEMMA ClientStep ==
  ASSUME TypeOK, TableInv, [Next]_vars
  PROVE  ClientInv'
<1> USE ConstantsAssumption
    DEF TypeOK, LocalTypes, ClientTypes, TableInv, ClientInv, Unasked, NotHeld,
        HeldServed, Outside, Releasing
<1>1. ASSUME NEW t \in Threads, Hidden(t) PROVE ClientInv'
  <2>1. UNCHANGED <<mp, mnt>> /\ OthersStay(t) /\ Stays(t)
    BY <1>1, HiddenSteps
  <2>2. CASE /\ UNCHANGED req
             /\ pc'[t] \in Outside => pc[t] \in Outside
    <3>1. \A u \in Threads : pc'[u] \in Outside => pc[u] \in Outside
      BY <2>1, <2>2 DEF OthersStay
    <3> QED
      BY <2>1, <2>2, <3>1
  <2>3. CASE req' = [req EXCEPT ![t] = NoVM]
    <3>1. \A u \in Threads \ {t} : pc'[u] = pc[u] /\ req'[u] = req[u]
      BY <2>1, <2>3 DEF OthersStay
    <3>2. req'[t] = NoVM
      BY <2>3
    <3>3. Unasked'
      BY <3>1, <3>2
    <3>4. \A u \in Threads, v \in VMs : req'[u] = v => req[u] = v
      BY <3>1, <3>2
    <3>5. NotHeld'
      BY <2>1, <3>4
    <3> QED
      BY <2>1, <3>3, <3>5
  <2> QED
    BY <2>1, <2>2, <2>3 DEF Stays
<1>2. ASSUME NEW t \in Threads, EvictUmount(t) \/ MountFs(t) PROVE ClientInv'
  BY <1>2 DEF EvictUmount, MountFs, Goto
<1>3. ASSUME NEW t \in Threads, Return(t) PROVE ClientInv'
  BY <1>3 DEF Return, Leave, Goto, DiskInv, Working, Busy
<1>4. ASSUME NEW t \in Threads, NEW v \in VMs, MountDisk(t, v) PROVE ClientInv'
  BY <1>4 DEF MountDisk, Goto, Held
<1>5. ASSUME NEW t \in Threads, NEW v \in VMs, UnmountDisk(t, v)
      PROVE  ClientInv'
  BY <1>5 DEF UnmountDisk, Goto, Held
<1>6. CASE ProcessEnds
  BY <1>6 DEF ProcessEnds
<1>7. CASE UNCHANGED <<req, mp>> /\ \A t \in Threads :
              pc'[t] = pc[t] \/ (pc[t] = "exited" /\ pc'[t] = "idle")
  BY <1>7
<1>8. CASE UNCHANGED vars
  BY <1>8
<1>9. ASSUME NEW t \in Threads, ChildReturns(t) PROVE ClientInv'
  BY <1>9 DEF ChildReturns
<1> QED
  BY <1>1, <1>2, <1>3, <1>4, <1>5, <1>6, <1>7, <1>8, <1>9, VisibleSteps

LEMMA ClientInit == Init => ClientInv
  BY DEF Init, ClientInv, Unasked, NotHeld, HeldServed, NoSlot

----------------------------------------------------------------------------
(* Names and notes. *)

(* No slot changes its name while a thread releases it.                    *)
LEMMA NamesStay ==
  ASSUME TypeOK, TableInv, Next
  PROVE  \/ ProcessEnds
         \/ \A t \in Threads : pc[t] \in Releasing => vmi'[ix[t]] = vmi[ix[t]]
<1> USE DEF TableInv, Quiet
<1>1. ASSUME NEW t \in Threads, Elsewhere(t) PROVE UNCHANGED vmi
  BY <1>1, ElsewhereSteps
<1>2. ASSUME NEW t \in Threads, Thieving(t) PROVE UNCHANGED vmi
  BY <1>2, ThievingSteps
<1>3. ASSUME NEW t \in Threads,
             \/ \E v \in VMs : MountDisk(t, v)
             \/ RemountMiss(t) \/ RemountEnd(t) \/ GrabMiss(t) \/ GrabEnd(t)
      PROVE  UNCHANGED vmi
  BY <1>3, QuietSteps
<1>4. ASSUME NEW t \in Threads, GrabSlot(t) PROVE UNCHANGED vmi
  BY <1>4 DEF GrabSlot
<1>5. ASSUME NEW t \in Threads, Claim(t)
      PROVE  \A u \in Threads : pc[u] \in Releasing => vmi'[ix[u]] = vmi[ix[u]]
  <2> SUFFICES ASSUME NEW u \in Threads, pc[u] \in Releasing
               PROVE  vmi'[ix[u]] = vmi[ix[u]]
    OBVIOUS
  <2>1. pc[t] = "claim" /\ vmi' = [vmi EXCEPT ![ix[t]] = req[t]] /\ u # t
    BY <1>5 DEF Claim, Goto, Releasing
  <2>2. ix[u] \in Slots /\ vmi[ix[u]] = req[u] /\ req[u] \in VMs
    BY DEF TypeOK, CallOK, Outside, Searching, Releasing, NoteInv, ReleasingOwn
  <2>3. vmi[ix[t]] = NoVM
    BY <2>1 DEF DiskInv, Claiming, Taking
  <2> QED
    BY <2>1, <2>2, <2>3, ConstantsAssumption DEF TypeOK, SlotTypes
<1> QED
  BY <1>1, <1>2, <1>3, <1>4, <1>5, StepKinds

(* The steps that touch neither mountdev nor a client's mount points, and  *)
(* start no release.                                                       *)
LEMMA NotesStay ==
  ASSUME TypeOK, Next
  PROVE  \/ \E t \in Threads : Return(t) \/ \E v \in VMs : UnmountDisk(t, v)
         \/ ProcessEnds
         \/ /\ UNCHANGED <<mp, mountdev>>
            /\ \A t \in Threads : pc'[t] \in Releasing =>
                 pc[t] \in Releasing /\ req'[t] = req[t] /\ ix'[t] = ix[t]
<1> DEFINE Still(t) ==
             /\ UNCHANGED <<mp, mountdev>> /\ OthersStay(t)
             /\ pc'[t] \in Releasing =>
                  pc[t] \in Releasing /\ req'[t] = req[t] /\ ix'[t] = ix[t]
<1> USE DEF TypeOK, LocalTypes, Goto, Releasing, OthersStay, Leave
<1>1. ASSUME NEW t \in Threads,
             \/ RemountMiss(t) \/ RemountHit(t) \/ RemountLoad(t)
             \/ RemountStore(t) \/ RemountEnd(t)
             \/ \E v \in VMs : MountDisk(t, v)
      PROVE  Still(t)
  BY <1>1 DEF RemountMiss, RemountHit, RemountLoad, RemountStore, RemountEnd,
              MountDisk
<1>2. ASSUME NEW t \in Threads,
             GrabMiss(t) \/ GrabSlot(t) \/ GrabEnd(t) \/ Claim(t) \/ GetName(t)
      PROVE  Still(t)
  BY <1>2 DEF GrabMiss, GrabSlot, GrabEnd, Claim, GetName
<1>3. ASSUME NEW t \in Threads,
             \/ SyncLock(t) \/ DoSync(t) \/ Connect(t) \/ PauseForMount(t)
             \/ MountFs(t) \/ LruUnlock(t) \/ DoSyncStuck(t)
      PROVE  Still(t)
  BY <1>3 DEF SyncLock, DoSync, Connect, PauseForMount, MountFs, LruUnlock,
              DoSyncStuck
<1>4. ASSUME NEW t \in Threads,
             \/ ReleaseLoad(t) \/ ReleaseStore(t) \/ ReleaseResume(t)
             \/ GetVmiLock(t) \/ RelVmiLock(t)
      PROVE  Still(t)
  BY <1>4 DEF ReleaseLoad, ReleaseStore, ReleaseResume, GetVmiLock, RelVmiLock
<1>5. ASSUME NEW t \in Threads,
             \/ LruLock(t) \/ LruAge(t) \/ LruWeigh(t) \/ LruSleep(t)
             \/ LruPick(t) \/ EvictUmount(t) \/ EvictResume(t) \/ Disconnect(t)
      PROVE  Still(t)
  BY <1>5 DEF LruLock, LruAge, LruWeigh, LruSleep, LruPick, EvictUmount,
              EvictResume, Disconnect
<1>6. ASSUME NEW t \in Threads, Step(t) \/ Call(t)
      PROVE  \/ Still(t) \/ ProcessEnds \/ Return(t)
             \/ \E v \in VMs : UnmountDisk(t, v)
  <2> HIDE DEF Still
  <2> QED
    BY <1>1, <1>2, <1>3, <1>4, <1>5, <1>6 DEF Step, Call, ConnectFails
<1>7. CASE Restart
  BY <1>7 DEF Restart
<1>8. CASE \/ Tick \/ Ended
           \/ \E t \in Threads : ChildReturns(t) \/ DoSyncWaits(t)
  BY <1>8 DEF Tick, Ended, ChildReturns, DoSyncWaits
<1> QED
  BY <1>3, <1>6, <1>7, <1>8 DEF Next, Shutdown

LEMMA NoteInit == Init => NoteInv
  BY DEF Init, NoteInv, Noted, ReleasingOwn, Releasing, NoSlot

LEMMA NoteStep ==
  ASSUME Exclusive, TypeOK, TableInv, [Next]_vars
  PROVE  NoteInv'
<1> USE DEF TypeOK, LocalTypes, ClientTypes, TableInv, NoteInv, Noted,
            ReleasingOwn, Releasing, Goto
<1>1. ASSUME NEW t \in Threads, Return(t) PROVE NoteInv'
  <2>1. /\ pc[t] = "return" /\ req[t] \in Serves[t] /\ req[t] \in VMs
        /\ mountdev' = [mountdev EXCEPT ![req[t]] = ix[t]]
        /\ mp' = [mp EXCEPT ![t][req[t]] = ix[t]]
    BY <1>1 DEF Return, DiskInv, Working, Busy, CallOK, Outside
  <2>2. ASSUME NEW u \in Threads, u # t PROVE mp[u][req[t]] = NoSlot
    BY <2>1, <2>2 DEF Exclusive, ClientInv, HeldServed
  <2>3. Noted'
    BY <2>1, <2>2
  <2>4. ReleasingOwn'
    BY <1>1 DEF Return, Leave
  <2> QED
    BY <2>3, <2>4
<1>2. ASSUME NEW t \in Threads, NEW v \in VMs, UnmountDisk(t, v)
      PROVE  NoteInv'
  <2>1. v \in Serves[t] /\ vmi[mountdev[v]] = v
    BY <1>2 DEF UnmountDisk, Held, DiskInv, HeldShown, ClientInv, HeldServed
  <2>2. /\ mp' = [mp EXCEPT ![t][v] = NoSlot] /\ UNCHANGED <<mountdev, vmi>>
        /\ req' = [req EXCEPT ![t] = v] /\ ix' = [ix EXCEPT ![t] = mountdev[v]]
        /\ pc' = [pc EXCEPT ![t] = "drop"]
    BY <1>2 DEF UnmountDisk, SlotOf
  <2>3. Noted'
    BY <2>2
  <2>4. ReleasingOwn'
    BY <2>1, <2>2
  <2> QED
    BY <2>3, <2>4
<1>3. CASE ProcessEnds
  BY <1>3 DEF ProcessEnds, NoSlot
<1>4. CASE /\ UNCHANGED <<mp, mountdev>>
           /\ \A t \in Threads : pc'[t] \in Releasing =>
                pc[t] \in Releasing /\ req'[t] = req[t] /\ ix'[t] = ix[t]
           /\ \A t \in Threads : pc[t] \in Releasing => vmi'[ix[t]] = vmi[ix[t]]
  <2>1. Noted'
    BY <1>4
  <2>2. ASSUME NEW t \in Threads, pc'[t] \in Releasing
        PROVE  req'[t] \in Serves[t] /\ vmi'[ix'[t]] = req'[t]
    <3>1. ix[t] \in Slots /\ req[t] \in VMs /\ req[t] # NoVM
      BY <1>4, <2>2, ConstantsAssumption DEF CallOK, Outside, Searching
    <3> QED
      BY <1>4, <2>2, <3>1
  <2> QED
    BY <2>1, <2>2
<1>5. CASE UNCHANGED vars
  BY <1>5
<1> QED
  BY <1>1, <1>2, <1>3, <1>4, <1>5, NamesStay, NotesStay

----------------------------------------------------------------------------
(* Counts. *)

(* The steps that count nothing.                                           *)
Uncounting(t) ==
  \/ RemountMiss(t) \/ RemountHit(t) \/ RemountEnd(t)
  \/ GrabMiss(t) \/ GrabSlot(t) \/ GrabEnd(t) \/ GetName(t)
  \/ LruLock(t) \/ LruAge(t) \/ LruWeigh(t) \/ LruSleep(t) \/ LruPick(t)
  \/ EvictUmount(t) \/ EvictResume(t) \/ Disconnect(t)
  \/ SyncLock(t) \/ DoSync(t) \/ Connect(t) \/ PauseForMount(t) \/ MountFs(t)
  \/ LruUnlock(t) \/ Return(t) \/ ReleaseResume(t)
  \/ GetVmiLock(t) \/ RelVmiLock(t) \/ DoSyncStuck(t)
  \/ \E v \in VMs : MountDisk(t, v) \/ UnmountDisk(t, v)

(* A call that returns has a VM and a slot to hand out.                    *)
LEMMA ReturnsSlot ==
  ASSUME TypeOK, NEW t \in Threads, pc[t] = "return"
  PROVE  req[t] \in VMs /\ req[t] # NoVM /\ ix[t] \in Slots /\ ix[t] # NoSlot
<1>1. ix[t] \in Slots /\ req[t] \in VMs
  BY DEF TypeOK, CallOK, Outside, Searching
<1> QED
  BY <1>1, ConstantsAssumption DEF Slots, NoSlot

LEMMA CountInit == Init => CountInv
<1> SUFFICES ASSUME Init PROVE CountInv
  OBVIOUS
<1>1. /\ \A s \in Slots : vmi[s] = NoVM /\ refcount[s] = 0
      /\ \A t \in Threads : pc[t] = "idle" /\ NoVM \notin Serves[t]
  BY ConstantsAssumption DEF Init
<1> QED
  BY <1>1 DEF CountInv, CountsRight, UnnamedIdle, NamedServed, CountLoaded

LEMMA CountStays ==
  ASSUME TypeOK, TableInv, NEW t \in Threads, Uncounting(t)
  PROVE  /\ UNCHANGED <<refcount, vmi>>
         /\ \A u \in Threads, v \in VMs : Counted(u, v)' <=> Counted(u, v)
         /\ \A u \in Threads : pc'[u] \in {"bump", "dropped"} =>
              pc'[u] = pc[u] /\ reg'[u] = reg[u]
<1> USE DEF TypeOK, LocalTypes, ClientTypes, Goto, Leave, Counted, Counting,
            Mounting
<1>1. CASE RemountMiss(t) \/ RemountHit(t) \/ RemountEnd(t)
  BY <1>1 DEF RemountMiss, RemountHit, RemountEnd
<1>2. CASE GrabMiss(t) \/ GrabSlot(t) \/ GrabEnd(t) \/ GetName(t)
  BY <1>2 DEF GrabMiss, GrabSlot, GrabEnd, GetName
<1>3. CASE SyncLock(t) \/ DoSync(t) \/ DoSyncStuck(t) \/ Connect(t)
  BY <1>3 DEF SyncLock, DoSync, DoSyncStuck, Connect
<1>4. CASE PauseForMount(t) \/ MountFs(t) \/ LruUnlock(t)
  BY <1>4 DEF PauseForMount, MountFs, LruUnlock
<1>5. CASE ReleaseResume(t) \/ GetVmiLock(t) \/ RelVmiLock(t)
  BY <1>5 DEF ReleaseResume, GetVmiLock, RelVmiLock
<1>6. CASE LruLock(t) \/ LruAge(t) \/ LruWeigh(t) \/ LruSleep(t) \/ LruPick(t)
  BY <1>6 DEF LruLock, LruAge, LruWeigh, LruSleep, LruPick
<1>7. CASE EvictUmount(t) \/ EvictResume(t) \/ Disconnect(t)
  BY <1>7 DEF EvictUmount, EvictResume, Disconnect
<1>8. CASE Return(t)
  <2>1. ix[t] # NoSlot /\ req[t] \in VMs
    BY <1>8, ReturnsSlot DEF Return
  <2>2. /\ mp' = [mp EXCEPT ![t][req[t]] = ix[t]] /\ pc[t] = "return"
        /\ req' = [req EXCEPT ![t] = NoVM] /\ pc' = [pc EXCEPT ![t] = "idle"]
        /\ UNCHANGED <<refcount, vmi>> /\ reg' = [reg EXCEPT ![t] = 0]
    BY <1>8 DEF Return
  <2>3. \A w \in VMs : Counted(t, w)' <=> Counted(t, w)
    BY <2>1, <2>2
  <2>4. \A u \in Threads \ {t}, w \in VMs : Counted(u, w)' <=> Counted(u, w)
    BY <2>2
  <2> QED
    BY <2>2, <2>3, <2>4
<1>9. ASSUME NEW v \in VMs, MountDisk(t, v)
      PROVE  /\ UNCHANGED <<refcount, vmi, mp>>
             /\ \A u \in Threads, w \in VMs : Counted(u, w)' <=> Counted(u, w)
             /\ \A u \in Threads : pc'[u] \in {"bump", "dropped"} =>
                  pc'[u] = pc[u] /\ reg'[u] = reg[u]
  BY <1>9 DEF MountDisk
<1>10. ASSUME NEW v \in VMs, UnmountDisk(t, v)
      PROVE  /\ UNCHANGED <<refcount, vmi>>
             /\ \A u \in Threads, w \in VMs : Counted(u, w)' <=> Counted(u, w)
             /\ \A u \in Threads : pc'[u] \in {"bump", "dropped"} =>
                  pc'[u] = pc[u] /\ reg'[u] = reg[u]
  <2>1. pc[t] = "idle" /\ mp[t][v] # NoSlot
    BY <1>10 DEF UnmountDisk, Held
  <2>2. /\ mp' = [mp EXCEPT ![t][v] = NoSlot]
        /\ req' = [req EXCEPT ![t] = v]
        /\ pc' = [pc EXCEPT ![t] = "drop"]
        /\ UNCHANGED <<refcount, vmi, reg>>
    BY <1>10 DEF UnmountDisk
  <2>3. \A w \in VMs : Counted(t, w)' <=> Counted(t, w)
    BY <2>1, <2>2
  <2>4. \A u \in Threads \ {t}, w \in VMs : Counted(u, w)' <=> Counted(u, w)
    BY <2>2
  <2> QED
    BY <2>1, <2>2, <2>3, <2>4
<1> QED
  BY <1>1, <1>2, <1>3, <1>4, <1>5, <1>6, <1>7, <1>8, <1>9, <1>10
  DEF Uncounting

LEMMA OneCountChanges ==
  ASSUME Exclusive, TypeOK, TableInv, NEW t \in Threads,
         NEW s \in Slots, NEW v \in Serves[t], v \in VMs,
         \A r \in Slots : vmi'[r] = IF r = s THEN v ELSE vmi[r],
         \A r \in Slots \ {s} : refcount'[r] = refcount[r] /\ vmi[r] # v,
         \A u \in Threads, w \in VMs :
           u # t \/ w # v => (Counted(u, w)' <=> Counted(u, w)),
         refcount'[s] = IF Counted(t, v)' THEN 1 ELSE 0
  PROVE  CountsRight' /\ UnnamedIdle' /\ NamedServed'
<1>1. v # NoVM /\ \A u \in Threads : v \in Serves[u] => u = t
  BY ConstantsAssumption DEF Exclusive
<1>2. CountsRight'
  <2> SUFFICES ASSUME NEW u \in Threads, NEW r \in Slots, vmi'[r] \in Serves[u]
               PROVE  refcount'[r] = IF Counted(u, vmi[r])' THEN 1 ELSE 0
    BY DEF CountsRight
  <2>1. CASE r = s
    BY <2>1, <1>1
  <2>2. CASE r # s
    <3>1. /\ vmi'[r] = vmi[r] /\ vmi[r] # v /\ refcount'[r] = refcount[r]
          /\ vmi[r] \in VMs
      BY <2>2, ConstantsAssumption
    <3>2. refcount[r] = IF Counted(u, vmi[r]) THEN 1 ELSE 0
      BY <3>1 DEF TableInv, CountInv, CountsRight
    <3>3. Counted(u, vmi[r])' <=> Counted(u, vmi[r])
      <4> DEFINE w == vmi[r]
      <4>1. Counted(u, w)' <=>
              mp'[u][w'] # NoSlot \/ (req'[u] = w' /\ pc'[u] \in Counting)
        BY DEF Counted
      <4>2. w' = w /\ w \in VMs /\ w # v
        BY <3>1
      <4> QED
        BY <4>2 DEF Counted
    <3> QED
      BY <3>1, <3>2, <3>3
  <2> QED
    BY <2>1, <2>2
<1>3. UnnamedIdle'
  BY <1>1 DEF TableInv, CountInv, UnnamedIdle
<1>4. NamedServed'
  BY <1>1 DEF TableInv, CountInv, NamedServed
<1> QED
  BY <1>2, <1>3, <1>4

LEMMA CountStep ==
  ASSUME Exclusive, TypeOK, TableInv, [Next]_vars
  PROVE  CountInv'
<1> USE DEF TypeOK, LocalTypes, SlotTypes, Goto
<1>1. ASSUME NEW t \in Threads, Uncounting(t) PROVE CountInv'
  <2>1. /\ UNCHANGED <<refcount, vmi>>
        /\ \A u \in Threads, v \in VMs : Counted(u, v)' <=> Counted(u, v)
        /\ \A u \in Threads : pc'[u] \in {"bump", "dropped"} =>
             pc'[u] = pc[u] /\ reg'[u] = reg[u]
    BY <1>1, CountStays
  <2>2. UnnamedIdle' /\ NamedServed' /\ CountLoaded'
    BY <2>1 DEF TableInv, CountInv, UnnamedIdle, NamedServed, CountLoaded
  <2>3. ASSUME NEW u \in Threads, NEW s \in Slots, vmi'[s] \in Serves[u]
        PROVE  refcount'[s] = IF Counted(u, vmi[s])' THEN 1 ELSE 0
    <3>1. vmi[s] \in Serves[u] /\ vmi[s] \in VMs /\ vmi'[s] = vmi[s]
      BY <2>1, <2>3, ConstantsAssumption
    <3>2. Counted(u, vmi[s])' <=> Counted(u, vmi[s])
      BY <2>1, <3>1 DEF Counted
    <3> QED
      BY <2>1, <3>1, <3>2 DEF TableInv, CountInv, CountsRight
  <2> QED
    BY <2>2, <2>3 DEF CountInv, CountsRight
<1>2. ASSUME NEW t \in Threads, RemountLoad(t) PROVE CountInv'
  <2>1. /\ pc[t] = "hit" /\ ix[t] \in Slots /\ req[t] \in Serves[t]
        /\ vmi[ix[t]] = req[t] /\ req[t] \in VMs
    BY <1>2 DEF RemountLoad, CallOK, Outside, Searching, TableInv, DiskInv,
                Working, Busy
  <2>2. ~Counted(t, req[t])
    BY <2>1 DEF Counted, Counting, Mounting, TableInv, ClientInv, NotHeld
  <2>3. refcount[ix[t]] = 0
    BY <2>1, <2>2 DEF TableInv, CountInv, CountsRight
  <2>4. CountLoaded'
    BY <1>2, <2>3 DEF RemountLoad, TableInv, CountInv, CountLoaded
  <2>5. CountsRight' /\ UnnamedIdle' /\ NamedServed'
    BY <1>2 DEF RemountLoad, TableInv, CountInv, CountsRight, UnnamedIdle,
                NamedServed, Counted, Counting, Mounting
  <2> QED
    BY <2>4, <2>5 DEF CountInv
<1>3. ASSUME NEW t \in Threads, RemountStore(t) PROVE CountInv'
  <2>1. /\ pc[t] = "bump" /\ ix[t] \in Slots /\ req[t] \in Serves[t]
        /\ vmi[ix[t]] = req[t] /\ req[t] \in VMs /\ req[t] # NoVM
        /\ reg[t] = 0
    BY <1>3, ConstantsAssumption
    DEF RemountStore, CallOK, Outside, Searching, TableInv, DiskInv,
        Working, Busy, CountInv, CountLoaded
  <2>2. /\ refcount' = [refcount EXCEPT ![ix[t]] = 1]
        /\ pc' = [pc EXCEPT ![t] = "return"] /\ UNCHANGED <<vmi, req, mp, reg>>
    BY <1>3, <2>1 DEF RemountStore
  <2>3. \A r \in Slots \ {ix[t]} : refcount'[r] = refcount[r] /\ vmi[r] # req[t]
    BY <2>1, <2>2 DEF TableInv, SearchInv, OneSlotPerVm
  <2>4. \A u \in Threads, w \in VMs :
          u # t \/ w # req[t] => (Counted(u, w)' <=> Counted(u, w))
    BY <2>2 DEF Counted
  <2>5. Counted(t, req[t])'
    BY <2>2 DEF Counted, Counting
  <2>6. CountsRight' /\ UnnamedIdle' /\ NamedServed'
    BY <2>1, <2>2, <2>3, <2>4, <2>5, OneCountChanges
  <2> QED
    BY <2>2, <2>6 DEF TableInv, CountInv, CountLoaded
<1>4. ASSUME NEW t \in Threads, Claim(t) PROVE CountInv'
  <2>1. /\ pc[t] = "claim" /\ ix[t] \in Slots /\ req[t] \in Serves[t]
        /\ req[t] \in VMs /\ req[t] # NoVM
        /\ \A r \in Slots : vmi[r] # req[t]
    BY <1>4, ConstantsAssumption
    DEF Claim, CallOK, Outside, Searching, TableInv, SearchInv, NotNamed,
        Looking
  <2>2. /\ refcount' = [refcount EXCEPT ![ix[t]] = 1]
        /\ vmi' = [vmi EXCEPT ![ix[t]] = req[t]]
        /\ pc' = [pc EXCEPT ![t] = "synclock"] /\ UNCHANGED <<req, mp, reg>>
    BY <1>4 DEF Claim
  <2>3. /\ \A r \in Slots \ {ix[t]} :
             refcount'[r] = refcount[r] /\ vmi[r] # req[t]
        /\ \A r \in Slots : vmi'[r] = IF r = ix[t] THEN req[t] ELSE vmi[r]
    BY <2>1, <2>2
  <2>4. \A u \in Threads, w \in VMs :
          u # t \/ w # req[t] => (Counted(u, w)' <=> Counted(u, w))
    BY <2>2 DEF Counted
  <2>5. Counted(t, req[t])'
    BY <2>2 DEF Counted, Counting, Mounting
  <2>6. CountsRight' /\ UnnamedIdle' /\ NamedServed'
    BY <2>1, <2>2, <2>3, <2>4, <2>5, OneCountChanges
  <2> QED
    BY <2>2, <2>6 DEF TableInv, CountInv, CountLoaded
<1>5. ASSUME NEW t \in Threads, ReleaseLoad(t) PROVE CountInv'
  <2>1. /\ pc[t] = "drop" /\ ix[t] \in Slots /\ req[t] \in Serves[t]
        /\ vmi[ix[t]] = req[t] /\ req[t] \in VMs
    BY <1>5 DEF ReleaseLoad, CallOK, Outside, Searching, TableInv, NoteInv,
                ReleasingOwn, Releasing
  <2>2. Counted(t, req[t])
    BY <2>1 DEF Counted, Counting
  <2>3. refcount[ix[t]] = 1
    BY <2>1, <2>2 DEF TableInv, CountInv, CountsRight
  <2>4. CountLoaded'
    BY <1>5, <2>3 DEF ReleaseLoad, TableInv, CountInv, CountLoaded
  <2>5. CountsRight' /\ UnnamedIdle' /\ NamedServed'
    BY <1>5 DEF ReleaseLoad, TableInv, CountInv, CountsRight, UnnamedIdle,
                NamedServed, Counted, Counting, Mounting
  <2> QED
    BY <2>4, <2>5 DEF CountInv
<1>6. ASSUME NEW t \in Threads, ReleaseStore(t) PROVE CountInv'
  <2>1. /\ pc[t] = "dropped" /\ ix[t] \in Slots /\ req[t] \in Serves[t]
        /\ vmi[ix[t]] = req[t] /\ req[t] \in VMs /\ req[t] # NoVM
        /\ reg[t] = 1 /\ mp[t][req[t]] = NoSlot
    BY <1>6, ConstantsAssumption
    DEF ReleaseStore, CallOK, Outside, Searching, TableInv, NoteInv,
        ReleasingOwn, Releasing, CountInv, CountLoaded, ClientInv, NotHeld
  <2>2. /\ refcount' = [refcount EXCEPT ![ix[t]] = 0]
        /\ pc' = [pc EXCEPT ![t] = "resume"] /\ UNCHANGED <<vmi, req, mp, reg>>
    BY <1>6, <2>1 DEF ReleaseStore
  <2>3. \A r \in Slots \ {ix[t]} : refcount'[r] = refcount[r] /\ vmi[r] # req[t]
    BY <2>1, <2>2 DEF TableInv, SearchInv, OneSlotPerVm
  <2>4. \A u \in Threads, w \in VMs :
          u # t \/ w # req[t] => (Counted(u, w)' <=> Counted(u, w))
    BY <2>2 DEF Counted
  <2>5. ~Counted(t, req[t])'
    BY <2>1, <2>2 DEF Counted, Counting, Mounting
  <2>6. CountsRight' /\ UnnamedIdle' /\ NamedServed'
    BY <2>1, <2>2, <2>3, <2>4, <2>5, OneCountChanges
  <2> QED
    BY <2>2, <2>6 DEF TableInv, CountInv, CountLoaded
<1>7. CASE ProcessEnds
  <2>1. \A s \in Slots : vmi'[s] = NoVM /\ refcount'[s] = 0
    BY <1>7 DEF ProcessEnds
  <2>2. \A t \in Threads : pc'[t] = "exited"
    BY <1>7 DEF ProcessEnds
  <2>3. \A t \in Threads : NoVM \notin Serves[t]
    BY ConstantsAssumption
  <2> QED
    BY <2>1, <2>2, <2>3
    DEF CountInv, CountsRight, UnnamedIdle, NamedServed, CountLoaded
<1>8. CASE Restart
  <2>1. /\ \A t \in Threads : pc[t] = "exited" /\ pc'[t] = "idle"
        /\ UNCHANGED <<req, mp, vmi, refcount>>
    BY <1>8 DEF Restart
  <2>2. \A t \in Threads, v \in VMs : Counted(t, v)' <=> Counted(t, v)
    BY <2>1 DEF Counted, Counting, Mounting
  <2> QED
    BY <2>1, <2>2 DEF TableInv, CountInv, CountsRight, UnnamedIdle,
                      NamedServed, CountLoaded, Counted, Counting, Mounting
<1>9. CASE UNCHANGED <<pc, req, reg, mp, vmi, refcount>>
  BY <1>9 DEF TableInv, CountInv, CountsRight, UnnamedIdle, NamedServed,
              CountLoaded, Counted
<1>10. CASE \E t \in Threads : Step(t) \/ Call(t)
  <2>1. PICK t \in Threads : Step(t) \/ Call(t)
    BY <1>10
  <2>2. \/ Uncounting(t) \/ RemountLoad(t) \/ RemountStore(t) \/ Claim(t)
        \/ ReleaseLoad(t) \/ ReleaseStore(t) \/ ProcessEnds
    BY <2>1 DEF Step, Call, Uncounting, ConnectFails
  <2> QED
    BY <2>2, <1>1, <1>2, <1>3, <1>4, <1>5, <1>6, <1>7
<1>11. ASSUME NEW t \in Threads, DoSyncStuck(t) PROVE CountInv'
  BY <1>1, <1>11 DEF Uncounting
<1> QED
  BY <1>7, <1>8, <1>9, <1>10, <1>11
  DEF Next, Shutdown, ChildReturns, DoSyncWaits, Tick, Ended

----------------------------------------------------------------------------
(* Undisturbed, the invariant always holds.                                *)
LEMMA TableInvariant ==
  ASSUME Undisturbed
  PROVE  Spec => [](TypeOK /\ TableInv)
<1>1. Init => SearchInv /\ DiskInv /\ ClientInv /\ NoteInv /\ CountInv
  BY SearchInit, DiskInit, ClientInit, NoteInit, CountInit
<1>2. /\ TypeOK /\ TableInv /\ StealInv' /\ [Next]_vars
      => SearchInv' /\ DiskInv' /\ ClientInv' /\ NoteInv' /\ CountInv'
  BY SearchStep, DiskStep, ClientStep, NoteStep, CountStep
  DEF TableInv, Undisturbed
<1>3. Spec => []StealInv
  BY StealInvariant
<1>4. TableInv <=> /\ SearchInv /\ StealInv /\ DiskInv /\ ClientInv /\ NoteInv
                   /\ CountInv
  BY DEF TableInv
<1> QED
  BY <1>1, <1>2, <1>3, <1>4, TypeCorrect, PTL DEF Spec

(* With no more VMs than devices and one thread per VM, or with one thread *)
(* that steals slots from itself, and as long as mount succeeds and no     *)
(* client's child falls back into main, mount_disk keeps its promise       *)
(* (libhyperagent.cc 87-96): a client that holds the mount point of a VM   *)
(* finds that VM's file system there, in every interleaving, across an     *)
(* exit of the process and its next start, and whatever the umounts before *)
(* (syncmount.cc 508, 726, 754: results ignored) have left at that place.  *)
THEOREM MountedDiskIsRight ==
  ASSUME Undisturbed, {"mount", "exec"} \cap MayFail = {}
  PROVE  Spec => []RightDisk
<1>1. TypeOK /\ TableInv => RightDisk
  BY DEF TableInv, DiskInv, HeldShown, Shows, Covering, RightDisk, Held
<1> QED
  BY <1>1, TableInvariant, PTL

(* Where umount does what it is asked, or no mount fails: whatever else    *)
(* fails (the sync, xl block-attach, qemu-nbd -c, mount, a client's        *)
(* execvp), the mount point a client holds shows its VM's disk or none:    *)
(* the result of mount, which do_nbd_mount ignores (syncmount.cc 734),     *)
(* cannot put another VM's disk there, nor can a lone thread's steal of an *)
(* idle slot (604-635) or an umount that meets a busy mount point (506).   *)
(* A failing umount (726, 754) followed by a failing mount (734) does put  *)
(* another VM's disk there, so the theorem excludes that pair.             *)
THEOREM NeverAnotherDisk ==
  ASSUME Undisturbed, Covering
  PROVE  Spec => []NeverWrongDisk
<1>1. TypeOK /\ TableInv => NeverWrongDisk
  BY DEF TableInv, DiskInv, HeldShown, Shows, NeverWrongDisk, Held
<1> QED
  BY <1>1, TableInvariant, PTL

(* qemu-nbd -c finds its device free, so the library's exit(-1) after it   *)
(* is never taken for a device in use; nor by a process started after an   *)
(* orderly shutdown, though its constructor cleans up nothing; nor after a *)
(* lone thread's steal, whose do_nbd_unmount (635) has freed the device.   *)
THEOREM DevicesFree ==
  ASSUME Undisturbed, "connect" \notin MayFail
  PROVE  Spec => []ConnectFindsFree
<1>1. TypeOK /\ TableInv => ConnectFindsFree
  BY DEF TableInv, DiskInv, Devices, ConnectFindsFree
<1> QED
  BY <1>1, TableInvariant, PTL
----------------------------------------------------------------------------
(* The slot table implements MountService. *)

(* No client reads the mount point of a slot a thread is mounting.         *)
LEMMA UnreadWhileMounted ==
  ASSUME Exclusive, TypeOK, TableInv, NEW t \in Threads, pc[t] = "mount"
  PROVE  ix[t] \in Slots /\ ~MS!InUse(ix[t])
<1>1. ix[t] \in Slots /\ vmi[ix[t]] = req[t] /\ req[t] \in Serves[t]
  BY DEF TypeOK, CallOK, Outside, Searching, TableInv, DiskInv, Working, Busy,
         Mounting
<1>2. SUFFICES ASSUME NEW u \in Threads, NEW v \in VMs, mp[u][v] = ix[t]
               PROVE  FALSE
  BY <1>1 DEF MS!InUse
<1>3. ix[t] # NoSlot
  BY <1>1 DEF Slots, NoSlot
<1>4. v = req[t] /\ v \in Serves[u]
  BY <1>1, <1>2, <1>3 DEF TableInv, DiskInv, HeldShown, ClientInv, HeldServed
<1>5. u = t
  BY <1>1, <1>4 DEF Exclusive
<1> QED
  BY <1>2, <1>3, <1>4, <1>5 DEF TableInv, ClientInv, NotHeld

(* Nor that of a slot about to be unmounted for a thief.                   *)
LEMMA UnreadWhenStolen ==
  ASSUME TypeOK, TableInv, NEW t \in Threads, pc[t] = "evict"
  PROVE  ix[t] \in Slots /\ ~MS!InUse(ix[t])
  BY DEF TypeOK, CallOK, Outside, Searching, TableInv, DiskInv, Claiming,
         Taking, MS!InUse

LEMMA ServiceStep ==
  ASSUME Exclusive, TypeOK, TableInv,
         {"mount", "exec"} \cap MayFail = {}, [Next]_vars
  PROVE  [MS!Next]_(MS!vars)
<1> USE DEF MS!vars, Asked, TypeOK, LocalTypes, TableInv
<1>1. ASSUME NEW t \in Threads, Hidden(t) PROVE UNCHANGED MS!vars
  BY <1>1, HiddenSteps DEF OthersStay, Stays, Releasing, Outside, ClientInv,
                           Unasked
<1>2. ASSUME NEW t \in Threads, MountFs(t) PROVE MS!Prepare(ix[t])
  <2>1. pc[t] = "mount" /\ ix[t] \in Slots /\ UNCHANGED <<req, mp>>
    BY <1>2 DEF MountFs, Goto, CallOK, Outside, Searching
  <2>2. PICK under \in UmountLeaves(ix[t]) :
           \E fs \in MountCovers(t, under) : mnt' = [mnt EXCEPT ![ix[t]] = fs]
    BY <1>2 DEF MountFs
  <2>3. PICK fs \in MountCovers(t, under) : mnt' = [mnt EXCEPT ![ix[t]] = fs]
    BY <2>2
  <2>4. fs \in VMs \cup {NoVM}
    BY <2>1, <2>3, MountsTyped
  <2>5. Asked' = Asked
    BY <1>2 DEF MountFs, Goto
  <2> QED
    BY <2>1, <2>3, <2>4, <2>5, UnreadWhileMounted DEF MS!Prepare
<1>3. ASSUME NEW t \in Threads, Return(t) PROVE MS!Grant(t)
  <2>1. /\ pc[t] = "return" /\ ix[t] \in Slots /\ req[t] \in VMs
        /\ mnt[ix[t]] = req[t]
    BY <1>3 DEF Return, Goto, CallOK, Outside, Searching, DiskInv, Working,
                Busy, Shows, Covering
  <2>2. Asked[t] = req[t] /\ req[t] # NoVM
    BY <2>1, ConstantsAssumption
  <2>3. /\ mp' = [mp EXCEPT ![t][req[t]] = ix[t]] /\ mnt' = mnt
        /\ Asked' = [Asked EXCEPT ![t] = NoVM]
    BY <1>3 DEF Return, Goto, Leave
  <2> QED
    BY <2>1, <2>2, <2>3 DEF MS!Grant
<1>4. ASSUME NEW t \in Threads, NEW v \in VMs, MountDisk(t, v)
      PROVE  MS!Ask(t, v)
  <2>1. pc[t] = "idle" /\ req[t] = NoVM /\ mp[t][v] = NoSlot
    BY <1>4 DEF MountDisk, Goto, Held, ClientInv, Unasked, Outside
  <2>2. Asked' = [Asked EXCEPT ![t] = v] /\ UNCHANGED <<mp, mnt>>
    BY <1>4 DEF MountDisk, Goto
  <2> QED
    BY <2>1, <2>2 DEF MS!Ask
<1>5. ASSUME NEW t \in Threads, NEW v \in VMs, UnmountDisk(t, v)
      PROVE  MS!GiveBack(t, v)
  <2>1. pc[t] = "idle" /\ req[t] = NoVM /\ mp[t][v] # NoSlot
    BY <1>5 DEF UnmountDisk, Goto, Held, ClientInv, Unasked, Outside
  <2>2. /\ mp' = [mp EXCEPT ![t][v] = NoSlot] /\ mnt' = mnt
        /\ Asked' = Asked
    BY <1>5, <2>1 DEF UnmountDisk, Goto
  <2> QED
    BY <2>1, <2>2 DEF MS!GiveBack
<1>6. ASSUME ProcessEnds, mnt' \in [Slots -> VMs \cup {NoVM}]
      PROVE  MS!End
  BY <1>6 DEF ProcessEnds, MS!End, MS!Nobody, MS!Nothing
<1>7. ASSUME UNCHANGED <<req, mp, mnt>>,
             \A t \in Threads :
               pc'[t] = pc[t] \/ (pc[t] = "exited" /\ pc'[t] = "idle")
      PROVE  UNCHANGED MS!vars
  BY <1>7
<1>8. CASE UNCHANGED vars
  BY <1>8
<1>9. ASSUME NEW t \in Threads, EvictUmount(t) PROVE MS!Prepare(ix[t])
  <2>1. pc[t] = "evict" /\ UNCHANGED <<req, mp>>
    BY <1>9 DEF EvictUmount, Goto
  <2>2. PICK fs \in LazyLeaves : mnt' = [mnt EXCEPT ![ix[t]] = fs]
    BY <1>9 DEF EvictUmount
  <2>3. fs \in VMs \cup {NoVM}
    BY <2>2, MountsTyped
  <2>4. Asked' = Asked
    BY <1>9 DEF EvictUmount, Goto
  <2> QED
    BY <2>1, <2>2, <2>3, <2>4, UnreadWhenStolen DEF MS!Prepare
<1>10. ASSUME NEW t \in Threads, ChildReturns(t) PROVE FALSE
  BY <1>10 DEF ChildReturns
<1>11. ASSUME NEW t \in Threads, MountFs(t) \/ EvictUmount(t) PROVE MS!Next
  <2>1. ix[t] \in Slots
    BY <1>11 DEF MountFs, EvictUmount, Goto, CallOK, Outside, Searching
  <2> QED
    BY <1>2, <1>9, <1>11, <2>1 DEF MS!Next
<1> QED
  <2> HIDE DEF MS!vars, Asked, TypeOK, LocalTypes, TableInv
  <2> QED
    BY <1>1, <1>3, <1>4, <1>5, <1>6, <1>7, <1>8, <1>10, <1>11, VisibleSteps
    DEF MS!Next

LEMMA ServiceInit == Init => MS!Init
  BY DEF Init, MS!Init, MS!Nobody, MS!Nothing, Asked

(* The promise of mount_disk and unmount_disk, whole: with a slot per VM   *)
(* and one thread per VM, or with one thread and any number of slots, and  *)
(* unless mount or a client's execvp fails, the slot table implements      *)
(* MountService.  In particular no step (a remount, a precautionary        *)
(* umount, the end of a call: 723-741; a lone thread's steal: 635) touches *)
(* a mount point between the return that hands it out and the unmount_disk *)
(* that gives it back.                                                     *)
THEOREM MountServiceImplemented ==
  ASSUME Undisturbed,
         {"mount", "exec"} \cap MayFail = {}
  PROVE  Spec => ImplementsMountService
<1>1. TypeOK /\ TableInv /\ [Next]_vars => [MS!Next]_(MS!vars)
  BY ServiceStep DEF Undisturbed
<1> QED
  BY <1>1, ServiceInit, TableInvariant, PTL
  DEF Spec, MS!Spec, ImplementsMountService
----------------------------------------------------------------------------
(* Reference counts. *)

(* The mount points handed out in slot s.                                  *)
Holders(s) == {h \in Threads \X VMs : mp[h[1]][h[2]] = s}

LEMMA HoldersOf ==
  ASSUME Exclusive, TypeOK, TableInv, NEW t \in Threads, NEW s \in Slots,
         vmi[s] \in Serves[t]
  PROVE  Holders(s) = IF mp[t][vmi[s]] # NoSlot THEN {<<t, vmi[s]>>} ELSE {}
<1> DEFINE v == vmi[s]
<1>1. v \in VMs /\ v # NoVM /\ s # NoSlot
  BY ConstantsAssumption DEF Slots, NoSlot
<1>2. ASSUME NEW u \in Threads, NEW w \in VMs, mp[u][w] = s
      PROVE  u = t /\ w = v
  <2>1. vmi[s] = w /\ w \in Serves[u]
    BY <1>1, <1>2 DEF TableInv, DiskInv, HeldShown, ClientInv, HeldServed
  <2> QED
    BY <2>1 DEF Exclusive
<1>3. mp[t][v] # NoSlot => mp[t][v] = s
  <2> SUFFICES ASSUME mp[t][v] # NoSlot PROVE mp[t][v] = s
    OBVIOUS
  <2>1. mp[t][v] \in Slots /\ vmi[mp[t][v]] = v
    BY <1>1 DEF TypeOK, ClientTypes, TableInv, DiskInv, HeldShown
  <2> QED
    BY <1>1, <2>1 DEF TableInv, SearchInv, OneSlotPerVm
<1>4. ASSUME NEW h \in Holders(s) PROVE h = <<t, v>>
  BY <1>2 DEF Holders
<1>5. mp[t][v] = s => <<t, v>> \in Holders(s)
  BY <1>1 DEF Holders
<1> QED
  BY <1>1, <1>3, <1>4, <1>5 DEF Holders

(* refcount, which every thread loads and stores without a lock (562, 575, *)
(* 658), is right where each VM has one thread and a slot, or one thread   *)
(* is alone with too few: a slot nobody works on counts the clients that   *)
(* have its mount point, 0 or 1.  So the test of 610 can neither free a    *)
(* slot in use nor keep an idle one.                                       *)
THEOREM RefcountsRight ==
  ASSUME Undisturbed
  PROVE  Spec => []RefcountMatches
<1>1. ASSUME TypeOK, TableInv PROVE RefcountMatches
  <2> SUFFICES ASSUME NEW s \in Slots,
                      \A t \in Threads : pc[t] \in Outside \/ ix[t] # s
               PROVE  refcount[s] = Cardinality(Holders(s))
    BY DEF RefcountMatches, Holders, Outside
  <2>1. CASE vmi[s] = NoVM
    <3>1. s # NoSlot
      BY ConstantsAssumption DEF Slots, NoSlot
    <3>2. Holders(s) = {}
      BY <1>1, <2>1, <3>1, ConstantsAssumption
      DEF Holders, TableInv, DiskInv, HeldShown
    <3>3. refcount[s] = 0
      BY <1>1, <2>1 DEF TableInv, CountInv, UnnamedIdle
    <3> QED
      BY <3>2, <3>3, FS_EmptySet
  <2>2. CASE vmi[s] # NoVM
    <3>1. PICK t \in Threads : vmi[s] \in Serves[t]
      BY <1>1, <2>2 DEF TableInv, CountInv, NamedServed
    <3> DEFINE v == vmi[s]
    <3>2. ASSUME req[t] = v, pc[t] \in Counting PROVE FALSE
      <4>1. ix[t] \in Slots /\ vmi[ix[t]] = v
        BY <1>1, <3>2
        DEF TypeOK, CallOK, Outside, Searching, TableInv, DiskInv, Working,
            Busy, Counting, Mounting, NoteInv, ReleasingOwn, Releasing
      <4>2. ix[t] = s
        BY <1>1, <2>2, <4>1 DEF TableInv, SearchInv, OneSlotPerVm
      <4> QED
        BY <3>2, <4>2 DEF Counting, Mounting, Outside
    <3>3. refcount[s] = IF mp[t][v] # NoSlot THEN 1 ELSE 0
      BY <1>1, <3>1, <3>2 DEF TableInv, CountInv, CountsRight, Counted
    <3>4. Holders(s) = IF mp[t][v] # NoSlot THEN {<<t, v>>} ELSE {}
      BY <1>1, <3>1, HoldersOf DEF Undisturbed
    <3>5. Cardinality({<<t, v>>}) = 1 /\ Cardinality({}) = 0
      BY FS_Singleton, FS_EmptySet
    <3> QED
      BY <3>3, <3>4, <3>5
  <2> QED
    BY <2>1, <2>2
<1> QED
  BY <1>1, TableInvariant, PTL DEF Undisturbed

----------------------------------------------------------------------------
(* Pauses. *)

(* What was mounted in full stays paused, up to the release.               *)
FreshInv ==
  \A t \in Threads :
    /\ pc[t] = "mount" => paused[req[t]] > 0
    /\ \A v \in fresh[t] :
         paused[v] > 0 /\ (v \in Held(t) \/ (req[t] = v /\ pc[t] = "return"))

(* In a call that may have paused its VM (in do_sync's early return, if    *)
(* pauses do not nest).                                                    *)
Pausing ==
  (IF NestedPause THEN {} ELSE {"connect", "pause"})
    \cup {"mount", "return"} \cup Releasing

(* A VM is paused at most once, and then by its thread.                    *)
PausedFor(t, v) == v \in Held(t) \/ (req[t] = v /\ pc[t] \in Pausing)
Balanced(v) ==
  \/ paused[v] = 0
  \/ paused[v] = 1 /\ \E t \in Threads : v \in Serves[t] /\ PausedFor(t, v)

(* The VMs whose pauses balance: all but those do_sync leaves paused.      *)
Resumed == VMs \ (IF NestedPause THEN Unresolved ELSE {})
PauseInv ==
  /\ boots <= MaxBoot
  /\ boots = MaxBoot /\ (\A t \in Threads : pc[t] # "exited")
       => \A v \in Resumed : Balanced(v)

(* The steps that pause and resume nothing.                                *)
Unpausing(t) ==
  \/ RemountMiss(t) \/ RemountHit(t) \/ RemountLoad(t) \/ RemountStore(t)
  \/ RemountEnd(t) \/ GrabMiss(t) \/ GrabSlot(t) \/ GrabEnd(t) \/ Claim(t)
  \/ GetName(t) \/ LruLock(t) \/ LruAge(t) \/ LruWeigh(t) \/ LruSleep(t)
  \/ LruPick(t) \/ EvictUmount(t) \/ Disconnect(t)
  \/ SyncLock(t) \/ Connect(t) \/ LruUnlock(t)
  \/ ReleaseLoad(t) \/ ReleaseStore(t) \/ GetVmiLock(t) \/ RelVmiLock(t)
  \/ \E v \in VMs : MountDisk(t, v)

LEMMA UnpausingSteps ==
  ASSUME TypeOK, NEW t \in Threads, Unpausing(t)
  PROVE  /\ UNCHANGED <<paused, fresh, boots, mp>> /\ OthersStay(t)
         /\ pc[t] = "return" => pc'[t] = "return"
         /\ pc'[t] # "mount" /\ pc[t] # "exited"
         /\ pc[t] \in Pausing => pc'[t] \in Pausing /\ req' = req
<1> USE DEF TypeOK, LocalTypes, Goto, OthersStay, Pausing, Releasing
<1>1. CASE \/ RemountMiss(t) \/ RemountHit(t) \/ RemountLoad(t)
           \/ RemountStore(t) \/ RemountEnd(t)
  BY <1>1 DEF RemountMiss, RemountHit, RemountLoad, RemountStore, RemountEnd
<1>2. CASE GrabMiss(t) \/ GrabSlot(t) \/ GrabEnd(t) \/ Claim(t) \/ GetName(t)
  BY <1>2 DEF GrabMiss, GrabSlot, GrabEnd, Claim, GetName
<1>3. CASE SyncLock(t) \/ Connect(t)
  BY <1>3 DEF SyncLock, Connect
<1>4. CASE LruUnlock(t)
  BY <1>4 DEF LruUnlock
<1>5. CASE \/ ReleaseLoad(t) \/ ReleaseStore(t) \/ GetVmiLock(t)
           \/ RelVmiLock(t) \/ \E v \in VMs : MountDisk(t, v)
  BY <1>5 DEF ReleaseLoad, ReleaseStore, GetVmiLock, RelVmiLock, MountDisk
<1>6. CASE LruLock(t) \/ LruAge(t) \/ LruWeigh(t) \/ LruSleep(t) \/ LruPick(t)
  BY <1>6 DEF LruLock, LruAge, LruWeigh, LruSleep, LruPick
<1>7. CASE EvictUmount(t) \/ Disconnect(t)
  BY <1>7 DEF EvictUmount, Disconnect
<1> QED
  BY <1>1, <1>2, <1>3, <1>4, <1>5, <1>6, <1>7 DEF Unpausing

(* A thread in a mount, a release or a steal works for a VM of its own.    *)
LEMMA OwnVm ==
  ASSUME Exclusive, TypeOK, TableInv, NEW t \in Threads,
         pc[t] \in Busy \cup Releasing \cup Stealing
  PROVE  /\ req[t] \in Serves[t] /\ req[t] \in VMs
         /\ pc[t] \in Busy \cup Releasing => vmi[ix[t]] = req[t]
         /\ \A u \in Threads \ {t} : req[t] \notin Serves[u]
<1>1. /\ req[t] \in Serves[t]
      /\ pc[t] \in Busy \cup Releasing => vmi[ix[t]] = req[t]
  BY DEF TableInv, DiskInv, Working, NoteInv, ReleasingOwn, SearchInv,
         NotNamed, Looking
<1>2. req[t] \in VMs
  BY <1>1, ConstantsAssumption
<1> QED
  BY <1>1, <1>2 DEF Exclusive

LEMMA FreshServed ==
  ASSUME TypeOK, TableInv, FreshInv, NEW t \in Threads, NEW v \in fresh[t]
  PROVE  v \in VMs /\ v \in Serves[t]
<1>1. v \in VMs
  BY DEF TypeOK, ClientTypes
<1>2. CASE v \in Held(t)
  BY <1>1, <1>2 DEF Held, TableInv, ClientInv, HeldServed
<1>3. CASE req[t] = v /\ pc[t] = "return"
  BY <1>1, <1>3 DEF TableInv, DiskInv, Working, Busy
<1> QED
  BY <1>1, <1>2, <1>3 DEF FreshInv

(* A step of t that changes at most the pause count of the VM it works     *)
(* for, a VM its clients do not hold.                                      *)
LEMMA OwnPause ==
  ASSUME Exclusive, TypeOK, TableInv, FreshInv, NEW t \in Threads,
         pc[t] \in Busy \cup Releasing \cup Stealing, pc[t] # "return",
         OthersStay(t), UNCHANGED <<mp, fresh>>,
         \A v \in VMs : v # req[t] => paused'[v] = paused[v],
         pc'[t] = "mount" => req'[t] = req[t] /\ paused'[req[t]] > 0
  PROVE  FreshInv'
<1>1. /\ req[t] \in VMs /\ req[t] \notin Held(t)
      /\ \A u \in Threads \ {t} : req[t] \notin Serves[u]
  BY OwnVm DEF Held, TableInv, ClientInv, NotHeld
<1>2. ASSUME NEW u \in Threads, NEW v \in fresh[u]
      PROVE  /\ paused'[v] > 0
             /\ v \in Held(u)' \/ (req'[u] = v /\ pc'[u] = "return")
  <2>1. v \in VMs /\ v \in Serves[u] /\ paused[v] > 0
        /\ (v \in Held(u) \/ (req[u] = v /\ pc[u] = "return"))
    BY <1>2, FreshServed DEF FreshInv
  <2>2. v # req[t]
    BY <1>1, <2>1
  <2> QED
    BY <1>1, <2>1, <2>2 DEF OthersStay, Held
<1>3. ASSUME NEW u \in Threads, pc'[u] = "mount"
      PROVE  paused'[req'[u]] > 0
  <2>1. CASE u = t
    BY <1>3, <2>1
  <2>2. CASE u # t
    <3>1. pc[u] = "mount" /\ req'[u] = req[u]
      BY <1>3, <2>2 DEF OthersStay
    <3>2. req[u] \in VMs /\ req[u] \in Serves[u] /\ paused[req[u]] > 0
      BY <3>1, OwnVm DEF Busy, Mounting, FreshInv
    <3> QED
      BY <1>1, <2>2, <3>1, <3>2
  <2> QED
    BY <2>1, <2>2
<1> QED
  BY <1>2, <1>3 DEF FreshInv

LEMMA FreshStep ==
  ASSUME Exclusive, TypeOK, TableInv, FreshInv, [Next]_vars
  PROVE  FreshInv'
<1> USE DEF TypeOK, LocalTypes, HostTypes, ClientTypes, Goto
<1>1. ASSUME NEW t \in Threads, Unpausing(t) PROVE FreshInv'
  BY <1>1, UnpausingSteps DEF FreshInv, OthersStay, Held, Pausing
<1>2. ASSUME NEW t \in Threads, DoSync(t) PROVE FreshInv'
  <2>1. /\ pc[t] = "sync" /\ pc'[t] = "connect" /\ OthersStay(t)
        /\ UNCHANGED <<mp, fresh>>
        /\ \A v \in VMs : v # req[t] => paused'[v] = paused[v]
    BY <1>2 DEF DoSync, OthersStay
  <2> QED
    BY <2>1, OwnPause DEF Busy, Mounting
<1>3. ASSUME NEW t \in Threads, PauseForMount(t) PROVE FreshInv'
  <2>1. /\ pc[t] = "pause" /\ OthersStay(t)
        /\ UNCHANGED <<mp, fresh, req>>
        /\ paused' = [paused EXCEPT ![req[t]] = PauseVM(@)]
    BY <1>3 DEF PauseForMount, OthersStay
  <2>2. req[t] \in VMs
    BY <2>1, OwnVm DEF Busy, Mounting
  <2>3. paused'[req[t]] > 0
    BY <2>1, <2>2 DEF PauseVM
  <2>4. \A v \in VMs : v # req[t] => paused'[v] = paused[v]
    BY <2>1
  <2> QED
    BY <2>1, <2>3, <2>4, OwnPause DEF Busy, Mounting
<1>4. ASSUME NEW t \in Threads, ReleaseResume(t) PROVE FreshInv'
  <2>1. /\ pc[t] = "resume" /\ pc'[t] = "idle" /\ OthersStay(t)
        /\ UNCHANGED <<mp, fresh>>
        /\ paused' = [paused EXCEPT ![vmi[ix[t]]] = ResumeVM(@)]
    BY <1>4 DEF ReleaseResume, OthersStay, Leave
  <2>2. \A v \in VMs : v # req[t] => paused'[v] = paused[v]
    BY <2>1, OwnVm DEF Releasing
  <2> QED
    BY <2>1, <2>2, OwnPause DEF Releasing
<1>5. ASSUME NEW t \in Threads, MountFs(t) PROVE FreshInv'
  <2>1. /\ pc[t] = "mount" /\ pc' = [pc EXCEPT ![t] = "return"]
        /\ fresh' = [fresh EXCEPT ![t] = @ \cup {req[t]}]
        /\ UNCHANGED <<mp, req, paused>>
    BY <1>5 DEF MountFs
  <2> QED
    BY <2>1 DEF FreshInv, Held
<1>6. ASSUME NEW t \in Threads, Return(t) PROVE FreshInv'
  <2>1. /\ pc[t] = "return" /\ pc' = [pc EXCEPT ![t] = "idle"]
        /\ mp' = [mp EXCEPT ![t][req[t]] = ix[t]]
        /\ UNCHANGED <<fresh, paused>> /\ req' = [req EXCEPT ![t] = NoVM]
    BY <1>6 DEF Return, Leave
  <2>2. req[t] \in VMs /\ ix[t] # NoSlot
    BY <2>1, ReturnsSlot
  <2>3. \A u \in Threads, v \in VMs :
          v \in Held(u)' <=> v \in Held(u) \/ (u = t /\ v = req[t])
    BY <2>1, <2>2 DEF Held
  <2> QED
    BY <2>1, <2>3 DEF FreshInv
<1>7. ASSUME NEW t \in Threads, NEW v \in VMs, UnmountDisk(t, v)
      PROVE  FreshInv'
  <2>1. /\ pc[t] = "idle" /\ pc' = [pc EXCEPT ![t] = "drop"]
        /\ mp' = [mp EXCEPT ![t][v] = NoSlot]
        /\ fresh' = [fresh EXCEPT ![t] = @ \ {v}]
        /\ UNCHANGED paused /\ req' = [req EXCEPT ![t] = v]
    BY <1>7 DEF UnmountDisk
  <2>2. \A u \in Threads, w \in VMs : w \in Held(u) /\ (u # t \/ w # v)
          => w \in Held(u)'
    BY <2>1 DEF Held
  <2> QED
    BY <2>1, <2>2 DEF FreshInv
<1>8. ASSUME NEW t \in Threads, EvictResume(t) PROVE FreshInv'
  <2>1. /\ pc[t] = "evictresume" /\ pc'[t] = "disconnect" /\ OthersStay(t)
        /\ UNCHANGED <<mp, fresh>>
        /\ paused' = [paused EXCEPT ![req[t]] = ResumeVM(@)]
    BY <1>8 DEF EvictResume, OthersStay
  <2>2. \A v \in VMs : v # req[t] => paused'[v] = paused[v]
    BY <2>1
  <2> QED
    BY <2>1, <2>2, OwnPause DEF Stealing
<1>9. CASE ProcessEnds
  BY <1>9 DEF ProcessEnds, FreshInv
<1>13. ASSUME NEW t \in Threads, DoSyncStuck(t) PROVE FreshInv'
  <2>1. /\ pc[t] = "sync" /\ pc'[t] = "stuck" /\ OthersStay(t)
        /\ UNCHANGED <<mp, fresh>>
        /\ \A v \in VMs : v # req[t] => paused'[v] = paused[v]
    BY <1>13 DEF DoSyncStuck, OthersStay
  <2> QED
    BY <2>1, OwnPause DEF Busy, Mounting
<1>10. CASE Restart
  BY <1>10 DEF Restart, FreshInv, Held
<1>11. CASE UNCHANGED <<pc, req, mp, paused, fresh>>
  BY <1>11 DEF FreshInv, Held
<1>12. CASE \E t \in Threads : Step(t) \/ Call(t)
  <2>1. PICK t \in Threads : Step(t) \/ Call(t)
    BY <1>12
  <2>2. \/ Unpausing(t) \/ DoSync(t) \/ PauseForMount(t) \/ MountFs(t)
        \/ Return(t) \/ ReleaseResume(t) \/ EvictResume(t) \/ ProcessEnds
        \/ \E v \in VMs : UnmountDisk(t, v)
    BY <2>1 DEF Step, Call, Unpausing, ConnectFails
  <2> QED
    BY <2>2, <1>1, <1>2, <1>3, <1>4, <1>5, <1>6, <1>7, <1>8, <1>9
<1> QED
  BY <1>9, <1>10, <1>11, <1>12, <1>13
  DEF Next, Shutdown, ChildReturns, DoSyncWaits, Tick, Ended

(* What a client got by a full mount stays paused (the pause of 711) until *)
(* its own unmount_disk resumes it (661): no other thread's mount, remount *)
(* or release, and no steal by the thread itself, whose do_nbd_unmount     *)
(* resumes a VM too, lets the guest write to the disk under the reader.    *)
THEOREM FreshStaysPaused ==
  ASSUME Undisturbed
  PROVE  Spec => []FreshPaused
<1>1. Init => FreshInv
  BY DEF Init, FreshInv
<1>2. TypeOK /\ TableInv /\ FreshInv /\ [Next]_vars => FreshInv'
  BY FreshStep DEF Undisturbed
<1>3. FreshInv => FreshPaused
  BY DEF FreshInv, FreshPaused
<1> QED
  BY <1>1, <1>2, <1>3, TableInvariant, PTL DEF Spec

(* do_sync resumes what it pauses, unless it returns early.                *)
LEMMA SyncBalances ==
  ASSUME "sync" \notin MayFail \/ ~NestedPause,
         NEW v \in Resumed, NEW out \in SyncOutcomes(0, v)
  PROVE  out.paused \in {0, 1} /\ (NestedPause => out.paused = 0)
<1> DEFINE once == ResumeVM(PauseVM(0))
<1>1. /\ PauseVM(0) = 1 /\ once = 0 /\ ResumeVM(once) = 0
      /\ ResumeVM(PauseVM(once)) = 0
      /\ ~NestedPause => ResumeVM(PauseVM(PauseVM(once))) = 0
  BY ConstantsAssumption DEF PauseVM, ResumeVM
<1>2. NestedPause => v \notin Unresolved
  BY DEF Resumed
<1> QED
  BY <1>1, <1>2 DEF SyncOutcomes, Outcomes

(* A VM nobody has paused yet is not paused.                               *)
LEMMA UnpausedYet ==
  ASSUME Exclusive, TypeOK, TableInv, NEW t \in Threads,
         pc[t] \in Busy \cup Releasing, pc[t] \notin Pausing,
         Balanced(req[t])
  PROVE  paused[req[t]] = 0
<1>1. /\ req[t] \in VMs /\ req[t] \notin Held(t)
      /\ \A u \in Threads \ {t} : req[t] \notin Serves[u]
  BY OwnVm DEF Held, TableInv, ClientInv, NotHeld
<1> QED
  BY <1>1 DEF Balanced, PausedFor

(* A step of t on the VM w, which it works for or is about to.             *)
LEMMA OwnBalance ==
  ASSUME TypeOK, PauseInv, NEW t \in Threads, NEW w \in VMs, OthersStay(t),
         UNCHANGED boots, pc[t] # "exited", req[t] \in {w, NoVM},
         \A v \in VMs \ {w} : paused'[v] = paused[v],
         \A u \in Threads, v \in VMs : u # t \/ v # w => mp'[u][v] = mp[u][v],
         w \in Resumed /\ Balanced(w) => Balanced(w)'
  PROVE  PauseInv'
<1> SUFFICES ASSUME boots = MaxBoot, \A u \in Threads : pc'[u] # "exited",
                    NEW v \in Resumed, v # w
             PROVE  Balanced(v)'
  <2>1. boots' <= MaxBoot
    BY DEF PauseInv
  <2>2. ASSUME boots = MaxBoot, \A u \in Threads : pc'[u] # "exited",
               w \in Resumed
        PROVE  Balanced(w)'
    BY <2>2 DEF PauseInv, OthersStay
  <2> QED
    BY <2>1, <2>2 DEF PauseInv
<1>1. v \in VMs /\ v # NoVM
  BY ConstantsAssumption DEF Resumed
<1>2. Balanced(v)
  BY DEF PauseInv, OthersStay
<1>3. ASSUME NEW u \in Threads, PausedFor(u, v) PROVE PausedFor(u, v)'
  BY <1>1, <1>3 DEF PausedFor, Held, OthersStay
<1> QED
  BY <1>1, <1>2, <1>3 DEF Balanced

LEMMA PauseStep ==
  ASSUME "sync" \notin MayFail \/ ~NestedPause, Exclusive, TypeOK, TableInv, PauseInv, [Next]_vars
  PROVE  PauseInv'
<1> USE DEF TypeOK, LocalTypes, HostTypes, ClientTypes, Goto
<1>1. ASSUME NEW t \in Threads, Unpausing(t) PROVE PauseInv'
  <2>1. /\ UNCHANGED <<paused, boots, mp>> /\ OthersStay(t)
        /\ pc[t] # "exited"
        /\ pc[t] \in Pausing => pc'[t] \in Pausing /\ req' = req
    BY <1>1, UnpausingSteps
  <2>2. ASSUME NEW u \in Threads, NEW v \in VMs, PausedFor(u, v)
        PROVE  PausedFor(u, v)'
    BY <2>1, <2>2 DEF PausedFor, Held, OthersStay
  <2>3. \A v \in Resumed : Balanced(v) => Balanced(v)'
    BY <2>1, <2>2 DEF Balanced, Resumed
  <2> QED
    BY <2>1, <2>3 DEF PauseInv, OthersStay
<1>2. ASSUME NEW t \in Threads, DoSync(t) PROVE PauseInv'
  <2>1. /\ pc[t] = "sync" /\ pc'[t] = "connect" /\ OthersStay(t)
        /\ UNCHANGED <<mp, boots, req>>
    BY <1>2 DEF DoSync, OthersStay
  <2>2. PICK out \in SyncOutcomes(paused[req[t]], req[t]) :
          paused' = [paused EXCEPT ![req[t]] = out.paused]
    BY <1>2 DEF DoSync
  <2>3. req[t] \in VMs /\ req[t] \in Serves[t]
    BY <2>1, OwnVm DEF Busy, Mounting
  <2>4. ASSUME req[t] \in Resumed, Balanced(req[t]) PROVE Balanced(req[t])'
    <3>1. paused[req[t]] = 0
      BY <2>1, <2>4, UnpausedYet DEF Busy, Mounting, Pausing, Releasing
    <3>2. out.paused \in {0, 1} /\ (NestedPause => out.paused = 0)
      BY <3>1, <2>4, SyncBalances
    <3> QED
      BY <2>1, <2>2, <2>3, <3>2 DEF Balanced, PausedFor, Pausing
  <2> QED
    BY <2>1, <2>2, <2>3, <2>4, OwnBalance
<1>3. ASSUME NEW t \in Threads, PauseForMount(t) PROVE PauseInv'
  <2>1. /\ pc[t] = "pause" /\ pc'[t] = "mount" /\ OthersStay(t)
        /\ UNCHANGED <<mp, boots, req>>
        /\ paused' = [paused EXCEPT ![req[t]] = PauseVM(@)]
    BY <1>3 DEF PauseForMount, OthersStay
  <2>2. req[t] \in VMs /\ req[t] \in Serves[t]
    BY <2>1, OwnVm DEF Busy, Mounting
  <2>3. ASSUME Balanced(req[t]) PROVE Balanced(req[t])'
    <3>1. NestedPause => paused[req[t]] = 0
      BY <2>1, <2>3, UnpausedYet DEF Busy, Mounting, Pausing, Releasing
    <3>2. paused'[req[t]] = 1
      BY <2>1, <2>2, <3>1 DEF PauseVM
    <3> QED
      BY <2>1, <2>2, <3>2 DEF Balanced, PausedFor, Pausing
  <2> QED
    BY <2>1, <2>2, <2>3, OwnBalance
<1>4. ASSUME NEW t \in Threads, MountFs(t) PROVE PauseInv'
  <2>1. /\ pc[t] = "mount" /\ pc'[t] = "return" /\ OthersStay(t)
        /\ UNCHANGED <<mp, boots, req, paused>>
    BY <1>4 DEF MountFs, OthersStay
  <2>2. req[t] \in VMs /\ req[t] \in Serves[t]
    BY <2>1, OwnVm DEF Busy, Mounting
  <2>3. Balanced(req[t]) => Balanced(req[t])'
    BY <2>1, <2>2 DEF Balanced, PausedFor, Pausing
  <2> QED
    BY <2>1, <2>2, <2>3, OwnBalance
<1>5. ASSUME NEW t \in Threads, Return(t) PROVE PauseInv'
  <2>1. PICK w \in VMs : w = req[t] /\ w \in Serves[t]
    BY <1>5, OwnVm DEF Return, Busy
  <2>2. /\ pc[t] = "return" /\ pc'[t] = "idle" /\ OthersStay(t)
        /\ UNCHANGED <<boots, paused>>
        /\ mp' = [mp EXCEPT ![t][w] = ix[t]]
    BY <1>5, <2>1 DEF Return, OthersStay, Leave
  <2>3. mp'[t][w] # NoSlot
    BY <2>2, ReturnsSlot
  <2>4. Balanced(w) => Balanced(w)'
    BY <2>1, <2>2, <2>3 DEF Balanced, PausedFor, Held
  <2> QED
    BY <2>1, <2>2, <2>4, OwnBalance
<1>6. ASSUME NEW t \in Threads, ReleaseResume(t) PROVE PauseInv'
  <2>1. PICK w \in VMs : w = req[t] /\ w = vmi[ix[t]]
    BY <1>6, OwnVm DEF ReleaseResume, Releasing
  <2>2. /\ pc[t] = "resume" /\ pc'[t] = "idle" /\ OthersStay(t)
        /\ UNCHANGED <<mp, boots>>
        /\ paused' = [paused EXCEPT ![w] = ResumeVM(@)]
    BY <1>6, <2>1 DEF ReleaseResume, OthersStay, Leave
  <2>3. Balanced(w) => paused'[w] = 0
    BY <2>1, <2>2 DEF Balanced, ResumeVM
  <2>4. Balanced(w) => Balanced(w)'
    BY <2>3 DEF Balanced
  <2> QED
    BY <2>1, <2>2, <2>4, OwnBalance
<1>7. ASSUME NEW t \in Threads, NEW v \in VMs, UnmountDisk(t, v)
      PROVE  PauseInv'
  <2>1. /\ pc[t] = "idle" /\ pc'[t] = "drop" /\ req'[t] = v /\ OthersStay(t)
        /\ mp' = [mp EXCEPT ![t][v] = NoSlot] /\ UNCHANGED <<boots, paused>>
    BY <1>7 DEF UnmountDisk, OthersStay
  <2>2. req[t] = NoVM /\ v \in Serves[t]
    BY <1>7, <2>1 DEF UnmountDisk, Held, TableInv, ClientInv, Unasked,
                      Outside, HeldServed
  <2>3. Balanced(v) => Balanced(v)'
    BY <2>1, <2>2 DEF Balanced, PausedFor, Pausing, Releasing
  <2> QED
    BY <2>1, <2>2, <2>3, OwnBalance
<1>8. ASSUME NEW t \in Threads, EvictResume(t) PROVE PauseInv'
  <2>1. PICK w \in VMs : w = req[t]
    BY <1>8, OwnVm DEF EvictResume, Stealing
  <2>2. /\ pc[t] = "evictresume" /\ pc'[t] = "disconnect" /\ OthersStay(t)
        /\ UNCHANGED <<mp, boots>>
        /\ paused' = [paused EXCEPT ![w] = ResumeVM(@)]
    BY <1>8, <2>1 DEF EvictResume, OthersStay
  <2>3. Balanced(w) => paused'[w] = 0
    BY <2>1, <2>2 DEF Balanced, ResumeVM
  <2>4. Balanced(w) => Balanced(w)'
    BY <2>3 DEF Balanced
  <2> QED
    BY <2>1, <2>2, <2>4, OwnBalance
<1>13. ASSUME NEW t \in Threads, DoSyncStuck(t) PROVE PauseInv'
  <2>1. /\ pc[t] = "sync" /\ pc'[t] = "stuck" /\ OthersStay(t)
        /\ UNCHANGED <<mp, boots, req>>
        /\ paused' = [paused EXCEPT ![req[t]] = ResumeVM(PauseVM(@))]
    BY <1>13 DEF DoSyncStuck, OthersStay
  <2>2. req[t] \in VMs /\ req[t] \in Serves[t]
    BY <2>1, OwnVm DEF Busy, Mounting
  <2>3. ASSUME Balanced(req[t]) PROVE Balanced(req[t])'
    <3>1. paused[req[t]] = 0
      BY <2>1, <2>3, UnpausedYet DEF Busy, Mounting, Pausing, Releasing
    <3>2. paused'[req[t]] = 0
      BY <2>1, <2>2, <3>1 DEF PauseVM, ResumeVM
    <3> QED
      BY <2>1, <2>2, <3>2 DEF Balanced
  <2> QED
    BY <2>1, <2>2, <2>3, OwnBalance
<1>9. CASE ProcessEnds
  <2>1. /\ \A t \in Threads : pc'[t] = "exited"
        /\ UNCHANGED <<boots, paused>>
    BY <1>9 DEF ProcessEnds
  <2>2. CASE Threads = {}
    BY <2>1, <2>2 DEF PauseInv, Balanced
  <2> QED
    BY <2>1, <2>2 DEF PauseInv
<1>10. CASE Restart
  BY <1>10, ConstantsAssumption DEF Restart, PauseInv
<1>11. CASE UNCHANGED <<pc, req, mp, paused, boots>>
  BY <1>11 DEF PauseInv, Balanced, PausedFor, Held
<1>12. CASE \E t \in Threads : Step(t) \/ Call(t)
  <2>1. PICK t \in Threads : Step(t) \/ Call(t)
    BY <1>12
  <2>2. \/ Unpausing(t) \/ DoSync(t) \/ PauseForMount(t) \/ MountFs(t)
        \/ Return(t) \/ ReleaseResume(t) \/ EvictResume(t) \/ ProcessEnds
        \/ \E v \in VMs : UnmountDisk(t, v)
    BY <2>1 DEF Step, Call, Unpausing, ConnectFails
  <2> QED
    BY <2>2, <1>1, <1>2, <1>3, <1>4, <1>5, <1>6, <1>7, <1>8, <1>9
<1> QED
  BY <1>9, <1>10, <1>11, <1>12, <1>13
  DEF Next, Shutdown, ChildReturns, DoSyncWaits, Tick, Ended

(* Where pauses are a flag, or no listen fails in do_sync: whatever the    *)
(* order of the calls and of the steps within them, and whatever else      *)
(* fails, the pauses of do_sync and do_nbd_mount (syncmount.cc 293-443,    *)
(* 711) and the resume of release_mount (661) balance: in the first        *)
(* process a VM nobody holds or asks for runs.  Not so, where pauses nest, *)
(* a VM whose kernel lacks the symbols: do_sync's early return leaves one  *)
(* behind; nor one whose last listen fails: it pauses twice (250, 385) and *)
(* resumes once (443).                                                     *)
THEOREM PausesBalance ==
  ASSUME Undisturbed, "sync" \notin MayFail \/ ~NestedPause
  PROVE  Spec => []IdleVmRuns
<1>1. Init => PauseInv
  BY ConstantsAssumption DEF Init, PauseInv, Balanced, Resumed
<1>2. TypeOK /\ TableInv /\ PauseInv /\ [Next]_vars => PauseInv'
  BY PauseStep DEF Undisturbed
<1>3. PauseInv => IdleVmRuns
  <2> SUFFICES ASSUME PauseInv, NEW v \in Resumed, boots = MaxBoot,
                      \A t \in Threads :
                        pc[t] # "exited" /\ req[t] # v /\ v \notin Held(t)
               PROVE  paused[v] = 0
    BY DEF IdleVmRuns, Resumed
  <2>1. Balanced(v)
    BY DEF PauseInv
  <2> QED
    BY <2>1 DEF Balanced, PausedFor
<1> QED
  BY <1>1, <1>2, <1>3, TableInvariant, PTL DEF Spec
=============================================================================
