--------------------------- MODULE SyncMountProofs ---------------------------
(***************************************************************************)
(* Theorems about the slot table by itself, for every number of threads,   *)
(* VMs and slots: types and the lock; the search for a slot, which steals  *)
(* only as the last resort, names a VM in one slot only and never steals   *)
(* while there is a slot per VM; and the LRU loop's choice.                *)
(***************************************************************************)
EXTENDS SyncMount, FiniteSetTheorems, TLAPS

USE DEF callVars, slotVars, lockVars, hostVars, heldVars, histVars, rest,
        shared, vars

(* What a client holds has a slot noted in its VM's mountdev.              *)
HeldNoted ==
  \A t \in Threads, v \in VMs : mp[t][v] # NoSlot => mountdev[v] \in Slots

----------------------------------------------------------------------------
(* Type correctness. *)

(* The hypervisor's pause count is a number, whichever way it counts.      *)
LEMMA PauseCounts ==
  ASSUME NEW p \in Nat
  PROVE  PauseVM(p) \in Nat /\ ResumeVM(p) \in Nat
  BY ConstantsAssumption DEF PauseVM, ResumeVM

(* do_sync leaves a pause count that is a number.                          *)
LEMMA SyncCounts ==
  ASSUME NEW p \in Nat, NEW v \in VMs, NEW out \in SyncOutcomes(p, v)
  PROVE  out.paused \in Nat
<1> DEFINE once == ResumeVM(PauseVM(p))
<1>1. once \in Nat /\ PauseVM(p) \in Nat
  BY PauseCounts
<1>2. /\ ResumeVM(once) \in Nat /\ ResumeVM(PauseVM(once)) \in Nat
      /\ ResumeVM(PauseVM(PauseVM(once))) \in Nat
  BY <1>1, PauseCounts
<1> QED
  BY <1>1, <1>2 DEF SyncOutcomes, Outcomes

(* What an umount or a mount may leave at a mount point is a file system.  *)
LEMMA MountsTyped ==
  ASSUME HostTypes
  PROVE  /\ LazyLeaves \subseteq VMs \cup {NoVM}
         /\ \A s \in Slots : UmountLeaves(s) \subseteq VMs \cup {NoVM}
         /\ \A t \in Threads, under \in VMs \cup {NoVM} :
              ix[t] \in Slots => MountCovers(t, under) \subseteq VMs \cup {NoVM}
  BY DEF HostTypes, LazyLeaves, UmountLeaves, MountCovers

(* A step that leaves the shared variables alone keeps their types.        *)
LEMMA SharedTypes ==
  ASSUME TypeOK, HeldNoted, UNCHANGED shared
  PROVE  SlotTypes' /\ HostTypes' /\ ClientTypes' /\ HeldNoted'
  BY DEF TypeOK, SlotTypes, HostTypes, ClientTypes, HeldNoted

(* The first state has the types.                                          *)
LEMMA InitTypes ==
  ASSUME Init
  PROVE  TypeOK /\ HeldNoted
<1> USE ConstantsAssumption DEF Init
<1>1. LocalTypes /\ CallOK
  BY DEF LocalTypes, CallOK, PCs, Slots, NoScan, Scans, Outside
<1>2. SlotTypes
  BY DEF SlotTypes
<1>3. HostTypes
  BY DEF HostTypes
<1>4. lk \in Threads \cup {NoThread} /\ vmi_lock \in Threads \cup {NoThread}
  OBVIOUS
<1>5. boots \in Nat /\ left \in [Threads -> Nat] /\ interrupted \in BOOLEAN
  OBVIOUS
<1>6. mp \in [Threads -> [VMs -> Slots \cup {NoSlot}]]
  OBVIOUS
<1>7. mountdev \in [VMs -> Slots \cup {NoSlot}]
  OBVIOUS
<1>8. fresh \in [Threads -> SUBSET VMs] /\ flushed \in SUBSET VMs
  OBVIOUS
<1>9. HeldNoted
  BY DEF HeldNoted
<1> QED
  BY <1>1, <1>2, <1>3, <1>4, <1>5, <1>6, <1>7, <1>8, <1>9
  DEF TypeOK, ClientTypes

(* The calls, and looking for the VM's slot, keep the types.               *)
LEMMA RemountTypes ==
  ASSUME TypeOK, HeldNoted, NEW t \in Threads,
         \/ \E v \in VMs : MountDisk(t, v)
         \/ RemountMiss(t)
         \/ RemountHit(t)
         \/ RemountLoad(t)
         \/ RemountStore(t)
         \/ RemountEnd(t)
  PROVE  TypeOK' /\ HeldNoted'
<1> USE ConstantsAssumption DEF TypeOK, Scans
<1>1. ASSUME NEW v \in VMs, MountDisk(t, v) PROVE TypeOK' /\ HeldNoted'
  <2>1. LocalTypes' /\ CallOK'
    BY <1>1 DEF MountDisk, LocalTypes, CallOK, Outside, Searching, PCs,
                  Slots, Goto
  <2>2. SlotTypes'
    BY <1>1 DEF MountDisk, SlotTypes
  <2>3. HostTypes'
    BY <1>1 DEF MountDisk, HostTypes
  <2>4. ClientTypes' /\ HeldNoted'
    BY <1>1 DEF MountDisk, ClientTypes, HeldNoted
  <2> QED
    BY <2>1, <2>2, <2>3, <2>4
<1>2. CASE RemountMiss(t)
  <2>1. LocalTypes' /\ CallOK'
    BY <1>2 DEF RemountMiss, LocalTypes, CallOK, Outside, Searching, PCs,
                  Slots, Goto
  <2>2. UNCHANGED shared
    BY <1>2 DEF RemountMiss
  <2> QED
    BY <2>1, <2>2, SharedTypes
<1>3. CASE RemountHit(t)
  <2>1. LocalTypes' /\ CallOK'
    BY <1>3 DEF RemountHit, LocalTypes, CallOK, Outside, Searching, PCs,
                  Slots, Goto
  <2>2. UNCHANGED shared
    BY <1>3 DEF RemountHit
  <2> QED
    BY <2>1, <2>2, SharedTypes
<1>4. CASE RemountLoad(t)
  <2>1. LocalTypes' /\ CallOK'
    BY <1>4 DEF RemountLoad, SlotTypes, LocalTypes, CallOK, Outside, Searching, PCs,
                  Slots, Goto
  <2>2. UNCHANGED shared
    BY <1>4 DEF RemountLoad
  <2> QED
    BY <2>1, <2>2, SharedTypes
<1>5. CASE RemountStore(t)
  <2>1. now \in Int /\ reg[t] + 1 \in Int
    BY DEF LocalTypes, HostTypes
  <2>2. LocalTypes' /\ CallOK'
    BY <1>5, <2>1 DEF RemountStore, LocalTypes, CallOK, Outside, Searching, PCs,
                  Slots, Goto
  <2>3. SlotTypes'
    BY <1>5, <2>1 DEF RemountStore, SlotTypes
  <2>4. HostTypes'
    BY <1>5 DEF RemountStore, HostTypes
  <2>5. ClientTypes' /\ HeldNoted'
    BY <1>5 DEF RemountStore, ClientTypes, HeldNoted
  <2> QED
    BY <2>2, <2>3, <2>4, <2>5
<1>6. CASE RemountEnd(t)
  <2>1. LocalTypes' /\ CallOK'
    BY <1>6 DEF RemountEnd, LocalTypes, CallOK, Outside, Searching, PCs,
                  Slots, Goto
  <2>2. UNCHANGED shared
    BY <1>6 DEF RemountEnd
  <2> QED
    BY <2>1, <2>2, SharedTypes
<1> QED
  BY <1>1, <1>2, <1>3, <1>4, <1>5, <1>6

(* Taking a slot nobody has taken keeps the types.                         *)
LEMMA GrabTypes ==
  ASSUME TypeOK, HeldNoted, NEW t \in Threads,
         \/ GrabMiss(t)
         \/ GrabSlot(t)
         \/ GrabEnd(t)
         \/ Claim(t)
  PROVE  TypeOK' /\ HeldNoted'
<1> USE ConstantsAssumption DEF TypeOK, Scans
<1>1. CASE GrabMiss(t)
  <2>1. LocalTypes' /\ CallOK'
    BY <1>1 DEF GrabMiss, LocalTypes, CallOK, Outside, Searching, PCs,
                  Slots, Goto
  <2>2. UNCHANGED shared
    BY <1>1 DEF GrabMiss
  <2> QED
    BY <2>1, <2>2, SharedTypes
<1>2. CASE GrabSlot(t)
  <2>1. LocalTypes' /\ CallOK'
    BY <1>2 DEF GrabSlot, LocalTypes, CallOK, Outside, Searching, PCs,
                  Slots, Goto
  <2>2. SlotTypes'
    BY <1>2 DEF GrabSlot, SlotTypes
  <2>3. HostTypes'
    BY <1>2 DEF GrabSlot, HostTypes
  <2>4. ClientTypes' /\ HeldNoted'
    BY <1>2 DEF GrabSlot, ClientTypes, HeldNoted
  <2> QED
    BY <2>1, <2>2, <2>3, <2>4
<1>3. CASE GrabEnd(t)
  <2>1. LocalTypes' /\ CallOK'
    BY <1>3 DEF GrabEnd, LocalTypes, CallOK, Outside, Searching, PCs,
                  Slots, Goto
  <2>2. UNCHANGED shared
    BY <1>3 DEF GrabEnd
  <2> QED
    BY <2>1, <2>2, SharedTypes
<1>4. CASE Claim(t)
  <2>1. \A s \in Slots : refcount'[s] \in Int
    BY <1>4 DEF Claim, SlotTypes
  <2>2. refcount' \in [Slots -> Int]
    BY <1>4, <2>1 DEF Claim, SlotTypes
  <2>3. vmi' \in [Slots -> VMs \cup {NoVM}]
    BY <1>4 DEF Claim, SlotTypes, LocalTypes
  <2>4. LocalTypes' /\ CallOK'
    BY <1>4, <2>1, <2>2, <2>3 DEF Claim, LocalTypes, CallOK, Outside, Searching, PCs,
                  Slots, Goto
  <2>5. SlotTypes'
    BY <1>4, <2>1, <2>2, <2>3 DEF Claim, SlotTypes
  <2>6. HostTypes'
    BY <1>4 DEF Claim, HostTypes
  <2>7. ClientTypes' /\ HeldNoted'
    BY <1>4 DEF Claim, ClientTypes, HeldNoted
  <2> QED
    BY <2>4, <2>5, <2>6, <2>7
<1> QED
  BY <1>1, <1>2, <1>3, <1>4

(* Choosing a slot to steal keeps the types.                               *)
LEMMA LruTypes ==
  ASSUME TypeOK, HeldNoted, NEW t \in Threads,
         \/ GetName(t)
         \/ LruLock(t)
         \/ LruAge(t)
         \/ LruWeigh(t)
         \/ LruSleep(t)
         \/ LruPick(t)
  PROVE  TypeOK' /\ HeldNoted'
<1> USE ConstantsAssumption DEF TypeOK, Scans
<1>1. CASE GetName(t)
  <2>1. LocalTypes' /\ CallOK'
    BY <1>1 DEF GetName, LocalTypes, CallOK, Outside, Searching, PCs,
                  Slots, Goto
  <2>2. UNCHANGED shared
    BY <1>1 DEF GetName
  <2> QED
    BY <2>1, <2>2, SharedTypes
<1>2. CASE LruLock(t)
  <2>1. lru[t] \in Scans /\ now \in Int
    BY DEF LocalTypes, HostTypes
  <2>2. [lru[t] EXCEPT !.c = now] \in Scans
    BY <2>1
  <2>3. LocalTypes' /\ CallOK'
    BY <1>2, <2>1, <2>2 DEF LruLock, LocalTypes, CallOK, Outside, Searching, PCs,
                  Slots, Goto
  <2>4. SlotTypes'
    BY <1>2 DEF LruLock, SlotTypes
  <2>5. HostTypes'
    BY <1>2 DEF LruLock, HostTypes
  <2>6. ClientTypes' /\ HeldNoted'
    BY <1>2 DEF LruLock, ClientTypes, HeldNoted
  <2> QED
    BY <2>3, <2>4, <2>5, <2>6
<1>3. CASE LruAge(t)
  <2>1. lru[t] \in Scans /\ ix[t] \in Slots
    BY <1>3 DEF LocalTypes, LruAge, Slots
  <2>2. lru[t].c - last_used[ix[t]] \in Int
    BY <2>1 DEF SlotTypes
  <2>3. [lru[t] EXCEPT !.d = lru[t].c - last_used[ix[t]]] \in Scans
    BY <2>1, <2>2
  <2>4. LocalTypes' /\ CallOK'
    BY <1>3, <2>1, <2>2, <2>3 DEF LruAge, LocalTypes, CallOK, Outside, Searching, PCs,
                  Slots, Goto
  <2>5. UNCHANGED shared
    BY <1>3 DEF LruAge
  <2> QED
    BY <2>4, <2>5, SharedTypes
<1>4. CASE LruWeigh(t)
  <2>1. lru[t] \in Scans /\ ix[t] \in Slots
    BY <1>4 DEF LocalTypes, LruWeigh, CallOK, Outside, Searching, Goto
  <2>2. Nominate(lru[t], ix[t]) \in Scans
    BY <2>1 DEF Nominate
  <2>3. LocalTypes' /\ CallOK'
    BY <1>4, <2>1, <2>2 DEF LruWeigh, LocalTypes, CallOK, Outside, Searching, PCs,
                  Slots, Goto
  <2>4. UNCHANGED shared
    BY <1>4 DEF LruWeigh
  <2> QED
    BY <2>3, <2>4, SharedTypes
<1>5. CASE LruSleep(t)
  <2>1. LocalTypes' /\ CallOK'
    BY <1>5 DEF LruSleep, LocalTypes, CallOK, Outside, Searching, PCs,
                  Slots, Goto
  <2>2. SlotTypes'
    BY <1>5 DEF LruSleep, SlotTypes
  <2>3. HostTypes'
    BY <1>5 DEF LruSleep, HostTypes
  <2>4. ClientTypes' /\ HeldNoted'
    BY <1>5 DEF LruSleep, ClientTypes, HeldNoted
  <2> QED
    BY <2>1, <2>2, <2>3, <2>4
<1>6. CASE LruPick(t)
  <2>1. LocalTypes' /\ CallOK'
    BY <1>6 DEF LruPick, LocalTypes, CallOK, Outside, Searching, PCs,
                  Slots, Goto
  <2>2. UNCHANGED shared
    BY <1>6 DEF LruPick
  <2> QED
    BY <2>1, <2>2, SharedTypes
<1> QED
  BY <1>1, <1>2, <1>3, <1>4, <1>5, <1>6

(* Unmounting the slot stolen keeps the types.                             *)
LEMMA EvictTypes ==
  ASSUME TypeOK, HeldNoted, NEW t \in Threads,
         \/ EvictUmount(t)
         \/ EvictResume(t)
         \/ Disconnect(t)
  PROVE  TypeOK' /\ HeldNoted'
<1> USE ConstantsAssumption DEF TypeOK, Scans
<1>1. CASE EvictUmount(t)
  <2>1. LocalTypes' /\ CallOK'
    BY <1>1 DEF EvictUmount, LocalTypes, CallOK, Outside, Searching, PCs,
                  Slots, Goto
  <2>2. SlotTypes'
    BY <1>1 DEF EvictUmount, SlotTypes
  <2>3. HostTypes'
    <3>1. ix[t] \in Slots
      BY <1>1 DEF EvictUmount, Goto, CallOK, Outside, Searching
    <3>2. LazyLeaves \subseteq VMs \cup {NoVM}
      BY <3>1, MountsTyped
    <3>3. PICK fs \in LazyLeaves : mnt' = [mnt EXCEPT ![ix[t]] = fs]
      BY <1>1 DEF EvictUmount
    <3>4. mnt' \in [Slots -> VMs \cup {NoVM}]
      BY <3>2, <3>3 DEF HostTypes
    <3> QED
      BY <1>1, <3>4 DEF EvictUmount, HostTypes
  <2>4. ClientTypes' /\ HeldNoted'
    BY <1>1 DEF EvictUmount, ClientTypes, HeldNoted
  <2> QED
    BY <2>1, <2>2, <2>3, <2>4
<1>2. CASE EvictResume(t)
  <2>1. LocalTypes' /\ CallOK'
    BY <1>2 DEF EvictResume, LocalTypes, CallOK, Outside, Searching, PCs,
                  Slots, Goto
  <2>2. SlotTypes'
    BY <1>2 DEF EvictResume, SlotTypes
  <2>3. HostTypes'
    BY <1>2, PauseCounts DEF EvictResume, HostTypes
  <2>4. ClientTypes' /\ HeldNoted'
    BY <1>2 DEF EvictResume, ClientTypes, HeldNoted
  <2> QED
    BY <2>1, <2>2, <2>3, <2>4
<1>3. CASE Disconnect(t)
  <2>1. LocalTypes' /\ CallOK'
    BY <1>3 DEF Disconnect, LocalTypes, CallOK, Outside, Searching, PCs,
                  Slots, Goto
  <2>2. SlotTypes'
    BY <1>3 DEF Disconnect, SlotTypes
  <2>3. HostTypes'
    BY <1>3 DEF Disconnect, HostTypes
  <2>4. ClientTypes' /\ HeldNoted'
    BY <1>3 DEF Disconnect, ClientTypes, HeldNoted
  <2> QED
    BY <2>1, <2>2, <2>3, <2>4
<1> QED
  BY <1>1, <1>2, <1>3

(* Mounting the disk keeps the types.                                      *)
LEMMA MountTypes ==
  ASSUME TypeOK, HeldNoted, NEW t \in Threads,
         \/ SyncLock(t)
         \/ DoSync(t)
         \/ Connect(t)
         \/ PauseForMount(t)
         \/ MountFs(t)
         \/ LruUnlock(t)
         \/ Return(t)
         \/ DoSyncStuck(t)
  PROVE  TypeOK' /\ HeldNoted'
<1> USE ConstantsAssumption DEF TypeOK, Scans
<1>1. CASE SyncLock(t)
  <2>1. LocalTypes' /\ CallOK'
    BY <1>1 DEF SyncLock, LocalTypes, CallOK, Outside, Searching, PCs,
                  Slots, Goto
  <2>2. SlotTypes'
    BY <1>1 DEF SyncLock, SlotTypes
  <2>3. HostTypes'
    BY <1>1 DEF SyncLock, HostTypes
  <2>4. ClientTypes' /\ HeldNoted'
    BY <1>1 DEF SyncLock, ClientTypes, HeldNoted
  <2> QED
    BY <2>1, <2>2, <2>3, <2>4
<1>2. CASE DoSync(t)
  <2>1. LocalTypes' /\ CallOK'
    BY <1>2 DEF DoSync, LocalTypes, CallOK, Outside, Searching, PCs,
                  Slots, Goto
  <2>2. SlotTypes'
    BY <1>2 DEF DoSync, SlotTypes
  <2>3. HostTypes'
    BY <1>2, SyncCounts DEF DoSync, HostTypes, CallOK, Outside, Searching, Goto, LocalTypes
  <2>4. ClientTypes' /\ HeldNoted'
    BY <1>2 DEF DoSync, ClientTypes, HeldNoted, CallOK, Outside, Searching, Goto, LocalTypes
  <2> QED
    BY <2>1, <2>2, <2>3, <2>4
<1>3. CASE Connect(t)
  <2>1. LocalTypes' /\ CallOK'
    BY <1>3 DEF Connect, LocalTypes, CallOK, Outside, Searching, PCs,
                  Slots, Goto
  <2>2. SlotTypes'
    BY <1>3 DEF Connect, SlotTypes
  <2>3. HostTypes'
    BY <1>3 DEF Connect, HostTypes, LocalTypes
  <2>4. ClientTypes' /\ HeldNoted'
    BY <1>3 DEF Connect, ClientTypes, HeldNoted
  <2> QED
    BY <2>1, <2>2, <2>3, <2>4
<1>4. CASE PauseForMount(t)
  <2>1. LocalTypes' /\ CallOK'
    BY <1>4 DEF PauseForMount, LocalTypes, CallOK, Outside, Searching, PCs,
                  Slots, Goto
  <2>2. SlotTypes'
    BY <1>4 DEF PauseForMount, SlotTypes
  <2>3. HostTypes'
    BY <1>4, PauseCounts DEF PauseForMount, HostTypes
  <2>4. ClientTypes' /\ HeldNoted'
    BY <1>4 DEF PauseForMount, ClientTypes, HeldNoted
  <2> QED
    BY <2>1, <2>2, <2>3, <2>4
<1>5. CASE MountFs(t)
  <2>1. now \in Int
    BY DEF HostTypes
  <2>2. LocalTypes' /\ CallOK'
    BY <1>5, <2>1 DEF MountFs, LocalTypes, CallOK, Outside, Searching, PCs,
                  Slots, Goto
  <2>3. SlotTypes'
    BY <1>5, <2>1 DEF MountFs, SlotTypes
  <2>4. HostTypes'
    <3>1. ix[t] \in Slots
      BY <1>5 DEF MountFs, Goto, CallOK, Outside, Searching
    <3>2. PICK under \in UmountLeaves(ix[t]) :
             \E fs \in MountCovers(t, under) : mnt' = [mnt EXCEPT ![ix[t]] = fs]
      BY <1>5 DEF MountFs
    <3>3. PICK fs \in MountCovers(t, under) : mnt' = [mnt EXCEPT ![ix[t]] = fs]
      BY <3>2
    <3>4. fs \in VMs \cup {NoVM}
      BY <3>1, <3>3, MountsTyped
    <3>5. mnt' \in [Slots -> VMs \cup {NoVM}]
      BY <3>3, <3>4 DEF HostTypes
    <3> QED
      BY <1>5, <3>5 DEF MountFs, HostTypes
  <2>5. ClientTypes' /\ HeldNoted'
    BY <1>5 DEF MountFs, ClientTypes, HeldNoted, CallOK, Outside, Searching, Goto, LocalTypes
  <2> QED
    BY <2>2, <2>3, <2>4, <2>5
<1>6. CASE LruUnlock(t)
  <2>1. LocalTypes' /\ CallOK'
    BY <1>6 DEF LruUnlock, LocalTypes, CallOK, Outside, Searching, PCs,
                  Slots, Goto
  <2>2. SlotTypes'
    BY <1>6 DEF LruUnlock, SlotTypes
  <2>3. HostTypes'
    BY <1>6 DEF LruUnlock, HostTypes
  <2>4. ClientTypes' /\ HeldNoted'
    BY <1>6 DEF LruUnlock, ClientTypes, HeldNoted
  <2> QED
    BY <2>1, <2>2, <2>3, <2>4
<1>7. CASE Return(t)
  <2>1. LocalTypes' /\ CallOK'
    BY <1>7 DEF Return, Leave, NoScan, LocalTypes, CallOK, Outside, Searching, PCs,
                  Slots, Goto
  <2>2. SlotTypes'
    BY <1>7 DEF Return, SlotTypes
  <2>3. HostTypes'
    BY <1>7 DEF Return, HostTypes
  <2>4. ClientTypes' /\ HeldNoted'
    BY <1>7 DEF Return, ClientTypes, HeldNoted, CallOK, Outside, Searching, Goto, LocalTypes, Slots, NoSlot
  <2> QED
    BY <2>1, <2>2, <2>3, <2>4
<1>8. CASE DoSyncStuck(t)
  <2>1. LocalTypes' /\ CallOK'
    BY <1>8 DEF DoSyncStuck, LocalTypes, CallOK, Outside, Searching, PCs,
                  Slots, Goto
  <2>2. SlotTypes'
    BY <1>8 DEF DoSyncStuck, SlotTypes
  <2>3. HostTypes'
    BY <1>8, PauseCounts DEF DoSyncStuck, HostTypes
  <2>4. ClientTypes' /\ HeldNoted'
    BY <1>8 DEF DoSyncStuck, ClientTypes, HeldNoted
  <2> QED
    BY <2>1, <2>2, <2>3, <2>4
<1> QED
  BY <1>1, <1>2, <1>3, <1>4, <1>5, <1>6, <1>7, <1>8

(* unmount_disk and the use of VMI keep the types.                         *)
LEMMA ReleaseTypes ==
  ASSUME TypeOK, HeldNoted, NEW t \in Threads,
         \/ \E v \in VMs : UnmountDisk(t, v)
         \/ ReleaseLoad(t)
         \/ ReleaseStore(t)
         \/ ReleaseResume(t)
         \/ GetVmiLock(t)
         \/ RelVmiLock(t)
  PROVE  TypeOK' /\ HeldNoted'
<1> USE ConstantsAssumption DEF TypeOK, Scans
<1>1. ASSUME NEW v \in VMs, UnmountDisk(t, v) PROVE TypeOK' /\ HeldNoted'
  <2>1. LocalTypes' /\ CallOK'
    BY <1>1 DEF UnmountDisk, Held, SlotOf, HeldNoted, NoSlot, ClientTypes, LocalTypes, CallOK, Outside, Searching, PCs,
                  Slots, Goto
  <2>2. SlotTypes'
    BY <1>1 DEF UnmountDisk, SlotTypes
  <2>3. HostTypes'
    BY <1>1 DEF UnmountDisk, HostTypes
  <2>4. ClientTypes' /\ HeldNoted'
    BY <1>1 DEF UnmountDisk, ClientTypes, HeldNoted, NoSlot
  <2> QED
    BY <2>1, <2>2, <2>3, <2>4
<1>2. CASE ReleaseLoad(t)
  <2>1. LocalTypes' /\ CallOK'
    BY <1>2 DEF ReleaseLoad, SlotTypes, LocalTypes, CallOK, Outside, Searching, PCs,
                  Slots, Goto
  <2>2. UNCHANGED shared
    BY <1>2 DEF ReleaseLoad
  <2> QED
    BY <2>1, <2>2, SharedTypes
<1>3. CASE ReleaseStore(t)
  <2>1. reg[t] - 1 \in Int
    BY DEF LocalTypes
  <2>2. LocalTypes' /\ CallOK'
    BY <1>3, <2>1 DEF ReleaseStore, LocalTypes, CallOK, Outside, Searching, PCs,
                  Slots, Goto
  <2>3. SlotTypes'
    BY <1>3, <2>1 DEF ReleaseStore, SlotTypes
  <2>4. HostTypes'
    BY <1>3 DEF ReleaseStore, HostTypes
  <2>5. ClientTypes' /\ HeldNoted'
    BY <1>3 DEF ReleaseStore, ClientTypes, HeldNoted
  <2> QED
    BY <2>2, <2>3, <2>4, <2>5
<1>4. CASE ReleaseResume(t)
  <2>1. LocalTypes' /\ CallOK'
    BY <1>4 DEF ReleaseResume, Leave, NoScan, LocalTypes, CallOK, Outside, Searching, PCs,
                  Slots, Goto
  <2>2. SlotTypes'
    BY <1>4 DEF ReleaseResume, SlotTypes
  <2>3. HostTypes'
    BY <1>4, PauseCounts DEF ReleaseResume, HostTypes
  <2>4. ClientTypes' /\ HeldNoted'
    BY <1>4 DEF ReleaseResume, ClientTypes, HeldNoted
  <2> QED
    BY <2>1, <2>2, <2>3, <2>4
<1>5. CASE GetVmiLock(t)
  <2>1. LocalTypes' /\ CallOK'
    BY <1>5 DEF GetVmiLock, LocalTypes, CallOK, Outside, Searching, PCs,
                  Slots, Goto
  <2>2. SlotTypes'
    BY <1>5 DEF GetVmiLock, SlotTypes
  <2>3. HostTypes'
    BY <1>5 DEF GetVmiLock, HostTypes
  <2>4. ClientTypes' /\ HeldNoted'
    BY <1>5 DEF GetVmiLock, ClientTypes, HeldNoted
  <2> QED
    BY <2>1, <2>2, <2>3, <2>4
<1>6. CASE RelVmiLock(t)
  <2>1. LocalTypes' /\ CallOK'
    BY <1>6 DEF RelVmiLock, LocalTypes, CallOK, Outside, Searching, PCs,
                  Slots, Goto
  <2>2. SlotTypes'
    BY <1>6 DEF RelVmiLock, SlotTypes
  <2>3. HostTypes'
    BY <1>6 DEF RelVmiLock, HostTypes
  <2>4. ClientTypes' /\ HeldNoted'
    BY <1>6 DEF RelVmiLock, ClientTypes, HeldNoted
  <2> QED
    BY <2>1, <2>2, <2>3, <2>4
<1> QED
  BY <1>1, <1>2, <1>3, <1>4, <1>5, <1>6

(* So does an umount of every slot.                                        *)
LEMMA DropTypes ==
  ASSUME TypeOK, DropAllMounts
  PROVE  /\ nbd' \in [Slots -> VMs \cup {NoVM}]
         /\ mnt' \in [Slots -> VMs \cup {NoVM}]
  BY DEF DropAllMounts

(* The end of the process keeps the types, whatever becomes of the mounts. *)
LEMMA EndTypes ==
  ASSUME TypeOK, HeldNoted, ProcessEnds,
         nbd' \in [Slots -> VMs \cup {NoVM}], mnt' \in [Slots -> VMs \cup {NoVM}]
  PROVE  TypeOK' /\ HeldNoted'
<1> USE ConstantsAssumption DEF TypeOK, ProcessEnds
<1>1. LocalTypes' /\ CallOK'
  BY DEF LocalTypes, CallOK, PCs, Slots, NoScan, Scans, Outside
<1>2. SlotTypes'
  BY DEF SlotTypes
<1>3. HostTypes'
  BY DEF HostTypes
<1>4. ClientTypes' /\ HeldNoted'
  BY DEF ClientTypes, HeldNoted
<1> QED
  BY <1>1, <1>2, <1>3, <1>4

(* The life of the process and the clock keep the types.                   *)
LEMMA LifeTypes ==
  ASSUME TypeOK, HeldNoted,
         \/ \E t \in Threads : ConnectFails(t) \/ ChildReturns(t)
         \/ Shutdown \/ Restart \/ Tick \/ Ended
  PROVE  TypeOK' /\ HeldNoted'
<1> USE ConstantsAssumption DEF TypeOK
<1>1. ASSUME NEW t \in Threads, ConnectFails(t) PROVE TypeOK' /\ HeldNoted'
  <2>1. ProcessEnds /\ nbd' \in [Slots -> VMs \cup {NoVM}]
                    /\ mnt' \in [Slots -> VMs \cup {NoVM}]
    BY <1>1 DEF ConnectFails, HostTypes
  <2> QED
    BY <2>1, EndTypes
<1>2. ASSUME NEW t \in Threads, ChildReturns(t) PROVE TypeOK' /\ HeldNoted'
  <2>1. LocalTypes' /\ CallOK'
    BY <1>2 DEF ChildReturns, LocalTypes, CallOK
  <2>2. SlotTypes'
    BY <1>2 DEF ChildReturns, SlotTypes
  <2>3. HostTypes'
    BY <1>2 DEF ChildReturns, DropAllMounts, HostTypes
  <2>4. ClientTypes' /\ HeldNoted'
    BY <1>2 DEF ChildReturns, ClientTypes, HeldNoted
  <2> QED
    BY <2>1, <2>2, <2>3, <2>4
<1>3. CASE Shutdown
  <2>1. ProcessEnds /\ nbd' \in [Slots -> VMs \cup {NoVM}]
                    /\ mnt' \in [Slots -> VMs \cup {NoVM}]
    BY <1>3 DEF Shutdown, DropAllMounts
  <2> QED
    BY <2>1, EndTypes
<1>4. CASE Restart
  <2>1. LocalTypes' /\ CallOK'
    BY <1>4 DEF Restart, LocalTypes, CallOK, PCs, Outside
  <2>2. now \in Int
    BY DEF HostTypes
  <2>3. SlotTypes'
    BY <1>4, <2>2 DEF Restart, SlotTypes
  <2>4. HostTypes'
    BY <1>4 DEF Restart, HostTypes
  <2>5. ClientTypes' /\ HeldNoted'
    BY <1>4 DEF Restart, ClientTypes, HeldNoted
  <2> QED
    BY <2>1, <2>3, <2>4, <2>5
<1>5. CASE Tick
  <2>1. LocalTypes' /\ CallOK'
    BY <1>5 DEF Tick, LocalTypes, CallOK
  <2>2. SlotTypes'
    BY <1>5 DEF Tick, SlotTypes
  <2>3. HostTypes'
    BY <1>5 DEF Tick, HostTypes
  <2>4. ClientTypes' /\ HeldNoted'
    BY <1>5 DEF Tick, ClientTypes, HeldNoted
  <2> QED
    BY <2>1, <2>2, <2>3, <2>4
<1>6. CASE Ended
  BY <1>6 DEF Ended, LocalTypes, SlotTypes, HostTypes, ClientTypes, CallOK,
              HeldNoted
<1> QED
  BY <1>1, <1>2, <1>3, <1>4, <1>5, <1>6

(* Every step keeps the types.                                             *)
LEMMA StepTypes ==
  ASSUME TypeOK, HeldNoted, [Next]_vars
  PROVE  TypeOK' /\ HeldNoted'
<1>1. ASSUME NEW t \in Threads, Step(t) PROVE TypeOK' /\ HeldNoted'
  BY <1>1, RemountTypes, GrabTypes, LruTypes, EvictTypes, MountTypes,
     ReleaseTypes, LifeTypes DEF Step
<1>2. ASSUME NEW t \in Threads, Call(t) PROVE TypeOK' /\ HeldNoted'
  BY <1>2, RemountTypes, ReleaseTypes DEF Call
<1>3. CASE UNCHANGED vars
  BY <1>3 DEF TypeOK, LocalTypes, SlotTypes, HostTypes, ClientTypes, CallOK,
              HeldNoted
<1>4. ASSUME NEW t \in Threads, DoSyncWaits(t) PROVE UNCHANGED vars
  BY <1>4 DEF DoSyncWaits
<1>5. ASSUME NEW t \in Threads, DoSyncStuck(t) PROVE TypeOK' /\ HeldNoted'
  BY <1>5, MountTypes
<1> QED
  BY <1>1, <1>2, <1>3, <1>4, <1>5, LifeTypes DEF Next

(* Every variable keeps its type, and every call works on a slot that      *)
(* exists for a VM that was registered: no index of mount_records          *)
(* (syncmount.cc 560-641, 658) is ever out of its bounds.                  *)
THEOREM TypeCorrect == Spec => [](TypeOK /\ HeldNoted)
<1>1. Init => TypeOK /\ HeldNoted
  BY InitTypes
<1>2. TypeOK /\ HeldNoted /\ [Next]_vars => TypeOK' /\ HeldNoted'
  BY StepTypes
<1> QED
  BY <1>1, <1>2, PTL DEF Spec

----------------------------------------------------------------------------
(* The search for a slot.                                                  *)


(* The threads mount different VMs.                                        *)
Exclusive == \A t, u \in Threads : t # u => Serves[t] \cap Serves[u] = {}

(* Past the first loop, up to writing the slot's name.                     *)
Looking == {"grab", "claim", "name"} \cup Stealing

(* A thread has seen locked the slots its second loop has passed.          *)
AllTaken ==
  \A t \in Threads :
    /\ pc[t] = "grab" => \A s \in Slots : s < ix[t] => l[s]
    /\ pc[t] \in {"name"} \cup Stealing => \A s \in Slots : l[s]

(* No slot passed by the first loop names the VM asked for.                *)
NotNamed ==
  \A t \in Threads :
    /\ pc[t] \in {"remount"} \cup Looking => req[t] \in Serves[t]
    /\ pc[t] = "remount" => \A s \in Slots : s < ix[t] => vmi[s] # req[t]
    /\ pc[t] \in Looking => \A s \in Slots : vmi[s] # req[t]

(* A locked slot has a name, or a thread about to write one.               *)
TakenOwned ==
  \A s \in Slots :
    l[s] => vmi[s] # NoVM \/ \E t \in Threads : pc[t] = "claim" /\ ix[t] = s

SearchInv == NotNamed /\ TakenOwned /\ OneSlotPerVm

(* A step of t moves no other thread.                                      *)
OthersStay(t) ==
  \A u \in Threads \ {t} :
    pc'[u] = pc[u] /\ req'[u] = req[u] /\ ix'[u] = ix[u]

----------------------------------------------------------------------------
(* Steps outside the search: they neither lock nor name a slot.            *)

Elsewhere(t) ==
  \/ RemountHit(t) \/ RemountLoad(t) \/ RemountStore(t)
  \/ SyncLock(t) \/ DoSync(t) \/ Connect(t) \/ PauseForMount(t) \/ MountFs(t)
  \/ LruUnlock(t) \/ Return(t)
  \/ ReleaseLoad(t) \/ ReleaseStore(t) \/ ReleaseResume(t)
  \/ GetVmiLock(t) \/ RelVmiLock(t) \/ DoSyncStuck(t)
  \/ \E v \in VMs : UnmountDisk(t, v)

LEMMA ElsewhereSteps ==
  ASSUME TypeOK, NEW t \in Threads, Elsewhere(t)
  PROVE  /\ UNCHANGED <<vmi, l>> /\ OthersStay(t)
         /\ pc[t] # "claim" /\ pc'[t] \notin {"remount"} \cup Looking
<1> USE DEF TypeOK, LocalTypes, OthersStay, Looking, Stealing, Goto, Leave
<1>1. CASE RemountHit(t)     BY <1>1 DEF RemountHit
<1>2. CASE RemountLoad(t)    BY <1>2 DEF RemountLoad
<1>3. CASE RemountStore(t)   BY <1>3 DEF RemountStore
<1>4. CASE SyncLock(t)       BY <1>4 DEF SyncLock
<1>5. CASE DoSync(t)         BY <1>5 DEF DoSync
<1>6. CASE Connect(t)        BY <1>6 DEF Connect
<1>7. CASE PauseForMount(t)  BY <1>7 DEF PauseForMount
<1>8. CASE MountFs(t)        BY <1>8 DEF MountFs
<1>9. CASE LruUnlock(t)      BY <1>9 DEF LruUnlock
<1>10. CASE Return(t)        BY <1>10 DEF Return
<1>11. CASE ReleaseLoad(t)   BY <1>11 DEF ReleaseLoad
<1>12. CASE ReleaseStore(t)  BY <1>12 DEF ReleaseStore
<1>13. CASE ReleaseResume(t) BY <1>13 DEF ReleaseResume
<1>14. CASE GetVmiLock(t)    BY <1>14 DEF GetVmiLock
<1>15. CASE RelVmiLock(t)    BY <1>15 DEF RelVmiLock
<1>16. ASSUME NEW v \in VMs, UnmountDisk(t, v)
       PROVE  /\ UNCHANGED <<vmi, l>> /\ OthersStay(t)
              /\ pc[t] # "claim" /\ pc'[t] \notin {"remount"} \cup Looking
  BY <1>16 DEF UnmountDisk
<1>17. CASE DoSyncStuck(t)   BY <1>17 DEF DoSyncStuck
<1> QED
  BY <1>1, <1>2, <1>3, <1>4, <1>5, <1>6, <1>7, <1>8, <1>9, <1>10, <1>11,
     <1>12, <1>13, <1>14, <1>15, <1>16, <1>17 DEF Elsewhere

(* Steps that lead a thief to its slot.                                    *)
Thieving(t) ==
  \/ GetName(t) \/ LruLock(t) \/ LruAge(t) \/ LruWeigh(t) \/ LruSleep(t)
  \/ LruPick(t) \/ EvictUmount(t) \/ EvictResume(t) \/ Disconnect(t)

LEMMA ThievingSteps ==
  ASSUME TypeOK, NEW t \in Threads, Thieving(t)
  PROVE  /\ UNCHANGED <<vmi, l, req>> /\ OthersStay(t)
         /\ pc[t] \in {"name"} \cup Stealing
         /\ pc'[t] \in {"claim"} \cup Stealing
<1> USE DEF TypeOK, LocalTypes, OthersStay, Stealing, Goto
<1>1. CASE GetName(t)     BY <1>1 DEF GetName
<1>2. CASE LruLock(t)     BY <1>2 DEF LruLock
<1>3. CASE LruAge(t)      BY <1>3 DEF LruAge
<1>4. CASE LruWeigh(t)    BY <1>4 DEF LruWeigh
<1>5. CASE LruSleep(t)    BY <1>5 DEF LruSleep
<1>6. CASE LruPick(t)     BY <1>6 DEF LruPick
<1>7. CASE EvictUmount(t) BY <1>7 DEF EvictUmount
<1>8. CASE EvictResume(t) BY <1>8 DEF EvictResume
<1>9. CASE Disconnect(t)  BY <1>9 DEF Disconnect
<1> QED
  BY <1>1, <1>2, <1>3, <1>4, <1>5, <1>6, <1>7, <1>8, <1>9 DEF Thieving

(* The steps that are left: those of the two loops, and the process.       *)
LEMMA StepKinds ==
  ASSUME TypeOK, Next
  PROVE  \/ \E t \in Threads :
              \/ Elsewhere(t) \/ Thieving(t)
              \/ \E v \in VMs : MountDisk(t, v)
              \/ RemountMiss(t) \/ RemountEnd(t)
              \/ GrabMiss(t) \/ GrabSlot(t) \/ GrabEnd(t) \/ Claim(t)
         \/ ProcessEnds
         \/ (\A t \in Threads : pc'[t] = "idle") /\ UNCHANGED <<vmi, l>>
                                                 /\ Restart
         \/ UNCHANGED <<pc, req, ix, vmi, l>>
<1>1. CASE \E t \in Threads : Step(t) \/ Call(t)
  BY <1>1 DEF Step, Call, Elsewhere, Thieving, ConnectFails
<1>2. CASE Shutdown
  BY <1>2 DEF Shutdown
<1>3. CASE \E t \in Threads : ChildReturns(t) \/ DoSyncStuck(t) \/ DoSyncWaits(t)
  BY <1>3 DEF ChildReturns, DoSyncWaits, Elsewhere
<1>4. CASE Restart
  BY <1>4 DEF Restart
<1>5. CASE Tick
  BY <1>5 DEF Tick
<1>6. CASE Ended
  BY <1>6 DEF Ended
<1> QED
  BY <1>1, <1>2, <1>3, <1>4, <1>5, <1>6 DEF Next

----------------------------------------------------------------------------
(* Stealing is the last resort. *)

LEMMA TakenStep ==
  ASSUME TypeOK, AllTaken, [Next]_vars
  PROVE  AllTaken'
<1> USE ConstantsAssumption DEF TypeOK, LocalTypes, AllTaken, Stealing
<1>1. ASSUME NEW t \in Threads, Elsewhere(t) PROVE AllTaken'
  BY <1>1, ElsewhereSteps DEF OthersStay, Looking
<1>2. ASSUME NEW t \in Threads, Thieving(t) PROVE AllTaken'
  BY <1>2, ThievingSteps DEF OthersStay
<1>3. ASSUME NEW t \in Threads, NEW v \in VMs, MountDisk(t, v) PROVE AllTaken'
  BY <1>3 DEF MountDisk, Goto
<1>4. ASSUME NEW t \in Threads, RemountMiss(t) PROVE AllTaken'
  BY <1>4 DEF RemountMiss
<1>5. ASSUME NEW t \in Threads, RemountEnd(t) PROVE AllTaken'
  BY <1>5 DEF RemountEnd, Goto, Slots
<1>6. ASSUME NEW t \in Threads, GrabMiss(t) PROVE AllTaken'
  BY <1>6 DEF GrabMiss, Slots
<1>7. ASSUME NEW t \in Threads, GrabSlot(t) PROVE AllTaken'
  BY <1>7 DEF GrabSlot, Goto, SlotTypes
<1>8. ASSUME NEW t \in Threads, GrabEnd(t) PROVE AllTaken'
  BY <1>8 DEF GrabEnd, Goto, Slots
<1>9. ASSUME NEW t \in Threads, Claim(t) PROVE AllTaken'
  BY <1>9 DEF Claim, Goto
<1>10. CASE ProcessEnds
  BY <1>10 DEF ProcessEnds
<1>11. CASE \A t \in Threads : pc'[t] = "idle"
  BY <1>11
<1>12. CASE UNCHANGED <<pc, req, ix, vmi, l>>
  BY <1>12
<1> QED
  BY <1>1, <1>2, <1>3, <1>4, <1>5, <1>6, <1>7, <1>8, <1>9, <1>10, <1>11,
     <1>12, StepKinds

(* request_mount reaches the LRU loop (syncmount.cc 604-648) only when     *)
(* every slot has been handed out once, whatever the other threads do in   *)
(* the meantime: no slot is stolen while one has never been used.          *)
THEOREM StealIsLastResort == Spec => []AllSlotsLockedBeforeSteal
<1>1. Init => AllTaken
  BY DEF Init, AllTaken, Stealing
<1>2. TypeOK /\ AllTaken /\ [Next]_vars => AllTaken'
  BY TakenStep
<1>3. AllTaken => AllSlotsLockedBeforeSteal
  BY DEF AllTaken, AllSlotsLockedBeforeSteal
<1> QED
  BY <1>1, <1>2, <1>3, TypeCorrect, PTL DEF Spec

----------------------------------------------------------------------------
(* A VM has one slot. *)

LEMMA SearchStep ==
  ASSUME Exclusive, TypeOK, SearchInv, [Next]_vars
  PROVE  SearchInv'
<1> USE ConstantsAssumption
    DEF TypeOK, LocalTypes, SearchInv, NotNamed, TakenOwned, OneSlotPerVm,
        Looking, Stealing
<1>1. ASSUME NEW t \in Threads, Elsewhere(t) PROVE SearchInv'
  BY <1>1, ElsewhereSteps DEF OthersStay
<1>2. ASSUME NEW t \in Threads, Thieving(t) PROVE SearchInv'
  BY <1>2, ThievingSteps DEF OthersStay
<1>3. ASSUME NEW t \in Threads, NEW v \in VMs, MountDisk(t, v) PROVE SearchInv'
  BY <1>3 DEF MountDisk, Goto, Slots, CallOK, Outside
<1>4. ASSUME NEW t \in Threads, RemountMiss(t) PROVE SearchInv'
  BY <1>4 DEF RemountMiss, Slots
<1>5. ASSUME NEW t \in Threads, RemountEnd(t) PROVE SearchInv'
  BY <1>5 DEF RemountEnd, Goto, Slots
<1>6. ASSUME NEW t \in Threads, GrabMiss(t) PROVE SearchInv'
  BY <1>6 DEF GrabMiss, Slots
<1>7. ASSUME NEW t \in Threads, GrabSlot(t) PROVE SearchInv'
  BY <1>7 DEF GrabSlot, Goto, SlotTypes
<1>8. ASSUME NEW t \in Threads, GrabEnd(t) PROVE SearchInv'
  BY <1>8 DEF GrabEnd, Goto
<1>9. ASSUME NEW t \in Threads, Claim(t) PROVE SearchInv'
  <2>1. ix[t] \in Slots /\ req[t] \in VMs /\ req[t] # NoVM
    BY <1>9 DEF Claim, Goto, CallOK, Outside, Searching
  <2>2. \A s \in Slots : vmi'[s] = IF s = ix[t] THEN req[t] ELSE vmi[s]
    BY <1>9 DEF Claim, SlotTypes
  <2>3. OthersStay(t) /\ pc'[t] = "synclock" /\ l' = l /\ pc[t] = "claim"
    BY <1>9 DEF Claim, Goto, OthersStay
  <2>4. NotNamed'
    BY <2>1, <2>2, <2>3 DEF OthersStay, Exclusive
  <2>5. TakenOwned'
    BY <2>1, <2>2, <2>3 DEF OthersStay
  <2>6. OneSlotPerVm'
    BY <2>1, <2>2, <2>3
  <2> QED
    BY <2>4, <2>5, <2>6
<1>10. CASE ProcessEnds
  BY <1>10 DEF ProcessEnds
<1>11. CASE (\A t \in Threads : pc'[t] = "idle") /\ UNCHANGED <<vmi, l>> /\ Restart
  BY <1>11 DEF Restart
<1>12. CASE UNCHANGED <<pc, req, ix, vmi, l>>
  BY <1>12
<1> QED
  BY <1>1, <1>2, <1>3, <1>4, <1>5, <1>6, <1>7, <1>8, <1>9, <1>10, <1>11,
     <1>12, StepKinds

LEMMA SearchInit == Init => SearchInv
  BY DEF Init, SearchInv, NotNamed, TakenOwned, OneSlotPerVm, Looking, Stealing

(* Where no two threads mount the same VM, no two slots ever name one:     *)
(* the test of syncmount.cc 561 and the store of 578 or 641, with no lock  *)
(* between them, cannot put a VM in the table twice.                       *)
THEOREM OneSlotEach ==
  ASSUME Exclusive
  PROVE  Spec => []OneSlotPerVm
<1>1. Init => SearchInv
  BY SearchInit
<1>2. TypeOK /\ SearchInv /\ [Next]_vars => SearchInv'
  BY SearchStep
<1>3. SearchInv => OneSlotPerVm
  BY DEF SearchInv
<1> QED
  BY <1>1, <1>2, <1>3, TypeCorrect, PTL DEF Spec

----------------------------------------------------------------------------
(* With a slot per VM nobody steals. *)

(* A function that keeps elements apart maps into a set at least as large. *)
LEMMA KeepsApart ==
  ASSUME NEW S, NEW T, IsFiniteSet(S), IsFiniteSet(T), NEW f \in [S -> T],
         \A r, s \in S : r # s => f[r] # f[s]
  PROVE  ~ (Cardinality(T) < Cardinality(S))
  BY FS_PigeonHole

(* Every slot is locked and a thread still looks for one: map a slot to    *)
(* the VM it names or is about to name.  No two slots share a VM and none  *)
(* has the VM of the thread that is looking, so there are fewer slots than *)
(* VMs.                                                                    *)
LEMMA FewerSlotsThanVMs ==
  ASSUME Exclusive, TypeOK, AllTaken, SearchInv, IsFiniteSet(VMs),
         NEW t \in Threads, pc[t] \in {"name"} \cup Stealing
  PROVE  DEVMAX < Cardinality(VMs)
<1> DEFINE Claimer(s) == CHOOSE u \in Threads : pc[u] = "claim" /\ ix[u] = s
           Owner(s)   == IF vmi[s] # NoVM THEN vmi[s] ELSE req[Claimer(s)]
           f          == [s \in Slots |-> Owner(s)]
           Rest       == VMs \ {req[t]}
<1> USE ConstantsAssumption DEF TypeOK
<1>1. req[t] \in VMs /\ \A s \in Slots : vmi[s] # req[t]
  BY DEF SearchInv, NotNamed, Looking, CallOK, Outside, Stealing
<1>2. ASSUME NEW s \in Slots, vmi[s] = NoVM
      PROVE  /\ Claimer(s) \in Threads
             /\ pc[Claimer(s)] = "claim" /\ ix[Claimer(s)] = s
  <2>1. l[s]
    BY DEF AllTaken
  <2>2. \E u \in Threads : pc[u] = "claim" /\ ix[u] = s
    BY <2>1, <1>2 DEF SearchInv, TakenOwned
  <2> QED
    BY <2>2
<1>3. ASSUME NEW u \in Threads, pc[u] = "claim"
      PROVE  /\ req[u] \in VMs /\ req[u] \in Serves[u]
             /\ \A s \in Slots : vmi[s] # req[u]
  BY <1>3 DEF SearchInv, NotNamed, Looking, CallOK, Outside
<1>4. ASSUME NEW u \in Threads, pc[u] = "claim"
      PROVE  req[u] # req[t]
  <2>1. u # t
    BY <1>4 DEF Stealing
  <2>2. req[t] \in Serves[t]
    BY DEF SearchInv, NotNamed, Looking
  <2> QED
    BY <1>3, <1>4, <2>1, <2>2 DEF Exclusive
<1>5. f \in [Slots -> Rest]
  <2> SUFFICES ASSUME NEW s \in Slots PROVE Owner(s) \in Rest
    OBVIOUS
  <2>1. CASE vmi[s] # NoVM
    BY <2>1, <1>1 DEF SlotTypes
  <2>2. CASE vmi[s] = NoVM
    BY <2>2, <1>2, <1>3, <1>4
  <2> QED
    BY <2>1, <2>2
<1>6. ASSUME NEW r \in Slots, NEW s \in Slots, r # s PROVE f[r] # f[s]
  <2>1. CASE vmi[r] # NoVM /\ vmi[s] # NoVM
    BY <2>1, <1>6 DEF SearchInv, OneSlotPerVm
  <2>2. CASE vmi[r] # NoVM /\ vmi[s] = NoVM
    BY <2>2, <1>2, <1>3
  <2>3. CASE vmi[r] = NoVM /\ vmi[s] # NoVM
    BY <2>3, <1>2, <1>3
  <2>4. CASE vmi[r] = NoVM /\ vmi[s] = NoVM
    <3>1. Claimer(r) # Claimer(s)
      BY <2>4, <1>2, <1>6
    <3> QED
      BY <3>1, <2>4, <1>2, <1>3 DEF Exclusive
  <2> QED
    BY <2>1, <2>2, <2>3, <2>4
<1>7. IsFiniteSet(Slots) /\ Cardinality(Slots) = DEVMAX
  BY FS_Interval DEF Slots
<1>8. /\ IsFiniteSet(Rest) /\ Cardinality(Rest) = Cardinality(VMs) - 1
      /\ Cardinality(VMs) \in Nat /\ Cardinality(Rest) \in Nat
  BY <1>1, FS_RemoveElement, FS_CardinalityType
<1>9. ~ (Cardinality(Rest) < Cardinality(Slots))
  <2> HIDE DEF f, Rest
  <2> QED
    BY <1>5, <1>6, <1>7, <1>8, KeepsApart
<1> QED
  BY <1>7, <1>8, <1>9

(* With one thread per VM and no more VMs than devices, request_mount      *)
(* never gets past its second loop (syncmount.cc 572-586): no thread waits *)
(* for a slot, and no disk is taken from under a reader.                   *)
THEOREM EnoughSlotsNoSteal ==
  ASSUME Exclusive, IsFiniteSet(VMs), Cardinality(VMs) <= DEVMAX
  PROVE  Spec => []NeverSteals
<1>1. Init => AllTaken /\ SearchInv
  BY SearchInit DEF Init, AllTaken, Stealing
<1>2. TypeOK /\ AllTaken /\ SearchInv /\ [Next]_vars => AllTaken' /\ SearchInv'
  BY TakenStep, SearchStep
<1>3. TypeOK /\ AllTaken /\ SearchInv => NeverSteals
  <2> SUFFICES ASSUME TypeOK, AllTaken, SearchInv,
                      NEW t \in Threads, pc[t] \in Stealing
               PROVE  FALSE
    BY DEF NeverSteals
  <2>1. DEVMAX < Cardinality(VMs)
    BY FewerSlotsThanVMs
  <2>2. Cardinality(VMs) \in Nat /\ DEVMAX \in Nat
    BY FS_CardinalityType, ConstantsAssumption
  <2> QED
    BY <2>1, <2>2
<1> QED
  BY <1>1, <1>2, <1>3, TypeCorrect, PTL DEF Spec

----------------------------------------------------------------------------
(* LibVMI in one thread at a time. *)

InVmi == {"sync", "stuck", "vmi"}

(* A thread in LibVMI has vmi_lock.                                        *)
LockKept == \A t \in Threads : pc[t] \in InVmi => vmi_lock = t

(* The steps that take or give back vmi_lock, or keep it.                  *)
Locking(t) == SyncLock(t) \/ DoSync(t) \/ GetVmiLock(t) \/ RelVmiLock(t)

(* The others leave it to whoever has it, and do not enter LibVMI.         *)
LEMMA LockUntouched ==
  ASSUME TypeOK, NEW t \in Threads, Step(t) \/ Call(t), ~Locking(t),
         ~ConnectFails(t)
  PROVE  /\ vmi_lock' = vmi_lock /\ pc'[t] \notin InVmi
         /\ \A u \in Threads \ {t} : pc'[u] = pc[u]
<1> USE DEF TypeOK, LocalTypes, InVmi, Goto
<1>1. CASE RemountMiss(t) \/ RemountHit(t) \/ RemountLoad(t)
           \/ RemountStore(t) \/ RemountEnd(t)
  BY <1>1 DEF RemountMiss, RemountHit, RemountLoad, RemountStore, RemountEnd
<1>2. CASE GrabMiss(t) \/ GrabSlot(t) \/ GrabEnd(t) \/ Claim(t)
  BY <1>2 DEF GrabMiss, GrabSlot, GrabEnd, Claim
<1>3. CASE GetName(t) \/ LruLock(t) \/ LruAge(t) \/ LruWeigh(t)
           \/ LruSleep(t) \/ LruPick(t)
  BY <1>3 DEF GetName, LruLock, LruAge, LruWeigh, LruSleep, LruPick
<1>4. CASE EvictUmount(t) \/ EvictResume(t) \/ Disconnect(t)
  BY <1>4 DEF EvictUmount, EvictResume, Disconnect
<1>5. CASE Connect(t) \/ PauseForMount(t) \/ MountFs(t) \/ LruUnlock(t)
           \/ Return(t)
  BY <1>5 DEF Connect, PauseForMount, MountFs, LruUnlock, Return
<1>6. CASE ReleaseLoad(t) \/ ReleaseStore(t) \/ ReleaseResume(t)
  BY <1>6 DEF ReleaseLoad, ReleaseStore, ReleaseResume
<1>7. ASSUME NEW v \in VMs, MountDisk(t, v) \/ UnmountDisk(t, v)
      PROVE  /\ vmi_lock' = vmi_lock /\ pc'[t] \notin InVmi
             /\ \A u \in Threads \ {t} : pc'[u] = pc[u]
  BY <1>7 DEF MountDisk, UnmountDisk
<1> QED
  BY <1>1, <1>2, <1>3, <1>4, <1>5, <1>6, <1>7 DEF Step, Call, Locking

LEMMA LockStep ==
  ASSUME TypeOK, LockKept, [Next]_vars
  PROVE  LockKept'
<1> USE ConstantsAssumption DEF TypeOK, LocalTypes, LockKept, InVmi
<1>1. ASSUME NEW t \in Threads, Step(t) \/ Call(t), ~Locking(t),
             ~ConnectFails(t)
      PROVE  LockKept'
  BY <1>1, LockUntouched
<1>2. ASSUME NEW t \in Threads, Locking(t) PROVE LockKept'
  <2>1. CASE SyncLock(t) \/ GetVmiLock(t)
    BY <2>1 DEF SyncLock, GetVmiLock, Goto
  <2>2. CASE DoSync(t) \/ RelVmiLock(t)
    BY <2>2 DEF DoSync, RelVmiLock, Goto
  <2> QED
    BY <1>2, <2>1, <2>2 DEF Locking
<1>3. CASE ProcessEnds
  BY <1>3 DEF ProcessEnds
<1>4. CASE Restart
  BY <1>4 DEF Restart
<1>5. CASE Tick \/ UNCHANGED vars
  BY <1>5 DEF Tick
<1>6. ASSUME NEW t \in Threads, ChildReturns(t) PROVE LockKept'
  BY <1>6 DEF ChildReturns
<1>7. ASSUME NEW t \in Threads, DoSyncStuck(t) PROVE LockKept'
  BY <1>7 DEF DoSyncStuck, Goto
<1> QED
  BY <1>1, <1>2, <1>3, <1>4, <1>5, <1>6, <1>7
  DEF Next, ConnectFails, Shutdown, DoSyncWaits, Ended

(* LibVMI uses globals (libhyperagent.h 73-75): however the calls of any   *)
(* number of threads interleave, one of them at a time runs do_sync        *)
(* (679-686) or has what get_vmi_lock gave it, also when a failing         *)
(* qemu-nbd ends the process in between.                                   *)
THEOREM VmiInOneThread == Spec => []VmiSerial
<1>1. Spec => []TypeOK
  BY TypeCorrect, PTL
<1>2. Init => LockKept
  BY DEF Init, LockKept, InVmi
<1>3. TypeOK /\ LockKept /\ [Next]_vars => LockKept'
  BY LockStep
<1>4. LockKept => VmiSerial
  BY DEF LockKept, VmiSerial, UsesVmi, InVmi
<1> QED
  BY <1>1, <1>2, <1>3, <1>4, PTL DEF Spec

----------------------------------------------------------------------------
(* The LRU loop's choice, where one thread uses the library.               *)


(* Before the loop nothing is nominated yet.                               *)
Before == {"idle", "remount", "hit", "bump", "grab", "name", "exited", "vmi",
           "drop", "dropped", "resume"}

(* The thread is in the loop, and c is the time of its pass.               *)
InPass == {"scan", "weigh"}

(* The slot nominated, if any, is idle and was max old at time c.          *)
Nominated(t, c) ==
  LET best == lru[t] IN
  /\ best.max >= 0
  /\ best.max > 0 => /\ refcount[best.maxix] = 0
                     /\ best.max <= c - last_used[best.maxix]

(* No idle slot this pass has weighed is older than the one nominated.     *)
Weighed(t) ==
  \A s \in Slots :
    s < ix[t] /\ refcount[s] = 0 => lru[t].c - last_used[s] <= lru[t].max

LruInv ==
  \A t \in Threads :
    /\ pc[t] \in Before => lru[t] = NoScan
    /\ pc[t] = "lrulock" => Nominated(t, now)
    /\ pc[t] \in InPass =>
         lru[t].c <= now /\ Nominated(t, lru[t].c) /\ Weighed(t)
    /\ pc[t] = "weigh" => lru[t].d = lru[t].c - last_used[ix[t]]

LruSafe == LruInv /\ EvictsLeastRecent

----------------------------------------------------------------------------
(* Steps outside the loop, with the thread's own scan untouched.           *)

LEMMA OutsideLoop ==
  ASSUME TypeOK, LruInv, NEW t \in Threads, Threads = {t},
         pc'[t] \notin {"lrulock", "scan", "weigh", "evict"},
         pc'[t] \in Before => pc[t] \in Before /\ lru' = lru
  PROVE  LruInv' /\ EvictsLeastRecent'
  BY DEF LruInv, InPass, EvictsLeastRecent

LEMMA ReturnClears ==
  ASSUME TypeOK, LruInv, NEW t \in Threads, Threads = {t}, Leave(t),
         pc'[t] = "idle"
  PROVE  LruInv' /\ EvictsLeastRecent'
<1>1. lru'[t] = NoScan
  BY DEF Leave, TypeOK, LocalTypes
<1> QED
  BY <1>1 DEF LruInv, InPass, EvictsLeastRecent

(* The first pass begins, or the next; time has passed since the last.     *)
LEMMA PassBegins ==
  ASSUME TypeOK, LruInv, NEW t \in Threads, Threads = {t}, LruLock(t)
  PROVE  LruInv' /\ EvictsLeastRecent'
<1> USE ConstantsAssumption DEF TypeOK, LocalTypes, SlotTypes, HostTypes, Goto
<1>1. pc[t] = "lrulock" /\ pc' = [pc EXCEPT ![t] = "scan"]
      /\ lru' = [lru EXCEPT ![t].c = now] /\ ix' = [ix EXCEPT ![t] = 0]
      /\ UNCHANGED <<refcount, last_used, now>>
  BY DEF LruLock
<1>2. lru'[t].c = now /\ lru'[t].max = lru[t].max /\ lru'[t].maxix = lru[t].maxix
  BY <1>1 DEF Scans
<1>3. Nominated(t, now)
  BY <1>1 DEF LruInv
<1>4. Nominated(t, lru[t].c)'
  BY <1>1, <1>2, <1>3 DEF Nominated
<1>5. Weighed(t)'
  BY <1>1 DEF Weighed, Slots
<1>6. pc'[t] = "scan" /\ lru'[t].c <= now'
  BY <1>1, <1>2
<1> QED
  BY <1>4, <1>5, <1>6 DEF LruInv, Before, InPass, EvictsLeastRecent

LEMMA SlotAged ==
  ASSUME TypeOK, LruInv, NEW t \in Threads, Threads = {t}, LruAge(t)
  PROVE  LruInv' /\ EvictsLeastRecent'
<1> USE ConstantsAssumption DEF TypeOK, LocalTypes, SlotTypes, HostTypes, Goto
<1>1. /\ pc[t] = "scan" /\ pc' = [pc EXCEPT ![t] = "weigh"]
      /\ lru' = [lru EXCEPT ![t].d = lru[t].c - last_used[ix[t]]]
      /\ UNCHANGED <<ix, refcount, last_used, now>>
  BY DEF LruAge
<1>2. /\ lru'[t].c = lru[t].c /\ lru'[t].max = lru[t].max
      /\ lru'[t].maxix = lru[t].maxix
      /\ lru'[t].d = lru[t].c - last_used[ix[t]]
  BY <1>1 DEF Scans
<1>3. Nominated(t, lru[t].c) /\ Weighed(t) /\ lru[t].c <= now
  BY <1>1 DEF LruInv, InPass
<1>4. Nominated(t, lru[t].c)'
  BY <1>1, <1>2, <1>3 DEF Nominated
<1>5. Weighed(t)'
  BY <1>1, <1>2, <1>3 DEF Weighed
<1>6. pc'[t] = "weigh"
  BY <1>1
<1> QED
  BY <1>1, <1>2, <1>3, <1>4, <1>5, <1>6
  DEF LruInv, Before, InPass, EvictsLeastRecent

LEMMA SlotWeighed ==
  ASSUME TypeOK, LruInv, NEW t \in Threads, Threads = {t}, LruWeigh(t)
  PROVE  LruInv' /\ EvictsLeastRecent'
<1> USE ConstantsAssumption DEF TypeOK, LocalTypes, SlotTypes, HostTypes, Goto
<1> DEFINE s == ix[t]
           scan == lru[t]
<1>1. /\ pc[t] = "weigh" /\ pc' = [pc EXCEPT ![t] = "scan"]
      /\ lru' = [lru EXCEPT ![t] = Nominate(scan, s)]
      /\ ix' = [ix EXCEPT ![t] = s + 1]
      /\ UNCHANGED <<refcount, last_used, now>>
  BY DEF LruWeigh
<1>2. s \in Slots /\ scan \in Scans
  BY <1>1 DEF CallOK, Outside, Searching
<1>3. /\ Nominated(t, scan.c) /\ Weighed(t) /\ scan.c <= now
      /\ scan.d = scan.c - last_used[s]
  BY <1>1 DEF LruInv, InPass
<1>4. lru'[t] = Nominate(scan, s) /\ ix'[t] = s + 1 /\ pc'[t] = "scan"
  BY <1>1, <1>2 DEF Slots
<1>5. lru'[t].c = scan.c
  BY <1>2, <1>4 DEF Nominate, Scans
<1>6. CASE refcount[s] = 0 /\ scan.max < scan.d
  <2>1. lru'[t].max = scan.d /\ lru'[t].maxix = s
    BY <1>2, <1>4, <1>6 DEF Nominate, Scans
  <2>2. Nominated(t, lru[t].c)'
    BY <1>1, <1>2, <1>3, <1>5, <1>6, <2>1 DEF Nominated, Scans
  <2>3. Weighed(t)'
    <3>1. ASSUME NEW r \in Slots, r < s + 1, refcount[r] = 0
          PROVE  scan.c - last_used[r] <= scan.d
      <4>1. CASE r = s
        BY <1>2, <1>3, <4>1 DEF Scans
      <4>2. CASE r < s
        <5>1. scan.c - last_used[r] <= scan.max
          BY <1>3, <3>1, <4>2 DEF Weighed
        <5> QED
          BY <1>2, <1>6, <3>1, <5>1 DEF Scans
      <4> QED
        BY <1>2, <3>1, <4>1, <4>2 DEF Slots
    <3> QED
      BY <1>1, <1>4, <1>5, <2>1, <3>1 DEF Weighed
  <2> QED
    BY <1>1, <1>3, <1>4, <1>5, <2>2, <2>3
    DEF LruInv, Before, InPass, EvictsLeastRecent
<1>7. CASE ~(refcount[s] = 0 /\ scan.max < scan.d)
  <2>1. lru'[t] = scan
    BY <1>4, <1>7 DEF Nominate
  <2>2. Nominated(t, lru[t].c)'
    BY <1>1, <1>2, <1>3, <2>1 DEF Nominated
  <2>3. Weighed(t)'
    <3>1. ASSUME NEW r \in Slots, r < s + 1, refcount[r] = 0
          PROVE  scan.c - last_used[r] <= scan.max
      <4>1. CASE r = s
        <5>1. scan.d <= scan.max
          BY <1>2, <1>7, <3>1, <4>1 DEF Scans
        <5> QED
          BY <1>3, <4>1, <5>1
      <4>2. CASE r < s
        BY <1>3, <3>1, <4>2 DEF Weighed
      <4> QED
        BY <1>2, <3>1, <4>1, <4>2 DEF Slots
    <3> QED
      BY <1>1, <1>4, <2>1, <3>1 DEF Weighed
  <2> QED
    BY <1>1, <1>3, <1>4, <1>5, <2>2, <2>3
    DEF LruInv, Before, InPass, EvictsLeastRecent
<1> QED
  BY <1>6, <1>7

(* The pass ends: without a slot that is old enough, or with the oldest.   *)
LEMMA PassEnds ==
  ASSUME TypeOK, LruInv, NEW t \in Threads, Threads = {t},
         LruSleep(t) \/ LruPick(t)
  PROVE  LruInv' /\ EvictsLeastRecent'
<1> USE ConstantsAssumption DEF TypeOK, LocalTypes, SlotTypes, HostTypes, Goto
<1>1. /\ pc[t] = "scan" /\ ix[t] = DEVMAX
      /\ UNCHANGED <<lru, refcount, last_used, now>>
  BY DEF LruSleep, LruPick
<1>2. lru[t] \in Scans /\ Nominated(t, lru[t].c) /\ Weighed(t) /\ lru[t].c <= now
  BY <1>1 DEF LruInv, InPass
<1>3. CASE LruSleep(t)
  <2>1. pc'[t] = "lrulock"
    BY <1>3 DEF LruSleep
  <2>2. Nominated(t, now)'
    BY <1>1, <1>2 DEF Nominated, Scans
  <2> QED
    BY <2>1, <2>2 DEF LruInv, Before, InPass, EvictsLeastRecent
<1>4. CASE LruPick(t)
  <2>1. pc'[t] = "evict" /\ ix'[t] = lru[t].maxix /\ lru[t].max >= MinIdle
    BY <1>4 DEF LruPick, OldEnough
  <2>2. lru[t].max > 0 /\ lru[t].maxix \in Slots
    BY <1>2, <2>1 DEF Scans
  <2>3. /\ refcount[lru[t].maxix] = 0
        /\ lru[t].max <= lru[t].c - last_used[lru[t].maxix]
    BY <1>2, <2>2 DEF Nominated
  <2>4. \A s \in Slots : refcount[s] = 0 =>
          lru[t].c - last_used[s] <= lru[t].max
    BY <1>1, <1>2 DEF Weighed, Slots
  <2>5. \A s \in Slots : refcount[s] = 0 =>
          last_used[lru[t].maxix] <= last_used[s]
    BY <1>2, <2>2, <2>3, <2>4 DEF Scans
  <2>6. lru[t].c - last_used[lru[t].maxix] >= MinIdle
    BY <1>2, <2>1, <2>2, <2>3 DEF Scans
  <2> QED
    BY <1>1, <2>1, <2>3, <2>5, <2>6
    DEF LruInv, Before, InPass, EvictsLeastRecent
<1> QED
  BY <1>3, <1>4

----------------------------------------------------------------------------
(* Steps outside the loop. *)

(* They come before it, or after it, and never lead into it.               *)
Apart(t) ==
  \/ RemountMiss(t) \/ RemountHit(t) \/ RemountLoad(t) \/ RemountEnd(t)
  \/ GrabMiss(t) \/ GrabSlot(t) \/ Claim(t)
  \/ EvictUmount(t) \/ EvictResume(t) \/ Disconnect(t) \/ SyncLock(t)
  \/ DoSync(t) \/ Connect(t) \/ PauseForMount(t) \/ MountFs(t)
  \/ RemountStore(t) \/ LruUnlock(t) \/ ReleaseLoad(t) \/ ReleaseStore(t)
  \/ GetVmiLock(t) \/ RelVmiLock(t) \/ DoSyncStuck(t)
  \/ \E v \in VMs : MountDisk(t, v) \/ UnmountDisk(t, v)

LEMMA ApartSteps ==
  ASSUME TypeOK, NEW t \in Threads, Apart(t)
  PROVE  /\ pc'[t] \notin {"lrulock", "scan", "weigh", "evict"}
         /\ pc'[t] \in Before => pc[t] \in Before /\ lru' = lru
<1> USE DEF TypeOK, LocalTypes, Before, Goto
<1>1. CASE RemountMiss(t) \/ RemountHit(t) \/ RemountLoad(t) \/ RemountEnd(t)
           \/ RemountStore(t)
  BY <1>1 DEF RemountMiss, RemountHit, RemountLoad, RemountEnd, RemountStore
<1>2. CASE GrabMiss(t) \/ GrabSlot(t) \/ Claim(t)
  BY <1>2 DEF GrabMiss, GrabSlot, Claim
<1>3. CASE EvictUmount(t) \/ EvictResume(t) \/ Disconnect(t) \/ SyncLock(t)
  BY <1>3 DEF EvictUmount, EvictResume, Disconnect, SyncLock
<1>4. CASE DoSync(t) \/ Connect(t) \/ PauseForMount(t) \/ MountFs(t)
           \/ LruUnlock(t) \/ DoSyncStuck(t)
  BY <1>4 DEF DoSync, Connect, PauseForMount, MountFs, LruUnlock, DoSyncStuck
<1>5. CASE ReleaseLoad(t) \/ ReleaseStore(t) \/ GetVmiLock(t) \/ RelVmiLock(t)
  BY <1>5 DEF ReleaseLoad, ReleaseStore, GetVmiLock, RelVmiLock
<1>6. ASSUME NEW v \in VMs, MountDisk(t, v) \/ UnmountDisk(t, v)
      PROVE  /\ pc'[t] \notin {"lrulock", "scan", "weigh", "evict"}
             /\ pc'[t] \in Before => pc[t] \in Before /\ lru' = lru
  BY <1>6 DEF MountDisk, UnmountDisk
<1> QED
  BY <1>1, <1>2, <1>3, <1>4, <1>5, <1>6 DEF Apart

(* The loop is entered with nothing nominated.                             *)
LEMMA LoopEntered ==
  ASSUME TypeOK, LruInv, NEW t \in Threads, Threads = {t},
         GrabEnd(t) \/ GetName(t)
  PROVE  LruInv' /\ EvictsLeastRecent'
<1> USE DEF TypeOK, LocalTypes, Goto
<1>1. pc[t] \in Before /\ pc'[t] \in {"name", "lrulock"} /\ lru' = lru
  BY DEF GrabEnd, GetName, Before
<1>2. lru'[t] = NoScan
  BY <1>1 DEF LruInv
<1>3. Nominated(t, now)'
  BY <1>2 DEF Nominated, NoScan
<1> QED
  BY <1>1, <1>2, <1>3 DEF LruInv, InPass, EvictsLeastRecent

(* Time passes: a thread that sleeps has its nominee age with it.          *)
LEMMA TimePasses ==
  ASSUME TypeOK, LruInv, EvictsLeastRecent, NEW t \in Threads, Threads = {t},
         Tick
  PROVE  LruInv' /\ EvictsLeastRecent'
<1> USE DEF TypeOK, LocalTypes, SlotTypes, HostTypes
<1>1. now' = now + 1 /\ UNCHANGED <<pc, ix, lru, refcount, last_used>>
  BY DEF Tick
<1>2. EvictsLeastRecent'
  BY <1>1 DEF EvictsLeastRecent
<1>3. ASSUME pc[t] = "lrulock" PROVE Nominated(t, now)'
  BY <1>1, <1>3 DEF LruInv, Nominated, Scans
<1>4. ASSUME pc[t] \in InPass
      PROVE  lru[t].c <= now' /\ Nominated(t, lru[t].c)' /\ Weighed(t)'
  <2>1. lru[t].c <= now /\ Nominated(t, lru[t].c) /\ Weighed(t)
    BY <1>4 DEF LruInv
  <2>2. Nominated(t, lru[t].c)' /\ Weighed(t)'
    BY <1>1, <2>1 DEF Nominated, Weighed
  <2> QED
    BY <1>1, <2>1, <2>2 DEF Scans
<1> QED
  BY <1>1, <1>2, <1>3, <1>4 DEF LruInv

(* The life of the process.                                                *)
LEMMA ProcessLife ==
  ASSUME TypeOK, LruInv, EvictsLeastRecent, NEW t \in Threads, Threads = {t},
         ProcessEnds \/ Restart \/ ChildReturns(t) \/ UNCHANGED vars
  PROVE  LruInv' /\ EvictsLeastRecent'
<1> USE DEF TypeOK, LocalTypes, LruInv, InPass, Before, EvictsLeastRecent
<1>1. CASE ProcessEnds
  BY <1>1 DEF ProcessEnds
<1>2. CASE Restart
  BY <1>2 DEF Restart
<1>3. CASE ChildReturns(t)
  BY <1>3 DEF ChildReturns, Nominated, Weighed
<1>4. CASE UNCHANGED vars
  BY <1>4 DEF Nominated, Weighed
<1> QED
  BY <1>1, <1>2, <1>3, <1>4

LEMMA LruStep ==
  ASSUME TypeOK, LruSafe, NEW t \in Threads, Threads = {t}, [Next]_vars
  PROVE  LruSafe'
<1> USE DEF LruSafe
<1>1. CASE Apart(t)
  BY <1>1, ApartSteps, OutsideLoop
<1>2. CASE Return(t) \/ ReleaseResume(t)
  <2>1. Leave(t) /\ pc'[t] = "idle"
    BY <1>2 DEF Return, ReleaseResume, Goto, TypeOK, LocalTypes
  <2> QED
    BY <2>1, ReturnClears
<1>3. CASE LruLock(t) \/ LruAge(t) \/ LruWeigh(t) \/ LruSleep(t) \/ LruPick(t)
  BY <1>3, PassBegins, SlotAged, SlotWeighed, PassEnds
<1>4. CASE GrabEnd(t) \/ GetName(t)
  BY <1>4, LoopEntered
<1>5. CASE Tick
  BY <1>5, TimePasses
<1>6. CASE ProcessEnds \/ Restart \/ ChildReturns(t) \/ UNCHANGED vars
  BY <1>6, ProcessLife
<1>7. CASE Step(t)
  BY <1>1, <1>2, <1>3, <1>4, <1>6, <1>7 DEF Step, Apart, ConnectFails
<1>8. CASE Call(t) \/ DoSyncStuck(t)
  BY <1>1, <1>8 DEF Call, Apart
<1> QED
  BY <1>5, <1>6, <1>7, <1>8 DEF Next, Shutdown, DoSyncWaits, Ended

(* With one thread, the slot the LRU loop takes (syncmount.cc 604-635) is  *)
(* idle, was mounted before every other idle one, and at least MinIdle     *)
(* ago: however often the loop sleeps in between, with max and maxix kept  *)
(* from pass to pass, and whatever fails or restarts before.               *)
THEOREM LeastRecentEvicted ==
  ASSUME NEW t, Threads = {t}
  PROVE  Spec => []EvictsLeastRecent
<1>1. Init => LruSafe
  BY DEF Init, LruSafe, LruInv, InPass, EvictsLeastRecent
<1>2. TypeOK /\ LruSafe /\ [Next]_vars => LruSafe'
  BY LruStep
<1>3. LruSafe => EvictsLeastRecent
  BY DEF LruSafe
<1> QED
  BY <1>1, <1>2, <1>3, TypeCorrect, PTL DEF Spec
=============================================================================
