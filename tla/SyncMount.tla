------------------------------ MODULE SyncMount ------------------------------
(***************************************************************************)
(* The slot table of class syncmount (libhyperagent/syncmount.cc) and the  *)
(* two calls HAMain forwards to it, mount_disk and unmount_disk, run by    *)
(* any number of actuator threads.                                         *)
(*                                                                         *)
(* qemu-nbd offers DEVMAX devices.  A thread that wants to read the disk   *)
(* of a VM first looks for a slot that already shows it, then tries to     *)
(* lock a slot never used before, and then waits for a slot nobody has     *)
(* asked for in the last ten seconds and steals it.  Only the last part is *)
(* under the mutex lk; refcount, vmi and last_used are plain fields that   *)
(* every thread reads and writes without one.  So one action is one shared *)
(* access of one thread, one critical section of vmi_global_lock, or one   *)
(* shell command.  Stores that directly follow each other in the source,   *)
(* to fields no reader reads together, are one action.                     *)
(*                                                                         *)
(* What do_sync does inside the guest is the business of another module;   *)
(* here it is one critical section whose outcome is whether the guest's    *)
(* page cache was flushed, and the VM's pause count.                       *)
(***************************************************************************)
EXTENDS Integers, FiniteSets, SyncOutcome

CONSTANTS
  Threads,      \* the actuator threads of the hyperagent
  VMs,          \* one vmi_instance_t, one HAConfig and one disk per VM
  DEVMAX,       \* number of nbd devices (16 in the source)
  Serves,       \* the VMs each thread mounts
  MaxHold,      \* client discipline: mounts a thread holds at a time
  MinIdle,      \* the 10000 ms of the LRU test, in ticks of the clock
  MaxReq,       \* bound: calls each thread makes
  Unresolved,   \* VMs whose kernel lacks the symbols do_sync looks up
  MayFail,      \* what may fail: see Failures
  MaxBoot,      \* bound: starts of the process after the first
  NoVM, NoThread

Slots  == 0 .. DEVMAX - 1
NoSlot == -1

(* sync: a listen fails in do_sync, or the safety halt ends its loop;      *)
(* attach, connect, mount, umount: the command fails; exec: a client's     *)
(* forked child does not become another program and returns from main.     *)
Failures == {"sync", "attach", "connect", "mount", "umount", "exec"}

ASSUME ConstantsAssumption ==
  /\ DEVMAX \in Nat \ {0}
  /\ MinIdle \in Nat \ {0}
  /\ MaxReq \in [Threads -> Nat] /\ MaxHold \in Nat /\ MaxBoot \in Nat
  /\ NestedPause \in BOOLEAN
  /\ Serves \in [Threads -> SUBSET VMs]
  /\ Unresolved \subseteq VMs
  /\ MayFail \subseteq Failures
  /\ NoVM \notin VMs /\ NoThread \notin Threads

VARIABLES
  \* locals of a thread's call
  pc, req, ix, reg, lru,
  \* syncmount_record, one per slot
  refcount, vmi, last_used, l,
  \* syncmount::lk, HAMain::vmi_lock, HAConfig::mountdev, the global interrupted
  lk, vmi_lock, mountdev, interrupted,
  \* the host: disk behind /dev/nbdN, file system at the mount point, Xen, clock
  nbd, mnt, paused, now,
  \* the clients: mount points in use; budgets of requests and restarts
  mp, left, boots,
  \* history: holds that came from a full mount, VMs flushed for their request
  fresh, flushed

callVars == <<req, ix, reg, lru>>
slotVars == <<refcount, vmi, last_used, l>>
lockVars == <<lk, vmi_lock>>
hostVars == <<nbd, mnt, paused, now>>
heldVars == <<mp, left, boots, mountdev>>
histVars == <<fresh, flushed>>
rest   == <<heldVars, histVars, interrupted>>
shared == <<slotVars, lockVars, hostVars, rest>>
vars   == <<pc, callVars, shared>>

----------------------------------------------------------------------------
(* do_sync for VM v with pause count p; its module is SyncOutcome.         *)
SyncOutcomes(p, v) ==
  Outcomes(p, v \notin Unresolved, interrupted, "sync" \in MayFail)

(* Its event loop, unless it is skipped.                                   *)
Loops(v) == v \notin Unresolved /\ ~interrupted

InUse(s) == \E t \in Threads, v \in VMs : mp[t][v] = s

(* What umount -l may leave at the mount point.  Where one may fail, the   *)
(* next mount covers what it left, and a later umount uncovers that.       *)
LazyLeaves == {NoVM} \cup (IF "umount" \in MayFail THEN VMs ELSE {})

(* Without -l a mount point in use stays.                                  *)
UmountLeaves(s) == LazyLeaves \cup (IF InUse(s) THEN {mnt[s]} ELSE {})

----------------------------------------------------------------------------
(* The syncmount constructor and HAMain with one add_agent per VM. *)

NoScan == [c |-> 0, d |-> 0, max |-> 0, maxix |-> 0]

Init ==
  /\ pc = [t \in Threads |-> "idle"]
  /\ req = [t \in Threads |-> NoVM]
  /\ ix = [t \in Threads |-> 0]
  /\ reg = [t \in Threads |-> 0]
  /\ lru = [t \in Threads |-> NoScan]
  /\ refcount = [s \in Slots |-> 0]
  /\ vmi = [s \in Slots |-> NoVM]
  /\ last_used = [s \in Slots |-> 0]
  /\ l = [s \in Slots |-> FALSE]
  /\ lk = NoThread /\ vmi_lock = NoThread
  /\ mountdev = [v \in VMs |-> NoSlot]
  /\ interrupted = FALSE
  /\ nbd = [s \in Slots |-> NoVM]
  /\ mnt = [s \in Slots |-> NoVM]
  /\ paused = [v \in VMs |-> 0]
  /\ now = 0
  /\ mp = [t \in Threads |-> [v \in VMs |-> NoSlot]]
  /\ left = MaxReq /\ boots = MaxBoot
  /\ fresh = [t \in Threads |-> {}] /\ flushed = {}

Goto(t, from, to) ==
  /\ pc[t] = from
  /\ pc' = [pc EXCEPT ![t] = to]

Held(t) == {v \in VMs : mp[t][v] # NoSlot}

(* mount_disk: a client asks for a VM it does not hold. *)
MountDisk(t, v) ==
  /\ Goto(t, "idle", "remount")
  /\ v \in Serves[t] \ Held(t)
  /\ Cardinality(Held(t)) < MaxHold
  /\ left[t] > 0
  /\ left' = [left EXCEPT ![t] = @ - 1]
  /\ req' = [req EXCEPT ![t] = v]
  /\ ix' = [ix EXCEPT ![t] = 0]
  /\ flushed' = flushed \ {v}
  /\ UNCHANGED <<reg, lru, slotVars, lockVars, hostVars, mp, boots,
                 mountdev, fresh, interrupted>>

----------------------------------------------------------------------------
(* request_mount, first loop: does a slot already show this VM? *)

RemountMissUntested(t) ==  \* mutant: passes over the VM's own slot
  /\ pc[t] = "remount" /\ ix[t] < DEVMAX
  /\ ix' = [ix EXCEPT ![t] = @ + 1]
  /\ UNCHANGED <<pc, req, reg, lru, shared>>

RemountMiss(t) ==
  /\ pc[t] = "remount" /\ ix[t] < DEVMAX
  /\ vmi[ix[t]] # req[t]
  /\ ix' = [ix EXCEPT ![t] = @ + 1]
  /\ UNCHANGED <<pc, req, reg, lru, shared>>

RemountHitAnyUsed(t) ==  \* mutant: takes any slot in use for the VM's own
  /\ Goto(t, "remount", "hit")
  /\ ix[t] < DEVMAX
  /\ vmi[ix[t]] # NoVM
  /\ UNCHANGED <<callVars, shared>>

RemountHit(t) ==
  /\ Goto(t, "remount", "hit")
  /\ ix[t] < DEVMAX
  /\ vmi[ix[t]] = req[t]
  /\ UNCHANGED <<callVars, shared>>

(* refcount++ is a load and a store of a plain int. *)
RemountLoad(t) ==
  /\ Goto(t, "hit", "bump")
  /\ reg' = [reg EXCEPT ![t] = refcount[ix[t]]]
  /\ UNCHANGED <<req, ix, lru, shared>>

RemountStoreUncounted(t) ==  \* mutant: a remount is not counted
  /\ Goto(t, "bump", "return")
  /\ last_used' = [last_used EXCEPT ![ix[t]] = now]
  /\ UNCHANGED <<callVars, refcount, vmi, l, lockVars, hostVars, rest>>

RemountStore(t) ==
  /\ Goto(t, "bump", "return")
  /\ refcount' = [refcount EXCEPT ![ix[t]] = reg[t] + 1]
  /\ last_used' = [last_used EXCEPT ![ix[t]] = now]
  /\ UNCHANGED <<callVars, vmi, l, lockVars, hostVars, rest>>

RemountEnd(t) ==
  /\ Goto(t, "remount", "grab")
  /\ ix[t] = DEVMAX
  /\ ix' = [ix EXCEPT ![t] = 0]
  /\ UNCHANGED <<req, reg, lru, shared>>

(* Second loop: try_lock a slot.  Nothing ever unlocks a slot again. *)

GrabMiss(t) ==
  /\ pc[t] = "grab" /\ ix[t] < DEVMAX
  /\ l[ix[t]]
  /\ ix' = [ix EXCEPT ![t] = @ + 1]
  /\ UNCHANGED <<pc, req, reg, lru, shared>>

GrabSlotUnlocked(t) ==  \* mutant: tests a slot's lock and does not take it
  /\ Goto(t, "grab", "claim")
  /\ ix[t] < DEVMAX
  /\ ~l[ix[t]]
  /\ UNCHANGED <<callVars, shared>>

GrabSlot(t) ==
  /\ Goto(t, "grab", "claim")
  /\ ix[t] < DEVMAX
  /\ ~l[ix[t]]
  /\ l' = [l EXCEPT ![ix[t]] = TRUE]
  /\ UNCHANGED <<callVars, refcount, vmi, last_used, lockVars, hostVars, rest>>

GrabEnd(t) ==
  /\ Goto(t, "grab", "name")
  /\ ix[t] = DEVMAX
  /\ UNCHANGED <<callVars, shared>>

(* A slot found, free or stolen, is put in the caller's name. *)

Claim(t) ==
  /\ Goto(t, "claim", "synclock")
  /\ refcount' = [refcount EXCEPT ![ix[t]] = 1]
  /\ vmi' = [vmi EXCEPT ![ix[t]] = req[t]]
  /\ UNCHANGED <<callVars, last_used, l, lockVars, hostVars, rest>>

----------------------------------------------------------------------------
(* The LRU loop.  The call of vmi_get_name before it takes no lock. *)

GetName(t) ==
  /\ Goto(t, "name", "lrulock")
  /\ UNCHANGED <<callVars, shared>>

LruLock(t) ==
  /\ Goto(t, "lrulock", "scan")
  /\ lk = NoThread
  /\ lk' = t
  /\ lru' = [lru EXCEPT ![t].c = now]
  /\ ix' = [ix EXCEPT ![t] = 0]
  /\ UNCHANGED <<req, reg, slotVars, vmi_lock, hostVars, rest>>

LruAge(t) ==
  /\ Goto(t, "scan", "weigh")
  /\ ix[t] < DEVMAX
  /\ lru' = [lru EXCEPT ![t].d = lru[t].c - last_used[ix[t]]]
  /\ UNCHANGED <<req, ix, reg, shared>>

(* max and maxix live across the passes of the loop. *)
NominateLast(scan, s) ==  \* mutant: the last slot old enough, not the oldest
  IF refcount[s] = 0 /\ scan.d >= MinIdle
  THEN [scan EXCEPT !.max = scan.d, !.maxix = s]
  ELSE scan

NominateNext(scan, s) ==  \* mutant: off by one
  IF refcount[s] = 0 /\ scan.max < scan.d
  THEN [scan EXCEPT !.max = scan.d, !.maxix = s + 1]
  ELSE scan

Nominate(scan, s) ==
  IF refcount[s] = 0 /\ scan.max < scan.d
  THEN [scan EXCEPT !.max = scan.d, !.maxix = s]
  ELSE scan

LruWeigh(t) ==
  /\ Goto(t, "weigh", "scan")
  /\ lru' = [lru EXCEPT ![t] = Nominate(@, ix[t])]
  /\ ix' = [ix EXCEPT ![t] = @ + 1]
  /\ UNCHANGED <<req, reg, shared>>

OldEnough(d) == d >= MinIdle

LruSleepLocked(t) ==  \* mutant: goes to sleep with lk
  /\ Goto(t, "scan", "lrulock")
  /\ ix[t] = DEVMAX
  /\ ~OldEnough(lru[t].max)
  /\ UNCHANGED <<callVars, shared>>

LruSleep(t) ==
  /\ Goto(t, "scan", "lrulock")
  /\ ix[t] = DEVMAX
  /\ ~OldEnough(lru[t].max)
  /\ lk' = NoThread
  /\ UNCHANGED <<callVars, slotVars, vmi_lock, hostVars, rest>>

LruPickUnlocks(t) ==  \* mutant: with the unlock that is commented out
  /\ Goto(t, "scan", "evict")
  /\ ix[t] = DEVMAX
  /\ OldEnough(lru[t].max)
  /\ ix' = [ix EXCEPT ![t] = lru[t].maxix]
  /\ l' = [l EXCEPT ![lru[t].maxix] = FALSE]
  /\ UNCHANGED <<req, reg, lru, refcount, vmi, last_used, lockVars, hostVars,
                 rest>>

LruPick(t) ==
  /\ Goto(t, "scan", "evict")
  /\ ix[t] = DEVMAX
  /\ OldEnough(lru[t].max)
  /\ ix' = [ix EXCEPT ![t] = lru[t].maxix]
  /\ UNCHANGED <<req, reg, lru, shared>>

(* do_nbd_unmount, called with the thief's vmi: umount -l (its result is   *)
(* ignored), resume, and qemu-nbd -d.                                      *)
EvictUmount(t) ==
  /\ Goto(t, "evict", "evictresume")
  /\ \E fs \in LazyLeaves : mnt' = [mnt EXCEPT ![ix[t]] = fs]
  /\ UNCHANGED <<callVars, slotVars, lockVars, nbd, paused, now, rest>>

EvictResumeLocked(t) ==  \* mutant: keeps vmi_global_lock
  /\ Goto(t, "evictresume", "disconnect")
  /\ vmi_lock = NoThread
  /\ vmi_lock' = t
  /\ paused' = [paused EXCEPT ![req[t]] = ResumeVM(@)]
  /\ UNCHANGED <<callVars, slotVars, lk, nbd, mnt, now, rest>>

EvictResume(t) ==
  /\ Goto(t, "evictresume", "disconnect")
  /\ vmi_lock = NoThread
  /\ paused' = [paused EXCEPT ![req[t]] = ResumeVM(@)]
  /\ UNCHANGED <<callVars, slotVars, lockVars, nbd, mnt, now, rest>>

DisconnectSkipped(t) ==  \* mutant: the device stays connected
  /\ Goto(t, "disconnect", "claim")
  /\ UNCHANGED <<callVars, shared>>

Disconnect(t) ==
  /\ Goto(t, "disconnect", "claim")
  /\ nbd' = [nbd EXCEPT ![ix[t]] = NoVM]
  /\ UNCHANGED <<callVars, slotVars, lockVars, mnt, paused, now, rest>>

----------------------------------------------------------------------------
(* do_nbd_mount. *)

SyncLockNot(t) ==  \* mutant: does not wait for vmi_global_lock
  /\ Goto(t, "synclock", "sync")
  /\ vmi_lock' = t
  /\ UNCHANGED <<callVars, slotVars, lk, hostVars, rest>>

SyncLock(t) ==
  /\ Goto(t, "synclock", "sync")
  /\ vmi_lock = NoThread
  /\ vmi_lock' = t
  /\ UNCHANGED <<callVars, slotVars, lk, hostVars, rest>>

(* do_sync and the unlock after it.  The global interrupted is 0 only      *)
(* until the first event loop ends.                                        *)
DoSync(t) ==
  /\ Goto(t, "sync", "connect")
  /\ \E out \in SyncOutcomes(paused[req[t]], req[t]) :
        /\ paused' = [paused EXCEPT ![req[t]] = out.paused]
        /\ flushed' = IF out.flushed THEN flushed \cup {req[t]} ELSE flushed
  /\ interrupted' = (interrupted \/ req[t] \notin Unresolved)
  /\ vmi_lock' = NoThread
  /\ UNCHANGED <<callVars, slotVars, lk, nbd, mnt, now, heldVars, fresh>>

(* xl block-attach fails, its result is ignored, and the guest does not    *)
(* reach dwork by itself: the event loop goes on with vmi_global_lock.     *)
DoSyncStuck(t) ==
  /\ Goto(t, "sync", "stuck")
  /\ "attach" \in MayFail /\ Loops(req[t])
  /\ paused' = [paused EXCEPT ![req[t]] = ResumeVM(PauseVM(@))]
  /\ UNCHANGED <<callVars, slotVars, lockVars, nbd, mnt, now, rest>>

(* So does that of a VM that stays paused, because a process that ended    *)
(* had paused it.                                                          *)
DoSyncWaits(t) ==
  /\ \/ pc[t] = "stuck"
     \/ pc[t] = "sync" /\ SyncOutcomes(paused[req[t]], req[t]) = {}
  /\ UNCHANGED vars

(* qemu-nbd -c, then kpartx on the device. *)
ConnectAnyway(t) ==  \* mutant: a device in use is no reason to exit
  /\ Goto(t, "connect", "pause")
  /\ nbd' = [nbd EXCEPT ![ix[t]] = IF @ = NoVM THEN req[t] ELSE @]
  /\ UNCHANGED <<callVars, slotVars, lockVars, mnt, paused, now, rest>>

Connect(t) ==
  /\ Goto(t, "connect", "pause")
  /\ nbd[ix[t]] = NoVM
  /\ nbd' = [nbd EXCEPT ![ix[t]] = req[t]]
  /\ UNCHANGED <<callVars, slotVars, lockVars, mnt, paused, now, rest>>

(* The process is gone, with its memory. *)
ProcessEnds ==
  /\ pc' = [t \in Threads |-> "exited"]
  /\ req' = [t \in Threads |-> NoVM]
  /\ ix' = [t \in Threads |-> 0]
  /\ reg' = [t \in Threads |-> 0]
  /\ lru' = [t \in Threads |-> NoScan]
  /\ refcount' = [s \in Slots |-> 0]
  /\ vmi' = [s \in Slots |-> NoVM]
  /\ l' = [s \in Slots |-> FALSE]
  /\ lk' = NoThread /\ vmi_lock' = NoThread
  /\ mountdev' = [v \in VMs |-> NoSlot]
  /\ interrupted' = FALSE
  /\ mp' = [t \in Threads |-> [v \in VMs |-> NoSlot]]
  /\ fresh' = [t \in Threads |-> {}]
  /\ UNCHANGED <<last_used, paused, now, left, boots, flushed>>

(* qemu-nbd exits with 1 when the device is taken or the image is not      *)
(* there, system() returns 256, and the library calls exit(-1).            *)
ConnectFails(t) ==
  /\ pc[t] = "connect"
  /\ nbd[ix[t]] # NoVM \/ "connect" \in MayFail
  /\ ProcessEnds
  /\ UNCHANGED <<nbd, mnt>>

PauseForMount(t) ==
  /\ Goto(t, "pause", "mount")
  /\ vmi_lock = NoThread
  /\ paused' = [paused EXCEPT ![req[t]] = PauseVM(@)]
  /\ UNCHANGED <<callVars, slotVars, lockVars, nbd, mnt, now, rest>>

MountIfBare(t, under) ==  \* mutant: no mount where the umount left one
  {IF under = NoVM THEN nbd[ix[t]] ELSE under}

(* What mount makes of the mount point.  It fails without a disk.          *)
MountCovers(t, under) ==
  {IF nbd[ix[t]] = NoVM THEN under ELSE nbd[ix[t]]}
    \cup (IF "mount" \in MayFail THEN {under} ELSE {})

(* The precautionary umount and the mount; their results are ignored. *)
MountFs(t) ==
  /\ Goto(t, "mount", "return")
  /\ \E under \in UmountLeaves(ix[t]) : \E fs \in MountCovers(t, under) :
        mnt' = [mnt EXCEPT ![ix[t]] = fs]
  /\ last_used' = [last_used EXCEPT ![ix[t]] = now]
  /\ fresh' = [fresh EXCEPT ![t] = @ \cup {req[t]}]
  /\ UNCHANGED <<callVars, refcount, vmi, l, lockVars, nbd, paused, now,
                 heldVars, flushed, interrupted>>

(* The end of a call: its locals are gone. *)
Leave(t) ==
  /\ req' = [req EXCEPT ![t] = NoVM]
  /\ ix' = [ix EXCEPT ![t] = 0]
  /\ reg' = [reg EXCEPT ![t] = 0]
  /\ lru' = [lru EXCEPT ![t] = NoScan]

(* A thief leaves request_mount's critical section. *)
LruUnlock(t) ==
  /\ pc[t] = "return" /\ lk = t
  /\ lk' = NoThread
  /\ UNCHANGED <<pc, callVars, slotVars, vmi_lock, hostVars, rest>>

(* mount_disk notes the slot and hands the client its mount point. *)
Return(t) ==
  /\ Goto(t, "return", "idle")
  /\ lk # t
  /\ mountdev' = [mountdev EXCEPT ![req[t]] = ix[t]]
  /\ mp' = [mp EXCEPT ![t][req[t]] = ix[t]]
  /\ Leave(t)
  /\ UNCHANGED <<slotVars, lockVars, hostVars, left, boots, histVars,
                 interrupted>>

----------------------------------------------------------------------------
(* unmount_disk and release_mount: the slot is the one in mountdev, the VM *)
(* resumed is the one the slot now names.                                  *)

SlotOfZero(v) == 0  \* mutant: mountdev was never noted

SlotOf(v) == mountdev[v]

UnmountDisk(t, v) ==
  /\ Goto(t, "idle", "drop")
  /\ v \in Held(t)
  /\ mp' = [mp EXCEPT ![t][v] = NoSlot]
  /\ fresh' = [fresh EXCEPT ![t] = @ \ {v}]
  /\ req' = [req EXCEPT ![t] = v]
  /\ ix' = [ix EXCEPT ![t] = SlotOf(v)]
  /\ UNCHANGED <<reg, lru, slotVars, lockVars, hostVars, left, boots, mountdev,
                 flushed, interrupted>>

ReleaseLoad(t) ==
  /\ Goto(t, "drop", "dropped")
  /\ reg' = [reg EXCEPT ![t] = refcount[ix[t]]]
  /\ UNCHANGED <<req, ix, lru, shared>>

ReleaseStore(t) ==
  /\ Goto(t, "dropped", "resume")
  /\ refcount' = [refcount EXCEPT ![ix[t]] = reg[t] - 1]
  /\ UNCHANGED <<callVars, vmi, last_used, l, lockVars, hostVars, rest>>

ReleaseResume(t) ==
  /\ Goto(t, "resume", "idle")
  /\ vmi_lock = NoThread
  /\ paused' = [paused EXCEPT ![vmi[ix[t]]] = ResumeVM(@)]
  /\ Leave(t)
  /\ UNCHANGED <<slotVars, lockVars, nbd, mnt, now, rest>>

----------------------------------------------------------------------------
(* An actuator that reads a VM's memory holds vmi_lock while it does.      *)

GetVmiLock(t) ==
  /\ Goto(t, "idle", "vmi")
  /\ left[t] > 0
  /\ vmi_lock = NoThread
  /\ vmi_lock' = t
  /\ left' = [left EXCEPT ![t] = @ - 1]
  /\ UNCHANGED <<callVars, slotVars, lk, hostVars, mp, boots, mountdev,
                 histVars, interrupted>>

RelVmiLock(t) ==
  /\ Goto(t, "vmi", "idle")
  /\ vmi_lock' = NoThread
  /\ UNCHANGED <<callVars, slotVars, lk, hostVars, rest>>

----------------------------------------------------------------------------
(* The life of the process. *)

(* ~syncmount: umount (its result is ignored) and qemu-nbd -d for every    *)
(* slot.                                                                   *)
DropAllMounts ==
  /\ mnt' \in [Slots -> VMs \cup {NoVM}]
  /\ \A s \in Slots : mnt'[s] \in UmountLeaves(s)
  /\ nbd' = [s \in Slots |-> NoVM]

(* ~HAMain once no thread is in a call. *)
Shutdown ==
  /\ \A t \in Threads : pc[t] = "idle"
  /\ ProcessEnds
  /\ DropAllMounts

(* clam_spawn's child, in its client's mount point, holds a copy of the    *)
(* HAMain; if execvp fails it returns from main and runs that copy's       *)
(* destructor.                                                             *)
ChildReturns(t) ==
  /\ "exec" \in MayFail
  /\ pc[t] = "idle" /\ Held(t) # {}
  /\ DropAllMounts
  /\ UNCHANGED <<pc, callVars, slotVars, lockVars, paused, now, rest>>

(* A new process.  Its constructor stamps the records with the time and    *)
(* leaves devices, mounts and VMs as the last process left them: the call  *)
(* of drop_all_mounts is commented out.                                    *)
Restart ==
  /\ \A t \in Threads : pc[t] = "exited"
  /\ boots > 0
  /\ boots' = boots - 1
  /\ pc' = [t \in Threads |-> "idle"]
  /\ last_used' = [s \in Slots |-> now]
  /\ UNCHANGED <<callVars, refcount, vmi, l, lockVars, hostVars, mp, left,
                 mountdev, histVars, interrupted>>

(* gettimeofday.  Once every slot is as old as MinIdle a further tick     *)
(* changes the outcome of no test in the code, so the clock stops there.   *)
Tick ==
  /\ \E s \in Slots : now - last_used[s] < MinIdle
  /\ now' = now + 1
  /\ UNCHANGED <<pc, callVars, slotVars, lockVars, nbd, mnt, paused, rest>>

(* After the process has ended nothing happens. *)
Ended ==
  /\ \A t \in Threads : pc[t] = "exited"
  /\ boots = 0
  /\ UNCHANGED vars

(* The library's own steps, which run once a call has been made. *)
Step(t) ==
  \/ RemountMiss(t) \/ RemountHit(t) \/ RemountLoad(t) \/ RemountStore(t)
  \/ RemountEnd(t) \/ GrabMiss(t) \/ GrabSlot(t) \/ GrabEnd(t) \/ Claim(t)
  \/ GetName(t) \/ LruLock(t) \/ LruAge(t) \/ LruWeigh(t) \/ LruSleep(t) \/ LruPick(t)
  \/ EvictUmount(t) \/ EvictResume(t) \/ Disconnect(t)
  \/ SyncLock(t) \/ DoSync(t) \/ Connect(t) \/ ConnectFails(t)
  \/ PauseForMount(t) \/ MountFs(t) \/ LruUnlock(t) \/ Return(t)
  \/ ReleaseLoad(t) \/ ReleaseStore(t) \/ ReleaseResume(t)
  \/ RelVmiLock(t)

Call(t) ==
  \/ \E v \in VMs : MountDisk(t, v) \/ UnmountDisk(t, v)
  \/ GetVmiLock(t)

Next ==
  \/ \E t \in Threads : Step(t) \/ Call(t)
  \/ Shutdown
  \/ \E t \in Threads : ChildReturns(t) \/ DoSyncStuck(t) \/ DoSyncWaits(t)
  \/ Restart
  \/ Tick
  \/ Ended

Spec == Init /\ [][Next]_vars

(* The scheduler runs every thread inside the library, and time passes.    *)
(* Clients need not make another call.                                     *)
FairSpec ==
  /\ Spec
  /\ \A t \in Threads : WF_vars(Step(t))
  /\ WF_vars(Tick)

----------------------------------------------------------------------------
(* Properties. *)

PCs == {"idle", "remount", "hit", "bump", "grab", "claim", "name", "lrulock",
        "scan", "weigh", "evict", "evictresume", "disconnect", "synclock",
        "sync", "stuck", "connect", "pause", "mount", "return", "drop",
        "dropped", "resume", "vmi", "exited"}

Stealing == {"lrulock", "scan", "weigh", "evict", "evictresume", "disconnect"}

Outside   == {"idle", "vmi", "exited"}
Searching == {"remount", "grab", "name", "lrulock", "scan"}

(* A call is for a VM, and works on a slot that exists.                    *)
CallOK ==
  \A t \in Threads :
    /\ pc[t] \notin Outside => req[t] \in VMs
    /\ pc[t] \notin Outside \cup Searching => ix[t] \in Slots

Scans == [c : Int, d : Int, max : Int, maxix : Slots]

LocalTypes ==
  /\ pc \in [Threads -> PCs]
  /\ req \in [Threads -> VMs \cup {NoVM}]
  /\ ix \in [Threads -> 0 .. DEVMAX]
  /\ reg \in [Threads -> Int]
  /\ lru \in [Threads -> Scans]

SlotTypes ==
  /\ refcount \in [Slots -> Int]
  /\ vmi \in [Slots -> VMs \cup {NoVM}]
  /\ last_used \in [Slots -> Int]
  /\ l \in [Slots -> BOOLEAN]

HostTypes ==
  /\ nbd \in [Slots -> VMs \cup {NoVM}]
  /\ mnt \in [Slots -> VMs \cup {NoVM}]
  /\ paused \in [VMs -> Nat]
  /\ now \in Nat

ClientTypes ==
  /\ lk \in Threads \cup {NoThread} /\ vmi_lock \in Threads \cup {NoThread}
  /\ interrupted \in BOOLEAN
  /\ mountdev \in [VMs -> Slots \cup {NoSlot}]
  /\ mp \in [Threads -> [VMs -> Slots \cup {NoSlot}]]
  /\ left \in [Threads -> Nat] /\ boots \in Nat
  /\ fresh \in [Threads -> SUBSET VMs] /\ flushed \in SUBSET VMs

(* Types, and CallOK.                                                      *)
TypeOK == LocalTypes /\ SlotTypes /\ HostTypes /\ ClientTypes /\ CallOK

(* mount_disk's promise: while a client holds the mount point of a VM, the *)
(* file system there is that VM's.                                         *)
RightDisk ==
  \A t \in Threads : \A v \in Held(t) : mnt[mp[t][v]] = v

(* The same where mounts may fail and their results are ignored: then the  *)
(* mount point may be empty, but it never shows another VM's disk.  (Where *)
(* the umount before such a mount may fail as well, it does.)              *)
NeverWrongDisk ==
  \A t \in Threads : \A v \in Held(t) : mnt[mp[t][v]] \in {v, NoVM}

(* A VM mounted in full (and not by the remount shortcut) stays paused     *)
(* until its client lets go: nothing changes the disk under the reader.    *)
FreshPaused == \A t \in Threads : \A v \in fresh[t] : paused[v] > 0

(* A VM nobody holds or asks for runs: the pauses and resumes of the calls *)
(* balance.  (A process that ends does not resume what it paused, so this  *)
(* is about the first one; nor does do_sync's early return.)               *)
IdleVmRuns ==
  \A v \in VMs \ (IF NestedPause THEN Unresolved ELSE {}) :
    (/\ boots = MaxBoot
     /\ \A t \in Threads : pc[t] # "exited" /\ req[t] # v /\ v \notin Held(t))
      => paused[v] = 0

(* With a slot for every VM and one thread per VM nobody has to steal.     *)
NeverSteals == \A t \in Threads : pc[t] \notin Stealing

(* The slot table knows when a device is free: qemu-nbd -c never meets one *)
(* in use, not even in a process started after an orderly shutdown.        *)
ConnectFindsFree ==
  \A t \in Threads : pc[t] = "connect" => nbd[ix[t]] = NoVM

(* A slot no thread is working on counts the mount points handed out and   *)
(* not given back: that count is all that keeps a thief away from it.      *)
RefcountMatches ==
  \A s \in Slots :
    (\A t \in Threads : pc[t] \in {"idle", "vmi", "exited"} \/ ix[t] # s)
      => refcount[s] =
           Cardinality({h \in Threads \X VMs : mp[h[1]][h[2]] = s})

(* No VM appears in two slots, whatever the threads of other VMs do.       *)
OneSlotPerVm ==
  \A r, s \in Slots : r # s /\ vmi[r] # NoVM => vmi[r] # vmi[s]

(* Slots are stolen only when every slot has been handed out before.       *)
AllSlotsLockedBeforeSteal ==
  \A t \in Threads : pc[t] \in Stealing => \A s \in Slots : l[s]

(* A thief in single-threaded use takes an idle slot, of those the one     *)
(* mounted or remounted the longest time ago, and only when that is long   *)
(* enough.  (release_mount does not stamp last_used: a slot released just  *)
(* now after a long hold is taken at once, against syncmount.h 36.)        *)
EvictsLeastRecent ==
  \A t \in Threads : pc[t] = "evict" =>
    /\ refcount[ix[t]] = 0
    /\ lru[t].c - last_used[ix[t]] >= MinIdle
    /\ \A s \in Slots : refcount[s] = 0 => last_used[ix[t]] <= last_used[s]

UsesVmi(t) == pc[t] \in {"sync", "stuck", "vmi"}

(* LibVMI uses globals: do_sync and the actuators that hold vmi_lock never  *)
(* run in two threads at once.  (The vmi_get_name of line 597 has no lock.) *)
VmiSerial ==
  \A t, u \in Threads :
    UsesVmi(t) /\ UsesVmi(u) => t = u

(* mount_disk flushes the guest's page cache: what a client reads is not   *)
(* older than its call.                                                    *)
FlushedWhenHeld == \A t \in Threads : Held(t) \subseteq flushed

(* A thief gets out of request_mount's critical section.                   *)
StealFinishes == \A t \in Threads : lk = t ~> lk # t

(* The event loop of a VM that is paused does not end.                     *)
LeftPaused(v) == NestedPause /\ Loops(v) /\ paused[v] > 0

(* A client that never holds all the slots at once gets its mount, unless  *)
(* the process before this one ended with the VM's disk mounted and left   *)
(* the VM paused.                                                          *)
EveryRequestReturns ==
  \A t \in Threads :
    pc[t] = "remount" /\ ~LeftPaused(req[t]) ~> pc[t] \in {"idle", "exited"}
=============================================================================
