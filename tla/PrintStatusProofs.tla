-------------------------- MODULE PrintStatusProofs --------------------------
(***************************************************************************)
(* The proof that print_status leaves no slot locked, for every number of  *)
(* threads, VMs and slots, whatever the threads do meanwhile.              *)
(***************************************************************************)
EXTENDS PrintStatus, TLAPS

USE DEF callVars, slotVars, lockVars, hostVars, heldVars, histVars, rest,
        shared, vars

(* What the claim of a slot (syncmount.cc 573-578) needs.                  *)
NamingTypes ==
  /\ pc \in [Threads -> PCs]
  /\ DOMAIN ix = Threads
  /\ vmi \in [Slots -> VMs \cup {NoVM}]
  /\ l \in [Slots -> BOOLEAN]
  /\ req \in [Threads -> VMs \cup {NoVM}]
  /\ \A t \in Threads : pc[t] \notin Outside => req[t] \in VMs

(* A process that has ended has no thread in print_status.                 *)
Gone == (\A t \in Threads : pc[t] = "exited") => mpc = "idle"

NamingInv == NamingTypes /\ Gone /\ LockedNamed


LEMMA NamingTypesStep ==
  ASSUME NamingTypes, [Next]_vars
  PROVE  NamingTypes'
<1> USE DEF NamingTypes, Goto, PCs, Outside
<1>1. ASSUME NEW t \in Threads,
             \/ RemountMiss(t) \/ RemountHit(t) \/ RemountLoad(t)
             \/ RemountStore(t) \/ RemountEnd(t)
      PROVE  NamingTypes'
  BY <1>1 DEF RemountMiss, RemountHit, RemountLoad, RemountStore, RemountEnd
<1>2. ASSUME NEW t \in Threads,
             \/ GrabMiss(t) \/ GrabSlot(t) \/ GrabEnd(t) \/ GetName(t)
      PROVE  NamingTypes'
  BY <1>2 DEF GrabMiss, GrabSlot, GrabEnd, GetName
<1>3. ASSUME NEW t \in Threads, Claim(t) PROVE NamingTypes'
  BY <1>3 DEF Claim
<1>4. ASSUME NEW t \in Threads,
             \/ LruLock(t) \/ LruAge(t) \/ LruWeigh(t) \/ LruSleep(t)
             \/ LruPick(t) \/ LruUnlock(t)
      PROVE  NamingTypes'
  BY <1>4 DEF LruLock, LruAge, LruWeigh, LruSleep, LruPick, LruUnlock
<1>5. ASSUME NEW t \in Threads,
             EvictUmount(t) \/ EvictResume(t) \/ Disconnect(t)
      PROVE  NamingTypes'
  BY <1>5 DEF EvictUmount, EvictResume, Disconnect
<1>6. ASSUME NEW t \in Threads,
             \/ SyncLock(t) \/ DoSync(t) \/ Connect(t) \/ PauseForMount(t)
             \/ MountFs(t)
      PROVE  NamingTypes'
  BY <1>6 DEF SyncLock, DoSync, Connect, PauseForMount, MountFs
<1>7. ASSUME NEW t \in Threads, Return(t) \/ ReleaseResume(t)
      PROVE  NamingTypes'
  BY <1>7 DEF Return, ReleaseResume, Leave
<1>8. ASSUME NEW t \in Threads,
             ReleaseLoad(t) \/ ReleaseStore(t) \/ RelVmiLock(t)
      PROVE  NamingTypes'
  BY <1>8 DEF ReleaseLoad, ReleaseStore, RelVmiLock
<1>9. ASSUME NEW t \in Threads, Call(t) PROVE NamingTypes'
  BY <1>9 DEF Call, MountDisk, UnmountDisk, GetVmiLock
<1>10. ASSUME ProcessEnds PROVE NamingTypes'
  BY <1>10 DEF ProcessEnds
<1>11. ASSUME NEW t \in Threads,
              ChildReturns(t) \/ DoSyncStuck(t) \/ DoSyncWaits(t)
       PROVE  NamingTypes'
  BY <1>11 DEF ChildReturns, DoSyncStuck, DoSyncWaits
<1>12. CASE Restart \/ Tick \/ Ended \/ UNCHANGED vars
  BY <1>12 DEF Restart, Tick, Ended
<1> QED
  BY <1>1, <1>2, <1>3, <1>4, <1>5, <1>6, <1>7, <1>8, <1>9, <1>10, <1>11, <1>12
  DEF Next, Step, ConnectFails, Shutdown

(* A slot gets its lock from a thread that is about to name it, and a      *)
(* named slot keeps a name, until the process ends.                        *)
Kept ==
  /\ (\A t \in Threads : pc'[t] = "exited") => \A t \in Threads : pc[t] = "exited"
  /\ \A s \in Slots :
       /\ l'[s] => l[s] \/ \E t \in Threads : pc'[t] = "claim" /\ ix'[t] = s
       /\ vmi[s] # NoVM => vmi'[s] # NoVM
       /\ \A t \in Threads :
            pc[t] = "claim" /\ ix[t] = s =>
              \/ pc'[t] = "claim" /\ ix'[t] = s
              \/ vmi'[s] # NoVM

LEMMA LocksNamed ==
  ASSUME NamingTypes, [Next]_vars
  PROVE  Kept \/ \A s \in Slots : ~l'[s]
<1> USE ConstantsAssumption DEF NamingTypes, Goto, Outside, Kept
<1>1. ASSUME NEW t \in Threads,
             \/ RemountMiss(t) \/ RemountHit(t) \/ RemountLoad(t)
             \/ RemountStore(t) \/ RemountEnd(t)
      PROVE  Kept
  BY <1>1 DEF RemountMiss, RemountHit, RemountLoad, RemountStore, RemountEnd
<1>2. ASSUME NEW t \in Threads, GrabMiss(t) \/ GrabEnd(t) \/ GetName(t)
      PROVE  Kept
  BY <1>2 DEF GrabMiss, GrabEnd, GetName
<1>3. ASSUME NEW t \in Threads, GrabSlot(t) PROVE Kept
  <2>1. pc'[t] = "claim" /\ ix' = ix /\ vmi' = vmi
        /\ l' = [l EXCEPT ![ix[t]] = TRUE]
    BY <1>3 DEF GrabSlot
  <2>2. \A u \in Threads : pc[u] = "claim" => pc'[u] = "claim"
    BY <1>3 DEF GrabSlot
  <2> QED
    BY <2>1, <2>2
<1>4. ASSUME NEW t \in Threads, Claim(t) PROVE Kept
  <2>1. /\ req[t] \in VMs /\ pc[t] = "claim" /\ pc'[t] = "synclock"
        /\ ix' = ix /\ l' = l
        /\ vmi' = [vmi EXCEPT ![ix[t]] = req[t]]
    BY <1>4 DEF Claim
  <2>2. \A u \in Threads : u # t => pc'[u] = pc[u]
    BY <1>4 DEF Claim
  <2>3. \A s \in Slots : vmi'[s] = IF ix[t] = s THEN req[t] ELSE vmi[s]
    BY <2>1
  <2> QED
    BY <2>1, <2>2, <2>3
<1>5. ASSUME NEW t \in Threads,
             \/ LruLock(t) \/ LruAge(t) \/ LruWeigh(t) \/ LruSleep(t)
             \/ LruPick(t) \/ LruUnlock(t)
      PROVE  Kept
  BY <1>5 DEF LruLock, LruAge, LruWeigh, LruSleep, LruPick, LruUnlock
<1>6. ASSUME NEW t \in Threads,
             EvictUmount(t) \/ EvictResume(t) \/ Disconnect(t)
      PROVE  Kept
  BY <1>6 DEF EvictUmount, EvictResume, Disconnect
<1>7. ASSUME NEW t \in Threads,
             \/ SyncLock(t) \/ DoSync(t) \/ Connect(t) \/ PauseForMount(t)
             \/ MountFs(t)
      PROVE  Kept
  BY <1>7 DEF SyncLock, DoSync, Connect, PauseForMount, MountFs
<1>8. ASSUME NEW t \in Threads, Return(t) \/ ReleaseResume(t) PROVE Kept
  BY <1>8 DEF Return, ReleaseResume, Leave
<1>9. ASSUME NEW t \in Threads,
             ReleaseLoad(t) \/ ReleaseStore(t) \/ RelVmiLock(t)
      PROVE  Kept
  BY <1>9 DEF ReleaseLoad, ReleaseStore, RelVmiLock
<1>10. ASSUME NEW t \in Threads, Call(t) PROVE Kept
  BY <1>10 DEF Call, MountDisk, UnmountDisk, GetVmiLock
<1>11. ASSUME ProcessEnds PROVE \A s \in Slots : ~l'[s]
  BY <1>11 DEF ProcessEnds
<1>12. ASSUME NEW t \in Threads,
              ChildReturns(t) \/ DoSyncStuck(t) \/ DoSyncWaits(t)
       PROVE  Kept
  BY <1>12 DEF ChildReturns, DoSyncStuck, DoSyncWaits
<1>13. CASE Tick \/ Ended \/ UNCHANGED vars
  BY <1>13 DEF Tick, Ended
<1>14. CASE Restart
  BY <1>14 DEF Restart
<1> QED
  BY <1>1, <1>2, <1>3, <1>4, <1>5, <1>6, <1>7, <1>8, <1>9, <1>10, <1>11,
     <1>12, <1>13, <1>14
  DEF Next, Step, ConnectFails, Shutdown

LEMMA ThreadStep ==
  ASSUME NamingInv, Next,
         IF \A t \in Threads : pc'[t] = "exited"
         THEN mpc' = "idle" /\ UNCHANGED <<mix, prints>>
         ELSE UNCHANGED monitorVars
  PROVE  NamingInv'
<1>1. NamingTypes'
  BY NamingTypesStep DEF NamingInv
<1>2. Gone'
  BY DEF Gone
<1>3. LockedNamed'
  <2> SUFFICES ASSUME NEW s \in Slots, l'[s]
               PROVE  \/ vmi'[s] # NoVM
                      \/ mpc' = "locked" /\ mix' = s
                      \/ \E t \in Threads : pc'[t] = "claim" /\ ix'[t] = s
    BY DEF LockedNamed
  <2>1. /\ (\A t \in Threads : pc'[t] = "exited") =>
             \A t \in Threads : pc[t] = "exited"
        /\ l[s] \/ \E t \in Threads : pc'[t] = "claim" /\ ix'[t] = s
        /\ vmi[s] # NoVM => vmi'[s] # NoVM
        /\ \A t \in Threads :
             pc[t] = "claim" /\ ix[t] = s =>
               (pc'[t] = "claim" /\ ix'[t] = s) \/ vmi'[s] # NoVM
    BY LocksNamed DEF NamingInv, Kept
  <2>2. mpc = "locked" => mpc' = "locked" /\ mix' = mix
    BY <2>1 DEF NamingInv, Gone, monitorVars
  <2> QED
    BY <2>1, <2>2 DEF NamingInv, LockedNamed, monitorVars
<1> QED
  BY <1>1, <1>2, <1>3 DEF NamingInv


LEMMA MonitorStep ==
  ASSUME NamingInv, PrintStep
  PROVE  NamingInv'
<1> USE DEF NamingInv
<1>1. UNCHANGED <<pc, req, ix, vmi>>
  BY DEF PrintStep, PrintLock, PrintFree, PrintUnlock, PrintTaken, PrintEnd
<1>2. NamingTypes'
  BY <1>1 DEF NamingTypes, PrintStep, PrintLock, PrintFree, PrintUnlock,
              PrintTaken, PrintEnd, Unlocking
<1>3. Gone'
  BY <1>1 DEF Gone, PrintStep, PrintLock, PrintFree, PrintUnlock, PrintTaken,
              PrintEnd
<1>4. LockedNamed'
  <2> USE DEF NamingTypes, LockedNamed, Unlocking
  <2>1. CASE PrintFree
    BY <1>1, <2>1 DEF PrintFree
  <2>2. CASE PrintUnlock
    <3>1. l' = [l EXCEPT ![mix] = FALSE]
      BY <2>2 DEF PrintUnlock
    <3> QED
      BY <1>1, <3>1
  <2>3. CASE PrintLock \/ PrintTaken \/ PrintEnd
    BY <1>1, <2>3 DEF PrintLock, PrintTaken, PrintEnd
  <2> QED
    BY <2>1, <2>2, <2>3 DEF PrintStep
<1> QED
  BY <1>2, <1>3, <1>4

(* print_status, which locks a slot to learn whether it was locked         *)
(* (syncmount.cc 538-541), takes none out of use: a locked slot has the    *)
(* name of a VM or is about to get one (573-578), except for the one       *)
(* print_status has just locked and is about to unlock, and the process    *)
(* may exit, and start again, under it.                                    *)
THEOREM PrintStatusUnlocks == SpecP => []LockedNamed
<1>1. InitP => NamingInv
  BY DEF InitP, Init, NamingInv, NamingTypes, Gone, LockedNamed, PCs, Outside
<1>2. NamingInv /\ [NextP]_varsP => NamingInv'
  <2>1. ASSUME NamingInv, UNCHANGED varsP PROVE NamingInv'
    BY <2>1 DEF varsP, monitorVars, NamingInv, NamingTypes, Gone, LockedNamed
  <2>2. ASSUME NamingInv, NextP PROVE NamingInv'
    BY <2>2, MonitorStep, ThreadStep DEF NextP
  <2> QED
    BY <2>1, <2>2
<1> QED
  BY <1>1, <1>2, PTL DEF SpecP, NamingInv
=============================================================================
