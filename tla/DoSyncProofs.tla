---------------------------- MODULE DoSyncProofs -----------------------------
(***************************************************************************)
(* Theorems about do_sync, for every number of guest tasks, every bound on *)
(* what the guest does by itself and any safety limit: the guest's text    *)
(* and the tasks' registers, for any number of calls, and then what the    *)
(* first call in a process does for its caller and to the guest.           *)
(***************************************************************************)
EXTENDS DoSync, TLAPS

USE DEF callVars, globalVars, xenVars, guestVars, histVars, vars

(* The task on the vCPU is at a place while it is trapped there or about   *)
(* to be stepped, and step_rewrite_loc is one while a step is under way.   *)
CpuOK ==
  /\ cpu.mode # "free" => cpu.task \in Tasks
  /\ cpu.mode \in {"trap", "step"} => at[cpu.task] \in Places
  /\ cpu.mode \in {"step", "stepped"} => step_rewrite_loc \in Places

(* Only a kernel whose symbols are known gets as far as the loop; what is  *)
(* saved of it are its own bytes.                                          *)
BytesOK ==
  /\ phase \in {"loop", "clear", "restore"} => known
  /\ phase # "idle" /\ known => \A p \in Places : byte[p] = "orig"

(* The text comes back place by place.                                     *)
RestoredOK ==
  /\ phase # "restore" => todo = 1
  /\ phase = "restore" => \A i \in 1 .. todo - 1 : text[RestoreOrder[i]] = "orig"

TextInv == TypeOK /\ CpuOK /\ BytesOK /\ RestoredOK /\ TextRestored

----------------------------------------------------------------------------
LEMMA PauseCounts ==
  ASSUME paused \in Nat
  PROVE  PauseVM(paused) \in Nat /\ ResumeVM(paused) \in Nat
  BY ConstantsAssumption DEF PauseVM, ResumeVM

(* RestoreOrder has every place.                                           *)
LEMMA OrderComplete ==
  /\ Len(RestoreOrder) = 5
  /\ \A i \in 1 .. 5 : RestoreOrder[i] \in Places
  /\ \A p \in Places : \E i \in 1 .. 5 : RestoreOrder[i] = p
<1>1. Len(RestoreOrder) = 5
  BY DEF RestoreOrder
<1>2. /\ RestoreOrder[1] = "dwork" /\ RestoreOrder[2] = "dwork_back"
      /\ RestoreOrder[3] = "sys_sync" /\ RestoreOrder[4] = "sys_sync_back"
      /\ RestoreOrder[5] = "qworko"
  BY DEF RestoreOrder
<1>3. \A i \in 1 .. 5 : i = 1 \/ i = 2 \/ i = 3 \/ i = 4 \/ i = 5
  OBVIOUS
<1>4. 1 \in 1 .. 5 /\ 2 \in 1 .. 5 /\ 3 \in 1 .. 5 /\ 4 \in 1 .. 5 /\ 5 \in 1 .. 5
  OBVIOUS
<1>5. \A i \in 1 .. 5 : RestoreOrder[i] \in Places
  BY <1>2, <1>3 DEF Places
<1>6. \A p \in Places : \E i \in 1 .. 5 : RestoreOrder[i] = p
  BY <1>2, <1>4, Zenon DEF Places
<1> QED
  BY <1>1, <1>5, <1>6

LEMMA TextInit == Init => TextInv
<1> SUFFICES ASSUME Init PROVE TextInv
  OBVIOUS
<1> USE ConstantsAssumption DEF Init
<1>1. /\ attached \in BOOLEAN /\ do_cleanup \in BOOLEAN
      /\ events \in BOOLEAN /\ known \in BOOLEAN /\ synced \in BOOLEAN
  OBVIOUS
<1>2. /\ text \in [Places -> {"orig", "cc"}]
      /\ byte \in [Places -> {"null", "orig", "cc"}]
      /\ at \in [Tasks -> Places \cup {"out", "dead"}]
      /\ work \in [Functions -> Nat]
  OBVIOUS
<1>3. cpu \in [mode : {"free", "trap", "step", "stepped"},
               task : Tasks \cup {NoTask}]
  BY DEF Free
<1>4. TypeOK
  <2>1. /\ paused \in Nat /\ ghost \in BOOLEAN /\ calls \in Nat /\ safety \in Nat
        /\ interrupted \in {-1, 0, 1}
    OBVIOUS
  <2>3. todo \in 1 .. Len(RestoreOrder) + 1
    <3>1. Len(RestoreOrder) = 5 /\ todo = 1
      BY OrderComplete
    <3> QED
      BY <3>1
  <2>2. /\ phase \in {"idle", "planted", "loop", "clear", "restore"}
        /\ step_rewrite_loc \in Places \cup {"none"}
        /\ saved_regs \in Tasks \cup {NoTask} /\ diverted \in SUBSET Tasks
    OBVIOUS
  <2> QED
    BY <1>1, <1>2, <1>3, <2>1, <2>2, <2>3 DEF TypeOK
<1>5. CpuOK /\ BytesOK /\ RestoredOK /\ TextRestored
  BY DEF CpuOK, BytesOK, RestoredOK, TextRestored, Free
<1> QED
  BY <1>4, <1>5 DEF TextInv

----------------------------------------------------------------------------
(* The guest moves tasks and the vCPU, and nothing else that TextInv is    *)
(* about.                                                                  *)

GuestTypes ==
  /\ at \in [Tasks -> Places \cup {"out", "dead"}]
  /\ cpu \in [mode : {"free", "trap", "step", "stepped"},
              task : Tasks \cup {NoTask}]
  /\ work \in [Functions -> Nat] /\ synced \in BOOLEAN

LEMMA GuestMoves ==
  ASSUME TextInv, GuestTypes', CpuOK',
         UNCHANGED <<callVars, globalVars, xenVars, known, text, diverted>>
  PROVE  TextInv'
  BY DEF TextInv, TypeOK, GuestTypes, BytesOK, RestoredOK, TextRestored

LEMMA GoTypes ==
  ASSUME TextInv, NEW k \in Tasks, at[k] \in Places, Go(k)
  PROVE  /\ at' \in [Tasks -> Places \cup {"out", "dead"}]
         /\ synced' \in BOOLEAN
<1>1. After(at[k]) \in Places \cup {"out", "dead"}
  BY DEF After, Places
<1>2. at' \in [Tasks -> Places \cup {"out", "dead"}]
  BY <1>1 DEF Go, TextInv, TypeOK
<1>3. synced' \in BOOLEAN
  BY DEF Go, TextInv, TypeOK
<1> QED
  BY <1>2, <1>3

LEMMA GuestText ==
  ASSUME TextInv, Guest \/ \E k \in Tasks, f \in Functions : Enter(k, f)
  PROVE  TextInv'
<1> USE DEF TextInv, TypeOK, GuestTypes, CpuOK, GuestRuns, Free, Cpu
<1>1. ASSUME NEW k \in Tasks, Run(k) PROVE TextInv'
  <2>1. GuestTypes'
    BY <1>1, GoTypes DEF Run
  <2>2. CpuOK'
    BY <1>1 DEF Run
  <2> QED
    BY <1>1, <2>1, <2>2, GuestMoves DEF Run
<1>2. ASSUME NEW k \in Tasks, Trap(k) PROVE TextInv'
  <2>1. GuestTypes' /\ CpuOK'
    BY <1>2 DEF Trap
  <2> QED
    BY <1>2, <2>1, GuestMoves DEF Trap
<1>3. ASSUME NEW k \in Tasks, Crash(k) PROVE TextInv'
  <2>1. GuestTypes' /\ CpuOK'
    BY <1>3 DEF Crash
  <2> QED
    BY <1>3, <2>1, GuestMoves DEF Crash
<1>4. CASE SingleStep
  <2>1. GuestTypes'
    BY <1>4, GoTypes DEF SingleStep
  <2>2. CpuOK'
    BY <1>4 DEF SingleStep
  <2> QED
    BY <1>4, <2>1, <2>2, GuestMoves DEF SingleStep
<1>5. ASSUME NEW k \in Tasks, NEW f \in Functions, Enter(k, f) PROVE TextInv'
  <2>1. at' \in [Tasks -> Places \cup {"out", "dead"}]
    BY <1>5 DEF Enter, Functions, Places
  <2>2. work' \in [Functions -> Nat]
    BY <1>5 DEF Enter
  <2>3. CpuOK'
    BY <1>5 DEF Enter
  <2>4. GuestTypes'
    BY <1>5, <2>1, <2>2 DEF Enter
  <2> QED
    BY <1>5, <2>3, <2>4, GuestMoves DEF Enter
<1> QED
  BY <1>1, <1>2, <1>3, <1>4, <1>5 DEF Guest

----------------------------------------------------------------------------
(* The callbacks. *)

(* int_cb_front writes a byte of the guest's own back.                     *)
LEMMA IntText ==
  ASSUME TextInv, IntCbFront
  PROVE  TextInv'
<1> DEFINE k == cpu.task
           p == at[k]
<1> USE DEF TextInv, TypeOK, IntCbFront, Listening
<1>1. /\ k \in Tasks /\ p \in Places /\ phase = "loop" /\ byte[p] = "orig"
  BY DEF CpuOK, BytesOK
<1>2. UNCHANGED <<phase, attached, todo, calls, byte, events, paused, known, work>>
  OBVIOUS
<1>3. text' = [text EXCEPT ![p] = "orig"]
  BY <1>1
<1>4. Jump(p) \in Places
  BY <1>1 DEF Jump, Places
<1>5. at' \in [Tasks -> Places \cup {"out", "dead"}]
  BY <1>1, <1>4
<1>6. cpu' \in {Free, Cpu("step", k)} /\ step_rewrite_loc' = p
  OBVIOUS
<1>7. cpu' \in [mode : {"free", "trap", "step", "stepped"},
                task : Tasks \cup {NoTask}]
  BY <1>1, <1>6 DEF Free, Cpu
<1>8. CpuOK'
  BY <1>1, <1>4, <1>6 DEF CpuOK, Free, Cpu
<1>9. interrupted' \in {-1, 0, 1} /\ safety' \in Nat
  OBVIOUS
<1>10. saved_regs' \in Tasks \cup {NoTask}
  BY <1>1 DEF Saved
<1>11. diverted' \in SUBSET Tasks
  BY <1>1
<1>12. do_cleanup' = (do_cleanup \/ p = "dwork_back")
       /\ synced' = (synced \/ p = "sys_sync_back")
  OBVIOUS
<1>13. do_cleanup' \in BOOLEAN /\ synced' \in BOOLEAN
  BY <1>12, Zenon
<1>14. TypeOK'
  BY <1>1, <1>2, <1>3, <1>5, <1>6, <1>7, <1>9, <1>10, <1>11, <1>13
<1>15. BytesOK' /\ RestoredOK' /\ TextRestored'
  BY <1>1, <1>2 DEF BytesOK, RestoredOK, TextRestored
<1> QED
  BY <1>8, <1>14, <1>15

(* step_cb_front plants a breakpoint again, in the loop only.              *)
LEMMA StepText ==
  ASSUME TextInv, StepCbFront
  PROVE  TextInv'
<1> USE DEF TextInv, TypeOK, StepCbFront, Listening
<1>1. /\ phase = "loop" /\ step_rewrite_loc \in Places /\ cpu' = Free
      /\ UNCHANGED <<phase, attached, todo, calls, byte, do_cleanup, safety,
                     step_rewrite_loc, saved_regs, events, known, at, work,
                     diverted, synced>>
  BY DEF CpuOK
<1>2. /\ text' \in [Places -> {"orig", "cc"}]
      /\ interrupted' \in {-1, 0, 1} /\ paused' \in Nat
  BY <1>1, PauseCounts
<1>3. cpu' \in [mode : {"free", "trap", "step", "stepped"},
                task : Tasks \cup {NoTask}] /\ CpuOK'
  BY <1>1 DEF Free, CpuOK
<1>4. TypeOK'
  BY <1>1, <1>2, <1>3
<1>5. BytesOK' /\ RestoredOK' /\ TextRestored'
  BY <1>1 DEF BytesOK, RestoredOK, TextRestored
<1> QED
  BY <1>3, <1>4, <1>5

----------------------------------------------------------------------------
(* do_sync itself. *)

(* The bytes saved are the guest's own, because the last call restored     *)
(* them.                                                                   *)
LEMMA BeginText ==
  ASSUME TextInv, Begin
  PROVE  TextInv'
<1> DEFINE plant == {p \in Places : known \/ p \notin {"dwork", "dwork_back"}}
<1> USE DEF TextInv, TypeOK, Begin
<1>1. /\ phase = "idle" /\ phase' = "planted"
      /\ byte' = SavedBytes(plant)
      /\ text' = [p \in Places |-> IF p \in plant THEN "cc" ELSE text[p]]
      /\ UNCHANGED <<todo, interrupted, do_cleanup, safety, step_rewrite_loc,
                     saved_regs, events, known, at, cpu, work, diverted>>
  OBVIOUS
<1>2. text' \in [Places -> {"orig", "cc"}]
      /\ byte' \in [Places -> {"null", "orig", "cc"}]
  BY <1>1 DEF SavedBytes
<1>3. calls' \in Nat /\ paused' \in Nat
  BY PauseCounts
<1>4. attached' \in BOOLEAN /\ synced' \in BOOLEAN /\ ghost' \in BOOLEAN
  OBVIOUS
<1>5. TypeOK'
  <2> HIDE DEF Begin
  <2> QED
    BY <1>1, <1>2, <1>3, <1>4
<1>6. BytesOK'
  BY <1>1 DEF BytesOK, SavedBytes, TextRestored
<1>7. CpuOK' /\ RestoredOK' /\ TextRestored'
  BY <1>1 DEF CpuOK, RestoredOK, TextRestored
<1> QED
  BY <1>5, <1>6, <1>7

(* What the attempt to attach the ghost disk does.                         *)
LEMMA BlockAttached ==
  ASSUME TypeOK, BlockAttach
  PROVE  /\ attached' = TRUE /\ ghost' \in BOOLEAN
         /\ work' \in [Functions -> Nat]
         /\ work'["sys_sync"] = work["sys_sync"]
         /\ work'["dwork"] = work["dwork"] \/ work'["dwork"] = work["dwork"] + 1
         /\ attached => work'["dwork"] = work["dwork"]
<1> USE DEF TypeOK, BlockAttach, Functions
<1>1. CASE UNCHANGED <<ghost, work>>
  BY <1>1
<1>2. CASE work' = [work EXCEPT !["qworko"] = @ + 1, !["dwork"] = @ + 1]
           /\ ~attached /\ ghost' = TRUE
  BY <1>2
<1> QED
  BY <1>1, <1>2

(* The steps between, which touch no text.                                 *)
LEMMA LoopText ==
  ASSUME TextInv,
         EarlyReturn \/ StartLoop \/ Attach \/ ListenFails \/ LeaveLoop
           \/ ClearEvents
  PROVE  TextInv'
<1> USE DEF TextInv, TypeOK, CpuOK, BytesOK, RestoredOK, TextRestored
<1>1. CASE EarlyReturn
  BY <1>1 DEF EarlyReturn
<1>2. CASE StartLoop
  BY <1>2, PauseCounts DEF StartLoop
<1>3. CASE Attach
  BY <1>3, BlockAttached DEF Attach
<1>4. CASE ListenFails
  BY <1>4, BlockAttached, PauseCounts DEF ListenFails
<1>5. CASE LeaveLoop
  BY <1>5 DEF LeaveLoop
<1>6. CASE ClearEvents
  <2>1. todo = 1 /\ todo' = todo /\ phase' = "restore"
    BY <1>6 DEF ClearEvents
  <2>2. RestoredOK'
    BY <2>1
  <2> QED
    BY <1>6, <2>2 DEF ClearEvents
<1> QED
  BY <1>1, <1>2, <1>3, <1>4, <1>5, <1>6

LEMMA RestoreText ==
  ASSUME TextInv, Restore
  PROVE  TextInv'
<1> DEFINE p == RestoreOrder[todo]
<1> USE DEF TextInv, TypeOK
<1>1. /\ phase = "restore" /\ todo \in 1 .. 5 /\ todo' = todo + 1
      /\ text' = [text EXCEPT ![p] = byte[p]]
      /\ UNCHANGED <<phase, attached, calls, globalVars, xenVars, known, at, cpu,
                     work, histVars>>
  BY OrderComplete DEF Restore
<1>2. p \in Places /\ byte[p] = "orig"
  BY <1>1, OrderComplete DEF BytesOK
<1>3. TypeOK'
  BY <1>1, <1>2, OrderComplete
<1>4. ASSUME NEW i \in 1 .. todo PROVE text'[RestoreOrder[i]] = "orig"
  <2>1. RestoreOrder[i] \in Places
    BY <1>1, OrderComplete
  <2>2. i = todo \/ i \in 1 .. todo - 1
    BY <1>1
  <2> QED
    BY <1>1, <1>2, <2>1, <2>2 DEF RestoredOK
<1>5. RestoredOK'
  BY <1>1, <1>4 DEF RestoredOK
<1>6. CpuOK' /\ BytesOK' /\ TextRestored'
  BY <1>1 DEF CpuOK, BytesOK, TextRestored
<1> QED
  BY <1>3, <1>5, <1>6

(* At the end every place has been restored.                               *)
LEMMA FinishText ==
  ASSUME TextInv, Finish
  PROVE  TextInv'
<1> USE DEF TextInv, TypeOK
<1>1. /\ phase = "restore" /\ todo = 6 /\ phase' = "idle" /\ todo' = 1
      /\ UNCHANGED <<attached, calls, globalVars, events, guestVars, histVars>>
  BY OrderComplete DEF Finish
<1>2. paused' \in Nat /\ ghost' \in BOOLEAN
  BY PauseCounts DEF Finish
<1>3. TypeOK'
  BY <1>1, <1>2, OrderComplete
<1>4. \A p \in Places : text[p] = "orig"
  BY <1>1, OrderComplete DEF RestoredOK
<1>5. CpuOK' /\ BytesOK' /\ RestoredOK' /\ TextRestored'
  BY <1>1, <1>4 DEF CpuOK, BytesOK, RestoredOK, TextRestored
<1> QED
  BY <1>3, <1>5

LEMMA TextStep ==
  ASSUME TextInv, [Next]_vars
  PROVE  TextInv'
<1>1. CASE UNCHANGED vars
  BY <1>1 DEF TextInv, TypeOK, CpuOK, BytesOK, RestoredOK, TextRestored
<1> QED
  BY <1>1, GuestText, IntText, StepText, BeginText, LoopText, RestoreText,
     FinishText DEF Next, Sync

LEMMA TextInvariant == Spec => []TextInv
<1>1. TextInv /\ [Next]_vars => TextInv'
  BY TextStep
<1> QED
  BY <1>1, TextInit, PTL DEF Spec

(* Types; a callback never works on a place that is not one (the switch of *)
(* int_cb_front, syncmount.cc 148-221, and the write at 257).              *)
THEOREM DoSyncTypes == Spec => []TypeOK
<1>1. TextInv => TypeOK
  BY DEF TextInv
<1> QED
  BY <1>1, TextInvariant, PTL

(* Whichever way the event loop ends (in order, at the safety halt or by a *)
(* failing listen), whatever the guest's tasks do meanwhile and however    *)
(* often do_sync is called, it leaves no breakpoint in the guest's kernel  *)
(* (412-436): the bytes it puts back were the kernel's own (300-345).      *)
THEOREM TextIsRestored == Spec => []TextRestored
<1>1. TextInv => TextRestored
  BY DEF TextInv
<1> QED
  BY <1>1, TextInvariant, PTL

----------------------------------------------------------------------------
(* The registers of a task that is put back. *)

InWork(k) == at[k] \in {"dwork", "dwork_back"} \/ k \in diverted

(* One task at a time is in the kernel's work or was taken out of it, and  *)
(* only such a task is in sys_sync: its registers are the ones kept.       *)
OneInWork == \A j, k \in Tasks : InWork(j) /\ InWork(k) => j = k
SyncDiverted ==
  \A k \in Tasks : at[k] \in {"sys_sync", "sys_sync_back"} => k \in diverted
DivertedSaved == \A k \in diverted : saved_regs = k

RegsInv ==
  work["sys_sync"] = 0 /\ OneInWork /\ SyncDiverted /\ DivertedSaved

LEMMA IntRegs ==
  ASSUME TypeOK, CpuOK, RegsInv, IntCbFront
  PROVE  RegsInv'
<1> DEFINE k == cpu.task
           p == at[k]
<1> USE DEF RegsInv, TypeOK
<1>1. /\ k \in Tasks /\ p \in Places /\ at' = [at EXCEPT ![k] = Jump(p)]
      /\ saved_regs' = Saved(p, k) /\ work' = work
      /\ diverted' = CASE p = "dwork" -> diverted \cup {k}
                       [] Jump(p) = "dwork" -> diverted \ {k}
                       [] OTHER -> diverted
  BY DEF IntCbFront, CpuOK
<1>2. CASE p = "dwork"
  <2>1. at' = [at EXCEPT ![k] = "sys_sync"] /\ diverted' = diverted \cup {k}
        /\ saved_regs' = k
    BY <1>1, <1>2 DEF Jump, Saved
  <2>2. \A j \in Tasks : InWork(j) => j = k
    BY <1>1, <1>2 DEF OneInWork, InWork
  <2>3. diverted' = {k}
    BY <1>1, <2>1, <2>2 DEF InWork
  <2> QED
    BY <1>1, <2>1, <2>2, <2>3
    DEF OneInWork, SyncDiverted, DivertedSaved, InWork
<1>3. CASE p = "sys_sync_back"
  <2>1. at' = [at EXCEPT ![k] = "dwork"] /\ diverted' = diverted \ {k}
        /\ saved_regs' = saved_regs /\ k \in diverted
    BY <1>1, <1>3 DEF Jump, Saved, SyncDiverted
  <2> QED
    BY <1>1, <2>1 DEF OneInWork, SyncDiverted, DivertedSaved, InWork
<1>4. CASE p \notin {"dwork", "sys_sync_back"}
  <2>1. at' = at /\ diverted' = diverted /\ saved_regs' = saved_regs
    BY <1>1, <1>4 DEF Jump, Saved
  <2> QED
    BY <1>1, <2>1 DEF OneInWork, SyncDiverted, DivertedSaved, InWork
<1> QED
  BY <1>2, <1>3, <1>4

LEMMA GoRegs ==
  ASSUME TypeOK, RegsInv, NEW k \in Tasks, at[k] \in Places, Go(k),
         UNCHANGED <<work, diverted, saved_regs>>
  PROVE  RegsInv'
<1> USE DEF RegsInv, TypeOK
<1>1. at' = [at EXCEPT ![k] = After(at[k])]
  BY DEF Go
<1>2. /\ After(at[k]) \in {"dwork", "dwork_back"} => at[k] = "dwork"
      /\ After(at[k]) \in {"sys_sync", "sys_sync_back"} => at[k] = "sys_sync"
  BY DEF After, Places
<1>3. \A j \in Tasks : InWork(j)' => InWork(j)
  BY <1>1, <1>2 DEF InWork
<1>4. OneInWork'
  BY <1>3 DEF OneInWork
<1>5. SyncDiverted' /\ DivertedSaved'
  BY <1>1, <1>2 DEF SyncDiverted, DivertedSaved
<1> QED
  BY <1>4, <1>5

LEMMA EnterRegs ==
  ASSUME TypeOK, RegsInv, NEW k \in Tasks, NEW f \in Functions, Enter(k, f)
  PROVE  RegsInv'
<1> USE DEF RegsInv, TypeOK
<1>1. /\ at' = [at EXCEPT ![k] = f] /\ work' = [work EXCEPT ![f] = @ - 1]
      /\ f \in {"qworko", "dwork"} /\ MayEnter(f)
      /\ UNCHANGED <<diverted, saved_regs>>
  BY DEF Enter, Functions
<1>2. work'["sys_sync"] = 0
  BY <1>1 DEF Functions
<1>3. OneInWork'
  BY <1>1 DEF OneInWork, InWork, MayEnter
<1>4. SyncDiverted' /\ DivertedSaved'
  BY <1>1 DEF SyncDiverted, DivertedSaved
<1> QED
  BY <1>2, <1>3, <1>4

LEMMA RegsStep ==
  ASSUME TypeOK, CpuOK, RegsInv, [Next]_vars
  PROVE  RegsInv'
<1> USE DEF RegsInv, TypeOK
<1>1. ASSUME UNCHANGED <<at, work, diverted, saved_regs>> PROVE RegsInv'
  BY <1>1 DEF OneInWork, SyncDiverted, DivertedSaved, InWork
<1>2. CASE Begin \/ EarlyReturn \/ StartLoop \/ LeaveLoop \/ ClearEvents
           \/ Restore \/ Finish \/ StepCbFront \/ UNCHANGED vars
  BY <1>1, <1>2 DEF Begin, EarlyReturn, StartLoop, LeaveLoop, ClearEvents,
                    Restore, Finish, StepCbFront
<1>3. CASE Attach \/ ListenFails
  <2>1. work'["sys_sync"] = 0 /\ UNCHANGED <<at, diverted, saved_regs>>
    BY <1>3, BlockAttached DEF Attach, ListenFails
  <2> QED
    BY <2>1 DEF OneInWork, SyncDiverted, DivertedSaved, InWork
<1>4. ASSUME NEW k \in Tasks, Run(k) PROVE RegsInv'
  BY <1>4, GoRegs DEF Run
<1>5. ASSUME NEW k \in Tasks, Trap(k) PROVE RegsInv'
  BY <1>1, <1>5 DEF Trap
<1>6. ASSUME NEW k \in Tasks, Crash(k) PROVE RegsInv'
  <2>1. at' = [at EXCEPT ![k] = "dead"] /\ UNCHANGED <<work, diverted, saved_regs>>
    BY <1>6 DEF Crash
  <2> QED
    BY <2>1 DEF OneInWork, SyncDiverted, DivertedSaved, InWork
<1>7. CASE SingleStep
  BY <1>7, GoRegs DEF SingleStep, CpuOK
<1> QED
  BY <1>2, <1>3, <1>4, <1>5, <1>6, <1>7, IntRegs, EnterRegs
  DEF Next, Sync, Guest

(* In a guest that does not call sync by itself, a task that is put back   *)
(* into deferred_probe_work_func at the end of sys_sync gets the registers *)
(* it was taken out with (syncmount.cc 178-205), and not another task's:   *)
(* for any number of tasks, although what is kept is one global.           *)
THEOREM RegistersComeBack ==
  ASSUME Work["sys_sync"] = 0
  PROVE  Spec => OwnRegisters
<1>1. Init => RegsInv
  BY DEF Init, RegsInv, OneInWork, SyncDiverted, DivertedSaved, InWork
<1>2. TypeOK /\ CpuOK /\ RegsInv /\ [Next]_vars => RegsInv'
  BY RegsStep
<1>3. TextInv => TypeOK /\ CpuOK
  BY DEF TextInv
<1>4. RegsInv =>
        [\A k \in Tasks : at[k] = "sys_sync_back" /\ at'[k] = "dwork"
            => saved_regs = k]_vars
  BY DEF RegsInv, SyncDiverted, DivertedSaved
<1> QED
  BY <1>1, <1>2, <1>3, <1>4, TextInvariant, PTL DEF Spec, OwnRegisters

----------------------------------------------------------------------------
(* The first call.                                                         *)


(* The loop has not been cut short.                                        *)
Uncut == Orderly \/ interrupted = 0

(* Before the call, and on its way to the loop.                            *)
BeforeOK ==
  /\ calls \in {0, 1}
  /\ calls = 1 =>
       /\ phase = "idle" /\ interrupted = 0 /\ ~do_cleanup /\ ~attached
       /\ cpu.mode = "free" /\ work["dwork"] = 0 /\ diverted = {}
       /\ \A k \in Tasks : at[k] \notin {"dwork", "dwork_back"}
       /\ \A p \in Places : text[p] = "orig"
  /\ phase = "planted" =>
       /\ interrupted = 0 /\ ~do_cleanup /\ ~attached /\ cpu.mode = "free"
       /\ paused > 0

(* When somebody listens, and when the guest stands still.                 *)
PausedOK ==
  /\ events <=> phase \in {"loop", "clear"}
  /\ phase \in {"clear", "restore"} => interrupted # 0
  /\ phase = "idle" /\ ~known /\ calls = 0 => paused > 0
  /\ Orderly /\ phase # "idle" => paused > 0

(* The loop ends in order by the step that follows the last breakpoint.    *)
EndOK ==
  /\ Orderly => do_cleanup /\ cpu = Free
  /\ phase = "loop" /\ interrupted = 0 /\ do_cleanup => cpu.mode \in {"step", "stepped"}
  /\ cpu.mode = "step" => at[cpu.task] \in {"qworko", "dwork_back"}
  /\ cpu.mode \in {"step", "stepped"} /\ ~do_cleanup => step_rewrite_loc = "qworko"
  /\ phase = "loop" /\ cpu.mode = "trap" => text[at[cpu.task]] = "cc"

Alive == Uncut => \A k \in Tasks : at[k] # "dead"

FirstInv == BeforeOK /\ PausedOK /\ EndOK /\ Alive

----------------------------------------------------------------------------
LEMMA PauseStops ==
  ASSUME paused \in Nat
  PROVE  PauseVM(paused) > 0
  BY ConstantsAssumption DEF PauseVM

LEMMA FirstInit ==
  ASSUME MaxCalls = 1, Work["dwork"] = 0, Init
  PROVE  FirstInv
  BY ConstantsAssumption
  DEF Init, FirstInv, BeforeOK, PausedOK, EndOK, Alive, Uncut, Orderly, Free

(* The guest's own steps: none of its tasks runs into a breakpoint that is *)
(* not listened for, because it stands still, or has its own text.         *)
LEMMA GuestFirst ==
  ASSUME TextInv, FirstInv,
         Guest \/ \E k \in Tasks, f \in Functions : Enter(k, f)
  PROVE  FirstInv'
<1> USE DEF FirstInv, TextInv, TypeOK, GuestRuns, Uncut, Orderly
<1>1. ASSUME NEW k \in Tasks, Run(k) PROVE FirstInv'
  <2>1. /\ cpu = Free /\ at[k] \in Places /\ at' = [at EXCEPT ![k] = After(at[k])]
        /\ text[at[k]] = "orig"
        /\ UNCHANGED <<callVars, globalVars, xenVars, known, text, cpu, work,
                       diverted>>
    BY <1>1 DEF Run, Go
  <2>2. After(at[k]) # "dead" /\ After(at[k]) # "dwork"
        /\ (After(at[k]) = "dwork_back" => at[k] = "dwork")
    BY <2>1 DEF After, Places
  <2>3. BeforeOK' /\ PausedOK' /\ Alive'
    BY <2>1, <2>2 DEF BeforeOK, PausedOK, Alive
  <2>4. EndOK'
    BY <2>1 DEF EndOK, Free
  <2> QED
    BY <2>3, <2>4
<1>2. ASSUME NEW k \in Tasks, Trap(k) PROVE FirstInv'
  <2>1. /\ cpu = Free /\ cpu' = Cpu("trap", k) /\ text[at[k]] = "cc" /\ events
        /\ paused = 0
        /\ UNCHANGED <<callVars, globalVars, xenVars, known, text, at, work,
                       diverted>>
    BY <1>2 DEF Trap
  <2>2. phase \in {"loop", "clear"} /\ ~Orderly
    BY <2>1 DEF PausedOK
  <2>3. cpu'.mode = "trap" /\ cpu'.task = k
    BY <2>1 DEF Cpu
  <2>4. ~(phase = "loop" /\ interrupted = 0 /\ do_cleanup)
    BY <2>1 DEF EndOK, Free
  <2>5. BeforeOK' /\ PausedOK' /\ Alive'
    BY <2>1, <2>2 DEF BeforeOK, PausedOK, Alive
  <2>6. EndOK'
    BY <2>1, <2>2, <2>3, <2>4 DEF EndOK
  <2> QED
    BY <2>5, <2>6
<1>3. ASSUME NEW k \in Tasks, Crash(k) PROVE FirstInv'
  <2>1. /\ cpu = Free /\ text[at[k]] = "cc" /\ ~events /\ paused = 0
        /\ at[k] \in Places /\ at' = [at EXCEPT ![k] = "dead"]
        /\ UNCHANGED <<callVars, globalVars, xenVars, known, text, cpu, work,
                       diverted>>
    BY <1>3 DEF Crash
  <2>2. CASE phase = "idle"
    BY <2>1, <2>2 DEF BeforeOK, PausedOK, TextRestored
  <2>3. CASE phase = "planted"
    BY <2>1, <2>3 DEF BeforeOK
  <2>4. CASE phase = "restore"
    <3>1. ~Uncut
      BY <2>1, <2>4 DEF PausedOK
    <3>2. BeforeOK' /\ PausedOK' /\ Alive'
      BY <2>1, <2>4, <3>1 DEF BeforeOK, PausedOK, Alive
    <3>3. EndOK'
      BY <2>1, <2>4, <3>1 DEF EndOK, Free
    <3> QED
      BY <3>2, <3>3
  <2> QED
    BY <2>1, <2>2, <2>3, <2>4 DEF PausedOK
<1>4. CASE SingleStep
  <2> DEFINE k == cpu.task
  <2>1. /\ cpu.mode = "step" /\ cpu' = Cpu("stepped", k) /\ paused = 0
        /\ at' = [at EXCEPT ![k] = After(at[k])]
        /\ UNCHANGED <<callVars, globalVars, xenVars, known, text, work,
                       diverted>>
    BY <1>4 DEF SingleStep, Go
  <2>2. k \in Tasks /\ at[k] \in {"qworko", "dwork_back"}
    BY <2>1 DEF CpuOK, EndOK
  <2>3. After(at[k]) = "out" /\ cpu'.mode = "stepped"
    BY <2>1, <2>2 DEF After, Cpu
  <2>4. ~Orderly
    BY <2>1 DEF EndOK, Free
  <2>5. BeforeOK' /\ PausedOK' /\ Alive'
    BY <2>1, <2>2, <2>3 DEF BeforeOK, PausedOK, Alive
  <2>6. EndOK'
    BY <2>1, <2>3, <2>4 DEF EndOK
  <2> QED
    BY <2>5, <2>6
<1>5. ASSUME NEW k \in Tasks, NEW f \in Functions, Enter(k, f) PROVE FirstInv'
  <2>1. /\ cpu = Free /\ at[k] = "out" /\ at' = [at EXCEPT ![k] = f]
        /\ work[f] > 0 /\ work' = [work EXCEPT ![f] = @ - 1]
        /\ UNCHANGED <<callVars, globalVars, xenVars, known, text, cpu, diverted>>
    BY <1>5 DEF Enter
  <2>2. f \notin {"dead", "dwork_back"} /\ (f = "dwork" => calls # 1)
    BY <2>1 DEF BeforeOK, Functions
  <2>3. BeforeOK' /\ PausedOK' /\ Alive'
    BY <2>1, <2>2 DEF BeforeOK, PausedOK, Alive, Functions
  <2>4. EndOK'
    BY <2>1 DEF EndOK, Free
  <2> QED
    BY <2>3, <2>4
<1> QED
  BY <1>1, <1>2, <1>3, <1>4, <1>5 DEF Guest

----------------------------------------------------------------------------
(* The callbacks. *)

LEMMA IntFirst ==
  ASSUME TextInv, FirstInv, IntCbFront
  PROVE  FirstInv'
<1> DEFINE k == cpu.task
           p == at[k]
<1> USE DEF FirstInv, TextInv, TypeOK
<1>1. /\ cpu.mode = "trap" /\ k \in Tasks /\ p \in Places
      /\ phase = "loop" /\ interrupted = 0 /\ text[p] = "cc" /\ byte[p] = "orig"
      /\ calls = 0 /\ known /\ ~do_cleanup
  BY DEF IntCbFront, Listening, CpuOK, EndOK, BytesOK, BeforeOK
<1>2. /\ UNCHANGED <<phase, attached, todo, calls, events, paused, known, work>>
      /\ safety' = safety + 1 /\ at' = [at EXCEPT ![k] = Jump(p)]
      /\ interrupted' = (IF Ends(p, safety + 1) THEN 1 ELSE interrupted)
      /\ step_rewrite_loc' = p
      /\ cpu' = IF Steps(p) THEN Cpu("step", k) ELSE Free
  BY DEF IntCbFront
<1>3. do_cleanup' = (do_cleanup \/ p = "dwork_back")
  BY DEF IntCbFront
<1>4. ~Orderly'
  BY <1>1, <1>2, ConstantsAssumption DEF Orderly, Ends
<1>5. BeforeOK' /\ PausedOK'
  BY <1>1, <1>2, <1>4 DEF BeforeOK, PausedOK
<1>6. Jump(p) # "dead" /\ (Steps(p) => p \in {"qworko", "dwork_back"} /\ Jump(p) = p)
  BY <1>1 DEF Jump, Steps, Places
<1>7. Alive'
  BY <1>1, <1>2, <1>6 DEF Alive, Uncut, Orderly
<1>8. EndOK'
  <2>1. CASE Steps(p)
    <3>1. cpu'.mode = "step" /\ cpu'.task = k /\ at'[k] = p
      BY <1>1, <1>2, <1>6, <2>1 DEF Cpu
    <3> QED
      BY <1>1, <1>2, <1>3, <1>4, <1>6, <2>1, <3>1 DEF EndOK
  <2>2. CASE ~Steps(p)
    <3>1. cpu'.mode = "free" /\ p # "dwork_back"
      BY <1>1, <1>2, <2>2 DEF Free, Steps
    <3> QED
      BY <1>1, <1>3, <1>4, <3>1 DEF EndOK
  <2> QED
    BY <2>1, <2>2
<1> QED
  BY <1>5, <1>7, <1>8

(* step_cb_front ends the loop, and the guest is paused when it does.      *)
LEMMA StepFirst ==
  ASSUME TextInv, FirstInv, StepCbFront
  PROVE  FirstInv'
<1> USE DEF FirstInv, TextInv, TypeOK
<1>1. /\ cpu.mode = "stepped" /\ phase = "loop" /\ interrupted = 0 /\ cpu' = Free
      /\ UNCHANGED <<phase, attached, todo, calls, byte, do_cleanup, safety,
                     step_rewrite_loc, events, known, at, work, diverted>>
  BY DEF StepCbFront, Listening
<1>2. calls = 0 /\ known
  BY <1>1 DEF BeforeOK, BytesOK
<1>3. Alive'
  BY <1>1 DEF Alive, Uncut, Orderly
<1>4. CASE do_cleanup
  <2>1. interrupted' = 1 /\ paused' > 0
    BY <1>4, PauseStops DEF StepCbFront
  <2>2. BeforeOK' /\ PausedOK'
    BY <1>1, <1>2, <2>1 DEF BeforeOK, PausedOK
  <2>3. EndOK'
    BY <1>1, <1>4, <2>1 DEF EndOK, Free
  <2> QED
    BY <1>3, <2>2, <2>3
<1>5. CASE ~do_cleanup
  <2>1. interrupted' = 0 /\ paused' = paused
    BY <1>1, <1>5 DEF StepCbFront
  <2>2. BeforeOK' /\ PausedOK'
    BY <1>1, <1>2, <2>1 DEF BeforeOK, PausedOK, Orderly
  <2>3. EndOK'
    BY <1>1, <1>5, <2>1 DEF EndOK, Free, Orderly
  <2> QED
    BY <1>3, <2>2, <2>3
<1> QED
  BY <1>4, <1>5

----------------------------------------------------------------------------
(* do_sync itself. *)

LEMMA CallFirst ==
  ASSUME TextInv, FirstInv,
         Begin \/ EarlyReturn \/ StartLoop \/ Attach \/ ListenFails
           \/ LeaveLoop \/ ClearEvents \/ Restore \/ Finish
  PROVE  FirstInv'
<1> USE DEF FirstInv, TextInv, TypeOK, Uncut, Orderly
<1>1. CASE Begin
  <2>1. /\ phase = "idle" /\ calls = 1 /\ calls' = 0 /\ phase' = "planted"
        /\ paused' > 0 /\ attached' = FALSE
        /\ UNCHANGED <<todo, interrupted, do_cleanup, safety, step_rewrite_loc,
                       events, known, at, cpu, work, diverted>>
    BY <1>1, PauseStops DEF Begin, BeforeOK
  <2>2. BeforeOK' /\ PausedOK' /\ Alive'
    BY <2>1 DEF BeforeOK, PausedOK, Alive
  <2>3. EndOK'
    BY <2>1 DEF EndOK, BeforeOK
  <2> QED
    BY <2>2, <2>3
<1>2. CASE EarlyReturn
  BY <1>2 DEF EarlyReturn, BeforeOK, PausedOK, EndOK, Alive
<1>3. CASE StartLoop
  <2>1. /\ phase = "planted" /\ interrupted = 0 /\ phase' = "loop" /\ events' = TRUE
        /\ known /\ cpu.mode = "free" /\ ~do_cleanup
        /\ UNCHANGED <<attached, todo, calls, globalVars, guestVars, histVars>>
    BY <1>3 DEF StartLoop, BeforeOK
  <2>2. BeforeOK' /\ PausedOK' /\ Alive'
    BY <2>1 DEF BeforeOK, PausedOK, Alive
  <2>3. EndOK'
    BY <2>1 DEF EndOK
  <2> QED
    BY <2>2, <2>3
<1>4. CASE Attach
  <2>1. /\ phase = "loop" /\ calls = 0
        /\ phase' = IF interrupted = 0 THEN "loop" ELSE "clear"
        /\ UNCHANGED <<calls, globalVars, events, paused, known, text, at, cpu,
                       diverted>>
    BY <1>4 DEF Attach, BeforeOK
  <2> QED
    BY <2>1 DEF BeforeOK, PausedOK, EndOK, Alive
<1>5. CASE ListenFails
  <2>1. /\ phase = "loop" /\ interrupted' = -1 /\ calls = 0 /\ known
        /\ phase' = "clear"
        /\ UNCHANGED <<calls, byte, do_cleanup, safety, step_rewrite_loc,
                       events, known, text, at, cpu, diverted>>
    BY <1>5 DEF ListenFails, BeforeOK, BytesOK
  <2>2. BeforeOK' /\ PausedOK' /\ Alive'
    BY <2>1 DEF BeforeOK, PausedOK, Alive
  <2>3. EndOK'
    BY <2>1 DEF EndOK
  <2> QED
    BY <2>2, <2>3
<1>6. CASE LeaveLoop
  BY <1>6 DEF LeaveLoop, BeforeOK, PausedOK, EndOK, Alive
<1>7. CASE ClearEvents
  BY <1>7 DEF ClearEvents, BeforeOK, PausedOK, EndOK, Alive
<1>8. CASE Restore
  <2>1. /\ phase = "restore" /\ calls = 0
        /\ UNCHANGED <<phase, attached, calls, globalVars, xenVars, known, at, cpu,
                       work, histVars>>
    BY <1>8 DEF Restore, BeforeOK
  <2> QED
    BY <2>1 DEF BeforeOK, PausedOK, EndOK, Alive
<1>9. CASE Finish
  <2>1. /\ phase = "restore" /\ phase' = "idle" /\ calls = 0 /\ known
        /\ UNCHANGED <<attached, calls, globalVars, events, guestVars, histVars>>
    BY <1>9 DEF Finish, BeforeOK, BytesOK
  <2> QED
    BY <2>1 DEF BeforeOK, PausedOK, EndOK, Alive
<1> QED
  BY <1>1, <1>2, <1>3, <1>4, <1>5, <1>6, <1>7, <1>8, <1>9

LEMMA FirstStep ==
  ASSUME TextInv, FirstInv, [Next]_vars
  PROVE  FirstInv'
<1>1. CASE UNCHANGED vars
  BY <1>1 DEF FirstInv, BeforeOK, PausedOK, EndOK, Alive, Uncut, Orderly
<1> QED
  BY <1>1, GuestFirst, IntFirst, StepFirst, CallFirst DEF Next, Sync

LEMMA FirstInvariant ==
  ASSUME MaxCalls = 1, Work["dwork"] = 0
  PROVE  Spec => [](TextInv /\ FirstInv)
<1>1. Init => FirstInv
  BY FirstInit
<1>2. TextInv /\ FirstInv /\ [Next]_vars => FirstInv'
  BY FirstStep
<1> QED
  BY <1>1, <1>2, TextInvariant, PTL DEF Spec

(* In a first call, unless the loop is cut short, no task of the guest     *)
(* runs into a breakpoint that nobody listens for: step_cb_front pauses    *)
(* the guest when it ends the loop (syncmount.cc 248-252), and the text is *)
(* restored before the guest goes on (412-436).                            *)
THEOREM NobodyCrashes ==
  ASSUME MaxCalls = 1, Work["dwork"] = 0
  PROVE  Spec => []NoCrash
<1>1. FirstInv => NoCrash
  BY DEF FirstInv, Alive, Uncut, NoCrash
<1> QED
  BY <1>1, FirstInvariant, PTL

(* In a first call that ends in order, no vCPU is left waiting for a       *)
(* callback: the loop ends in step_cb_front, after the last breakpoint's   *)
(* instruction has been stepped over (do_cleanup, 213-215 and 245-252).    *)
THEOREM NoVcpuWaits ==
  ASSUME MaxCalls = 1, Work["dwork"] = 0
  PROVE  Spec => []VcpuReleased
<1>1. FirstInv => VcpuReleased
  BY DEF FirstInv, EndOK, VcpuReleased
<1> QED
  BY <1>1, FirstInvariant, PTL

----------------------------------------------------------------------------
(* The guest has synced.                                                   *)

AtWork(k) == at[k] \in {"dwork", "dwork_back"}

(* Until it has, either the probe the ghost disk causes is still to reach  *)
(* the breakpoint at the start of deferred_probe_work_func ...             *)
Awaited ==
  /\ text["dwork"] = "cc"
  /\ \A k \in Tasks : at[k] # "dwork_back"
  /\ \/ work["dwork"] = 0 /\ ~attached /\ \A k \in Tasks : ~AtWork(k)
     \/ work["dwork"] = 1 /\ attached /\ \A k \in Tasks : ~AtWork(k)
     \/ /\ work["dwork"] = 0 /\ attached
        /\ \A j, k \in Tasks : AtWork(j) /\ AtWork(k) => j = k

(* ... or the task that reached it has been taken out.                     *)
Taken ==
  /\ text["dwork"] = "orig" /\ attached /\ work["dwork"] = 0
  /\ \A k \in Tasks : ~AtWork(k)

SyncFirst ==
  /\ do_cleanup => synced
  /\ phase \in {"planted", "loop"} /\ known /\ ~synced => Awaited \/ Taken

LEMMA GuestSyncs ==
  ASSUME TextInv, FirstInv, SyncFirst,
         Guest \/ \E k \in Tasks, f \in Functions : Enter(k, f)
  PROVE  SyncFirst'
<1> USE DEF FirstInv, TextInv, TypeOK, SyncFirst, GuestRuns
<1>1. ASSUME NEW k \in Tasks, at[k] \in Places,
             at' = [at EXCEPT ![k] = After(at[k])],
             text[at[k]] = "orig" \/ at[k] \in {"qworko", "dwork_back"},
             UNCHANGED <<phase, attached, known, text, work, do_cleanup>>,
             synced' = (synced \/ at[k] = "sys_sync_back")
      PROVE  SyncFirst'
  <2>1. (do_cleanup => synced') /\ (~synced' => ~synced)
    BY <1>1, Zenon
  <2>2. /\ After(at[k]) # "dwork"
        /\ After(at[k]) = "dwork_back" => at[k] = "dwork" /\ text["dwork"] = "orig"
    BY <1>1 DEF After, Places
  <2>3. Awaited => Awaited'
    BY <1>1, <2>2 DEF Awaited, AtWork
  <2>4. Taken => Taken'
    BY <1>1, <2>2 DEF Taken, AtWork
  <2> QED
    BY <1>1, <2>1, <2>3, <2>4
<1>2. ASSUME NEW k \in Tasks, Run(k) PROVE SyncFirst'
  BY <1>1, <1>2 DEF Run, Go
<1>3. ASSUME NEW k \in Tasks, Trap(k) PROVE SyncFirst'
  BY <1>3 DEF Trap, Awaited, Taken, AtWork
<1>4. ASSUME NEW k \in Tasks, Crash(k) PROVE SyncFirst'
  BY <1>4 DEF Crash, Awaited, Taken, AtWork
<1>5. CASE SingleStep
  <2>1. cpu.task \in Tasks /\ at[cpu.task] \in {"qworko", "dwork_back"}
    BY <1>5 DEF SingleStep, CpuOK, EndOK
  <2> QED
    BY <1>1, <1>5, <2>1 DEF SingleStep, Go, Places
<1>6. ASSUME NEW k \in Tasks, NEW f \in Functions, Enter(k, f) PROVE SyncFirst'
  <2>1. /\ at[k] = "out" /\ at' = [at EXCEPT ![k] = f]
        /\ work[f] > 0 /\ work' = [work EXCEPT ![f] = @ - 1]
        /\ f \in {"qworko", "dwork", "sys_sync"}
        /\ UNCHANGED <<phase, attached, known, text, do_cleanup, synced>>
    BY <1>6 DEF Enter, Functions
  <2>2. Awaited => Awaited'
    <3>1. CASE f = "dwork"
      BY <2>1, <3>1 DEF Awaited, AtWork, Functions
    <3>2. CASE f # "dwork"
      BY <2>1, <3>2 DEF Awaited, AtWork, Functions
    <3> QED
      BY <3>1, <3>2
  <2>3. Taken => Taken'
    BY <2>1 DEF Taken, AtWork, Functions
  <2> QED
    BY <2>1, <2>2, <2>3
<1> QED
  BY <1>2, <1>3, <1>4, <1>5, <1>6 DEF Guest

(* A breakpoint takes the task out, and later ones find the guest synced.  *)
LEMMA IntSyncs ==
  ASSUME TextInv, FirstInv, SyncFirst, IntCbFront
  PROVE  SyncFirst'
<1> DEFINE k == cpu.task
           p == at[k]
<1> USE DEF FirstInv, TextInv, TypeOK, SyncFirst
<1>1. /\ k \in Tasks /\ p \in Places /\ phase = "loop" /\ known
      /\ text[p] = "cc" /\ byte[p] = "orig" /\ text' = [text EXCEPT ![p] = "orig"]
      /\ at' = [at EXCEPT ![k] = Jump(p)]
      /\ UNCHANGED <<phase, attached, known, work>>
  BY DEF IntCbFront, Listening, CpuOK, EndOK, BytesOK
<1>2. /\ do_cleanup' = (do_cleanup \/ p = "dwork_back")
      /\ synced' = (synced \/ p = "sys_sync_back")
  BY DEF IntCbFront
<1>3. CASE synced
  BY <1>2, <1>3
<1>4. CASE p = "sys_sync_back"
  BY <1>2, <1>4
<1>5. CASE ~synced /\ p # "sys_sync_back"
  <2>1. p # "dwork_back"
    BY <1>1, <1>5 DEF Awaited, Taken, AtWork
  <2>2. ~do_cleanup' /\ ~synced'
    BY <1>2, <1>5, <2>1
  <2>3. CASE p = "dwork"
    <3>1. Awaited /\ attached /\ work["dwork"] = 0
          /\ \A j \in Tasks : AtWork(j) => j = k
      BY <1>1, <1>5, <2>3 DEF Awaited, Taken, AtWork
    <3>2. Jump(p) = "sys_sync"
      BY <2>3 DEF Jump
    <3>3. Taken'
      BY <1>1, <2>3, <3>1, <3>2 DEF Taken, AtWork, Places
    <3> QED
      BY <2>2, <3>3
  <2>4. CASE p # "dwork"
    <3>1. Jump(p) = p
      BY <1>1, <1>5, <2>4 DEF Jump, Places
    <3>2. (Awaited => Awaited') /\ (Taken => Taken')
      BY <1>1, <2>4, <3>1 DEF Awaited, Taken, AtWork, Places
    <3> QED
      BY <1>1, <1>5, <2>2, <3>2
  <2> QED
    BY <2>3, <2>4
<1> QED
  BY <1>3, <1>4, <1>5

LEMMA CallSyncs ==
  ASSUME TextInv, FirstInv, SyncFirst, [Next]_vars,
         ~(Guest \/ \E k \in Tasks, f \in Functions : Enter(k, f)),
         ~IntCbFront
  PROVE  SyncFirst'
<1> USE DEF FirstInv, TextInv, TypeOK, SyncFirst
<1>1. CASE Begin
  <2>1. /\ calls = 1 /\ phase' = "planted" /\ attached' = FALSE /\ synced' = FALSE
        /\ ~do_cleanup' /\ work["dwork"] = 0 /\ \A k \in Tasks : ~AtWork(k)
        /\ UNCHANGED <<known, at, work>>
    BY <1>1 DEF Begin, BeforeOK, AtWork
  <2>2. known => text'["dwork"] = "cc"
    BY <1>1 DEF Begin, Places
  <2> QED
    BY <2>1, <2>2 DEF Awaited, AtWork
<1>2. CASE StepCbFront
  <2>1. /\ UNCHANGED <<phase, attached, do_cleanup, known, at, work, synced>>
        /\ ~do_cleanup => step_rewrite_loc = "qworko"
        /\ do_cleanup => text' = text
        /\ ~do_cleanup => text' = [text EXCEPT !["qworko"] = "cc"]
    BY <1>2 DEF StepCbFront, EndOK
  <2>2. text'["dwork"] = text["dwork"]
    BY <2>1 DEF Places
  <2> QED
    BY <2>1, <2>2 DEF Awaited, Taken, AtWork
<1>3. CASE Attach
  <2>1. /\ phase = "loop" /\ ~attached /\ attached' = TRUE
        /\ work'["dwork"] = work["dwork"] \/ work'["dwork"] = work["dwork"] + 1
        /\ UNCHANGED <<do_cleanup, known, text, at, synced>>
    BY <1>3, BlockAttached DEF Attach
  <2>2. Awaited => Awaited'
    BY <2>1 DEF Awaited, AtWork
  <2>3. ~Taken
    BY <2>1 DEF Taken
  <2> QED
    BY <2>1, <2>2, <2>3
<1>4. CASE EarlyReturn \/ StartLoop \/ LeaveLoop \/ ClearEvents \/ Finish
           \/ UNCHANGED vars
  <2>1. /\ UNCHANGED <<attached, do_cleanup, known, text, at, work, synced>>
        /\ phase' \in {"planted", "loop"} => phase \in {"planted", "loop"}
    BY <1>4 DEF EarlyReturn, StartLoop, LeaveLoop, ClearEvents, Finish
  <2> QED
    BY <2>1 DEF Awaited, Taken, AtWork
<1>5. CASE Restore
  BY <1>5 DEF Restore
<1>6. CASE ListenFails
  BY <1>6 DEF ListenFails
<1> QED
  BY <1>1, <1>2, <1>3, <1>4, <1>5, <1>6 DEF Next, Sync

(* In a first call that ends in order the guest has run sys_sync to its    *)
(* end when do_sync returns, whatever else its tasks do, calls of sync and*)
(* the queueing of other work included: the loop ends at the end of        *)
(* deferred_probe_work_func (syncmount.cc 168-215), which no task reaches  *)
(* before sys_sync has been run.                                           *)
THEOREM GuestHasSynced ==
  ASSUME MaxCalls = 1, Work["dwork"] = 0
  PROVE  Spec => []SyncedOnReturn
<1>1. Init => SyncFirst
  BY DEF Init, SyncFirst
<1>2. TextInv /\ FirstInv /\ SyncFirst /\ [Next]_vars => SyncFirst'
  BY GuestSyncs, IntSyncs, CallSyncs
<1>3. FirstInv /\ SyncFirst => SyncedOnReturn
  BY DEF FirstInv, EndOK, SyncFirst, SyncedOnReturn
<1> QED
  BY <1>1, <1>2, <1>3, FirstInvariant, PTL DEF Spec

----------------------------------------------------------------------------
(* The task taken out of the kernel's work.                                *)

(* Until a task is taken out, and while one is, the breakpoint at the end  *)
(* of sys_sync is there to send it back; the loop does not end before.     *)
WaitsInSync ==
  /\ phase = "loop" /\ text["dwork"] = "orig"
  /\ \A k \in diverted : at[k] \in {"sys_sync", "sys_sync_back"}
DivertInv ==
  /\ do_cleanup => diverted = {}
  /\ Uncut /\ diverted # {} => WaitsInSync
  /\ phase \in {"planted", "loop"} /\ known
       /\ (diverted # {} \/ text["dwork"] = "cc") => text["sys_sync_back"] = "cc"

LEMMA GuestDiverts ==
  ASSUME TextInv, FirstInv, FirstInv', DivertInv,
         Guest \/ \E k \in Tasks, f \in Functions : Enter(k, f)
  PROVE  DivertInv'
<1> USE DEF FirstInv, TextInv, TypeOK, DivertInv, GuestRuns
<1>1. /\ UNCHANGED <<phase, known, text, interrupted, do_cleanup, safety, diverted>>
      /\ Uncut' <=> Uncut
  BY DEF Guest, Run, Trap, Crash, SingleStep, Enter, Uncut, Orderly
<1>2. ASSUME Uncut, NEW j \in diverted
      PROVE  at'[j] \in {"sys_sync", "sys_sync_back"}
  <2>1. /\ WaitsInSync /\ at[j] \in {"sys_sync", "sys_sync_back"} /\ j \in Tasks
        /\ text["sys_sync_back"] = "cc" /\ known
    BY <1>2 DEF WaitsInSync, BytesOK
  <2>2. ASSUME NEW k \in Tasks, Run(k) PROVE at'[j] \in {"sys_sync", "sys_sync_back"}
    <3>1. at' = [at EXCEPT ![k] = After(at[k])] /\ text[at[k]] = "orig"
      BY <2>2 DEF Run, Go
    <3> QED
      BY <2>1, <3>1 DEF After
  <2>3. ASSUME NEW k \in Tasks, Crash(k) PROVE at'[j] \in {"sys_sync", "sys_sync_back"}
    <3>1. at' = [at EXCEPT ![k] = "dead"] /\ at'[k] # "dead"
      BY <1>1, <1>2, <2>3 DEF Crash, Alive
    <3> QED
      BY <3>1
  <2>4. CASE SingleStep
    <3>1. /\ cpu.task \in Tasks /\ at[cpu.task] \in {"qworko", "dwork_back"}
          /\ at' = [at EXCEPT ![cpu.task] = After(at[cpu.task])]
      BY <2>4 DEF SingleStep, Go, CpuOK, EndOK
    <3> QED
      BY <2>1, <3>1
  <2>5. ASSUME NEW k \in Tasks, NEW f \in Functions, Enter(k, f)
        PROVE  at'[j] \in {"sys_sync", "sys_sync_back"}
    <3>1. at[k] = "out" /\ at' = [at EXCEPT ![k] = f]
      BY <2>5 DEF Enter
    <3> QED
      BY <2>1, <3>1
  <2>6. ASSUME NEW k \in Tasks, Trap(k) PROVE at'[j] \in {"sys_sync", "sys_sync_back"}
    BY <2>1, <2>6 DEF Trap
  <2> QED
    BY <2>2, <2>3, <2>4, <2>5, <2>6 DEF Guest
<1> QED
  BY <1>1, <1>2 DEF WaitsInSync

LEMMA IntDiverts ==
  ASSUME TextInv, RegsInv, FirstInv, DivertInv, IntCbFront
  PROVE  DivertInv'
<1> DEFINE k == cpu.task
           p == at[k]
<1> USE DEF FirstInv, TextInv, TypeOK, DivertInv
<1>1. /\ k \in Tasks /\ p \in Places /\ phase = "loop" /\ interrupted = 0 /\ known
      /\ text[p] = "cc" /\ byte[p] = "orig" /\ text' = [text EXCEPT ![p] = "orig"]
      /\ at' = [at EXCEPT ![k] = Jump(p)] /\ ~do_cleanup
      /\ UNCHANGED <<phase, known>>
      /\ diverted' = CASE p = "dwork" -> diverted \cup {k}
                       [] Jump(p) = "dwork" -> diverted \ {k}
                       [] OTHER -> diverted
  BY DEF IntCbFront, Listening, CpuOK, EndOK, BytesOK
<1>2. do_cleanup' = (do_cleanup \/ p = "dwork_back") /\ Uncut
  BY <1>1 DEF IntCbFront, Uncut
<1>3. diverted # {} => WaitsInSync
  BY <1>2
<1>4. CASE p = "dwork"
  <2>1. diverted' = {k} /\ at'[k] = "sys_sync" /\ text["sys_sync_back"] = "cc"
    BY <1>1, <1>3, <1>4 DEF WaitsInSync, Jump
  <2> QED
    BY <1>1, <1>2, <1>4, <2>1 DEF WaitsInSync, Places
<1>5. CASE p = "sys_sync_back"
  <2>1. k \in diverted /\ diverted' = diverted \ {k}
    BY <1>1, <1>5 DEF Jump, RegsInv, SyncDiverted
  <2>2. diverted' = {} /\ text["dwork"] = "orig"
    BY <1>3, <2>1 DEF RegsInv, OneInWork, InWork, WaitsInSync
  <2> QED
    BY <1>1, <1>2, <1>5, <2>2 DEF Places
<1>6. CASE p = "dwork_back"
  <2>1. at' = at /\ diverted' = diverted
    BY <1>1, <1>6 DEF Jump
  <2>2. diverted = {}
    BY <1>1, <1>3, <1>6 DEF RegsInv, OneInWork, InWork, WaitsInSync
  <2> QED
    BY <1>1, <1>2, <1>6, <2>1, <2>2 DEF Places
<1>7. CASE p \in {"qworko", "sys_sync"}
  <2>1. at' = at /\ diverted' = diverted
    BY <1>1, <1>7 DEF Jump
  <2> QED
    BY <1>1, <1>2, <1>3, <1>7, <2>1 DEF WaitsInSync, Places
<1> QED
  BY <1>1, <1>4, <1>5, <1>6, <1>7 DEF Places

LEMMA CallDiverts ==
  ASSUME TextInv, FirstInv, FirstInv', DivertInv, [Next]_vars,
         ~(Guest \/ \E k \in Tasks, f \in Functions : Enter(k, f)),
         ~IntCbFront
  PROVE  DivertInv'
<1> USE DEF FirstInv, TextInv, TypeOK, DivertInv
<1>1. CASE Begin
  <2>1. diverted' = {} /\ phase' = "planted" /\ known' = known
    BY <1>1 DEF Begin, BeforeOK
  <2>2. known => text'["sys_sync_back"] = "cc"
    BY <1>1 DEF Begin, Places
  <2> QED
    BY <2>1, <2>2
<1>2. CASE StepCbFront
  <2>1. /\ phase = "loop" /\ interrupted = 0
        /\ UNCHANGED <<phase, do_cleanup, known, at, diverted>>
        /\ ~do_cleanup => step_rewrite_loc = "qworko"
        /\ do_cleanup => text' = text
        /\ ~do_cleanup => text' = [text EXCEPT !["qworko"] = "cc"]
    BY <1>2 DEF StepCbFront, Listening, EndOK
  <2>2. /\ text'["dwork"] = text["dwork"]
        /\ text'["sys_sync_back"] = text["sys_sync_back"] /\ Uncut
    BY <2>1 DEF Places, Uncut
  <2> QED
    BY <2>1, <2>2 DEF WaitsInSync
<1>3. CASE LeaveLoop \/ (Attach /\ interrupted # 0)
  <2>1. /\ interrupted # 0
        /\ UNCHANGED <<interrupted, safety, do_cleanup, known, at, diverted, text>>
        /\ phase' = "clear"
    BY <1>3 DEF LeaveLoop, Attach
  <2>2. Uncut' => diverted' = {}
    BY <2>1 DEF Uncut, Orderly, EndOK
  <2> QED
    BY <2>1, <2>2
<1>4. CASE EarlyReturn \/ StartLoop \/ (Attach /\ interrupted = 0)
           \/ ClearEvents \/ Finish \/ UNCHANGED vars
  <2>1. /\ UNCHANGED <<do_cleanup, known, text, at, diverted>>
        /\ phase' \in {"planted", "loop"} => phase \in {"planted", "loop"}
        /\ phase = "loop" => phase' = "loop"
        /\ Uncut' => Uncut
    BY <1>4 DEF EarlyReturn, StartLoop, Attach, ClearEvents, Finish, Uncut,
                Orderly
  <2> QED
    BY <2>1 DEF WaitsInSync
<1>5. CASE Restore
  <2>1. /\ phase = "restore" /\ phase' = "restore"
        /\ UNCHANGED <<do_cleanup, diverted, interrupted, safety>>
    BY <1>5 DEF Restore
  <2> QED
    BY <2>1 DEF WaitsInSync, Uncut, Orderly
<1>6. CASE ListenFails
  <2>1. /\ interrupted' = -1 /\ phase' = "clear"
        /\ UNCHANGED <<do_cleanup, diverted>>
    BY <1>6 DEF ListenFails
  <2> QED
    BY <2>1 DEF Uncut, Orderly
<1> QED
  BY <1>1, <1>2, <1>3, <1>4, <1>5, <1>6 DEF Next, Sync

(* In a first call, in a guest that does not call sync by itself, a task   *)
(* taken out of deferred_probe_work_func is in sys_sync until it is put    *)
(* back (syncmount.cc 168-205), unless the loop is cut short: the kernel's *)
(* work is not lost, and the loop does not end while a task is out.        *)
THEOREM TaskComesBack ==
  ASSUME MaxCalls = 1, Work["dwork"] = 0, Work["sys_sync"] = 0
  PROVE  Spec => []DivertedComesBack
<1>1. Init => RegsInv /\ DivertInv
  BY DEF Init, RegsInv, OneInWork, SyncDiverted, DivertedSaved, InWork, DivertInv
<1>2. TextInv /\ RegsInv /\ [Next]_vars => RegsInv'
  BY RegsStep DEF TextInv
<1>3. TextInv /\ FirstInv /\ FirstInv' /\ RegsInv /\ DivertInv /\ [Next]_vars
        => DivertInv'
  BY GuestDiverts, IntDiverts, CallDiverts
<1>4. DivertInv => DivertedComesBack
  BY DEF DivertInv, WaitsInSync, Uncut, DivertedComesBack
<1> QED
  BY <1>1, <1>2, <1>3, <1>4, FirstInvariant, PTL DEF Spec
=============================================================================
