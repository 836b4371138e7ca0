------------------------ MODULE SyncRefinementProofs ------------------------
(***************************************************************************)
(* The proof that do_sync, with its breakpoints, callbacks and exits, does *)
(* for its callers no more than SyncService: for every number of guest     *)
(* tasks and of calls, any safety limit, and whatever the callers pause.   *)
(***************************************************************************)
EXTENDS SyncRefinement, DoSyncProofs

USE DEF callVars, globalVars, xenVars, guestVars, histVars, vars

(* Somebody listens from the registration of the events to their clearing. *)
EventsOK == events <=> phase \in {"loop", "clear"}

(* As long as no event loop has ended, a call finds the guest at none of   *)
(* the places of deferred_probe_work_func ...                              *)
BeforeLoop ==
  interrupted = 0 /\ phase \in {"idle", "planted"} =>
    /\ ~do_cleanup /\ cpu.mode = "free"
    /\ work["dwork"] = 0 /\ \A k \in Tasks : ~AtWork(k)
    /\ phase = "planted" => ~attached /\ (known => text["dwork"] = "cc")

(* ... and the loop takes the first task that gets there out for a sync.   *)
InLoop ==
  interrupted = 0 /\ phase = "loop" =>
    /\ do_cleanup => synced
    /\ ~synced => Awaited \/ Taken
    /\ cpu.mode = "step" => at[cpu.task] \in {"qworko", "dwork_back"}
    /\ cpu.mode \in {"step", "stepped"} /\ ~do_cleanup =>
         step_rewrite_loc = "qworko"

(* The pause count once the breakpoints are planted. *)
Once == ResumeVM(PauseVM(entry.paused))

(* How a loop that was entered is left: in order, by the safety halt,      *)
(* after a failed listen, or after one that failed at the very end.        *)
LoopEnded ==
  \/ Orderly /\ synced /\ Once = 0 /\ paused = PauseVM(Once)
  \/ ~Orderly /\ paused = Once /\ Once = 0
  \/ /\ ~Orderly /\ phase # "loop"
     /\ \/ paused = PauseVM(Once)
        \/ synced /\ Once = 0 /\ paused = PauseVM(PauseVM(Once))

(* What a call has made of the pause count it found.                       *)
CallOK ==
  /\ entry.paused \in Nat /\ entry.skip \in BOOLEAN
  /\ interrupted = 0 => safety <= SafetyMax
  /\ phase = "planted" =>
       paused = PauseVM(entry.paused) /\ (entry.skip <=> interrupted # 0)
  /\ phase = "loop" => ~entry.skip
  /\ phase = "loop" /\ interrupted = 0 =>
       paused = Once /\ (cpu.mode # "free" => Once = 0)
  /\ phase \in {"clear", "restore"} => interrupted # 0
  /\ phase \in {"clear", "restore"} /\ entry.skip => paused = Once
  /\ phase \in {"loop", "clear", "restore"} /\ ~entry.skip /\ interrupted # 0 =>
       LoopEnded

RInv == TextInv /\ EventsOK /\ BeforeLoop /\ InLoop /\ CallOK


----------------------------------------------------------------------------
LEMMA Counts ==
  ASSUME NEW p \in Nat
  PROVE  /\ PauseVM(p) \in Nat /\ PauseVM(p) > 0
         /\ ResumeVM(p) \in Nat
  BY ConstantsAssumption DEF PauseVM, ResumeVM

LEMMA RefInit ==
  ASSUME Work["dwork"] = 0, InitR
  PROVE  RInv
<1>1. TextInv
  BY TextInit DEF InitR
<1>2. EventsOK /\ BeforeLoop /\ InLoop
  BY DEF InitR, Init, EventsOK, BeforeLoop, InLoop, AtWork, Free
<1>3. CallOK
  BY ConstantsAssumption DEF InitR, Init, Entered, CallOK
<1> QED
  BY <1>1, <1>2, <1>3 DEF RInv

(* A task goes on past a place that is not the breakpoint it waits for.    *)
LEMMA GoKeeps ==
  ASSUME TypeOK, NEW k \in Tasks, at[k] \in Places,
         at' = [at EXCEPT ![k] = After(at[k])],
         text[at[k]] = "orig" \/ at[k] \in {"qworko", "dwork_back"},
         UNCHANGED <<attached, text, work>>
  PROVE  /\ Awaited => Awaited'
         /\ Taken => Taken'
         /\ (\A j \in Tasks : ~AtWork(j)) => \A j \in Tasks : ~AtWork(j)'
<1> USE DEF TypeOK
<1>1. /\ After(at[k]) # "dwork"
      /\ After(at[k]) = "dwork_back" => at[k] = "dwork"
  BY DEF After, Places
<1>2. Awaited => Awaited'
  BY <1>1 DEF Awaited, AtWork
<1>3. Taken => Taken'
  BY <1>1 DEF Taken, AtWork
<1>4. (\A j \in Tasks : ~AtWork(j)) => \A j \in Tasks : ~AtWork(j)'
  BY <1>1 DEF AtWork
<1> QED
  BY <1>2, <1>3, <1>4

(* The guest's own steps. *)
LEMMA GuestKeeps ==
  ASSUME RInv, UNCHANGED entry,
         Guest \/ \E k \in Tasks, f \in Functions : Enter(k, f)
  PROVE  EventsOK' /\ BeforeLoop' /\ InLoop' /\ CallOK'
<1> USE DEF RInv, TextInv, TypeOK, GuestRuns
<1>1. /\ UNCHANGED <<callVars, globalVars, xenVars, known, text, diverted>>
      /\ synced => synced'
  BY DEF Guest, Run, Trap, Crash, SingleStep, Enter, Go
<1>2. EventsOK'
  BY <1>1 DEF EventsOK
<1>3. CallOK'
  <2>1. Once' = Once /\ Orderly' = Orderly
    BY <1>1 DEF Once, Orderly
  <2>2. LoopEnded => LoopEnded'
    BY <1>1, <2>1 DEF LoopEnded
  <2>3. ASSUME phase = "loop", interrupted = 0, cpu'.mode # "free" PROVE Once = 0
    <3>1. CASE cpu.mode # "free"
      BY <2>3, <3>1 DEF CallOK
    <3>2. CASE cpu.mode = "free"
      <4>1. paused = 0
        BY <1>1, <2>3, <3>2
        DEF Guest, Run, Trap, Crash, SingleStep, Enter
      <4> QED
        BY <2>3, <4>1 DEF CallOK
    <3> QED
      BY <3>1, <3>2
  <2> QED
    BY <1>1, <2>1, <2>2, <2>3 DEF CallOK
<1>4. ASSUME NEW k \in Tasks, at[k] \in Places,
             at' = [at EXCEPT ![k] = After(at[k])],
             text[at[k]] = "orig" \/ at[k] \in {"qworko", "dwork_back"},
             work' = work
      PROVE  /\ Awaited => Awaited'
             /\ Taken => Taken'
             /\ (\A j \in Tasks : ~AtWork(j)) => \A j \in Tasks : ~AtWork(j)'
  BY <1>1, <1>4, GoKeeps
<1>5. ASSUME NEW k \in Tasks, Run(k) PROVE BeforeLoop' /\ InLoop'
  <2>1. /\ at[k] \in Places /\ text[at[k]] = "orig" /\ cpu = Free
        /\ at' = [at EXCEPT ![k] = After(at[k])] /\ UNCHANGED <<work, cpu>>
    BY <1>5 DEF Run, Go
  <2> QED
    BY <1>1, <1>4, <2>1 DEF BeforeLoop, InLoop, Free
<1>6. ASSUME NEW k \in Tasks, Trap(k) PROVE BeforeLoop' /\ InLoop'
  <2>1. UNCHANGED <<at, work, synced>> /\ cpu'.mode = "trap" /\ events
    BY <1>6 DEF Trap, Cpu
  <2>2. (Awaited => Awaited') /\ (Taken => Taken')
    BY <1>1, <2>1 DEF Awaited, Taken, AtWork
  <2> QED
    BY <1>1, <2>1, <2>2 DEF BeforeLoop, InLoop, EventsOK
<1>7. ASSUME NEW k \in Tasks, Crash(k) PROVE BeforeLoop' /\ InLoop'
  <2>1. /\ at' = [at EXCEPT ![k] = "dead"] /\ UNCHANGED <<work, synced, cpu>>
        /\ ~events
    BY <1>7 DEF Crash
  <2> QED
    BY <1>1, <2>1 DEF BeforeLoop, InLoop, EventsOK, AtWork
<1>8. CASE SingleStep
  <2>1. /\ cpu.mode = "step" /\ cpu' = Cpu("stepped", cpu.task) /\ work' = work
        /\ at' = [at EXCEPT ![cpu.task] = After(at[cpu.task])]
    BY <1>8 DEF SingleStep, Go
  <2>2. cpu'.mode = "stepped"
    BY <2>1 DEF Cpu
  <2>3. cpu.task \in Tasks
    BY <2>1 DEF CpuOK
  <2>4. BeforeLoop'
    BY <1>1, <2>1 DEF BeforeLoop
  <2>5. ASSUME interrupted = 0, phase = "loop" PROVE InLoop'
    <3>1. at[cpu.task] \in {"qworko", "dwork_back"}
      BY <2>1, <2>5 DEF InLoop
    <3>2. (Awaited => Awaited') /\ (Taken => Taken')
      BY <1>4, <2>1, <2>3, <3>1 DEF Places
    <3> QED
      BY <1>1, <2>1, <2>2, <3>2 DEF InLoop
  <2> QED
    BY <1>1, <1>2, <1>3, <2>4, <2>5 DEF InLoop
<1>9. ASSUME NEW k \in Tasks, NEW f \in Functions, Enter(k, f)
      PROVE  BeforeLoop' /\ InLoop'
  <2>1. /\ at[k] = "out" /\ at' = [at EXCEPT ![k] = f] /\ cpu = Free
        /\ work[f] > 0 /\ work' = [work EXCEPT ![f] = @ - 1]
        /\ f \in {"qworko", "dwork", "sys_sync"}
        /\ UNCHANGED <<cpu, synced>>
    BY <1>9 DEF Enter, Functions
  <2>2. Awaited => Awaited'
    <3>1. CASE f = "dwork"
      BY <1>1, <2>1, <3>1 DEF Awaited, AtWork, Functions
    <3>2. CASE f # "dwork"
      BY <1>1, <2>1, <3>2 DEF Awaited, AtWork, Functions
    <3> QED
      BY <3>1, <3>2
  <2>3. Taken => Taken'
    BY <1>1, <2>1 DEF Taken, AtWork, Functions
  <2>4. BeforeLoop'
    BY <1>1, <2>1 DEF BeforeLoop, AtWork, Functions
  <2>5. InLoop'
    BY <1>1, <2>1, <2>2, <2>3 DEF InLoop, Free
  <2> QED
    BY <2>4, <2>5
<1> QED
  BY <1>2, <1>3, <1>5, <1>6, <1>7, <1>8, <1>9 DEF Guest


----------------------------------------------------------------------------
(* The callbacks. *)

LEMMA IntKeeps ==
  ASSUME RInv, UNCHANGED entry, IntCbFront
  PROVE  EventsOK' /\ BeforeLoop' /\ InLoop' /\ CallOK'
<1> DEFINE k == cpu.task
           p == at[k]
<1> USE DEF RInv, TextInv, TypeOK
<1>1. /\ k \in Tasks /\ p \in Places /\ phase = "loop" /\ interrupted = 0
      /\ cpu.mode = "trap" /\ known /\ byte[p] = "orig"
      /\ text' = [text EXCEPT ![p] = "orig"]
      /\ at' = [at EXCEPT ![k] = Jump(p)]
      /\ UNCHANGED <<phase, attached, known, work, events, paused>>
      /\ safety' = safety + 1
      /\ interrupted' = (IF Ends(p, safety + 1) THEN 1 ELSE interrupted)
      /\ step_rewrite_loc' = p
      /\ cpu' = IF Steps(p) THEN Cpu("step", k) ELSE Free
  BY DEF IntCbFront, Listening, CpuOK, BytesOK
<1>2. do_cleanup' = (do_cleanup \/ p = "dwork_back")
  BY DEF IntCbFront
<1>3. synced' = (synced \/ p = "sys_sync_back")
  BY DEF IntCbFront
<1>4. EventsOK' /\ BeforeLoop'
  BY <1>1 DEF EventsOK, BeforeLoop
<1>5. Once' = Once /\ Once = 0 /\ paused = 0
  BY <1>1 DEF CallOK, Once
<1>6. CallOK'
  <2>1. CASE Ends(p, safety + 1)
    <3>1. ~Orderly' /\ interrupted' = 1
      BY <1>1, <2>1, ConstantsAssumption DEF Orderly, Ends
    <3>2. LoopEnded'
      BY <1>1, <1>5, <3>1 DEF LoopEnded
    <3> QED
      BY <1>1, <1>5, <3>1, <3>2 DEF CallOK
  <2>2. CASE ~Ends(p, safety + 1)
    <3>1. safety' <= SafetyMax /\ interrupted' = 0
      BY <1>1, <2>2, ConstantsAssumption DEF Ends
    <3> QED
      BY <1>1, <1>5, <3>1 DEF CallOK
  <2> QED
    BY <2>1, <2>2
<1>7. (do_cleanup' => synced') /\ (~synced' => (Awaited \/ Taken)')
  <2>1. CASE synced
    BY <1>3, <2>1
  <2>2. CASE p = "sys_sync_back"
    BY <1>3, <2>2
  <2>3. CASE ~synced /\ p # "sys_sync_back"
    <3>1. /\ ~do_cleanup /\ p # "dwork_back"
          /\ Awaited \/ Taken
      BY <1>1, <2>3 DEF InLoop, Awaited, Taken, AtWork
    <3>2. CASE p = "dwork"
      <4>1. Awaited /\ attached /\ work["dwork"] = 0
            /\ \A j \in Tasks : AtWork(j) => j = k
        BY <1>1, <3>1, <3>2 DEF Awaited, Taken, AtWork
      <4>2. Jump(p) = "sys_sync"
        BY <3>2 DEF Jump
      <4>3. Taken'
        BY <1>1, <3>2, <4>1, <4>2 DEF Taken, AtWork, Places
      <4> QED
        BY <1>2, <3>1, <4>3
    <3>3. CASE p # "dwork"
      <4>1. Jump(p) = p
        BY <1>1, <2>3, <3>3 DEF Jump, Places
      <4>2. (Awaited => Awaited') /\ (Taken => Taken')
        BY <1>1, <3>3, <4>1 DEF Awaited, Taken, AtWork, Places
      <4> QED
        BY <1>2, <3>1, <4>2
    <3> QED
      BY <3>2, <3>3
  <2> QED
    BY <2>1, <2>2, <2>3
<1>8. InLoop'
  <2>1. CASE Steps(p)
    <3>1. /\ cpu'.mode = "step" /\ cpu'.task = k /\ at'[k] = p
          /\ p \in {"qworko", "dwork_back"}
      BY <1>1, <2>1 DEF Steps, Jump, Cpu
    <3> QED
      BY <1>1, <1>2, <1>7, <3>1 DEF InLoop
  <2>2. CASE ~Steps(p)
    <3>1. cpu'.mode = "free"
      BY <1>1, <2>2 DEF Free
    <3> QED
      BY <1>7, <3>1 DEF InLoop
  <2> QED
    BY <2>1, <2>2
<1> QED
  BY <1>4, <1>6, <1>8

(* step_cb_front ends the loop in order, and then the guest has synced.    *)
LEMMA StepCbKeeps ==
  ASSUME RInv, UNCHANGED entry, StepCbFront
  PROVE  EventsOK' /\ BeforeLoop' /\ InLoop' /\ CallOK'
<1> USE DEF RInv, TextInv, TypeOK
<1>1. /\ cpu.mode = "stepped" /\ phase = "loop" /\ interrupted = 0 /\ cpu' = Free
      /\ UNCHANGED <<phase, attached, todo, calls, byte, do_cleanup, safety,
                     step_rewrite_loc, events, known, at, work, synced>>
  BY DEF StepCbFront, Listening
<1>2. EventsOK' /\ BeforeLoop'
  BY <1>1 DEF EventsOK, BeforeLoop
<1>3. Once' = Once /\ Once = 0 /\ paused = 0
  BY <1>1 DEF CallOK, Once
<1>4. CASE do_cleanup
  <2>1. interrupted' = 1 /\ paused' = PauseVM(Once) /\ synced'
    BY <1>1, <1>3, <1>4 DEF StepCbFront, InLoop
  <2>2. LoopEnded'
    <3>1. Orderly'
      BY <1>1, <2>1 DEF CallOK, Orderly
    <3> QED
      BY <1>3, <2>1, <3>1 DEF LoopEnded
  <2>3. InLoop'
    BY <2>1 DEF InLoop
  <2>4. CallOK'
    BY <1>1, <1>3, <2>1, <2>2 DEF CallOK
  <2> QED
    BY <1>2, <2>3, <2>4
<1>5. CASE ~do_cleanup
  <2>1. /\ interrupted' = 0 /\ paused' = paused
        /\ text' = [text EXCEPT !["qworko"] = "cc"]
    BY <1>1, <1>5 DEF StepCbFront, InLoop
  <2>2. (Awaited => Awaited') /\ (Taken => Taken')
    <3>1. text'["dwork"] = text["dwork"]
      BY <2>1 DEF Places
    <3> QED
      BY <1>1, <3>1 DEF Awaited, Taken, AtWork
  <2>3. InLoop'
    BY <1>1, <1>5, <2>2 DEF InLoop, Free
  <2>4. CallOK'
    BY <1>1, <1>3, <2>1 DEF CallOK, Free
  <2> QED
    BY <1>2, <2>3, <2>4
<1> QED
  BY <1>4, <1>5


----------------------------------------------------------------------------
(* do_sync itself. *)

LEMMA BeginKeeps ==
  ASSUME RInv, Begin, entry' = Entered
  PROVE  EventsOK' /\ BeforeLoop' /\ InLoop' /\ CallOK'
<1> USE DEF RInv, TextInv, TypeOK
<1>1. /\ phase = "idle" /\ phase' = "planted" /\ attached' = FALSE
      /\ paused' = PauseVM(paused)
      /\ known => text'["dwork"] = "cc"
      /\ UNCHANGED <<interrupted, do_cleanup, safety, events, known, at, cpu,
                     work>>
  BY DEF Begin, Places
<1>2. EventsOK' /\ BeforeLoop' /\ InLoop'
  BY <1>1 DEF EventsOK, BeforeLoop, InLoop, AtWork
<1>3. entry'.paused = paused /\ (entry'.skip <=> interrupted # 0)
      /\ entry'.skip \in BOOLEAN
  BY DEF Entered
<1>4. CallOK'
  BY <1>1, <1>3 DEF CallOK
<1> QED
  BY <1>2, <1>4

LEMMA LoopKeeps ==
  ASSUME RInv, UNCHANGED entry,
         EarlyReturn \/ StartLoop \/ Attach \/ ListenFails \/ LeaveLoop
  PROVE  EventsOK' /\ BeforeLoop' /\ InLoop' /\ CallOK'
<1> USE DEF RInv, TextInv, TypeOK
<1>0. Once' = Once
  BY DEF Once
<1>1. CASE EarlyReturn
  <2>1. /\ phase = "planted" /\ phase' = "idle"
        /\ UNCHANGED <<attached, globalVars, xenVars, guestVars, histVars>>
    BY <1>1 DEF EarlyReturn
  <2>2. EventsOK' /\ BeforeLoop' /\ InLoop'
    BY <2>1 DEF EventsOK, BeforeLoop, InLoop, AtWork
  <2>3. CallOK'
    BY <2>1 DEF CallOK
  <2> QED
    BY <2>2, <2>3
<1>2. CASE StartLoop
  <2>1. /\ phase = "planted" /\ known /\ events' = TRUE
        /\ phase' = (IF interrupted = 0 THEN "loop" ELSE "clear")
        /\ paused' = Once
        /\ UNCHANGED <<attached, globalVars, guestVars, histVars>>
    BY <1>2 DEF StartLoop, CallOK, Once
  <2>2. CASE interrupted = 0
    <3>1. /\ ~do_cleanup /\ cpu.mode = "free" /\ ~entry.skip /\ Awaited
      BY <2>1, <2>2 DEF BeforeLoop, CallOK, Awaited, AtWork
    <3>2. Awaited'
      BY <2>1, <3>1 DEF Awaited, AtWork
    <3>3. EventsOK' /\ BeforeLoop' /\ InLoop'
      BY <2>1, <2>2, <3>1, <3>2 DEF EventsOK, BeforeLoop, InLoop
    <3>4. CallOK'
      BY <1>0, <2>1, <2>2, <3>1 DEF CallOK
    <3> QED
      BY <3>3, <3>4
  <2>3. CASE interrupted # 0
    <3>1. entry.skip
      BY <2>1, <2>3 DEF CallOK
    <3>2. EventsOK' /\ BeforeLoop' /\ InLoop'
      BY <2>1, <2>3 DEF EventsOK, BeforeLoop, InLoop
    <3>3. CallOK'
      BY <1>0, <2>1, <2>3, <3>1 DEF CallOK
    <3> QED
      BY <3>2, <3>3
  <2> QED
    BY <2>2, <2>3
<1>3. CASE Attach
  <2>1. /\ phase = "loop" /\ ~attached /\ attached' = TRUE
        /\ work'["dwork"] = work["dwork"] \/ work'["dwork"] = work["dwork"] + 1
        /\ phase' = IF interrupted = 0 THEN "loop" ELSE "clear"
        /\ UNCHANGED <<globalVars, events, paused, known, text, at, cpu, synced>>
    BY <1>3, BlockAttached DEF Attach
  <2>2. Awaited => Awaited'
    BY <2>1 DEF Awaited, AtWork
  <2>3. ~Taken
    BY <2>1 DEF Taken
  <2>4. EventsOK' /\ BeforeLoop' /\ InLoop'
    BY <2>1, <2>2, <2>3 DEF EventsOK, BeforeLoop, InLoop
  <2>5. Orderly' = Orderly
    BY <2>1 DEF Orderly
  <2>6. LoopEnded => LoopEnded'
    BY <1>0, <2>1, <2>5 DEF LoopEnded
  <2>7. CallOK'
    BY <1>0, <2>1, <2>5, <2>6 DEF CallOK
  <2> QED
    BY <2>4, <2>7
<1>4. CASE ListenFails
  <2>1. /\ phase = "loop" /\ phase' = "clear" /\ interrupted' = -1
        /\ paused' = PauseVM(paused) /\ ~entry.skip
        /\ UNCHANGED <<events, synced>>
    BY <1>4 DEF ListenFails, CallOK
  <2>2. EventsOK' /\ BeforeLoop' /\ InLoop'
    BY <2>1 DEF EventsOK, BeforeLoop, InLoop
  <2>3. ~Orderly'
    BY <2>1 DEF Orderly
  <2>4. \/ paused = Once
        \/ synced /\ Once = 0 /\ paused = PauseVM(Once)
    BY <2>1 DEF CallOK, LoopEnded
  <2>5. LoopEnded'
    BY <1>0, <2>1, <2>3, <2>4 DEF LoopEnded
  <2>6. CallOK'
    BY <1>0, <2>1, <2>5 DEF CallOK
  <2> QED
    BY <2>2, <2>6
<1>5. CASE LeaveLoop
  <2>1. /\ phase = "loop" /\ phase' = "clear" /\ interrupted # 0
        /\ UNCHANGED <<globalVars, xenVars, synced>>
    BY <1>5 DEF LeaveLoop
  <2>2. EventsOK' /\ BeforeLoop' /\ InLoop'
    BY <2>1 DEF EventsOK, BeforeLoop, InLoop
  <2>3. Orderly' = Orderly
    BY <2>1 DEF Orderly
  <2>4. CallOK'
    BY <1>0, <2>1, <2>3 DEF CallOK, LoopEnded
  <2> QED
    BY <2>2, <2>4
<1> QED
  BY <1>1, <1>2, <1>3, <1>4, <1>5

LEMMA ExitKeeps ==
  ASSUME RInv, UNCHANGED entry,
         ClearEvents \/ Restore \/ Finish \/ CallerPauses
  PROVE  EventsOK' /\ BeforeLoop' /\ InLoop' /\ CallOK'
<1> USE DEF RInv, TextInv, TypeOK
<1>0. Once' = Once
  BY DEF Once
<1>1. CASE ClearEvents \/ Restore
  <2>1. /\ phase \in {"clear", "restore"} /\ phase' = "restore"
        /\ UNCHANGED <<interrupted, safety, paused, synced>>
        /\ events' = FALSE
    BY <1>1 DEF ClearEvents, Restore, EventsOK
  <2>2. Orderly' = Orderly /\ interrupted # 0
    BY <2>1 DEF Orderly, CallOK
  <2>3. EventsOK' /\ BeforeLoop' /\ InLoop'
    BY <2>1, <2>2 DEF EventsOK, BeforeLoop, InLoop
  <2>4. CallOK'
    BY <1>0, <2>1, <2>2 DEF CallOK, LoopEnded
  <2> QED
    BY <2>3, <2>4
<1>2. CASE Finish
  <2>1. phase = "restore" /\ phase' = "idle" /\ UNCHANGED <<interrupted, events>>
    BY <1>2 DEF Finish
  <2>2. EventsOK' /\ BeforeLoop' /\ InLoop' /\ CallOK'
    BY <2>1 DEF EventsOK, BeforeLoop, InLoop, CallOK
  <2> QED
    BY <2>2
<1>3. CASE CallerPauses
  <2>1. /\ phase = "idle"
        /\ UNCHANGED <<callVars, globalVars, events, ghost, guestVars, histVars>>
    BY <1>3 DEF CallerPauses
  <2>2. EventsOK' /\ BeforeLoop' /\ InLoop' /\ CallOK'
    BY <2>1 DEF EventsOK, BeforeLoop, InLoop, CallOK, AtWork
  <2> QED
    BY <2>2
<1> QED
  BY <1>1, <1>2, <1>3

LEMMA CallerText ==
  ASSUME TextInv, CallerPauses
  PROVE  TextInv'
<1>1. paused' \in Nat
  BY Counts DEF TextInv, TypeOK, CallerPauses
<1>2. UNCHANGED <<callVars, globalVars, events, ghost, guestVars, histVars>>
  BY DEF CallerPauses
<1> QED
  BY <1>1, <1>2 DEF TextInv, TypeOK, CpuOK, BytesOK, RestoredOK, TextRestored

(* What the VM was when the call began is kept till the next one. *)
LEMMA EntryKept ==
  ASSUME NextR, ~Begin
  PROVE  entry' = entry
<1>1. CASE EarlyReturn \/ StartLoop \/ Attach \/ ListenFails \/ LeaveLoop
           \/ ClearEvents \/ Finish
  BY <1>1
  DEF NextR, EarlyReturn, StartLoop, Attach, ListenFails, LeaveLoop,
      ClearEvents, Finish
<1>2. CASE phase' = phase
  BY <1>2 DEF NextR
<1>3. Restore \/ IntCbFront \/ StepCbFront => phase' = phase
  BY DEF Restore, IntCbFront, StepCbFront
<1>4. CallerPauses \/ SingleStep => phase' = phase
  BY DEF CallerPauses, SingleStep
<1>5. ASSUME NEW k \in Tasks,
             Run(k) \/ Trap(k) \/ Crash(k) \/ \E f \in Functions : Enter(k, f)
      PROVE  phase' = phase
  BY <1>5 DEF Run, Trap, Crash, Enter
<1> QED
  BY <1>1, <1>2, <1>3, <1>4, <1>5 DEF NextR, Next, Sync, Guest

LEMMA RefStep ==
  ASSUME RInv, [NextR]_<<vars, entry>>
  PROVE  RInv'
<1>1. CASE UNCHANGED <<vars, entry>>
  BY <1>1 DEF RInv, TextInv, TypeOK, CpuOK, BytesOK, RestoredOK, TextRestored,
              EventsOK, BeforeLoop, InLoop, CallOK, LoopEnded, Orderly, Once,
              Awaited, Taken, AtWork
<1>2. CASE NextR
  <2>1. TextInv'
    BY <1>2, TextStep, CallerText DEF NextR, RInv
  <2>2. Begin => entry' = Entered
    BY <1>2 DEF NextR, Begin
  <2>3. ~Begin => entry' = entry
    BY <1>2, EntryKept
  <2>4. CASE Begin
    BY <2>1, <2>2, <2>4, BeginKeeps DEF RInv
  <2>5. CASE ~Begin
    <3>1. CASE CallerPauses
      BY <2>1, <2>3, <2>5, <3>1, ExitKeeps DEF RInv
    <3>2. CASE Guest \/ \E k \in Tasks, f \in Functions : Enter(k, f)
      BY <2>1, <2>3, <2>5, <3>2, GuestKeeps DEF RInv
    <3>3. CASE IntCbFront
      BY <2>1, <2>3, <2>5, <3>3, IntKeeps DEF RInv
    <3>4. CASE StepCbFront
      BY <2>1, <2>3, <2>5, <3>4, StepCbKeeps DEF RInv
    <3>5. CASE EarlyReturn \/ StartLoop \/ Attach \/ ListenFails \/ LeaveLoop
      BY <2>1, <2>3, <2>5, <3>5, LoopKeeps DEF RInv
    <3>6. CASE ClearEvents \/ Restore \/ Finish
      BY <2>1, <2>3, <2>5, <3>6, ExitKeeps DEF RInv
    <3> QED
      BY <1>2, <2>5, <3>1, <3>2, <3>3, <3>4, <3>5, <3>6 DEF NextR, Next, Sync
  <2> QED
    BY <2>4, <2>5
<1> QED
  BY <1>1, <1>2


----------------------------------------------------------------------------
(* Each exit of do_sync is one of the outcomes. *)
LEMMA Unknown ==
  ASSUME NEW p, NEW i, NEW c
  PROVE  [paused |-> PauseVM(p), flushed |-> FALSE] \in Service!Outcomes(p, FALSE, i, c)
  BY DEF Service!Outcomes, Service!PauseVM, Service!ResumeVM, PauseVM,
         ResumeVM

LEMMA Skipped ==
  ASSUME NEW p, NEW c
  PROVE  [paused |-> ResumeVM(ResumeVM(PauseVM(p))), flushed |-> FALSE]
           \in Service!Outcomes(p, TRUE, TRUE, c)
  BY DEF Service!Outcomes, Service!PauseVM, Service!ResumeVM, PauseVM,
         ResumeVM

LEMMA Looped ==
  ASSUME NEW p, NEW c \in BOOLEAN, ResumeVM(PauseVM(p)) = 0
  PROVE  [paused |-> ResumeVM(PauseVM(ResumeVM(PauseVM(p)))), flushed |-> TRUE]
           \in Service!Outcomes(p, TRUE, FALSE, c)
  BY DEF Service!Outcomes, Service!PauseVM, Service!ResumeVM, PauseVM,
         ResumeVM

LEMMA FailedLate ==
  ASSUME NEW p, ResumeVM(PauseVM(p)) = 0
  PROVE  [paused |-> ResumeVM(PauseVM(PauseVM(ResumeVM(PauseVM(p))))),
          flushed |-> TRUE] \in Service!Outcomes(p, TRUE, FALSE, TRUE)
  BY DEF Service!Outcomes, Service!PauseVM, Service!ResumeVM, PauseVM,
         ResumeVM

LEMMA Failed ==
  ASSUME NEW p
  PROVE  [paused |-> ResumeVM(PauseVM(ResumeVM(PauseVM(p)))), flushed |-> FALSE]
           \in Service!Outcomes(p, TRUE, FALSE, TRUE)
  BY DEF Service!Outcomes, Service!PauseVM, Service!ResumeVM, PauseVM,
         ResumeVM

LEMMA Halted ==
  ASSUME NEW p, ResumeVM(PauseVM(p)) = 0
  PROVE  [paused |-> ResumeVM(ResumeVM(PauseVM(p))), flushed |-> FALSE]
           \in Service!Outcomes(p, TRUE, FALSE, TRUE)
  BY DEF Service!Outcomes, Service!PauseVM, Service!ResumeVM, PauseVM,
         ResumeVM

(* Leave, read from inside a call. *)
LEMMA Leaving ==
  ASSUME phase # "idle", phase' = "idle", known' = known, synced' \in BOOLEAN,
         (interrupted' # 0) = (entry.skip \/ known),
         NEW out \in Service!Outcomes(entry.paused, known, entry.skip,
                                     ~Inside' /\ ~(Orderly' \/ interrupted' = 0)),
         paused' = out.paused, synced' \in {out.flushed, TRUE}
  PROVE  Service!Leave
<1>1. /\ Inside /\ Inside' = FALSE
      /\ (~Inside /\ synced)' = synced'
      /\ (~Inside /\ ~(Orderly \/ interrupted = 0))' \in BOOLEAN
  BY DEF Inside
<1>2. /\ (IF Inside THEN entry.paused ELSE paused) = entry.paused
      /\ (IF Inside THEN entry.skip ELSE interrupted # 0) = entry.skip
      /\ (IF Inside THEN entry.paused ELSE paused)' = paused'
      /\ (IF Inside THEN entry.skip ELSE interrupted # 0)' = (interrupted' # 0)
  BY <1>1
<1>3. (~Inside /\ ~(Orderly \/ interrupted = 0))'
        = (~Inside' /\ ~(Orderly' \/ interrupted' = 0))
  OBVIOUS
<1> QED
  BY <1>1, <1>2, <1>3, Zenon DEF Service!Leave

LEMMA EarlyLeave ==
  ASSUME RInv, EarlyReturn, UNCHANGED entry
  PROVE  Service!Leave
<1> DEFINE cutN == ~Inside' /\ ~(Orderly' \/ interrupted' = 0)
           out == [paused |-> PauseVM(entry.paused), flushed |-> FALSE]
<1>1. /\ phase = "planted" /\ phase' = "idle" /\ ~known
      /\ UNCHANGED <<known, interrupted, paused, safety, synced>>
  BY DEF EarlyReturn
<1>2. /\ paused = PauseVM(entry.paused) /\ (entry.skip <=> interrupted # 0)
      /\ entry.skip \in BOOLEAN /\ synced \in BOOLEAN /\ known = FALSE
  BY <1>1 DEF RInv, CallOK, TextInv, TypeOK
<1>4. out \in Service!Outcomes(entry.paused, known, entry.skip, cutN)
  BY <1>2, Unknown
<1>5. paused' = out.paused /\ synced' \in {out.flushed, TRUE}
  BY <1>1, <1>2
<1>6. (interrupted' # 0) = (entry.skip \/ known)
  BY <1>1, <1>2
<1> QED
  BY <1>1, <1>2, <1>4, <1>5, <1>6, Leaving

LEMMA LateLeave ==
  ASSUME RInv, Finish, UNCHANGED entry
  PROVE  Service!Leave
<1> DEFINE cutN == ~Inside' /\ ~(Orderly' \/ interrupted' = 0)
<1>1. /\ phase = "restore" /\ phase' = "idle" /\ paused' = ResumeVM(paused)
      /\ UNCHANGED <<known, interrupted, safety, synced>>
  BY DEF Finish
<1>2. /\ known = TRUE /\ interrupted # 0 /\ entry.skip \in BOOLEAN
      /\ synced \in BOOLEAN
      /\ entry.skip => paused = Once
      /\ ~entry.skip => LoopEnded
  BY <1>1 DEF RInv, CallOK, TextInv, TypeOK, BytesOK
<1>3. Inside /\ ~Inside'
  BY <1>1 DEF Inside
<1>4. cutN = ~Orderly /\ cutN \in BOOLEAN
  BY <1>1, <1>2, <1>3 DEF Orderly
<1> DEFINE End(q, f) == [paused |-> ResumeVM(q), flushed |-> f]
           Outs == Service!Outcomes(entry.paused, known, entry.skip, cutN)
<1>5. ASSUME NEW q, NEW f \in BOOLEAN, End(q, f) \in Outs, paused = q,
             synced \in {f, TRUE}
      PROVE  \E out \in Outs :
               paused' = out.paused /\ synced' \in {out.flushed, TRUE}
  <2>1. End(q, f).paused = ResumeVM(q) /\ End(q, f).flushed = f
    OBVIOUS
  <2>2. paused' = End(q, f).paused /\ synced' \in {End(q, f).flushed, TRUE}
    BY <1>1, <1>5, <2>1
  <2> HIDE DEF End, Outs
  <2> QED
    BY <1>5, <2>2
<1>6. \E out \in Outs :
        paused' = out.paused /\ synced' \in {out.flushed, TRUE}
  <2>1. CASE entry.skip
    <3>1. End(Once, FALSE) \in Outs /\ paused = Once
      BY <1>2, <2>1, Skipped DEF Once
    <3> QED
      BY <1>2, <1>5, <3>1
  <2>2. CASE ~entry.skip /\ Orderly
    <3>1. /\ entry.skip = FALSE /\ synced = TRUE /\ Once = 0
          /\ paused = PauseVM(Once)
      BY <1>2, <2>2 DEF LoopEnded
    <3>2. End(PauseVM(Once), TRUE) \in Outs
      BY <1>2, <1>4, <3>1, Looped DEF Once
    <3> QED
      BY <1>5, <3>1, <3>2
  <2>3. CASE ~entry.skip /\ ~Orderly
    <3>1. entry.skip = FALSE /\ cutN = TRUE
      BY <1>2, <1>4, <2>3
    <3>2. CASE paused = PauseVM(Once)
      <4>1. End(PauseVM(Once), FALSE) \in Outs
        BY <1>2, <3>1, Failed DEF Once
      <4> QED
        BY <1>2, <1>5, <3>2, <4>1
    <3>3. CASE paused = Once /\ Once = 0
      <4>1. End(Once, FALSE) \in Outs
        BY <1>2, <3>1, <3>3, Halted DEF Once
      <4> QED
        BY <1>2, <1>5, <3>3, <4>1
    <3>4. CASE synced /\ Once = 0 /\ paused = PauseVM(PauseVM(Once))
      <4>1. End(PauseVM(PauseVM(Once)), TRUE) \in Outs /\ synced = TRUE
        BY <1>2, <3>1, <3>4, FailedLate DEF Once
      <4> QED
        BY <1>5, <3>4, <4>1
    <3> QED
      BY <1>2, <2>3, <3>2, <3>3, <3>4 DEF LoopEnded
  <2> QED
    BY <2>1, <2>2, <2>3
<1>7. (interrupted' # 0) = (entry.skip \/ known)
  BY <1>1, <1>2
<1> QED
  BY <1>1, <1>2, <1>6, <1>7, Leaving

(* A step that is invisible outside: the call goes on, or the guest of a   *)
(* VM nobody syncs goes on.                                                *)
LEMMA Stutters ==
  ASSUME UNCHANGED <<phase, known, interrupted, safety, entry>>,
         phase # "idle" \/ UNCHANGED <<paused, synced>>
  PROVE  UNCHANGED Service!vars
  BY DEF Service!vars, Inside, Orderly

LEMMA GoesOn ==
  ASSUME phase # "idle", phase' # "idle", UNCHANGED <<known, entry>>
  PROVE  UNCHANGED Service!vars
  BY DEF Service!vars, Inside

LEMMA ServiceStep ==
  ASSUME RInv, RInv', [NextR]_<<vars, entry>>
  PROVE  [Service!Next]_(Service!vars)
<1>1. CASE UNCHANGED <<vars, entry>>
  BY <1>1, Stutters
<1>2. CASE Begin /\ NextR
  <2>1. /\ phase = "idle" /\ phase' = "planted" /\ synced' = FALSE
        /\ UNCHANGED <<known, interrupted>> /\ entry' = Entered
    BY <1>2 DEF Begin, NextR
  <2>2. Service!Enter
    BY <2>1 DEF Service!Enter, Inside, Entered
  <2> QED
    BY <2>2 DEF Service!Next
<1>3. CASE ~Begin /\ NextR
  <2>1. entry' = entry
    BY <1>3, EntryKept
  <2>2. CASE EarlyReturn \/ Finish
    BY <2>1, <2>2, EarlyLeave, LateLeave DEF Service!Next
  <2>3. CASE CallerPauses
    <3>1. /\ phase = "idle" /\ phase' = "idle"
          /\ paused' \in {PauseVM(paused), ResumeVM(paused)}
          /\ paused' <= MaxPause
          /\ UNCHANGED <<known, interrupted, safety, synced>>
      BY <2>3 DEF CallerPauses
    <3>2. Service!Outside
      BY <2>1, <3>1
      DEF Service!Outside, Inside, Orderly, Service!PauseVM, Service!ResumeVM,
          PauseVM, ResumeVM
    <3> QED
      BY <3>2 DEF Service!Next
  <2>4. CASE Guest \/ \E k \in Tasks, f \in Functions : Enter(k, f)
    <3>1. /\ UNCHANGED <<phase, known, interrupted, safety, paused>>
          /\ synced' = synced \/ synced' = TRUE
      <4>1. ASSUME NEW k \in Tasks,
                   Run(k) \/ Trap(k) \/ Crash(k) \/ \E f \in Functions : Enter(k, f)
            PROVE  /\ UNCHANGED <<phase, known, interrupted, safety, paused>>
                   /\ synced' = synced \/ synced' = (synced \/ at[k] = "sys_sync_back")
        BY <4>1 DEF Run, Trap, Crash, Enter, Go
      <4>2. SingleStep =>
              /\ UNCHANGED <<phase, known, interrupted, safety, paused>>
              /\ synced' = (synced \/ at[cpu.task] = "sys_sync_back")
        BY DEF SingleStep, Go
      <4>3. synced \in BOOLEAN
        BY DEF RInv, TextInv, TypeOK
      <4> QED
        BY <2>4, <4>1, <4>2, <4>3 DEF Guest
    <3>2. CASE phase # "idle" \/ synced' = synced
      BY <2>1, <3>1, <3>2, Stutters
    <3>3. CASE phase = "idle" /\ synced' = TRUE
      <4>1. Service!Outside
        BY <2>1, <3>1, <3>3 DEF Service!Outside, Inside, Orderly
      <4> QED
        BY <4>1 DEF Service!Next
    <3> QED
      BY <3>1, <3>2, <3>3
  <2>5. CASE \/ StartLoop \/ Attach \/ ListenFails \/ LeaveLoop \/ ClearEvents
             \/ Restore \/ IntCbFront \/ StepCbFront
    <3>1. phase # "idle" /\ phase' # "idle" /\ known' = known
      BY <2>5 DEF StartLoop, Attach, ListenFails, LeaveLoop, ClearEvents,
                  Restore, IntCbFront, StepCbFront, Listening
    <3> QED
      BY <2>1, <3>1, GoesOn
  <2> QED
    BY <1>3, <2>2, <2>3, <2>4, <2>5 DEF NextR, Next, Sync
<1> QED
  BY <1>1, <1>2, <1>3

LEMMA ServiceInit ==
  ASSUME InitR
  PROVE  Service!Init
  BY ConstantsAssumption DEF InitR, Init, Service!Init, Inside, Orderly

(* What a caller of do_sync may rely on (270-463): from each of its exits, *)
(* for a VM that ran or that callers had paused, for the first call in a   *)
(* process and for a later one that finds interrupted set, the pause count *)
(* and the flushing are those SyncService allows.  An orderly end of the   *)
(* loop means that the guest has synced and that it was running.  The      *)
(* safety halt may leave it unflushed; so may a listen that fails, which   *)
(* pauses once more than is resumed if it ran the last callback.  A guest  *)
(* that probes a device by itself (Work["dwork"] > 0) is left out: a task  *)
(* that is in deferred_probe_work_func when the breakpoints are planted    *)
(* ends the loop before anything is flushed.                               *)
THEOREM SyncServiceImplemented ==
  ASSUME Work["dwork"] = 0
  PROVE  SpecR => ImplementsSyncService
<1>1. InitR => RInv /\ Service!Init
  BY RefInit, ServiceInit
<1>2. RInv /\ [NextR]_<<vars, entry>> => RInv'
  BY RefStep
<1>3. RInv /\ RInv' /\ [NextR]_<<vars, entry>> => [Service!Next]_(Service!vars)
  BY ServiceStep
<1> QED
  BY <1>1, <1>2, <1>3, PTL DEF SpecR, Service!Spec, ImplementsSyncService
=============================================================================
