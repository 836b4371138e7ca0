-------------------------------- MODULE DoSync --------------------------------
(***************************************************************************)
(* syncmount::do_sync (libhyperagent/syncmount.cc) and its two LibVMI      *)
(* callbacks, run against a guest kernel with one vCPU.                    *)
(*                                                                         *)
(* do_sync makes the guest flush its page cache from outside.  It plants   *)
(* breakpoints (0xCC) at five places of the kernel's text, attaches a      *)
(* ghost disk so that the kernel runs deferred_probe_work_func, and, when  *)
(* a breakpoint reports that a task got there, moves that task's           *)
(* instruction pointer to sys_sync; a breakpoint at the end of sys_sync    *)
(* moves it back.  Then the text is restored.                              *)
(*                                                                         *)
(* The guest is the environment: tasks that the vCPU interleaves (sys_sync *)
(* sleeps), which call the three kernel functions when they please.  What  *)
(* a task does between two of the five places is one step.                 *)
(***************************************************************************)
EXTENDS Integers, Sequences, SyncOutcome

CONSTANTS
  Tasks,       \* the guest's tasks
  Kernels,     \* may do_sync resolve the guest's symbols? a subset of BOOLEAN
  Work,        \* bound: calls of each function the guest makes by itself
  SafetyMax,   \* 50 in the source: callbacks before the safety halt
  ListenMayFail,
  XlMayFail,   \* may attaching and detaching the ghost disk fail?
  MaxCalls,    \* bound: calls of do_sync for this guest in one process
  NoTask

(* The places: queue_work_on, the start and the end of                     *)
(* deferred_probe_work_func (dwork), and those of sys_sync.                *)
Places == {"qworko", "dwork", "dwork_back", "sys_sync", "sys_sync_back"}
Functions == {"qworko", "dwork", "sys_sync"}

(* The order in which the text is restored. *)

RestoreFour ==  \* mutant: one place forgotten
  <<"dwork", "dwork_back", "sys_sync", "sys_sync_back">>

RestoreOrder ==
  <<"dwork", "dwork_back", "sys_sync", "sys_sync_back", "qworko">>

ASSUME ConstantsAssumption ==
  /\ Kernels \subseteq BOOLEAN /\ Kernels # {}
  /\ Work \in [Functions -> Nat]
  /\ SafetyMax \in Nat /\ MaxCalls \in Nat
  /\ {ListenMayFail, XlMayFail} \subseteq BOOLEAN /\ NestedPause \in BOOLEAN
  /\ NoTask \notin Tasks

VARIABLES
  \* do_sync: where it is, attached, the next place to restore, calls left
  phase, attached, todo, calls,
  \* its globals: the saved bytes, interrupted, do_cleanup, safety,
  \* step_rewrite_loc, and the task whose registers are saved
  byte, interrupted, do_cleanup, safety, step_rewrite_loc, saved_regs,
  \* LibVMI and Xen: are the events registered, the VM's pause count, has
  \* the VM the ghost disk
  events, paused, ghost,
  \* the guest: its kernel, text, tasks, vCPU, and the calls yet to come
  known, text, at, cpu, work,
  \* history: tasks taken out of dwork; has the guest synced in this call?
  diverted, synced

callVars   == <<phase, attached, todo, calls>>
globalVars == <<byte, interrupted, do_cleanup, safety, step_rewrite_loc,
                saved_regs>>
xenVars    == <<events, paused, ghost>>
guestVars  == <<known, text, at, cpu, work>>
histVars   == <<diverted, synced>>
vars == <<callVars, globalVars, xenVars, guestVars, histVars>>

(* The vCPU runs some task, or a task is trapped at a breakpoint, about to *)
(* be single-stepped, or has been single-stepped.                          *)
Free == [mode |-> "free", task |-> NoTask]
Cpu(mode, k) == [mode |-> mode, task |-> k]

Init ==
  /\ phase = "idle" /\ attached = FALSE /\ todo = 1 /\ calls = MaxCalls
  /\ byte = [p \in Places |-> "null"]
  /\ interrupted = 0 /\ do_cleanup = FALSE /\ safety = 0
  /\ step_rewrite_loc = "none" /\ saved_regs = NoTask
  /\ events = FALSE /\ paused = 0 /\ ghost = FALSE
  /\ known \in Kernels
  /\ text = [p \in Places |-> "orig"]
  /\ at = [k \in Tasks |-> "out"]
  /\ cpu = Free
  /\ work = Work
  /\ diverted = {} /\ synced = FALSE

----------------------------------------------------------------------------
(* The guest. *)

GuestRuns == paused = 0 /\ cpu = Free

(* The kernel does not run one work item in two tasks at a time. *)
MayEnter(f) ==
  f = "dwork" =>
    \A k \in Tasks : at[k] \notin {"dwork", "dwork_back"} /\ k \notin diverted

Enter(k, f) ==
  /\ GuestRuns /\ at[k] = "out"
  /\ work[f] > 0 /\ MayEnter(f)
  /\ at' = [at EXCEPT ![k] = f]
  /\ work' = [work EXCEPT ![f] = @ - 1]
  /\ UNCHANGED <<callVars, globalVars, xenVars, known, text, cpu, histVars>>

After(p) ==
  CASE p = "dwork" -> "dwork_back"
    [] p = "sys_sync" -> "sys_sync_back"
    [] OTHER -> "out"

(* A task executes the original instruction and goes on to the next place. *)
Go(k) ==
  /\ at' = [at EXCEPT ![k] = After(@)]
  /\ synced' = (synced \/ at[k] = "sys_sync_back")

Run(k) ==
  /\ GuestRuns
  /\ at[k] \in Places /\ text[at[k]] = "orig"
  /\ Go(k)
  /\ UNCHANGED <<callVars, globalVars, xenVars, known, text, cpu, work,
                 diverted>>

(* At a breakpoint the vCPU waits for the listener to answer. *)
Trap(k) ==
  /\ GuestRuns /\ events
  /\ at[k] \in Places /\ text[at[k]] = "cc"
  /\ cpu' = Cpu("trap", k)
  /\ UNCHANGED <<callVars, globalVars, xenVars, known, text, at, work,
                 histVars>>

(* Without one the kernel gets an int3 it knows nothing of, and dies. *)
Crash(k) ==
  /\ GuestRuns /\ ~events
  /\ at[k] \in Places /\ text[at[k]] = "cc"
  /\ at' = [at EXCEPT ![k] = "dead"]
  /\ UNCHANGED <<callVars, globalVars, xenVars, known, text, cpu, work,
                 histVars>>

SingleStep ==
  /\ paused = 0 /\ cpu.mode = "step"
  /\ Go(cpu.task)
  /\ cpu' = Cpu("stepped", cpu.task)
  /\ UNCHANGED <<callVars, globalVars, xenVars, known, text, work, diverted>>

----------------------------------------------------------------------------
(* The callbacks, run by vmi_events_listen. *)

Listening == phase = "loop" /\ interrupted = 0

(* Where int_cb_front sends a task that hit the breakpoint at p. *)

JumpNever(p) == IF p = "sys_sync_back" THEN "dwork" ELSE p  \* mutant

JumpOneWay(p) == IF p = "dwork" THEN "sys_sync" ELSE p  \* mutant

Jump(p) ==
  CASE p = "dwork" -> "sys_sync"
    [] p = "sys_sync_back" -> "dwork"
    [] OTHER -> p

(* At the places it moves tasks to or from, the breakpoint is gone for     *)
(* good; at the others it toggles single-stepping on.                      *)

StepsOnlyQueue(p) == p = "qworko"  \* mutant: none at the end of dwork

Steps(p) == p \in {"qworko", "dwork_back"}

(* Does the n-th callback, at p, end the event loop? *)

EndsAtBack(p, n) == n > SafetyMax \/ p = "dwork_back"  \* mutant: too early

Ends(p, n) == n > SafetyMax

(* Whose registers are kept after task k hit the breakpoint at p. *)

SavedAtQueue(p, k) == IF p = "qworko" THEN k ELSE saved_regs  \* mutant

Saved(p, k) == IF p = "dwork" THEN k ELSE saved_regs

IntCbFront ==
  /\ Listening /\ cpu.mode = "trap"
  /\ LET k == cpu.task
         p == at[k]
     IN  /\ safety' = safety + 1
         /\ interrupted' = IF Ends(p, safety + 1) THEN 1 ELSE interrupted
         /\ at' = [at EXCEPT ![k] = Jump(p)]
         /\ saved_regs' = Saved(p, k)
         /\ do_cleanup' = (do_cleanup \/ p = "dwork_back")
         /\ text' = [text EXCEPT ![p] = byte[p]]
         /\ step_rewrite_loc' = p
         /\ cpu' = IF Steps(p) THEN Cpu("step", k) ELSE Free
         /\ diverted' = CASE p = "dwork" -> diverted \cup {k}
                          [] Jump(p) = "dwork" -> diverted \ {k}
                          [] OTHER -> diverted
         /\ synced' = (synced \/ p = "sys_sync_back")
  /\ UNCHANGED <<callVars, byte, xenVars, known, work>>

StepCbRuns ==  \* mutant: the VM is not paused at the end
  /\ Listening /\ cpu.mode = "stepped"
  /\ cpu' = Free
  /\ IF do_cleanup
     THEN interrupted' = 1 /\ UNCHANGED text
     ELSE /\ text' = [text EXCEPT ![step_rewrite_loc] = "cc"]
          /\ UNCHANGED interrupted
  /\ UNCHANGED <<callVars, byte, do_cleanup, safety, step_rewrite_loc,
                 saved_regs, xenVars, known, at, work, histVars>>

StepCbFront ==
  /\ Listening /\ cpu.mode = "stepped"
  /\ cpu' = Free
  /\ IF do_cleanup
     THEN /\ interrupted' = 1
          /\ paused' = PauseVM(paused)
          /\ UNCHANGED text
     ELSE /\ text' = [text EXCEPT ![step_rewrite_loc] = "cc"]
          /\ UNCHANGED <<interrupted, paused>>
  /\ UNCHANGED <<callVars, byte, do_cleanup, safety, step_rewrite_loc,
                 saved_regs, events, ghost, known, at, work, histVars>>

----------------------------------------------------------------------------
(* do_sync. *)

SavedBytesLate(plant) == byte  \* mutant: the bytes are not read

SavedBytes(plant) ==
  [p \in Places |-> IF p \in plant THEN text[p] ELSE byte[p]]

(* Pause, save the bytes and plant the breakpoints.  Where the symbol of   *)
(* dwork is missing there is nothing to plant there.                       *)
Begin ==
  /\ phase = "idle" /\ calls > 0
  /\ phase' = "planted"
  /\ calls' = calls - 1
  /\ attached' = FALSE
  /\ paused' = PauseVM(paused)
  /\ LET plant == {p \in Places : known \/ p \notin {"dwork", "dwork_back"}}
     IN  /\ byte' = SavedBytes(plant)
         /\ text' = [p \in Places |-> IF p \in plant THEN "cc" ELSE text[p]]
  /\ synced' = FALSE
  /\ UNCHANGED <<todo, interrupted, do_cleanup, safety, step_rewrite_loc,
                 saved_regs, events, ghost, known, at, cpu, work, diverted>>

(* "VMI layer problem, exiting": the VM stays paused and patched. *)
EarlyReturn ==
  /\ phase = "planted" /\ ~known
  /\ phase' = "idle"
  /\ UNCHANGED <<attached, todo, calls, globalVars, xenVars, guestVars,
                 histVars>>

(* Register the events and resume; the loop is entered unless interrupted. *)
StartLoop ==
  /\ phase = "planted" /\ known
  /\ phase' = IF interrupted = 0 THEN "loop" ELSE "clear"
  /\ events' = TRUE
  /\ paused' = ResumeVM(paused)
  /\ UNCHANGED <<attached, todo, calls, globalVars, ghost, guestVars, histVars>>

(* xl block-attach, once, after the first vmi_events_listen; the result is *)
(* not looked at.  The kernel finds a device, queues the work of probing   *)
(* it, and does that work; without a device nothing reaches dwork.         *)
BlockAttach ==
  /\ attached' = TRUE
  /\ \/ /\ ~attached /\ ~ghost
        /\ ghost' = TRUE
        /\ work' = [work EXCEPT !["qworko"] = @ + 1, !["dwork"] = @ + 1]
     \/ /\ attached \/ ghost \/ XlMayFail
        /\ UNCHANGED <<ghost, work>>

(* The end of a pass of the loop, in which a listen has run callbacks or   *)
(* none.  The loop is tested last.                                         *)
Attach ==
  /\ phase = "loop" /\ ~attached
  /\ BlockAttach
  /\ phase' = IF interrupted = 0 THEN "loop" ELSE "clear"
  /\ UNCHANGED <<todo, calls, globalVars, events, paused, known, text, at, cpu,
                 histVars>>

LeaveLoop ==
  /\ phase = "loop" /\ attached
  /\ interrupted # 0
  /\ phase' = "clear"
  /\ UNCHANGED <<attached, todo, calls, globalVars, xenVars, guestVars,
                 histVars>>

ListenFailsRunning ==  \* mutant: the VM is not paused
  /\ ListenMayFail /\ phase = "loop"
  /\ interrupted' = -1
  /\ BlockAttach
  /\ phase' = "clear"
  /\ UNCHANGED <<todo, calls, byte, do_cleanup, safety, step_rewrite_loc,
                 saved_regs, events, paused, known, text, at, cpu, histVars>>

(* The listen of this pass failed, be it after the callback that ended the *)
(* loop and paused the VM.                                                 *)
ListenFails ==
  /\ ListenMayFail /\ phase = "loop"
  /\ interrupted' = -1
  /\ paused' = PauseVM(paused)
  /\ BlockAttach
  /\ phase' = "clear"
  /\ UNCHANGED <<todo, calls, byte, do_cleanup, safety, step_rewrite_loc,
                 saved_regs, events, known, text, at, cpu, histVars>>

ClearEvents ==
  /\ phase = "clear"
  /\ phase' = "restore"
  /\ events' = FALSE
  /\ UNCHANGED <<attached, todo, calls, globalVars, paused, ghost, guestVars,
                 histVars>>

Restore ==
  /\ phase = "restore" /\ todo <= Len(RestoreOrder)
  /\ LET p == RestoreOrder[todo] IN text' = [text EXCEPT ![p] = byte[p]]
  /\ todo' = todo + 1
  /\ UNCHANGED <<phase, attached, calls, globalVars, xenVars, known, at, cpu,
                 work, histVars>>

(* Resume, detach the ghost disk (that result is ignored as well), return. *)
Finish ==
  /\ phase = "restore" /\ todo > Len(RestoreOrder)
  /\ phase' = "idle"
  /\ todo' = 1
  /\ paused' = ResumeVM(paused)
  /\ ghost' \in {FALSE, ghost /\ XlMayFail}
  /\ UNCHANGED <<attached, calls, globalVars, events, guestVars, histVars>>

Sync ==
  \/ EarlyReturn \/ StartLoop \/ Attach \/ LeaveLoop \/ ClearEvents
  \/ Restore \/ Finish \/ IntCbFront \/ StepCbFront

Guest ==
  \/ \E k \in Tasks : Run(k) \/ Trap(k) \/ Crash(k)
  \/ SingleStep

Next ==
  \/ Begin \/ Sync \/ ListenFails
  \/ Guest
  \/ \E k \in Tasks, f \in Functions : Enter(k, f)

Spec == Init /\ [][Next]_vars

(* The thread in do_sync runs; the guest's scheduler runs every task; the  *)
(* kernel does the work that has been queued.                              *)
FairSpec ==
  /\ Spec
  /\ WF_vars(Sync)
  /\ \A k \in Tasks : WF_vars(Run(k) \/ Trap(k))
  /\ WF_vars(SingleStep)
  /\ WF_vars(\E k \in Tasks : Enter(k, "dwork"))

----------------------------------------------------------------------------
(* Properties. *)

(* Types; nobody works on a place that is not one.                         *)
TypeOK ==
  /\ phase \in {"idle", "planted", "loop", "clear", "restore"}
  /\ attached \in BOOLEAN /\ calls \in Nat
  /\ todo \in 1 .. Len(RestoreOrder) + 1
  /\ byte \in [Places -> {"null", "orig", "cc"}]
  /\ interrupted \in {-1, 0, 1}
  /\ do_cleanup \in BOOLEAN /\ safety \in Nat
  /\ step_rewrite_loc \in Places \cup {"none"}
  /\ saved_regs \in Tasks \cup {NoTask}
  /\ events \in BOOLEAN /\ paused \in Nat /\ ghost \in BOOLEAN
  /\ known \in BOOLEAN
  /\ text \in [Places -> {"orig", "cc"}]
  /\ at \in [Tasks -> Places \cup {"out", "dead"}]
  /\ cpu \in [mode : {"free", "trap", "step", "stepped"},
              task : Tasks \cup {NoTask}]
  /\ work \in [Functions -> Nat]
  /\ diverted \in SUBSET Tasks /\ synced \in BOOLEAN

(* The event loop ended as it should: not by the safety halt, and not by a *)
(* failure to listen.                                                      *)
Orderly == interrupted = 1 /\ safety <= SafetyMax

(* When a call that got past the symbols is over, the guest's kernel is    *)
(* what it was before: no breakpoint is left, and none can come back.      *)
TextRestored ==
  phase = "idle" /\ known => \A p \in Places : text[p] = "orig"

(* No task of the guest runs into a breakpoint nobody listens for, however *)
(* the kernel's own calls fall, unless the loop was cut short.             *)
NoCrash == Orderly \/ interrupted = 0 => \A k \in Tasks : at[k] # "dead"

(* The vCPU is not left waiting for an answer that will never come.        *)
VcpuReleased == phase = "idle" /\ Orderly => cpu = Free

(* do_sync's purpose: when it returns, the guest has run sys_sync to its   *)
(* end since it was called.                                                *)
SyncedOnReturn ==
  phase = "idle" /\ calls < MaxCalls /\ known /\ Orderly => synced

(* int_cb_front, step 3: "put the vCPU back to dwork".  A task taken out   *)
(* of dwork is in sys_sync until it is put back: the work it was about to  *)
(* do is never skipped.                                                    *)
DivertedComesBack ==
  Orderly \/ interrupted = 0 =>
    \A k \in diverted : at[k] \in {"sys_sync", "sys_sync_back"}

(* The registers a task is given when it is put back are its own.          *)
OwnRegisters ==
  [][\A k \in Tasks :
       at[k] = "sys_sync_back" /\ at'[k] = "dwork" => saved_regs = k]_vars

(* Once the events are registered do_sync returns, whatever the guest's    *)
(* tasks do and wherever a callback cuts the loop short, unless the ghost  *)
(* disk could not be attached: then nothing makes the guest reach dwork,   *)
(* and nothing but a failing listen ends the loop.                         *)
Returns == phase = "loop" ~> phase = "idle" \/ (attached /\ ~ghost)
=============================================================================
