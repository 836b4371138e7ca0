------------------------------- MODULE MCDoSync -------------------------------
(***************************************************************************)
(* Instances of DoSync for TLC: what the guest does by itself.             *)
(***************************************************************************)
EXTENDS DoSync

CONSTANTS k1, k2, k3

Calls(queue, probe, sync) ==
  [f \in Functions |-> CASE f = "qworko" -> queue
                         [] f = "dwork" -> probe
                         [] OTHER -> sync]

(* The kernel queues other work. *)
OtherWork == Calls(4, 0, 0)

(* The kernel probes a device of its own. *)
OneProbe == Calls(0, 1, 0)

(* A program in the guest calls sync. *)
OneSync == Calls(0, 0, 1)

Quiet == Calls(0, 0, 0)
=============================================================================
