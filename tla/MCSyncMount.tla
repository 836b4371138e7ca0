----------------------------- MODULE MCSyncMount -----------------------------
(***************************************************************************)
(* Instances of SyncMount for TLC: who serves which VM.                    *)
(***************************************************************************)
EXTENDS SyncMountService

CONSTANTS t1, t2, a, b, c

(* Every thread mounts every VM; the repository's two clients have one. *)
OneForAll == [t \in Threads |-> VMs]

(* One thread per VM; t1 has what is left over. *)
OneOwnerEach == [t \in Threads |-> IF t = t2 THEN {b} ELSE VMs \ {b}]

(* Both threads mount b. *)
BothServeB == [t \in Threads |-> IF t = t2 THEN {b} ELSE VMs]

(* Budgets of calls. *)
Calls(n, m) == [t \in Threads |-> IF t = t2 THEN m ELSE n]
Once == Calls(1, 1)
TwiceOnce == Calls(2, 1)
Twice == Calls(2, 2)
ThriceOnce == Calls(3, 1)
FourTimes == Calls(4, 4)
=============================================================================
