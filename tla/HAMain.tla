------------------------------- MODULE HAMain --------------------------------
(***************************************************************************)
(* The registry of class HAMain: agents by VM name, the HAConfig each name *)
(* stands for, and the slots that point into HAConfigs.  One thread calls, *)
(* so a request_mount or release_mount is one step (SyncMount has the      *)
(* threads); the host's clock may be set between two calls.                *)
(***************************************************************************)
EXTENDS Integers, FiniteSets

CONSTANTS
  VMs,
  DEVMAX,
  MaxConfigs,       \* bound: calls of add_agent
  NoConfig,
  PerSec, PerMsec,  \* milliseconds in a second, microseconds in one (1000)
  MaxTime,          \* bound: the clock, in microseconds
  Limit             \* the LRU test's 10000, in milliseconds

ASSUME RegistryAssumption ==
  /\ DEVMAX \in Nat \ {0} /\ MaxConfigs \in Nat /\ NoConfig \notin Nat
  /\ {PerSec, PerMsec} \subseteq Nat \ {0} /\ {MaxTime, Limit} \subseteq Nat

Slots   == 0 .. DEVMAX - 1
NoSlot  == -1
Configs == 1 .. MaxConfigs
Times   == 0 .. MaxTime

VARIABLES
  agents,    \* the HAConfig of a name
  added,     \* HAConfigs constructed so far
  mountdev,  \* HAConfig::mountdev
  live,      \* HAConfigs whose LibVMI handle is open
  vmi,       \* the HAConfig whose handle a slot points to
  refcount, l, last_used,
  held,      \* the slot behind the mount point a client was given
  over,      \* ~HAMain has run
  clock,     \* the host's time
  readded    \* history: HAConfigs replaced while their VM was mounted

configVars == <<agents, added, mountdev, live>>
slotVars   == <<vmi, refcount, l, last_used>>
vars == <<configVars, slotVars, held, over, clock, readded>>

Init ==
  /\ agents = [v \in VMs |-> NoConfig]
  /\ added = 0 /\ live = {}
  /\ mountdev = [c \in Configs |-> NoSlot]
  /\ vmi = [s \in Slots |-> NoConfig]
  /\ refcount = [s \in Slots |-> 0]
  /\ l = [s \in Slots |-> FALSE]
  /\ last_used = [s \in Slots |-> 0]
  /\ held = [v \in VMs |-> NoSlot]
  /\ over = FALSE /\ clock = 0 /\ readded = {}

Registered(v) == ~over /\ agents[v] # NoConfig

Readd(v) ==
  readded' = IF held[v] = NoSlot THEN readded ELSE readded \cup {agents[v]}

AddAgentDeletes(v) ==  \* mutant: deletes the HAConfig that had the name
  /\ ~over /\ added < MaxConfigs
  /\ added' = added + 1
  /\ agents' = [agents EXCEPT ![v] = added']
  /\ live' = (live \ {agents[v]}) \cup {added'}
  /\ \E s \in Slots : mountdev' = [mountdev EXCEPT ![added'] = s]
  /\ Readd(v)
  /\ UNCHANGED <<slotVars, held, over, clock>>

(* A new HAConfig takes the name.  Its mountdev is not initialised, and    *)
(* the HAConfig that had the name is not deleted.                          *)
AddAgent(v) ==
  /\ ~over /\ added < MaxConfigs
  /\ added' = added + 1
  /\ agents' = [agents EXCEPT ![v] = added']
  /\ live' = live \cup {added'}
  /\ \E s \in Slots : mountdev' = [mountdev EXCEPT ![added'] = s]
  /\ Readd(v)
  /\ UNCHANGED <<slotVars, held, over, clock>>

(* C divides towards zero. *)
Truncated(n, d) == IF n < 0 THEN -((-n) \div d) ELSE n \div d

(* A struct timeval of the time n. *)
Stamp(n) == [tv_sec  |-> n \div (PerSec * PerMsec),
             tv_usec |-> n % (PerSec * PerMsec)]

WholeSeconds(x, y) ==  \* mutant: does not look at the microseconds
  (y.tv_sec - x.tv_sec) * PerSec

timeval_diff(x, y) ==
  (y.tv_sec - x.tv_sec) * PerSec + Truncated(y.tv_usec - x.tv_usec, PerMsec)

Age(s) == timeval_diff(Stamp(last_used[s]), Stamp(clock))

Idle == {s \in Slots : refcount[s] = 0}
Lowest(S) == {s \in S : \A r \in S : s <= r}

(* The LRU loop's choice. *)
Stolen ==
  Lowest({s \in Idle : Age(s) >= Limit /\ \A r \in Idle : Age(r) <= Age(s)})

(* The slot request_mount ends with, for the handle of c: its own, the     *)
(* first never locked, or a stolen one.                                    *)
SlotFor(c) ==
  LET own  == {s \in Slots : vmi[s] = c}
      free == {s \in Slots : ~l[s]}
  IN  CASE own # {} -> Lowest(own)
        [] own = {} /\ free # {} -> Lowest(free)
        [] OTHER -> Stolen

MountDiskUnnoted(v) ==  \* mutant: does not note the slot in the HAConfig
  /\ Registered(v) /\ held[v] = NoSlot
  /\ \E s \in SlotFor(agents[v]) :
       /\ refcount' = [refcount EXCEPT ![s] =
                         IF vmi[s] = agents[v] THEN @ + 1 ELSE 1]
       /\ vmi' = [vmi EXCEPT ![s] = agents[v]]
       /\ l' = [l EXCEPT ![s] = TRUE]
       /\ last_used' = [last_used EXCEPT ![s] = clock]
       /\ held' = [held EXCEPT ![v] = s]
  /\ UNCHANGED <<configVars, over, clock, readded>>

(* Without a slot it spins; nobody else is there to release one.           *)
MountDisk(v) ==
  /\ Registered(v) /\ held[v] = NoSlot
  /\ \E s \in SlotFor(agents[v]) :
       /\ refcount' = [refcount EXCEPT ![s] =
                         IF vmi[s] = agents[v] THEN @ + 1 ELSE 1]
       /\ vmi' = [vmi EXCEPT ![s] = agents[v]]
       /\ l' = [l EXCEPT ![s] = TRUE]
       /\ last_used' = [last_used EXCEPT ![s] = clock]
       /\ mountdev' = [mountdev EXCEPT ![agents[v]] = s]
       /\ held' = [held EXCEPT ![v] = s]
  /\ UNCHANGED <<agents, added, live, over, clock, readded>>

UnmountDisk(v) ==
  /\ Registered(v) /\ held[v] # NoSlot
  /\ refcount' = [refcount EXCEPT ![mountdev[agents[v]]] = @ - 1]
  /\ held' = [held EXCEPT ![v] = NoSlot]
  /\ UNCHANGED <<configVars, vmi, l, last_used, over, clock, readded>>

(* ~HAMain deletes the HAConfigs that have a name. *)
Destroy ==
  /\ ~over /\ over' = TRUE
  /\ live' = live \ {agents[v] : v \in VMs}
  /\ UNCHANGED <<agents, added, mountdev, slotVars, held, clock, readded>>

(* Time passes, or the clock is set. *)
SetClock ==
  /\ ~over /\ clock' \in Times
  /\ UNCHANGED <<configVars, slotVars, held, over, readded>>

Next ==
  \/ \E v \in VMs : AddAgent(v) \/ MountDisk(v) \/ UnmountDisk(v)
  \/ Destroy \/ SetClock
  \/ over /\ UNCHANGED vars

Spec == Init /\ [][Next]_vars

----------------------------------------------------------------------------
(* Properties. *)

(* The comment of libhyperagent.h 105 on HAConfig::mountdev, "currently    *)
(* mounted nbd slot": of a VM that is mounted it is the slot mounted.      *)
MountdevIsCurrent ==
  \A v \in VMs : held[v] # NoSlot => mountdev[agents[v]] = held[v]

Named(c) == \E v \in VMs : agents[v] = c

(* A slot that no HAConfig with a name points at any more can be stolen:   *)
(* its count is 0.  Once a VM was added again while it was mounted that    *)
(* need not be: the slot it had keeps its count, and its release takes one *)
(* from the slot the new mountdev happens to name.  But no other slot is   *)
(* left with a count that nobody will release.                             *)
OrphansIdle ==
  \A s \in Slots : ~Named(vmi[s]) =>
    /\ readded = {} => refcount[s] = 0
    /\ vmi[s] \notin readded => refcount[s] <= 0

(* Until the end no slot points to the handle of an HAConfig that was      *)
(* deleted: do_nbd_unmount and release_mount use the handle of whatever    *)
(* the slot points to.                                                     *)
HandlesLive == ~over => \A s \in Slots : vmi[s] \in live \cup {NoConfig}

(* The LRU loop (604-628): a slot that changes hands is idle, its stamp is *)
(* ten seconds old up to a millisecond, and no other idle slot's stamp is  *)
(* older by two or more, also after the clock was set back.                *)
StealsOldest ==
  [][\A s \in Slots :
       vmi[s] # NoConfig /\ vmi'[s] # vmi[s] =>
         /\ refcount[s] = 0
         /\ clock - last_used[s] > (Limit - 1) * PerMsec
         /\ \A r \in Idle : last_used[s] - last_used[r] < 2 * PerMsec]_vars
=============================================================================
