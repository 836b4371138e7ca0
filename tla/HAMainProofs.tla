---------------------------- MODULE HAMainProofs ----------------------------
(***************************************************************************)
(* Theorems about HAMain, for every number of VMs and slots and all        *)
(* clients, also those that add a VM again while they have its disk: the   *)
(* registry's pointers and counts, and the clock's arithmetic in the       *)
(* choice of the slot to steal.                                            *)
(***************************************************************************)
EXTENDS HAMain, TLAPS

USE DEF configVars, slotVars, vars

Types ==
  /\ agents \in [VMs -> Configs \cup {NoConfig}] /\ added \in 0 .. MaxConfigs
  /\ mountdev \in [Configs -> Slots \cup {NoSlot}] /\ live \subseteq Configs
  /\ vmi \in [Slots -> Configs \cup {NoConfig}]
  /\ refcount \in [Slots -> Int] /\ l \in [Slots -> BOOLEAN]
  /\ last_used \in [Slots -> Int]
  /\ held \in [VMs -> Slots \cup {NoSlot}] /\ over \in BOOLEAN
  /\ clock \in Int /\ readded \subseteq Configs

(* A name stands for a HAConfig that was constructed, that no other name   *)
(* stands for and that add_agent has not replaced.                         *)
NamesApart ==
  \A v \in VMs :
    /\ agents[v] # NoConfig =>
         /\ agents[v] <= added /\ agents[v] \notin readded
         /\ \A w \in VMs : agents[w] = agents[v] => w = v
    /\ held[v] # NoSlot => agents[v] # NoConfig

(* No slot points to, and nothing replaced is, a HAConfig yet to come.     *)
Constructed ==
  /\ \A s \in Slots : vmi[s] # NoConfig => vmi[s] <= added
  /\ \A c \in readded : c <= added

(* A slot never locked has no name.                                        *)
NamedLocked == \A s \in Slots : ~l[s] => vmi[s] = NoConfig

(* What has a name, or has a slot point to it, was not deleted.            *)
NamedLive ==
  ~over => /\ \A v \in VMs : agents[v] # NoConfig => agents[v] \in live
           /\ \A s \in Slots : vmi[s] \in live \cup {NoConfig}

(* As long as the slot of a mounted VM points to the VM's HAConfig,        *)
(* mountdev says which slot it is.                                         *)
Linked ==
  \A v \in VMs :
    held[v] # NoSlot /\ vmi[held[v]] = agents[v] =>
      mountdev[agents[v]] = held[v]

(* Slot s is that of a mounted VM, and points to its HAConfig.             *)
InHand(s) == \E v \in VMs : agents[v] = vmi[s] /\ held[v] = s

(* A slot that does not point to a HAConfig replaced while its VM was      *)
(* mounted has no count, or one that will be released.                     *)
CountBound ==
  \A s \in Slots :
    vmi[s] \notin readded => refcount[s] <= IF InHand(s) THEN 1 ELSE 0

(* As long as no VM was added again while it was mounted, the counts are   *)
(* exact.                                                                  *)
CountsExact ==
  readded = {} =>
    /\ \A v \in VMs : held[v] # NoSlot =>
          vmi[held[v]] = agents[v] /\ refcount[held[v]] = 1
    /\ \A s \in Slots : refcount[s] # 0 => \E v \in VMs : held[v] = s

RegistryInv ==
  /\ Types /\ NamesApart /\ Constructed /\ NamedLocked /\ NamedLive
  /\ Linked /\ CountBound /\ CountsExact

----------------------------------------------------------------------------
LEMMA RegistryInit == Init => RegistryInv
<1> SUFFICES ASSUME Init PROVE RegistryInv
  OBVIOUS
<1> USE RegistryAssumption DEF Init, Configs
<1>1. Types
  <2>1. agents \in [VMs -> Configs \cup {NoConfig}] /\ added \in 0 .. MaxConfigs
    OBVIOUS
  <2>2. mountdev \in [Configs -> Slots \cup {NoSlot}] /\ live \subseteq Configs
    OBVIOUS
  <2>3. vmi \in [Slots -> Configs \cup {NoConfig}]
    OBVIOUS
  <2>4. /\ refcount \in [Slots -> Int] /\ l \in [Slots -> BOOLEAN]
        /\ last_used \in [Slots -> Int]
    OBVIOUS
  <2>5. held \in [VMs -> Slots \cup {NoSlot}] /\ clock \in Int
    OBVIOUS
  <2>6. over \in BOOLEAN
    OBVIOUS
  <2> QED
    BY <2>1, <2>2, <2>3, <2>4, <2>5, <2>6 DEF Types
<1>2. NamesApart /\ Constructed /\ NamedLocked /\ NamedLive
  BY DEF NamesApart, Constructed, NamedLocked, NamedLive
<1>3. Linked /\ CountBound /\ CountsExact
  BY DEF Linked, CountBound, CountsExact
<1> QED
  BY <1>1, <1>2, <1>3 DEF RegistryInv

(* A new HAConfig: it gets a number that no name and no slot has.          *)
LEMMA AddAgentStep ==
  ASSUME RegistryInv, NEW v \in VMs, AddAgent(v)
  PROVE  RegistryInv'
<1> DEFINE c == added + 1
<1> USE RegistryAssumption DEF RegistryInv, Types, Configs
<1>1. /\ c \in Configs /\ ~over
      /\ added' = c /\ agents' = [agents EXCEPT ![v] = c]
      /\ live' = live \cup {c}
      /\ readded' = IF held[v] = NoSlot THEN readded
                    ELSE readded \cup {agents[v]}
      /\ UNCHANGED <<vmi, refcount, l, last_used, held, over, clock>>
  BY DEF AddAgent, Readd
<1>2. PICK s \in Slots : mountdev' = [mountdev EXCEPT ![c] = s]
  BY <1>1 DEF AddAgent
<1>3. /\ \A w \in VMs : agents[w] # c
      /\ \A r \in Slots : vmi[r] # c
      /\ c \notin readded /\ c # NoConfig
  BY <1>1 DEF NamesApart, Constructed
<1>4. held[v] # NoSlot => agents[v] \in Configs /\ agents[v] <= added
  BY DEF NamesApart
<1>5. \A w \in VMs : agents'[w] = IF w = v THEN c ELSE agents[w]
  BY <1>1
<1>6. Types'
  <2>1. /\ agents' \in [VMs -> Configs \cup {NoConfig}]
        /\ added' \in 0 .. MaxConfigs
    BY <1>1
  <2>2. mountdev' \in [Configs -> Slots \cup {NoSlot}]
    BY <1>1, <1>2
  <2>3. live' \subseteq Configs /\ readded' \subseteq Configs
    BY <1>1, <1>4
  <2> QED
    BY <1>1, <2>1, <2>2, <2>3
<1>7. NamesApart'
  BY <1>1, <1>3, <1>4, <1>5 DEF NamesApart
<1>8. Constructed' /\ NamedLocked' /\ NamedLive'
  BY <1>1, <1>4, <1>5 DEF Constructed, NamedLocked, NamedLive
<1>9. Linked'
  BY <1>1, <1>2, <1>3, <1>5 DEF Linked
<1>10. CountBound'
  <2> SUFFICES ASSUME NEW r \in Slots, vmi[r] \notin readded'
               PROVE  refcount[r] <= IF InHand(r)' THEN 1 ELSE 0
    BY <1>1 DEF CountBound
  <2>1. refcount[r] <= IF InHand(r) THEN 1 ELSE 0
    BY <1>1 DEF CountBound
  <2>2. ASSUME InHand(r) PROVE InHand(r)'
    <3>1. PICK w \in VMs : agents[w] = vmi[r] /\ held[w] = r
      BY <2>2 DEF InHand
    <3>2. w # v
      BY <1>1, <3>1 DEF Slots, NoSlot
    <3>3. agents'[w] = vmi'[r] /\ held'[w] = r
      BY <1>1, <1>5, <3>1, <3>2
    <3> QED
      BY <3>3 DEF InHand
  <2> QED
    BY <2>1, <2>2
<1>11. CountsExact'
  BY <1>1, <1>5 DEF CountsExact
<1> QED
  BY <1>6, <1>7, <1>8, <1>9, <1>10, <1>11

(* The slot mount_disk gets is not counted for its own HAConfig, and, as   *)
(* long as no VM was added again while it was mounted, for no other.       *)
LEMMA SlotForIdle ==
  ASSUME RegistryInv, NEW v \in VMs, Registered(v), held[v] = NoSlot,
         NEW s \in SlotFor(agents[v])
  PROVE  /\ s \in Slots
         /\ vmi[s] = agents[v] => refcount[s] <= 0
         /\ readded = {} => refcount[s] = 0 /\ \A w \in VMs : held[w] # s
<1> USE RegistryAssumption DEF RegistryInv, Types, Registered
<1>1. s \in Slots
  BY DEF SlotFor, Stolen, Lowest, Idle
<1>2. ASSUME vmi[s] = agents[v] PROVE refcount[s] <= 0
  <2>1. vmi[s] \notin readded
    BY <1>2 DEF NamesApart
  <2>2. ~InHand(s)
    BY <1>1, <1>2 DEF InHand, NamesApart, Slots, NoSlot
  <2> QED
    BY <1>1, <2>1, <2>2 DEF CountBound
<1>3. ASSUME readded = {}, NEW w \in VMs, held[w] = s PROVE FALSE
  <2>1. held[w] # NoSlot /\ w # v
    BY <1>1, <1>3 DEF NoSlot, Slots
  <2>2. vmi[s] = agents[w] /\ refcount[s] = 1
    BY <1>3, <2>1 DEF CountsExact
  <2>3. agents[w] # NoConfig
    BY <2>1 DEF NamesApart
  <2>4. vmi[s] # agents[v]
    BY <2>1, <2>2, <2>3 DEF NamesApart
  <2>5. l[s]
    BY <1>1, <2>2, <2>3 DEF NamedLocked
  <2>6. s \notin Idle
    BY <2>2 DEF Idle
  <2> QED
    BY <1>1, <2>4, <2>5, <2>6 DEF SlotFor, Stolen, Lowest
<1> QED
  BY <1>1, <1>2, <1>3 DEF CountsExact

LEMMA MountDiskStep ==
  ASSUME RegistryInv, NEW v \in VMs, MountDisk(v)
  PROVE  RegistryInv'
<1> DEFINE c == agents[v]
<1> USE RegistryAssumption DEF RegistryInv, Types
<1>1. Registered(v) /\ held[v] = NoSlot /\ c \in Configs /\ c # NoConfig
      /\ UNCHANGED <<agents, added, live, over, clock, readded>>
  BY DEF MountDisk, Registered
<1>2. PICK s \in SlotFor(c) :
        /\ refcount' = [refcount EXCEPT ![s] = IF vmi[s] = c THEN @ + 1 ELSE 1]
        /\ vmi' = [vmi EXCEPT ![s] = c]
        /\ l' = [l EXCEPT ![s] = TRUE]
        /\ last_used' = [last_used EXCEPT ![s] = clock]
        /\ mountdev' = [mountdev EXCEPT ![c] = s]
        /\ held' = [held EXCEPT ![v] = s]
  BY DEF MountDisk
<1>3. /\ s \in Slots
      /\ vmi[s] = c => refcount[s] <= 0
      /\ readded = {} => refcount[s] = 0 /\ \A w \in VMs : held[w] # s
  BY <1>1, SlotForIdle
<1>4. PICK n \in Int : n <= 1 /\ refcount' = [refcount EXCEPT ![s] = n]
                      /\ (readded = {} => n = 1)
  <2>1. CASE vmi[s] = c
    <3>1. refcount' = [refcount EXCEPT ![s] = refcount[s] + 1]
      BY <1>2, <2>1
    <3>2. /\ refcount[s] + 1 \in Int /\ refcount[s] + 1 <= 1
          /\ readded = {} => refcount[s] + 1 = 1
      <4>1. refcount[s] \in Int /\ refcount[s] <= 0
        BY <1>3, <2>1
      <4> QED
        BY <1>3, <4>1
    <3> QED
      BY <3>1, <3>2
  <2>2. CASE vmi[s] # c
    <3>1. refcount' = [refcount EXCEPT ![s] = 1]
      BY <1>2, <2>2
    <3>2. 1 \in Int /\ 1 <= 1
      OBVIOUS
    <3> QED
      BY <3>1, <3>2
  <2> QED
    BY <2>1, <2>2
<1>5. \A w \in VMs \ {v} : agents[w] # c
  BY <1>1 DEF NamesApart
<1>6. Types'
  <2>1. vmi' \in [Slots -> Configs \cup {NoConfig}]
    BY <1>1, <1>2, <1>3
  <2>2. refcount' \in [Slots -> Int] /\ l' \in [Slots -> BOOLEAN]
    BY <1>2, <1>3, <1>4
  <2>3. /\ last_used' \in [Slots -> Int]
        /\ mountdev' \in [Configs -> Slots \cup {NoSlot}]
        /\ held' \in [VMs -> Slots \cup {NoSlot}]
    BY <1>1, <1>2, <1>3
  <2> QED
    BY <1>1, <2>1, <2>2, <2>3
<1>7. NamesApart' /\ Constructed'
  BY <1>1, <1>2, <1>3 DEF NamesApart, Constructed
<1>8. NamedLocked' /\ NamedLive'
  BY <1>1, <1>2, <1>3 DEF NamedLocked, NamedLive
<1>9. Linked'
  BY <1>1, <1>2, <1>3, <1>5 DEF Linked
<1>10. CountBound'
  <2> SUFFICES ASSUME NEW r \in Slots, vmi'[r] \notin readded
               PROVE  refcount'[r] <= IF InHand(r)' THEN 1 ELSE 0
    BY <1>1 DEF CountBound
  <2>1. CASE r = s
    <3>1. agents'[v] = vmi'[r] /\ held'[v] = r
      BY <1>1, <1>2, <1>3, <2>1
    <3>2. InHand(r)'
      BY <3>1 DEF InHand
    <3> QED
      BY <1>3, <1>4, <2>1, <3>2
  <2>2. CASE r # s
    <3>1. vmi'[r] = vmi[r] /\ refcount'[r] = refcount[r]
      BY <1>2, <1>4, <2>2
    <3>2. refcount[r] <= IF InHand(r) THEN 1 ELSE 0
      BY <3>1 DEF CountBound
    <3>3. ASSUME InHand(r) PROVE InHand(r)'
      <4>1. PICK w \in VMs : agents[w] = vmi[r] /\ held[w] = r
        BY <3>3 DEF InHand
      <4>2. w # v
        BY <1>1, <4>1 DEF Slots, NoSlot
      <4>3. agents'[w] = vmi'[r] /\ held'[w] = r
        BY <1>1, <1>2, <3>1, <4>1, <4>2
      <4> QED
        BY <4>3 DEF InHand
    <3> QED
      BY <3>1, <3>2, <3>3
  <2> QED
    BY <2>1, <2>2
<1>11. CountsExact'
  <2> SUFFICES ASSUME readded = {} PROVE CountsExact'
    BY <1>1 DEF CountsExact
  <2>1. ASSUME NEW r \in Slots, refcount'[r] # 0
        PROVE  \E w \in VMs : held'[w] = r
    <3>1. CASE r = s
      BY <1>2, <3>1
    <3>2. CASE r # s
      <4>1. PICK w \in VMs : held[w] = r
        BY <1>4, <2>1, <3>2 DEF CountsExact
      <4>2. w # v
        BY <1>1, <4>1 DEF NoSlot, Slots
      <4> QED
        BY <1>2, <4>1, <4>2
    <3> QED
      BY <3>1, <3>2
  <2>2. \A w \in VMs : held'[w] # NoSlot =>
          vmi'[held'[w]] = agents'[w] /\ refcount'[held'[w]] = 1
    BY <1>1, <1>2, <1>3, <1>4 DEF CountsExact
  <2> QED
    BY <2>1, <2>2 DEF CountsExact
<1> QED
  BY <1>6, <1>7, <1>8, <1>9, <1>10, <1>11

(* The count is taken from the slot in mountdev, which is the slot the     *)
(* client had if that still points to the VM's HAConfig.                   *)
LEMMA UnmountDiskStep ==
  ASSUME RegistryInv, NEW v \in VMs, UnmountDisk(v)
  PROVE  RegistryInv'
<1> DEFINE m == mountdev[agents[v]]
<1> USE RegistryAssumption DEF RegistryInv, Types
<1>1. /\ held[v] \in Slots /\ agents[v] # NoConfig /\ held[v] # NoSlot
      /\ held' = [held EXCEPT ![v] = NoSlot]
      /\ refcount' = [refcount EXCEPT ![m] = @ - 1]
      /\ UNCHANGED <<agents, added, mountdev, live, vmi, l, last_used, over,
                     clock, readded>>
  BY DEF UnmountDisk, NamesApart
<1>2. \A r \in Slots : refcount'[r] = IF r = m THEN refcount[r] - 1
                                      ELSE refcount[r]
  BY <1>1
<1>3. Types'
  <2>1. \A r \in Slots : refcount'[r] \in Int
    BY <1>2
  <2>2. refcount' = [r \in Slots |-> refcount'[r]]
    BY <1>1
  <2>3. refcount' \in [Slots -> Int]
    BY <2>1, <2>2
  <2> QED
    BY <1>1, <2>3
<1>4. NamesApart' /\ Constructed' /\ NamedLocked' /\ NamedLive'
  BY <1>1 DEF NamesApart, Constructed, NamedLocked, NamedLive
<1>5. Linked'
  BY <1>1 DEF Linked
<1>6. CountBound'
  <2> SUFFICES ASSUME NEW r \in Slots, vmi[r] \notin readded
               PROVE  refcount'[r] <= IF InHand(r)' THEN 1 ELSE 0
    BY <1>1 DEF CountBound
  <2>1. refcount[r] <= IF InHand(r) THEN 1 ELSE 0
    BY DEF CountBound
  <2>2. CASE InHand(r) /\ ~InHand(r)'
    <3>1. PICK w \in VMs : agents[w] = vmi[r] /\ held[w] = r
      BY <2>2 DEF InHand
    <3>2. ASSUME w # v PROVE FALSE
      <4>1. agents'[w] = vmi'[r] /\ held'[w] = r
        BY <1>1, <3>1, <3>2
      <4> QED
        BY <2>2, <4>1 DEF InHand
    <3>3. m = r
      BY <1>1, <3>1, <3>2 DEF Linked
    <3> QED
      BY <1>2, <2>1, <3>3
  <2>3. CASE InHand(r)' \/ ~InHand(r)
    BY <1>2, <2>1, <2>3
  <2> QED
    BY <2>2, <2>3
<1>7. CountsExact'
  <2> SUFFICES ASSUME readded = {} PROVE CountsExact'
    BY <1>1 DEF CountsExact
  <2>1. m = held[v] /\ refcount[m] = 1
    BY <1>1 DEF CountsExact, Linked
  <2>2. refcount' = [refcount EXCEPT ![held[v]] = 0]
    BY <1>1, <2>1
  <2>3. \A w \in VMs \ {v} : held[w] # held[v]
    BY <1>1 DEF CountsExact, NamesApart
  <2> QED
    BY <1>1, <2>2, <2>3 DEF CountsExact
<1> QED
  BY <1>3, <1>4, <1>5, <1>6, <1>7

LEMMA RegistryStep ==
  ASSUME RegistryInv, [Next]_vars
  PROVE  RegistryInv'
<1> USE DEF RegistryInv, Types, NamesApart, Constructed, NamedLocked, NamedLive,
            Linked, CountBound, InHand, CountsExact
<1>1. CASE Destroy
  BY <1>1 DEF Destroy
<1>2. CASE SetClock \/ UNCHANGED vars
  BY <1>2, RegistryAssumption DEF SetClock, Times
<1> HIDE DEF RegistryInv
<1> QED
  BY <1>1, <1>2, AddAgentStep, MountDiskStep, UnmountDiskStep DEF Next

LEMMA RegistryInvariant == Spec => []RegistryInv
<1>1. RegistryInv /\ [Next]_vars => RegistryInv'
  BY RegistryStep
<1> QED
  BY <1>1, RegistryInit, PTL DEF Spec

(* What add_agent loses when it replaces a HAConfig (libhyperagent.cc      *)
(* 60-61, nothing releases the one that had the name) is a count of a slot *)
(* that points to a HAConfig replaced while its VM was mounted, and no     *)
(* other: every other slot whose HAConfig has lost its name is free to be  *)
(* stolen (syncmount.cc 610), through any calls of add_agent, mounts,      *)
(* remounts, steals and settings of the clock, though the release after a  *)
(* replacement (libhyperagent.cc 99-104) takes its count from whatever     *)
(* slot the new, uninitialised mountdev names.                             *)
THEOREM OrphansStealable == Spec => []OrphansIdle
<1>1. RegistryInv => OrphansIdle
  <2> SUFFICES ASSUME RegistryInv, NEW s \in Slots, ~Named(vmi[s])
               PROVE  /\ readded = {} => refcount[s] = 0
                      /\ vmi[s] \notin readded => refcount[s] <= 0
    BY DEF OrphansIdle
  <2>1. ~InHand(s)
    BY DEF InHand, Named
  <2>2. vmi[s] \notin readded => refcount[s] <= 0
    BY <2>1 DEF RegistryInv, CountBound
  <2>3. ASSUME readded = {}, refcount[s] # 0 PROVE FALSE
    <3>1. PICK v \in VMs : held[v] = s
      BY <2>3 DEF RegistryInv, CountsExact
    <3>2. held[v] # NoSlot
      BY <3>1 DEF Slots, NoSlot
    <3> QED
      BY <2>3, <3>1, <3>2 DEF RegistryInv, CountsExact, Named
  <2> QED
    BY <2>2, <2>3
<1> QED
  BY <1>1, RegistryInvariant, PTL

(* do_nbd_unmount and release_mount hand LibVMI the handle a slot points   *)
(* to (syncmount.cc 635, 661): whatever is registered, replaced, mounted   *)
(* and stolen, until ~HAMain (libhyperagent.cc 45-51) no slot points to    *)
(* one that vmi_destroy (134-140) has closed.                              *)
THEOREM HandlesStayLive == Spec => []HandlesLive
<1>1. RegistryInv => HandlesLive
  BY DEF RegistryInv, NamedLive, HandlesLive
<1> QED
  BY <1>1, RegistryInvariant, PTL


----------------------------------------------------------------------------
(* timeval_diff. *)

LEMMA Division ==
  ASSUME NEW d \in Int, d > 0, NEW n \in Int,
         NEW k \in Int, NEW r \in Int, k = n \div d, r = n % d
  PROVE  n = d * k + r /\ 0 <= r /\ r < d
<1>1. n = d * k + r
  OBVIOUS
<1>2. 0 <= r /\ r < d
  OBVIOUS
<1> QED
  BY <1>1, <1>2

LEMMA DivisionWhole ==
  ASSUME NEW n \in Int, NEW d \in Nat \ {0}
  PROVE  n \div d \in Int /\ n % d \in Int
<1>1. n \div d \in Int
  OBVIOUS
<1>2. n % d \in Int
  OBVIOUS
<1> QED
  BY <1>1, <1>2

LEMMA TruncatedClose ==
  ASSUME NEW n \in Int, NEW d \in Nat \ {0}
  PROVE  /\ Truncated(n, d) \in Int
         /\ d * Truncated(n, d) - n < d
         /\ n - d * Truncated(n, d) < d
<1>1. CASE n < 0
  <2>1. PICK k \in Int, r \in Int : k = (-n) \div d /\ r = (-n) % d
    BY DivisionWhole
  <2>2. -n = d * k + r /\ 0 <= r /\ r < d
    BY <2>1, Division
  <2>3. Truncated(n, d) = -k
    BY <1>1, <2>1 DEF Truncated
  <2>4. d * (-k) = -(d * k)
    BY <2>1
  <2> QED
    BY <2>1, <2>2, <2>3, <2>4
<1>2. CASE ~(n < 0)
  <2>1. PICK k \in Int, r \in Int : k = n \div d /\ r = n % d
    BY DivisionWhole
  <2>2. n = d * k + r /\ 0 <= r /\ r < d
    BY <2>1, Division
  <2>3. Truncated(n, d) = k
    BY <1>2, <2>1 DEF Truncated
  <2> QED
    BY <2>1, <2>2, <2>3
<1> QED
  BY <1>1, <1>2

(* timeval_diff is the time between two stamps, but for less than a        *)
(* millisecond in either direction.                                        *)
LEMMA TimevalDiff ==
  ASSUME NEW m \in Int, NEW n \in Int
  PROVE  LET age == timeval_diff(Stamp(m), Stamp(n))
         IN  /\ age \in Int
             /\ PerMsec * age < n - m + PerMsec
             /\ n - m - PerMsec < PerMsec * age
<1> DEFINE sec == PerSec * PerMsec
           age == timeval_diff(Stamp(m), Stamp(n))
<1>1. PerSec \in Nat \ {0} /\ PerMsec \in Nat \ {0}
  BY RegistryAssumption
<1>2. sec \in Nat \ {0}
  BY <1>1
<1> HIDE DEF sec
<1>3. PICK a \in Int, x \in Int : a = m \div sec /\ x = m % sec
  BY <1>2, DivisionWhole
<1>4. PICK b \in Int, y \in Int : b = n \div sec /\ y = n % sec
  BY <1>2, DivisionWhole
<1>5. PICK t \in Int : /\ t = Truncated(y - x, PerMsec)
                     /\ PerMsec * t - (y - x) < PerMsec
                     /\ (y - x) - PerMsec * t < PerMsec
  <2>1. y - x \in Int
    OBVIOUS
  <2> QED
    BY <1>1, <2>1, TruncatedClose
<1>6. age = (b - a) * PerSec + t
  <2>1. Stamp(m).tv_sec = a /\ Stamp(m).tv_usec = x
    BY <1>3 DEF Stamp, sec
  <2>2. Stamp(n).tv_sec = b /\ Stamp(n).tv_usec = y
    BY <1>4 DEF Stamp, sec
  <2> QED
    BY <1>5, <2>1, <2>2 DEF timeval_diff
<1>7. n - m = sec * (b - a) + (y - x)
  <2>1. sec \in Int /\ sec > 0
    BY <1>2
  <2>2. m = sec * a + x
    BY <1>3, <2>1, Division
  <2>3. n = sec * b + y
    BY <1>4, <2>1, Division
  <2> QED
    BY <2>1, <2>2, <2>3
<1>8. PerMsec * age = sec * (b - a) + PerMsec * t
  BY <1>1, <1>6 DEF sec
<1>9. age \in Int
  BY <1>1, <1>6
<1> HIDE DEF age
<1>10. PICK p \in Int, q \in Int : p = sec * (b - a) /\ q = PerMsec * t
  BY <1>1, <1>2
<1> QED
  BY <1>1, <1>5, <1>7, <1>8, <1>9, <1>10 DEF age


----------------------------------------------------------------------------
(* Steals. *)

(* A slot that has a name was locked: only the LRU loop takes it.          *)
StampInv ==
  /\ DOMAIN vmi = Slots /\ DOMAIN l = Slots
  /\ last_used \in [Slots -> Int] /\ clock \in Int
  /\ \A s \in Slots : vmi[s] # NoConfig => l[s]

LEMMA StampStep ==
  ASSUME StampInv, [Next]_vars
  PROVE  StampInv'
<1> USE DEF StampInv
<1>1. ASSUME NEW v \in VMs, MountDisk(v) PROVE StampInv'
  <2>1. PICK s \in SlotFor(agents[v]) :
          /\ vmi' = [vmi EXCEPT ![s] = agents[v]]
          /\ l' = [l EXCEPT ![s] = TRUE]
          /\ last_used' = [last_used EXCEPT ![s] = clock]
    BY <1>1 DEF MountDisk
  <2>2. clock' = clock
    BY <1>1 DEF MountDisk
  <2> QED
    BY <2>1, <2>2
<1>2. ASSUME NEW v \in VMs, AddAgent(v) \/ UnmountDisk(v) PROVE StampInv'
  BY <1>2 DEF AddAgent, UnmountDisk
<1>3. CASE Destroy
  BY <1>3 DEF Destroy
<1>4. CASE SetClock
  <2>1. clock' \in Int
    BY <1>4, RegistryAssumption DEF SetClock, Times
  <2> QED
    BY <1>4, <2>1 DEF SetClock
<1>5. CASE UNCHANGED vars
  BY <1>5
<1> QED
  BY <1>1, <1>2, <1>3, <1>4, <1>5 DEF Next

(* What the LRU loop finds is idle, old enough and, up to what             *)
(* timeval_diff rounds, the oldest.                                        *)
LEMMA StolenOldest ==
  ASSUME StampInv, NEW s \in Stolen
  PROVE  /\ s \in Slots /\ refcount[s] = 0
         /\ clock - last_used[s] > (Limit - 1) * PerMsec
         /\ \A r \in Idle : last_used[s] - last_used[r] < 2 * PerMsec
<1>1. /\ s \in Slots /\ refcount[s] = 0 /\ Age(s) >= Limit
      /\ \A r \in Idle : r \in Slots /\ Age(r) <= Age(s)
  BY DEF Stolen, Lowest, Idle
<1>2. PerMsec \in Nat \ {0} /\ Limit \in Nat
  BY RegistryAssumption
<1>3. ASSUME NEW r \in Slots
      PROVE  /\ last_used[r] \in Int /\ clock \in Int /\ Age(r) \in Int
             /\ PerMsec * Age(r) < clock - last_used[r] + PerMsec
             /\ clock - last_used[r] - PerMsec < PerMsec * Age(r)
  <2>1. last_used[r] \in Int /\ clock \in Int
    BY DEF StampInv
  <2> QED
    BY <2>1, TimevalDiff DEF Age
<1> HIDE DEF Age
<1>4. clock - last_used[s] > (Limit - 1) * PerMsec
  <2>1. PerMsec * Age(s) >= PerMsec * Limit
    BY <1>1, <1>2, <1>3
  <2> QED
    BY <1>1, <1>2, <1>3, <2>1
<1>5. ASSUME NEW r \in Idle PROVE last_used[s] - last_used[r] < 2 * PerMsec
  <2>1. PerMsec * Age(r) <= PerMsec * Age(s)
    BY <1>1, <1>2, <1>3
  <2> QED
    BY <1>1, <1>2, <1>3, <2>1
<1> QED
  BY <1>1, <1>4, <1>5

(* The LRU loop (syncmount.cc 604-628) takes a slot from a VM only when it *)
(* is idle and was last mounted Limit milliseconds ago, less one, and no   *)
(* other idle slot was mounted two milliseconds or more before it: for any *)
(* stamps, also those of a clock that was set back, and with all that      *)
(* timeval_diff (777-784) cuts off.                                        *)
THEOREM OldestStolen == Spec => StealsOldest
<1> DEFINE Oldest ==
      \A s \in Slots :
        vmi[s] # NoConfig /\ vmi'[s] # vmi[s] =>
          /\ refcount[s] = 0
          /\ clock - last_used[s] > (Limit - 1) * PerMsec
          /\ \A r \in Idle : last_used[s] - last_used[r] < 2 * PerMsec
<1>1. Init => StampInv
  BY DEF Init, StampInv
<1>2. StampInv /\ [Next]_vars => StampInv'
  BY StampStep
<1>3. StampInv /\ [Next]_vars => Oldest
  <2> SUFFICES ASSUME StampInv, [Next]_vars, NEW s \in Slots,
                      vmi[s] # NoConfig, vmi'[s] # vmi[s]
               PROVE  s \in Stolen
    BY StolenOldest
  <2>1. PICK v \in VMs : MountDisk(v)
    BY DEF Next, AddAgent, UnmountDisk, Destroy, SetClock
  <2>2. PICK r \in SlotFor(agents[v]) : vmi' = [vmi EXCEPT ![r] = agents[v]]
    BY <2>1 DEF MountDisk
  <2>3. s = r /\ vmi[s] # agents[v] /\ l[s]
    BY <2>2 DEF StampInv
  <2> QED
    BY <2>2, <2>3 DEF SlotFor, Lowest
<1>4. StealsOldest <=> [][Oldest]_vars
  BY DEF StealsOldest
<1> QED
  BY <1>1, <1>2, <1>3, <1>4, PTL DEF Spec
=============================================================================
