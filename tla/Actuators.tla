------------------------------ MODULE Actuators ------------------------------
(***************************************************************************)
(* Two actuators: snippets that read the memory of a paused guest and      *)
(* resume it.  actuators/13.c walks the list of network devices;           *)
(* actuators/15.c hashes the pages of a process's first memory area.  The  *)
(* guest stands still, so its memory is a constant of a walk.  What a walk *)
(* does not know is which reads LibVMI can serve.                          *)
(***************************************************************************)
EXTENDS Integers, Sequences, FiniteSets

CONSTANTS
  Devices,  \* the guest's net_device structures
  ListHead, \* dev_base_head, the list's own entry
  Nowhere,  \* an address nothing is at
  Default,  \* what ifname, mac and ip hold before the walk
  Zero,     \* 0.0.0.0
  MaxPage,  \* bound: the highest end of an area, in pages
  WORD      \* pages in 4 GB: q * 4096 is an unsigned int

Entries == Devices \cup {ListHead}

ASSUME GuestAssumption ==
  /\ ListHead \notin Devices /\ Nowhere \notin Entries
  /\ Default # Zero /\ {Default, Zero} \cap (Entries \cup {Nowhere}) = {}
  /\ MaxPage \in Nat /\ WORD \in Nat \ {0}

VARIABLES
  pc, paused,
  \* 13.c: the list_head each entry points to, and the reads that fail
  next, unread,
  \* current_devptr, the result, and the entries taken for devices, in order
  at, ifname, mac, ip, seen,
  \* 15.c: the area, the pages of it whose read falls short, and which of the
  \* first three reads fails
  start, end, absent, lost,
  \* the loop's index, and for each page its address and whether it is hashed
  q, printed

list   == <<next, unread>>
result == <<ifname, mac, ip>>
walk   == <<list, at, result, seen>>
area   == <<start, end, absent, lost>>
hashes == <<area, q, printed>>
vars   == <<pc, paused, walk, hashes>>

(* A kernel's list: from the head through some devices, each once, and     *)
(* back to the head.                                                       *)
Lists ==
  {f \in [Entries -> Entries] :
     \E S \in SUBSET Devices :
       /\ \A e \in Entries \ (S \cup {ListHead}) : f[e] = e
       /\ {f[e] : e \in S \cup {ListHead}} = S \cup {ListHead}
       /\ \A T \in SUBSET S : {f[e] : e \in T} = T => T = {}}

Fields == {"name", "mac", "ip", "next"}

InitNet ==
  /\ pc = "first"
  /\ next \in Lists /\ unread \in SUBSET (Fields \X Entries)
  /\ start = 1 /\ end = 1 /\ absent = {} /\ lost = 0

(* Areas begin and end at page boundaries, and not at 0. *)
InitPages ==
  /\ pc = "area"
  /\ next = [e \in Entries |-> e] /\ unread = {}
  /\ start \in 1 .. MaxPage /\ end \in start + 1 .. MaxPage
  /\ absent \in SUBSET (start .. end - 1) /\ lost \in 0 .. 3

Init ==
  /\ InitNet \/ InitPages
  /\ paused = TRUE
  /\ at = ListHead /\ ifname = Default /\ mac = Default /\ ip = Default
  /\ seen = << >> /\ q = 0 /\ printed = << >>

Goto(from, to) == pc = from /\ pc' = to

(* vmi_resume_vm, the last line of both. *)
ResumeGuest ==
  /\ Goto("resume", "done")
  /\ paused' = FALSE
  /\ UNCHANGED <<walk, hashes>>

----------------------------------------------------------------------------
(* 13.c *)

Reads(field, e) == e # Nowhere /\ <<field, e>> \notin unread

(* devptr_list_head is read from the head, or stays 0; do-while takes what *)
(* it finds for a device, the head itself if the list is empty.            *)
First ==
  /\ Goto("first", "name")
  /\ at' = IF Reads("next", ListHead) THEN next[ListHead] ELSE Nowhere
  /\ UNCHANGED <<paused, list, result, seen, hashes>>

(* A name that cannot be read leaves ifname as it was. *)
ReadName ==
  /\ Goto("name", "mac")
  /\ ifname' = IF Reads("name", at) THEN at ELSE ifname
  /\ seen' = Append(seen, at)
  /\ UNCHANGED <<paused, list, at, mac, ip, hashes>>

ReadMacAnyway ==  \* mutant: a failed read is not the end of the list
  /\ Goto("mac", "ip")
  /\ mac' = IF Reads("mac", at) THEN at ELSE mac
  /\ UNCHANGED <<paused, list, at, ifname, ip, seen, hashes>>

ReadMacReturns ==  \* mutant: returns at once, as 15.c does
  /\ IF Reads("mac", at) THEN Goto("mac", "ip") /\ mac' = at
                         ELSE Goto("mac", "done") /\ UNCHANGED mac
  /\ UNCHANGED <<paused, list, at, ifname, ip, seen, hashes>>

(* "read error, indicating EOL": the loop ends. *)
ReadMac ==
  /\ IF Reads("mac", at) THEN Goto("mac", "ip") /\ mac' = at
                         ELSE Goto("mac", "resume") /\ UNCHANGED mac
  /\ UNCHANGED <<paused, list, at, ifname, ip, seen, hashes>>

(* A failed read leaves the address 0. *)
ReadIp ==
  /\ Goto("ip", "next")
  /\ ip' = IF Reads("ip", at) THEN at ELSE Zero
  /\ UNCHANGED <<paused, list, at, ifname, mac, seen, hashes>>

EndsAtFirst(e) == e = next[ListHead]  \* mutant: stops at the first device again

EndsAt(e) == e = ListHead

Advance ==
  /\ IF Reads("next", at)
     THEN at' = next[at] /\ Goto("next", IF EndsAt(at') THEN "resume" ELSE "name")
     ELSE UNCHANGED at /\ Goto("next", "resume")
  /\ UNCHANGED <<paused, list, result, seen, hashes>>

----------------------------------------------------------------------------
(* 15.c *)

(* A failed read returns, and leaves the guest paused. *)
ReadArea ==
  /\ Goto("area", IF lost = 0 THEN "page" ELSE "returned")
  /\ UNCHANGED <<paused, walk, hashes>>

PagesInclusive(s, e) == (e % s) + 1  \* mutant: off by one

(* (end % start) / 4096 *)
n_pages(s, e) == e % s

PageAt(k) == start + (k % WORD)

HashPage ==
  /\ Goto("page", "page") /\ q < n_pages(start, end)
  /\ printed' = Append(printed, <<PageAt(q), PageAt(q) \notin absent>>)
  /\ q' = q + 1
  /\ UNCHANGED <<paused, walk, area>>

EndLoop ==
  /\ Goto("page", "resume") /\ q = n_pages(start, end)
  /\ UNCHANGED <<paused, walk, hashes>>

Next ==
  \/ First \/ ReadName \/ ReadMac \/ ReadIp \/ Advance
  \/ ReadArea \/ HashPage \/ EndLoop
  \/ ResumeGuest

Spec == Init /\ [][Next]_vars /\ WF_vars(Next)

----------------------------------------------------------------------------
(* Properties. *)

(* Without failing reads the walk of 13.c (57-137) takes every device on   *)
(* the list once, in its order, and nothing that is not a device; only an  *)
(* empty list makes it take the head for one.                              *)
VisitsList ==
  pc = "done" /\ unread = {} /\ seen # << >> =>
    IF next[ListHead] = ListHead THEN seen = <<ListHead>>
    ELSE /\ \A i \in 1 .. Len(seen) - 1 : seen[i + 1] = next[seen[i]]
         /\ seen[1] = next[ListHead] /\ next[seen[Len(seen)]] = ListHead
         /\ \A i \in 1 .. Len(seen) : seen[i] # ListHead

(* mac and ip (97, 126), which together name a machine on the network,     *)
(* never come from two devices, however the walk ends.                     *)
AddressesAgree ==
  pc \in {"name", "resume", "done"} => ip \in {mac, Zero, Default}

(* The areas 15.c can count: end % start is end - start, and the offset of *)
(* a page fits an unsigned int.                                            *)
Countable == end < 2 * start /\ end - start <= WORD

(* The comment of 15.c 19: the snippet "extracts and hashes a process's    *)
(* in-memory executable pages".  Of a countable area it prints the pages   *)
(* in their order, each once, and hashes those that are in memory; of no   *)
(* area does it hash a page of something else.                             *)
HashesArea ==
  /\ pc = "done" /\ Countable =>
       printed = [k \in 1 .. end - start |->
                    <<start + k - 1, start + k - 1 \notin absent>>]
  /\ \A k \in 1 .. Len(printed) : printed[k][1] \in start .. end - 1

(* Every walk ends, and the guest runs again unless 15.c could not read    *)
(* the area.                                                               *)
GuestResumed == <>(pc = "returned" \/ ~paused)
=============================================================================
