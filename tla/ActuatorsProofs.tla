--------------------------- MODULE ActuatorsProofs ---------------------------
(***************************************************************************)
(* Proofs about the two snippets of Actuators: what a walk over the        *)
(* network devices has seen, whose addresses it returns, and which pages   *)
(* the other one hashes, for every list, every area and every read that    *)
(* fails.                                                                  *)
(***************************************************************************)
EXTENDS Actuators, TLAPS

(* The locations of 13.c; "resume" and "done" are of both. *)
Walking == {"first", "name", "mac", "ip", "next"}
Ending  == {"resume", "done"}

Guest ==
  /\ pc \in Walking \cup Ending \cup {"area", "page", "returned"}
  /\ next \in [Entries -> Entries]
  /\ start \in Nat \ {0} /\ end \in Nat /\ start <= end
  /\ pc \in Walking => start = end

(* mac and ip as each location of the walk finds them. *)
AddressInv ==
  /\ pc \in {"first", "area", "page", "returned"} => ip = Default
  /\ pc \in {"name", "mac"} \cup Ending => ip \in {mac, Zero, Default}
  /\ pc \in {"ip", "next"} => mac = at
  /\ pc = "next" => ip \in {at, Zero}

Last(s) == s[Len(s)]

(* The entries of a walk are those of the list, from its first one on. *)
Follows(s) ==
  /\ s[1] = next[ListHead]
  /\ \A i \in 1 .. Len(s) - 1 : s[i + 1] = next[s[i]]
  /\ \A i \in 1 .. Len(s) : s[i] # ListHead

EmptyWalk == next[ListHead] = ListHead

(* Without failing reads, the walk is always somewhere on the list. *)
WalkInv ==
  /\ seen \in Seq(Entries)
  /\ pc \in {"first", "area", "page", "returned"} => seen = << >>
  /\ pc = "name" =>
       /\ at \in Entries
       /\ seen = << >> => at = next[ListHead]
       /\ seen # << >> => ~EmptyWalk /\ at = next[Last(seen)] /\ at # ListHead
  /\ pc \in {"mac", "ip", "next"} => seen # << >> /\ at = Last(seen)
  /\ seen # << >> => IF EmptyWalk THEN seen = <<ListHead>> ELSE Follows(seen)
  /\ pc \in Ending /\ seen # << >> => next[Last(seen)] = ListHead

(* What 15.c has printed is one entry for each round of its loop. *)
Printed(n) == [k \in 1 .. n |-> <<PageAt(k - 1), PageAt(k - 1) \notin absent>>]

HashInv ==
  /\ q \in Nat /\ printed = Printed(q) /\ q <= n_pages(start, end)
  /\ pc \in Ending => q = n_pages(start, end)


LEMMA GuestStep == ASSUME Guest, [Next]_vars PROVE Guest'
<1> USE GuestAssumption DEF Guest, Walking, Ending, Goto
<1>1. CASE First \/ ReadName \/ ReadMac \/ ReadIp \/ Advance
  BY <1>1 DEF First, ReadName, ReadMac, ReadIp, Advance, list, hashes, area
<1>2. CASE ReadArea \/ HashPage \/ EndLoop \/ ResumeGuest
  BY <1>2 DEF ReadArea, HashPage, EndLoop, ResumeGuest, walk, list, hashes, area
<1> QED
  BY <1>1, <1>2 DEF Next, vars, walk, list, hashes, area

LEMMA GuestInit == Init => Guest
<1>1. ASSUME InitNet PROVE Guest
  BY <1>1 DEF InitNet, Guest, Walking, Ending, Lists
<1>2. ASSUME InitPages PROVE Guest
  BY <1>2, GuestAssumption DEF InitPages, Guest, Walking, Ending
<1> QED
  BY <1>1, <1>2 DEF Init

(* The addresses 13.c returns, in mac and ip (97, 126), are of one device, *)
(* or ip is what it was before the walk, or 0: a walk that ends at a       *)
(* device whose MAC address cannot be read (80-85) has both of the device  *)
(* before it.                                                              *)
THEOREM OneDevice == Spec => []AddressesAgree
<1>1. Init => AddressInv
  BY DEF Init, InitNet, InitPages, AddressInv, Ending
<1>2. AddressInv /\ [Next]_vars => AddressInv'
  <2> SUFFICES ASSUME AddressInv, [Next]_vars PROVE AddressInv'
    OBVIOUS
  <2> USE DEF AddressInv, Ending, Goto
  <2>1. CASE First
    BY <2>1 DEF First, result
  <2>2. CASE ReadName
    BY <2>2 DEF ReadName
  <2>3. CASE ReadMac
    BY <2>3 DEF ReadMac
  <2>4. CASE ReadIp
    BY <2>4 DEF ReadIp
  <2>5. CASE Advance
    BY <2>5 DEF Advance, result
  <2>6. CASE ReadArea \/ HashPage \/ EndLoop \/ ResumeGuest
    BY <2>6 DEF ReadArea, HashPage, EndLoop, ResumeGuest, walk, result
  <2>7. CASE UNCHANGED vars
    BY <2>7 DEF vars, walk, result
  <2> QED
    BY <2>1, <2>2, <2>3, <2>4, <2>5, <2>6, <2>7 DEF Next
<1>3. AddressInv => AddressesAgree
  BY DEF AddressInv, AddressesAgree, Ending
<1> QED
  BY <1>1, <1>2, <1>3, PTL DEF Spec

----------------------------------------------------------------------------
(* 15.c *)

(* How many pages the snippet counts: never more than the area has, and    *)
(* all of it if the area ends below twice its start.                       *)
LEMMA CountedPages ==
  ASSUME NEW s \in Nat \ {0}, NEW e \in Nat, s <= e
  PROVE  /\ n_pages(s, e) \in Nat
         /\ n_pages(s, e) <= e - s
         /\ e < 2 * s => n_pages(s, e) = e - s
<1>1. e % s \in 0 .. s - 1
  OBVIOUS
<1>2. e % s <= e - s
  OBVIOUS
<1>3. ASSUME e < 2 * s PROVE e % s = e - s
  BY <1>3
<1> QED
  BY <1>1, <1>2, <1>3 DEF n_pages

(* The page of a small offset, and of any offset, is in the area. *)
LEMMA PageInArea ==
  ASSUME Guest, NEW k \in Nat, k < end - start
  PROVE  /\ PageAt(k) \in start .. end - 1
         /\ k < WORD => PageAt(k) = start + k
<1>1. WORD \in Nat \ {0}
  BY GuestAssumption
<1>2. k % WORD \in Nat /\ k % WORD <= k /\ (k < WORD => k % WORD = k)
  BY <1>1
<1> QED
  BY <1>2 DEF Guest, PageAt


LEMMA PrintedStep ==
  ASSUME NEW n \in Nat
  PROVE  Append(Printed(n), <<PageAt(n), PageAt(n) \notin absent>>)
           = Printed(n + 1)
<1> DEFINE Entry(k) == <<PageAt(k - 1), PageAt(k - 1) \notin absent>>
           s == [k \in 1 .. n |-> Entry(k)]
           t == [k \in 1 .. n + 1 |-> Entry(k)]
           x == <<PageAt(n), PageAt(n) \notin absent>>
<1>1. Entry(n + 1) = x
  OBVIOUS
<1> HIDE DEF Entry, x
<1>2. Append(s, x) = t
  BY <1>1
<1> QED
  BY <1>2 DEF Printed, Entry, x

LEMMA HashStep ==
  ASSUME Guest, HashInv, [Next]_vars
  PROVE  HashInv'
<1> USE DEF Guest, HashInv, Ending, Goto
<1>1. CASE HashPage
  <2>1. /\ q \in Nat /\ q < n_pages(start, end) /\ q' = q + 1 /\ pc' = "page"
        /\ UNCHANGED <<start, end, absent>>
    BY <1>1 DEF HashPage, area
  <2>2. n_pages(start, end) \in Nat
    BY CountedPages
  <2>3. printed' = Printed(q + 1)
    BY <1>1, <2>1, PrintedStep DEF HashPage
  <2>4. PICK n \in Nat : n = q + 1
    BY <2>1
  <2>5. Printed(n)' = Printed(n)
    BY <2>1 DEF Printed, PageAt
  <2>6. printed' = Printed(q)'
    BY <2>1, <2>3, <2>4, <2>5
  <2>7. q' \in Nat /\ q' <= n_pages(start, end)'
    BY <2>1, <2>2 DEF n_pages
  <2> QED
    BY <2>1, <2>6, <2>7
<1>2. ASSUME UNCHANGED hashes,
             pc' \in Ending =>
               pc \in Ending \cup {"next", "mac"} \/ q = n_pages(start, end)
      PROVE  HashInv'
  <2>1. UNCHANGED <<start, end, absent, q, printed>>
    BY <1>2 DEF hashes, area
  <2>2. Printed(q)' = Printed(q)
    BY <2>1 DEF Printed, PageAt
  <2>3. pc \in {"next", "mac"} => q = n_pages(start, end)
    <3>1. pc \in {"next", "mac"} => start = end
      BY DEF Walking
    <3>2. start = end => n_pages(start, end) <= 0 /\ n_pages(start, end) \in Nat
      BY CountedPages
    <3> QED
      BY <3>1, <3>2
  <2> QED
    BY <1>2, <2>1, <2>2, <2>3 DEF n_pages
<1>3. CASE First \/ ReadName \/ ReadMac \/ ReadIp \/ Advance
  BY <1>2, <1>3 DEF First, ReadName, ReadMac, ReadIp, Advance
<1>4. CASE ReadArea \/ EndLoop \/ ResumeGuest \/ UNCHANGED vars
  BY <1>2, <1>4 DEF ReadArea, EndLoop, ResumeGuest, vars
<1> QED
  BY <1>1, <1>3, <1>4 DEF Next

(* Of an area that 15.c counts right (58), every page is printed once, in  *)
(* order, and hashed exactly when its read was whole (65-79); and whatever *)
(* the area, no page outside it is hashed: end % start never exceeds its   *)
(* length.                                                                 *)
THEOREM PagesHashed == Spec => []HashesArea
<1> DEFINE IInv == Guest /\ HashInv
<1>1. Init => IInv
  <2> SUFFICES ASSUME Init PROVE HashInv
    BY GuestInit
  <2>1. /\ q = 0 /\ printed = << >> /\ pc \in {"first", "area"} /\ Guest
    BY GuestInit DEF Init, InitNet, InitPages
  <2>2. Printed(0) = << >>
    BY DEF Printed
  <2>3. 0 <= n_pages(start, end)
    BY <2>1, CountedPages DEF Guest
  <2> QED
    BY <2>1, <2>2, <2>3 DEF HashInv, Ending
<1>2. IInv /\ [Next]_vars => IInv'
  BY GuestStep, HashStep
<1>3. IInv => HashesArea
  <2> SUFFICES ASSUME Guest, HashInv PROVE HashesArea
    OBVIOUS
  <2>1. /\ q \in Nat /\ printed = Printed(q) /\ q <= end - start
        /\ start \in Nat /\ end \in Nat
    BY CountedPages DEF Guest, HashInv
  <2>2. \A k \in 1 .. q : printed[k] = <<PageAt(k - 1), PageAt(k - 1) \notin absent>>
    BY <2>1 DEF Printed
  <2>3. Len(printed) = q
    BY <2>1 DEF Printed
  <2>4. ASSUME NEW k \in 1 .. q PROVE printed[k][1] \in start .. end - 1
    <3>1. k - 1 \in Nat /\ k - 1 < end - start
      BY <2>1
    <3>2. PageAt(k - 1) \in start .. end - 1
      BY <3>1, PageInArea
    <3> QED
      BY <2>2, <3>2
  <2>5. ASSUME pc = "done", Countable
        PROVE  printed = [k \in 1 .. end - start |->
                            <<start + k - 1, start + k - 1 \notin absent>>]
    <3>1. q = end - start /\ end - start <= WORD
      BY <2>5, CountedPages DEF Countable, Guest, HashInv, Ending
    <3>2. ASSUME NEW k \in 1 .. q PROVE PageAt(k - 1) = start + k - 1
      <4>1. k - 1 \in Nat /\ k - 1 < end - start /\ k - 1 < WORD
        BY <2>1, <3>1, GuestAssumption
      <4> QED
        BY <2>1, <4>1, PageInArea
    <3> QED
      BY <2>1, <3>1, <3>2 DEF Printed
  <2> QED
    BY <2>3, <2>4, <2>5 DEF HashesArea
<1> QED
  BY <1>1, <1>2, <1>3, PTL DEF Spec


----------------------------------------------------------------------------
(* The walk of 13.c when every read succeeds. *)

LEMMA NothingUnread ==
  ASSUME unread = {}, NEW f, NEW e \in Entries
  PROVE  Reads(f, e)
BY GuestAssumption DEF Reads

LEMMA FollowsNext ==
  ASSUME NEW s \in Seq(Entries), NEW e \in Entries, e # ListHead,
         IF s = << >> THEN e = next[ListHead]
         ELSE Follows(s) /\ e = next[Last(s)]
  PROVE  Follows(Append(s, e))
<1> DEFINE t == Append(s, e)
<1>1. /\ Len(s) \in Nat /\ Len(t) = Len(s) + 1 /\ t[Len(s) + 1] = e
      /\ \A i \in 1 .. Len(s) : t[i] = s[i]
  OBVIOUS
<1> HIDE DEF t
<1>2. CASE s = << >>
  <2>1. Len(s) = 0
    BY <1>2
  <2> QED
    BY <1>1, <1>2, <2>1 DEF Follows
<1>3. CASE s # << >>
  <2>1. Len(s) > 0
    BY <1>3
  <2>2. ASSUME NEW i \in 1 .. Len(t) - 1 PROVE t[i + 1] = next[t[i]]
    BY <1>1, <1>3, <2>1 DEF Follows, Last
  <2> QED
    BY <1>1, <1>3, <2>1, <2>2 DEF Follows
<1> QED
  BY <1>1, <1>2, <1>3 DEF t

LEMMA WalkStep ==
  ASSUME Guest, WalkInv, unread = {}, [Next]_vars
  PROVE  WalkInv'
<1> USE DEF Ending, Goto
<1>0. next \in [Entries -> Entries] /\ ListHead \in Entries
  BY DEF Guest, Entries
<1>1. CASE First
  <2>1. /\ pc = "first" /\ pc' = "name" /\ at' = next[ListHead]
        /\ UNCHANGED <<next, seen>>
    BY <1>0, <1>1, NothingUnread DEF First, list
  <2> QED
    BY <1>0, <2>1 DEF WalkInv
<1>2. CASE ReadName
  <2>1. /\ pc = "name" /\ pc' = "mac" /\ seen' = Append(seen, at)
        /\ UNCHANGED <<next, at>>
    BY <1>2 DEF ReadName, list
  <2>2. seen \in Seq(Entries) /\ at \in Entries
    BY <2>1 DEF WalkInv
  <2>3. seen' \in Seq(Entries) /\ seen' # << >> /\ seen'[Len(seen')] = at
    BY <2>1, <2>2
  <2>4. CASE EmptyWalk
    <3>1. seen = << >> /\ at = ListHead
      BY <2>1, <2>4 DEF WalkInv, EmptyWalk
    <3>2. seen' = <<ListHead>>
      BY <2>1, <3>1
    <3> QED
      BY <2>1, <2>3, <2>4, <3>2 DEF WalkInv, EmptyWalk, Last
  <2>5. CASE ~EmptyWalk
    <3>1. at # ListHead
      BY <2>1, <2>5 DEF WalkInv, EmptyWalk
    <3>2. Follows(Append(seen, at))
      BY <2>1, <2>2, <2>5, <3>1, FollowsNext DEF WalkInv
    <3>3. Follows(seen)'
      BY <2>1, <3>2 DEF Follows
    <3> QED
      BY <2>1, <2>3, <2>5, <3>3 DEF WalkInv, EmptyWalk, Last
  <2> QED
    BY <2>4, <2>5
<1>3. CASE ReadMac
  <2>1. pc = "mac" /\ at \in Entries
    BY <1>3 DEF ReadMac, WalkInv, Last
  <2>2. pc' = "ip" /\ UNCHANGED <<next, at, seen>>
    BY <1>3, <2>1, NothingUnread DEF ReadMac, list
  <2> QED
    BY <2>1, <2>2 DEF WalkInv, EmptyWalk, Follows, Last
<1>4. CASE ReadIp
  <2>1. pc = "ip" /\ pc' = "next" /\ UNCHANGED <<next, at, seen>>
    BY <1>4 DEF ReadIp, list
  <2> QED
    BY <2>1 DEF WalkInv, EmptyWalk, Follows, Last
<1>5. CASE Advance
  <2>1. pc = "next" /\ at = Last(seen) /\ at \in Entries /\ seen # << >>
    BY <1>5 DEF Advance, WalkInv, Last
  <2>2. /\ at' = next[at] /\ UNCHANGED <<next, seen>>
        /\ pc' = IF next[at] = ListHead THEN "resume" ELSE "name"
    BY <1>5, <2>1, NothingUnread DEF Advance, list, EndsAt
  <2>3. ASSUME EmptyWalk PROVE next[at] = ListHead
    <3>1. seen = <<ListHead>>
      BY <2>1, <2>3 DEF WalkInv
    <3>2. Last(seen) = ListHead
      BY <3>1 DEF Last
    <3> QED
      BY <2>1, <2>3, <3>2 DEF EmptyWalk
  <2>4. next[at] \in Entries
    BY <1>0, <2>1
  <2>5. EmptyWalk' = EmptyWalk
    BY <2>2 DEF EmptyWalk
  <2>6. Last(seen)' = Last(seen)
    BY <2>2 DEF Last
  <2>7. Follows(seen)' = Follows(seen)
    BY <2>2 DEF Follows
  <2>8. CASE next[at] = ListHead
    BY <2>1, <2>2, <2>4, <2>5, <2>6, <2>7, <2>8 DEF WalkInv
  <2>9. CASE next[at] # ListHead
    BY <2>1, <2>2, <2>3, <2>4, <2>5, <2>6, <2>7, <2>9 DEF WalkInv
  <2> QED
    BY <2>8, <2>9
<1>6. CASE ReadArea \/ HashPage \/ EndLoop \/ ResumeGuest \/ UNCHANGED vars
  <2>1. UNCHANGED <<next, at, seen>>
    BY <1>6 DEF ReadArea, HashPage, EndLoop, ResumeGuest, vars, walk, list
  <2>2. \/ pc' \in {"page", "returned"} /\ seen = << >>
        \/ pc' = "resume" /\ seen = << >>
        \/ pc' = "done" /\ pc = "resume"
        \/ pc' = pc
    BY <1>6 DEF ReadArea, HashPage, EndLoop, ResumeGuest, WalkInv, vars
  <2> QED
    BY <2>1, <2>2 DEF WalkInv, EmptyWalk, Follows, Last
<1> QED
  BY <1>1, <1>2, <1>3, <1>4, <1>5, <1>6 DEF Next

(* Without failing reads the walk of 13.c (57-137) is the list itself: it  *)
(* starts at its first device, goes from each to the next one, never       *)
(* through the head, and ends where the list does; only an empty list      *)
(* makes do-while take the head for a device.                              *)
THEOREM WalkIsList == Spec => []VisitsList
<1> DEFINE IInv == Guest /\ (unread = {} => WalkInv)
<1>1. Init => IInv
  BY GuestInit, GuestAssumption
  DEF Init, InitNet, InitPages, WalkInv, Ending
<1>2. IInv /\ [Next]_vars => IInv'
  <2>1. [Next]_vars => unread' = unread
    BY DEF Next, First, ReadName, ReadMac, ReadIp, Advance, ReadArea, HashPage,
           EndLoop, ResumeGuest, vars, walk, list
  <2> QED
    BY <2>1, GuestStep, WalkStep
<1>3. IInv => VisitsList
  <2> SUFFICES ASSUME WalkInv, pc = "done", seen # << >>
               PROVE  IF EmptyWalk THEN seen = <<ListHead>>
                      ELSE Follows(seen) /\ next[Last(seen)] = ListHead
    BY DEF VisitsList, EmptyWalk, Follows, Last
  <2> QED
    BY DEF WalkInv, Ending
<1> QED
  BY <1>1, <1>2, <1>3, PTL DEF Spec
=============================================================================
