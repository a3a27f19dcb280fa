--------------------------- MODULE TrbRingProofs ---------------------------
(***************************************************************************)
(* Proofs about TrbRing for a ring of any size, any TRBs and groups of any *)
(* length.  What write_ring alone guarantees (ProducerInv) holds however   *)
(* far it runs ahead; that the ring is a FIFO, and that a completed TRB is *)
(* still in its slot when its event is handled, needs callers that keep to *)
(* the limit (LimitInv).                                                   *)
(***************************************************************************)
EXTENDS TrbRing, SequenceTheorems, TLAPS

\* Slots write_ring's callers fill; the last one is the link TRB's.
TrbSlots == 0 .. RingSize - 2

\* Where write_ring is and what it has stored by then.
WriterInv ==
  /\ ring_index = LinkSlot <=> pc \in {"link", "linkcontrol"}
  /\ pc = "idle" => left = 0
  /\ pc \in {"body", "control"} => left > 0
  /\ pc = "control" => data \in Trb /\ buf[ring_index].body = data

\* The link TRB is written to its own slot only, callers' TRBs to the others,
\* and no control word is stored before the words it stands for.
SlotsInv ==
  /\ \A i \in TrbSlots :
       /\ buf[i].type \in Trb \cup {Zero} /\ buf[i].body \in Trb \cup {Zero}
       /\ buf[i].type # Zero => buf[i].body # Zero
  /\ buf[LinkSlot].type \in {Zero, Link}

\* The cycle bits mark how far this lap's writing got; the link TRB still
\* carries the cycle bit of the lap before.
CyclesMarkLap ==
  /\ \A i \in TrbSlots : buf[i].c = IF i < ring_index THEN cycle_bit ELSE 1 - cycle_bit
  /\ buf[LinkSlot].c = 1 - cycle_bit

ProducerInv == TypeOK /\ WriterInv /\ SlotsInv /\ CyclesMarkLap

\* new_ring establishes it.
LEMMA InitProducer == Init => ProducerInv
<1> SUFFICES ASSUME Init PROVE ProducerInv
  OBVIOUS
<1>1. TrbSlots \subseteq Slots /\ LinkSlot \in Slots /\ LinkSlot # 0 /\ 0 \in Slots
  BY RingSizeAssumption DEF TrbSlots, Slots, LinkSlot
<1>2. buf \in [Slots -> [body : Words, type : Words, c : {0, 1}]]
  BY DEF Init, Words
<1>3. TypeOK
  BY <1>1, <1>2, MaxTdAssumption DEF Init, TypeOK, Words
<1>4. WriterInv
  BY <1>1 DEF Init, WriterInv
<1>5. SlotsInv
  BY <1>1 DEF Init, SlotsInv
<1>6. CyclesMarkLap
  <2>1. \A i \in TrbSlots : ~(i < ring_index)
    BY DEF Init, TrbSlots
  <2> QED BY <1>1, <2>1 DEF Init, CyclesMarkLap
<1> QED BY <1>3, <1>4, <1>5, <1>6 DEF ProducerInv

\* The steps of the ring that store nothing in it.
LEMMA QuietProducer ==
  ASSUME ProducerInv, UNCHANGED <<buf, ring_index, cycle_bit, data>>, TypeOK',
         \/ UNCHANGED <<pc, left>>
         \/ \E n \in 1 .. MaxTd : BeginTd(n)
         \/ Continue
         \/ write_xhci_doorbell
  PROVE  ProducerInv'
<1>1. SlotsInv' /\ CyclesMarkLap'
  BY DEF ProducerInv, SlotsInv, CyclesMarkLap
<1>2. WriterInv'
  BY MaxTdAssumption
     DEF ProducerInv, TypeOK, WriterInv, BeginTd, Continue, write_xhci_doorbell
<1> QED BY <1>1, <1>2 DEF ProducerInv

\* Storing word 3 of a slot keeps the slots' type.
LEMMA SlotWritten ==
  ASSUME NEW f \in [Slots -> [body : Words, type : Words, c : {0, 1}]], NEW i \in Slots,
         NEW w \in Words, NEW b \in {0, 1}
  PROVE  [f EXCEPT ![i].type = w, ![i].c = b] \in [Slots -> [body : Words, type : Words, c : {0, 1}]]
<1> DEFINE R == [body : Words, type : Words, c : {0, 1}]
           r == [f[i] EXCEPT !.type = w, !.c = b]
<1>1. f[i] \in R /\ r \in R
  OBVIOUS
<1>2. [f EXCEPT ![i].type = w, ![i].c = b] = [f EXCEPT ![i] = r]
  OBVIOUS
<1> HIDE DEF R, r
<1>3. [f EXCEPT ![i] = r] \in [Slots -> R]
  BY <1>1 DEF R
<1> QED BY <1>2, <1>3 DEF R

\* Every step keeps the types.
LEMMA NextType == ASSUME ProducerInv, [Next]_vars PROVE TypeOK'
<1> USE RingSizeAssumption, MaxTdAssumption DEF ProducerInv, TypeOK, Slots, LinkSlot, Words
<1>1. ASSUME NEW n \in 1 .. MaxTd, BeginTd(n) PROVE TypeOK'
  BY <1>1 DEF BeginTd
<1>2. ASSUME NEW t \in Trb, WriteBody(t) PROVE TypeOK'
  BY <1>2 DEF WriteBody
<1>3. CASE WriteControl
  <2>1. ring_index' \in 0 .. RingSize - 1
    BY <1>3 DEF WriteControl, WriterInv
  <2>2. left' \in 0 .. MaxTd
    BY <1>3 DEF WriteControl, WriterInv
  <2>3. pc' \in {"link", "written"}
    BY <1>3 DEF WriteControl
  <2>4. buf' \in [Slots -> [body : Words, type : Words, c : {0, 1}]]
    <3>1. /\ ring_index \in Slots /\ data \in Words /\ cycle_bit \in {0, 1}
          /\ buf' = [buf EXCEPT ![ring_index].type = data, ![ring_index].c = cycle_bit]
      BY <1>3 DEF WriteControl
    <3> QED BY <3>1, SlotWritten
  <2> QED BY <1>3, <2>1, <2>2, <2>3, <2>4 DEF WriteControl
<1>4. CASE WriteLinkBody
  BY <1>4 DEF WriteLinkBody
<1>5. CASE WriteLinkControl
  <2>1. cycle_bit' \in {0, 1} /\ ring_index' \in 0 .. RingSize - 1
    BY <1>5 DEF WriteLinkControl
  <2>2. buf' \in [Slots -> [body : Words, type : Words, c : {0, 1}]]
    <3>1. /\ ring_index \in Slots /\ Link \in Words /\ cycle_bit \in {0, 1}
          /\ buf' = [buf EXCEPT ![ring_index].type = Link, ![ring_index].c = cycle_bit]
      BY <1>5 DEF WriteLinkControl
    <3> QED BY <3>1, SlotWritten
  <2> QED BY <1>5, <2>1, <2>2 DEF WriteLinkControl
<1>6. CASE Continue
  BY <1>6 DEF Continue
<1>7. CASE write_xhci_doorbell
  BY <1>7 DEF write_xhci_doorbell
<1>8. CASE HandleEvent
  BY <1>8 DEF HandleEvent, kernelVars
<1>9. ASSUME NEW report \in BOOLEAN, Fetch(report) PROVE TypeOK'
  <2>1. deq' \in 0 .. RingSize - 1
    BY <1>9 DEF Fetch
  <2>2. fetched' \in [body : Words, type : Words]
    BY <1>9 DEF Fetch
  <2>3. [ptr |-> deq, type |-> buf[deq].type] \in [ptr : Slots, type : Words]
    OBVIOUS
  <2>4. events' \in Seq([ptr : Slots, type : Words])
    <3> DEFINE E == [ptr : Slots, type : Words]
               e == [ptr |-> deq, type |-> buf[deq].type]
    <3>1. events \in Seq(E) /\ e \in E /\ events' = IF report THEN Append(events, e) ELSE events
      BY <1>9, <2>3 DEF Fetch
    <3> HIDE DEF E, e
    <3>2. events' \in Seq(E)
      BY <3>1
    <3> QED BY <3>2 DEF E
  <2> QED BY <1>9, <2>1, <2>2, <2>4 DEF Fetch, kernelVars
<1>10. CASE FollowLink
  BY <1>10 DEF FollowLink, kernelVars
<1>11. CASE GoIdle
  BY <1>11 DEF GoIdle, kernelVars
<1>12. CASE UNCHANGED vars
  BY <1>12 DEF vars
<1> QED BY <1>1, <1>2, <1>3, <1>4, <1>5, <1>6, <1>7, <1>8, <1>9, <1>10, <1>11, <1>12
        DEF Next, Writing, Controller

\* What write_ring stores, and everything else, preserves the invariant.
LEMMA NextProducer == ProducerInv /\ [Next]_vars => ProducerInv'
<1> SUFFICES ASSUME ProducerInv, [Next]_vars PROVE ProducerInv'
  OBVIOUS
<1>t. TypeOK'
  BY NextType
<1>b. /\ buf \in [Slots -> [body : Words, type : Words, c : {0, 1}]]
      /\ ring_index \in 0 .. RingSize - 1 /\ TrbSlots \subseteq Slots /\ LinkSlot \in Slots
      /\ cycle_bit \in {0, 1} /\ left \in 0 .. MaxTd /\ LinkSlot \notin TrbSlots
  BY RingSizeAssumption DEF ProducerInv, TypeOK, Slots, TrbSlots, LinkSlot
<1>1. CASE \/ \E n \in 1 .. MaxTd : BeginTd(n)
           \/ Continue
           \/ write_xhci_doorbell
  BY <1>t, <1>1, QuietProducer DEF BeginTd, Continue, write_xhci_doorbell
<1>2. CASE HandleEvent \/ Controller \/ UNCHANGED vars
  BY <1>t, <1>2, QuietProducer
     DEF HandleEvent, Controller, Fetch, FollowLink, GoIdle, kernelVars, vars
<1>3. ASSUME NEW t \in Trb, WriteBody(t) PROVE ProducerInv'
  <2>1. /\ ring_index \in TrbSlots /\ ring_index' = ring_index /\ cycle_bit' = cycle_bit
        /\ buf' = [buf EXCEPT ![ring_index].body = t] /\ data' = t /\ left' = left
        /\ pc' = "control" /\ pc = "body" /\ ring_index # LinkSlot
    BY <1>3, <1>b, RingSizeAssumption DEF WriteBody, ProducerInv, WriterInv, TrbSlots, LinkSlot
  <2>2. WriterInv'
    BY <1>b, <2>1 DEF ProducerInv, WriterInv
  <2>3. SlotsInv'
    BY <1>b, <2>1, TrbAssumption DEF ProducerInv, SlotsInv
  <2>4. CyclesMarkLap'
    BY <1>b, <2>1 DEF ProducerInv, CyclesMarkLap
  <2> QED BY <1>t, <2>2, <2>3, <2>4 DEF ProducerInv
<1>4. CASE WriteControl
  <2>1. /\ ring_index \in TrbSlots /\ ring_index' = ring_index + 1 /\ cycle_bit' = cycle_bit
        /\ buf' = [buf EXCEPT ![ring_index].type = data, ![ring_index].c = cycle_bit]
        /\ left' = left - 1 /\ data' = data /\ pc = "control" /\ ring_index # LinkSlot
        /\ pc' = IF ring_index + 1 = LinkSlot THEN "link" ELSE "written"
        /\ data \in Trb /\ buf[ring_index].body = data
    BY <1>4, <1>b, RingSizeAssumption
       DEF WriteControl, ProducerInv, WriterInv, TrbSlots, LinkSlot
  <2>2. WriterInv'
    BY <1>b, <2>1 DEF ProducerInv, WriterInv
  <2>3. SlotsInv'
    BY <1>b, <2>1, TrbAssumption DEF ProducerInv, SlotsInv
  <2>4. CyclesMarkLap'
    BY <1>b, <2>1 DEF ProducerInv, CyclesMarkLap, TrbSlots
  <2> QED BY <1>t, <2>2, <2>3, <2>4 DEF ProducerInv
<1>5. CASE WriteLinkBody
  <2>1. /\ ring_index = LinkSlot /\ ring_index' = ring_index /\ cycle_bit' = cycle_bit
        /\ buf' = [buf EXCEPT ![ring_index].body = Link] /\ data' = data /\ left' = left
        /\ pc' = "linkcontrol" /\ pc = "link"
    BY <1>5 DEF WriteLinkBody, ProducerInv, WriterInv
  <2>2. WriterInv'
    BY <1>b, <2>1 DEF ProducerInv, WriterInv
  <2>3. SlotsInv' /\ CyclesMarkLap'
    BY <1>b, <2>1 DEF ProducerInv, SlotsInv, CyclesMarkLap
  <2> QED BY <1>t, <2>2, <2>3 DEF ProducerInv
<1>6. CASE WriteLinkControl
  <2>1. /\ ring_index = LinkSlot /\ ring_index' = 0 /\ cycle_bit' = 1 - cycle_bit
        /\ buf' = [buf EXCEPT ![ring_index].type = Link, ![ring_index].c = cycle_bit]
        /\ data' = data /\ left' = left /\ pc' = "written" /\ pc = "linkcontrol"
    BY <1>6 DEF WriteLinkControl, ProducerInv, WriterInv
  <2>2. WriterInv'
    BY <1>b, <2>1, RingSizeAssumption DEF ProducerInv, WriterInv, LinkSlot
  <2>3. SlotsInv'
    BY <1>b, <2>1 DEF ProducerInv, SlotsInv
  <2>4. CyclesMarkLap'
    BY <1>b, <2>1, RingSizeAssumption DEF ProducerInv, CyclesMarkLap, TrbSlots, LinkSlot
  <2> QED BY <1>t, <2>2, <2>3, <2>4 DEF ProducerInv
<1> QED BY <1>1, <1>2, <1>3, <1>4, <1>5, <1>6 DEF Next, Writing

\* write_ring keeps its slots and cycle bits in order, limit or not.
THEOREM ProducerHolds == Spec => []ProducerInv
  BY InitProducer, NextProducer, PTL DEF Spec

\* The ring, its indices and the events keep their types, limit or not.
THEOREM TypeCorrect == Spec => []TypeOK
<1>1. ProducerInv => TypeOK
  BY DEF ProducerInv
<1> QED BY <1>1, ProducerHolds, PTL

\* The ring of the keyboard's interrupt endpoint, which read_usb_keyboard
\* fills with one and the same TRB and without any limit: however often it
\* laps the controller, no torn TRB is fetched.
THEOREM OneTrbNotTorn ==
  ASSUME \A t, u \in Trb : t = u
  PROVE  Spec => []NoTornFetch
<1>1. Init => NoTornFetch
  BY DEF Init, NoTornFetch
<1>2. ProducerInv /\ NoTornFetch /\ [Next]_vars => NoTornFetch'
  <2> SUFFICES ASSUME ProducerInv, NoTornFetch, [Next]_vars PROVE NoTornFetch'
    OBVIOUS
  <2>1. ASSUME NEW report \in BOOLEAN, Fetch(report) PROVE NoTornFetch'
    <3>1. /\ fetched' = [body |-> buf[deq].body, type |-> buf[deq].type]
          /\ buf[deq].type # Link /\ deq \in TrbSlots \cup {LinkSlot}
      BY <2>1, RingSizeAssumption DEF Fetch, ProducerInv, TypeOK, Slots, TrbSlots, LinkSlot
    <3>2. buf[deq].type # Zero => buf[deq].type \in Trb /\ buf[deq].body \in Trb
      BY <3>1 DEF ProducerInv, SlotsInv
    <3> QED BY <3>1, <3>2 DEF NoTornFetch
  <2>2. CASE UNCHANGED fetched
    BY <2>2 DEF NoTornFetch
  <2> QED BY <2>1, <2>2
       DEF Next, Writing, Controller, BeginTd, WriteBody, WriteControl, WriteLinkBody,
           WriteLinkControl, Continue, write_xhci_doorbell, HandleEvent, FollowLink, GoIdle, vars
<1> QED BY <1>1, <1>2, ProducerHolds, PTL DEF Spec

----------------------------------------------------------------------------
(* With callers that keep to the limit.                                    *)

\* How many fetches ago the TRB in slot p was fetched.
Age(p) == IF p < deq THEN deq - p ELSE (LinkSlot - p) + deq

\* The controller is behind the kernel, by less than a lap, and has not seen
\* the link TRB it is going to follow before that was written.
SidesAgree ==
  /\ cycle_bit = ccs => deq <= ring_index
  /\ cycle_bit # ccs => buf[LinkSlot].type = Link

\* What is queued, what is fetched and not handled, and what the current
\* group still writes fit together.
WithinRoom == QueuedCount + FetchedCount + left <= Room

\* Queued TRBs are whole.
QueuedWhole ==
  \A k \in 1 .. QueuedCount :
    /\ buf[QueuedSlot(k)].type \in Trb
    /\ buf[QueuedSlot(k)].body = buf[QueuedSlot(k)].type

\* Completion events are about callers' TRBs, the oldest first.
EventsInOrder ==
  /\ \A i \in 1 .. Len(events) : events[i].ptr \in TrbSlots
  /\ \A i, j \in 1 .. Len(events) : i < j => Age(events[i].ptr) >= Age(events[j].ptr)

LimitInv ==
  Limited /\ SidesAgree /\ WithinRoom /\ QueuedWhole /\ EventsInOrder
    /\ IssuerStillThere /\ NoTornFetch
IInv == ProducerInv /\ LimitInv

\* Ages of TRB slots are positive.
LEMMA AgeType ==
  ASSUME TypeOK, NEW p \in TrbSlots
  PROVE  Age(p) \in Nat \ {0}
  BY RingSizeAssumption DEF TypeOK, TrbSlots, Slots, LinkSlot, Age

\* The counts are counts, the kernel is less than a lap ahead, and every
\* completion not handled is at most FetchedCount fetches old.
LEMMA Counts ==
  ASSUME IInv
  PROVE  /\ QueuedCount \in Nat /\ FetchedCount \in Nat
         /\ QueuedCount + FetchedCount + left <= RingSize - 2
         /\ cycle_bit # ccs => ring_index < deq
         /\ \A i \in 1 .. Len(events) : Age(events[i].ptr) <= FetchedCount
<1>1. /\ deq \in 0 .. RingSize - 1 /\ ring_index \in 0 .. RingSize - 1
      /\ left \in Nat /\ events \in Seq([ptr : Slots, type : Words])
  BY MaxTdAssumption DEF IInv, ProducerInv, TypeOK, Slots
<1>2. QueuedCount \in Nat
  BY <1>1, RingSizeAssumption DEF IInv, LimitInv, SidesAgree, QueuedCount, LinkSlot
<1>3. events # <<>> => 1 \in 1 .. Len(events) /\ Head(events) = events[1]
  BY <1>1
<1>4. events # <<>> => FetchedCount = Age(events[1].ptr)
  BY <1>3 DEF FetchedCount, Age
<1>5. FetchedCount \in Nat
  <2>1. CASE events = <<>>
    BY <2>1 DEF FetchedCount
  <2>2. CASE events # <<>>
    BY <1>3, <1>4, <2>2, AgeType DEF IInv, ProducerInv, LimitInv, EventsInOrder
  <2> QED BY <2>1, <2>2
<1>6. QueuedCount + FetchedCount + left <= RingSize - 2
  BY DEF IInv, LimitInv, WithinRoom, Room
<1>7. cycle_bit # ccs => ring_index < deq
  <2>1. QueuedCount <= RingSize - 2
    BY <1>1, <1>2, <1>5, <1>6, RingSizeAssumption
  <2> QED BY <1>1, <2>1, RingSizeAssumption DEF QueuedCount, LinkSlot
<1>8. ASSUME NEW i \in 1 .. Len(events) PROVE Age(events[i].ptr) <= FetchedCount
  <2>1. events # <<>>
    BY <1>1
  <2>2. CASE i = 1
    BY <1>4, <1>5, <2>1, <2>2
  <2>3. CASE i # 1
    <3>1. 1 < i /\ 1 \in 1 .. Len(events)
      BY <1>1, <2>3
    <3>2. Age(events[1].ptr) >= Age(events[i].ptr)
      BY <3>1 DEF IInv, LimitInv, EventsInOrder
    <3>3. Age(events[i].ptr) \in Nat
      BY AgeType DEF IInv, ProducerInv, LimitInv, EventsInOrder
    <3> QED BY <1>4, <1>5, <2>1, <3>2, <3>3
  <2> QED BY <2>2, <2>3
<1> QED BY <1>2, <1>5, <1>6, <1>7, <1>8

\* Queued TRBs lie in TRB slots, none of them in the slot written next,
\* which follows them.
LEMMA QueuedSlots ==
  ASSUME IInv
  PROVE  /\ \A k \in 1 .. QueuedCount : /\ QueuedSlot(k) \in TrbSlots
                                        /\ QueuedSlot(k) # ring_index
         /\ ring_index # LinkSlot => QueuedSlot(QueuedCount + 1) = ring_index
<1>1. /\ deq \in 0 .. RingSize - 1 /\ ring_index \in 0 .. RingSize - 1
      /\ QueuedCount \in Nat /\ QueuedCount <= RingSize - 2
      /\ cycle_bit = ccs => deq <= ring_index
      /\ cycle_bit # ccs => ring_index < deq
  <2>1. left \in Nat
    BY MaxTdAssumption DEF IInv, ProducerInv, TypeOK
  <2>2. QueuedCount \in Nat /\ QueuedCount <= RingSize - 2
    BY <2>1, Counts, RingSizeAssumption
  <2> QED BY <2>2, Counts DEF IInv, ProducerInv, TypeOK, Slots, LimitInv, SidesAgree
<1>2. ASSUME NEW k \in 1 .. QueuedCount
      PROVE  QueuedSlot(k) \in TrbSlots /\ QueuedSlot(k) # ring_index
  BY <1>1, RingSizeAssumption DEF QueuedCount, QueuedSlot, TrbSlots, LinkSlot
<1>3. ring_index # LinkSlot => QueuedSlot(QueuedCount + 1) = ring_index
  BY <1>1, RingSizeAssumption DEF QueuedCount, QueuedSlot, LinkSlot
<1> QED BY <1>2, <1>3

\* While a group is being written, the slot written next is not one a
\* completion event still points at.
LEMMA EventSlots ==
  ASSUME IInv, left > 0, NEW i \in 1 .. Len(events)
  PROVE  events[i].ptr # ring_index
<1>1. /\ QueuedCount \in Nat /\ FetchedCount \in Nat
      /\ QueuedCount + FetchedCount + left <= RingSize - 2
      /\ cycle_bit # ccs => ring_index < deq
      /\ cycle_bit = ccs => deq <= ring_index
      /\ Age(events[i].ptr) <= FetchedCount
  BY Counts DEF IInv, LimitInv, SidesAgree
<1>2. /\ deq \in 0 .. RingSize - 1 /\ ring_index \in 0 .. RingSize - 1 /\ left \in Nat
      /\ events[i].ptr \in 0 .. RingSize - 2
  BY MaxTdAssumption DEF IInv, ProducerInv, TypeOK, Slots, LimitInv, EventsInOrder, TrbSlots
<1> QED BY <1>1, <1>2, RingSizeAssumption DEF Age, QueuedCount, LinkSlot

\* The controller fetches from a TRB slot that is queued, the first one, and
\* follows the link TRB only when that was written for the lap it is in.
LEMMA OwnedMeansQueued ==
  ASSUME IInv, Owned
  PROVE  /\ buf[deq].type # Link => /\ deq \in TrbSlots /\ QueuedCount > 0
                                    /\ QueuedSlot(1) = deq
         /\ buf[deq].type = Link => deq = LinkSlot /\ cycle_bit # ccs
<1>1. /\ deq \in 0 .. RingSize - 1 /\ ring_index \in 0 .. RingSize - 1
      /\ cycle_bit \in {0, 1} /\ ccs \in {0, 1}
      /\ cycle_bit = ccs => deq <= ring_index
      /\ cycle_bit # ccs => ring_index < deq /\ buf[LinkSlot].type = Link
      /\ buf[deq].c = ccs
  BY Counts DEF IInv, ProducerInv, TypeOK, Slots, LimitInv, SidesAgree, Owned
<1>2. CASE deq = LinkSlot
  <2>1. cycle_bit # ccs
    BY <1>1, <1>2 DEF IInv, ProducerInv, CyclesMarkLap
  <2> QED BY <1>1, <1>2, <2>1
<1>3. CASE deq # LinkSlot
  <2>1. deq \in TrbSlots
    BY <1>1, <1>3, RingSizeAssumption DEF TrbSlots, LinkSlot
  <2>2. buf[deq].type # Link
    BY <2>1, TrbAssumption DEF IInv, ProducerInv, SlotsInv
  <2>3. cycle_bit = ccs => deq < ring_index
    BY <1>1, <2>1 DEF IInv, ProducerInv, CyclesMarkLap
  <2>4. QueuedCount > 0 /\ QueuedSlot(1) = deq
    BY <1>1, <1>3, <2>3, RingSizeAssumption DEF QueuedCount, QueuedSlot, LinkSlot
  <2> QED BY <2>1, <2>2, <2>4
<1> QED BY <1>2, <1>3

\* new_ring and its consumer agree on an empty ring.
LEMMA InitLimit == Limited /\ Init => IInv
<1> SUFFICES ASSUME Limited, Init PROVE IInv
  OBVIOUS
<1>1. ProducerInv
  BY InitProducer
<1>2. QueuedCount = 0 /\ FetchedCount = 0 /\ Len(events) = 0
  BY DEF Init, QueuedCount, FetchedCount
<1>3. SidesAgree /\ WithinRoom
  BY <1>2, RingSizeAssumption DEF Init, SidesAgree, WithinRoom, Room
<1>4. QueuedWhole /\ EventsInOrder /\ IssuerStillThere /\ NoTornFetch
  BY <1>2 DEF Init, QueuedWhole, EventsInOrder, IssuerStillThere, NoTornFetch
<1> QED BY <1>1, <1>3, <1>4 DEF IInv, LimitInv

\* Steps that move neither side and store nothing a queued TRB or an event
\* depends on.
LEMMA StillLimit ==
  ASSUME IInv, UNCHANGED <<ring_index, cycle_bit, deq, ccs, fetched, events>>,
         QueuedCount + FetchedCount + left' <= Room,
         buf'[LinkSlot].type = buf[LinkSlot].type,
         \A k \in 1 .. QueuedCount : buf'[QueuedSlot(k)] = buf[QueuedSlot(k)],
         \A i \in 1 .. Len(events) : buf'[events[i].ptr].type = buf[events[i].ptr].type
  PROVE  LimitInv'
<1>1. QueuedCount' = QueuedCount /\ FetchedCount' = FetchedCount
  BY DEF QueuedCount, FetchedCount
<1>2. (\A k : QueuedSlot(k)' = QueuedSlot(k)) /\ (\A p : Age(p)' = Age(p))
  BY DEF QueuedSlot, Age
<1>3. SidesAgree' /\ WithinRoom'
  BY <1>1 DEF IInv, LimitInv, SidesAgree, WithinRoom
<1>4. QueuedWhole'
  BY <1>1, <1>2 DEF IInv, LimitInv, QueuedWhole
<1>5. EventsInOrder'
  BY <1>2 DEF IInv, LimitInv, EventsInOrder
<1>6. DOMAIN events = 1 .. Len(events)
  BY DEF IInv, ProducerInv, TypeOK
<1>7. IssuerStillThere' /\ NoTornFetch'
  BY <1>6 DEF IInv, LimitInv, IssuerStillThere, NoTornFetch
<1> QED BY <1>3, <1>4, <1>5, <1>7 DEF IInv, LimitInv

\* A caller that begins a group within the limit.
LEMMA BeginLimit ==
  ASSUME IInv, NEW n \in 1 .. MaxTd, BeginTd(n)
  PROVE  LimitInv'
  BY StillLimit DEF BeginTd, IInv, LimitInv

\* The first words of a TRB go to a slot nobody looks at.
LEMMA BodyLimit ==
  ASSUME IInv, NEW t \in Trb, WriteBody(t)
  PROVE  LimitInv'
<1>1. /\ buf \in [Slots -> [body : Words, type : Words, c : {0, 1}]]
      /\ ring_index \in Slots /\ ring_index # LinkSlot /\ TrbSlots \subseteq Slots
      /\ LinkSlot \in Slots
  BY RingSizeAssumption
     DEF IInv, ProducerInv, TypeOK, WriterInv, WriteBody, Slots, TrbSlots, LinkSlot
<1>2. \A k \in 1 .. QueuedCount : QueuedSlot(k) \in Slots /\ QueuedSlot(k) # ring_index
  BY <1>1, QueuedSlots
<1>3. \A i \in 1 .. Len(events) : events[i].ptr \in Slots
  BY <1>1 DEF IInv, LimitInv, EventsInOrder
<1>4. buf'[LinkSlot].type = buf[LinkSlot].type
  BY <1>1 DEF WriteBody
<1>5. \A k \in 1 .. QueuedCount : buf'[QueuedSlot(k)] = buf[QueuedSlot(k)]
  BY <1>1, <1>2 DEF WriteBody
<1>6. \A i \in 1 .. Len(events) : buf'[events[i].ptr].type = buf[events[i].ptr].type
  BY <1>1, <1>3 DEF WriteBody
<1> QED BY <1>4, <1>5, <1>6, StillLimit DEF WriteBody, IInv, LimitInv, WithinRoom

\* The control word turns the slot into the last queued one.
LEMMA ControlQueues ==
  ASSUME IInv, WriteControl
  PROVE  /\ QueuedCount' = QueuedCount + 1
         /\ \A k : QueuedSlot(k)' = QueuedSlot(k)
         /\ ring_index \in TrbSlots /\ QueuedSlot(QueuedCount + 1) = ring_index
         /\ buf'[ring_index].type = data /\ buf'[ring_index].body = data /\ data \in Trb
         /\ \A j \in Slots \ {ring_index} : buf'[j] = buf[j]
         /\ QueuedCount + 1 <= Room
<1>1. /\ buf \in [Slots -> [body : Words, type : Words, c : {0, 1}]]
      /\ ring_index \in TrbSlots /\ TrbSlots \subseteq Slots /\ ring_index # LinkSlot
      /\ ring_index' = ring_index + 1 /\ cycle_bit' = cycle_bit /\ deq' = deq /\ ccs' = ccs
      /\ buf' = [buf EXCEPT ![ring_index].type = data, ![ring_index].c = cycle_bit]
      /\ data \in Trb /\ buf[ring_index].body = data /\ left > 0 /\ left \in Nat
      /\ deq \in Nat
  BY RingSizeAssumption, MaxTdAssumption
     DEF IInv, ProducerInv, TypeOK, WriterInv, WriteControl, Slots, TrbSlots, LinkSlot
<1>2. QueuedCount' = QueuedCount + 1
  BY <1>1, RingSizeAssumption DEF QueuedCount, LinkSlot, TrbSlots
<1>3. \A k : QueuedSlot(k)' = QueuedSlot(k)
  BY <1>1 DEF QueuedSlot
<1>4. QueuedCount + 1 <= Room
  BY <1>1, Counts, RingSizeAssumption DEF Room
<1> QED BY <1>1, <1>2, <1>3, <1>4, QueuedSlots

\* A control word hands one more TRB to the controller.
LEMMA ControlLimit ==
  ASSUME IInv, WriteControl
  PROVE  LimitInv'
<1>1. /\ QueuedCount' = QueuedCount + 1 /\ QueuedCount \in Nat /\ FetchedCount \in Nat
      /\ \A k : QueuedSlot(k)' = QueuedSlot(k)
      /\ ring_index \in TrbSlots /\ QueuedSlot(QueuedCount + 1) = ring_index
      /\ buf'[ring_index].type = data /\ buf'[ring_index].body = data /\ data \in Trb
      /\ \A j \in Slots \ {ring_index} : buf'[j] = buf[j]
  BY ControlQueues, Counts
<1>2. /\ deq' = deq /\ ccs' = ccs /\ fetched' = fetched /\ events' = events
      /\ cycle_bit' = cycle_bit /\ ring_index' = ring_index + 1 /\ left' = left - 1
      /\ left > 0 /\ left \in Nat /\ deq \in Nat /\ ring_index \in Nat
      /\ TrbSlots \subseteq Slots /\ LinkSlot \in Slots \ {ring_index}
  <2>1. /\ deq' = deq /\ ccs' = ccs /\ fetched' = fetched /\ events' = events
        /\ cycle_bit' = cycle_bit /\ ring_index' = ring_index + 1 /\ left' = left - 1
    BY DEF WriteControl
  <2>2. left > 0 /\ left \in Nat /\ deq \in Slots
    BY MaxTdAssumption DEF IInv, ProducerInv, TypeOK, WriterInv, WriteControl
  <2>3. TrbSlots \subseteq Slots /\ LinkSlot \in Slots /\ LinkSlot \notin TrbSlots
        /\ Slots \subseteq Nat
    BY RingSizeAssumption DEF Slots, TrbSlots, LinkSlot
  <2> QED BY <1>1, <2>1, <2>2, <2>3
<1>3. FetchedCount' = FetchedCount /\ \A p : Age(p)' = Age(p)
  BY <1>2 DEF FetchedCount, Age
<1>4. SidesAgree'
  BY <1>1, <1>2 DEF IInv, LimitInv, SidesAgree
<1>5. WithinRoom'
  BY <1>1, <1>2, <1>3, RingSizeAssumption DEF IInv, LimitInv, WithinRoom, Room
<1>6. QueuedWhole'
  <2> SUFFICES ASSUME NEW k \in 1 .. QueuedCount + 1
               PROVE  /\ buf'[QueuedSlot(k)].type \in Trb
                      /\ buf'[QueuedSlot(k)].body = buf'[QueuedSlot(k)].type
    BY <1>1 DEF QueuedWhole
  <2>1. CASE k = QueuedCount + 1
    BY <1>1, <2>1
  <2>2. CASE k # QueuedCount + 1
    <3>1. k \in 1 .. QueuedCount
      BY <1>1, <2>2
    <3>2. QueuedSlot(k) \in Slots \ {ring_index}
      BY <1>2, <3>1, QueuedSlots
    <3> QED BY <1>1, <3>1, <3>2 DEF IInv, LimitInv, QueuedWhole
  <2> QED BY <2>1, <2>2
<1>7. EventsInOrder'
  BY <1>2, <1>3 DEF IInv, LimitInv, EventsInOrder
<1>8. IssuerStillThere'
  <2>1. ASSUME NEW i \in 1 .. Len(events) PROVE buf'[events[i].ptr] = buf[events[i].ptr]
    <3>1. events[i].ptr \in Slots \ {ring_index}
      BY <1>2, EventSlots DEF IInv, LimitInv, EventsInOrder
    <3> QED BY <1>1, <3>1
  <2>2. DOMAIN events = 1 .. Len(events)
    BY DEF IInv, ProducerInv, TypeOK
  <2> QED BY <1>2, <2>1, <2>2 DEF IInv, LimitInv, IssuerStillThere
<1>9. NoTornFetch'
  BY <1>2 DEF IInv, LimitInv, NoTornFetch
<1> QED BY <1>4, <1>5, <1>6, <1>7, <1>8, <1>9 DEF IInv, LimitInv

\* The link TRB's slot is neither queued nor reported.
LEMMA LinkBodyLimit ==
  ASSUME IInv, WriteLinkBody
  PROVE  LimitInv'
<1>1. /\ buf \in [Slots -> [body : Words, type : Words, c : {0, 1}]]
      /\ ring_index = LinkSlot /\ TrbSlots \subseteq Slots /\ LinkSlot \in Slots
      /\ LinkSlot \notin TrbSlots
  BY RingSizeAssumption
     DEF IInv, ProducerInv, TypeOK, WriterInv, WriteLinkBody, Slots, TrbSlots, LinkSlot
<1>2. buf'[LinkSlot].type = buf[LinkSlot].type
  BY <1>1 DEF WriteLinkBody
<1>3. \A j \in TrbSlots : buf'[j] = buf[j]
  BY <1>1 DEF WriteLinkBody
<1>4. \A k \in 1 .. QueuedCount : buf'[QueuedSlot(k)] = buf[QueuedSlot(k)]
  BY <1>3, QueuedSlots
<1>5. \A i \in 1 .. Len(events) : buf'[events[i].ptr].type = buf[events[i].ptr].type
  BY <1>3 DEF IInv, LimitInv, EventsInOrder
<1> QED BY <1>2, <1>4, <1>5, StillLimit DEF WriteLinkBody, IInv, LimitInv, WithinRoom

\* The control word of the link TRB flips the cycle bit and queues nothing.
LEMMA LinkControlSame ==
  ASSUME IInv, WriteLinkControl
  PROVE  /\ cycle_bit = ccs /\ cycle_bit' # ccs
         /\ QueuedCount' = QueuedCount
         /\ \A k : QueuedSlot(k)' = QueuedSlot(k)
         /\ \A j \in TrbSlots : buf'[j] = buf[j]
         /\ buf'[LinkSlot].type = Link
<1>1. /\ buf \in [Slots -> [body : Words, type : Words, c : {0, 1}]]
      /\ ring_index = LinkSlot /\ TrbSlots \subseteq Slots /\ LinkSlot \in Slots
      /\ LinkSlot \notin TrbSlots /\ deq \in 0 .. RingSize - 1
      /\ cycle_bit \in {0, 1} /\ ccs \in {0, 1} /\ cycle_bit' = 1 - cycle_bit
      /\ ring_index' = 0 /\ deq' = deq /\ ccs' = ccs
      /\ buf' = [buf EXCEPT ![ring_index].type = Link, ![ring_index].c = cycle_bit]
  BY RingSizeAssumption
     DEF IInv, ProducerInv, TypeOK, WriterInv, WriteLinkControl, Slots, TrbSlots, LinkSlot
<1>2. cycle_bit = ccs
  BY <1>1, Counts, RingSizeAssumption DEF LinkSlot
<1>3. QueuedCount' = QueuedCount
  BY <1>1, <1>2, RingSizeAssumption DEF QueuedCount, LinkSlot
<1>4. \A k : QueuedSlot(k)' = QueuedSlot(k)
  BY <1>1 DEF QueuedSlot
<1>5. (\A j \in TrbSlots : buf'[j] = buf[j]) /\ buf'[LinkSlot].type = Link
  BY <1>1
<1> QED BY <1>1, <1>2, <1>3, <1>4, <1>5

\* The link's control word moves the producer to the first slot.
LEMMA LinkControlLimit ==
  ASSUME IInv, WriteLinkControl
  PROVE  LimitInv'
<1>1. /\ cycle_bit' # ccs /\ QueuedCount' = QueuedCount
      /\ \A k : QueuedSlot(k)' = QueuedSlot(k)
      /\ \A j \in TrbSlots : buf'[j] = buf[j]
      /\ buf'[LinkSlot].type = Link
  BY LinkControlSame
<1>2. deq' = deq /\ ccs' = ccs /\ fetched' = fetched /\ events' = events /\ left' = left
  BY DEF WriteLinkControl
<1>3. FetchedCount' = FetchedCount /\ \A p : Age(p)' = Age(p)
  BY <1>2 DEF FetchedCount, Age
<1>4. SidesAgree' /\ WithinRoom'
  BY <1>1, <1>2, <1>3 DEF IInv, LimitInv, SidesAgree, WithinRoom
<1>5. QueuedWhole'
  BY <1>1, QueuedSlots DEF IInv, LimitInv, QueuedWhole
<1>6. EventsInOrder'
  BY <1>2, <1>3 DEF IInv, LimitInv, EventsInOrder
<1>7. DOMAIN events = 1 .. Len(events)
  BY DEF IInv, ProducerInv, TypeOK
<1>8. IssuerStillThere' /\ NoTornFetch'
  BY <1>1, <1>2, <1>7 DEF IInv, LimitInv, EventsInOrder, IssuerStillThere, NoTornFetch
<1> QED BY <1>4, <1>5, <1>6, <1>8 DEF IInv, LimitInv

\* Handling an event leaves the younger ones.
LEMMA HandleLimit ==
  ASSUME IInv, HandleEvent
  PROVE  LimitInv'
<1>1. /\ events \in Seq([ptr : Slots, type : Words]) /\ events # <<>> /\ left \in Nat
      /\ buf' = buf /\ ring_index' = ring_index /\ cycle_bit' = cycle_bit /\ left' = left
      /\ deq' = deq /\ ccs' = ccs /\ fetched' = fetched /\ events' = Tail(events)
  BY MaxTdAssumption DEF IInv, ProducerInv, TypeOK, HandleEvent, kernelVars
<1>2. /\ Len(events') = Len(events) - 1 /\ Len(events) \in Nat
      /\ \A i \in 1 .. Len(events') : events'[i] = events[i + 1] /\ i + 1 \in 1 .. Len(events)
      /\ events' # <<>> => Head(events') = events[2] /\ 2 \in 1 .. Len(events)
      /\ events' \in Seq([ptr : Slots, type : Words])
  BY <1>1
<1>3. QueuedCount' = QueuedCount /\ \A k : QueuedSlot(k)' = QueuedSlot(k)
  BY <1>1 DEF QueuedCount, QueuedSlot
<1>4. \A p : Age(p)' = Age(p)
  BY <1>1 DEF Age
<1>5. FetchedCount' <= FetchedCount /\ FetchedCount' \in Nat
  <2>1. CASE events' = <<>>
    BY <2>1, Counts DEF FetchedCount
  <2>2. CASE events' # <<>>
    <3>1. FetchedCount' = Age(events[2].ptr)
      BY <1>1, <1>2, <2>2 DEF FetchedCount, Age
    <3>2. Age(events[2].ptr) \in Nat /\ Age(events[2].ptr) <= FetchedCount
      BY <1>2, <2>2, AgeType, Counts DEF IInv, ProducerInv, LimitInv, EventsInOrder
    <3> QED BY <3>1, <3>2
  <2> QED BY <2>1, <2>2
<1>6. SidesAgree' /\ QueuedWhole' /\ NoTornFetch'
  BY <1>1, <1>3 DEF IInv, LimitInv, SidesAgree, QueuedWhole, NoTornFetch
<1>7. WithinRoom'
  BY <1>1, <1>3, <1>5, Counts, RingSizeAssumption DEF WithinRoom, Room
<1>8. EventsInOrder'
  <2>1. ASSUME NEW i \in 1 .. Len(events') PROVE Age(events[i].ptr)' = Age(events[i + 1].ptr)
    BY <1>1, <1>2 DEF Age
  <2>2. ASSUME NEW i \in 1 .. Len(events'), NEW j \in 1 .. Len(events'), i < j
        PROVE  Age(events[i].ptr)' >= Age(events[j].ptr)'
    <3>1. i + 1 \in 1 .. Len(events) /\ j + 1 \in 1 .. Len(events) /\ i + 1 < j + 1
      BY <1>2, <2>2
    <3>2. Age(events[i + 1].ptr) >= Age(events[j + 1].ptr)
      BY <3>1 DEF IInv, LimitInv, EventsInOrder
    <3> QED BY <2>1, <3>2
  <2>3. \A i \in 1 .. Len(events') : events'[i].ptr \in TrbSlots
    BY <1>2 DEF IInv, LimitInv, EventsInOrder
  <2> QED BY <2>2, <2>3 DEF EventsInOrder
<1>9. IssuerStillThere'
  <2>1. DOMAIN events = 1 .. Len(events) /\ DOMAIN events' = 1 .. Len(events')
    BY <1>1, <1>2
  <2> QED BY <1>1, <1>2, <2>1 DEF IInv, LimitInv, IssuerStillThere
<1> QED BY <1>6, <1>7, <1>8, <1>9 DEF IInv, LimitInv

\* A fetch takes the first queued TRB; everything fetched before is one
\* fetch older.
LEMMA FetchMoves ==
  ASSUME IInv, NEW report \in BOOLEAN, Fetch(report)
  PROVE  /\ QueuedCount \in Nat \ {0} /\ QueuedCount' = QueuedCount - 1
         /\ deq \in TrbSlots /\ deq' = deq + 1 /\ QueuedSlot(1) = deq
         /\ \A k \in 1 .. QueuedCount - 1 : QueuedSlot(k)' = QueuedSlot(k + 1)
         /\ \A p \in TrbSlots : Age(p)' = IF p = deq THEN 1 ELSE Age(p) + 1
         /\ \A i \in 1 .. Len(events) : events[i].ptr # deq
<1>1. /\ deq \in TrbSlots /\ QueuedCount > 0 /\ QueuedSlot(1) = deq
      /\ ring_index' = ring_index /\ cycle_bit' = cycle_bit /\ ccs' = ccs
      /\ deq' = (deq + 1) % RingSize
  BY OwnedMeansQueued DEF Fetch, kernelVars
<1>2. deq' = deq + 1
  BY <1>1, RingSizeAssumption DEF TrbSlots
<1>3. /\ deq \in 0 .. RingSize - 2 /\ ring_index \in 0 .. RingSize - 1
      /\ QueuedCount \in Nat /\ FetchedCount \in Nat /\ left \in Nat
      /\ QueuedCount + FetchedCount + left <= RingSize - 2
  BY <1>1, Counts, MaxTdAssumption DEF TrbSlots, IInv, ProducerInv, TypeOK, Slots
<1>4. QueuedCount' = QueuedCount - 1
  BY <1>1, <1>2, <1>3, RingSizeAssumption DEF QueuedCount, LinkSlot
<1>5. \A k \in 1 .. QueuedCount - 1 : QueuedSlot(k)' = QueuedSlot(k + 1)
  BY <1>2, <1>3, RingSizeAssumption DEF QueuedSlot, LinkSlot
<1>6. \A p \in TrbSlots : Age(p)' = IF p = deq THEN 1 ELSE Age(p) + 1
  BY <1>2, <1>3, RingSizeAssumption DEF Age, LinkSlot, TrbSlots
<1>7. ASSUME NEW i \in 1 .. Len(events) PROVE events[i].ptr # deq
  <2>1. Age(events[i].ptr) <= RingSize - 2
    BY <1>3, Counts, AgeType, RingSizeAssumption
       DEF IInv, ProducerInv, LimitInv, EventsInOrder
  <2> QED BY <1>3, <2>1, RingSizeAssumption DEF Age, LinkSlot
<1> QED BY <1>1, <1>2, <1>3, <1>4, <1>5, <1>6, <1>7

\* A fetch moves at most one TRB from the queued to the fetched ones.
LEMMA FetchFits ==
  ASSUME NEW q \in Nat \ {0}, NEW f \in Nat, NEW g \in Nat, NEW l \in Nat, NEW n \in Nat,
         q + f + l <= n - 2, g <= f + 1
  PROVE  (q - 1) + g + l <= n - 2
  OBVIOUS

\* A fetch takes the oldest TRB and nothing else.
LEMMA FetchLimit ==
  ASSUME IInv, NEW report \in BOOLEAN, Fetch(report)
  PROVE  LimitInv'
<1> DEFINE e == [ptr |-> deq, type |-> buf[deq].type]
           E == [ptr : Slots, type : Words]
<1>1. /\ QueuedCount \in Nat \ {0} /\ QueuedCount' = QueuedCount - 1
      /\ deq \in TrbSlots /\ deq' = deq + 1 /\ QueuedSlot(1) = deq
      /\ \A k \in 1 .. QueuedCount - 1 : QueuedSlot(k)' = QueuedSlot(k + 1)
      /\ \A p \in TrbSlots : Age(p)' = IF p = deq THEN 1 ELSE Age(p) + 1
      /\ \A i \in 1 .. Len(events) : events[i].ptr # deq
  BY FetchMoves
<1>2. /\ buf' = buf /\ ring_index' = ring_index /\ cycle_bit' = cycle_bit /\ left' = left
      /\ ccs' = ccs /\ left \in Nat /\ buf \in [Slots -> [body : Words, type : Words, c : {0, 1}]]
      /\ fetched' = [body |-> buf[deq].body, type |-> buf[deq].type]
      /\ events' = IF report THEN Append(events, e) ELSE events
      /\ events \in Seq(E) /\ e \in E /\ TrbSlots \subseteq Slots
  BY <1>1, MaxTdAssumption, RingSizeAssumption
     DEF Fetch, kernelVars, IInv, ProducerInv, TypeOK, TrbSlots, Slots
<1>3. e.ptr = deq /\ e.type = buf[deq].type
  OBVIOUS
<1> HIDE DEF e, E
<1>4. /\ Len(events) \in Nat
      /\ Len(events') = IF report THEN Len(events) + 1 ELSE Len(events)
      /\ \A i \in 1 .. Len(events) : events'[i] = events[i]
      /\ report => events'[Len(events) + 1] = e
      /\ events' \in Seq(E)
  BY <1>2
<1>5. \A i \in 1 .. Len(events') : i \in 1 .. Len(events) \/ (report /\ i = Len(events) + 1)
  BY <1>4
<1>6. \A i \in 1 .. Len(events) : /\ events[i].ptr \in TrbSlots
                                  /\ Age(events[i].ptr) \in Nat \ {0}
                                  /\ Age(events[i].ptr)' = Age(events[i].ptr) + 1
  <2>1. \A i \in 1 .. Len(events) : /\ events[i].ptr \in TrbSlots
                                    /\ Age(events[i].ptr) \in Nat \ {0}
    BY AgeType DEF IInv, ProducerInv, LimitInv, EventsInOrder
  <2>2. ASSUME NEW i \in 1 .. Len(events) PROVE Age(events[i].ptr)' = Age(events[i].ptr) + 1
    <3>1. events'[i].ptr = events[i].ptr /\ events[i].ptr # deq
      BY <1>1, <1>4
    <3> QED BY <1>1, <2>1, <3>1 DEF Age
  <2> QED BY <2>1, <2>2
<1>7. FetchedCount' \in Nat /\ FetchedCount' <= FetchedCount + 1
  <2>1. CASE events' = <<>>
    BY <2>1, Counts DEF FetchedCount
  <2>2. CASE events' # <<>> /\ events = <<>>
    <3>1. Head(events') = e
      BY <1>2, <2>2
    <3>2. FetchedCount' = 1
      BY <1>1, <1>3, <3>1, <2>2, RingSizeAssumption DEF FetchedCount, TrbSlots
    <3> QED BY <3>2, Counts
  <2>3. CASE events' # <<>> /\ events # <<>>
    <3>1. /\ Head(events') = events[1] /\ Head(events) = events[1] /\ 1 \in 1 .. Len(events)
      BY <1>2, <2>3
    <3>2. FetchedCount = Age(events[1].ptr)
      BY <2>3, <3>1 DEF FetchedCount, Age
    <3>3. FetchedCount' = Age(events[1].ptr)'
      <4>1. events'[1] = events[1]
        BY <1>4, <3>1
      <4> QED BY <2>3, <3>1, <4>1 DEF FetchedCount, Age
    <3>4. FetchedCount' = FetchedCount + 1
      <4>1. events'[1].ptr = events[1].ptr
        BY <1>4, <3>1
      <4> QED BY <1>6, <3>1, <3>2, <3>3, <4>1
    <3> QED BY <3>4, Counts
  <2> QED BY <2>1, <2>2, <2>3
<1>8. SidesAgree'
  <2>1. cycle_bit = ccs => deq < ring_index
    BY <1>1, RingSizeAssumption DEF QueuedCount, TrbSlots, IInv, ProducerInv, TypeOK, Slots
  <2> QED BY <1>1, <1>2, <2>1 DEF IInv, LimitInv, SidesAgree, ProducerInv, TypeOK, Slots, TrbSlots
<1>9. WithinRoom'
  <2>1. /\ QueuedCount \in Nat \ {0} /\ FetchedCount \in Nat /\ left \in Nat
        /\ QueuedCount + FetchedCount + left <= RingSize - 2
    BY <1>1, <1>2, Counts
  <2>2. QueuedCount' = QueuedCount - 1 /\ left' = left
    BY <1>1, <1>2
  <2>3. QueuedCount' + FetchedCount' + left' <= RingSize - 2
    BY <1>7, <2>1, <2>2, FetchFits, RingSizeAssumption
  <2> QED BY <2>3 DEF WithinRoom, Room
<1>10. QueuedWhole'
  BY <1>1, <1>2 DEF IInv, LimitInv, QueuedWhole
<1>11. EventsInOrder'
  <2>1. ASSUME NEW i \in 1 .. Len(events') PROVE events'[i].ptr \in TrbSlots
    BY <1>1, <1>3, <1>4, <1>5, <1>6
  <2>2. ASSUME NEW i \in 1 .. Len(events'), NEW j \in 1 .. Len(events'), i < j
        PROVE  Age(events[i].ptr)' >= Age(events[j].ptr)'
    <3>1. i \in 1 .. Len(events) /\ events'[i] = events[i]
      BY <1>4, <1>5, <2>2
    <3>2. Age(events[i].ptr)' = Age(events[i].ptr) + 1 /\ Age(events[i].ptr) \in Nat \ {0}
      BY <1>6, <3>1
    <3>3. CASE j \in 1 .. Len(events)
      <4>1. Age(events[i].ptr) >= Age(events[j].ptr)
        BY <2>2, <3>1, <3>3 DEF IInv, LimitInv, EventsInOrder
      <4>2. events'[j] = events[j]
        BY <1>4, <3>3
      <4>3. Age(events[j].ptr)' = Age(events[j].ptr) + 1 /\ Age(events[j].ptr) \in Nat \ {0}
        BY <1>6, <3>3
      <4> QED BY <3>2, <4>1, <4>3
    <3>4. CASE j = Len(events) + 1
      <4>1. events'[j].ptr = deq
        BY <1>3, <1>4, <1>5, <2>2, <3>4
      <4>2. Age(events[j].ptr)' = 1
        BY <1>1, <4>1 DEF Age
      <4> QED BY <3>2, <4>2
    <3> QED BY <1>5, <2>2, <3>3, <3>4
  <2> QED BY <2>1, <2>2 DEF EventsInOrder
<1>12. IssuerStillThere'
  <2>1. DOMAIN events = 1 .. Len(events) /\ DOMAIN events' = 1 .. Len(events')
    BY <1>2, <1>4
  <2> QED BY <1>2, <1>3, <1>4, <1>5, <2>1 DEF IInv, LimitInv, IssuerStillThere
<1>13. NoTornFetch'
  BY <1>1, <1>2 DEF IInv, LimitInv, QueuedWhole, NoTornFetch
<1> QED BY <1>8, <1>9, <1>10, <1>11, <1>12, <1>13 DEF IInv, LimitInv

\* Following the link TRB changes no slot's place in the queue and no age.
LEMMA LinkMoves ==
  ASSUME IInv, FollowLink
  PROVE  /\ QueuedCount' = QueuedCount
         /\ \A k \in 1 .. QueuedCount : QueuedSlot(k)' = QueuedSlot(k)
         /\ \A p \in TrbSlots : Age(p)' = Age(p)
         /\ cycle_bit = ccs'
<1>1. /\ deq = LinkSlot /\ cycle_bit # ccs /\ deq' = 0 /\ ccs' = 1 - ccs
      /\ cycle_bit \in {0, 1} /\ ccs \in {0, 1} /\ ring_index \in 0 .. RingSize - 1
      /\ ring_index' = ring_index /\ cycle_bit' = cycle_bit
  BY OwnedMeansQueued DEF FollowLink, kernelVars, IInv, ProducerInv, TypeOK, Slots
<1>2. cycle_bit = ccs'
  BY <1>1
<1>3. QueuedCount' = QueuedCount /\ QueuedCount = ring_index
  BY <1>1, <1>2, RingSizeAssumption DEF QueuedCount, LinkSlot
<1>4. \A k \in 1 .. QueuedCount : QueuedSlot(k)' = QueuedSlot(k)
  BY <1>1, <1>3, RingSizeAssumption DEF QueuedSlot, LinkSlot
<1>5. \A p \in TrbSlots : Age(p)' = Age(p)
  BY <1>1, RingSizeAssumption DEF Age, LinkSlot, TrbSlots
<1> QED BY <1>2, <1>3, <1>4, <1>5

\* Following the link changes no TRB of the queue.
LEMMA FollowLimit ==
  ASSUME IInv, FollowLink
  PROVE  LimitInv'
<1>1. /\ QueuedCount' = QueuedCount
      /\ \A k \in 1 .. QueuedCount : QueuedSlot(k)' = QueuedSlot(k)
      /\ \A p \in TrbSlots : Age(p)' = Age(p)
      /\ cycle_bit = ccs'
  BY LinkMoves
<1>2. /\ buf' = buf /\ ring_index' = ring_index /\ cycle_bit' = cycle_bit /\ left' = left
      /\ deq' = 0 /\ fetched' = fetched /\ events' = events /\ ring_index \in Nat
      /\ events \in Seq([ptr : Slots, type : Words])
  BY DEF FollowLink, kernelVars, IInv, ProducerInv, TypeOK, Slots
<1>3. FetchedCount' = FetchedCount
  <2>1. CASE events = <<>>
    BY <1>2, <2>1 DEF FetchedCount
  <2>2. CASE events # <<>>
    <3>1. Head(events) = events[1] /\ events[1].ptr \in TrbSlots
      BY <1>2, <2>2 DEF IInv, LimitInv, EventsInOrder
    <3>2. FetchedCount = Age(events[1].ptr) /\ FetchedCount' = Age(events[1].ptr)'
      BY <1>2, <2>2, <3>1 DEF FetchedCount, Age
    <3>3. Age(events[1].ptr)' = Age(events[1].ptr)
      BY <1>1, <1>2, <3>1 DEF Age
    <3> QED BY <3>2, <3>3
  <2> QED BY <2>1, <2>2
<1>4. SidesAgree' /\ WithinRoom'
  BY <1>1, <1>2, <1>3 DEF IInv, LimitInv, SidesAgree, WithinRoom
<1>5. QueuedWhole'
  BY <1>1, <1>2 DEF IInv, LimitInv, QueuedWhole
<1>6. EventsInOrder'
  <2>1. \A i \in 1 .. Len(events) : Age(events[i].ptr)' = Age(events[i].ptr)
    BY <1>1, <1>2 DEF IInv, LimitInv, EventsInOrder, Age
  <2> QED BY <1>2, <2>1 DEF IInv, LimitInv, EventsInOrder
<1>7. IssuerStillThere' /\ NoTornFetch'
  BY <1>2 DEF IInv, LimitInv, IssuerStillThere, NoTornFetch
<1> QED BY <1>4, <1>5, <1>6, <1>7 DEF IInv, LimitInv

\* Every step of write_ring, its callers, the handlers and the controller
\* preserves the invariant.
LEMMA NextIInv == IInv /\ [Next]_vars => IInv'
<1> SUFFICES ASSUME IInv, [Next]_vars PROVE LimitInv'
  BY NextProducer DEF IInv
<1>1. ASSUME NEW n \in 1 .. MaxTd, BeginTd(n) PROVE LimitInv'
  BY <1>1, BeginLimit
<1>2. ASSUME NEW t \in Trb, WriteBody(t) PROVE LimitInv'
  BY <1>2, BodyLimit
<1>3. CASE WriteControl
  BY <1>3, ControlLimit
<1>4. CASE WriteLinkBody
  BY <1>4, LinkBodyLimit
<1>5. CASE WriteLinkControl
  BY <1>5, LinkControlLimit
<1>6. CASE Continue \/ write_xhci_doorbell \/ GoIdle \/ UNCHANGED vars
  BY <1>6, StillLimit
     DEF Continue, write_xhci_doorbell, GoIdle, kernelVars, vars, IInv, LimitInv, WithinRoom
<1>7. CASE HandleEvent
  BY <1>7, HandleLimit
<1>8. ASSUME NEW report \in BOOLEAN, Fetch(report) PROVE LimitInv'
  BY <1>8, FetchLimit
<1>9. CASE FollowLink
  BY <1>9, FollowLimit
<1> QED BY <1>1, <1>2, <1>3, <1>4, <1>5, <1>6, <1>7, <1>8, <1>9 DEF Next, Writing, Controller

\* The invariant holds for callers that keep to the limit.
THEOREM IInvHolds == Limited /\ Spec => []IInv
  BY InitLimit, NextIInv, PTL DEF Spec

\* When a handler reads the TRB its event points at, that TRB is still the
\* one that completed: no TRB is overwritten before its event is handled, if
\* callers write no more than fits.
THEOREM IssuerKept == Limited /\ Spec => []IssuerStillThere
<1>1. IInv => IssuerStillThere
  BY DEF IInv, LimitInv
<1> QED BY <1>1, IInvHolds, PTL

\* With callers that keep to the limit no torn TRB is fetched, whatever TRBs
\* they write.
THEOREM LimitedNotTorn == Limited /\ Spec => []NoTornFetch
<1>1. IInv => NoTornFetch
  BY DEF IInv, LimitInv
<1> QED BY <1>1, IInvHolds, PTL

----------------------------------------------------------------------------
(* The refinement: word 3 of a TRB is the Put, the controller's fetch the  *)
(* Take; the other words, the link TRB and the doorbell change no queue.   *)

Entry == {[body |-> t, type |-> t] : t \in Trb}

\* The queued run is a sequence of whole TRBs with QueuedCount entries.
QueuedIsSeq ==
  /\ Queued \in Seq(Entry)
  /\ Len(Queued) = QueuedCount
  /\ QueuedCount \in Nat
  /\ \A k \in 1 .. QueuedCount :
       Queued[k] = [body |-> buf[QueuedSlot(k)].body, type |-> buf[QueuedSlot(k)].type]

\* The queue read off the slots is a sequence of TRBs.
LEMMA QueuedSeq == IInv => QueuedIsSeq
<1> SUFFICES ASSUME IInv PROVE QueuedIsSeq
  OBVIOUS
<1>1. QueuedCount \in Nat
  BY Counts
<1>2. \A k \in 1 .. QueuedCount :
        [body |-> buf[QueuedSlot(k)].body, type |-> buf[QueuedSlot(k)].type] \in Entry
  BY DEF IInv, LimitInv, QueuedWhole, Entry
<1> QED BY <1>1, <1>2, IsASeq DEF Queued, QueuedIsSeq

\* Storing the control word puts the TRB into the abstract queue.
LEMMA ControlIsPut ==
  ASSUME IInv, IInv', WriteControl
  PROVE  Fifo!Next
<1> DEFINE e == [body |-> data, type |-> data]
<1>1. QueuedIsSeq /\ QueuedIsSeq'
  BY QueuedSeq, PTL
<1>2. /\ QueuedCount' = QueuedCount + 1
      /\ \A k : QueuedSlot(k)' = QueuedSlot(k)
      /\ ring_index \in TrbSlots /\ QueuedSlot(QueuedCount + 1) = ring_index
      /\ buf'[ring_index].type = data /\ buf'[ring_index].body = data /\ data \in Trb
      /\ \A j \in Slots \ {ring_index} : buf'[j] = buf[j]
      /\ QueuedCount + 1 <= Room
  BY ControlQueues
<1>3. e \in Entry
  BY <1>2 DEF Entry
<1>4. /\ Queued \in Seq(Entry) /\ Len(Queued) = QueuedCount /\ QueuedCount \in Nat
      /\ Queued' \in Seq(Entry) /\ Len(Queued') = QueuedCount + 1
  BY <1>1, <1>2 DEF QueuedIsSeq, Entry
<1>5. ASSUME NEW k \in 1 .. QueuedCount + 1 PROVE Queued'[k] = Append(Queued, e)[k]
  <2>1. Queued'[k] = [body |-> buf'[QueuedSlot(k)].body, type |-> buf'[QueuedSlot(k)].type]
    BY <1>1, <1>2 DEF QueuedIsSeq
  <2>2. CASE k = QueuedCount + 1
    BY <1>2, <1>3, <1>4, <2>1, <2>2
  <2>3. CASE k # QueuedCount + 1
    <3>1. k \in 1 .. QueuedCount
      BY <1>4, <2>3
    <3>2. QueuedSlot(k) \in Slots \ {ring_index}
      BY <3>1, QueuedSlots, RingSizeAssumption DEF TrbSlots, Slots
    <3>3. buf'[QueuedSlot(k)] = buf[QueuedSlot(k)]
      BY <1>2, <3>2
    <3>4. Queued'[k] = Queued[k]
      BY <1>1, <2>1, <3>1, <3>3 DEF QueuedIsSeq
    <3> QED BY <1>3, <1>4, <3>1, <3>4
  <2> QED BY <2>2, <2>3
<1> HIDE DEF e
<1>6. Append(Queued, e) \in Seq(Entry) /\ Len(Append(Queued, e)) = QueuedCount + 1
  BY <1>3, <1>4
<1>7. Queued' = Append(Queued, e)
  BY <1>4, <1>5, <1>6, SeqEqual
<1>8. Len(Queued) < Room /\ fetched' = fetched
  BY <1>2, <1>4, RingSizeAssumption DEF Room, WriteControl
<1>9. Fifo!Put(e)
  BY <1>7, <1>8 DEF Fifo!Put
<1> QED BY <1>3, <1>9 DEF Fifo!Next, Entry

\* A fetch takes the oldest TRB out of the abstract queue.
LEMMA FetchIsTake ==
  ASSUME IInv, IInv', NEW report \in BOOLEAN, Fetch(report)
  PROVE  Fifo!Take
<1>1. QueuedIsSeq /\ QueuedIsSeq'
  BY QueuedSeq, PTL
<1>2. /\ QueuedCount \in Nat \ {0} /\ QueuedCount' = QueuedCount - 1
      /\ QueuedSlot(1) = deq /\ buf' = buf
      /\ \A k \in 1 .. QueuedCount - 1 : QueuedSlot(k)' = QueuedSlot(k + 1)
      /\ fetched' = [body |-> buf[deq].body, type |-> buf[deq].type]
  BY FetchMoves DEF Fetch
<1>3. /\ Queued \in Seq(Entry) /\ Len(Queued) = QueuedCount /\ Queued # <<>>
      /\ Queued' \in Seq(Entry) /\ Len(Queued') = QueuedCount - 1
  BY <1>1, <1>2 DEF QueuedIsSeq, Entry
<1>4. fetched' = Head(Queued)
  BY <1>1, <1>2, <1>3 DEF QueuedIsSeq
<1>5. ASSUME NEW k \in 1 .. QueuedCount - 1 PROVE Queued'[k] = Tail(Queued)[k]
  <2>1. k + 1 \in 1 .. QueuedCount /\ k \in 1 .. QueuedCount'
    BY <1>2
  <2>2. Queued'[k] = [body |-> buf[QueuedSlot(k + 1)].body, type |-> buf[QueuedSlot(k + 1)].type]
    BY <1>1, <1>2, <2>1 DEF QueuedIsSeq
  <2>3. Tail(Queued)[k] = Queued[k + 1]
    BY <1>3
  <2> QED BY <1>1, <2>1, <2>2, <2>3 DEF QueuedIsSeq
<1>6. Tail(Queued) \in Seq(Entry) /\ Len(Tail(Queued)) = QueuedCount - 1
  BY <1>3
<1>7. Queued' = Tail(Queued)
  BY <1>3, <1>5, <1>6, SeqEqual
<1> QED BY <1>3, <1>4, <1>7 DEF Fifo!Take

\* Steps that leave the queued slots alone leave the abstract queue alone.
LEMMA SameQueue ==
  ASSUME QueuedCount' = QueuedCount,
         \A k \in 1 .. QueuedCount :
           QueuedSlot(k)' = QueuedSlot(k) /\ buf'[QueuedSlot(k)] = buf[QueuedSlot(k)]
  PROVE  Queued' = Queued
  BY DEF Queued

\* A ring whose callers keep to the limit implements the bounded first-in
\* first-out queue: the controller fetches what was written once each, in
\* order and whole, across the link TRB and the flips of the cycle bit.
THEOREM ImplementsFifo == Limited /\ Spec => FetchesInOrder
<1>1. Limited /\ Init => Fifo!Init
  <2> SUFFICES ASSUME Limited, Init PROVE Queued = <<>>
    BY DEF Fifo!Init
  <2>1. QueuedCount = 0
    BY DEF Init, QueuedCount
  <2>2. QueuedIsSeq
    BY InitLimit, QueuedSeq
  <2> QED BY <2>1, <2>2 DEF QueuedIsSeq
<1>2. IInv /\ IInv' /\ [Next]_vars => [Fifo!Next]_<<Queued, fetched>>
  <2> SUFFICES ASSUME IInv, IInv', [Next]_vars
               PROVE  Fifo!Next \/ UNCHANGED <<Queued, fetched>>
    OBVIOUS
  <2>0. /\ buf \in [Slots -> [body : Words, type : Words, c : {0, 1}]]
        /\ TrbSlots \subseteq Slots /\ LinkSlot \in Slots /\ LinkSlot \notin TrbSlots
        /\ ring_index \in Slots
    BY RingSizeAssumption DEF IInv, ProducerInv, TypeOK, Slots, TrbSlots, LinkSlot
  <2>1. CASE \/ \E n \in 1 .. MaxTd : BeginTd(n)
             \/ Continue \/ write_xhci_doorbell \/ HandleEvent \/ GoIdle \/ UNCHANGED vars
    BY <2>1 DEF BeginTd, Continue, write_xhci_doorbell, HandleEvent, GoIdle, kernelVars, vars,
                Queued, QueuedCount, QueuedSlot
  <2>2. ASSUME NEW t \in Trb, WriteBody(t) PROVE UNCHANGED <<Queued, fetched>>
    <3>1. QueuedCount' = QueuedCount /\ \A k : QueuedSlot(k)' = QueuedSlot(k)
      BY <2>2 DEF WriteBody, QueuedCount, QueuedSlot
    <3>2. \A k \in 1 .. QueuedCount : buf'[QueuedSlot(k)] = buf[QueuedSlot(k)]
      BY <2>0, <2>2, QueuedSlots DEF WriteBody
    <3> QED BY <2>2, <3>1, <3>2, SameQueue DEF WriteBody
  <2>3. CASE WriteControl
    BY <2>3, ControlIsPut
  <2>4. CASE WriteLinkBody
    <3>1. QueuedCount' = QueuedCount /\ \A k : QueuedSlot(k)' = QueuedSlot(k)
      BY <2>4 DEF WriteLinkBody, QueuedCount, QueuedSlot
    <3>2. \A k \in 1 .. QueuedCount : buf'[QueuedSlot(k)] = buf[QueuedSlot(k)]
      BY <2>0, <2>4, QueuedSlots DEF WriteLinkBody
    <3> QED BY <2>4, <3>1, <3>2, SameQueue DEF WriteLinkBody
  <2>5. CASE WriteLinkControl
    <3>1. /\ QueuedCount' = QueuedCount
          /\ \A k \in 1 .. QueuedCount :
               QueuedSlot(k)' = QueuedSlot(k) /\ buf'[QueuedSlot(k)] = buf[QueuedSlot(k)]
      BY <2>5, LinkControlSame, QueuedSlots
    <3> QED BY <2>5, <3>1, SameQueue DEF WriteLinkControl
  <2>6. ASSUME NEW report \in BOOLEAN, Fetch(report) PROVE Fifo!Next
    BY <2>6, FetchIsTake DEF Fifo!Next
  <2>7. CASE FollowLink
    BY <2>7, LinkMoves, SameQueue DEF FollowLink
  <2> QED BY <2>1, <2>2, <2>3, <2>4, <2>5, <2>6, <2>7 DEF Next, Writing, Controller
<1> QED BY <1>1, <1>2, IInvHolds, PTL DEF Spec, FetchesInOrder, Fifo!Spec

============================================================================
