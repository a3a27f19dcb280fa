-------------------------- MODULE EventRingProofs --------------------------
(***************************************************************************)
(* Proofs about EventRing for a ring of any size and any event contents.   *)
(* Everything rests on one inductive invariant: the slots below the        *)
(* controller's enqueue pointer carry its present cycle state, the others  *)
(* the opposite one, and the kernel's cycle bit tells on which side of     *)
(* the enqueue pointer ERDP is.                                            *)
(***************************************************************************)
EXTENDS EventRing, SequenceTheorems, TLAPS

\* The kernel's cycle bit equals the controller's exactly when the
\* controller has not wrapped past the end of the ring ahead of ERDP.
SidesAgree ==
  /\ cycle_bit = pcs => erdp <= enq
  /\ cycle_bit # pcs => enq < erdp

\* The cycle bits in the ring mark how far this lap's writing got.
CyclesMarkLap == \A i \in Slots : buf[i].c = IF i < enq THEN pcs ELSE 1 - pcs

\* What get_eventring knows between its wait and write_event_ring, and what
\* its caller relies on afterwards.
KernelHolds ==
  /\ pc = "taken" => trb = erdp /\ er_isQueued
  /\ pc = "use" => NextSlot(trb) = erdp /\ buf[trb].ev = got

\* Slots between ERDP and the enqueue pointer hold real events.
PendingAreEvents == \A k \in 1 .. PendingCount : buf[PendingSlot(k)].ev \in Event

IInv == TypeOK /\ SidesAgree /\ CyclesMarkLap /\ KernelHolds /\ PendingAreEvents

\* new_ring and init_xhci establish the invariant.
LEMMA InitIInv == Init => IInv
  BY RingSizeAssumption
     DEF Init, IInv, TypeOK, SidesAgree, CyclesMarkLap, KernelHolds,
         PendingAreEvents, PendingCount, PendingSlot, Slots

\* The k-th pending slot is a slot of the ring.
LEMMA PendingSlotType ==
  ASSUME TypeOK, NEW k \in 1 .. PendingCount
  PROVE  PendingSlot(k) \in Slots
  BY RingSizeAssumption DEF TypeOK, PendingCount, PendingSlot, Slots

\* Posting never touches a pending slot.
LEMMA PendingSlotNotEnq ==
  ASSUME TypeOK, NEW k \in 1 .. PendingCount
  PROVE  PendingSlot(k) # enq
  BY RingSizeAssumption DEF TypeOK, PendingCount, PendingSlot, Slots

\* The controller's post grows the pending run by one slot, the old enqueue
\* pointer, at its end.
LEMMA PostPending ==
  ASSUME TypeOK, NEW e \in Event, Post(e)
  PROVE  /\ PendingCount \in Nat
         /\ PendingCount' = PendingCount + 1
         /\ \A k \in 1 .. PendingCount : PendingSlot(k)' = PendingSlot(k)
         /\ \A k \in Nat : k = PendingCount + 1 => PendingSlot(k)' = enq
         /\ PendingCount + 1 <= RingSize - 1
  BY RingSizeAssumption
     DEF TypeOK, Post, PendingCount, PendingSlot, NextSlot, Slots

\* Moving ERDP drops the first slot of the pending run, which is not empty.
LEMMA TakePending ==
  ASSUME TypeOK, SidesAgree, CyclesMarkLap, KernelHolds, write_event_ring
  PROVE  /\ PendingCount \in Nat \ {0}
         /\ PendingCount' = PendingCount - 1
         /\ PendingSlot(1) = erdp
         /\ \A k \in 1 .. PendingCount - 1 : PendingSlot(k)' = PendingSlot(k + 1)
<1>1. erdp # enq
  BY DEF TypeOK, SidesAgree, CyclesMarkLap, KernelHolds, write_event_ring,
         er_isQueued, Slots
<1> QED
  BY <1>1, RingSizeAssumption
     DEF TypeOK, write_event_ring, PendingCount, PendingSlot, NextSlot, Slots

\* Every step of the kernel and of the controller preserves the invariant.
LEMMA NextIInv == IInv /\ [Next]_vars => IInv'
<1> SUFFICES ASSUME IInv, [Next]_vars PROVE IInv'
  OBVIOUS
<1> USE RingSizeAssumption
<1>1. CASE get_eventring
  <2>1. TypeOK' /\ SidesAgree' /\ CyclesMarkLap'
    BY <1>1 DEF IInv, TypeOK, SidesAgree, CyclesMarkLap, get_eventring
  <2>2. KernelHolds'
    BY <1>1 DEF KernelHolds, get_eventring, er_isQueued
  <2>3. PendingAreEvents'
    BY <1>1 DEF IInv, PendingAreEvents, PendingCount, PendingSlot, get_eventring
  <2> QED BY <2>1, <2>2, <2>3 DEF IInv
<1>2. CASE write_event_ring
  <2>1. TypeOK'
    BY <1>2 DEF IInv, TypeOK, write_event_ring, NextSlot, FlipAtEnd, Slots
  <2>2. SidesAgree'
    BY <1>2 DEF IInv, TypeOK, SidesAgree, CyclesMarkLap, KernelHolds,
                write_event_ring, er_isQueued, NextSlot, FlipAtEnd, Slots
  <2>3. CyclesMarkLap'
    BY <1>2 DEF IInv, CyclesMarkLap, write_event_ring
  <2>4. KernelHolds'
    BY <1>2 DEF IInv, KernelHolds, write_event_ring, NextSlot
  <2>5. PendingAreEvents'
    <3> SUFFICES ASSUME NEW k \in 1 .. PendingCount'
                 PROVE  (buf[PendingSlot(k)].ev)' \in Event
      BY DEF PendingAreEvents
    <3>1. k \in 1 .. PendingCount - 1 /\ k + 1 \in 1 .. PendingCount
      BY <1>2, TakePending DEF IInv
    <3>2. PendingSlot(k)' = PendingSlot(k + 1)
      BY <1>2, <3>1, TakePending DEF IInv
    <3> QED BY <1>2, <3>1, <3>2 DEF IInv, PendingAreEvents, write_event_ring
  <2> QED BY <2>1, <2>2, <2>3, <2>4, <2>5 DEF IInv
<1>3. CASE EndOfHandler
  <2>1. TypeOK' /\ SidesAgree' /\ CyclesMarkLap'
    BY <1>3 DEF IInv, TypeOK, SidesAgree, CyclesMarkLap, EndOfHandler
  <2>2. KernelHolds'
    BY <1>3 DEF KernelHolds, EndOfHandler
  <2>3. PendingAreEvents'
    BY <1>3 DEF IInv, PendingAreEvents, PendingCount, PendingSlot, EndOfHandler
  <2> QED BY <2>1, <2>2, <2>3 DEF IInv
<1>4. ASSUME NEW e \in Event, Post(e) PROVE IInv'
  <2>1. TypeOK'
    BY <1>4 DEF IInv, TypeOK, Post, NextSlot, FlipAtEnd, Slots
  <2>2. SidesAgree'
    BY <1>4 DEF IInv, TypeOK, SidesAgree, Post, NextSlot, FlipAtEnd, Slots
  <2>3. CyclesMarkLap'
    BY <1>4 DEF IInv, TypeOK, CyclesMarkLap, Post, NextSlot, FlipAtEnd, Slots
  <2>4. KernelHolds'
    <3>1. pc = "taken" => erdp # enq
      BY DEF IInv, TypeOK, SidesAgree, CyclesMarkLap, KernelHolds, er_isQueued, Slots
    <3>2. pc = "use" => trb # enq
      BY <1>4 DEF IInv, KernelHolds, Post
    <3> QED BY <1>4, <3>1, <3>2 DEF IInv, TypeOK, KernelHolds, Post, er_isQueued
  <2>5. PendingAreEvents'
    <3> SUFFICES ASSUME NEW k \in 1 .. PendingCount'
                 PROVE  (buf[PendingSlot(k)].ev)' \in Event
      BY DEF PendingAreEvents
    <3>1. CASE k = PendingCount + 1
      <4>1. PendingSlot(k)' = enq
        BY <1>4, <3>1, PostPending DEF IInv
      <4> QED BY <4>1, <1>4 DEF IInv, TypeOK, Post
    <3>2. CASE k # PendingCount + 1
      <4>1. k \in 1 .. PendingCount /\ PendingSlot(k)' = PendingSlot(k)
        BY <1>4, <3>2, PostPending DEF IInv
      <4>2. PendingSlot(k) # enq /\ PendingSlot(k) \in Slots
        BY <4>1, PendingSlotNotEnq, PendingSlotType DEF IInv
      <4> QED BY <4>1, <4>2, <1>4 DEF IInv, TypeOK, Post, PendingAreEvents
    <3> QED BY <3>1, <3>2
  <2> QED BY <2>1, <2>2, <2>3, <2>4, <2>5 DEF IInv
<1>5. CASE UNCHANGED vars
  BY <1>5 DEF IInv, TypeOK, SidesAgree, CyclesMarkLap, KernelHolds, vars,
              PendingAreEvents, PendingCount, PendingSlot, er_isQueued, NextSlot
<1> QED BY <1>1, <1>2, <1>3, <1>4, <1>5 DEF Next, Kernel

\* The invariant holds throughout every behaviour of the event ring.
THEOREM IInvHolds == Spec => []IInv
  BY InitIInv, NextIInv, PTL DEF Spec

\* The ring, both cycle bits and all three pointers keep their types.
THEOREM TypeCorrect == Spec => []TypeOK
<1>1. IInv => TypeOK
  BY DEF IInv
<1> QED BY <1>1, IInvHolds, PTL

\* A handler of usb_process_events or read_usb_keyboard that reads through
\* the pointer get_eventring returned reads the event it was given, for
\* every ring size and however many events arrive meanwhile.
THEOREM HeldTrbSafe == Spec => []HeldTrbIntact
<1>1. IInv => HeldTrbIntact
  BY DEF IInv, KernelHolds, HeldTrbIntact
<1> QED BY <1>1, IInvHolds, PTL

\* er_isQueued neither misses an event nor reports one that is not there.
THEOREM QueuedExact == Spec => []QueuedIffPending
<1>1. IInv => QueuedIffPending
  BY RingSizeAssumption
     DEF IInv, TypeOK, SidesAgree, CyclesMarkLap, QueuedIffPending,
         er_isQueued, PendingCount, Slots
<1> QED BY <1>1, IInvHolds, PTL

----------------------------------------------------------------------------
(* The refinement: each post is a Put, each move of ERDP a Take, and every *)
(* other step leaves the abstract queue alone.                             *)

\* Two sequences of equal length with equal entries are equal.
LEMMA SameSeq ==
  ASSUME NEW S, NEW s \in Seq(S), NEW t \in Seq(S), Len(s) = Len(t),
         \A k \in 1 .. Len(s) : s[k] = t[k]
  PROVE  s = t
  BY SeqEqual

\* The pending run is a sequence of events with PendingCount entries.
PendingIsSeq ==
  /\ Pending \in Seq(Event)
  /\ Len(Pending) = PendingCount
  /\ PendingCount \in Nat
  /\ \A k \in 1 .. PendingCount : Pending[k] = buf[PendingSlot(k)].ev

LEMMA PendingSeq == IInv => PendingIsSeq
<1> SUFFICES ASSUME IInv PROVE PendingIsSeq
  OBVIOUS
<1>1. PendingCount \in Nat
  BY RingSizeAssumption DEF IInv, TypeOK, PendingCount, Slots
<1> QED BY <1>1, IsASeq DEF IInv, PendingAreEvents, Pending, PendingIsSeq

\* A posted event is appended to the abstract queue, which has room for it.
LEMMA PostIsPut ==
  ASSUME IInv, IInv', NEW e \in Event, Post(e)
  PROVE  Fifo!Put(e)
<1>1. /\ Pending \in Seq(Event) /\ Len(Pending) = PendingCount
      /\ PendingCount \in Nat
      /\ \A k \in 1 .. PendingCount : Pending[k] = buf[PendingSlot(k)].ev
  BY PendingSeq DEF PendingIsSeq
<1>2. /\ Pending' \in Seq(Event) /\ Len(Pending') = PendingCount'
      /\ \A k \in 1 .. PendingCount' : Pending'[k] = (buf[PendingSlot(k)].ev)'
  <2>1. PendingIsSeq'
    BY PendingSeq, PTL
  <2> QED BY <2>1 DEF PendingIsSeq
<1>3. /\ PendingCount' = PendingCount + 1
      /\ \A k \in 1 .. PendingCount : PendingSlot(k)' = PendingSlot(k)
      /\ \A k \in Nat : k = PendingCount + 1 => PendingSlot(k)' = enq
      /\ PendingCount + 1 <= RingSize - 1
  BY PostPending DEF IInv
<1>4. Append(Pending, e) \in Seq(Event) /\ Len(Append(Pending, e)) = PendingCount + 1
  BY <1>1
<1>5. ASSUME NEW k \in 1 .. PendingCount + 1 PROVE Pending'[k] = Append(Pending, e)[k]
  <2>1. CASE k = PendingCount + 1
    BY <1>1, <1>2, <1>3, <2>1 DEF IInv, TypeOK, Post
  <2>2. CASE k # PendingCount + 1
    <3>1. k \in 1 .. PendingCount
      BY <1>1, <2>2
    <3>2. PendingSlot(k) # enq /\ PendingSlot(k) \in Slots
      BY <3>1, PendingSlotNotEnq, PendingSlotType DEF IInv
    <3>3. Pending'[k] = buf'[PendingSlot(k)].ev
      BY <1>2, <1>3, <3>1
    <3>4. Append(Pending, e)[k] = buf[PendingSlot(k)].ev
      BY <1>1, <3>1
    <3> QED BY <3>2, <3>3, <3>4 DEF IInv, TypeOK, Post
  <2> QED BY <2>1, <2>2
<1>6. Pending' = Append(Pending, e)
  BY <1>2, <1>3, <1>4, <1>5, SameSeq
<1>7. Len(Pending) < RingSize - 1
  BY <1>1, <1>3, RingSizeAssumption
<1> QED BY <1>6, <1>7 DEF Fifo!Put, Post

\* Moving ERDP takes the oldest event out of the abstract queue.
LEMMA AdvanceIsTake ==
  ASSUME IInv, IInv', write_event_ring
  PROVE  Fifo!Take
<1>1. /\ Pending \in Seq(Event) /\ Len(Pending) = PendingCount
      /\ \A k \in 1 .. PendingCount : Pending[k] = buf[PendingSlot(k)].ev
  BY PendingSeq DEF PendingIsSeq
<1>2. /\ Pending' \in Seq(Event) /\ Len(Pending') = PendingCount'
      /\ \A k \in 1 .. PendingCount' : Pending'[k] = (buf[PendingSlot(k)].ev)'
  <2>1. PendingIsSeq'
    BY PendingSeq, PTL
  <2> QED BY <2>1 DEF PendingIsSeq
<1>3. /\ PendingCount \in Nat \ {0}
      /\ PendingCount' = PendingCount - 1
      /\ PendingSlot(1) = erdp
      /\ \A k \in 1 .. PendingCount - 1 : PendingSlot(k)' = PendingSlot(k + 1)
  BY TakePending DEF IInv
<1>4. Pending # <<>>
  BY <1>1, <1>3
<1>5. got' = Head(Pending)
  BY <1>1, <1>3, <1>4 DEF write_event_ring
<1>6. Tail(Pending) \in Seq(Event) /\ Len(Tail(Pending)) = PendingCount - 1
  BY <1>1, <1>4
<1>7. ASSUME NEW k \in 1 .. PendingCount - 1 PROVE Pending'[k] = Tail(Pending)[k]
  <2>1. Pending'[k] = buf[PendingSlot(k + 1)].ev
    BY <1>2, <1>3 DEF write_event_ring
  <2>2. k + 1 \in 1 .. PendingCount
    BY <1>3
  <2>3. Tail(Pending)[k] = Pending[k + 1]
    BY <1>1, <1>4, <1>6
  <2> QED BY <1>1, <2>1, <2>2, <2>3
<1>8. Pending' = Tail(Pending)
  BY <1>2, <1>3, <1>6, <1>7, SameSeq
<1> QED BY <1>4, <1>5, <1>8 DEF Fifo!Take

\* The event ring implements the bounded first-in first-out queue: what the
\* controller posts reaches the handlers once, in order and unaltered.
THEOREM ImplementsFifo == Spec => DeliversInOrder
<1>1. Init => Fifo!Init
  <2> SUFFICES ASSUME Init PROVE Pending = <<>>
    BY DEF Fifo!Init
  <2>1. PendingCount = 0
    BY DEF Init, PendingCount
  <2>2. IInv
    BY InitIInv
  <2> QED BY <2>1, <2>2, PendingSeq DEF PendingIsSeq
<1>2. IInv /\ IInv' /\ [Next]_vars => [Fifo!Next]_<<Pending, got>>
  <2> SUFFICES ASSUME IInv, IInv', [Next]_vars
               PROVE  Fifo!Next \/ UNCHANGED <<Pending, got>>
    OBVIOUS
  <2>1. CASE get_eventring \/ EndOfHandler \/ UNCHANGED vars
    BY <2>1 DEF get_eventring, EndOfHandler, vars, Pending, PendingCount, PendingSlot
  <2>2. CASE write_event_ring
    BY <2>2, AdvanceIsTake DEF Fifo!Next
  <2>3. ASSUME NEW e \in Event, Post(e) PROVE Fifo!Next
    BY <2>3, PostIsPut DEF Fifo!Next
  <2> QED BY <2>1, <2>2, <2>3 DEF Next, Kernel
<1> QED BY <1>1, <1>2, IInvHolds, PTL DEF Spec, DeliversInOrder, Fifo!Spec
============================================================================
