----------------------------- MODULE EventRing -----------------------------
(***************************************************************************)
(* The xHCI event ring of kernel/xhci.c: the controller posts event TRBs   *)
(* into a one-segment ring, the kernel polls it (er_isQueued), takes an    *)
(* entry (get_eventring) and hands the slot back by moving the dequeue     *)
(* pointer register ERDP (write_event_ring).  There is no lock: the two    *)
(* sides agree through the cycle bit of each TRB and through ERDP.         *)
(*                                                                         *)
(* get_eventring returns a POINTER to the TRB after it has already moved   *)
(* ERDP past it, so the handlers read the slot when the controller may     *)
(* consider it its own again.  The step between write_event_ring and the   *)
(* end of the handler is therefore a state of its own here ("use").        *)
(*                                                                         *)
(* Pointers into the ring are slot indices; ERDP + 0 and ERDP + 4 are one  *)
(* register because the ring is one page and the high half never changes.  *)
(***************************************************************************)
EXTENDS Naturals, Sequences

CONSTANTS RingSize,   \* event_ring.ring_size, 4096 / sizeof(normal_trb) = 256
          Event,      \* contents of event TRBs
          NoEvent     \* the zeroes new_ring leaves in a slot

ASSUME RingSizeAssumption == RingSize \in Nat /\ RingSize >= 2
ASSUME NoEventAssumption == NoEvent \notin Event

VARIABLES buf,        \* event_ring.buf: slot -> cycle bit and contents
          cycle_bit,  \* event_ring.cycle_bit, the value that marks a new event
          erdp,       \* ERDP(0): the slot the kernel looks at next
          trb,        \* the pointer get_eventring returned last
          pc,         \* where the kernel is
          enq, pcs,   \* the controller's enqueue pointer and cycle state
          got         \* history: what the slot held when ERDP left it

vars == <<buf, cycle_bit, erdp, trb, pc, enq, pcs, got>>

Slots == 0 .. RingSize - 1

\* The slot after slot i of a one-segment ring.
NextSlot(i) == IF i = RingSize - 1 THEN 0 ELSE i + 1

\* A cycle bit flips each time its owner passes the end of the ring.
FlipAtEnd(bit, i) == IF i = RingSize - 1 THEN 1 - bit ELSE bit

TypeOK ==
  /\ buf \in [Slots -> [c : {0, 1}, ev : Event \cup {NoEvent}]]
  /\ cycle_bit \in {0, 1}
  /\ erdp \in Slots
  /\ trb \in Slots
  /\ pc \in {"poll", "taken", "use"}
  /\ enq \in Slots
  /\ pcs \in {0, 1}
  /\ got \in Event \cup {NoEvent}

\* new_ring zeroes the page and starts with cycle bit 1; init_xhci points
\* ERSTBA and ERDP at the page and the controller starts there as well.
Init ==
  /\ buf = [i \in Slots |-> [c |-> 0, ev |-> NoEvent]]
  /\ cycle_bit = 1
  /\ erdp = 0
  /\ trb = 0
  /\ pc = "poll"
  /\ enq = 0
  /\ pcs = 1
  /\ got = NoEvent

er_isQueued == buf[erdp].c = cycle_bit

----------------------------------------------------------------------------
(* The kernel. *)

\* Mutant: the slot is taken without looking at its cycle bit.
get_eventring_noCheck ==
  /\ pc = "poll"
  /\ trb' = erdp
  /\ pc' = "taken"
  /\ UNCHANGED <<buf, cycle_bit, erdp, enq, pcs, got>>

\* First half of get_eventring, entered only when the caller's er_isQueued
\* was true: remember the slot at ERDP, wait until it holds a new event.
get_eventring ==
  /\ pc = "poll"
  /\ er_isQueued
  /\ trb' = erdp
  /\ pc' = "taken"
  /\ UNCHANGED <<buf, cycle_bit, erdp, enq, pcs, got>>

\* Mutant: ERDP moves two slots ahead.
write_event_ring_two ==
  /\ pc = "taken"
  /\ erdp' = NextSlot(NextSlot(erdp))
  /\ cycle_bit' = FlipAtEnd(FlipAtEnd(cycle_bit, erdp), NextSlot(erdp))
  /\ pc' = "use"
  /\ got' = buf[erdp].ev
  /\ UNCHANGED <<buf, trb, enq, pcs>>

\* Mutant: the expected cycle bit is never flipped.
write_event_ring_noFlip ==
  /\ pc = "taken"
  /\ erdp' = NextSlot(erdp)
  /\ pc' = "use"
  /\ got' = buf[erdp].ev
  /\ UNCHANGED <<buf, cycle_bit, trb, enq, pcs>>

\* Second half: advance ERDP, wrapping to the start of the page and flipping
\* the expected cycle bit at its end; the slot now belongs to the controller.
write_event_ring ==
  /\ pc = "taken"
  /\ erdp' = NextSlot(erdp)
  /\ cycle_bit' = FlipAtEnd(cycle_bit, erdp)
  /\ pc' = "use"
  /\ got' = buf[erdp].ev
  /\ UNCHANGED <<buf, trb, enq, pcs>>

\* The caller is done with *trb and polls again.
EndOfHandler ==
  /\ pc = "use"
  /\ pc' = "poll"
  /\ UNCHANGED <<buf, cycle_bit, erdp, trb, enq, pcs, got>>

Kernel == get_eventring \/ write_event_ring \/ EndOfHandler

----------------------------------------------------------------------------
(* The controller (external): it posts at its enqueue pointer and regards  *)
(* the ring as full when one more event would make the pointers meet.      *)

Post(e) ==
  /\ NextSlot(enq) # erdp
  /\ buf' = [buf EXCEPT ![enq] = [c |-> pcs, ev |-> e]]
  /\ enq' = NextSlot(enq)
  /\ pcs' = FlipAtEnd(pcs, enq)
  /\ UNCHANGED <<cycle_bit, erdp, trb, pc, got>>

Next == Kernel \/ \E e \in Event : Post(e)

Spec == Init /\ [][Next]_vars

\* The kernel's main loop never stops polling: every pass of
\* usb_process_events or read_usb_keyboard comes back to er_isQueued.
FairSpec == Spec /\ WF_vars(Kernel)

----------------------------------------------------------------------------
(* The entries between ERDP and the controller's enqueue pointer. *)

PendingCount == IF erdp <= enq THEN enq - erdp ELSE (RingSize - erdp) + enq

\* The slot of the k-th pending event.
PendingSlot(k) ==
  IF erdp + k <= RingSize THEN erdp + k - 1 ELSE (erdp + k - 1) - RingSize

Pending == [k \in 1 .. PendingCount |-> buf[PendingSlot(k)].ev]

Fifo == INSTANCE TrbFifo WITH Entry <- Event, Capacity <- RingSize - 1,
                              q <- Pending, out <- got

\* The event ring is a first-in first-out queue of RingSize - 1 entries: no
\* event the controller posts is lost, doubled, reordered or altered on its
\* way through er_isQueued and get_eventring.
DeliversInOrder == Fifo!Spec

\* While a handler of usb_process_events or read_usb_keyboard still reads
\* the TRB get_eventring returned, the controller has not overwritten it,
\* although ERDP has already released the slot.
HeldTrbIntact == pc = "use" => buf[trb].ev = got

\* er_isQueued is true exactly when an event is pending: the cycle bits of
\* stale entries are never mistaken for new events, nor new ones for stale.
QueuedIffPending == pc = "poll" => (er_isQueued <=> PendingCount > 0)

\* Every posted event is eventually in a handler's hands.
EveryEventTaken ==
  \A i \in Slots :
    (\E k \in 1 .. PendingCount : PendingSlot(k) = i) ~> (pc = "use" /\ trb = i)
============================================================================
