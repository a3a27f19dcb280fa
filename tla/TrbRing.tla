------------------------------ MODULE TrbRing ------------------------------
(***************************************************************************)
(* A ring the kernel produces for (command ring, transfer rings):          *)
(* write_ring and write_ring_static of kernel/xhci.c against a controller  *)
(* that fetches TRBs whenever it likes once a doorbell has rung.           *)
(*                                                                         *)
(* write_ring_static stores words 0 to 2 of a TRB and then word 3, which   *)
(* holds the type and the cycle bit; the controller can look in between,   *)
(* so the two halves are separate steps.  write_ring never checks whether  *)
(* the slot is free.  For the command ring and the control endpoints the   *)
(* callers keep the number of outstanding TRBs below the ring's size       *)
(* (Limited = TRUE); read_usb_keyboard just keeps writing the same TRB     *)
(* (Limited = FALSE).                                                      *)
(*                                                                         *)
(* A completion event carries a pointer to the TRB it is about, and the    *)
(* handlers read that TRB's type from the ring when they get to the event: *)
(* the slot must still hold it then.  The event ring is a FIFO here, which *)
(* is what EventRing is shown to be.                                       *)
(***************************************************************************)
EXTENDS Naturals, Sequences

CONSTANTS RingSize,    \* ring->ring_size, 256; the last slot is the link TRB
          Trb,         \* TRBs the callers write
          Zero, Link,  \* what new_ring leaves, and the link TRB
          MaxTd,       \* TRBs a caller writes before it rings the doorbell: 3
          MaxEvents,   \* room for completion events
          Limited      \* do the callers bound the outstanding TRBs?

ASSUME RingSizeAssumption == RingSize \in Nat /\ RingSize >= 3
ASSUME MaxTdAssumption == MaxTd \in Nat \ {0}
ASSUME MaxEventsAssumption == MaxEvents \in Nat
ASSUME TrbAssumption == Zero # Link /\ Zero \notin Trb /\ Link \notin Trb
ASSUME LimitedAssumption == Limited \in BOOLEAN

VARIABLES buf,         \* ring->buf: words 0-2, the type in word 3, cycle bit
          ring_index,  \* ring->ring_index
          cycle_bit,   \* ring->cycle_bit
          pc,          \* where write_ring is
          data,        \* the TRB being written
          left,        \* TRBs of the current TD still to be written
          active,      \* controller: a doorbell rang and work may remain
          deq, ccs,    \* controller: dequeue pointer and cycle state
          fetched,     \* controller: the TRB fetched last
          events       \* completion events the kernel has not handled

kernelVars == <<ring_index, cycle_bit, pc, data, left>>
vars == <<buf, ring_index, cycle_bit, pc, data, left, active, deq, ccs, fetched, events>>

Slots == 0 .. RingSize - 1
LinkSlot == RingSize - 1

\* What fits: with one TRB more, a controller that still has the link TRB of
\* the previous lap before it would find that link overwritten by the next
\* one, with the other cycle bit, and would never move again.
Room == RingSize - 2

Words == Trb \cup {Zero, Link}

TypeOK ==
  /\ buf \in [Slots -> [body : Words, type : Words, c : {0, 1}]]
  /\ ring_index \in Slots
  /\ cycle_bit \in {0, 1}
  /\ pc \in {"idle", "body", "control", "link", "linkcontrol", "written"}
  /\ data \in Trb \cup {Zero}
  /\ left \in 0 .. MaxTd
  /\ active \in BOOLEAN
  /\ deq \in Slots
  /\ ccs \in {0, 1}
  /\ fetched \in [body : Words, type : Words]
  /\ events \in Seq([ptr : Slots, type : Words])

\* new_ring, and the controller pointed at the page with cycle state 1
\* (CRCR, or tr_pointer in an endpoint context).
Init ==
  /\ buf = [i \in Slots |-> [body |-> Zero, type |-> Zero, c |-> 0]]
  /\ ring_index = 0
  /\ cycle_bit = 1
  /\ pc = "idle"
  /\ data = Zero
  /\ left = 0
  /\ active = FALSE
  /\ deq = 0
  /\ ccs = 1
  /\ fetched = [body |-> Zero, type |-> Zero]
  /\ events = <<>>

\* TRBs written and not fetched, meaningful while the callers keep to their
\* limit: the producer is at most one lap ahead.
QueuedCount ==
  IF cycle_bit = ccs THEN ring_index - deq ELSE (LinkSlot - deq) + ring_index

\* TRBs fetched since the oldest one whose completion is not yet handled.
FetchedCount ==
  IF events = <<>> THEN 0
  ELSE IF Head(events).ptr < deq THEN deq - Head(events).ptr
  ELSE (LinkSlot - Head(events).ptr) + deq

----------------------------------------------------------------------------
(* The kernel: get_descriptor, the command writers, read_usb_keyboard.     *)

\* Mutant: a caller writes whatever is outstanding.
BeginTd_noLimit(n) ==
  /\ pc = "idle"
  /\ left' = n
  /\ pc' = "body"
  /\ UNCHANGED <<buf, ring_index, cycle_bit, data, active, deq, ccs, fetched, events>>

\* A caller starts a group of n TRBs that end with one doorbell.
BeginTd(n) ==
  /\ pc = "idle"
  /\ Limited => QueuedCount + FetchedCount + n <= Room
  /\ left' = n
  /\ pc' = "body"
  /\ UNCHANGED <<buf, ring_index, cycle_bit, data, active, deq, ccs, fetched, events>>

\* Mutant: the cycle bit is stored with the first words.
WriteBody_cycleFirst(t) ==
  /\ pc = "body"
  /\ data' = t
  /\ buf' = [buf EXCEPT ![ring_index].body = t, ![ring_index].c = cycle_bit]
  /\ pc' = "control"
  /\ UNCHANGED <<ring_index, cycle_bit, left, active, deq, ccs, fetched, events>>

\* Mutant: the control word is stored first, the other words are forgotten.
WriteBody_controlOnly(t) ==
  /\ pc = "body"
  /\ data' = t
  /\ buf' = [buf EXCEPT ![ring_index].type = t, ![ring_index].c = cycle_bit]
  /\ pc' = "control"
  /\ UNCHANGED <<ring_index, cycle_bit, left, active, deq, ccs, fetched, events>>

\* write_ring_static, words 0 to 2.
WriteBody(t) ==
  /\ pc = "body"
  /\ data' = t
  /\ buf' = [buf EXCEPT ![ring_index].body = t]
  /\ pc' = "control"
  /\ UNCHANGED <<ring_index, cycle_bit, left, active, deq, ccs, fetched, events>>

\* write_ring_static, word 3; then ring_index++ and the test for the link.
WriteControl ==
  /\ pc = "control"
  /\ buf' = [buf EXCEPT ![ring_index].type = data, ![ring_index].c = cycle_bit]
  /\ ring_index' = ring_index + 1
  /\ left' = left - 1
  /\ pc' = IF ring_index + 1 = RingSize - 1 THEN "link" ELSE "written"
  /\ UNCHANGED <<cycle_bit, data, active, deq, ccs, fetched, events>>

\* The link TRB back to the start of the page, words 0 to 2 ...
WriteLinkBody ==
  /\ pc = "link"
  /\ buf' = [buf EXCEPT ![ring_index].body = Link]
  /\ pc' = "linkcontrol"
  /\ UNCHANGED <<ring_index, cycle_bit, data, left, active, deq, ccs, fetched, events>>

\* Mutant: the cycle bit is not flipped behind the link TRB.
WriteLinkControl_noFlip ==
  /\ pc = "linkcontrol"
  /\ buf' = [buf EXCEPT ![ring_index].type = Link, ![ring_index].c = cycle_bit]
  /\ ring_index' = 0
  /\ pc' = "written"
  /\ UNCHANGED <<cycle_bit, data, left, active, deq, ccs, fetched, events>>

\* ... and word 3, with the cycle bit of the lap that ends here.
WriteLinkControl ==
  /\ pc = "linkcontrol"
  /\ buf' = [buf EXCEPT ![ring_index].type = Link, ![ring_index].c = cycle_bit]
  /\ ring_index' = 0
  /\ cycle_bit' = 1 - cycle_bit
  /\ pc' = "written"
  /\ UNCHANGED <<data, left, active, deq, ccs, fetched, events>>

\* The caller writes its next TRB.
Continue ==
  /\ pc = "written"
  /\ left > 0
  /\ pc' = "body"
  /\ UNCHANGED <<buf, ring_index, cycle_bit, data, left, active, deq, ccs, fetched, events>>

\* Mutant: the doorbell is forgotten.
write_xhci_doorbell_none ==
  /\ pc = "written"
  /\ left = 0
  /\ pc' = "idle"
  /\ UNCHANGED <<buf, ring_index, cycle_bit, data, left, active, deq, ccs, fetched, events>>

\* The caller is done: ring the doorbell.
write_xhci_doorbell ==
  /\ pc = "written"
  /\ left = 0
  /\ active' = TRUE
  /\ pc' = "idle"
  /\ UNCHANGED <<buf, ring_index, cycle_bit, data, left, deq, ccs, fetched, events>>

\* A handler takes the oldest completion event; it reads buf[ptr] now.
HandleEvent ==
  /\ pc = "idle"
  /\ events # <<>>
  /\ events' = Tail(events)
  /\ UNCHANGED <<buf, kernelVars, active, deq, ccs, fetched>>

Writing == (\E t \in Trb : WriteBody(t)) \/ WriteControl \/ WriteLinkBody
           \/ WriteLinkControl \/ Continue \/ write_xhci_doorbell

----------------------------------------------------------------------------
(* The controller (external).                                              *)

Owned == buf[deq].c = ccs

\* Fetch a TRB, advance, and report it if its interrupt-on-completion flag
\* (or its being a command) asks for it.
Fetch(report) ==
  /\ active
  /\ Owned
  /\ buf[deq].type # Link
  /\ report => Len(events) < MaxEvents
  /\ fetched' = [body |-> buf[deq].body, type |-> buf[deq].type]
  /\ deq' = (deq + 1) % RingSize
  /\ events' = IF report THEN Append(events, [ptr |-> deq, type |-> buf[deq].type])
                         ELSE events
  /\ UNCHANGED <<buf, kernelVars, active, ccs>>

\* A link TRB with the toggle-cycle flag leads back to slot 0.
FollowLink ==
  /\ active
  /\ Owned
  /\ buf[deq].type = Link
  /\ deq' = 0
  /\ ccs' = 1 - ccs
  /\ UNCHANGED <<buf, kernelVars, active, fetched, events>>

\* Nothing more to fetch: wait for the next doorbell.
GoIdle ==
  /\ active
  /\ ~Owned
  /\ active' = FALSE
  /\ UNCHANGED <<buf, kernelVars, deq, ccs, fetched, events>>

Controller == (\E report \in BOOLEAN : Fetch(report)) \/ FollowLink \/ GoIdle

Next == (\E n \in 1 .. MaxTd : BeginTd(n)) \/ Writing \/ HandleEvent \/ Controller

Spec == Init /\ [][Next]_vars

\* write_ring and its callers run to the doorbell without waiting, handlers
\* are called as long as events are queued, and the controller works through
\* what a doorbell announced.
FairSpec == Spec /\ WF_vars(Writing) /\ WF_vars(HandleEvent) /\ WF_vars(Controller)

----------------------------------------------------------------------------
\* The slot of the k-th queued TRB.
QueuedSlot(k) ==
  IF deq + k <= LinkSlot THEN deq + k - 1 ELSE (deq + k - 1) - LinkSlot

Queued == [k \in 1 .. QueuedCount |->
             [body |-> buf[QueuedSlot(k)].body, type |-> buf[QueuedSlot(k)].type]]

Fifo == INSTANCE TrbFifo WITH Entry <- {[body |-> t, type |-> t] : t \in Trb},
                              Capacity <- Room,
                              q <- Queued, out <- fetched

\* As long as the callers keep to the limit, the ring is a FIFO: the
\* controller fetches the TRBs written, whole, once and in order, across the
\* link TRB and the flips of the cycle bit.
FetchesInOrder == Fifo!Spec

\* The controller never fetches a TRB whose control word belongs to another
\* TRB than the rest of it, nor one that was never written.  This must hold
\* even for the keyboard's ring, which is written without any limit.
NoTornFetch ==
  fetched.type # Zero => fetched.type \in Trb /\ fetched.body = fetched.type

\* When a handler gets to a completion event, the TRB the event points at is
\* still the one that completed, so its type tells what the event is about.
IssuerStillThere == \A i \in DOMAIN events : buf[events[i].ptr].type = events[i].type

\* Every TRB a caller has written is fetched in the end, with no doorbell
\* lost: it does not stay in its slot once the caller rang.
EveryTrbFetched ==
  \A i \in Slots : (\E k \in 1 .. QueuedCount : QueuedSlot(k) = i)
                     ~> ~(\E k \in 1 .. QueuedCount : QueuedSlot(k) = i)

\* The slot the controller looks at is its own, and it looks.
Supplied == active /\ Owned
============================================================================
