------------------------------ MODULE NullRing ------------------------------
(***************************************************************************)
(* read_usb_keyboard (kernel/usb_keyboard.c) when no keyboard was found:   *)
(* s_endpoint_ring is NULL, so write_ring (kernel/xhci.c) finds its        *)
(* struct ring in the page at address 0, which do_page_fault maps and      *)
(* clears on the first access (Paging), and each TRB goes where that       *)
(* structure says.                                                         *)
(*                                                                         *)
(* Addresses count in TRBs of 16 bytes.  The structure's buf, cycle_bit    *)
(* and ring_size are in the first one, ring_index is in the second.  The   *)
(* TRB of read_usb_keyboard, written over the first, puts the physical     *)
(* address of keybuf into buf and its control word into ring_size; written *)
(* over the second, it puts keybuf's address in bytes into ring_index.     *)
(*                                                                         *)
(* The doorbell rung afterwards is number 0, with value 0.  If init_xhci   *)
(* found a controller, that is the command ring's, which is empty.  If it  *)
(* found none, mmio_base and xhci_doorbell are 0 and the store goes to     *)
(* address 0: it clears the low half of buf (keybuf is below 4 GB, so that *)
(* the other half is 0 as well).                                           *)
(*                                                                         *)
(* Left out: the cycle bit, which only changes TRBs nobody reads, and the  *)
(* events.  With a controller nothing posts any for this ring; without one *)
(* er_isQueued takes ERDP from 0x38 of page 0 and looks for events in      *)
(* physical memory from address 0 on; read_usb_keyboard at most prints     *)
(* what it finds there, and writes ERDP back to where neither the          *)
(* structure nor a TRB is.                                                 *)
(***************************************************************************)
EXTENDS Integers

CONSTANTS KeyBufs,       \* where the linker may have put keybuf (physical)
          Control,       \* control word of the TRB: type 1, ISP, IOC
          TrbsPerPage,
          MaxTrbs        \* TRBs of a walk without end that are looked at

TrbSize == 16   \* bytes

\* keybuf lies behind 1 MB, and the index is a 32-bit integer.
KeyBufsAssumption ==
  /\ Control \in Nat \ {0, 1, 2} /\ TrbsPerPage \in Nat \ {0, 1} /\ MaxTrbs \in Nat
  /\ KeyBufs \subseteq Nat
  /\ \A k \in KeyBufs : k > Control /\ TrbSize * k + MaxTrbs < 2147483647

VARIABLES keybuf,                       \* V2P(keybuf)
          controller,                   \* did init_pci find a controller?
          buf, ring_size, ring_index,   \* the structure at address 0
          mapped                        \* pages do_page_fault had to map

vars == <<keybuf, controller, buf, ring_size, ring_index, mapped>>

Page(trb) == trb \div TrbsPerPage

TypeOK ==
  /\ keybuf \in KeyBufs /\ controller \in BOOLEAN
  /\ {buf, ring_size, ring_index} \subseteq Nat
  /\ mapped \subseteq Nat

\* Page 0 is mapped and zero once s_endpoint_ring->buf has been read.
Init ==
  /\ keybuf \in KeyBufs /\ controller \in BOOLEAN
  /\ buf = 0 /\ ring_size = 0 /\ ring_index = 0
  /\ mapped = {0}

\* The structure after a TRB has been written to address trb.
Overwritten(trb) ==
  [buf |-> IF trb = 0 THEN keybuf ELSE buf,
   ring_size |-> IF trb = 0 THEN Control ELSE ring_size,
   ring_index |-> IF trb = 1 THEN TrbSize * keybuf ELSE ring_index]

\* Mutant: the link is one TRB further, behind the end.
AtLink_late(size, index) == index = size + 1
AtLink(size, index) == index = size - 1

Target == buf + ring_index

\* The ring's address after write_xhci_doorbell(0, 0).
Doorbell(b) == IF controller THEN b ELSE 0

\* Where the TRBs of a machine without a controller go after two calls.
FarTrb == TrbSize * keybuf + 1

\* One call: write_ring writes the TRB, moves the index, and at the end writes
\* the link TRB and starts again, where every field is read again after a
\* store; then the doorbell is rung.
read_usb_keyboard ==
  /\ controller \/ ring_index < FarTrb + MaxTrbs
  /\ LET s == Overwritten(Target)
         index == s.ring_index + 1
         link == AtLink(s.ring_size, index)
     IN  /\ buf' = Doorbell(s.buf) /\ ring_size' = s.ring_size
         /\ ring_index' = IF link THEN 0 ELSE index
         /\ mapped' = mapped \cup {Page(Target)} \cup (IF link THEN {Page(s.buf + index)} ELSE {})
  /\ UNCHANGED <<keybuf, controller>>

\* MaxTrbs is reached: the code goes on, the model does not.
OutOfSight == ~controller /\ ring_index = FarTrb + MaxTrbs /\ UNCHANGED vars

\* vMain polls for ever.
Next == read_usb_keyboard \/ OutOfSight
Spec == Init /\ [][Next]_vars

----------------------------------------------------------------------------

\* What demand paging maps while vMain polls without a keyboard.  With a
\* controller the TRBs stay, for ever, within page 0 and one ring's length
\* behind keybuf's address.  Without one the ring at address 0 has no end any
\* more: the third TRB goes to 16 times keybuf's address, each later one
\* behind the one before, and every page they reach is taken from memory.
NullRingFootprint ==
  IF controller
  THEN mapped \subseteq {0} \cup Page(keybuf) .. Page(keybuf + Control - 1)
  ELSE mapped = {0} \cup {Page(trb) : trb \in FarTrb .. ring_index - 1}
=============================================================================
