---------------------------- MODULE DeviceParts ----------------------------
(***************************************************************************)
(* The parts of the device code: init_pci, init_xhci, vMain's input loop   *)
(* with and without a keyboard, and the ring the loop writes.  They share  *)
(* no state while they run; each is an instance of its module, with        *)
(* variables of its own and the constants still open.                      *)
(***************************************************************************)
EXTENDS Integers, Sequences

CONSTANT PciMachines                                                \* PciScan
CONSTANTS Reports, Transfers, Strays                                \* Keyboard
CONSTANTS KeyBufs, Control, TrbsPerPage, MaxTrbs                    \* NullRing
CONSTANTS CapLists, ScratchCounts, PageSizes, PtrsPerPage, Pages    \* InitXhci
CONSTANTS normal, Zero, Link,   \* the keyboard's TRB, none, the link TRB
          RingSize, MaxEvents                                       \* TrbRing

VARIABLES machine, func, dev, scan, mastering, running, driver
VARIABLES queued, sent, strays, keybuf, events, input, trb, key, echo, failed
VARIABLES keybufAt, controller, nullBuf, ring_size, nullIndex, mapped
VARIABLES init, off, caps, scratchpads, pagesize, hch, hcrst, cnr, rs, reg, used, owner,
          buffers, dcbaa0
VARIABLES buf, ring_index, cycle_bit, writer, data, left, active, deq, ccs, fetched, completions

Pci == INSTANCE PciScan WITH pc <- scan, Machines <- PciMachines
Kbd == INSTANCE Keyboard WITH pc <- input, RingSize <- Transfers
Null == INSTANCE NullRing WITH keybuf <- keybufAt, buf <- nullBuf, ring_index <- nullIndex
Xhci == INSTANCE InitXhci WITH pc <- init
\* The one TRB read_usb_keyboard writes over and over, without any limit.
Ring == INSTANCE TrbRing WITH pc <- writer, events <- completions, Trb <- {normal},
                              MaxTd <- 1, Limited <- FALSE

ASSUME PciAssumption == Pci!MachinesAssumption
ASSUME KeyboardAssumption == Kbd!BoundsAssumption
ASSUME NullAssumption == Null!KeyBufsAssumption
ASSUME XhciAssumption == Xhci!SizesAssumption
ASSUME RingAssumption ==
  RingSize \in Nat /\ RingSize >= 3 /\ MaxEvents \in Nat
    /\ Zero # Link /\ normal # Zero /\ normal # Link

pciVars == <<machine, func, dev, scan, mastering, running, driver>>
kbdVars == <<queued, sent, strays, keybuf, events, input, trb, key, echo, failed>>
nullVars == <<keybufAt, controller, nullBuf, ring_size, nullIndex, mapped>>
xhciVars == <<init, off, caps, scratchpads, pagesize, hch, hcrst, cnr, rs, reg, used, owner,
              buffers, dcbaa0>>
ringVars == <<buf, ring_index, cycle_bit, writer, data, left, active, deq, ccs, fetched, completions>>

----------------------------------------------------------------------------

\* init_pci's scan brings up, once, the controllers in its reach that are
\* function 0 of their device, never one at another function, and meets
\* init_xhci's panic only behind a multifunction bridge (PciScan).
FirstFunctionsOnce == Pci!FirstFunctionsOnce

\* init_xhci starts the controller with every register set and a scratchpad
\* array in memory of its own (InitXhci).
StartsConfigured == Xhci!StartsConfigured

\* read_usb_keyboard's character is not older than its event (Keyboard).
EchoNotStale == Kbd!EchoNotStale

\* Without a keyboard read_usb_keyboard stays in two areas if there is a
\* controller, and maps page after page if there is none (NullRing).
NullRingFootprint == Null!NullRingFootprint

\* Although read_usb_keyboard writes its ring without any limit, the
\* controller never fetches a torn TRB (TrbRing).
NoTornFetch == Ring!NoTornFetch
============================================================================
