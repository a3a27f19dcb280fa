------------------------------ MODULE InitXhci ------------------------------
(***************************************************************************)
(* init_xhci (kernel/xhci.c): the capability walk, the controller's reset, *)
(* the registers and the memory it is given, and its start, against a      *)
(* controller that takes its time for each.                                *)
(*                                                                         *)
(* Memory is counted in pages in the order alloc_mem hands them out, and   *)
(* runs out after Pages of them.  A register holds 0 (what a reset leaves) *)
(* or the page it was set to.  Offsets of capabilities count in dwords;    *)
(* caps is what reads at an offset give, capability or not, 0 elsewhere.   *)
(***************************************************************************)
EXTENDS Integers

CONSTANTS CapLists,      \* offset -> [id, next, high]: bits 0-7, 8-15 and 16-23
          ScratchCounts, \* numbers of scratchpads the controller may ask for
          PageSizes,     \* PAGESIZE: 1 is 4096
          PtrsPerPage,   \* 512
          Pages          \* pages alloc_mem can hand out

SizesAssumption ==
  ScratchCounts \subseteq Nat /\ PtrsPerPage \in Nat \ {0} /\ Pages \in Nat

VARIABLES pc,        \* the next part of init_xhci
          off,       \* offset in the capability walk
          caps, scratchpads, pagesize,          \* what the controller has
          hch, hcrst, cnr, rs,                  \* USBSTS and USBCMD
          reg,       \* CONFIG, DCBAAP, CRCR, ERSTSZ, ERDP, ERSTBA
          used,      \* pages handed out
          owner,     \* page -> what the driver uses it for
          buffers,   \* scratchpad buffers allocated
          dcbaa0     \* scratchpad_array, which device_contexts[0] is set to

vars == <<pc, off, caps, scratchpads, pagesize, hch, hcrst, cnr, rs, reg, used, owner,
          buffers, dcbaa0>>
device == <<caps, scratchpads, pagesize>>
status == <<hch, hcrst, cnr, rs>>
memory == <<used, owner, buffers, dcbaa0>>

Registers == {"CONFIG", "DCBAAP", "CRCR", "ERSTSZ", "ERDP", "ERSTBA"}
NoReg == [r \in Registers |-> 0]

\* The firmware has stopped the controller, or it has not.
Init ==
  /\ pc = "caps" /\ off = 0
  /\ caps \in CapLists /\ scratchpads \in ScratchCounts /\ pagesize \in PageSizes
  /\ hch \in BOOLEAN /\ hcrst = FALSE /\ cnr = FALSE /\ rs = ~hch
  /\ reg = NoReg
  /\ used = 0 /\ owner = [p \in 1 .. Pages |-> {}] /\ buffers = 0 /\ dcbaa0 = 0

----------------------------------------------------------------------------
(* The controller (external).                                              *)

\* A reset takes back every register; afterwards the controller is still
\* not ready for a while.
ResetEnds ==
  /\ hcrst
  /\ hcrst' = FALSE /\ cnr' = TRUE /\ reg' = NoReg /\ rs' = FALSE
  /\ UNCHANGED <<pc, off, device, hch, memory>>

Ready == ~hcrst /\ cnr /\ cnr' = FALSE /\ UNCHANGED <<pc, off, device, hch, hcrst, rs, reg, memory>>

Run == rs /\ hch /\ hch' = FALSE /\ UNCHANGED <<pc, off, device, hcrst, cnr, rs, reg, memory>>

Controller == ResetEnds \/ Ready \/ Run

----------------------------------------------------------------------------
(* init_xhci.                                                              *)

Goto(l) == pc' = l
Here(l) == pc = l

Read(o) == IF o \in DOMAIN caps THEN caps[o] ELSE [id |-> 0, next |-> 0, high |-> 0]

\* Mutant: the pointer is added to the offset, the end is still offset 0.
NextCapability_relative(c) == off + c.next
\* ((v >> 8) & 0xffff) << 2 in a uint16_t: the pointer and the eight bits
\* above it, taken from the start of the list.
NextCapability(c) == (c.next + 256 * c.high) % 2^14

\* One capability; the legacy one only gets its semaphore bit set.
WalkCapability ==
  /\ Here("caps")
  /\ off' = NextCapability(Read(off))
  /\ Goto(IF off' = 0 THEN "check" ELSE "caps")
  /\ UNCHANGED <<device, status, reg, memory>>

CheckHalted ==
  /\ Here("check")
  /\ Goto(IF hch THEN "reset" ELSE "panic")
  /\ UNCHANGED <<off, device, status, reg, memory>>

Reset ==
  /\ Here("reset")
  /\ hcrst' = TRUE
  /\ Goto("wait_hcrst")
  /\ UNCHANGED <<off, device, hch, cnr, rs, reg, memory>>

\* Mutant: the driver does not wait for the end of the reset.
ResetOver_atOnce == TRUE
ResetOver == ~hcrst

WaitReset ==
  /\ Here("wait_hcrst") /\ ResetOver
  /\ Goto("wait_cnr")
  /\ UNCHANGED <<off, device, status, reg, memory>>

IsReady == ~cnr

WaitReady ==
  /\ Here("wait_cnr") /\ IsReady
  /\ Goto("config")
  /\ UNCHANGED <<off, device, status, reg, memory>>

SetRegister(r, v) == reg' = [reg EXCEPT ![r] = v]

WriteConfig ==
  /\ Here("config")
  /\ SetRegister("CONFIG", 1)               \* MaxSlotsEn = MaxSlots
  /\ Goto("dcbaa")
  /\ UNCHANGED <<off, device, status, memory>>

\* alloc_mem(n) for a purpose: the page it returns is used + 1, also for n = 0.
Alloc(n, what) ==
  /\ used + n <= Pages /\ used < Pages
  /\ used' = used + n
  /\ owner' = [p \in 1 .. Pages |-> IF p \in used + 1 .. used + n
                                    THEN owner[p] \cup {what} ELSE owner[p]]

AllocFails(n) == (used + n > Pages \/ used = Pages) /\ pc' = "panic"
                   /\ UNCHANGED <<off, device, status, reg, memory>>

AllocDcbaa ==
  /\ Here("dcbaa")
  /\ \/ Alloc(1, "dcbaa") /\ Goto("array") /\ UNCHANGED <<off, device, status, reg, buffers, dcbaa0>>
     \/ AllocFails(1)

\* (scratchpads * 8 + 4095) / 4096
ArrayPages == (scratchpads + PtrsPerPage - 1) \div PtrsPerPage

AllocArray ==
  /\ Here("array")
  /\ \/ /\ Alloc(ArrayPages, "array")
        /\ dcbaa0' = used + 1
        /\ Goto("scratch")
        /\ UNCHANGED <<off, device, status, reg, buffers>>
     \/ AllocFails(ArrayPages)

AllocScratchpad ==
  /\ Here("scratch") /\ buffers < scratchpads
  /\ \/ /\ pagesize = 1 /\ Alloc(1, "scratchpad")
        /\ buffers' = buffers + 1
        /\ UNCHANGED <<pc, off, device, status, reg, dcbaa0>>
     \/ pagesize = 1 /\ AllocFails(1)
     \/ pagesize # 1 /\ Goto("panic") /\ UNCHANGED <<off, device, status, reg, memory>>

\* DCBAAP, then new_ring(&cmd_ring) and CRCR.
WriteDcbaap ==
  /\ Here("scratch") /\ buffers = scratchpads
  /\ SetRegister("DCBAAP", 1)
  /\ Goto("cmd_ring")
  /\ UNCHANGED <<off, device, status, memory>>

NewCommandRing ==
  /\ Here("cmd_ring")
  /\ \/ /\ Alloc(1, "cmd_ring")
        /\ SetRegister("CRCR", used + 1)
        /\ Goto("event_ring")
        /\ UNCHANGED <<off, device, status, buffers, dcbaa0>>
     \/ AllocFails(1)

\* new_ring(&event_ring), the segment table, ERSTSZ, ERDP and ERSTBA.
NewEventRing ==
  /\ Here("event_ring")
  /\ \/ /\ Alloc(1, "event_ring")
        /\ reg' = [reg EXCEPT !["ERSTSZ"] = 1, !["ERDP"] = used + 1, !["ERSTBA"] = used + 1]
        /\ Goto("start")
        /\ UNCHANGED <<off, device, status, buffers, dcbaa0>>
     \/ AllocFails(1)

Start ==
  /\ Here("start")
  /\ rs' = TRUE
  /\ Goto("wait_run")
  /\ UNCHANGED <<off, device, hch, hcrst, cnr, reg, memory>>

IsRunning == ~hch

WaitRun ==
  /\ Here("wait_run") /\ IsRunning
  /\ Goto("done")
  /\ UNCHANGED <<off, device, status, reg, memory>>

init_xhci ==
  \/ WalkCapability \/ CheckHalted \/ Reset \/ WaitReset \/ WaitReady
  \/ WriteConfig \/ AllocDcbaa \/ AllocArray \/ AllocScratchpad \/ WriteDcbaap
  \/ NewCommandRing \/ NewEventRing \/ Start \/ WaitRun

Ended == pc \in {"done", "panic"}
Stopped == Ended /\ UNCHANGED vars

Next == init_xhci \/ Controller \/ Stopped

\* The driver polls without end; the controller ends what it has begun.
Spec == Init /\ [][Next]_vars /\ WF_vars(init_xhci) /\ WF_vars(Controller)

----------------------------------------------------------------------------

\* The offset that follows o in the walk: bits 8 to 23 of what is read there,
\* two upper bits cut off.
Leads(o) == (Read(o).next + 256 * Read(o).high) % 2^14

\* The walk never comes back to offset 0, where it would end: it enters a set
\* of offsets that lead only to each other.  Three capabilities at equal
\* distances are such a list, the second leads to itself.
Trapped ==
  \E L \in SUBSET (DOMAIN caps \ {0}) : Leads(0) \in L /\ \A o \in L : Leads(o) \in L

\* Every register a run needs is set: none was lost to a controller that was
\* not ready, or taken back by a reset that ended late.
RegistersSet == rs /\ ~hcrst /\ ~cnr /\ \A r \in Registers : reg[r] # 0

\* Every entry of the scratchpad array the controller reads lies in memory of
\* the array's own.  A controller without scratchpads is given the address of
\* the next page, which becomes the command ring; it never looks at it.
ScratchpadArrayOwn ==
  \A i \in 0 .. scratchpads - 1 : owner[dcbaa0 + i \div PtrsPerPage] = {"array"}

\* When init_xhci has started the controller, registers and memory are what a
\* run needs.
StartsConfigured == pc = "done" => RegistersSet /\ ScratchpadArrayOwn
=============================================================================
