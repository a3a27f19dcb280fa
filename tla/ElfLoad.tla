------------------------------ MODULE ElfLoad ------------------------------
(***************************************************************************)
(* How BootMain (boot/boot.c) brings the kernel's ELF file to its place:   *)
(* ReadFile, CalcLoadAddressRange, AllocatePages at the address found,     *)
(* CopyLoadSegments, and the entry point, which is read from the copy.     *)
(*                                                                         *)
(* Addresses are bytes from 0xffff800000000000 on, which the loader turns  *)
(* into physical ones from 0x100000 on by adding Shift.  A byte of memory  *)
(* is Old (what the firmware left there), Zero, or the file's byte at an   *)
(* offset, written as the offset.                                          *)
(***************************************************************************)
EXTENDS Integers, Sequences

CONSTANTS Images,     \* the program headers of kernels: sequences of headers
          PageSize, Shift,
          MemTop      \* bytes of physical memory

ElfAssumption == PageSize \in Nat \ {0} /\ Shift \in Nat /\ MemTop \in Nat

\* UINT64_MAX, larger than every address.
Infinity == 2 * MemTop

\* What the loader expects of the linker: segments that are loaded lie apart in
\* memory and are at least as large as their part of the file, and the lowest of
\* them begins with the file's header.
ImagesAssumption ==
  \A im \in Images :
    /\ im \in Seq([load : BOOLEAN, vaddr : 0 .. Infinity, offset : Nat, filesz : Nat, memsz : Nat])
    /\ \E k \in DOMAIN im : im[k].load
    /\ \A k \in DOMAIN im : im[k].load =>
         /\ im[k].filesz <= im[k].memsz
         /\ (\A j \in DOMAIN im : im[j].load => im[k].vaddr <= im[j].vaddr)
              => im[k].offset = 0 /\ im[k].filesz > 0
    /\ \A j, k \in DOMAIN im : j # k /\ im[j].load /\ im[k].load =>
         \/ im[j].vaddr + im[j].memsz <= im[k].vaddr
         \/ im[k].vaddr + im[k].memsz <= im[j].vaddr

VARIABLES phdr,           \* the program headers of kernel.elf
          pc, i,          \* where BootMain is, the loop's header
          start, end,     \* *start and *end, physical
          allocated,      \* bytes AllocatePages reserved
          file,           \* kernel_buffer is allocated
          mem,            \* physical memory
          entry           \* vMain_addr: the offset it was read from, or None

vars == <<phdr, pc, i, start, end, allocated, file, mem, entry>>

Bytes == 0 .. MemTop - 1
Old == -1
Zero == -2
None == -3

Init ==
  /\ phdr \in Images
  /\ pc = "read" /\ i = 1
  /\ start = Infinity /\ end = 0
  /\ allocated = {} /\ file = FALSE
  /\ mem = [b \in Bytes |-> Old]
  /\ entry = None

\* EFI_ERROR: the status is printed and the loader stops.
Fails == pc' = "stopped" /\ UNCHANGED <<phdr, i, start, end, allocated, file, mem, entry>>

\* GetInfo, AllocatePool, Read: each may fail.
ReadFile ==
  /\ pc = "read"
  /\ \/ pc' = "range" /\ file' = TRUE
        /\ UNCHANGED <<phdr, i, start, end, allocated, mem, entry>>
     \/ Fails

\* phdr[i].p_type == PT_LOAD
Load(h) == h.load

Lower(a, b) == IF a < b THEN a ELSE b
Higher(a, b) == IF a < b THEN b ELSE a

\* One header; behind the last one both ends become physical addresses.
CalcLoadAddressRange ==
  /\ pc = "range"
  /\ IF i <= Len(phdr)
     THEN /\ i' = i + 1 /\ pc' = pc
          /\ IF Load(phdr[i])
             THEN /\ start' = Lower(start, phdr[i].vaddr)
                  /\ end' = Higher(end, phdr[i].vaddr + phdr[i].memsz)
             ELSE UNCHANGED <<start, end>>
     ELSE /\ start' = start + Shift /\ end' = end + Shift
          /\ i' = 1 /\ pc' = "allocate"
  /\ UNCHANGED <<phdr, allocated, file, mem, entry>>

\* Mutant: the last, partly used page is forgotten.
PagesFor_down(bytes) == bytes \div PageSize
PagesFor(bytes) == (bytes + PageSize - 1) \div PageSize

\* AllocateAddress (the firmware is external): a page boundary, free memory.
AllocatePages ==
  LET taken == start .. start + PagesFor(end - start) * PageSize - 1
  IN  /\ pc = "allocate"
      /\ \/ start % PageSize = 0 /\ taken \subseteq Bytes
            /\ allocated' = taken
            /\ pc' = "copy"
            /\ UNCHANGED <<phdr, i, start, end, file, mem, entry>>
         \/ Fails

\* The bytes behind the segment's part of the file, for memset.
Remain(h) == h.vaddr + Shift + h.filesz .. h.vaddr + Shift + h.memsz - 1

FromFile(h) == h.vaddr + Shift .. h.vaddr + Shift + h.filesz - 1

\* memcpy and memset of one segment.
CopyLoadSegments ==
  /\ pc = "copy"
  /\ IF i <= Len(phdr)
     THEN /\ i' = i + 1 /\ pc' = pc
          /\ mem' = IF ~Load(phdr[i]) THEN mem
                    ELSE [b \in Bytes |->
                            CASE b \in Remain(phdr[i]) -> Zero
                              [] b \in FromFile(phdr[i]) ->
                                   b - Shift - phdr[i].vaddr + phdr[i].offset
                              [] OTHER -> mem[b]]
     ELSE i' = 1 /\ pc' = "entry" /\ mem' = mem
  /\ UNCHANGED <<phdr, start, end, allocated, file, entry>>

\* FreePool(kernel_buffer), then e_entry at the start of the copy.
ReadEntry ==
  /\ pc = "entry"
  /\ \/ /\ file' = FALSE
        /\ entry' = mem[start]
        /\ pc' = "loaded"
        /\ UNCHANGED <<phdr, i, start, end, allocated, mem>>
     \/ Fails

Ended == pc \in {"loaded", "stopped"} /\ UNCHANGED vars

Next ==
  ReadFile \/ CalcLoadAddressRange \/ AllocatePages \/ CopyLoadSegments \/ ReadEntry \/ Ended

Spec == Init /\ [][Next]_vars

----------------------------------------------------------------------------

\* CopyLoadSegments writes nothing outside the pages BootMain reserved for
\* the kernel, whatever order the headers come in and wherever the headers
\* that are not loaded point.
CopiesInside == \A b \in Bytes : mem[b] # Old => b \in allocated

\* The kernel finds each of its segments in memory: its part of the file, and
\* zeroes behind it, although every segment is cleared and copied in turn.
SegmentsInPlace ==
  pc = "loaded" =>
    \A k \in DOMAIN phdr : phdr[k].load =>
      \A n \in 0 .. phdr[k].memsz - 1 :
        mem[phdr[k].vaddr + Shift + n] =
          IF n < phdr[k].filesz THEN phdr[k].offset + n ELSE Zero

\* The entry point is read from the file's header, which must have come with
\* the lowest segment, from memory that is still the loader's.
EntryFromHeader == pc = "loaded" => entry = 0 /\ start \in allocated

\* BootMain brings the kernel into memory: whole, in its place, nowhere else,
\* and with the entry point the file names.
KernelLoaded == CopiesInside /\ SegmentsInPlace /\ EntryFromHeader
=============================================================================
