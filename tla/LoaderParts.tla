---------------------------- MODULE LoaderParts ----------------------------
(***************************************************************************)
(* The half of BootMain that brings the kernel's file to its place, as an  *)
(* instance of ElfLoad with variables of its own and the constants still   *)
(* open; Boot is the other half.                                           *)
(***************************************************************************)
EXTENDS Integers, Sequences

CONSTANTS Images, PageSize, Shift, MemTop

VARIABLES phdr, loader, index, low, high, allocated, file, contents, entry

Elf == INSTANCE ElfLoad WITH pc <- loader, i <- index, start <- low, end <- high, mem <- contents

ASSUME ElfSizes == Elf!ElfAssumption
ASSUME ElfImages == Elf!ImagesAssumption

elfVars == <<phdr, loader, index, low, high, allocated, file, contents, entry>>

----------------------------------------------------------------------------

\* BootMain loads the kernel's file into the pages it reserved, every segment
\* in its place, and finds the entry point there (ElfLoad).
KernelLoaded == Elf!KernelLoaded
=============================================================================
