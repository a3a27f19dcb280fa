---------------------------- MODULE MCMemoryTest ----------------------------
(* The test's own sizes on a memory map like that of the virtual machine   *)
(* env.mk starts: low memory up to 0x9ffff, memory between the end of the  *)
(* kernel and its stack at 0x500000, memory above the stack.               *)
EXTENDS MemoryTest

MCRegions == <<[start |-> 1, pages |-> 159], [start |-> 272, pages |-> 1008],
               [start |-> 1536, pages |-> 64]>>
MCTestSizes == <<100, 919, 30, 50>>
MCFreeOrder == <<1, 4, 3, 2>>
MCSizes == {100, 919, 30, 50}
============================================================================
