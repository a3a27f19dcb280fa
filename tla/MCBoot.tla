------------------------------- MODULE MCBoot -------------------------------
(* Sixteen megabytes, laid out like the memory of the virtual machine      *)
(* env.mk starts: free below 8 MB, then memory the firmware keeps, free    *)
(* memory, and boot services data (with BootMain's stack) at the top.  The *)
(* second map has the image's place taken, the third too little memory.    *)
EXTENDS Boot

Layout(reserved, bootdata) ==
  [u \in Units |-> IF u \in reserved THEN "EfiReservedMemoryType"
                   ELSE IF u \in bootdata THEN "EfiBootServicesData"
                   ELSE "EfiConventionalMemory"]

MCFirmwareMaps == {Layout({8, LastUnit}, {LastUnit - 1}), Layout({1, 8}, {}),
                   Layout({0} \cup 7 .. LastUnit, {})}
MCSizes == {1}
=============================================================================
