------------------------------ MODULE MCLoader ------------------------------
(***************************************************************************)
(* The two halves of BootMain: how the kernel's file comes to its place    *)
(* (ElfLoad), and everything else from the first allocation to the running *)
(* kernel (Boot).  A behaviour is one of the two from its start; the other *)
(* stays in an initial state.                                              *)
(***************************************************************************)
EXTENDS MCBoot, LoaderParts

VARIABLES part

\* Images as the linker lays them out: the lowest segment holds the file's
\* header, the others start in pages of their own; the headers come in any
\* order, one of them not to be loaded.
H(l, v, o, f, z) == [load |-> l, vaddr |-> v, offset |-> o, filesz |-> f, memsz |-> z]
Text(base) == {H(TRUE, base, 0, f, f) : f \in 1 .. 4}
Data == {H(TRUE, 4 + d, 4 + d, f, f + z) : d \in 0 .. 1, f \in 0 .. 2, z \in 0 .. 5}
Note == {H(FALSE, v, 0, 1, 6) : v \in {0, 3, 12}}
ThreeHeaders ==
  {<<t, d, n>> : t \in Text(0), d \in Data, n \in Note}
    \cup {<<n, d, t>> : t \in Text(0), d \in Data, n \in Note}
Unaligned == {<<t, n>> : t \in Text(1), n \in Note}

MCImages == ThreeHeaders \cup Unaligned

LoaderInit ==
  /\ part \in {"load", "boot"}
  /\ Elf!Init /\ Init
  /\ part # "load" => phdr = CHOOSE im \in Images : TRUE
  /\ part = "load" => memtype = Layout({8, LastUnit}, {LastUnit - 1})

LoaderNext ==
  \/ part = "load" /\ Elf!Next /\ UNCHANGED <<part, vars>>
  \/ part = "boot" /\ Next /\ UNCHANGED <<part, elfVars>>

LoaderSpec == LoaderInit /\ [][LoaderNext]_<<part, vars, elfVars>>
=============================================================================
