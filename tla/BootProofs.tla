----------------------------- MODULE BootProofs -----------------------------
(***************************************************************************)
(* Proofs about Boot for every amount of memory, every firmware map, any   *)
(* number of changes the firmware makes to it and every sequence of        *)
(* allocations.  The kernel's half rests on what MemlistProofs shows about *)
(* the allocator, instantiated with the map the loader hands over.  Then   *)
(* the other half of the loader, ElfLoad: every kernel image a linker may  *)
(* make.                                                                   *)
(***************************************************************************)
EXTENDS Boot, LoaderParts, TLAPS

\* The maps init_mem may be given: descriptors that do not overlap.
ApartMaps ==
  {m \in Seq(Mem!Descriptor) :
     \A i, j \in 1 .. Len(m) : i # j => Mem!Disjoint(m[i], m[j])}

MP == INSTANCE MemlistProofs WITH MemMaps <- ApartMaps

\* The map CallInitMem builds from the one BootMain got.
Handed == [i \in 1 .. LastUnit + 1 |->
             [start |-> i - 1, pages |-> 1, type |-> memmap[i - 1]]]

\* What the kernel uses for as long as it runs.
Kept == {"image", "pml4", "kernel_pdp", "kernel_page_directory",
         "kernel_page_table", "actual_page_dir"}

KernelPcs == {"vMain", "paged", "running"}

----------------------------------------------------------------------------
(* The inductive invariant.                                                *)

BootTypes ==
  /\ memtype \in [Units -> Mem!MemTypes]
  /\ memmap \in [Units -> Mem!MemTypes]
  /\ version \in Nat /\ key \in Int
  /\ changes \in 0 .. MaxChanges
  /\ step \in 0 .. 12
  /\ area \in [Areas -> Units \cup {Nowhere}]
  /\ pc \in {"alloc", "free", "getmap", "exit", "getmap2", "exit2", "stopped"} \cup KernelPcs
  /\ pml4 \subseteq {0, 256, 257}

\* Every change of the map counts once.
VersionCounts ==
  /\ pc = "free" => step = 2
  /\ version = step + changes
                 + (IF step > 2 \/ (step = 2 /\ pc # "free") THEN 1 ELSE 0)

\* The key tells whether the map BootMain holds is still right.
KeyTells ==
  /\ key \in -1 .. version
  /\ key = version => memmap = memtype
  /\ pc \in KernelPcs => key = version

\* What the kernel goes on using lies in memory of a type it never lists, and
\* the buffer the loader gives back does not.
AreasReserved ==
  /\ \A a \in Kept : area[a] # Nowhere => memtype[area[a]] = "EfiUnusableMemory"
  /\ area["kernel_buffer"] # Nowhere => memtype[area["kernel_buffer"]] = "EfiLoaderData"

\* The low mapping is gone before init_mem is called.
LowDropped == pc \in {"paged", "running"} => 0 \notin pml4

\* The allocator is untouched until init_mem gets the handed map.
Allocator ==
  IF pc = "running" THEN map = Handed /\ MP!IInv
  ELSE /\ map = <<>> /\ pos = 1 /\ start = 0 /\ pages = 0
       /\ memlist = <<>> /\ used = {} /\ ptr = 0

BootInv == /\ BootTypes /\ VersionCounts /\ KeyTells /\ AreasReserved
           /\ LowDropped /\ Allocator

----------------------------------------------------------------------------
\* What the plan of allocations says about each of them.
LEMMA PlanFacts ==
  /\ Len(Plan) = 12
  /\ \A i \in 1 .. 12 :
       /\ Plan[i].name \in Areas
       /\ Plan[i].type \in Mem!MemTypes
       /\ Plan[i].name = "image" <=> i = 2
       /\ Plan[i].name \in Kept => Plan[i].type = "EfiUnusableMemory"
       /\ Plan[i].name = "kernel_buffer" => Plan[i].type = "EfiLoaderData"
<1>1. Len(Plan) = 12
  BY DEF Plan
<1>2. ASSUME NEW i \in 1 .. 12
      PROVE  /\ Plan[i].type \in Mem!MemTypes
             /\ Plan[i].name = "image" <=> i = 2
             /\ Plan[i].name \in Kept => Plan[i].type = "EfiUnusableMemory"
             /\ Plan[i].name = "kernel_buffer" => Plan[i].type = "EfiLoaderData"
  BY DEF Plan, Alloc, Kept, Mem!MemTypes
<1> QED BY <1>1, <1>2 DEF Areas

\* Everything the kernel keeps is an area of the plan.
LEMMA KeptAreas == Kept \cup {"kernel_buffer"} \subseteq Areas
<1>1. /\ Plan[1].name = "kernel_buffer" /\ Plan[2].name = "image" /\ Plan[4].name = "pml4"
      /\ Plan[7].name = "actual_page_dir" /\ Plan[9].name = "kernel_pdp"
      /\ Plan[11].name = "kernel_page_directory" /\ Plan[12].name = "kernel_page_table"
  BY DEF Plan, Alloc
<1> QED BY <1>1, PlanFacts DEF Kept, Areas

\* Nothing is allocated and no map is known when BootMain starts.
LEMMA InitBoot == Init => BootInv
<1> SUFFICES ASSUME Init PROVE BootInv
  OBVIOUS
<1>1. BootTypes
  BY MapsAssumption, BootAssumption, PlanFacts DEF Init, BootTypes, KernelPcs
<1>2. VersionCounts /\ KeyTells /\ LowDropped
  BY DEF Init, VersionCounts, KeyTells, LowDropped, KernelPcs
<1>3. AreasReserved
  BY KeptAreas DEF Init, AreasReserved
<1>4. Allocator
  BY DEF Init, Mem!Init, Allocator
<1> QED BY <1>1, <1>2, <1>3, <1>4 DEF BootInv

----------------------------------------------------------------------------
\* A step that only moves the loader on, outside the kernel, with the map and
\* the areas as they are.
LEMMA AllocatorUntouched ==
  ASSUME Allocator, pc # "running", pc' # "running", UNCHANGED memVars
  PROVE  Allocator'
  BY DEF Allocator, memVars

\* Taking free memory for something else leaves the reserved areas as they are.
LEMMA FreeIsNotReserved ==
  ASSUME BootTypes, AreasReserved, NEW u \in Free, NEW t \in Mem!MemTypes,
         memtype' = [memtype EXCEPT ![u] = t]
  PROVE  /\ memtype' \in [Units -> Mem!MemTypes]
         /\ u \in Units /\ memtype'[u] = t
         /\ \A a \in Kept : area[a] # Nowhere => memtype'[area[a]] = "EfiUnusableMemory"
         /\ area["kernel_buffer"] # Nowhere => memtype'[area["kernel_buffer"]] = "EfiLoaderData"
<1>1. u \in Units /\ memtype[u] = "EfiConventionalMemory"
  BY DEF Free
<1>2. memtype' \in [Units -> Mem!MemTypes] /\ memtype'[u] = t
  BY <1>1 DEF BootTypes
<1>3. \A v \in Units : v # u => memtype'[v] = memtype[v]
  BY DEF BootTypes
<1>4. \A a \in Kept \cup {"kernel_buffer"} : area[a] # Nowhere => area[a] \in Units
  BY KeptAreas DEF BootTypes
<1> QED BY <1>1, <1>2, <1>3, <1>4 DEF AreasReserved

\* The firmware takes free memory only, and changes its map key.
LEMMA FirmwareBoot == BootInv /\ FirmwareChangesMap => BootInv'
<1> SUFFICES ASSUME BootInv, FirmwareChangesMap PROVE BootInv'
  OBVIOUS
<1>1. PICK u \in Free : memtype' = [memtype EXCEPT ![u] = "EfiBootServicesData"]
  BY DEF FirmwareChangesMap, AnyPlace
<1>2. "EfiBootServicesData" \in Mem!MemTypes
  BY DEF Mem!MemTypes
<1>3. BootTypes'
  <2>1. memtype' \in [Units -> Mem!MemTypes]
    BY <1>1, <1>2, FreeIsNotReserved DEF BootInv
  <2> QED BY <2>1, BootAssumption DEF BootInv, BootTypes, FirmwareChangesMap
<1>4. VersionCounts' /\ KeyTells' /\ LowDropped'
  BY DEF BootInv, BootTypes, VersionCounts, KeyTells, LowDropped, KernelPcs, FirmwareChangesMap
<1>5. AreasReserved'
  <2>1. area' = area
    BY DEF FirmwareChangesMap
  <2> QED BY <1>1, <1>2, <2>1, FreeIsNotReserved DEF BootInv, AreasReserved
<1>6. Allocator'
  BY AllocatorUntouched DEF BootInv, FirmwareChangesMap
<1> QED BY <1>3, <1>4, <1>5, <1>6 DEF BootInv

\* AllocatePages gives a kept area a type the kernel never lists.
LEMMA AllocateBoot == BootInv /\ AllocatePages => BootInv'
<1> SUFFICES ASSUME BootInv, AllocatePages PROVE BootInv'
  OBVIOUS
<1>1. PICK n \in 1 .. 12 : n = step + 1 /\ pc = "alloc" /\ step < 12
  BY PlanFacts DEF AllocatePages, BootInv, BootTypes
<1>2. PICK u \in Free :
        /\ memtype' = [memtype EXCEPT ![u] = Plan[n].type]
        /\ area' = [area EXCEPT ![Plan[n].name] = u]
        /\ pc' = IF Plan[n].name = "image" THEN "free" ELSE "alloc"
  <2>1. \E u \in IF Plan[n].at = Anywhere THEN AnyPlace ELSE Free \cap {Plan[n].at} :
          /\ memtype' = [memtype EXCEPT ![u] = Plan[n].type]
          /\ area' = [area EXCEPT ![Plan[n].name] = u]
          /\ pc' = IF Plan[n].name = "image" THEN "free" ELSE "alloc"
    BY <1>1 DEF AllocatePages
  <2>2. (IF Plan[n].at = Anywhere THEN AnyPlace ELSE Free \cap {Plan[n].at}) \subseteq Free
    BY DEF AnyPlace
  <2> QED BY <2>1, <2>2
<1>3. /\ Plan[n].type \in Mem!MemTypes /\ Plan[n].name \in Areas
      /\ Plan[n].name = "image" <=> n = 2
      /\ Plan[n].name \in Kept => Plan[n].type = "EfiUnusableMemory"
      /\ Plan[n].name = "kernel_buffer" => Plan[n].type = "EfiLoaderData"
  BY PlanFacts
<1>4. /\ memtype' \in [Units -> Mem!MemTypes] /\ u \in Units /\ memtype'[u] = Plan[n].type
      /\ \A a \in Kept : area[a] # Nowhere => memtype'[area[a]] = "EfiUnusableMemory"
      /\ area["kernel_buffer"] # Nowhere => memtype'[area["kernel_buffer"]] = "EfiLoaderData"
  BY <1>2, <1>3, FreeIsNotReserved DEF BootInv
<1>5. /\ pc' = IF n = 2 THEN "free" ELSE "alloc"
      /\ step' = n /\ version' = version + 1
      /\ UNCHANGED <<changes, memmap, key, pml4, memVars>>
  BY <1>1, <1>2, <1>3 DEF AllocatePages
<1>6. BootTypes'
  <2>1. area' \in [Areas -> Units \cup {Nowhere}]
    BY <1>2, <1>3, <1>4 DEF BootInv, BootTypes
  <2> QED BY <1>1, <1>4, <1>5, <2>1 DEF BootInv, BootTypes
<1>7. VersionCounts' /\ KeyTells' /\ LowDropped'
  BY <1>1, <1>5 DEF BootInv, BootTypes, VersionCounts, KeyTells, LowDropped, KernelPcs
<1>8. AreasReserved'
  <2>1. \A a \in Areas : area'[a] = IF a = Plan[n].name THEN u ELSE area[a]
    BY <1>2, <1>3 DEF BootInv, BootTypes
  <2> QED BY <1>3, <1>4, <2>1, KeptAreas DEF AreasReserved
<1>9. Allocator'
  BY <1>1, <1>5, AllocatorUntouched DEF BootInv
<1> QED BY <1>6, <1>7, <1>8, <1>9 DEF BootInv

\* Only the file's buffer is given back.
LEMMA FreePoolBoot == BootInv /\ FreePool => BootInv'
<1> SUFFICES ASSUME BootInv, FreePool PROVE BootInv'
  OBVIOUS
<1> DEFINE b == area["kernel_buffer"]
<1>1. /\ memtype' = [memtype EXCEPT ![b] = "EfiConventionalMemory"]
      /\ area' = [area EXCEPT !["kernel_buffer"] = Nowhere]
      /\ pc = "free" /\ pc' = "alloc" /\ version' = version + 1 /\ step = 2
      /\ UNCHANGED <<changes, step, memmap, key, pml4, memVars>>
  BY DEF FreePool, BootInv, VersionCounts
<1>2. "EfiConventionalMemory" \in Mem!MemTypes
  BY DEF Mem!MemTypes
<1>3. BootTypes'
  <2>1. memtype' \in [Units -> Mem!MemTypes]
    BY <1>1, <1>2 DEF BootInv, BootTypes
  <2>2. area' \in [Areas -> Units \cup {Nowhere}]
    BY <1>1 DEF BootInv, BootTypes
  <2> QED BY <1>1, <2>1, <2>2 DEF BootInv, BootTypes
<1>4. VersionCounts' /\ KeyTells' /\ LowDropped'
  BY <1>1 DEF BootInv, BootTypes, VersionCounts, KeyTells, LowDropped, KernelPcs
<1>5. AreasReserved'
  <2>1. area'["kernel_buffer"] = Nowhere
    BY <1>1, KeptAreas DEF BootInv, BootTypes
  <2>2. ASSUME NEW a \in Kept, area'[a] # Nowhere
        PROVE  memtype'[area'[a]] = "EfiUnusableMemory"
    <3>1. a # "kernel_buffer" /\ a \in Areas
      BY KeptAreas DEF Kept
    <3>2. area'[a] = area[a] /\ area[a] \in Units
      BY <1>1, <2>2, <3>1 DEF BootInv, BootTypes
    <3>3. memtype[area[a]] = "EfiUnusableMemory"
      BY <2>2, <3>2 DEF BootInv, AreasReserved
    <3>4. area[a] # b
      BY <2>2, <3>2, <3>3 DEF BootInv, AreasReserved
    <3>5. memtype'[area[a]] = memtype[area[a]]
      BY <1>1, <3>2, <3>4 DEF BootInv, BootTypes
    <3> QED BY <3>2, <3>3, <3>5
  <2> QED BY <2>1, <2>2 DEF AreasReserved
<1>6. Allocator'
  BY <1>1, AllocatorUntouched DEF BootInv
<1> QED BY <1>3, <1>4, <1>5, <1>6 DEF BootInv

\* The loader's steps that change neither the map nor the areas.
LEMMA LoaderBoot ==
  BootInv /\ (AllocationFails \/ BuildTables \/ GetMemoryMap \/ ExitBootServices
               \/ ExitFails \/ actual_init_paging) => BootInv'
<1> SUFFICES ASSUME BootInv,
                    AllocationFails \/ BuildTables \/ GetMemoryMap \/ ExitBootServices
                      \/ ExitFails \/ actual_init_paging
             PROVE  BootInv'
  OBVIOUS
<1> USE DEF AllocationFails, BuildTables, GetMemoryMap, ExitBootServices, ExitFails,
            actual_init_paging
<1>1. /\ UNCHANGED <<memtype, version, changes, area, step, memVars>>
      /\ pc # "running" /\ pc' # "running" /\ pc # "free" /\ pc' # "free"
  OBVIOUS
<1>2. BootTypes'
  <2>1. memmap' = memmap \/ memmap' = memtype
    OBVIOUS
  <2>2. key' \in Int /\ pml4' \subseteq {0, 256, 257}
    <3>1. key' = key \/ key' = version
      OBVIOUS
    <3>2. pml4' = {0, 256, 257} \/ pml4' \subseteq pml4
      OBVIOUS
    <3>3. key \in Int /\ version \in Int /\ pml4 \subseteq {0, 256, 257}
      BY DEF BootInv, BootTypes
    <3>4. pml4' \subseteq {0, 256, 257}
      BY <3>2, <3>3, Zenon
    <3>5. key' \in Int
      BY <3>1, <3>3
    <3> QED BY <3>4, <3>5
  <2>3. pc' \in {"alloc", "free", "getmap", "exit", "getmap2", "exit2", "stopped"} \cup KernelPcs
    BY DEF KernelPcs
  <2> QED BY <1>1, <2>1, <2>2, <2>3 DEF BootInv, BootTypes
<1>3. VersionCounts'
  BY <1>1 DEF BootInv, VersionCounts
<1>4. KeyTells' /\ LowDropped'
  BY DEF BootInv, BootTypes, KeyTells, LowDropped, KernelPcs
<1>5. AreasReserved'
  BY <1>1 DEF BootInv, AreasReserved
<1>6. Allocator'
  BY <1>1, AllocatorUntouched DEF BootInv
<1> QED BY <1>2, <1>3, <1>4, <1>5, <1>6 DEF BootInv

----------------------------------------------------------------------------
(* The kernel.                                                             *)

\* The handed map is one the allocator's theorems are about.
LEMMA HandedApart == BootTypes => Handed \in ApartMaps
<1> SUFFICES ASSUME BootTypes PROVE Handed \in ApartMaps
  OBVIOUS
<1> DEFINE D(i) == [start |-> i - 1, pages |-> 1, type |-> memmap[i - 1]]
<1>1. \A i \in 1 .. LastUnit + 1 : D(i) \in Mem!Descriptor
  BY BootAssumption DEF BootTypes, Units, Mem!Descriptor
<1>2. LastUnit + 1 \in Nat /\ Handed = [i \in 1 .. LastUnit + 1 |-> D(i)]
  BY BootAssumption DEF Handed
<1>3. \A i, j \in 1 .. LastUnit + 1 : i # j => Mem!Disjoint(D(i), D(j))
  BY BootAssumption DEF Mem!Disjoint
<1>4. \A i \in 1 .. LastUnit + 1 : Handed[i] = D(i)
  BY <1>2
<1> HIDE DEF D
<1>5. Handed \in Seq(Mem!Descriptor) /\ Len(Handed) = LastUnit + 1
  BY <1>1, <1>2
<1> QED BY <1>3, <1>4, <1>5 DEF ApartMaps

\* The assumptions of Memlist hold of the maps and sizes it is used with.
LEMMA MemAssumptions ==
  /\ \A m \in ApartMaps :
       /\ m \in Seq(MP!Descriptor)
       /\ \A i, j \in 1 .. Len(m) : i # j => MP!Disjoint(m[i], m[j])
  /\ Sizes \subseteq Nat
<1>1. Mem!Descriptor = MP!Descriptor
  BY DEF Mem!Descriptor, MP!Descriptor, Mem!MemTypes, MP!MemTypes
<1>2. \A a, b : Mem!Disjoint(a, b) <=> MP!Disjoint(a, b)
  BY DEF Mem!Disjoint, MP!Disjoint
<1> QED BY <1>1, <1>2, BootAssumption DEF ApartMaps

\* MemlistProofs: the allocator's invariant holds of a fresh allocator ...
LEMMA MemInit == MP!Init => MP!IInv
  BY MP!InitIInv, MemAssumptions

\* ... and is kept by each of its steps.
LEMMA MemNext == MP!IInv /\ [MP!Next]_(MP!vars) => MP!IInv'
  BY MP!NextIInv, MemAssumptions

\* init_mem starts on an untouched allocator and a map without overlaps.
LEMMA CallBoot == BootInv /\ CallInitMem => BootInv'
<1> SUFFICES ASSUME BootInv, CallInitMem PROVE BootInv'
  OBVIOUS
<1>1. /\ UNCHANGED <<memtype, version, changes, area, step, memmap, key, pml4,
                     pos, start, pages, memlist, used, ptr>>
      /\ pc = "paged" /\ pc' = "running" /\ map' = Handed /\ Handed' = Handed
  BY DEF CallInitMem, Handed
<1>2. BootTypes' /\ VersionCounts' /\ KeyTells' /\ AreasReserved' /\ LowDropped'
  BY <1>1 DEF BootInv, BootTypes, VersionCounts, KeyTells, AreasReserved, LowDropped, KernelPcs
<1>3. MP!Init'
  BY <1>1, HandedApart DEF BootInv, Allocator, MP!Init
<1>4. MP!IInv'
  BY <1>3, MemInit, PTL
<1>5. Allocator'
  BY <1>1, <1>4 DEF Allocator
<1> QED BY <1>2, <1>5 DEF BootInv

\* init_mem and alloc_mem change the allocator only.
LEMMA KernelBoot == BootInv /\ KernelMemory => BootInv'
<1> SUFFICES ASSUME BootInv, KernelMemory PROVE BootInv'
  OBVIOUS
<1>1. /\ UNCHANGED <<memtype, version, changes, area, step, memmap, key, pc, pml4>>
      /\ pc = "running" /\ Handed' = Handed
  BY DEF KernelMemory, Handed
<1>2. BootTypes' /\ VersionCounts' /\ KeyTells' /\ AreasReserved' /\ LowDropped'
  BY <1>1 DEF BootInv, BootTypes, VersionCounts, KeyTells, AreasReserved, LowDropped, KernelPcs
<1>3. map' = map
  BY DEF KernelMemory, Mem!init_mem, Mem!alloc_mem, Mem!initVars
<1>4. MP!Next
  <2>1. Mem!init_mem => MP!init_mem
    BY DEF Mem!init_mem, MP!init_mem, Mem!GatherUsable, MP!GatherUsable, Mem!FlushRun,
           MP!FlushRun, Mem!isUsableMemType, MP!isUsableMemType
  <2>2. ASSUME NEW n \in Sizes, Mem!alloc_mem(n) PROVE MP!alloc_mem(n)
    <3>1. \A k : Mem!TakeFrom(k, n) => MP!TakeFrom(k, n)
      BY DEF Mem!TakeFrom, MP!TakeFrom, Mem!FirstFit, MP!FirstFit, Mem!CutFrom,
             MP!CutFrom, Mem!Unlink, MP!Unlink
    <3>2. Mem!OutOfMemory(n) => MP!OutOfMemory(n)
      BY DEF Mem!OutOfMemory, MP!OutOfMemory
    <3> QED BY <2>2, <3>1, <3>2 DEF Mem!alloc_mem, MP!alloc_mem, Mem!initVars, MP!initVars,
                                    Mem!InitDone, MP!InitDone
  <2> QED BY <2>1, <2>2 DEF KernelMemory, MP!Next
<1>5. MP!IInv'
  BY <1>1, <1>4, MemNext DEF BootInv, Allocator
<1>6. Allocator'
  BY <1>1, <1>3, <1>5 DEF BootInv, Allocator
<1> QED BY <1>2, <1>6 DEF BootInv

\* Every step of loader, firmware and kernel keeps the invariant.
LEMMA NextBoot == BootInv /\ [Next]_vars => BootInv'
<1> SUFFICES ASSUME BootInv, [Next]_vars PROVE BootInv'
  OBVIOUS
<1>1. CASE UNCHANGED vars
  <2>1. Allocator'
    <3>1. MP!IInv => MP!IInv'
      <4>1. UNCHANGED MP!vars
        BY <1>1 DEF vars, memVars, MP!vars
      <4> QED BY <4>1, MemNext
    <3> QED BY <1>1, <3>1 DEF BootInv, Allocator, Handed, vars, memVars
  <2> QED BY <1>1, <2>1 DEF vars, BootInv, BootTypes, VersionCounts, KeyTells, AreasReserved,
                            LowDropped
<1> QED BY <1>1, FirmwareBoot, AllocateBoot, FreePoolBoot, LoaderBoot, CallBoot, KernelBoot
        DEF Next

\* The invariant holds from BootMain's start into the running kernel.
THEOREM BootHolds == Spec => []BootInv
  BY InitBoot, NextBoot, PTL DEF Spec

----------------------------------------------------------------------------
\* Type correctness: no counter of the model meets its bound, whatever the
\* firmware does to the map.
THEOREM TypeCorrect == Spec => []TypeOK
<1>1. BootInv => TypeOK
  <2> SUFFICES ASSUME BootInv PROVE TypeOK
    OBVIOUS
  <2>1. version \in 0 .. MaxVersion /\ key \in -1 .. MaxVersion
    BY PlanFacts, BootAssumption DEF MaxVersion, BootInv, BootTypes, VersionCounts, KeyTells
  <2>2. Mem!TypeOK
    <3>1. CASE pc = "running"
      <4>1. MP!TypeOK
        BY <3>1 DEF BootInv, Allocator, MP!IInv
      <4> QED BY <4>1 DEF MP!TypeOK, Mem!TypeOK, Mem!Descriptor, MP!Descriptor, Mem!MemTypes,
                          MP!MemTypes, Mem!Block, MP!Block
    <3>2. CASE pc # "running"
      BY <3>2 DEF BootInv, Allocator, Mem!TypeOK
    <3> QED BY <3>1, <3>2
  <2> QED BY <2>1, <2>2, PlanFacts DEF BootInv, BootTypes, TypeOK, KernelPcs
<1> QED BY <1>1, BootHolds, PTL

\* The kernel gets the map the firmware left behind, however often the map
\* changed between GetMemoryMap and ExitBootServices.
THEOREM MapIsCurrent == Spec => []HandedMapCurrent
<1>1. BootInv => HandedMapCurrent
  BY DEF BootInv, KeyTells, HandedMapCurrent, InKernel, KernelPcs
<1> QED BY <1>1, BootHolds, PTL

\* The pages the kernel lists or hands out are of a usable type in the
\* firmware's last map.
LEMMA OwnedIsUsable ==
  ASSUME BootInv, pc = "running", NEW p \in KernelOwned
  PROVE  p \in Units /\ Mem!isUsableMemType(memtype[p])
<1>1. MP!OnlyUsablePages
  BY DEF BootInv, Allocator, MP!IInv, MP!AllUsable, MP!UsablePage, MP!OnlyUsablePages
<1>2. \E b \in {memlist[k] : k \in 1 .. Len(memlist)} \cup used : p \in Mem!PagesOf(b)
  BY DEF KernelOwned, Mem!FreePages, Mem!UsedPages
<1>3. PICK i \in 1 .. Len(map) : Mem!isUsableMemType(map[i].type) /\ p \in Mem!PagesOf(map[i])
  BY <1>1, <1>2 DEF MP!OnlyUsablePages, Mem!PagesOf, MP!PagesOf, Mem!isUsableMemType,
                    MP!isUsableMemType
<1>4. map = Handed /\ Len(map) = LastUnit + 1
  BY BootAssumption DEF BootInv, Allocator, Handed
<1>5. map[i].start = i - 1 /\ map[i].pages = 1 /\ map[i].type = memmap[i - 1]
  BY <1>3, <1>4 DEF Handed
<1>6. p = i - 1 /\ p \in Units
  BY <1>3, <1>4, <1>5, BootAssumption DEF Mem!PagesOf, Units
<1>7. memmap = memtype
  BY DEF BootInv, KeyTells, KernelPcs
<1> QED BY <1>3, <1>5, <1>6, <1>7

\* The kernel's allocator never touches the kernel's image, its PML4 or the
\* tables of the mappings it runs on, on any machine.
THEOREM TablesKept == Spec => []KernelTablesKept
<1>1. BootInv => KernelTablesKept
  <2> SUFFICES ASSUME BootInv, pc = "running",
                      NEW a \in {"image", "pml4"} \cup UNION {Under(e) : e \in pml4 \cap {0, 256}},
                      area[a] \in KernelOwned
               PROVE  FALSE
    BY DEF KernelTablesKept
  <2>1. pml4 \cap {0, 256} \subseteq {256}
    BY DEF BootInv, LowDropped
  <2>2. a \in Kept
    BY <2>1 DEF Kept, Under
  <2>3. area[a] \in Units /\ Mem!isUsableMemType(memtype[area[a]])
    BY OwnedIsUsable
  <2>4. area[a] # Nowhere
    BY <2>3, BootAssumption DEF Units, Nowhere
  <2>5. memtype[area[a]] = "EfiUnusableMemory"
    BY <2>2, <2>4 DEF BootInv, AreasReserved
  <2> QED BY <2>3, <2>5 DEF Mem!isUsableMemType
<1> QED BY <1>1, BootHolds, PTL

----------------------------------------------------------------------------
(* The kernel's file (ElfLoad).                                            *)

Loaded == {k \in DOMAIN phdr : phdr[k].load}

\* The segment of header h is in memory.
Placed(h, c) ==
  \A n \in 0 .. h.memsz - 1 :
    c[h.vaddr + Shift + n] = IF n < h.filesz THEN h.offset + n ELSE Elf!Zero

Untouched == allocated = {} /\ \A b \in Elf!Bytes : contents[b] = Elf!Old

\* start is the lowest address of a segment, end behind the highest.
RangeFound ==
  /\ low \in Nat /\ high \in Nat
  /\ \A k \in Loaded : low <= phdr[k].vaddr + Shift /\ phdr[k].vaddr + Shift + phdr[k].memsz <= high
  /\ \E k \in Loaded : low = phdr[k].vaddr + Shift

\* The pages reserved hold every segment.
Reserved ==
  /\ RangeFound
  /\ low .. high - 1 \subseteq allocated /\ allocated \subseteq Elf!Bytes
  /\ \A b \in Elf!Bytes : contents[b] # Elf!Old => b \in allocated

ElfInv ==
  /\ phdr \in Images /\ index \in Nat \ {0}
  /\ loader \in {"read", "range", "allocate", "copy", "entry", "loaded", "stopped"}
  /\ loader = "read" => index = 1 /\ low = Elf!Infinity /\ high = 0 /\ Untouched
  /\ loader = "range" =>
       /\ Untouched /\ low \in Nat /\ high \in Nat
       /\ \A k \in Loaded : k < index =>
            low <= phdr[k].vaddr /\ phdr[k].vaddr + phdr[k].memsz <= high
       /\ low = Elf!Infinity \/ \E k \in Loaded : low = phdr[k].vaddr
  /\ loader = "allocate" => index = 1 /\ Untouched /\ RangeFound
  /\ loader = "copy" => Reserved /\ \A k \in Loaded : k < index => Placed(phdr[k], contents)
  /\ loader \in {"entry", "loaded"} => Reserved /\ \A k \in Loaded : Placed(phdr[k], contents)
  /\ loader = "loaded" => entry = 0
  /\ loader = "stopped" => \A b \in Elf!Bytes : contents[b] # Elf!Old => b \in allocated

\* The headers and their numbers.
LEMMA Headers ==
  ASSUME NEW im \in Images
  PROVE  /\ PageSize \in Nat \ {0} /\ Shift \in Nat /\ MemTop \in Nat /\ Elf!Infinity \in Nat
         /\ Len(im) \in Nat /\ DOMAIN im = 1 .. Len(im)
         /\ \A k \in DOMAIN im : /\ im[k].vaddr \in Nat /\ im[k].vaddr <= Elf!Infinity
                                 /\ im[k].offset \in Nat /\ im[k].filesz \in Nat /\ im[k].memsz \in Nat
                                 /\ im[k].load \in BOOLEAN
<1>1. /\ PageSize \in Nat \ {0} /\ Shift \in Nat /\ MemTop \in Nat /\ Elf!Infinity \in Nat
  BY ElfSizes DEF Elf!ElfAssumption, Elf!Infinity
<1> DEFINE Header == [load : BOOLEAN, vaddr : 0 .. Elf!Infinity, offset : Nat, filesz : Nat, memsz : Nat]
<1>2. im \in Seq(Header)
  BY ElfImages DEF Elf!ImagesAssumption
<1>3. \A h \in Header : /\ h.vaddr \in Nat /\ h.vaddr <= Elf!Infinity
                        /\ h.offset \in Nat /\ h.filesz \in Nat /\ h.memsz \in Nat /\ h.load \in BOOLEAN
  BY <1>1
<1> HIDE DEF Header
<1>4. Len(im) \in Nat /\ DOMAIN im = 1 .. Len(im) /\ \A k \in DOMAIN im : im[k] \in Header
  BY <1>2
<1> QED BY <1>1, <1>3, <1>4

\* Whole pages for every byte.
LEMMA PagesEnough ==
  ASSUME NEW P \in Nat \ {0}, NEW n \in Nat
  PROVE  ((n + P - 1) \div P) * P >= n
<1>1. PICK a \in Nat : a = n + P - 1
  OBVIOUS
<1>2. PICK q \in Nat, t \in 0 .. P - 1 : q = a \div P /\ a = P * q + t
  <2>1. a = P * (a \div P) + (a % P) /\ a % P \in 0 .. P - 1 /\ a \div P \in Nat
    OBVIOUS
  <2> QED BY <2>1
<1>3. P * q >= n
  BY <1>1, <1>2
<1>4. q * P = P * q
  OBVIOUS
<1> QED BY <1>1, <1>2, <1>3, <1>4

\* Before the first step.
LEMMA LoaderInits == Elf!Init => ElfInv
<1> SUFFICES ASSUME Elf!Init PROVE ElfInv
  OBVIOUS
<1>1. Untouched
  BY DEF Elf!Init, Untouched
<1> QED BY <1>1 DEF Elf!Init, ElfInv

\* A call of the firmware that fails.
LEMMA LoaderFails == ASSUME ElfInv, Elf!Fails PROVE ElfInv'
<1>1. /\ loader' = "stopped" /\ phdr' = phdr /\ index' = index
      /\ allocated' = allocated /\ contents' = contents
  BY DEF Elf!Fails
<1>2. \A b \in Elf!Bytes : contents[b] # Elf!Old => b \in allocated
  BY DEF ElfInv, Reserved, Untouched
<1> QED BY <1>1, <1>2 DEF ElfInv

\* One header of CalcLoadAddressRange.
LEMMA RangeStep == ASSUME ElfInv, Elf!CalcLoadAddressRange PROVE ElfInv'
<1>1. /\ loader = "range" /\ phdr' = phdr /\ allocated' = allocated /\ contents' = contents
      /\ phdr \in Images /\ index \in Nat \ {0} /\ Untouched /\ low \in Nat /\ high \in Nat
  BY DEF Elf!CalcLoadAddressRange, ElfInv
<1>2. /\ \A k \in Loaded : k < index =>
           low <= phdr[k].vaddr /\ phdr[k].vaddr + phdr[k].memsz <= high
      /\ low = Elf!Infinity \/ \E k \in Loaded : low = phdr[k].vaddr
  BY <1>1 DEF ElfInv
<1>3. /\ Shift \in Nat /\ Elf!Infinity \in Nat /\ Len(phdr) \in Nat /\ DOMAIN phdr = 1 .. Len(phdr)
      /\ \A k \in DOMAIN phdr : /\ phdr[k].vaddr \in Nat /\ phdr[k].vaddr <= Elf!Infinity
                                /\ phdr[k].memsz \in Nat
  BY <1>1, Headers
<1>4. Untouched' /\ Loaded' = Loaded
  BY <1>1 DEF Untouched, Loaded
<1>5. CASE index <= Len(phdr) /\ phdr[index].load
  <2>1. /\ index' = index + 1 /\ loader' = "range"
        /\ low' = Elf!Lower(low, phdr[index].vaddr)
        /\ high' = Elf!Higher(high, phdr[index].vaddr + phdr[index].memsz)
    BY <1>1, <1>5 DEF Elf!CalcLoadAddressRange, Elf!Load
  <2>2. PICK v \in Nat, z \in Nat : v = phdr[index].vaddr /\ z = phdr[index].memsz
    BY <1>1, <1>3, <1>5
  <2>3. /\ low' \in Nat /\ high' \in Nat /\ low' <= low /\ high <= high'
        /\ low' <= v /\ v + z <= high' /\ (low' = low \/ low' = v)
    BY <1>1, <2>1, <2>2 DEF Elf!Lower, Elf!Higher
  <2>4. ASSUME NEW k \in Loaded, k < index + 1
        PROVE  low' <= phdr[k].vaddr /\ phdr[k].vaddr + phdr[k].memsz <= high'
    <3>1. k \in Nat /\ phdr[k].vaddr \in Nat /\ phdr[k].memsz \in Nat
      BY <1>3 DEF Loaded
    <3>2. CASE k = index
      BY <2>2, <2>3, <3>2
    <3>3. CASE k < index
      BY <1>1, <1>2, <2>3, <3>1, <3>3
    <3> QED BY <1>1, <2>4, <3>1, <3>2, <3>3
  <2>5. low' = Elf!Infinity \/ \E k \in Loaded : low' = phdr[k].vaddr
    <3>1. index \in Loaded
      BY <1>1, <1>3, <1>5 DEF Loaded
    <3> QED BY <1>2, <2>2, <2>3, <3>1
  <2> QED BY <1>1, <1>4, <2>1, <2>3, <2>4, <2>5 DEF ElfInv, Loaded
<1>6. CASE index <= Len(phdr) /\ ~ phdr[index].load
  <2>1. index' = index + 1 /\ loader' = "range" /\ low' = low /\ high' = high
    BY <1>1, <1>6 DEF Elf!CalcLoadAddressRange, Elf!Load
  <2>2. ASSUME NEW k \in Loaded, k < index + 1 PROVE k < index
    BY <1>1, <1>3, <1>6, <2>2 DEF Loaded
  <2> QED BY <1>1, <1>2, <1>4, <2>1, <2>2 DEF ElfInv, Loaded
<1>7. CASE ~ (index <= Len(phdr))
  <2>1. index' = 1 /\ loader' = "allocate" /\ low' = low + Shift /\ high' = high + Shift
    BY <1>1, <1>7 DEF Elf!CalcLoadAddressRange
  <2>2. ASSUME NEW k \in Loaded
        PROVE  /\ phdr[k].vaddr \in Nat /\ phdr[k].memsz \in Nat
               /\ low <= phdr[k].vaddr /\ phdr[k].vaddr + phdr[k].memsz <= high
    BY <1>1, <1>2, <1>3, <1>7 DEF Loaded
  <2>3. \E k \in Loaded : low = phdr[k].vaddr
    <3>1. PICK k \in Loaded : TRUE
      BY <1>1, ElfImages DEF Elf!ImagesAssumption, Loaded
    <3>2. low <= phdr[k].vaddr /\ phdr[k].vaddr <= Elf!Infinity /\ phdr[k].vaddr \in Nat
      BY <1>3, <2>2 DEF Loaded
    <3>3. low = Elf!Infinity => low = phdr[k].vaddr
      BY <1>1, <1>3, <3>2
    <3> QED BY <1>2, <3>3
  <2>4. RangeFound'
    <3>1. low' \in Nat /\ high' \in Nat
      BY <1>1, <1>3, <2>1
    <3>2. ASSUME NEW k \in Loaded
          PROVE  low' <= phdr[k].vaddr + Shift /\ phdr[k].vaddr + Shift + phdr[k].memsz <= high'
      BY <1>1, <1>3, <2>1, <2>2
    <3>3. \E k \in Loaded : low' = phdr[k].vaddr + Shift
      BY <2>1, <2>3
    <3> QED BY <1>1, <1>4, <3>1, <3>2, <3>3 DEF RangeFound
  <2> QED BY <1>1, <1>4, <2>1, <2>4 DEF ElfInv
<1> QED BY <1>1, <1>3, <1>5, <1>6, <1>7

\* AllocatePages at the address found: the pages hold every segment.
LEMMA AllocateStep == ASSUME ElfInv, Elf!AllocatePages PROVE ElfInv'
<1> DEFINE taken == low .. low + Elf!PagesFor(high - low) * PageSize - 1
<1>1. CASE Elf!Fails
  BY <1>1, LoaderFails
<1>2. CASE /\ taken \subseteq Elf!Bytes /\ allocated' = taken /\ loader' = "copy"
           /\ phdr' = phdr /\ index' = index /\ low' = low /\ high' = high /\ contents' = contents
  <2>1. phdr \in Images /\ index = 1 /\ Untouched /\ RangeFound
    BY DEF Elf!AllocatePages, ElfInv
  <2>2. /\ PageSize \in Nat \ {0} /\ Shift \in Nat /\ DOMAIN phdr = 1 .. Len(phdr)
        /\ \A k \in DOMAIN phdr : phdr[k].vaddr \in Nat /\ phdr[k].memsz \in Nat
    BY <2>1, Headers
  <2>3. low \in Nat /\ high \in Nat /\ low <= high
    <3>1. PICK k \in Loaded : low = phdr[k].vaddr + Shift /\ phdr[k].vaddr + Shift + phdr[k].memsz <= high
      BY <2>1 DEF RangeFound
    <3>2. phdr[k].vaddr \in Nat /\ phdr[k].memsz \in Nat
      BY <2>2 DEF Loaded
    <3>3. PICK v \in Nat, z \in Nat : v = phdr[k].vaddr /\ z = phdr[k].memsz
      BY <3>2
    <3>4. low = v + Shift /\ v + Shift + z <= high /\ low \in Nat /\ high \in Nat
      BY <2>1, <3>1, <3>3 DEF RangeFound
    <3> QED BY <2>2, <3>4
  <2>4. PICK n \in Nat : n = high - low
    BY <2>3
  <2>5. PICK z \in Int : z = Elf!PagesFor(n) * PageSize /\ z >= n
    <3>1. ((n + PageSize - 1) \div PageSize) * PageSize >= n
      BY <2>2, PagesEnough
    <3>2. ((n + PageSize - 1) \div PageSize) * PageSize \in Int
      BY <2>2
    <3> QED BY <3>1, <3>2 DEF Elf!PagesFor
  <2>6. taken = low .. low + z - 1
    BY <2>4, <2>5
  <2>7. low .. high - 1 \subseteq taken
    BY <2>3, <2>4, <2>5, <2>6
  <2> HIDE DEF taken
  <2>8. Reserved'
    <3>1. RangeFound'
      BY <1>2, <2>1 DEF RangeFound, Loaded
    <3>2. \A b \in Elf!Bytes : contents[b] = Elf!Old
      BY <2>1 DEF Untouched
    <3> QED BY <1>2, <2>7, <3>1, <3>2 DEF Reserved
  <2>9. \A k \in Loaded : ~ (k < 1)
    BY <2>2 DEF Loaded
  <2> QED BY <1>2, <2>1, <2>8, <2>9 DEF ElfInv, Loaded
<1> QED BY <1>1, <1>2 DEF Elf!AllocatePages

\* What memcpy and memset leave at a byte.
ByteOf(h, b, old) ==
  CASE b \in Elf!Remain(h) -> Elf!Zero
    [] b \in Elf!FromFile(h) -> b - Shift - h.vaddr + h.offset
    [] OTHER -> old

\* It is the segment's byte inside the segment, and what it was elsewhere.
LEMMA ByteCopied ==
  ASSUME NEW h, h.vaddr \in Nat, h.offset \in Nat, h.filesz \in Nat, h.memsz \in Nat,
         h.filesz <= h.memsz, Shift \in Nat, NEW b \in Int, NEW old, NEW new, new = ByteOf(h, b, old)
  PROVE  /\ b \notin h.vaddr + Shift .. h.vaddr + Shift + h.memsz - 1 => new = old
         /\ \A n \in 0 .. h.memsz - 1 : b = h.vaddr + Shift + n =>
              new = IF n < h.filesz THEN h.offset + n ELSE Elf!Zero
<1>1. b \in Elf!Remain(h) <=> b >= h.vaddr + Shift + h.filesz /\ b <= h.vaddr + Shift + h.memsz - 1
  BY DEF Elf!Remain
<1>2. b \in Elf!FromFile(h) <=> b >= h.vaddr + Shift /\ b <= h.vaddr + Shift + h.filesz - 1
  BY DEF Elf!FromFile
<1> QED BY <1>1, <1>2 DEF ByteOf

\* One header of CopyLoadSegments.
LEMMA CopyStep == ASSUME ElfInv, Elf!CopyLoadSegments PROVE ElfInv'
<1>1. /\ loader = "copy" /\ phdr' = phdr /\ low' = low /\ high' = high /\ allocated' = allocated
      /\ phdr \in Images /\ index \in Nat \ {0} /\ Reserved
      /\ \A k \in Loaded : k < index => Placed(phdr[k], contents)
  BY DEF Elf!CopyLoadSegments, ElfInv
<1>2. /\ Shift \in Nat /\ Len(phdr) \in Nat /\ DOMAIN phdr = 1 .. Len(phdr) /\ MemTop \in Nat
      /\ \A k \in DOMAIN phdr : /\ phdr[k].vaddr \in Nat /\ phdr[k].offset \in Nat
                                /\ phdr[k].filesz \in Nat /\ phdr[k].memsz \in Nat
  BY <1>1, Headers
<1>3. Loaded' = Loaded
  BY <1>1 DEF Loaded
<1>4. RangeFound' /\ (low .. high - 1 \subseteq allocated)' /\ (allocated \subseteq Elf!Bytes)'
  BY <1>1 DEF Reserved, RangeFound, Loaded
<1>5. CASE index <= Len(phdr) /\ phdr[index].load
  <2> DEFINE h == phdr[index]
  <2>1. /\ index' = index + 1 /\ loader' = "copy"
        /\ contents' = [b \in Elf!Bytes |->
                          CASE b \in Elf!Remain(h) -> Elf!Zero
                            [] b \in Elf!FromFile(h) -> b - Shift - h.vaddr + h.offset
                            [] OTHER -> contents[b]]
    BY <1>1, <1>5 DEF Elf!CopyLoadSegments, Elf!Load
  <2>2. /\ index \in Loaded /\ h.vaddr \in Nat /\ h.offset \in Nat /\ h.filesz \in Nat
        /\ h.memsz \in Nat /\ h.filesz <= h.memsz
    <3>1. index \in DOMAIN phdr
      BY <1>1, <1>2, <1>5
    <3>2. index \in Loaded /\ h.filesz <= h.memsz
      BY <1>1, <1>5, <3>1, ElfImages DEF Elf!ImagesAssumption, Loaded
    <3> QED BY <1>2, <3>1, <3>2
  <2> HIDE DEF h
  <2>3. ASSUME NEW b \in Elf!Bytes
        PROVE  /\ b \notin h.vaddr + Shift .. h.vaddr + Shift + h.memsz - 1 => contents'[b] = contents[b]
               /\ \A n \in 0 .. h.memsz - 1 : b = h.vaddr + Shift + n =>
                    contents'[b] = IF n < h.filesz THEN h.offset + n ELSE Elf!Zero
    <3>1. b \in Int
      BY <1>2 DEF Elf!Bytes
    <3>2. contents'[b] = ByteOf(h, b, contents[b])
      BY <2>1 DEF ByteOf
    <3> QED BY <1>2, <2>2, <3>1, <3>2, ByteCopied
  <2>4. ASSUME NEW k \in Loaded, NEW n \in 0 .. phdr[k].memsz - 1
        PROVE  phdr[k].vaddr + Shift + n \in allocated /\ phdr[k].vaddr + Shift + n \in Elf!Bytes
    <3>1. /\ low \in Nat /\ high \in Nat
          /\ low <= phdr[k].vaddr + Shift /\ phdr[k].vaddr + Shift + phdr[k].memsz <= high
      BY <1>1 DEF Reserved, RangeFound
    <3>2. phdr[k].vaddr \in Nat /\ phdr[k].memsz \in Nat
      BY <1>2 DEF Loaded
    <3>3. phdr[k].vaddr + Shift + n \in low .. high - 1
      <4>1. PICK v \in Nat, z \in Nat : v = phdr[k].vaddr /\ z = phdr[k].memsz
        BY <3>2
      <4>2. low <= v + Shift /\ v + Shift + z <= high /\ n \in 0 .. z - 1
        BY <3>1, <4>1
      <4>3. v + Shift + n \in low .. high - 1
        BY <1>2, <3>1, <4>2
      <4> QED BY <4>1, <4>3
    <3> QED BY <1>1, <3>3 DEF Reserved
  <2>5. Placed(h, contents')
    <3>1. ASSUME NEW n \in 0 .. h.memsz - 1
          PROVE  contents'[h.vaddr + Shift + n] = IF n < h.filesz THEN h.offset + n ELSE Elf!Zero
      <4>1. h.vaddr + Shift + n \in Elf!Bytes
        BY <2>2, <2>4 DEF h
      <4> QED BY <2>3, <4>1
    <3> QED BY <3>1 DEF Placed
  <2>6. ASSUME NEW k \in Loaded, k < index PROVE Placed(phdr[k], contents')
    <3>1. ASSUME NEW n \in 0 .. phdr[k].memsz - 1
          PROVE  contents'[phdr[k].vaddr + Shift + n] = contents[phdr[k].vaddr + Shift + n]
      <4>1. phdr[k].vaddr + Shift + n \in Elf!Bytes
        BY <2>4
      <4>2. phdr[k].vaddr \in Nat /\ phdr[k].memsz \in Nat /\ k # index
        BY <1>1, <1>2, <2>6 DEF Loaded
      <4>3. phdr[k].vaddr + phdr[k].memsz <= h.vaddr \/ h.vaddr + h.memsz <= phdr[k].vaddr
        BY <1>1, <2>2, <4>2, ElfImages DEF Elf!ImagesAssumption, Loaded, h
      <4>4. phdr[k].vaddr + Shift + n \notin h.vaddr + Shift .. h.vaddr + Shift + h.memsz - 1
        <5>1. PICK v \in Nat, z \in Nat, u \in Nat, w \in Nat :
                v = phdr[k].vaddr /\ z = phdr[k].memsz /\ u = h.vaddr /\ w = h.memsz
          BY <2>2, <4>2
        <5>2. (v + z <= u \/ u + w <= v) /\ n \in 0 .. z - 1
          BY <4>3, <5>1
        <5>3. v + Shift + n \notin u + Shift .. u + Shift + w - 1
          BY <1>2, <5>2
        <5> QED BY <5>1, <5>3
      <4> QED BY <2>3, <4>1, <4>4
    <3>2. Placed(phdr[k], contents)
      BY <1>1, <2>6
    <3> QED BY <3>1, <3>2 DEF Placed
  <2>7. ASSUME NEW k \in Loaded, k < index + 1 PROVE Placed(phdr[k], contents')
    <3>1. k < index \/ k = index
      BY <1>1, <1>2, <2>7 DEF Loaded
    <3> QED BY <2>5, <2>6, <3>1 DEF h
  <2>8. ASSUME NEW b \in Elf!Bytes, contents'[b] # Elf!Old PROVE b \in allocated
    <3>1. CASE b \in h.vaddr + Shift .. h.vaddr + Shift + h.memsz - 1
      <4>1. PICK n \in 0 .. h.memsz - 1 : b = h.vaddr + Shift + n
        <5>1. b - (h.vaddr + Shift) \in 0 .. h.memsz - 1 /\ b = h.vaddr + Shift + (b - (h.vaddr + Shift))
          BY <1>2, <2>2, <3>1
        <5> QED BY <5>1
      <4> QED BY <2>2, <2>4, <4>1 DEF h
    <3>2. CASE b \notin h.vaddr + Shift .. h.vaddr + Shift + h.memsz - 1
      BY <1>1, <2>3, <2>8, <3>2 DEF Reserved
    <3> QED BY <3>1, <3>2
  <2>9. Reserved'
    BY <1>1, <1>4, <2>8 DEF Reserved
  <2> QED BY <1>1, <1>3, <2>1, <2>7, <2>9 DEF ElfInv
<1>6. CASE index <= Len(phdr) /\ ~ phdr[index].load
  <2>1. index' = index + 1 /\ loader' = "copy" /\ contents' = contents
    BY <1>1, <1>6 DEF Elf!CopyLoadSegments, Elf!Load
  <2>2. ASSUME NEW k \in Loaded, k < index + 1 PROVE k < index
    BY <1>1, <1>2, <1>6, <2>2 DEF Loaded
  <2>3. Reserved'
    BY <1>1, <1>4, <2>1 DEF Reserved
  <2> QED BY <1>1, <1>3, <2>1, <2>2, <2>3 DEF ElfInv
<1>7. CASE ~ (index <= Len(phdr))
  <2>1. index' = 1 /\ loader' = "entry" /\ contents' = contents
    BY <1>1, <1>7 DEF Elf!CopyLoadSegments
  <2>2. ASSUME NEW k \in Loaded PROVE k < index
    BY <1>1, <1>2, <1>7 DEF Loaded
  <2>3. Reserved'
    BY <1>1, <1>4, <2>1 DEF Reserved
  <2> QED BY <1>1, <1>3, <2>1, <2>2, <2>3 DEF ElfInv
<1> QED BY <1>5, <1>6, <1>7

\* The entry point comes from the first byte of the lowest segment.
LEMMA EntryStep == ASSUME ElfInv, Elf!ReadEntry PROVE ElfInv'
<1>1. CASE Elf!Fails
  BY <1>1, LoaderFails
<1>2. CASE /\ entry' = contents[low] /\ loader' = "loaded" /\ phdr' = phdr /\ index' = index
           /\ low' = low /\ high' = high /\ allocated' = allocated /\ contents' = contents
  <2>1. /\ phdr \in Images /\ index \in Nat \ {0} /\ Reserved
        /\ \A k \in Loaded : Placed(phdr[k], contents)
    BY DEF Elf!ReadEntry, ElfInv
  <2>2. entry' = 0
    <3>1. PICK k \in Loaded : low = phdr[k].vaddr + Shift
      BY <2>1 DEF Reserved, RangeFound
    <3>2. /\ Shift \in Nat
          /\ \A j \in DOMAIN phdr : phdr[j].vaddr \in Nat /\ phdr[j].filesz \in Nat /\ phdr[j].memsz \in Nat
      BY <2>1, Headers
    <3>3. ASSUME NEW j \in DOMAIN phdr, phdr[j].load PROVE phdr[k].vaddr <= phdr[j].vaddr
      <4>1. low <= phdr[j].vaddr + Shift
        BY <2>1, <3>3 DEF Reserved, RangeFound, Loaded
      <4>2. phdr[k].vaddr \in Nat /\ phdr[j].vaddr \in Nat
        BY <3>2 DEF Loaded
      <4> QED BY <3>1, <3>2, <4>1, <4>2
    <3>4. phdr[k].offset = 0 /\ phdr[k].filesz > 0 /\ phdr[k].filesz <= phdr[k].memsz
      BY <2>1, <3>3, ElfImages DEF Elf!ImagesAssumption, Loaded
    <3>5. phdr[k].filesz \in Nat /\ phdr[k].memsz \in Nat /\ phdr[k].vaddr \in Nat
      BY <3>2 DEF Loaded
    <3>6. 0 \in 0 .. phdr[k].memsz - 1 /\ 0 < phdr[k].filesz /\ phdr[k].vaddr + Shift + 0 = low
      BY <3>1, <3>2, <3>4, <3>5
    <3>7. contents[phdr[k].vaddr + Shift + 0] = phdr[k].offset + 0
      BY <2>1, <3>6 DEF Placed
    <3> QED BY <1>2, <3>4, <3>6, <3>7
  <2>3. Reserved' /\ Loaded' = Loaded
    BY <1>2, <2>1 DEF Reserved, RangeFound, Loaded
  <2> QED BY <1>2, <2>1, <2>2, <2>3 DEF ElfInv
<1> QED BY <1>1, <1>2 DEF Elf!ReadEntry

\* Every step of the loader keeps ElfInv.
LEMMA LoaderNexts == ElfInv /\ [Elf!Next]_Elf!vars => ElfInv'
<1> SUFFICES ASSUME ElfInv, [Elf!Next]_Elf!vars PROVE ElfInv'
  OBVIOUS
<1>1. CASE Elf!ReadFile
  <2>1. CASE Elf!Fails
    BY <2>1, LoaderFails
  <2>2. CASE /\ loader' = "range" /\ phdr' = phdr /\ index' = index /\ low' = low /\ high' = high
             /\ allocated' = allocated /\ contents' = contents
    <3>1. /\ phdr \in Images /\ index = 1 /\ low = Elf!Infinity /\ high = 0 /\ Untouched
      BY <1>1 DEF Elf!ReadFile, ElfInv
    <3>2. /\ Elf!Infinity \in Nat /\ DOMAIN phdr = 1 .. Len(phdr)
      BY <3>1, Headers
    <3>3. \A k \in Loaded : ~ (k < 1)
      BY <3>2 DEF Loaded
    <3>4. Untouched' /\ Loaded' = Loaded
      BY <2>2, <3>1 DEF Untouched, Loaded
    <3> QED BY <2>2, <3>1, <3>2, <3>3, <3>4 DEF ElfInv
  <2> QED BY <1>1, <2>1, <2>2 DEF Elf!ReadFile
<1>2. CASE Elf!CalcLoadAddressRange
  BY <1>2, RangeStep
<1>3. CASE Elf!AllocatePages
  BY <1>3, AllocateStep
<1>4. CASE Elf!CopyLoadSegments
  BY <1>4, CopyStep
<1>5. CASE Elf!ReadEntry
  BY <1>5, EntryStep
<1>6. CASE UNCHANGED Elf!vars
  <2>1. Untouched' <=> Untouched
    BY <1>6 DEF Elf!vars, Untouched
  <2>2. Loaded' = Loaded /\ (RangeFound' <=> RangeFound)
    BY <1>6 DEF Elf!vars, Loaded, RangeFound
  <2>3. Reserved' <=> Reserved
    BY <1>6, <2>2 DEF Elf!vars, Reserved
  <2> QED BY <1>6, <2>1, <2>2, <2>3 DEF Elf!vars, ElfInv
<1> QED BY <1>1, <1>2, <1>3, <1>4, <1>5, <1>6 DEF Elf!Next, Elf!Ended

\* ElfInv says what is promised.
LEMMA LoadedIsWhole == ElfInv => KernelLoaded
<1> SUFFICES ASSUME ElfInv PROVE Elf!CopiesInside /\ Elf!SegmentsInPlace /\ Elf!EntryFromHeader
  BY DEF KernelLoaded, Elf!KernelLoaded
<1>1. Elf!CopiesInside
  BY DEF ElfInv, Reserved, Untouched, Elf!CopiesInside
<1>2. Elf!SegmentsInPlace
  BY DEF ElfInv, Placed, Loaded, Elf!SegmentsInPlace
<1>3. Elf!EntryFromHeader
  <2> SUFFICES ASSUME loader = "loaded" PROVE entry = 0 /\ low \in allocated
    BY DEF Elf!EntryFromHeader
  <2>1. phdr \in Images /\ entry = 0 /\ Reserved
    BY DEF ElfInv
  <2>2. PICK k \in Loaded : low = phdr[k].vaddr + Shift
    BY <2>1 DEF Reserved, RangeFound
  <2>3. /\ Shift \in Nat
        /\ \A j \in DOMAIN phdr : phdr[j].vaddr \in Nat /\ phdr[j].filesz \in Nat /\ phdr[j].memsz \in Nat
    BY <2>1, Headers
  <2>4. \A j \in DOMAIN phdr : phdr[j].load => phdr[k].vaddr <= phdr[j].vaddr
    <3> SUFFICES ASSUME NEW j \in DOMAIN phdr, phdr[j].load PROVE phdr[k].vaddr <= phdr[j].vaddr
      OBVIOUS
    <3>1. low <= phdr[j].vaddr + Shift
      BY <2>1 DEF Reserved, RangeFound, Loaded
    <3>2. phdr[k].vaddr \in Nat /\ phdr[j].vaddr \in Nat
      BY <2>3 DEF Loaded
    <3> QED BY <2>2, <2>3, <3>1, <3>2
  <2>5. phdr[k].filesz > 0 /\ phdr[k].filesz <= phdr[k].memsz
    BY <2>1, <2>4, ElfImages DEF Elf!ImagesAssumption, Loaded
  <2>6. low \in Nat /\ high \in Nat /\ phdr[k].vaddr + Shift + phdr[k].memsz <= high
    BY <2>1 DEF Reserved, RangeFound
  <2>7. phdr[k].filesz \in Nat /\ phdr[k].memsz \in Nat /\ phdr[k].vaddr \in Nat
    BY <2>3 DEF Loaded
  <2>8. low \in low .. high - 1
    BY <2>2, <2>3, <2>5, <2>6, <2>7
  <2> QED BY <2>1, <2>8 DEF Reserved
<1> QED BY <1>1, <1>2, <1>3

\* BootMain loads a kernel whole, every segment in its place with its file's
\* bytes and its zeroes, writes nowhere outside the pages it reserved and reads
\* the entry point from the file's header: for any number of segments in any
\* order, any page size and any memory.
THEOREM KernelIsLoaded == Elf!Spec => []KernelLoaded
<1> QED BY LoaderInits, LoaderNexts, LoadedIsWhole, PTL DEF Elf!Spec
=============================================================================
