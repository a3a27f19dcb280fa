-------------------------------- MODULE Boot --------------------------------
(***************************************************************************)
(* The way from the UEFI loader to a kernel that allocates memory:         *)
(* BootMain of boot/boot.c, the entry _vMain of kernel/asm.S and the first *)
(* calls of vMain, up to init_mem and alloc_mem (module Memlist).          *)
(*                                                                         *)
(* What the loader sets up for the kernel stays in memory the loader took  *)
(* from the firmware.  Whether the kernel's allocator leaves it alone is   *)
(* decided by the memory type given to each AllocatePages call, by the map *)
(* handed over, and by which tables the kernel still uses when it calls    *)
(* init_mem.                                                               *)
(*                                                                         *)
(* Memory is counted in units of one megabyte: the image at 0x100000, the  *)
(* stack at 0x500000 and its 256 pages are whole units; an area the        *)
(* firmware places is given a unit of its own.                             *)
(***************************************************************************)
EXTENDS Integers, Sequences

CONSTANTS LastUnit,     \* the highest unit of memory
          FirmwareMaps, \* memory maps at the start: unit -> type
          MaxChanges,   \* changes the firmware makes to the map on its own
          Sizes         \* sizes the kernel allocates later

Units == 0 .. LastUnit

VARIABLES memtype,      \* the firmware's memory map: unit -> type
          version,      \* its map key
          changes,      \* changes the firmware made on its own
          area,         \* what BootMain allocated: name -> unit, or Nowhere
          step,         \* allocations done
          memmap, key,  \* the map and key BootMain got last
          pc,
          pml4,         \* the entries present in the loaded PML4
          map, pos, start, pages, memlist, used, ptr    \* kernel/mem.c

memVars == <<map, pos, start, pages, memlist, used, ptr>>
vars == <<memtype, version, changes, area, step, memmap, key, pc, pml4, memVars>>

Mem == INSTANCE Memlist WITH MemMaps <- {<<>>}

ASSUME MapsAssumption == FirmwareMaps \subseteq [Units -> Mem!MemTypes]
ASSUME BootAssumption ==
  LastUnit \in Nat /\ LastUnit >= 6 /\ MaxChanges \in Nat /\ Sizes \subseteq Nat

Anywhere == -1
Nowhere == -1

\* The AllocatePages calls (and the AllocatePool of ReadFile), in order.
Alloc(name, at, type) == [name |-> name, at |-> at, type |-> type]

Plan == <<
  Alloc("kernel_buffer", Anywhere, "EfiLoaderData"),
  Alloc("image", 1, "EfiUnusableMemory"),
  Alloc("stack", 5, "EfiUnusableMemory"),
  Alloc("pml4", Anywhere, "EfiUnusableMemory"),
  Alloc("pdp", Anywhere, "EfiLoaderData"),
  Alloc("page_dir", Anywhere, "EfiLoaderData"),
  Alloc("actual_page_dir", Anywhere, "EfiUnusableMemory"),
  Alloc("actual_page_dir2", Anywhere, "EfiUnusableMemory"),
  Alloc("kernel_pdp", Anywhere, "EfiUnusableMemory"),
  Alloc("kernel_pdp2", Anywhere, "EfiLoaderData"),
  Alloc("kernel_page_directory", Anywhere, "EfiUnusableMemory"),
  Alloc("kernel_page_table", Anywhere, "EfiUnusableMemory") >>

Areas == {Plan[i].name : i \in 1 .. Len(Plan)}

\* The tables BootMain hangs under each PML4 entry: 0 maps the first 128 GB
\* to themselves, 256 maps the kernel and physical memory from
\* 0xffff806000000000 on, 257 the rest of physical memory.
Under(e) ==
  CASE e = 0 -> {"pdp", "page_dir"}
    [] e = 256 -> {"kernel_pdp", "kernel_page_directory", "kernel_page_table",
                   "actual_page_dir"}
    [] e = 257 -> {"kernel_pdp2", "actual_page_dir2"}

MaxVersion == Len(Plan) + 1 + MaxChanges

TypeOK ==
  /\ memtype \in [Units -> Mem!MemTypes]
  /\ version \in 0 .. MaxVersion
  /\ changes \in 0 .. MaxChanges
  /\ area \in [Areas -> Units \cup {Nowhere}]
  /\ step \in 0 .. Len(Plan)
  /\ memmap \in [Units -> Mem!MemTypes]
  /\ key \in -1 .. MaxVersion
  /\ pc \in {"alloc", "free", "getmap", "exit", "getmap2", "exit2", "stopped",
             "vMain", "paged", "running"}
  /\ pml4 \subseteq {0, 256, 257}
  /\ Mem!TypeOK

Init ==
  /\ memtype \in FirmwareMaps
  /\ version = 0
  /\ changes = 0
  /\ area = [a \in Areas |-> Nowhere]
  /\ step = 0
  /\ memmap = memtype
  /\ key = -1
  /\ pc = "alloc"
  /\ pml4 = {}
  /\ Mem!Init

----------------------------------------------------------------------------
(* The firmware (external).                                                *)

Free == {u \in Units : memtype[u] = "EfiConventionalMemory"}

\* Where AllocateAnyPages puts something: at the top of free memory, as the
\* usual firmware does, or at its bottom.
AnyPlace == {u \in Free : (\A v \in Free : v <= u) \/ (\A v \in Free : u <= v)}

\* Until boot services end, the firmware's own timers and drivers may change
\* the map at any time.
FirmwareChangesMap ==
  /\ pc \notin {"stopped", "vMain", "paged", "running"}
  /\ changes < MaxChanges
  /\ \E u \in AnyPlace : memtype' = [memtype EXCEPT ![u] = "EfiBootServicesData"]
  /\ version' = version + 1
  /\ changes' = changes + 1
  /\ UNCHANGED <<area, step, memmap, key, pc, pml4, memVars>>

----------------------------------------------------------------------------
(* BootMain.                                                               *)

\* One AllocatePages (or AllocatePool) that succeeds.
AllocatePages ==
  /\ pc = "alloc"
  /\ step < Len(Plan)
  /\ LET a == Plan[step + 1]
     IN  \E u \in IF a.at = Anywhere THEN AnyPlace ELSE Free \cap {a.at} :
           /\ memtype' = [memtype EXCEPT ![u] = a.type]
           /\ area' = [area EXCEPT ![a.name] = u]
           /\ pc' = IF a.name = "image" THEN "free" ELSE "alloc"
  /\ version' = version + 1
  /\ step' = step + 1
  /\ UNCHANGED <<changes, memmap, key, pml4, memVars>>

\* It fails, when the memory is taken or not there: EFI_ERROR halts.
AllocationFails ==
  /\ pc = "alloc"
  /\ step < Len(Plan)
  /\ (IF Plan[step + 1].at = Anywhere THEN AnyPlace ELSE Free \cap {Plan[step + 1].at}) = {}
  /\ pc' = "stopped"
  /\ UNCHANGED <<memtype, version, changes, area, step, memmap, key, pml4, memVars>>

\* The segments are copied to the image and the file's buffer is freed.
FreePool ==
  /\ pc = "free"
  /\ memtype' = [memtype EXCEPT ![area["kernel_buffer"]] = "EfiConventionalMemory"]
  /\ version' = version + 1
  /\ area' = [area EXCEPT !["kernel_buffer"] = Nowhere]
  /\ pc' = "alloc"
  /\ UNCHANGED <<changes, step, memmap, key, pml4, memVars>>

\* All tables are filled in and linked from the PML4.
BuildTables ==
  /\ pc = "alloc"
  /\ step = Len(Plan)
  /\ pml4' = {0, 256, 257}
  /\ pc' = "getmap"
  /\ UNCHANGED <<memtype, version, changes, area, step, memmap, key, memVars>>

\* Ask for the map, the first time or once more before the retry.
GetMemoryMap ==
  /\ pc \in {"getmap", "getmap2"}
  /\ memmap' = memtype
  /\ key' = version
  /\ pc' = IF pc = "getmap" THEN "exit" ELSE "exit2"
  /\ UNCHANGED <<memtype, version, changes, area, step, pml4, memVars>>

\* It succeeds only with the key of the current map.  CR3 is loaded and the
\* kernel entered, with memmap as its argument.
ExitBootServices ==
  /\ pc \in {"exit", "exit2"}
  /\ key = version
  /\ pc' = "vMain"
  /\ UNCHANGED <<memtype, version, changes, area, step, memmap, key, pml4, memVars>>

\* Mutant: the first failure is hidden and nothing else.
ExitFails_hidden ==
  /\ pc \in {"exit", "exit2"}
  /\ key # version
  /\ pc' = IF pc = "exit" THEN "vMain" ELSE "stopped"
  /\ UNCHANGED <<memtype, version, changes, area, step, memmap, key, pml4, memVars>>

\* The first failure is hidden and retried once, the second one halts.
ExitFails ==
  /\ pc \in {"exit", "exit2"}
  /\ key # version
  /\ pc' = IF pc = "exit" THEN "getmap2" ELSE "stopped"
  /\ UNCHANGED <<memtype, version, changes, area, step, memmap, key, pml4, memVars>>

----------------------------------------------------------------------------
(* vMain.                                                                  *)

\* Mutant: the PML4 keeps its entry 0.
actual_init_paging_keep ==
  /\ pc = "vMain"
  /\ pc' = "paged"
  /\ UNCHANGED <<memtype, version, changes, area, step, memmap, key, pml4, memVars>>

\* Drop the mapping of the low addresses to themselves.
actual_init_paging ==
  /\ pc = "vMain"
  /\ pml4' = pml4 \ {0}
  /\ pc' = "paged"
  /\ UNCHANGED <<memtype, version, changes, area, step, memmap, key, memVars>>

\* Call init_mem with the map BootMain got: its descriptors in address order.
CallInitMem ==
  /\ pc = "paged"
  /\ map' = [i \in 1 .. LastUnit + 1 |->
               [start |-> i - 1, pages |-> 1, type |-> memmap[i - 1]]]
  /\ pc' = "running"
  /\ UNCHANGED <<memtype, version, changes, area, step, memmap, key, pml4,
                 pos, start, pages, memlist, used, ptr>>

\* init_mem works through the map; everything after it allocates.
KernelMemory ==
  /\ pc = "running"
  /\ Mem!init_mem \/ \E n \in Sizes : Mem!alloc_mem(n)
  /\ UNCHANGED <<memtype, version, changes, area, step, memmap, key, pc, pml4>>

Next ==
  \/ FirmwareChangesMap
  \/ AllocatePages \/ AllocationFails \/ FreePool \/ BuildTables
  \/ GetMemoryMap \/ ExitBootServices \/ ExitFails
  \/ actual_init_paging \/ CallInitMem \/ KernelMemory

Spec == Init /\ [][Next]_vars

----------------------------------------------------------------------------
\* What the kernel's allocator regards as its own: listed or handed out.
KernelOwned == Mem!FreePages \cup Mem!UsedPages

InKernel == pc \in {"vMain", "paged", "running"}

\* The map handed to the kernel is the one the firmware left behind, also
\* when the first ExitBootServices failed because the map had changed.
HandedMapCurrent == InKernel => memmap = memtype /\ key = version

\* While the kernel lists and hands out memory it leaves alone its image, the
\* PML4 and every table under the entries 0 and 256 that are still present:
\* the kernel's own mapping and the lower 128 GB of physical memory.
KernelTablesKept ==
  pc = "running" =>
    \A a \in {"image", "pml4"} \cup UNION {Under(e) : e \in pml4 \cap {0, 256}} :
      area[a] \notin KernelOwned

\* The unit below the stack pointer _vMain loads, 0xffff800000600000, under
\* the kernel mapping 0xffff8000xxxxxxxx -> 0x100000 + xxxxxxxx.
StackUnit == 1 + 5

\* The loader reserves the kernel's stack ("stack = kernel + 4MB", 256 pages
\* from 0x500000; _vMain: "0xffff800000000000 + 0x500000 + 4096 * 256"): no
\* memory the kernel runs its stack in is ever handed out by alloc_mem.
StackKept == StackUnit \notin Mem!UsedPages

\* "physical address mapping(512GB)": what alloc_mem hands out never includes
\* a table of the mapping from 0xffff806000000000 on.
PhysicalMappingKept ==
  pc = "running" => \A a \in UNION {Under(e) : e \in pml4} : area[a] \notin Mem!UsedPages
=============================================================================
