------------------------------ MODULE Memlist ------------------------------
(***************************************************************************)
(* The physical page allocator of kernel/mem.c: init_mem walks the UEFI    *)
(* memory map and links every run of usable descriptors into a free list,  *)
(* alloc_mem takes pages from the first block that is large enough.        *)
(*                                                                         *)
(* Addresses and sizes are in pages of 4096 bytes.  The list is the        *)
(* sequence of the blocks reachable from memlist.next; each block's header *)
(* lives in its own first page, so the list is right only as long as       *)
(* blocks stay apart from each other and from memory in use.               *)
(* The kernel never frees (free_mem is modelled in MemlistFree).           *)
(***************************************************************************)
EXTENDS Naturals, Sequences

CONSTANTS MemMaps,   \* memory maps the firmware may hand over
          Sizes      \* numbers of pages the kernel asks for

\* A memory map is a sequence of descriptors (EFI_MEMORY_DESCRIPTOR) that
\* cover at least one page each and do not overlap; they need not be sorted.
MemTypes == {"EfiReservedMemoryType", "EfiLoaderCode", "EfiLoaderData",
             "EfiBootServicesCode", "EfiBootServicesData",
             "EfiRuntimeServicesCode", "EfiRuntimeServicesData",
             "EfiConventionalMemory", "EfiUnusableMemory", "EfiACPIReclaimMemory",
             "EfiACPIMemoryNVS", "EfiMemoryMappedIO", "EfiMemoryMappedIOPortSpace",
             "EfiPalCode", "EfiPersistentMemory"}

Block == [start : Nat, pages : Nat \ {0}]
Descriptor == [start : Nat, pages : Nat \ {0}, type : MemTypes]

\* The pages [b.start, b.start + b.pages) of two blocks have none in common.
Disjoint(a, b) == a.start + a.pages <= b.start \/ b.start + b.pages <= a.start

ASSUME MemMapsAssumption ==
  \A map \in MemMaps :
    /\ map \in Seq(Descriptor)
    /\ \A i, j \in 1 .. Len(map) : i # j => Disjoint(map[i], map[j])
ASSUME SizesAssumption == Sizes \subseteq Nat

VARIABLES map,       \* the map init_mem was called with
          pos,       \* init_mem: the next descriptor, m in the code
          start,     \* init_mem: start of the run being gathered, 0 if none
          pages,     \* init_mem: its length
          memlist,   \* the blocks linked from memlist.next, in order
          used,      \* history: the blocks alloc_mem handed out
          ptr        \* what alloc_mem returned last, 0 for NULL

vars == <<map, pos, start, pages, memlist, used, ptr>>
initVars == <<map, pos, start, pages>>

isUsableMemType(type) ==
  type \in {"EfiLoaderCode", "EfiLoaderData", "EfiBootServicesCode",
            "EfiBootServicesData", "EfiConventionalMemory"}

TypeOK ==
  /\ map \in Seq(Descriptor)
  /\ pos \in 1 .. Len(map) + 1
  /\ start \in Nat
  /\ pages \in Nat
  /\ memlist \in Seq(Block)
  /\ used \subseteq Block
  /\ ptr \in Nat

Init ==
  /\ map \in MemMaps
  /\ pos = 1
  /\ start = 0
  /\ pages = 0
  /\ memlist = <<>>
  /\ used = {}
  /\ ptr = 0

----------------------------------------------------------------------------
(* init_mem: one step per descriptor.                                      *)

\* Mutant: a run is extended across a hole.
GatherUsable_overHole(d) ==
  /\ isUsableMemType(d.type)
  /\ start' = IF start = 0 THEN d.start ELSE start
  /\ pages' = IF start = 0 THEN d.pages ELSE pages + d.pages
  /\ UNCHANGED memlist

\* Mutant: adjacency is tested one page too early.
GatherUsable_offByOne(d) ==
  /\ isUsableMemType(d.type)
  /\ start' = IF start = 0 THEN d.start ELSE start
  /\ pages' = IF start = 0 THEN d.pages
              ELSE IF start + pages = d.start + 1 THEN pages + d.pages
              ELSE pages
  /\ UNCHANGED memlist

\* Mutant: a descriptor behind a gap takes the place of the run before it.
GatherUsable_restart(d) ==
  /\ isUsableMemType(d.type)
  /\ start' = IF start + pages = d.start THEN start ELSE d.start
  /\ pages' = IF start + pages = d.start THEN pages + d.pages ELSE d.pages
  /\ UNCHANGED memlist

\* A usable descriptor starts a run, or extends the run it is adjacent to;
\* one that is neither is passed over.
GatherUsable(d) ==
  /\ isUsableMemType(d.type)
  /\ start' = IF start = 0 THEN d.start ELSE start
  /\ pages' = IF start = 0 THEN d.pages
              ELSE IF start + pages = d.start THEN pages + d.pages
              ELSE pages
  /\ UNCHANGED memlist

\* Any other descriptor ends the run: its block goes to the end of the list.
FlushRun(d) ==
  /\ ~isUsableMemType(d.type)
  /\ memlist' = IF start # 0
                THEN Append(memlist, [start |-> start, pages |-> pages])
                ELSE memlist
  /\ start' = 0
  /\ UNCHANGED pages

init_mem ==
  /\ pos <= Len(map)
  /\ GatherUsable(map[pos]) \/ FlushRun(map[pos])
  /\ pos' = pos + 1
  /\ UNCHANGED <<map, used, ptr>>

InitDone == pos = Len(map) + 1

----------------------------------------------------------------------------
\* prev->next = m->next for the k-th block.
Unlink(s, k) == [j \in 1 .. Len(s) - 1 |-> IF j < k THEN s[j] ELSE s[j + 1]]

\* The k-th block is the first that holds n pages.
FirstFit(k, n) ==
  /\ memlist[k].pages >= n
  /\ \A j \in 1 .. k - 1 : memlist[j].pages < n

\* Mutant: the rest still starts where the block did.
CutFrom_sameStart(k, n) ==
  IF memlist[k].pages = n THEN Unlink(memlist, k)
  ELSE [memlist EXCEPT ![k].pages = @ - n]

\* Mutant: the whole block is unlinked.
CutFrom_dropRest(k, n) == Unlink(memlist, k)

\* The list after n pages were cut from the front of the k-th block: an exact
\* fit is unlinked, otherwise the rest becomes a block in its place.  For
\* n = 0 the rest is the block itself, which is returned and stays free.
CutFrom(k, n) ==
  IF memlist[k].pages = n THEN Unlink(memlist, k)
  ELSE [memlist EXCEPT ![k] = [start |-> memlist[k].start + n,
                               pages |-> memlist[k].pages - n]]

TakeFrom(k, n) ==
  /\ FirstFit(k, n)
  /\ ptr' = memlist[k].start
  /\ memlist' = CutFrom(k, n)
  /\ used' = IF n = 0 THEN used
             ELSE used \cup {[start |-> memlist[k].start, pages |-> n]}

OutOfMemory(n) ==
  /\ \A k \in 1 .. Len(memlist) : memlist[k].pages < n
  /\ ptr' = 0
  /\ UNCHANGED <<memlist, used>>

alloc_mem(n) ==
  /\ InitDone
  /\ (\E k \in 1 .. Len(memlist) : TakeFrom(k, n)) \/ OutOfMemory(n)
  /\ UNCHANGED initVars

Next == init_mem \/ \E n \in Sizes : alloc_mem(n)

Spec == Init /\ [][Next]_vars

----------------------------------------------------------------------------
PagesOf(b) == b.start .. b.start + b.pages - 1

FreePages == UNION {PagesOf(memlist[k]) : k \in 1 .. Len(memlist)}
UsedPages == UNION {PagesOf(b) : b \in used}

\* No page is in two blocks of the free list, in two allocations, or both
\* free and allocated.  A block header written by alloc_mem or init_mem
\* therefore never lands in memory somebody uses, and two callers of
\* alloc_mem (rings, contexts, page tables) never share a page.
NoSharing ==
  /\ \A i, j \in 1 .. Len(memlist) : i # j => Disjoint(memlist[i], memlist[j])
  /\ \A a, b \in used : a # b => Disjoint(a, b)
  /\ \A a \in used : \A k \in 1 .. Len(memlist) : Disjoint(a, memlist[k])

\* Page 0 is never listed: alloc_mem's NULL always means out of memory.
NullMeansFailure == \A k \in 1 .. Len(memlist) : memlist[k].start # 0

\* Once init_mem is done, alloc_mem moves pages from the list to its callers
\* without losing or inventing any.
AllocConserves ==
  [][InitDone => (FreePages \cup UsedPages)' = FreePages \cup UsedPages]_vars

\* What the firmware keeps (runtime services, the kernel image, the page
\* tables: everything not of a usable type) is never listed or handed out.
OnlyUsablePages ==
  \A b \in {memlist[k] : k \in 1 .. Len(memlist)} \cup used :
    \A p \in PagesOf(b) :
      \E i \in 1 .. Len(map) : isUsableMemType(map[i].type) /\ p \in PagesOf(map[i])

\* While init_mem reads the map it writes block headers into memory that counts
\* as usable, and the map itself, on the firmware's stack, lies in such memory.
\* A header only ever goes to the first page of a run: the start of a usable
\* descriptor that no usable one precedes (one at page 0 counts as none).  A
\* map further up in its region is not overwritten before it has been read.
HeadersAtRunStarts ==
  used = {} /\ ~InitDone =>
    \A k \in 1 .. Len(memlist) : \E i \in 1 .. Len(map) :
      /\ map[i].start = memlist[k].start /\ isUsableMemType(map[i].type)
      /\ i > 1 => ~isUsableMemType(map[i - 1].type) \/ map[i - 1].start = 0

\* For which maps init_mem finds all there is: no usable descriptor at page
\* 0, none that follows another one after a gap, and none at the end.
Complete(mm) ==
  /\ \A i \in 1 .. Len(mm) : isUsableMemType(mm[i].type) =>
        mm[i].start # 0 /\ i < Len(mm)
  /\ \A i \in 2 .. Len(mm) :
        isUsableMemType(mm[i - 1].type) /\ isUsableMemType(mm[i].type)
          => mm[i].start = mm[i - 1].start + mm[i - 1].pages

\* On such a map every usable page is in the free list when init_mem ends.
NothingLost ==
  InitDone /\ used = {} /\ Complete(map) =>
    FreePages = UNION {PagesOf(d) : d \in {map[i] : i \in
                        {j \in 1 .. Len(map) : isUsableMemType(map[j].type)}}}
============================================================================
