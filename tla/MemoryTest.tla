----------------------------- MODULE MemoryTest -----------------------------
(***************************************************************************)
(* The memory test of vMain (kernel/kernel.c, compiled in with TEST_MEM):  *)
(* four allocations, then the four blocks are freed in another order.      *)
(***************************************************************************)
EXTENDS MemlistFree

CONSTANTS TestSizes,   \* alloc_mem(100), (919), (30), (50)
          FreeOrder    \* free_mem of ptr1, ptr4, ptr3, ptr2

VARIABLES line,        \* calls made so far
          ptrs         \* ptr1 to ptr4

TestInit == Init /\ line = 0 /\ ptrs = <<>>

NumAllocs == Len(TestSizes)

TestAlloc ==
  /\ line < NumAllocs
  /\ CallAlloc(TestSizes[line + 1])
  /\ line' = line + 1
  /\ ptrs' = IF line = 0 THEN ptrs ELSE Append(ptrs, ptr)

TestFree ==
  /\ line >= NumAllocs /\ line < NumAllocs + Len(FreeOrder)
  /\ ptrs' = IF line = NumAllocs THEN Append(ptrs, ptr) ELSE ptrs
  /\ LET i == FreeOrder[line - NumAllocs + 1]
     IN  CallFree([start |-> ptrs'[i], pages |-> TestSizes[i]])
  /\ line' = line + 1

Walk == (alloc_mem \/ free_mem \/ free_mem_return) /\ UNCHANGED <<line, ptrs>>

TestNext == TestAlloc \/ TestFree \/ Walk

TestSpec == TestInit /\ [][TestNext]_<<vars, line, ptrs>>

RegionPages == UNION {PagesOf(Regions[i].start, Regions[i].pages) : i \in DOMAIN Regions}

\* The memory test ends with every page back on the free list, in one block
\* each: a freed block is linked in or merged with its neighbours, and no
\* block that was on the list before is lost.
TestRestoresList ==
  line = NumAllocs + Len(FreeOrder) /\ pc # "free" =>
    /\ pc # "crashed"
    /\ UNION {PagesOf(b, hdr[b].pages) : b \in Listed} = RegionPages
    /\ \A a, b \in Listed : a # b => PagesOf(a, hdr[a].pages) \cap PagesOf(b, hdr[b].pages) = {}
============================================================================
