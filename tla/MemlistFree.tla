---------------------------- MODULE MemlistFree ----------------------------
(***************************************************************************)
(* free_mem of kernel/mem.c at the level of its pointers, with alloc_mem   *)
(* beside it.  The block headers {next, pages} live in the first page of   *)
(* each free block, so headers are a function on pages and a walk follows  *)
(* whatever the pages contain.  Both functions are modelled one loop       *)
(* iteration per step.                                                     *)
(*                                                                         *)
(* Calls come in any order: only the memory test of kernel/kernel.c calls  *)
(* free_mem, but what it leaves on the list is what init_interrupt and     *)
(* init_pci allocate from.  The test runs before init_interrupt, when no   *)
(* page-fault handler is installed, so that a read through a null pointer  *)
(* stops the machine ("crashed").                                          *)
(*                                                                         *)
(* free_mem may leave a page in two blocks of the list: with the blocks of *)
(* pages 1, 2 and 3 freed in the order 1, 3, 2, block 1 grows to pages 1   *)
(* and 2 while page 2 is linked in again behind it.  An allocation from    *)
(* such a list may hand out pages that stay listed, so doubled records     *)
(* whether alloc_mem was called on one; no guard depends on it.            *)
(***************************************************************************)
EXTENDS Naturals, Sequences, FiniteSets

CONSTANTS Regions,    \* the blocks init_mem made, a sequence in address order
          LastPage,   \* the highest page of any region
          Sizes,      \* sizes that are requested
          MaxAllocs   \* how many calls of alloc_mem are looked at

Pages == 1 .. LastPage
NULL == 0                        \* also stands for &memlist as prev
Ptr == Pages \cup {NULL}
Header == [next : Ptr, pages : 0 .. LastPage]

\* What init_mem makes (Memlist): blocks of free memory, apart from each other.
ASSUME RegionsAssumption ==
  /\ LastPage \in Nat /\ MaxAllocs \in Nat /\ Sizes \subseteq Nat \ {0}
  /\ Regions \in Seq([start : Pages, pages : Nat \ {0}])
  /\ \A i \in DOMAIN Regions : Regions[i].start + Regions[i].pages <= LastPage + 1
  /\ \A i, j \in DOMAIN Regions : i # j =>
       \/ Regions[i].start + Regions[i].pages <= Regions[j].start
       \/ Regions[j].start + Regions[j].pages <= Regions[i].start

VARIABLES head,       \* memlist.next
          hdr,        \* the header words in each page
          live,       \* blocks allocated and not freed
          allocs,     \* calls of alloc_mem so far, up to MaxAllocs
          doubled,    \* history: was one of them on a list not ListApart?
          pc,         \* idle, in alloc_mem, in free_mem, crashed
          prev, m,    \* the loop variables of both functions
          ptr, pages  \* their arguments and alloc_mem's result

vars == <<head, hdr, live, allocs, doubled, pc, prev, m, ptr, pages>>

TypeOK ==
  /\ head \in Ptr
  /\ hdr \in [Pages -> Header]
  /\ live \subseteq [start : Pages, pages : Sizes]
  /\ allocs \in 0 .. MaxAllocs /\ doubled \in BOOLEAN
  /\ pc \in {"idle", "alloc", "free", "crashed"}
  /\ prev \in Ptr /\ m \in Ptr /\ ptr \in Ptr
  /\ pages \in Sizes \cup {0}

Init ==
  /\ head = IF Regions = <<>> THEN NULL ELSE Regions[1].start
  /\ hdr = [p \in Pages |->
              IF \E i \in DOMAIN Regions : Regions[i].start = p
              THEN LET i == CHOOSE i \in DOMAIN Regions : Regions[i].start = p
                   IN  [next |-> IF i = Len(Regions) THEN NULL ELSE Regions[i + 1].start,
                        pages |-> Regions[i].pages]
              ELSE [next |-> NULL, pages |-> 0]]
  /\ live = {}
  /\ allocs = 0 /\ doubled = FALSE
  /\ pc = "idle"
  /\ prev = NULL /\ m = NULL /\ ptr = NULL
  /\ pages = 0

----------------------------------------------------------------------------
(* The list as a walk from its head finds it.                              *)

\* Each region and each allocation adds at most one block.
MaxBlocks == Len(Regions) + MaxAllocs

After(b) == IF b = NULL THEN NULL ELSE hdr[b].next

\* The first pages of the blocks, following next from the head.
At[k \in 1 .. MaxBlocks + 1] == IF k = 1 THEN head ELSE After(At[k - 1])
Listed == {At[k] : k \in 1 .. MaxBlocks + 1} \ {NULL}

PagesOf(start, n) == start .. start + n - 1

\* The list ends and no page is in two of its blocks.
ListApart ==
  /\ At[MaxBlocks + 1] = NULL
  /\ \A i, j \in 1 .. MaxBlocks : i # j /\ At[i] # NULL /\ At[j] # NULL =>
       PagesOf(At[i], hdr[At[i]].pages) \cap PagesOf(At[j], hdr[At[j]].pages) = {}

----------------------------------------------------------------------------
\* Enter a function: prev = &memlist, m = memlist.next.
StartWalk == prev' = NULL /\ m' = head

----------------------------------------------------------------------------
(* alloc_mem *)

CallAlloc(n) ==
  /\ pc = "idle" /\ allocs < MaxAllocs
  /\ pc' = "alloc" /\ pages' = n /\ ptr' = NULL
  /\ StartWalk
  /\ allocs' = allocs + 1 /\ doubled' = (doubled \/ ~ ListApart)
  /\ UNCHANGED <<head, hdr, live>>

\* prev->next = x, where prev may be the list head.
LinkTo(h, x) ==
  IF prev = NULL THEN head' = x /\ hdr' = h
  ELSE head' = head /\ hdr' = [h EXCEPT ![prev].next = x]

alloc_mem ==
  /\ pc = "alloc"
  /\ CASE m # NULL /\ hdr[m].pages = pages ->
            /\ LinkTo(hdr, hdr[m].next)
            /\ live' = live \cup {[start |-> m, pages |-> pages]}
            /\ ptr' = m /\ pc' = "idle"
            /\ UNCHANGED <<prev, m>>
       [] m # NULL /\ hdr[m].pages > pages ->
            /\ LinkTo([hdr EXCEPT ![m + pages] = [next |-> hdr[m].next,
                                                  pages |-> hdr[m].pages - pages]],
                      m + pages)
            /\ live' = live \cup {[start |-> m, pages |-> pages]}
            /\ ptr' = m /\ pc' = "idle"
            /\ UNCHANGED <<prev, m>>
       [] m # NULL /\ hdr[m].pages < pages ->
            /\ prev' = m /\ m' = hdr[m].next
            /\ UNCHANGED <<head, hdr, live, ptr, pc>>
       [] m = NULL -> pc' = "idle" /\ UNCHANGED <<head, hdr, live, ptr, prev, m>>
  /\ UNCHANGED <<allocs, doubled, pages>>

----------------------------------------------------------------------------
(* free_mem: the four tests of one iteration, in order, each on the state  *)
(* the one before left: list head h, headers w, loop pointer c.            *)

CallFree(b) ==
  /\ pc = "idle" /\ b \in live
  /\ live' = live \ {b}
  /\ pc' = "free" /\ ptr' = b.start /\ pages' = b.pages
  /\ StartWalk
  /\ UNCHANGED <<head, hdr, allocs, doubled>>

\* not merged any block (before all memlists)
InsertFirst(s) ==
  IF prev = NULL /\ ptr < s.c
  THEN [h |-> ptr, w |-> [s.w EXCEPT ![ptr] = [next |-> s.c, pages |-> pages]], c |-> ptr]
  ELSE s

\* not merged any block
InsertAfterPrev(s) ==
  IF prev # NULL /\ prev + s.w[prev].pages < ptr
  THEN [h |-> s.h,
        w |-> [s.w EXCEPT ![ptr] = [next |-> s.w[prev].next, pages |-> pages],
                          ![prev].next = ptr],
        c |-> ptr]
  ELSE s

\* merge next block: prev->next = ml comes before ml->next = m->next, which
\* matters when prev is the block just inserted.
MergeNext(s) ==
  IF ptr + pages = s.c
  THEN LET w1 == IF prev = NULL THEN s.w ELSE [s.w EXCEPT ![prev].next = ptr]
           w2 == [w1 EXCEPT ![ptr] = [next |-> w1[s.c].next,
                                      pages |-> pages + w1[s.c].pages]]
           h2 == IF prev = NULL THEN ptr ELSE s.h
       IN  [h |-> h2, w |-> w2, c |-> IF prev = NULL THEN h2 ELSE w2[prev].next]
  ELSE s

\* Mutant: any block before the freed one is taken for its neighbour.
MergePrev_before(s) ==
  IF s.c + s.w[s.c].pages <= ptr
  THEN [s EXCEPT !.w[s.c].pages = @ + pages]
  ELSE s

\* merge prev block
MergePrev(s) ==
  IF s.c + s.w[s.c].pages = ptr
  THEN [s EXCEPT !.w[s.c].pages = @ + pages]
  ELSE s

\* One iteration.  The last test reads m->pages, also when MergeNext left m
\* null: then there is no header to read.
free_mem ==
  /\ pc = "free"
  /\ m # NULL
  /\ LET s == MergeNext(InsertAfterPrev(InsertFirst([h |-> head, w |-> hdr, c |-> m])))
     IN  \/ /\ s.c = NULL
            /\ pc' = "crashed"
            /\ head' = s.h /\ hdr' = s.w
            /\ UNCHANGED <<prev, m>>
         \/ /\ s.c # NULL
            /\ head' = s.h /\ hdr' = MergePrev(s).w
            /\ prev' = s.c /\ m' = MergePrev(s).w[s.c].next
            /\ pc' = pc
  /\ UNCHANGED <<live, allocs, doubled, ptr, pages>>

\* The walk reached the end of the list.
free_mem_return ==
  /\ pc = "free"
  /\ m = NULL
  /\ pc' = "idle"
  /\ UNCHANGED <<head, hdr, live, allocs, doubled, prev, m, ptr, pages>>

Next ==
  \/ \E n \in Sizes : CallAlloc(n)
  \/ alloc_mem
  \/ \E b \in live : CallFree(b)
  \/ free_mem
  \/ free_mem_return

Spec == Init /\ [][Next]_vars

----------------------------------------------------------------------------
InUse == UNION {PagesOf(b.start, b.pages) : b \in live}

\* No page of a block still allocated is on the free list, whatever was
\* allocated and freed before and in whatever order, as long as alloc_mem was
\* called only on lists with no page in two blocks: free_mem, however it cuts
\* or doubles the list, lists what it was given and nothing else, and
\* alloc_mem takes what it gives off a list that is apart.
NothingInUseListed ==
  pc = "idle" /\ ~ doubled =>
    \A b \in Listed : PagesOf(b, hdr[b].pages) \cap InUse = {}
============================================================================
