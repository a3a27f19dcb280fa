------------------------------- MODULE Paging -------------------------------
(***************************************************************************)
(* Demand paging: do_page_fault (kernel/exception.c) and setupPageMap      *)
(* (kernel/paging.c), from the access that faults to the access that       *)
(* succeeds, with the memory the page maps are built in.                   *)
(*                                                                         *)
(* setupPageMap calls itself once per level; `stack` holds the activations *)
(* and one iteration of its loop is one or two steps.  A page map and a    *)
(* page are both a frame of Fan entries.  Frames are numbered in the order *)
(* in which alloc_mem hands them out; nothing is freed.                    *)
(***************************************************************************)
EXTENDS Naturals, Sequences

CONSTANTS Fan,         \* entries of a page map (512)
          Levels,      \* levels of page maps (4)
          NumFrames,   \* frames alloc_mem can hand out
          UserTop,     \* page of 0x7fffffffe000, the last one do_page_fault maps
          Accesses,    \* accesses the kernel makes: page, off, write
          Requests     \* other calls of setupPageMaps: first, n, rw

Span[l \in 0 .. Levels] ==             \* pages that one entry at level l + 1 leads to
  IF l = 0 THEN 1 ELSE Fan * Span[l - 1]
NumPages == Span[Levels]
Index == 0 .. Fan - 1
Root == 0                              \* the PML4, outside alloc_mem's memory
KernelMap == NumFrames + 1                \* the loader's maps of the kernel half
Frames == 0 .. NumFrames + 1
Absent == [p |-> FALSE, to |-> 0, rw |-> FALSE]
Present(f, rw) == [p |-> TRUE, to |-> f, rw |-> rw]
Zero == [i \in Index |-> Absent]
Junk == [i \in Index |-> Present(Root, TRUE)]   \* what a free frame may hold

ShapeAssumption == Fan \in Nat \ {0, 1} /\ Levels \in Nat \ {0, 1} /\ NumFrames \in Nat
UseAssumption ==
  /\ UserTop \in 0 .. NumPages - 1
  /\ Accesses \subseteq [page : 0 .. NumPages - 1, off : 0 .. 1, write : BOOLEAN]
  /\ Requests \subseteq [first : 0 .. NumPages - 1, n : Nat \ {0}, rw : BOOLEAN]

NoAccess == [page |-> 0, off |-> 0, write |-> FALSE]
NoRequest == [first |-> 0, n |-> 0, rw |-> TRUE]

VARIABLES mem,        \* contents of every frame
          used,       \* frames alloc_mem has handed out
          pc,         \* run, fault, loop, advance, halt
          access,     \* the access being made (cr2), pending or not
          pending,
          addr,       \* parts of setupPageMap's *addr, by level
          num_pages,  \* num_pages of the running activation
          stack,      \* activations: page_map and entry_index
          req,        \* arguments of the running setupPageMaps
          readonly    \* history: a mapping without rw was asked for

vars == <<mem, used, pc, access, pending, addr, num_pages, stack, req, readonly>>

\* part of an address at a level (level 1 is the table).
part(page, level) == (page \div Span[level - 1]) % Fan
parts(page) == [l \in 1 .. Levels |-> part(page, l)]

TypeOK ==
  /\ mem \in [Frames -> [Index -> [p : BOOLEAN, to : Frames, rw : BOOLEAN]]]
  /\ used \in 0 .. NumFrames
  /\ pc \in {"run", "fault", "loop", "advance", "halt"}
  /\ access \in Accesses \cup {NoAccess} /\ pending \in BOOLEAN
  /\ addr \in [1 .. Levels -> Index]
  /\ num_pages \in Nat
  /\ stack \in Seq([map : Frames, index : Index]) /\ Len(stack) <= Levels
  /\ req \in Requests \cup {NoRequest} \cup [first : 0 .. NumPages - 1, n : {1}, rw : {TRUE}]
  /\ readonly \in BOOLEAN

\* actual_init_paging has cleared pml4[0]; the kernel half is the loader's.
Init ==
  /\ mem = [f \in Frames |->
              IF f = Root THEN [Zero EXCEPT ![Fan - 1] = Present(KernelMap, TRUE)]
              ELSE IF f = KernelMap THEN Zero ELSE Junk]
  /\ used = 0
  /\ pc = "run"
  /\ access = NoAccess /\ pending = FALSE
  /\ addr = parts(0)
  /\ num_pages = 0
  /\ stack = <<>>
  /\ req = NoRequest /\ readonly = FALSE

----------------------------------------------------------------------------
(* The processor (external).                                               *)

\* The page walk: whether every entry is present, whether all allow
\* writing, and the frame it ends at.
Walk(page) ==
  LET walk[k \in 0 .. Levels] ==
        IF k = 0 THEN [ok |-> TRUE, rw |-> TRUE, frame |-> Root]
        ELSE LET w == walk[k - 1]
                 e == mem[w.frame][part(page, Levels + 1 - k)]
             IN  IF w.ok /\ e.p THEN [ok |-> TRUE, rw |-> w.rw /\ e.rw, frame |-> e.to]
                 ELSE [w EXCEPT !.ok = FALSE]
  IN  walk[Levels]

\* The pages a walk succeeds for: all entries that are present, level by
\* level, as the frame reached and the part of the address that leads there.
Mapped ==
  LET reached[k \in 0 .. Levels] ==
        IF k = 0 THEN {<<Root, 0>>}
        ELSE UNION {{<<mem[m[1]][i].to, m[2] * Fan + i>> : i \in {j \in Index : mem[m[1]][j].p}} :
                      m \in reached[k - 1]}
  IN  {m[2] : m \in reached[Levels]}

\* Instructions that touch memory run; the kernel also allocates pages.
Touch ==
  /\ pc = "run" /\ ~pending
  /\ access' \in Accesses /\ pending' = TRUE
  /\ UNCHANGED <<mem, used, pc, addr, num_pages, stack, req, readonly>>

OtherAlloc ==
  /\ pc = "run" /\ ~pending /\ used < NumFrames
  /\ used' = used + 1
  /\ UNCHANGED <<mem, pc, access, pending, addr, num_pages, stack, req, readonly>>

Allowed == Walk(access.page).ok /\ (access.write => Walk(access.page).rw)

Succeed ==
  /\ pc = "run" /\ pending /\ Allowed
  /\ pending' = FALSE
  /\ UNCHANGED <<mem, used, pc, access, addr, num_pages, stack, req, readonly>>

PageFault ==
  /\ pc = "run" /\ pending /\ ~Allowed
  /\ pc' = "fault"
  /\ UNCHANGED <<mem, used, access, pending, addr, num_pages, stack, req, readonly>>

----------------------------------------------------------------------------
(* The kernel.                                                             *)

\* setupPageMaps(addr, num_pages, rw): the PML4 is the first activation.
setupPageMaps(r) ==
  /\ req' = r /\ readonly' = (readonly \/ ~r.rw)
  /\ addr' = parts(r.first)
  /\ num_pages' = r.n
  /\ stack' = <<[map |-> Root, index |-> 0]>>
  /\ pc' = "loop"
  /\ UNCHANGED <<mem, used, access, pending>>

Call ==
  /\ pc = "run" /\ ~pending
  /\ \E r \in Requests : setupPageMaps(r)

\* Mutant: the comparison with the top of the stack area is strict.
InRange_strict(a) == a.page < UserTop
\* brk <= cr2 && cr2 <= 0x7fffffffe000; brk is 0, and of the last page only
\* the first byte is in the range.
InRange(a) == a.page < UserTop \/ (a.page = UserTop /\ a.off = 0)

\* An access outside the range is left to fault again.
do_page_fault ==
  /\ pc = "fault"
  /\ \/ /\ Walk(access.page).ok                 \* error & 0x01
        /\ pc' = "halt"
        /\ UNCHANGED <<mem, used, access, pending, addr, num_pages, stack, req, readonly>>
     \/ /\ ~Walk(access.page).ok /\ InRange(access)
        /\ setupPageMaps([first |-> access.page, n |-> 1, rw |-> TRUE])
     \/ /\ ~Walk(access.page).ok /\ ~InRange(access)
        /\ pc' = "run"
        /\ UNCHANGED <<mem, used, access, pending, addr, num_pages, stack, req, readonly>>

Spin == pc = "halt" /\ UNCHANGED vars

Level == Levels + 1 - Len(stack)
Top == stack[Len(stack)]
Entry == mem[Top.map][addr[Level]]
NewFrame == used + 1                     \* what alloc_mem(1) returns

\* Mutant: the new page map keeps what the frame held.
newPageMap_dirty == mem
\* newPageMap: the frame is cleared before anything points to it.
newPageMap == [mem EXCEPT ![NewFrame] = Zero]

\* setPointer and the flags of the entry, which are set on every pass.
EntryFor(f) == Present(f, req.rw)

\* What follows once the entry of this iteration is present.
Into(child) ==
  LET top == [Top EXCEPT !.index = addr[Level]] IN
  IF Level = 1
  THEN /\ num_pages' = num_pages - 1
       /\ pc' = "advance"
       /\ stack' = [stack EXCEPT ![Len(stack)] = top]
  ELSE /\ stack' = Append([stack EXCEPT ![Len(stack)] = top],
                          [map |-> child, index |-> 0])
       /\ UNCHANGED <<num_pages, pc>>

\* One iteration up to the recursive call or the page (lines 73-84).
UseEntry ==
  /\ pc = "loop" /\ num_pages > 0 /\ Entry.p
  /\ mem' = [mem EXCEPT ![Top.map][addr[Level]] = EntryFor(Entry.to)]
  /\ Into(Entry.to)
  /\ UNCHANGED <<used, access, pending, addr, req, readonly>>

setNewPageMapIfNotPresent ==
  /\ pc = "loop" /\ num_pages > 0 /\ ~Entry.p /\ used < NumFrames
  /\ used' = NewFrame
  /\ mem' = [newPageMap EXCEPT ![Top.map][addr[Level]] = EntryFor(NewFrame)]
  /\ Into(NewFrame)
  /\ UNCHANGED <<access, pending, addr, req, readonly>>

\* setupPageMaps returns and its locals are gone.
Leave ==
  /\ stack' = <<>> /\ addr' = parts(0) /\ num_pages' = 0 /\ req' = NoRequest
  /\ pc' = "run"
  /\ UNCHANGED <<mem, used, access, pending, readonly>>

\* No memory: -1 goes up through all activations, and setupPageMaps drops it.
AllocFails == pc = "loop" /\ num_pages > 0 /\ ~Entry.p /\ used = NumFrames /\ Leave

\* return num_pages: the caller continues behind its recursive call.
Return ==
  \/ Len(stack) = 1 /\ Leave
  \/ /\ Len(stack) > 1
     /\ stack' = SubSeq(stack, 1, Len(stack) - 1)
     /\ pc' = "advance"
     /\ UNCHANGED <<mem, used, access, pending, addr, num_pages, req, readonly>>

LoopEnds == pc = "loop" /\ num_pages = 0 /\ Return

\* Mutant: the parts below keep their values.
NextPart_noReset == [addr EXCEPT ![Level] = Top.index + 1]
\* setPart of the next index, and 0 at all levels below.
NextPart == [l \in 1 .. Levels |-> IF l < Level THEN 0
                                   ELSE IF l = Level THEN Top.index + 1 ELSE addr[l]]

AtEnd == Top.index = Fan - 1

Advance ==
  /\ pc = "advance"
  /\ IF AtEnd THEN Return
     ELSE /\ addr' = NextPart
          /\ pc' = "loop"
          /\ UNCHANGED <<mem, used, access, pending, num_pages, stack, req, readonly>>

setupPageMap == UseEntry \/ setNewPageMapIfNotPresent \/ AllocFails \/ LoopEnds \/ Advance

KernelStep == PageFault \/ do_page_fault \/ setupPageMap \/ Succeed
Next == KernelStep \/ Touch \/ OtherAlloc \/ Call \/ Spin

\* The processor goes on with an instruction it has begun.
Spec == Init /\ [][Next]_vars /\ WF_vars(KernelStep)

----------------------------------------------------------------------------

\* The page maps form a tree of allocated frames: no frame is pointed to
\* twice, and none that alloc_mem may still hand out is pointed to.
TablesFormTree ==
  LET maps[k \in 0 .. Levels] ==          \* frames reached in k steps
        IF k = 0 THEN {Root}
        ELSE {mem[l[1]][l[2]].to : l \in {x \in maps[k - 1] \X Index : mem[x[1]][x[2]].p}}
      links == {x \in (UNION {maps[k] : k \in 0 .. Levels - 1}) \X Index : mem[x[1]][x[2]].p}
      to(l) == mem[l[1]][l[2]].to
  IN  /\ \A l \in links : to(l) \in {KernelMap} \cup 1 .. used
      /\ \A l, m \in links : to(l) = to(m) => l = m

\* A page mapped on demand reads as zeroes until it is written: a null
\* pointer's fields read as null (start->next, kernel/xhci.c).
FreshPagesZero ==
  \A v \in 0 .. NumPages - 1 : Walk(v).ok => mem[Walk(v).frame] = Zero

\* do_page_fault maps pages so that the access that faulted is allowed: it
\* never meets its own mapping again as a protection fault, which halts, as
\* long as nobody asks for a read-only mapping.
HaltsOnlyReadonly == pc = "halt" => readonly

\* What setupPageMap leaves in the page maps at any time, between its steps and
\* when memory has run out on the way.
PageMapsSound == TablesFormTree /\ FreshPagesZero /\ HaltsOnlyReadonly

\* setupPageMap's recursion implements AddressSpace: exactly the requested
\* pages become mapped, in order, across the ends of page maps.
AS == INSTANCE AddressSpace WITH
  Sizes <- {1} \cup {r.n : r \in Requests},
  mapped <- Mapped, todo <- (req.first + req.n - num_pages) .. (req.first + req.n - 1)
MapsInOrder == AS!Spec

\* An access at or below 0x7fffffffe000 is served if a frame for every level
\* is left and no mapping is read-only: it does not fault for ever.
FaultServed ==
  (pending /\ 2 * access.page + access.off <= 2 * UserTop /\ used + Levels <= NumFrames
     /\ ~readonly) ~> ~pending
=============================================================================
