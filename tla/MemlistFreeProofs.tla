------------------------- MODULE MemlistFreeProofs -------------------------
(***************************************************************************)
(* Proofs about alloc_mem and free_mem of kernel/mem.c (MemlistFree):      *)
(* whatever is allocated and freed and in whatever order, the free list    *)
(* holds no page of a block still allocated, as long as alloc_mem is not   *)
(* called on a list with a page in two blocks.                             *)
(***************************************************************************)
EXTENDS MemlistFree, WellFoundedInduction, TLAPS

----------------------------------------------------------------------------
(* Induction over the natural numbers.                                     *)

\* A set of natural numbers that is not empty has a least element.
LEMMA Least ==
  ASSUME NEW T, T \subseteq Nat, T # {}
  PROVE  \E n \in T : \A k \in T : n <= k
<1>1. \E n \in T : \A k \in T : ~ (<<k, n>> \in OpToRel(<,Nat))
  BY WFMin, NatLessThanWellFounded
<1>2. \A a, b \in Nat : b < a => <<b, a>> \in OpToRel(<,Nat)
  BY Zenon DEF OpToRel
<1>3. PICK n \in T : \A k \in T : ~ (k < n)
  BY <1>1, <1>2, Zenon
<1>4. \A k \in T : n <= k
  BY <1>3
<1> QED BY <1>4

\* A set that holds 0 and, below N, the successor of what it holds, holds all
\* of 0 .. N.
LEMMA Induct ==
  ASSUME NEW N \in Nat, NEW T, 0 \in T, \A k \in 0 .. N - 1 : k \in T => k + 1 \in T
  PROVE  \A k \in 0 .. N : k \in T
<1> DEFINE Bad == {k \in 0 .. N : k \notin T}
<1>1. SUFFICES ASSUME Bad # {} PROVE FALSE
  OBVIOUS
<1>2. PICK n \in Bad : \A k \in Bad : n <= k
  <2>1. Bad \subseteq Nat
    OBVIOUS
  <2> HIDE DEF Bad
  <2> QED BY <1>1, <2>1, Least
<1>3. n # 0 /\ n \in 1 .. N
  BY <1>2
<1>4. n - 1 \in 0 .. N - 1 /\ n - 1 \in 0 .. N /\ ~ (n <= n - 1) /\ (n - 1) + 1 = n
  BY <1>3
<1>5. n - 1 \in T
  BY <1>2, <1>4
<1> QED BY <1>2, <1>4, <1>5

\* The step F of a recursion up to N over the set S, and a function h that
\* follows it from the value a.
RecursionStep(F, N, S) == F \in [(1 .. N) \X S -> S]
Follows(h, F, a, N, S) ==
  h \in [0 .. N -> S] /\ h[0] = a /\ \A k \in 1 .. N : h[k] = F[<<k, h[k - 1]>>]

\* A function can be defined by recursion.
LEMMA Recur ==
  ASSUME NEW N \in Nat, NEW S, NEW a \in S, NEW F, RecursionStep(F, N, S)
  PROVE  \E h : Follows(h, F, a, N, S)
<1> USE DEF RecursionStep, Follows
<1> DEFINE Upto(n) == \E h \in [0 .. n -> S] :
                         h[0] = a /\ \A k \in 1 .. n : h[k] = F[<<k, h[k - 1]>>]
           T == {n \in 0 .. N : Upto(n)}
<1>1. 0 \in T
  <2> DEFINE g == [k \in 0 .. 0 |-> a]
  <2>1. g \in [0 .. 0 -> S] /\ g[0] = a /\ \A k \in 1 .. 0 : g[k] = F[<<k, g[k - 1]>>]
    OBVIOUS
  <2> HIDE DEF g
  <2>2. Upto(0)
    BY <2>1
  <2> QED BY <2>2
<1>2. ASSUME NEW n \in 0 .. N - 1, n \in T PROVE n + 1 \in T
  <2>1. PICK h \in [0 .. n -> S] : h[0] = a /\ \A k \in 1 .. n : h[k] = F[<<k, h[k - 1]>>]
    BY <1>2
  <2> DEFINE g == [k \in 0 .. n + 1 |-> IF k <= n THEN h[k] ELSE F[<<n + 1, h[n]>>]]
  <2>2. h[n] \in S /\ n + 1 \in 1 .. N /\ F[<<n + 1, h[n]>>] \in S
    OBVIOUS
  <2>3. g \in [0 .. n + 1 -> S]
    BY <2>2
  <2>4. g[0] = a
    BY <2>1
  <2>5. ASSUME NEW k \in 1 .. n + 1 PROVE g[k] = F[<<k, g[k - 1]>>]
    <3>1. k - 1 \in 0 .. n /\ g[k - 1] = h[k - 1]
      OBVIOUS
    <3>2. CASE k <= n
      BY <2>1, <3>1, <3>2
    <3>3. CASE k = n + 1
      <4>1. k - 1 = n /\ g[k] = F[<<n + 1, h[n]>>]
        BY <3>3
      <4> QED BY ONLY <3>1, <3>3, <4>1, Zenon
    <3> QED BY <3>2, <3>3
  <2> HIDE DEF g
  <2>6. Upto(n + 1) /\ n + 1 \in 0 .. N
    BY <2>3, <2>4, <2>5
  <2> QED BY <2>6
<1> HIDE DEF T
<1>3. N \in T
  BY <1>1, <1>2, Induct
<1>4. PICK h \in [0 .. N -> S] : h[0] = a /\ \A k \in 1 .. N : h[k] = F[<<k, h[k - 1]>>]
  BY <1>3 DEF T
<1> QED BY <1>4

----------------------------------------------------------------------------
(* The invariant.                                                          *)

\* The n pages from a and the k pages from b have no page in common.
Separate(a, n, b, k) == a + n <= b \/ b + k <= a

\* The n pages from a end within memory.
Fits(a, n) == a + n <= LastPage + 1

\* The n pages from a hold no page of a block in l.
ClearOf(a, n, l) == \A x \in l : Separate(a, n, x.start, x.pages)

\* With headers w, the blocks of the set S are free memory and lead only to
\* each other, and so does the list head h.
FreeList(w, h, l, S) ==
  /\ S \subseteq Pages
  /\ h \in S \cup {NULL}
  /\ \A b \in S : /\ w[b].next \in S \cup {NULL}
                  /\ w[b].pages > 0
                  /\ Fits(b, w[b].pages)
                  /\ ClearOf(b, w[b].pages, l)

\* The allocated blocks are within memory and apart from each other.
LiveApart(l) ==
  /\ \A x \in l : Fits(x.start, x.pages)
  /\ \A x, y \in l : x # y => Separate(x.start, x.pages, y.start, y.pages)

\* The blocks of S are apart, each is entered at most once, by a block or by
\* the list head, and r grows along the list, which therefore never returns.
Chain(w, h, S, r) ==
  /\ \A b, c \in S : b # c => Separate(b, w[b].pages, c, w[c].pages)
  /\ \A b, c \in S : (w[b].next = w[c].next /\ w[b].next # NULL) => b = c
  /\ \A b \in S : w[b].next # NULL => (w[b].next # h /\ r[b] < r[w[b].next])

\* m is the block alloc_mem looks at and prev the one that leads to it.
Walk(w, h, S, p, c) ==
  /\ c \in S \cup {NULL}
  /\ \/ p = NULL /\ c = h
     \/ p \in S /\ w[p].next = c

Types ==
  /\ head \in Ptr /\ prev \in Ptr /\ m \in Ptr /\ ptr \in Ptr
  /\ hdr \in [Pages -> [next : Ptr, pages : Nat]]
  /\ live \subseteq [start : Pages, pages : Nat \ {0}]
  /\ pages \in Nat
  /\ pc \in {"alloc", "free"} => pages > 0

\* The block free_mem was given, and nothing of what is still allocated.
Given ==
  pc = "free" => ptr \in Pages /\ Fits(ptr, pages) /\ ClearOf(ptr, pages, live)

Listing(S) ==
  /\ FreeList(hdr, head, live, S)
  /\ pc = "alloc" => /\ Walk(hdr, head, S, prev, m)
                     /\ \E r \in [Pages -> Nat] : Chain(hdr, head, S, r)
  /\ pc = "free" => prev \in S \cup {NULL} /\ m \in S \cup {NULL}

ListSound == Types /\ LiveApart(live) /\ Given /\ \E S : Listing(S)

ListInv == ~ doubled => ListSound

----------------------------------------------------------------------------
(* Arithmetic.                                                             *)

\* A part of a block is apart from whatever the block is apart from.
LEMMA SeparatePart ==
  ASSUME NEW a \in Nat, NEW n \in Nat, NEW b \in Nat, NEW k \in Nat,
         NEW c \in Nat, NEW j \in Nat, Separate(a, n, b, k),
         a <= c, c + j <= a + n
  PROVE  Separate(c, j, b, k) /\ Separate(b, k, c, j)
  BY DEF Separate

\* What is apart from two adjacent blocks is apart from both together.
LEMMA SeparateJoin ==
  ASSUME NEW a \in Nat, NEW n \in Nat, NEW k \in Nat, NEW b \in Nat, NEW j \in Nat,
         j > 0, Separate(a, n, b, j), Separate(a + n, k, b, j)
  PROVE  Separate(a, n + k, b, j)
  BY DEF Separate

\* Two blocks that are apart and not empty start at different pages.
LEMMA SeparateStarts ==
  ASSUME NEW a \in Nat, NEW n \in Nat, NEW b \in Nat, NEW k \in Nat,
         n > 0, k > 0, Separate(a, n, b, k)
  PROVE  a # b
  BY DEF Separate

----------------------------------------------------------------------------
(* free_mem: each write it makes keeps the blocks free memory.             *)

\* The headers of a machine whose list is in order.
Headers(w) == w \in [Pages -> [next : Ptr, pages : Nat]]
Blocks(l) == l \subseteq [start : Pages, pages : Nat \ {0}]

\* A new header in a page of free memory makes it a block.
LEMMA WriteBlock ==
  ASSUME NEW w, Headers(w), NEW h, NEW l, NEW S, FreeList(w, h, l, S),
         NEW p \in Pages, NEW x, x \in S \cup {NULL, p}, NEW n \in Nat, n > 0,
         Fits(p, n), ClearOf(p, n, l)
  PROVE  LET w2 == [w EXCEPT ![p] = [next |-> x, pages |-> n]]
         IN  Headers(w2) /\ FreeList(w2, h, l, S \cup {p})
<1> DEFINE w2 == [w EXCEPT ![p] = [next |-> x, pages |-> n]]
<1>0. x \in Ptr /\ S \subseteq Pages
  BY DEF FreeList, Ptr
<1>1. Headers(w2)
  BY <1>0 DEF Headers
<1>2. w2[p] = [next |-> x, pages |-> n] /\ \A b \in S : b # p => w2[b] = w[b]
  BY <1>0 DEF Headers
<1> HIDE DEF w2
<1>3. ASSUME NEW b \in S \cup {p}
      PROVE  /\ w2[b].next \in (S \cup {p}) \cup {NULL} /\ w2[b].pages > 0
             /\ Fits(b, w2[b].pages) /\ ClearOf(b, w2[b].pages, l)
  <2>1. CASE b = p
    BY <1>2, <2>1
  <2>2. CASE b # p
    <3>1. b \in S /\ w2[b] = w[b]
      BY <1>2, <2>2
    <3> QED BY <3>1 DEF FreeList
  <2> QED BY <2>1, <2>2
<1>4. FreeList(w2, h, l, S \cup {p})
  BY <1>0, <1>3 DEF FreeList
<1> QED BY <1>1, <1>4 DEF w2

\* A block may be made to lead to any other.
LEMMA WriteNext ==
  ASSUME NEW w, Headers(w), NEW h, NEW l, NEW S, FreeList(w, h, l, S),
         NEW p \in S, NEW x, x \in S \cup {NULL}
  PROVE  LET w2 == [w EXCEPT ![p].next = x]
         IN  Headers(w2) /\ FreeList(w2, h, l, S)
<1> DEFINE w2 == [w EXCEPT ![p].next = x]
<1>0. x \in Ptr /\ S \subseteq Pages /\ p \in Pages
  BY DEF FreeList, Ptr
<1>1. Headers(w2)
  BY <1>0 DEF Headers
<1>2. w2[p].next = x /\ w2[p].pages = w[p].pages /\ \A b \in S : b # p => w2[b] = w[b]
  BY <1>0 DEF Headers
<1> HIDE DEF w2
<1>3. ASSUME NEW b \in S
      PROVE  /\ w2[b].next \in S \cup {NULL} /\ w2[b].pages > 0
             /\ Fits(b, w2[b].pages) /\ ClearOf(b, w2[b].pages, l)
  <2>1. w2[b].pages = w[b].pages /\ w2[b].next \in {x, w[b].next}
    BY <1>2
  <2> QED BY <2>1 DEF FreeList
<1>4. FreeList(w2, h, l, S)
  BY <1>0, <1>3 DEF FreeList
<1> QED BY <1>1, <1>4 DEF w2

\* The state of an iteration: the list head s.h, the headers s.w and the
\* block s.c it looks at.
Iterating(s, l, S) ==
  /\ s = [h |-> s.h, w |-> s.w, c |-> s.c]
  /\ Headers(s.w) /\ FreeList(s.w, s.h, l, S) /\ s.c \in S \cup {NULL}
  /\ prev \in S \cup {NULL}

\* What the block being freed is.
Freed(l) ==
  /\ ptr \in Pages /\ pages \in Nat /\ pages > 0 /\ Blocks(l)
  /\ Fits(ptr, pages) /\ ClearOf(ptr, pages, l)

\* free_mem, "before all memlists": the freed block becomes the first.
LEMMA InsertFirstKeeps ==
  ASSUME NEW s, NEW l, NEW S, Iterating(s, l, S), Freed(l)
  PROVE  \E U : Iterating(InsertFirst(s), l, U)
<1>1. CASE prev = NULL /\ ptr < s.c
  <2> DEFINE w2 == [s.w EXCEPT ![ptr] = [next |-> s.c, pages |-> pages]]
  <2>1. Headers(w2) /\ FreeList(w2, s.h, l, S \cup {ptr})
    <3>1. s.c \in S \cup {NULL, ptr}
      BY DEF Iterating
    <3> QED BY <3>1, WriteBlock DEF Iterating, Freed
  <2> HIDE DEF w2
  <2>2. FreeList(w2, ptr, l, S \cup {ptr})
    BY <2>1 DEF FreeList
  <2>3. InsertFirst(s) = [h |-> ptr, w |-> w2, c |-> ptr]
    BY <1>1 DEF InsertFirst, w2
  <2>4. Iterating(InsertFirst(s), l, S \cup {ptr})
    BY <2>1, <2>2, <2>3 DEF Iterating
  <2> QED BY <2>4
<1>2. CASE ~ (prev = NULL /\ ptr < s.c)
  BY <1>2 DEF InsertFirst
<1> QED BY <1>1, <1>2

\* free_mem, "not merged any block": the freed block is linked behind prev.
LEMMA InsertAfterPrevKeeps ==
  ASSUME NEW s, NEW l, NEW S, Iterating(s, l, S), Freed(l)
  PROVE  \E U : Iterating(InsertAfterPrev(s), l, U)
<1>1. CASE prev # NULL /\ prev + s.w[prev].pages < ptr
  <2> DEFINE w1 == [s.w EXCEPT ![ptr] = [next |-> s.w[prev].next, pages |-> pages]]
             w2 == [w1 EXCEPT ![prev].next = ptr]
             U == S \cup {ptr}
  <2>0. prev \in S /\ s.w[prev].next \in S \cup {NULL, ptr}
    BY <1>1 DEF Iterating, FreeList
  <2>1. Headers(w1) /\ FreeList(w1, s.h, l, U)
    BY <2>0, WriteBlock DEF Iterating, Freed
  <2>2. InsertAfterPrev(s) = [h |-> s.h, w |-> w2, c |-> ptr]
    BY <1>1 DEF InsertAfterPrev
  <2> HIDE DEF w1
  <2>3. prev \in U /\ ptr \in U
    BY <2>0
  <2>4. Headers(w2) /\ FreeList(w2, s.h, l, U)
    BY <2>1, <2>3, WriteNext
  <2> HIDE DEF w2
  <2>5. Iterating(InsertAfterPrev(s), l, U)
    BY <2>2, <2>3, <2>4 DEF Iterating
  <2> QED BY <2>5
<1>2. CASE ~ (prev # NULL /\ prev + s.w[prev].pages < ptr)
  BY <1>2 DEF InsertAfterPrev
<1> QED BY <1>1, <1>2

\* free_mem, "merge next block": the freed block and the one behind it are one.
LEMMA MergeNextKeeps ==
  ASSUME NEW s, NEW l, NEW S, Iterating(s, l, S), Freed(l)
  PROVE  \E U : Iterating(MergeNext(s), l, U)
<1>1. CASE ptr + pages = s.c
  <2> DEFINE V == S \cup {ptr}
             w0 == IF prev = NULL THEN s.w ELSE [s.w EXCEPT ![prev].next = ptr]
             q == pages + w0[s.c].pages
             w2 == [w0 EXCEPT ![ptr] = [next |-> w0[s.c].next, pages |-> q]]
             h2 == IF prev = NULL THEN ptr ELSE s.h
  <2>0. MergeNext(s) = [h |-> h2, w |-> w2, c |-> IF prev = NULL THEN h2 ELSE w2[prev].next]
    BY <1>1 DEF MergeNext
  <2>1. s.c \in S /\ ptr \in Pages /\ s.c \in Pages /\ S \subseteq Pages /\ prev \in S \cup {NULL}
    BY <1>1 DEF Iterating, Freed, FreeList, Pages, NULL
  <2>2. /\ Headers(w0)
        /\ \A b \in S : w0[b].pages = s.w[b].pages /\ w0[b].next \in {s.w[b].next, ptr}
    <3>1. Headers(s.w)
      BY DEF Iterating
    <3>2. CASE prev = NULL
      BY <3>1, <3>2
    <3>3. CASE prev # NULL
      <4>1. w0 = [s.w EXCEPT ![prev].next = ptr] /\ prev \in Pages
        BY <2>1, <3>3
      <4> QED BY <2>1, <3>1, <4>1 DEF Headers, Ptr
    <3> QED BY <3>2, <3>3
  <2> HIDE DEF w0
  <2>3. q \in Nat /\ q > 0 /\ Fits(ptr, q) /\ w0[s.c].next \in S \cup {NULL, ptr}
    <3>1. w0[s.c].pages \in Nat /\ w0[s.c].pages = s.w[s.c].pages
      BY <2>1, <2>2 DEF Headers
    <3>2. s.w[s.c].next \in S \cup {NULL} /\ Fits(s.c, s.w[s.c].pages)
      BY <2>1 DEF Iterating, FreeList
    <3>3. LastPage \in Nat /\ ptr \in Nat /\ pages \in Nat /\ pages > 0
      BY RegionsAssumption DEF Freed, Pages
    <3>4. Fits(ptr, q) /\ q \in Nat /\ q > 0
      BY <1>1, <3>1, <3>2, <3>3 DEF Fits
    <3> QED BY <2>1, <2>2, <3>2, <3>4
  <2>4. ClearOf(ptr, q, l)
    <3>1. SUFFICES ASSUME NEW x \in l PROVE Separate(ptr, q, x.start, x.pages)
      BY DEF ClearOf
    <3>2. x.start \in Nat /\ x.pages \in Nat /\ x.pages > 0 /\ ptr \in Nat /\ pages \in Nat
      BY DEF Freed, Blocks, Pages
    <3>3. Separate(ptr, pages, x.start, x.pages)
      BY DEF Freed, ClearOf
    <3>4. Separate(ptr + pages, w0[s.c].pages, x.start, x.pages)
      BY <1>1, <2>1, <2>2 DEF Iterating, FreeList, ClearOf
    <3>5. w0[s.c].pages \in Nat
      BY <2>1, <2>2 DEF Headers
    <3> QED BY <3>2, <3>3, <3>4, <3>5, SeparateJoin
  <2> HIDE DEF q
  <2>6. w2[ptr] = [next |-> w0[s.c].next, pages |-> q] /\ \A b \in S : b # ptr => w2[b] = w0[b]
    BY <2>1, <2>2 DEF Headers
  <2>7. Headers(w2)
    BY <2>1, <2>2, <2>3 DEF Headers, Ptr
  <2> HIDE DEF w2
  <2>8. ASSUME NEW b \in V
        PROVE  /\ w2[b].next \in V \cup {NULL} /\ w2[b].pages > 0
               /\ Fits(b, w2[b].pages) /\ ClearOf(b, w2[b].pages, l)
    <3>1. CASE b = ptr
      BY <2>3, <2>4, <2>6, <3>1
    <3>2. CASE b # ptr
      <4>1. b \in S /\ w2[b].pages = s.w[b].pages /\ w2[b].next \in {s.w[b].next, ptr}
        BY <2>2, <2>6, <3>2
      <4> QED BY <4>1 DEF Iterating, FreeList
    <3> QED BY <3>1, <3>2
  <2>9. h2 \in V \cup {NULL}
    BY DEF Iterating, FreeList
  <2>10. FreeList(w2, h2, l, V)
    BY <2>1, <2>8, <2>9 DEF FreeList
  <2>11. (IF prev = NULL THEN h2 ELSE w2[prev].next) \in V \cup {NULL}
    BY <2>1, <2>8, <2>9
  <2> HIDE DEF h2
  <2>12. Iterating(MergeNext(s), l, V)
    BY <2>0, <2>1, <2>7, <2>10, <2>11 DEF Iterating
  <2> QED BY <2>12
<1>2. CASE ptr + pages # s.c
  BY <1>2 DEF MergeNext
<1> QED BY <1>1, <1>2

\* free_mem, "merge prev block": the block before the freed one grows by it.
LEMMA MergePrevKeeps ==
  ASSUME NEW s, NEW l, NEW S, Iterating(s, l, S), s.c # NULL, Freed(l)
  PROVE  Iterating(MergePrev(s), l, S) /\ MergePrev(s).h = s.h /\ MergePrev(s).c = s.c
<1>0. s.c \in S /\ s.c \in Pages /\ S \subseteq Pages
  BY DEF Iterating, FreeList
<1>1. CASE s.c + s.w[s.c].pages = ptr
  <2> DEFINE w2 == [s.w EXCEPT ![s.c].pages = @ + pages]
  <2>1. MergePrev(s) = [h |-> s.h, w |-> w2, c |-> s.c]
    <3>1. s = [h |-> s.h, w |-> s.w, c |-> s.c]
      BY DEF Iterating
    <3>2. [s EXCEPT !.w[s.c].pages = @ + pages] = [h |-> s.h, w |-> w2, c |-> s.c]
      BY <3>1
    <3> QED BY <1>1, <3>2 DEF MergePrev
  <2>2. Headers(s.w) /\ s.w[s.c].pages \in Nat
    BY <1>0 DEF Iterating, Headers
  <2>3. Headers(w2)
    BY <1>0, <2>2 DEF Headers, Freed
  <2>4. /\ w2[s.c].next = s.w[s.c].next /\ w2[s.c].pages = s.w[s.c].pages + pages
        /\ \A b \in S : b # s.c => w2[b] = s.w[b]
    BY <1>0, <2>2 DEF Headers
  <2> HIDE DEF w2
  <2>5. Fits(s.c, s.w[s.c].pages + pages) /\ s.w[s.c].pages + pages > 0
    <3>1. LastPage \in Nat /\ s.c \in Nat /\ pages \in Nat /\ pages > 0
      BY <1>0, RegionsAssumption DEF Freed, Pages
    <3> QED BY <1>1, <2>2, <3>1 DEF Fits, Freed
  <2>6. ClearOf(s.c, s.w[s.c].pages + pages, l)
    <3>1. SUFFICES ASSUME NEW x \in l
                   PROVE  Separate(s.c, s.w[s.c].pages + pages, x.start, x.pages)
      BY DEF ClearOf
    <3>2. /\ x.start \in Nat /\ x.pages \in Nat /\ x.pages > 0
          /\ s.c \in Nat /\ pages \in Nat
      BY <1>0 DEF Freed, Blocks, Pages
    <3>3. Separate(s.c, s.w[s.c].pages, x.start, x.pages)
      BY <1>0 DEF Iterating, FreeList, ClearOf
    <3>4. Separate(s.c + s.w[s.c].pages, pages, x.start, x.pages)
      BY <1>1 DEF Freed, ClearOf
    <3> QED BY <2>2, <3>2, <3>3, <3>4, SeparateJoin
  <2>7. ASSUME NEW b \in S
        PROVE  /\ w2[b].next \in S \cup {NULL} /\ w2[b].pages > 0
               /\ Fits(b, w2[b].pages) /\ ClearOf(b, w2[b].pages, l)
    <3>1. CASE b = s.c
      <4>1. w2[b].next \in S \cup {NULL}
        BY <2>4, <3>1 DEF Iterating, FreeList
      <4> QED BY <2>4, <2>5, <2>6, <3>1, <4>1
    <3>2. CASE b # s.c
      BY <2>4, <3>2 DEF Iterating, FreeList
    <3> QED BY <3>1, <3>2
  <2>8. FreeList(w2, s.h, l, S)
    BY <2>7 DEF Iterating, FreeList
  <2> QED BY <2>1, <2>3, <2>8 DEF Iterating
<1>2. CASE s.c + s.w[s.c].pages # ptr
  BY <1>2 DEF MergePrev
<1> QED BY <1>1, <1>2

----------------------------------------------------------------------------
(* alloc_mem: it takes a block off the list, or all but its end.           *)

\* What alloc_mem finds: the block c, entered from p, in a list in order.
Found(w, h, l, S, r, p, c) ==
  /\ Headers(w) /\ FreeList(w, h, l, S) /\ Chain(w, h, S, r) /\ r \in [Pages -> Nat]
  /\ Walk(w, h, S, p, c) /\ c # NULL

\* What becomes of the list when p, or the list head, is made to lead to x.
HeadTo(h, p, x) == IF p = NULL THEN x ELSE h
NextTo(w, p, x) == IF p = NULL THEN w ELSE [w EXCEPT ![p].next = x]

\* The block before c is not c, and no other block leads to c.
LEMMA EnteredOnce ==
  ASSUME NEW w, NEW h, NEW l, NEW S, NEW r, NEW p, NEW c, Found(w, h, l, S, r, p, c)
  PROVE  /\ c \in S /\ c \in Pages /\ S \subseteq Pages
         /\ p = NULL \/ (p \in S /\ p # c /\ w[p].next = c)
         /\ p = NULL => c = h
         /\ w[c].next # c /\ w[c].next \in S \cup {NULL}
         /\ \A b \in S : (b # p) => (w[b].next # c)
<1>1. c \in S /\ c \in Pages /\ S \subseteq Pages /\ c # NULL
  BY DEF Found, Walk, FreeList
<1>2. r \in [Pages -> Nat] /\ \A b \in S : w[b].next # NULL => r[b] < r[w[b].next]
  BY DEF Found, Chain
<1>3. w[c].next \in S \cup {NULL}
  BY <1>1 DEF Found, FreeList
<1>4. \A b \in S : r[b] \in Nat
  BY <1>1, <1>2
<1>5. \A b \in S : w[b].next # b
  <2> SUFFICES ASSUME NEW b \in S, w[b].next = b PROVE FALSE
    OBVIOUS
  <2>1. b # NULL
    BY <1>1 DEF Pages, NULL
  <2>2. r[b] < r[b] /\ r[b] \in Nat
    BY <1>2, <1>4, <2>1
  <2> QED BY <2>2
<1>6. p = NULL \/ (p \in S /\ p # c /\ w[p].next = c)
  BY <1>1, <1>5 DEF Found, Walk
<1>7. p = NULL => c = h
  BY <1>1 DEF Found, Walk, Pages, NULL, FreeList
<1>8. ASSUME NEW b \in S, b # p PROVE w[b].next # c
  BY <1>1, <1>6, <1>7, <1>8 DEF Found, Chain
<1> QED BY <1>1, <1>3, <1>5, <1>6, <1>7, <1>8

\* What the write of p's next changes.
LEMMA NextToIs ==
  ASSUME NEW w, Headers(w), NEW p, p = NULL \/ p \in Pages, NEW x \in Ptr
  PROVE  /\ Headers(NextTo(w, p, x))
         /\ \A b \in Pages : NextTo(w, p, x)[b].pages = w[b].pages
         /\ \A b \in Pages : b # p => NextTo(w, p, x)[b].next = w[b].next
         /\ p \in Pages => NextTo(w, p, x)[p].next = x
<1>0. NULL \notin Pages
  BY DEF NULL, Pages
<1>1. CASE p = NULL
  BY <1>0, <1>1 DEF NextTo
<1>2. CASE p # NULL
  <2>1. p \in Pages /\ NextTo(w, p, x) = [w EXCEPT ![p].next = x]
    BY <1>2 DEF NextTo
  <2> QED BY <2>1 DEF Headers
<1> QED BY <1>1, <1>2

\* The first matching block is taken off the list.
LEMMA TakeBlock ==
  ASSUME NEW w, NEW h, NEW l, NEW S, NEW r, NEW p, NEW c, Blocks(l),
         Found(w, h, l, S, r, p, c)
  PROVE  LET x == w[c].next
             a == [start |-> c, pages |-> w[c].pages]
         IN  /\ Headers(NextTo(w, p, x))
             /\ FreeList(NextTo(w, p, x), HeadTo(h, p, x), l \cup {a}, S \ {c})
             /\ Chain(NextTo(w, p, x), HeadTo(h, p, x), S \ {c}, r)
<1> DEFINE x == w[c].next
           a == [start |-> c, pages |-> w[c].pages]
           U == S \ {c}
           w2 == NextTo(w, p, x)
           h2 == HeadTo(h, p, x)
<1>0. /\ c \in S /\ c \in Pages /\ S \subseteq Pages
      /\ p = NULL \/ (p \in S /\ p # c /\ w[p].next = c)
      /\ p = NULL => c = h
      /\ x # c /\ x \in S \cup {NULL}
      /\ \A b \in S : (b # p) => (w[b].next # c)
  BY EnteredOnce
<1>1. /\ Headers(w2)
      /\ \A b \in U : w2[b].pages = w[b].pages
      /\ \A b \in U : b # p => w2[b].next = w[b].next
      /\ p # NULL => (p \in U /\ w2[p].next = x)
  <2>1. x \in Ptr /\ Headers(w) /\ (p = NULL \/ p \in Pages)
    BY <1>0 DEF Found, Ptr
  <2> HIDE DEF x
  <2>2. /\ Headers(w2)
        /\ \A b \in Pages : w2[b].pages = w[b].pages
        /\ \A b \in Pages : b # p => w2[b].next = w[b].next
        /\ p \in Pages => w2[p].next = x
    BY <2>1, NextToIs
  <2> HIDE DEF w2
  <2> QED BY <1>0, <2>1, <2>2
<1>00. \A b \in Pages : b # NULL
  BY DEF Pages, NULL
<1> HIDE DEF w2, x
<1>2. ASSUME NEW b \in U
      PROVE  /\ w2[b].next \in U \cup {NULL} /\ w2[b].pages > 0
             /\ Fits(b, w2[b].pages) /\ ClearOf(b, w2[b].pages, l \cup {a})
  <2>1. w2[b].next \in U \cup {NULL}
    <3>1. CASE b = p
      BY <1>0, <1>1, <3>1 DEF NULL, Pages
    <3>2. CASE b # p
      BY <1>0, <1>1, <3>2 DEF Found, FreeList
    <3> QED BY <3>1, <3>2
  <2>2. Separate(b, w[b].pages, c, w[c].pages)
    BY <1>0 DEF Found, Chain
  <2>3. ClearOf(b, w[b].pages, l \cup {a})
    BY <2>2 DEF ClearOf, Found, FreeList
  <2> QED BY <1>1, <2>1, <2>3 DEF Found, FreeList
<1>3. h2 \in U \cup {NULL}
  <2>1. CASE p = NULL
    BY <1>0, <2>1 DEF HeadTo
  <2>2. CASE p # NULL
    <3>1. h2 = h /\ p \in S /\ w[p].next = c /\ c # NULL
      BY <1>0, <1>00, <2>2 DEF HeadTo
    <3> QED BY <3>1 DEF Found, FreeList, Chain
  <2> QED BY <2>1, <2>2
<1>4. FreeList(w2, h2, l \cup {a}, U)
  BY <1>0, <1>2, <1>3 DEF FreeList
<1>5. Chain(w2, h2, U, r)
  <2>1. \A b, d \in U : b # d => Separate(b, w2[b].pages, d, w2[d].pages)
    BY <1>1 DEF Found, Chain
  <2>2. ASSUME NEW b \in U, NEW d \in U, w2[b].next = w2[d].next, w2[b].next # NULL
        PROVE  b = d
    <3>1. ASSUME NEW f \in U, f # p PROVE w2[f].next = w[f].next /\ (w[f].next = x => x = NULL)
      BY <1>0, <1>1, <3>1 DEF Found, Chain, x
    <3>2. CASE b # p /\ d # p
      BY <2>2, <3>1, <3>2 DEF Found, Chain
    <3>3. p \in U => w2[p].next = x
      BY <1>0, <1>00, <1>1
    <3> QED BY <2>2, <3>1, <3>2, <3>3
  <2>3. ASSUME NEW b \in U, w2[b].next # NULL
        PROVE  w2[b].next # h2 /\ r[b] < r[w2[b].next]
    <3>1. CASE b = p
      <4>1. p # NULL /\ h2 = h /\ w2[b].next = x /\ x \in S /\ x \in Pages /\ p \in Pages
        BY <1>0, <1>00, <1>1, <2>3, <3>1 DEF HeadTo
      <4>2. r[p] < r[c] /\ r[c] < r[x] /\ x # h
        BY <1>0, <1>00, <4>1 DEF Found, Chain, x
      <4>3. r[p] \in Nat /\ r[c] \in Nat /\ r[x] \in Nat
        BY <1>0, <4>1 DEF Found
      <4> QED BY <3>1, <4>1, <4>2, <4>3
    <3>2. CASE b # p
      <4>1. w2[b].next = w[b].next /\ w[b].next # h /\ r[b] < r[w[b].next]
        BY <1>1, <2>3, <3>2 DEF Found, Chain
      <4>2. CASE p = NULL
        <5>1. h2 = x
          BY <4>2 DEF HeadTo
        <5> QED BY <1>0, <2>3, <4>1, <5>1 DEF Found, Chain, x
      <4>3. CASE p # NULL
        BY <4>1, <4>3 DEF HeadTo
      <4> QED BY <4>2, <4>3
    <3> QED BY <3>1, <3>2
  <2> QED BY <2>1, <2>2, <2>3 DEF Chain
<1> QED BY <1>1, <1>4, <1>5 DEF w2, x

\* The front of a larger block is taken, its end stays on the list.
LEMMA SplitBlock ==
  ASSUME NEW w, NEW h, NEW l, NEW S, NEW r, NEW p, NEW c, Blocks(l),
         Found(w, h, l, S, r, p, c),
         NEW n \in Nat, n > 0, w[c].pages > n
  PROVE  LET e == c + n
             a == [start |-> c, pages |-> n]
             w1 == [w EXCEPT ![e] = [next |-> w[c].next, pages |-> w[c].pages - n]]
             U == (S \ {c}) \cup {e}
         IN  /\ Headers(NextTo(w1, p, e)) /\ Fits(c, n) /\ ClearOf(c, n, l)
             /\ FreeList(NextTo(w1, p, e), HeadTo(h, p, e), l \cup {a}, U)
             /\ \E z \in [Pages -> Nat] : Chain(NextTo(w1, p, e), HeadTo(h, p, e), U, z)
<1> DEFINE x == w[c].next
           k == w[c].pages
           e == c + n
           a == [start |-> c, pages |-> n]
           w1 == [w EXCEPT ![e] = [next |-> x, pages |-> k - n]]
           U == (S \ {c}) \cup {e}
           w2 == NextTo(w1, p, e)
           h2 == HeadTo(h, p, e)
           z == [r EXCEPT ![e] = r[c]]
<1>0. /\ c \in S /\ c \in Pages /\ S \subseteq Pages
      /\ p = NULL \/ (p \in S /\ p # c /\ w[p].next = c)
      /\ p = NULL => c = h
      /\ x # c /\ x \in S \cup {NULL}
      /\ \A b \in S : (b # p) => (w[b].next # c)
  BY EnteredOnce
<1>00. \A b \in Pages : b \in Nat /\ b # NULL
  BY DEF Pages, NULL
<1>01. r \in [Pages -> Nat] /\ Headers(w)
  BY DEF Found
<1>1. k \in Nat /\ Fits(c, k) /\ ClearOf(c, k, l) /\ LastPage \in Nat /\ c \in Nat /\ c > 0
  BY <1>0, <1>01, RegionsAssumption DEF Found, FreeList, Headers, Pages
<1>2. e \in Pages /\ k - n \in Nat /\ k - n > 0 /\ e + (k - n) = c + k /\ Fits(e, k - n) /\ Fits(c, n)
  BY <1>1 DEF Pages, Fits
<1>3. \A b \in S : w[b].pages \in Nat /\ w[b].pages > 0
  BY <1>0, <1>01 DEF Found, FreeList, Headers
<1>4. ASSUME NEW b \in S, b # c
      PROVE  /\ Separate(b, w[b].pages, c, n) /\ Separate(b, w[b].pages, e, k - n)
             /\ Separate(e, k - n, b, w[b].pages) /\ b # e
  <2>1. Separate(c, k, b, w[b].pages)
    BY <1>0, <1>4 DEF Found, Chain
  <2>2. b \in Nat /\ e \in Nat /\ w[b].pages \in Nat /\ w[b].pages > 0
    BY <1>0, <1>00, <1>2, <1>3
  <2> QED BY <1>1, <1>2, <2>1, <2>2 DEF Separate
<1>5. e \notin S
  <2>1. e # c
    BY <1>1
  <2> QED BY <1>4, <2>1
<1>6. ASSUME NEW y \in l
      PROVE  Separate(e, k - n, y.start, y.pages) /\ Separate(c, n, y.start, y.pages)
  <2>1. Separate(c, k, y.start, y.pages)
    BY <1>1 DEF ClearOf
  <2>2. y.start \in Nat /\ y.pages \in Nat
    BY DEF Blocks, Pages
  <2>3. e \in Nat /\ c <= e /\ e + (k - n) <= c + k /\ c <= c /\ c + n <= c + k
    BY <1>1, <1>2
  <2>4. Separate(e, k - n, y.start, y.pages)
    <3> HIDE DEF e, k
    <3>1. k - n \in Nat
      BY <1>2
    <3> QED BY <1>1, <2>1, <2>2, <2>3, <3>1, SeparatePart
  <2>5. Separate(c, n, y.start, y.pages)
    <3> HIDE DEF k
    <3> QED BY <1>1, <2>1, <2>2, <2>3, SeparatePart
  <2> QED BY <2>4, <2>5
<1>7. ClearOf(c, n, l) /\ ClearOf(e, k - n, l)
  BY <1>6 DEF ClearOf
<1>8. Separate(e, k - n, c, n)
  BY <1>1, <1>2 DEF Separate
<1>9. /\ Headers(w1) /\ w1[e].next = x /\ w1[e].pages = k - n
      /\ \A b \in S : w1[b] = w[b]
  <2>1. x \in Ptr
    BY <1>0 DEF Ptr
  <2> QED BY <1>0, <1>01, <1>2, <1>5, <2>1 DEF Headers
<1>z. z \in [Pages -> Nat] /\ z[e] = r[c] /\ \A b \in S : z[b] = r[b]
  BY <1>0, <1>01, <1>2, <1>5
<1> HIDE DEF w1, z
<1>10. /\ Headers(w2)
       /\ \A b \in S \ {c} : w2[b].pages = w[b].pages
       /\ \A b \in S \ {c} : b # p => w2[b].next = w[b].next
       /\ w2[e].next = x /\ w2[e].pages = k - n
       /\ p # NULL => (p \in S \ {c} /\ w2[p].next = e)
       /\ p # e
  <2>1. e \in Ptr /\ (p = NULL \/ p \in Pages) /\ p # e
    BY <1>0, <1>00, <1>2, <1>5 DEF Ptr
  <2>2. /\ Headers(w2)
        /\ \A b \in Pages : w2[b].pages = w1[b].pages
        /\ \A b \in Pages : b # p => w2[b].next = w1[b].next
        /\ p \in Pages => w2[p].next = e
    BY <1>9, <2>1, NextToIs
  <2> HIDE DEF w2
  <2> QED BY <1>0, <1>2, <1>9, <2>1, <2>2
<1> HIDE DEF w2, e, k, x
<1>11. ASSUME NEW b \in U
       PROVE  /\ w2[b].next \in U \cup {NULL} /\ w2[b].pages > 0
              /\ Fits(b, w2[b].pages) /\ ClearOf(b, w2[b].pages, l \cup {a})
  <2>1. CASE b = e
    <3>1. ClearOf(e, k - n, l \cup {a})
      BY <1>7, <1>8 DEF ClearOf
    <3>2. x \in U \cup {NULL}
      BY <1>0
    <3> QED BY <1>2, <1>10, <2>1, <3>1, <3>2
  <2>2. CASE b # e
    <3>0. b \in S \ {c}
      BY <2>2
    <3>1. ClearOf(b, w[b].pages, l \cup {a}) /\ Fits(b, w[b].pages) /\ w[b].pages > 0
      BY <1>4, <3>0 DEF ClearOf, Found, FreeList
    <3>2. w2[b].next \in U \cup {NULL}
      <4>1. CASE b = p
        BY <1>0, <1>00, <1>10, <4>1, <3>0
      <4>2. CASE b # p
        BY <1>0, <1>10, <4>2, <3>0 DEF Found, FreeList
      <4> QED BY <4>1, <4>2
    <3> QED BY <1>10, <3>0, <3>1, <3>2
  <2> QED BY <2>1, <2>2
<1>12. h2 \in U \cup {NULL}
  BY <1>0, <1>10 DEF HeadTo, Found, FreeList, Chain
<1>13. FreeList(w2, h2, l \cup {a}, U)
  BY <1>0, <1>2, <1>11, <1>12 DEF FreeList
<1>14. Chain(w2, h2, U, z)
  <2>1. ASSUME NEW b \in U, NEW d \in U, b # d
        PROVE  Separate(b, w2[b].pages, d, w2[d].pages)
    <3>1. CASE b = e
      BY <1>4, <1>10, <2>1, <3>1
    <3>2. CASE d = e
      BY <1>4, <1>10, <2>1, <3>2
    <3>3. CASE b # e /\ d # e
      BY <1>10, <2>1, <3>3 DEF Found, Chain
    <3> QED BY <3>1, <3>2, <3>3
  <2>2. \A b \in S \ {c} : w[b].next # e /\ (w[b].next = x => x = NULL)
    BY <1>0, <1>00, <1>2, <1>5 DEF Found, Chain, FreeList, x
  <2>3. x # e
    BY <1>0, <1>00, <1>2, <1>5
  <2>4. ASSUME NEW b \in U, NEW d \in U, w2[b].next = w2[d].next, w2[b].next # NULL
        PROVE  b = d
    <3>1. ASSUME NEW f \in U
          PROVE  \/ f = e /\ w2[f].next = x
                 \/ f = p /\ w2[f].next = e
                 \/ f \in S \ {c} /\ w2[f].next = w[f].next
      BY <1>0, <1>00, <1>10
    <3>2. CASE b \in S \ {c} /\ w2[b].next = w[b].next /\ d \in S \ {c} /\ w2[d].next = w[d].next
      BY <2>4, <3>2 DEF Found, Chain
    <3> QED BY <2>2, <2>3, <2>4, <3>1, <3>2
  <2>5. ASSUME NEW b \in U, w2[b].next # NULL
        PROVE  w2[b].next # h2 /\ z[b] < z[w2[b].next]
    <3>1. CASE b = e
      <4>1. w2[b].next = x /\ x \in S /\ x # h
        BY <1>0, <1>10, <2>5, <3>1 DEF Found, Chain, x
      <4>2. r[c] < r[x]
        BY <1>0, <1>10, <2>5, <3>1 DEF Found, Chain, x
      <4>3. x # h2
        BY <2>3, <4>1 DEF HeadTo
      <4> QED BY <1>z, <3>1, <4>1, <4>2, <4>3
    <3>2. CASE b # e /\ b = p
      <4>1. p # NULL /\ p \in S /\ w[p].next = c /\ w2[b].next = e /\ h2 = h
        BY <1>0, <1>00, <1>2, <1>10, <3>2 DEF HeadTo
      <4>2. r[p] < r[c]
        BY <1>0, <1>00, <4>1 DEF Found, Chain
      <4>3. e # h
        BY <1>2, <1>00, <1>5 DEF Found, FreeList
      <4> QED BY <1>z, <3>2, <4>1, <4>2, <4>3
    <3>3. CASE b # e /\ b # p
      <4>1. b \in S \ {c} /\ w2[b].next = w[b].next
        BY <1>10, <3>3
      <4>2. w[b].next # h /\ r[b] < r[w[b].next] /\ w[b].next \in S
        BY <2>5, <4>1 DEF Found, Chain, FreeList
      <4>3. w[b].next # h2
        BY <2>2, <4>1, <4>2 DEF HeadTo
      <4> QED BY <1>z, <4>1, <4>2, <4>3
    <3> QED BY <3>1, <3>2, <3>3
  <2> QED BY <2>1, <2>4, <2>5 DEF Chain
<1> QED BY <1>2, <1>7, <1>10, <1>13, <1>14, <1>z DEF w1, w2, e, k, x

----------------------------------------------------------------------------
(* What a walk from the list head finds.                                   *)

\* At is defined by recursion along the list.
LEMMA AtIs ==
  ASSUME NEW S, FreeList(hdr, head, live, S)
  PROVE  /\ MaxBlocks \in Nat
         /\ At[1] = head
         /\ \A k \in 1 .. MaxBlocks : At[k + 1] = After(At[k])
         /\ \A k \in 1 .. MaxBlocks + 1 : At[k] \in S \cup {NULL}
<1> DEFINE L == MaxBlocks
           V == S \cup {NULL}
<1>1. L \in Nat
  BY RegionsAssumption DEF MaxBlocks
<1>2. head \in V /\ \A p \in V : After(p) \in V
  BY DEF FreeList, After
<1> HIDE DEF L, V
<1>3. \E g : g = [k \in 1 .. L + 1 |-> IF k = 1 THEN head ELSE After(g[k - 1])]
  <2> DEFINE F == [z \in (1 .. L) \X V |-> After(z[2])]
  <2>1. RecursionStep(F, L, V) /\ \A k \in 1 .. L, p \in V : F[<<k, p>>] = After(p)
    BY <1>2 DEF RecursionStep
  <2> HIDE DEF F
  <2>2. PICK h : Follows(h, F, head, L, V)
    BY <1>1, <1>2, <2>1, Recur
  <2>3. /\ h \in [0 .. L -> V] /\ h[0] = head
        /\ \A k \in 1 .. L : h[k] = F[<<k, h[k - 1]>>]
    BY <2>2 DEF Follows
  <2>4. \A k \in 1 .. L : h[k] = After(h[k - 1])
    <3> TAKE k \in 1 .. L
    <3>1. h[k - 1] \in V
      BY <1>1, <2>3
    <3> QED BY ONLY <2>1, <2>3, <3>1, Zenon
  <2> DEFINE g == [k \in 1 .. L + 1 |-> h[k - 1]]
  <2>5. ASSUME NEW k \in 1 .. L + 1 PROVE g[k] = IF k = 1 THEN head ELSE After(g[k - 1])
    <3>1. CASE k = 1
      BY <1>1, <2>3, <3>1
    <3>2. CASE k # 1
      <4>1. k - 1 \in 1 .. L /\ k - 1 \in 1 .. L + 1
        BY <1>1, <3>2
      <4>2. g[k] = h[k - 1] /\ g[k - 1] = h[(k - 1) - 1]
        BY <4>1
      <4>3. h[k - 1] = After(h[(k - 1) - 1])
        BY <2>4, <4>1
      <4> QED BY <3>2, <4>2, <4>3
    <3> QED BY <3>1, <3>2
  <2>6. g = [k \in 1 .. L + 1 |-> IF k = 1 THEN head ELSE After(g[k - 1])]
    <3>1. g = [k \in 1 .. L + 1 |-> g[k]]
      OBVIOUS
    <3> HIDE DEF g
    <3> QED BY <2>5, <3>1
  <2> QED BY <2>6
<1>4. At = [k \in 1 .. L + 1 |-> IF k = 1 THEN head ELSE After(At[k - 1])]
  BY <1>3 DEF At, L
<1> HIDE DEF At
<1>5. At[1] = head
  BY <1>1, <1>4
<1>6. ASSUME NEW k \in 1 .. L PROVE At[k + 1] = After(At[k])
  <2>1. k + 1 \in 1 .. L + 1 /\ (k + 1) - 1 = k /\ k + 1 # 1
    BY <1>1
  <2> QED BY <1>4, <2>1
<1> DEFINE T == {k \in 0 .. L : At[k + 1] \in V}
<1>7. 0 \in T
  BY <1>1, <1>2, <1>5
<1>8. ASSUME NEW k \in 0 .. L - 1, k \in T PROVE k + 1 \in T
  <2>1. At[k + 1] \in V /\ k + 1 \in 1 .. L /\ k + 1 \in 0 .. L
    BY <1>1, <1>8
  <2>2. At[(k + 1) + 1] \in V
    BY <1>2, <1>6, <2>1
  <2> QED BY <2>1, <2>2
<1>9. \A k \in 0 .. L : At[k + 1] \in V
  <2>1. \A k \in T : At[k + 1] \in V
    OBVIOUS
  <2> HIDE DEF T
  <2>2. \A k \in 0 .. L : k \in T
    BY <1>1, <1>7, <1>8, Induct
  <2> QED BY <2>1, <2>2
<1>10. ASSUME NEW k \in 1 .. L + 1 PROVE At[k] \in V
  <2>1. k - 1 \in 0 .. L /\ (k - 1) + 1 = k
    BY <1>1
  <2> QED BY <1>9, <2>1
<1> QED BY <1>1, <1>5, <1>6, <1>10 DEF L, V

\* Following next from the head never leaves the free blocks.
LEMMA ListedFree ==
  ASSUME NEW S, FreeList(hdr, head, live, S)
  PROVE  Listed \subseteq S
<1>1. \A k \in 1 .. MaxBlocks + 1 : At[k] \in S \cup {NULL}
  BY AtIs
<1> QED BY <1>1 DEF Listed

\* A list that ends and whose blocks are apart is in order: alloc_mem finds
\* each of its blocks once.
LEMMA ApartChain ==
  ASSUME Headers(hdr), NEW S, FreeList(hdr, head, live, S), ListApart
  PROVE  /\ FreeList(hdr, head, live, Listed)
         /\ \E r \in [Pages -> Nat] : Chain(hdr, head, Listed, r)
<1> DEFINE N == MaxBlocks + 1
           K == {k \in 1 .. N : At[k] # NULL}
           r == [p \in Pages |-> IF p \in Listed THEN CHOOSE k \in K : At[k] = p ELSE 0]
<1>1. /\ MaxBlocks \in Nat
      /\ At[1] = head
      /\ \A k \in 1 .. MaxBlocks : At[k + 1] = After(At[k])
  BY AtIs
<1>2. Listed \subseteq S /\ S \subseteq Pages /\ NULL \notin Pages /\ Pages \subseteq Nat
  <2>1. Listed \subseteq S
    BY ListedFree
  <2>2. S \subseteq Pages
    BY DEF FreeList
  <2>3. NULL \notin Pages /\ Pages \subseteq Nat
    BY DEF Pages, NULL
  <2> QED BY <2>1, <2>2, <2>3
<1>3. \A p \in Listed : \E k \in K : At[k] = p
  BY DEF Listed
<1>4. ASSUME NEW k \in K
      PROVE  /\ k \in Nat /\ k \in 1 .. MaxBlocks /\ k + 1 \in 1 .. N
             /\ At[k] \in Listed /\ At[k + 1] = hdr[At[k]].next
  <2>1. k \in 1 .. MaxBlocks
    BY <1>1 DEF ListApart
  <2>2. At[k + 1] = hdr[At[k]].next
    BY <1>1, <2>1 DEF After
  <2> QED BY <1>1, <2>1, <2>2 DEF Listed
<1>5. ASSUME NEW b \in Listed
      PROVE  b \in Nat /\ b \in Pages /\ hdr[b].pages \in Nat /\ hdr[b].pages > 0
  BY <1>2 DEF FreeList, Headers
<1>6. ASSUME NEW i \in K, NEW j \in K, i # j
      PROVE  Separate(At[i], hdr[At[i]].pages, At[j], hdr[At[j]].pages) /\ At[i] # At[j]
  <2> DEFINE a == At[i]
             b == At[j]
             n == hdr[At[i]].pages
             k == hdr[At[j]].pages
  <2>1. a \in Nat /\ n \in Nat /\ n > 0 /\ b \in Nat /\ k \in Nat /\ k > 0
    BY <1>4, <1>5
  <2>2. PagesOf(a, n) \cap PagesOf(b, k) = {}
    BY <1>4, <1>6 DEF ListApart
  <2> HIDE DEF a, b, n, k
  <2>3. a \notin PagesOf(b, k) /\ b \notin PagesOf(a, n)
    BY <2>1, <2>2 DEF PagesOf
  <2>4. Separate(a, n, b, k)
    BY <2>1, <2>3 DEF PagesOf, Separate
  <2>5. a # b
    BY <2>1, <2>4, SeparateStarts
  <2> QED BY <2>4, <2>5 DEF a, b, n, k
<1>7. ASSUME NEW k \in K PROVE r[At[k]] = k /\ r[At[k]] \in Nat
  <2>1. At[k] \in Listed /\ At[k] \in Pages /\ k \in Nat
    BY <1>2, <1>4
  <2>2. (CHOOSE j \in K : At[j] = At[k]) = k
    BY <1>6
  <2> QED BY <2>1, <2>2
<1>8. r \in [Pages -> Nat]
  BY <1>3, <1>7
<1> HIDE DEF r, K
<1>9. \A k \in K : At[k + 1] # NULL => k + 1 \in K
  BY <1>4 DEF K
<1>10. FreeList(hdr, head, live, Listed)
  <2>1. head \in Listed \cup {NULL}
    BY <1>1 DEF Listed
  <2>2. ASSUME NEW b \in Listed PROVE hdr[b].next \in Listed \cup {NULL}
    <3>1. PICK k \in K : At[k] = b
      BY <1>3
    <3>2. hdr[b].next = At[k + 1]
      BY <1>4, <3>1
    <3> QED BY <1>4, <1>9, <3>2
  <2> QED BY <1>2, <2>1, <2>2 DEF FreeList
<1>11. Chain(hdr, head, Listed, r)
  <2>1. ASSUME NEW b \in Listed, NEW c \in Listed
        PROVE  /\ b # c => Separate(b, hdr[b].pages, c, hdr[c].pages)
               /\ (hdr[b].next = hdr[c].next /\ hdr[b].next # NULL) => b = c
    <3>1. PICK i \in K : At[i] = b
      BY <1>3
    <3>2. PICK j \in K : At[j] = c
      BY <1>3
    <3>3. b # c => Separate(b, hdr[b].pages, c, hdr[c].pages)
      BY <1>6, <3>1, <3>2
    <3>4. ASSUME hdr[b].next = hdr[c].next, hdr[b].next # NULL PROVE b = c
      <4>1. At[i + 1] = At[j + 1] /\ i + 1 \in K /\ j + 1 \in K
        BY <1>4, <1>9, <3>1, <3>2, <3>4
      <4>2. i + 1 = j + 1
        BY <1>6, <4>1
      <4>3. i = j
        BY <1>4, <4>2
      <4> QED BY <3>1, <3>2, <4>3
    <3> QED BY <3>3, <3>4
  <2>2. ASSUME NEW b \in Listed, hdr[b].next # NULL
        PROVE  hdr[b].next # head /\ r[b] < r[hdr[b].next]
    <3>1. PICK k \in K : At[k] = b
      BY <1>3
    <3>2. hdr[b].next = At[k + 1] /\ k + 1 \in K /\ k \in Nat /\ k >= 1
      BY <1>4, <1>9, <2>2, <3>1
    <3>3. r[b] = k /\ r[hdr[b].next] = k + 1
      BY <1>7, <3>1, <3>2
    <3>4. hdr[b].next # head
      <4> SUFFICES ASSUME hdr[b].next = head PROVE FALSE
        OBVIOUS
      <4>1. 1 \in K /\ At[1] = At[k + 1]
        BY <1>1, <2>2, <3>2 DEF K
      <4>2. 1 = k + 1
        BY <1>6, <3>2, <4>1
      <4> QED BY <3>2, <4>2
    <3> QED BY <3>2, <3>3, <3>4
  <2> QED BY <2>1, <2>2 DEF Chain
<1> QED BY <1>8, <1>10, <1>11

----------------------------------------------------------------------------
(* The invariant holds.                                                    *)

\* init_mem's blocks: the regions, in their order.
LEMMA ListInit == Init => ListInv
<1> SUFFICES ASSUME Init PROVE ListSound
  BY DEF ListInv
<1> DEFINE N == Len(Regions)
           D == DOMAIN Regions
           S == {Regions[i].start : i \in D}
           r == [p \in Pages |-> IF \E i \in D : Regions[i].start = p
                                 THEN CHOOSE i \in D : Regions[i].start = p ELSE 0]
<1>1. /\ LastPage \in Nat /\ N \in Nat /\ D = 1 .. N
      /\ \A i \in D : Regions[i].start \in Pages /\ Regions[i].pages \in Nat /\ Regions[i].pages > 0
  <2>1. LastPage \in Nat /\ Regions \in Seq([start : Pages, pages : Nat \ {0}])
    BY RegionsAssumption
  <2>2. N \in Nat /\ D = 1 .. N
    BY <2>1
  <2>3. ASSUME NEW i \in D PROVE Regions[i] \in [start : Pages, pages : Nat \ {0}]
    <3> DEFINE T == [start : Pages, pages : Nat \ {0}]
    <3>1. Regions \in Seq(T)
      BY <2>1
    <3> HIDE DEF T
    <3>2. Regions[i] \in T
      BY <2>2, <3>1
    <3> QED BY <3>2 DEF T
  <2>4. \A n \in Nat \ {0} : n \in Nat /\ n > 0
    OBVIOUS
  <2> QED BY <2>1, <2>2, <2>3, <2>4
<1>2. \A i \in D : Fits(Regions[i].start, Regions[i].pages)
  BY RegionsAssumption DEF Fits
<1>3. \A i, j \in D : i # j => Separate(Regions[i].start, Regions[i].pages,
                                        Regions[j].start, Regions[j].pages)
  BY RegionsAssumption DEF Separate
<1>4. ASSUME NEW i \in D, NEW j \in D, Regions[i].start = Regions[j].start PROVE i = j
  <2>1. Regions[i].start \in Nat /\ Regions[j].start \in Nat
    BY <1>1 DEF Pages
  <2> QED BY <1>1, <1>3, <1>4, <2>1, SeparateStarts
<1>5. ASSUME NEW i \in D
      PROVE  /\ (CHOOSE j \in D : Regions[j].start = Regions[i].start) = i
             /\ Regions[i].start \in Pages
             /\ \E j \in D : Regions[j].start = Regions[i].start
  BY <1>1, <1>4
<1>6. ASSUME NEW i \in D
      PROVE  /\ r[Regions[i].start] = i
             /\ hdr[Regions[i].start].pages = Regions[i].pages
             /\ hdr[Regions[i].start].next = IF i = N THEN NULL ELSE Regions[i + 1].start
  BY <1>5 DEF Init
<1>7. hdr \in [Pages -> [next : Ptr, pages : Nat]]
  <2>1. ASSUME NEW i \in D
        PROVE  (IF i = N THEN NULL ELSE Regions[i + 1].start) \in Ptr /\ Regions[i].pages \in Nat
    BY <1>1 DEF Ptr
  <2>2. NULL \in Ptr /\ 0 \in Nat
    BY DEF Ptr
  <2> SUFFICES ASSUME NEW p \in Pages PROVE hdr[p] \in [next : Ptr, pages : Nat]
    BY DEF Init
  <2>3. CASE \E i \in D : Regions[i].start = p
    <3>1. PICK i \in D : Regions[i].start = p
      BY <2>3
    <3>2. hdr[p] = [next |-> IF i = N THEN NULL ELSE Regions[i + 1].start,
                    pages |-> Regions[i].pages]
      BY <1>5, <3>1 DEF Init
    <3> QED BY <2>1, <3>2
  <2>4. CASE ~ \E i \in D : Regions[i].start = p
    <3>1. hdr[p] = [next |-> NULL, pages |-> 0]
      BY <2>4 DEF Init
    <3> QED BY <2>2, <3>1
  <2> QED BY <2>3, <2>4
<1>8. head \in S \cup {NULL} /\ S \subseteq Pages /\ (head # NULL => N > 0 /\ head = Regions[1].start)
  <2>1. CASE Regions = <<>>
    BY <1>1, <2>1 DEF Init
  <2>2. CASE Regions # <<>>
    <3>1. N > 0 /\ 1 \in D
      BY <1>1, <2>2, RegionsAssumption
    <3> QED BY <1>1, <2>2, <3>1 DEF Init
  <2> QED BY <2>1, <2>2
<1>9. r \in [Pages -> Nat]
  <2> SUFFICES ASSUME NEW p \in Pages PROVE r[p] \in Nat
    OBVIOUS
  <2>1. CASE \E i \in D : Regions[i].start = p
    <3>1. PICK i \in D : Regions[i].start = p
      BY <2>1
    <3> QED BY <1>1, <1>6, <3>1
  <2>2. CASE ~ \E i \in D : Regions[i].start = p
    BY <2>2
  <2> QED BY <2>1, <2>2
<1> HIDE DEF r
<1>10. FreeList(hdr, head, live, S)
  <2>1. ASSUME NEW b \in S
        PROVE  /\ hdr[b].next \in S \cup {NULL} /\ hdr[b].pages > 0
               /\ Fits(b, hdr[b].pages) /\ ClearOf(b, hdr[b].pages, live)
    <3>1. PICK i \in D : b = Regions[i].start
      OBVIOUS
    <3>2. i # N => i + 1 \in D
      BY <1>1
    <3>3. hdr[b].pages = Regions[i].pages /\ hdr[b].next \in S \cup {NULL}
      BY <1>6, <3>1, <3>2
    <3>4. live = {}
      BY DEF Init
    <3> QED BY <1>1, <1>2, <3>1, <3>3, <3>4 DEF ClearOf
  <2> QED BY <1>8, <2>1 DEF FreeList
<1>11. Chain(hdr, head, S, r)
  <2>0. \A i \in D : i # N => i + 1 \in D /\ i < i + 1 /\ i + 1 # 1
    BY <1>1
  <2>1. ASSUME NEW b \in S, NEW c \in S
        PROVE  /\ b # c => Separate(b, hdr[b].pages, c, hdr[c].pages)
               /\ (hdr[b].next = hdr[c].next /\ hdr[b].next # NULL) => b = c
    <3>1. PICK i \in D : b = Regions[i].start
      OBVIOUS
    <3>2. PICK j \in D : c = Regions[j].start
      OBVIOUS
    <3>3. b # c => Separate(b, hdr[b].pages, c, hdr[c].pages)
      BY <1>3, <1>6, <3>1, <3>2
    <3>4. ASSUME hdr[b].next = hdr[c].next, hdr[b].next # NULL PROVE b = c
      <4>1. i # N /\ hdr[b].next = Regions[i + 1].start
        BY <1>6, <3>1, <3>4
      <4>2. j # N /\ hdr[c].next = Regions[j + 1].start
        BY <1>6, <3>2, <3>4
      <4>3. i + 1 = j + 1
        BY <1>4, <2>0, <3>4, <4>1, <4>2
      <4>4. i = j
        BY <1>1, <4>3
      <4> QED BY <3>1, <3>2, <4>4
    <3> QED BY <3>3, <3>4
  <2>2. ASSUME NEW b \in S, hdr[b].next # NULL
        PROVE  hdr[b].next # head /\ r[b] < r[hdr[b].next]
    <3>1. PICK i \in D : b = Regions[i].start
      OBVIOUS
    <3>2. i # N /\ hdr[b].next = Regions[i + 1].start
      BY <1>6, <2>2, <3>1
    <3>3. r[b] = i /\ r[hdr[b].next] = i + 1
      BY <1>6, <2>0, <3>1, <3>2
    <3>4. hdr[b].next # head
      <4> SUFFICES ASSUME hdr[b].next = head PROVE FALSE
        OBVIOUS
      <4>1. head = Regions[1].start /\ 1 \in D
        BY <1>1, <1>8, <2>2
      <4> QED BY <1>4, <2>0, <3>2, <4>1
    <3> QED BY <2>0, <3>2, <3>3, <3>4
  <2> QED BY <2>1, <2>2 DEF Chain
<1> HIDE DEF S
<1>12. Listing(S)
  BY <1>9, <1>10, <1>11 DEF Listing, Init
<1>13. Types
  BY <1>7, <1>8 DEF Types, Init, Ptr
<1>14. LiveApart(live) /\ Given
  BY DEF LiveApart, Given, Init
<1> QED BY <1>12, <1>13, <1>14 DEF ListSound

\* alloc_mem returns the block m, and what is left of the list is U.
LEMMA Allocated ==
  ASSUME ListSound, pc = "alloc", pages' = pages, prev' = prev, m' = m,
         ptr' = m, pc' = "idle", m \in Pages,
         live' = live \cup {[start |-> m, pages |-> pages]},
         Fits(m, pages), ClearOf(m, pages, live),
         NEW U, Headers(hdr'), FreeList(hdr', head', live', U),
         NEW r \in [Pages -> Nat], Chain(hdr', head', U, r)
  PROVE  ListSound'
<1> DEFINE a == [start |-> m, pages |-> pages]
<1>1. Types /\ pages \in Nat /\ pages > 0 /\ Blocks(live)
  BY DEF ListSound, Types, Blocks
<1>2. Blocks(live') /\ head' \in Ptr
  BY <1>1 DEF Blocks, FreeList, Ptr
<1>3. Types'
  BY <1>1, <1>2 DEF Types, Blocks, Headers, Ptr
<1>4. Listing(U)'
  BY <1>1 DEF Listing
<1>5. LiveApart(live')
  <2>1. \A x \in live' : Fits(x.start, x.pages)
    BY DEF ListSound, LiveApart
  <2>2. ASSUME NEW x \in live', NEW y \in live', x # y
        PROVE  Separate(x.start, x.pages, y.start, y.pages)
    <3>1. CASE x \in live /\ y \in live
      BY <2>2, <3>1 DEF ListSound, LiveApart
    <3>2. CASE x = a /\ y \in live
      BY <3>2 DEF ClearOf
    <3>3. CASE y = a /\ x \in live
      <4>1. Separate(m, pages, x.start, x.pages)
        BY <3>3 DEF ClearOf
      <4> QED BY <3>3, <4>1 DEF Separate
    <3> QED BY <2>2, <3>1, <3>2, <3>3
  <2> QED BY <2>1, <2>2 DEF LiveApart
<1>6. Given'
  BY DEF Given
<1> QED BY <1>3, <1>4, <1>5, <1>6 DEF ListSound

\* Each iteration of alloc_mem keeps the invariant.
LEMMA AllocKeeps ==
  ASSUME ListSound, alloc_mem
  PROVE  ListSound'
<1> USE DEF alloc_mem
<1>1. PICK S : Listing(S)
  BY DEF ListSound
<1>2. Types /\ pc = "alloc" /\ pages \in Nat /\ pages > 0
  BY DEF ListSound, Types
<1>3. PICK r \in [Pages -> Nat] : Chain(hdr, head, S, r)
  BY <1>1, <1>2 DEF Listing
<1>4. Headers(hdr) /\ FreeList(hdr, head, live, S) /\ Walk(hdr, head, S, prev, m) /\ Blocks(live)
  BY <1>1, <1>2 DEF Listing, Types, Headers, Blocks
<1>5. pages' = pages
  OBVIOUS
<1>6. S \subseteq Pages /\ m \in S \cup {NULL} /\ prev \in S \cup {NULL} /\ NULL \notin Pages
  BY <1>4 DEF Walk, FreeList, NULL, Pages
<1>7. m # NULL => hdr[m].pages \in Nat
  BY <1>4, <1>6 DEF Headers
<1>8. m # NULL => Found(hdr, head, live, S, r, prev, m)
  BY <1>3, <1>4 DEF Found
<1>9. CASE m # NULL /\ hdr[m].pages = pages
  <2> DEFINE x == hdr[m].next
             a == [start |-> m, pages |-> hdr[m].pages]
  <2>0. ~ (hdr[m].pages > pages) /\ ~ (hdr[m].pages < pages)
    BY <1>7, <1>9
  <2>1. /\ live' = live \cup {a} /\ ptr' = m /\ pc' = "idle"
        /\ prev' = prev /\ m' = m
    BY <1>9, <2>0
  <2>2. head' = HeadTo(head, prev, x) /\ hdr' = NextTo(hdr, prev, x)
    BY <1>9, <2>0 DEF LinkTo, HeadTo, NextTo
  <2>3. /\ Headers(NextTo(hdr, prev, x))
        /\ FreeList(NextTo(hdr, prev, x), HeadTo(head, prev, x), live \cup {a}, S \ {m})
        /\ Chain(NextTo(hdr, prev, x), HeadTo(head, prev, x), S \ {m}, r)
    BY <1>4, <1>8, <1>9, TakeBlock
  <2>4. Headers(hdr') /\ FreeList(hdr', head', live', S \ {m}) /\ Chain(hdr', head', S \ {m}, r)
    BY <2>1, <2>2, <2>3
  <2>5. m \in S /\ Fits(m, pages) /\ ClearOf(m, pages, live)
    BY <1>4, <1>6, <1>9 DEF FreeList
  <2>6. live' = live \cup {[start |-> m, pages |-> pages]}
    BY <1>9, <2>1
  <2> QED BY <1>2, <1>3, <1>5, <1>6, <2>1, <2>4, <2>5, <2>6, Allocated
<1>10. CASE m # NULL /\ hdr[m].pages > pages
  <2> DEFINE e == m + pages
             a == [start |-> m, pages |-> pages]
             w1 == [hdr EXCEPT ![e] = [next |-> hdr[m].next, pages |-> hdr[m].pages - pages]]
             U == (S \ {m}) \cup {e}
  <2>0. ~ (hdr[m].pages = pages) /\ ~ (hdr[m].pages < pages)
    BY <1>2, <1>7, <1>10
  <2>1. /\ live' = live \cup {a} /\ ptr' = m /\ pc' = "idle"
        /\ prev' = prev /\ m' = m
    BY <1>10, <2>0
  <2>2. head' = HeadTo(head, prev, e) /\ hdr' = NextTo(w1, prev, e)
    BY <1>10, <2>0 DEF LinkTo, HeadTo, NextTo
  <2>3. /\ Headers(NextTo(w1, prev, e)) /\ Fits(m, pages) /\ ClearOf(m, pages, live)
        /\ FreeList(NextTo(w1, prev, e), HeadTo(head, prev, e), live \cup {a}, U)
        /\ \E z \in [Pages -> Nat] : Chain(NextTo(w1, prev, e), HeadTo(head, prev, e), U, z)
    BY <1>2, <1>4, <1>8, <1>10, SplitBlock
  <2> HIDE DEF w1, e
  <2>4. PICK z \in [Pages -> Nat] : Chain(NextTo(w1, prev, e), HeadTo(head, prev, e), U, z)
    BY <2>3
  <2>5. Headers(hdr') /\ FreeList(hdr', head', live', U) /\ Chain(hdr', head', U, z)
    BY <2>1, <2>2, <2>3, <2>4
  <2> HIDE DEF U
  <2> QED BY <1>2, <1>5, <1>6, <1>10, <2>1, <2>3, <2>4, <2>5, Allocated
<1>11. CASE m # NULL /\ hdr[m].pages < pages
  <2>1. /\ prev' = m /\ m' = hdr[m].next /\ head' = head /\ hdr' = hdr
        /\ live' = live /\ ptr' = ptr /\ pc' = pc
    BY <1>2, <1>7, <1>11
  <2>2. m \in S /\ hdr[m].next \in S \cup {NULL} /\ m \in Pages /\ hdr[m].next \in Ptr
    BY <1>4, <1>6, <1>11 DEF FreeList, Headers
  <2>3. Walk(hdr, head, S, m, hdr[m].next)
    BY <2>2 DEF Walk
  <2>4. Listing(S)'
    BY <1>1, <1>2, <1>5, <2>1, <2>3 DEF Listing
  <2>5. Types' /\ Given' /\ LiveApart(live)'
    BY <1>2, <1>5, <2>1, <2>2 DEF Types, Given, ListSound, LiveApart, Ptr
  <2> QED BY <2>4, <2>5 DEF ListSound
<1>12. CASE m = NULL
  <2>1. pc' = "idle" /\ UNCHANGED <<head, hdr, live, ptr, prev, m>>
    BY <1>12
  <2>2. Listing(S)'
    BY <1>1, <1>2, <1>5, <2>1 DEF Listing
  <2>3. Types' /\ Given' /\ LiveApart(live)'
    BY <1>2, <1>5, <2>1 DEF Types, Given, ListSound, LiveApart
  <2> QED BY <2>2, <2>3 DEF ListSound
<1> QED BY <1>2, <1>7, <1>9, <1>10, <1>11, <1>12

\* Each iteration of free_mem keeps the invariant.
LEMMA FreeKeeps ==
  ASSUME ListSound, free_mem
  PROVE  ListSound'
<1> USE DEF free_mem
<1>1. PICK S : Listing(S)
  BY DEF ListSound
<1>2. Types /\ pc = "free" /\ m # NULL /\ Given
  BY DEF ListSound, Types
<1>3. Freed(live)
  BY <1>2 DEF Types, Given, Freed, Blocks
<1> DEFINE s0 == [h |-> head, w |-> hdr, c |-> m]
<1>4. Iterating(s0, live, S)
  BY <1>1, <1>2 DEF Listing, Iterating, Headers, Types
<1> HIDE DEF s0
<1>5. PICK A : Iterating(InsertFirst(s0), live, A)
  BY <1>3, <1>4, InsertFirstKeeps
<1>6. PICK B : Iterating(InsertAfterPrev(InsertFirst(s0)), live, B)
  BY <1>3, <1>5, InsertAfterPrevKeeps
<1> DEFINE s == MergeNext(InsertAfterPrev(InsertFirst(s0)))
<1>7. PICK U : Iterating(s, live, U)
  BY <1>3, <1>6, MergeNextKeeps
<1>8. \/ /\ s.c = NULL
         /\ pc' = "crashed"
         /\ head' = s.h /\ hdr' = s.w
         /\ UNCHANGED <<prev, m>>
      \/ /\ s.c # NULL
         /\ head' = s.h /\ hdr' = MergePrev(s).w
         /\ prev' = s.c /\ m' = MergePrev(s).w[s.c].next
         /\ pc' = pc
  BY DEF s0
<1>9. live' = live /\ ptr' = ptr /\ pages' = pages
  OBVIOUS
<1> HIDE DEF s
<1>10. LiveApart(live)' /\ Given'
  BY <1>2, <1>8, <1>9 DEF ListSound, LiveApart, Given
<1>11. U \subseteq Pages /\ NULL \in Ptr /\ Pages \subseteq Ptr
  BY <1>7 DEF Iterating, FreeList, Ptr
<1>12. CASE s.c = NULL
  <2>1. pc' = "crashed" /\ head' = s.h /\ hdr' = s.w /\ prev' = prev /\ m' = m
    BY <1>8, <1>12
  <2>2. Listing(U)'
    BY <1>2, <1>7, <1>9, <2>1 DEF Listing, Iterating
  <2>3. s.h \in Ptr
    BY <1>7, <1>11 DEF Iterating, FreeList
  <2>4. Types'
    BY <1>2, <1>7, <1>9, <2>1, <2>3 DEF Types, Iterating, Headers
  <2> QED BY <1>10, <2>2, <2>4 DEF ListSound
<1>13. CASE s.c # NULL
  <2> DEFINE t == MergePrev(s)
  <2>1. head' = s.h /\ hdr' = t.w /\ prev' = s.c /\ m' = t.w[s.c].next /\ pc' = pc
    BY <1>8, <1>13
  <2>2. Iterating(t, live, U) /\ t.h = s.h /\ t.c = s.c
    BY <1>3, <1>7, <1>13, MergePrevKeeps
  <2> HIDE DEF t
  <2>3. s.c \in U /\ t.w[s.c].next \in U \cup {NULL} /\ s.h \in U \cup {NULL}
    BY <1>7, <1>13, <2>2 DEF Iterating, FreeList
  <2>4. Listing(U)'
    BY <1>2, <1>9, <2>1, <2>2, <2>3 DEF Listing, Iterating
  <2>5. Types'
    BY <1>2, <1>9, <1>11, <2>1, <2>2, <2>3 DEF Types, Iterating, Headers
  <2> QED BY <1>10, <2>4, <2>5 DEF ListSound
<1> QED BY <1>12, <1>13

\* So does every step.
LEMMA ListNext == ListInv /\ [Next]_vars => ListInv'
<1> SUFFICES ASSUME ListInv, [Next]_vars, ~ doubled' PROVE ListSound'
  BY DEF ListInv
<1>s. ListSound
  <2>1. ~ doubled
    BY DEF Next, vars, CallAlloc, alloc_mem, CallFree, free_mem, free_mem_return
  <2> QED BY <2>1 DEF ListInv
<1>0. PICK S : Listing(S)
  BY <1>s DEF ListSound
<1>00. Types
  BY <1>s DEF ListSound
<1>1. ASSUME NEW n \in Sizes, CallAlloc(n) PROVE ListSound'
  <2>1. n \in Nat /\ n > 0
    <3>1. Sizes \subseteq Nat \ {0}
      BY RegionsAssumption
    <3>2. n \in Nat \ {0}
      BY <3>1
    <3> QED BY <3>2
  <2>2. /\ pc = "idle" /\ pc' = "alloc" /\ pages' = n /\ ptr' = NULL
        /\ prev' = NULL /\ m' = head /\ UNCHANGED <<head, hdr, live>>
    BY <1>1 DEF CallAlloc, StartWalk
  <2>3. ListApart
    BY <1>1 DEF CallAlloc
  <2>4. /\ FreeList(hdr, head, live, Listed)
        /\ \E r \in [Pages -> Nat] : Chain(hdr, head, Listed, r)
    BY <1>0, <1>00, <2>3, ApartChain DEF Listing, Types, Headers
  <2>5. PICK U : /\ FreeList(hdr, head, live, U)
                 /\ \E r \in [Pages -> Nat] : Chain(hdr, head, U, r)
    BY <2>4
  <2>6. Walk(hdr, head, U, NULL, head)
    BY <2>5 DEF Walk, FreeList
  <2>7. Listing(U)'
    BY <2>2, <2>5, <2>6 DEF Listing
  <2>8. Types' /\ Given' /\ LiveApart(live)'
    BY <1>s, <1>00, <2>1, <2>2 DEF Types, Given, ListSound, LiveApart, Ptr
  <2> QED BY <2>7, <2>8 DEF ListSound
<1>2. ASSUME alloc_mem PROVE ListSound'
  BY <1>s, <1>2, AllocKeeps
<1>3. ASSUME NEW b \in live, CallFree(b) PROVE ListSound'
  <2>1. /\ pc = "idle" /\ live' = live \ {b} /\ pc' = "free"
        /\ ptr' = b.start /\ pages' = b.pages /\ prev' = NULL /\ m' = head
        /\ head' = head /\ hdr' = hdr
    BY <1>3 DEF CallFree, StartWalk
  <2>2. b.start \in Pages /\ b.pages \in Nat /\ b.pages > 0
    <3>1. b \in [start : Pages, pages : Nat \ {0}]
      BY <1>00 DEF Types
    <3>2. b.start \in Pages /\ b.pages \in Nat \ {0}
      BY <3>1
    <3> QED BY <3>2
  <2>3. Types'
    BY <1>00, <2>1, <2>2 DEF Types, Ptr
  <2>4. LiveApart(live') /\ Fits(b.start, b.pages) /\ ClearOf(b.start, b.pages, live')
    BY <1>s, <2>1 DEF ListSound, LiveApart, ClearOf
  <2>5. Given'
    BY <2>1, <2>2, <2>4 DEF Given
  <2>6. FreeList(hdr, head, live', S)
    BY <1>0, <2>1 DEF Listing, FreeList, ClearOf
  <2>7. Listing(S)'
    BY <2>1, <2>6 DEF Listing, FreeList
  <2> QED BY <2>3, <2>4, <2>5, <2>7 DEF ListSound
<1>4. ASSUME free_mem PROVE ListSound'
  BY <1>s, <1>4, FreeKeeps
<1>5. ASSUME free_mem_return PROVE ListSound'
  <2>1. pc = "free" /\ pc' = "idle" /\ UNCHANGED <<head, hdr, live, prev, m, ptr, pages>>
    BY <1>5 DEF free_mem_return
  <2>2. Listing(S)'
    BY <1>0, <2>1 DEF Listing
  <2>3. Types' /\ Given' /\ LiveApart(live)'
    BY <1>s, <1>00, <2>1 DEF Types, Given, ListSound, LiveApart
  <2> QED BY <2>2, <2>3 DEF ListSound
<1>6. ASSUME UNCHANGED vars PROVE ListSound'
  <2>1. Listing(S)'
    BY <1>0, <1>6 DEF Listing, vars
  <2>2. Types' /\ Given' /\ LiveApart(live)'
    BY <1>s, <1>00, <1>6 DEF Types, Given, ListSound, LiveApart, vars
  <2> QED BY <2>1, <2>2 DEF ListSound
<1> QED BY <1>1, <1>2, <1>3, <1>4, <1>5, <1>6 DEF Next

----------------------------------------------------------------------------
\* alloc_mem and free_mem, called in any order: no page of a block still
\* allocated is on the free list, unless alloc_mem was called when a page was
\* in two blocks of it.
THEOREM NothingInUseIsListed == Spec => []NothingInUseListed
<1>1. ListInv => NothingInUseListed
  <2> SUFFICES ASSUME ListSound, NEW b \in Listed
               PROVE  PagesOf(b, hdr[b].pages) \cap InUse = {}
    BY DEF NothingInUseListed, ListInv
  <2>1. PICK S : FreeList(hdr, head, live, S)
    BY DEF ListSound, Listing
  <2>2. b \in S /\ b \in Pages
    BY <2>1, ListedFree DEF FreeList
  <2>3. SUFFICES ASSUME NEW p \in PagesOf(b, hdr[b].pages), NEW x \in live,
                        p \in PagesOf(x.start, x.pages)
                 PROVE  FALSE
    BY DEF InUse
  <2>4. Separate(b, hdr[b].pages, x.start, x.pages)
    BY <2>1, <2>2 DEF FreeList, ClearOf
  <2>5. b \in Nat /\ hdr[b].pages \in Nat
    BY <2>2 DEF ListSound, Types, Pages
  <2>6. x.start \in Nat /\ x.pages \in Nat
    <3>1. x \in [start : Pages, pages : Nat \ {0}]
      BY DEF ListSound, Types
    <3> QED BY <3>1 DEF Pages
  <2> QED BY <2>3, <2>4, <2>5, <2>6 DEF PagesOf, Separate
<1> QED BY <1>1, ListInit, ListNext, PTL DEF Spec
============================================================================
