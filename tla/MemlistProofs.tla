--------------------------- MODULE MemlistProofs ---------------------------
(***************************************************************************)
(* Proofs about Memlist for every memory map without overlaps and every    *)
(* sequence of requests.  NoSharing is not inductive while init_mem runs:  *)
(* the run being gathered and the descriptors still ahead must be apart    *)
(* from the blocks already linked, and nothing is allocated yet.           *)
(***************************************************************************)
EXTENDS Memlist, SequenceTheorems, TLAPS

\* The run init_mem is gathering, a block once start is not 0.
Run == [start |-> start, pages |-> pages]

\* The map is one of the firmware's and the run is a block.
RunOK == map \in MemMaps /\ (start # 0 => pages # 0)

\* What init_mem has still to read is apart from what it has linked.
AheadApart ==
  /\ \A i \in pos .. Len(map) : \A k \in 1 .. Len(memlist) : Disjoint(map[i], memlist[k])
  /\ start # 0 => /\ \A i \in pos .. Len(map) : Disjoint(map[i], Run)
                  /\ \A k \in 1 .. Len(memlist) : Disjoint(Run, memlist[k])

\* Nothing is handed out before init_mem is done.
NothingUsedYet == pos <= Len(map) => used = {}

\* Pages of the run come from usable descriptors.
UsablePage(p) ==
  \E i \in 1 .. Len(map) : isUsableMemType(map[i].type) /\ p \in PagesOf(map[i])

AllUsable ==
  /\ \A k \in 1 .. Len(memlist) : \A p \in PagesOf(memlist[k]) : UsablePage(p)
  /\ \A b \in used : \A p \in PagesOf(b) : UsablePage(p)
  /\ start # 0 => \A p \in PagesOf(Run) : UsablePage(p)

IInv == /\ TypeOK /\ RunOK /\ AheadApart /\ NothingUsedYet
        /\ NoSharing /\ NullMeansFailure /\ AllUsable

\* The empty list, with nothing gathered, satisfies the invariant.
LEMMA InitIInv == Init => IInv
<1> SUFFICES ASSUME Init PROVE IInv
  OBVIOUS
<1>1. map \in Seq(Descriptor) /\ Len(map) \in Nat
  BY MemMapsAssumption DEF Init
<1>2. TypeOK
  BY <1>1 DEF Init, TypeOK
<1>3. RunOK /\ AheadApart /\ NothingUsedYet /\ NoSharing /\ NullMeansFailure /\ AllUsable
  BY DEF Init, RunOK, AheadApart, NothingUsedYet, NoSharing, NullMeansFailure, AllUsable
<1> QED BY <1>2, <1>3 DEF IInv

\* What is apart from a run and from the pages behind it is apart from both.
LEMMA ExtendedApart ==
  ASSUME NEW b \in Nat, NEW m \in Nat \ {0}, NEW s \in Nat, NEW p \in Nat, NEW q \in Nat,
         b + m <= s \/ s + p <= b,
         (s + p) + q <= b \/ b + m <= s + p
  PROVE  b + m <= s \/ s + (p + q) <= b
  OBVIOUS

\* A usable descriptor changes the run only.
LEMMA GatherIInv ==
  ASSUME IInv, init_mem, GatherUsable(map[pos])
  PROVE  IInv'
<1>1. /\ map \in Seq(Descriptor) /\ pos \in 1 .. Len(map) /\ map[pos] \in Descriptor
      /\ map' = map /\ pos' = pos + 1 /\ memlist' = memlist /\ used' = used /\ ptr' = ptr
      /\ Len(map) \in Nat /\ Len(memlist) \in Nat
  BY DEF IInv, TypeOK, init_mem, GatherUsable
<1>2. \A i \in pos + 1 .. Len(map) : Disjoint(map[pos], map[i]) /\ map[i] \in Descriptor
  BY <1>1, MemMapsAssumption DEF IInv, RunOK
<1>a. map[pos].start \in Nat /\ map[pos].pages \in Nat \ {0}
  BY <1>1 DEF Descriptor
<1>b. start \in Nat /\ pages \in Nat /\ (start # 0 => pages # 0)
  BY DEF IInv, TypeOK, RunOK
<1>c. \/ start = 0 /\ start' = map[pos].start /\ pages' = map[pos].pages
      \/ start # 0 /\ start + pages = map[pos].start
           /\ start' = start /\ pages' = pages + map[pos].pages
      \/ start # 0 /\ start' = start /\ pages' = pages
  BY DEF GatherUsable
<1>3. TypeOK'
  <2>1. start' \in Nat /\ pages' \in Nat
    BY <1>a, <1>b, <1>c
  <2> QED BY <1>1, <2>1 DEF IInv, TypeOK
<1>4. RunOK'
  BY <1>1, <1>a, <1>b, <1>c DEF IInv, RunOK
<1>5. AheadApart'
  <2>1. \A k \in 1 .. Len(memlist) : memlist[k] \in Block
    BY <1>1 DEF IInv, TypeOK
  <2>2. \A i \in pos + 1 .. Len(map) : \A k \in 1 .. Len(memlist) : Disjoint(map[i], memlist[k])
    BY <1>1 DEF IInv, AheadApart
  <2>3. ASSUME start' # 0 PROVE \A i \in pos + 1 .. Len(map) : Disjoint(map[i], Run')
    <3> SUFFICES ASSUME NEW i \in pos + 1 .. Len(map) PROVE Disjoint(map[i], Run')
      OBVIOUS
    <3>1. /\ Disjoint(map[pos], map[i])
          /\ start # 0 => Disjoint(map[i], Run)
          /\ map[i].start \in Nat /\ map[i].pages \in Nat \ {0}
      BY <1>1, <1>2 DEF IInv, AheadApart, Descriptor
    <3>2. CASE start = 0
      BY <1>a, <1>c, <3>1, <3>2 DEF Disjoint, Run
    <3>3. CASE start # 0
      <4>1. map[i].start + map[i].pages <= start \/ start + pages <= map[i].start
        BY <3>1, <3>3 DEF Disjoint, Run
      <4>2. CASE start' = start /\ pages' = pages
        BY <4>1, <4>2 DEF Disjoint, Run
      <4>3. CASE start + pages = map[pos].start /\ start' = start /\ pages' = pages + map[pos].pages
        <5>1. map[pos].start + map[pos].pages <= map[i].start
                \/ map[i].start + map[i].pages <= map[pos].start
          BY <3>1 DEF Disjoint
        <5>2. map[i].start + map[i].pages <= start'
                \/ start' + pages' <= map[i].start
          BY <1>a, <1>b, <3>1, <4>1, <4>3, <5>1, ExtendedApart
        <5> QED BY <5>2 DEF Disjoint, Run
      <4> QED BY <1>c, <3>3, <4>2, <4>3
    <3> QED BY <3>2, <3>3
  <2>4. ASSUME start' # 0 PROVE \A k \in 1 .. Len(memlist) : Disjoint(Run', memlist[k])
    <3> SUFFICES ASSUME NEW k \in 1 .. Len(memlist) PROVE Disjoint(Run', memlist[k])
      OBVIOUS
    <3>1. /\ Disjoint(map[pos], memlist[k])
          /\ start # 0 => Disjoint(Run, memlist[k])
          /\ memlist[k].start \in Nat /\ memlist[k].pages \in Nat \ {0}
      BY <1>1, <2>1 DEF IInv, AheadApart, Block
    <3>2. start # 0 => memlist[k].start + memlist[k].pages <= start
                         \/ start + pages <= memlist[k].start
      BY <3>1 DEF Disjoint, Run
    <3>3. (map[pos].start + map[pos].pages <= memlist[k].start)
            \/ memlist[k].start + memlist[k].pages <= map[pos].start
      BY <3>1 DEF Disjoint
    <3>4. start' + pages' <= memlist[k].start \/ memlist[k].start + memlist[k].pages <= start'
      <4>1. CASE start = 0 /\ start' = map[pos].start /\ pages' = map[pos].pages
        BY <3>3, <4>1
      <4>2. CASE start # 0 /\ start + pages = map[pos].start
                   /\ start' = start /\ pages' = pages + map[pos].pages
        BY <1>a, <1>b, <3>1, <3>2, <3>3, <4>2, ExtendedApart
      <4>3. CASE start # 0 /\ start' = start /\ pages' = pages
        BY <3>2, <4>3
      <4> QED BY <1>c, <4>1, <4>2, <4>3
    <3> QED BY <3>4 DEF Disjoint, Run
  <2> QED BY <1>1, <2>2, <2>3, <2>4 DEF AheadApart
<1>6. NothingUsedYet'
  BY <1>1 DEF IInv, NothingUsedYet
<1>7. NoSharing' /\ NullMeansFailure'
  BY <1>1 DEF IInv, NoSharing, NullMeansFailure
<1>8. AllUsable'
  <2>1. \A p \in PagesOf(map[pos]) : UsablePage(p)
    BY <1>1 DEF UsablePage, GatherUsable
  <2>2. ASSUME start' # 0, NEW p \in PagesOf(Run') PROVE UsablePage(p)
    <3>1. CASE start = 0
      BY <1>1, <2>1, <2>2, <3>1 DEF GatherUsable, PagesOf, Run
    <3>2. CASE start # 0
      <4>1. p \in PagesOf(Run) \/ p \in PagesOf(map[pos])
        BY <1>a, <1>b, <1>c, <2>2, <3>2 DEF PagesOf, Run
      <4> QED BY <2>1, <3>2, <4>1 DEF IInv, AllUsable
    <3> QED BY <3>1, <3>2
  <2> QED BY <1>1, <2>2 DEF IInv, AllUsable, UsablePage
<1> QED BY <1>3, <1>4, <1>5, <1>6, <1>7, <1>8 DEF IInv

\* Linking the run as the last block keeps the list apart.
LEMMA FlushIInv ==
  ASSUME IInv, init_mem, FlushRun(map[pos])
  PROVE  IInv'
<1>1. /\ map \in Seq(Descriptor) /\ pos \in 1 .. Len(map)
      /\ map' = map /\ pos' = pos + 1 /\ used' = used /\ ptr' = ptr /\ used = {}
      /\ start' = 0 /\ pages' = pages /\ Len(map) \in Nat /\ Len(memlist) \in Nat
      /\ memlist \in Seq(Block)
  BY DEF IInv, TypeOK, NothingUsedYet, init_mem, FlushRun
<1>2. CASE start = 0
  <2>1. memlist' = memlist
    BY <1>2 DEF FlushRun
  <2>2. TypeOK' /\ RunOK' /\ NothingUsedYet'
    BY <1>1, <2>1 DEF IInv, TypeOK, RunOK, NothingUsedYet
  <2>3. AheadApart'
    BY <1>1, <2>1 DEF IInv, AheadApart
  <2>4. NoSharing' /\ NullMeansFailure'
    BY <1>1, <2>1 DEF IInv, NoSharing, NullMeansFailure
  <2>5. AllUsable'
    <3>1. \A p : UsablePage(p)' <=> UsablePage(p)
      BY <1>1 DEF UsablePage
    <3> QED BY <1>1, <2>1, <3>1 DEF IInv, AllUsable
  <2> QED BY <2>2, <2>3, <2>4, <2>5 DEF IInv
<1>3. CASE start # 0
  <2>1. memlist' = Append(memlist, Run) /\ Run \in Block
    BY <1>3 DEF IInv, TypeOK, RunOK, FlushRun, Run, Block
  <2>2. /\ memlist' \in Seq(Block) /\ Len(memlist') = Len(memlist) + 1
        /\ \A k \in 1 .. Len(memlist) : memlist'[k] = memlist[k]
        /\ memlist'[Len(memlist) + 1] = Run
    BY <1>1, <2>1
  <2>3. TypeOK' /\ RunOK' /\ NothingUsedYet'
    BY <1>1, <2>2 DEF IInv, TypeOK, RunOK, NothingUsedYet
  <2>4. AheadApart'
    <3> SUFFICES ASSUME NEW i \in pos + 1 .. Len(map), NEW k \in 1 .. Len(memlist) + 1
                 PROVE  Disjoint(map[i], memlist'[k])
      BY <1>1, <2>2 DEF AheadApart
    <3>1. i \in pos .. Len(map)
      BY <1>1
    <3>2. CASE k = Len(memlist) + 1
      BY <1>3, <2>2, <3>1, <3>2 DEF IInv, AheadApart
    <3>3. CASE k \in 1 .. Len(memlist)
      BY <2>2, <3>1, <3>3 DEF IInv, AheadApart
    <3> QED BY <1>1, <3>2, <3>3
  <2>5. NoSharing'
    <3>1. ASSUME NEW i \in 1 .. Len(memlist'), NEW j \in 1 .. Len(memlist'), i # j
          PROVE  Disjoint(memlist'[i], memlist'[j])
      <4>1. \A a, b \in Block : Disjoint(a, b) <=> Disjoint(b, a)
        BY DEF Disjoint
      <4>2. CASE i = Len(memlist) + 1
        <5>1. j \in 1 .. Len(memlist)
          BY <1>1, <2>2, <3>1, <4>2
        <5> QED BY <1>3, <2>2, <4>2, <5>1 DEF IInv, AheadApart
      <4>3. CASE j = Len(memlist) + 1
        <5>1. i \in 1 .. Len(memlist) /\ memlist[i] \in Block
          BY <1>1, <2>2, <3>1, <4>3
        <5> QED BY <1>3, <2>1, <2>2, <4>1, <4>3, <5>1 DEF IInv, AheadApart
      <4>4. CASE i \in 1 .. Len(memlist) /\ j \in 1 .. Len(memlist)
        BY <2>2, <3>1, <4>4 DEF IInv, NoSharing
      <4> QED BY <1>1, <2>2, <4>2, <4>3, <4>4
    <3> QED BY <1>1, <3>1 DEF NoSharing
  <2>6. NullMeansFailure'
    BY <1>1, <1>3, <2>2 DEF IInv, NullMeansFailure, Run
  <2>7. AllUsable'
    <3>1. \A k \in 1 .. Len(memlist') : memlist'[k] = Run \/ \E j \in 1 .. Len(memlist) : memlist'[k] = memlist[j]
      BY <1>1, <2>2
    <3>2. \A k \in 1 .. Len(memlist') : \A p \in PagesOf(memlist'[k]) : UsablePage(p)
      BY <1>3, <3>1 DEF IInv, AllUsable
    <3>3. \A p : UsablePage(p)' <=> UsablePage(p)
      BY <1>1 DEF UsablePage
    <3> QED BY <1>1, <3>2, <3>3 DEF AllUsable
  <2> QED BY <2>3, <2>4, <2>5, <2>6, <2>7 DEF IInv
<1> QED BY <1>2, <1>3

----------------------------------------------------------------------------
(* alloc_mem. *)

\* The j-th block after a cut of n pages from the k-th was this one before.
Was(j, k, n) == IF memlist[k].pages = n /\ j >= k THEN j + 1 ELSE j

Within(a, b) == b.start <= a.start /\ a.start + a.pages <= b.start + b.pages

\* Parts of blocks that are apart are apart.
LEMMA PartsApart ==
  ASSUME NEW a \in Block, NEW b \in Block, NEW c \in Block, NEW d \in Block,
         Within(a, c), Within(b, d), Disjoint(c, d)
  PROVE  Disjoint(a, b) /\ Disjoint(b, a)
  BY DEF Within, Disjoint, Block

\* A block of the list is a block.
LEMMA BlockFields ==
  ASSUME TypeOK, NEW k \in 1 .. Len(memlist)
  PROVE  /\ memlist[k] \in Block /\ Within(memlist[k], memlist[k])
         /\ memlist[k].start \in Nat /\ memlist[k].pages \in Nat \ {0}
<1>1. memlist[k] \in Block
  BY DEF TypeOK
<1> QED BY <1>1 DEF Block, Within

\* After alloc_mem cut n pages from the front of the k-th block, every block
\* of the list is part of one block that was there, different blocks of
\* different ones, and none touches the pages that were cut.
LEMMA CutShape ==
  ASSUME TypeOK, NEW n \in Nat, NEW k \in 1 .. Len(memlist), memlist[k].pages >= n
  PROVE  /\ CutFrom(k, n) \in Seq(Block)
         /\ Len(CutFrom(k, n)) \in Nat
         /\ Len(CutFrom(k, n)) = IF memlist[k].pages = n THEN Len(memlist) - 1 ELSE Len(memlist)
         /\ \A j \in 1 .. Len(CutFrom(k, n)) :
              /\ Was(j, k, n) \in 1 .. Len(memlist)
              /\ Was(j, k, n) # k => CutFrom(k, n)[j] = memlist[Was(j, k, n)]
              /\ Was(j, k, n) = k => CutFrom(k, n)[j] = [start |-> memlist[k].start + n,
                                                        pages |-> memlist[k].pages - n]
<1>1. memlist \in Seq(Block) /\ Len(memlist) \in Nat
  BY DEF TypeOK
<1>2. memlist[k] \in Block /\ memlist[k].start \in Nat /\ memlist[k].pages \in Nat \ {0}
  BY BlockFields
<1>3. CASE memlist[k].pages = n
  <2>1. CutFrom(k, n) = Unlink(memlist, k)
    BY <1>3 DEF CutFrom
  <2>2. \A j \in 1 .. Len(memlist) - 1 :
          /\ Unlink(memlist, k)[j] = IF j < k THEN memlist[j] ELSE memlist[j + 1]
          /\ Unlink(memlist, k)[j] \in Block
    BY <1>1 DEF Unlink
  <2>3. Unlink(memlist, k) \in Seq(Block) /\ Len(Unlink(memlist, k)) = Len(memlist) - 1
    BY <1>1, <2>2, IsASeq DEF Unlink
  <2> QED BY <1>1, <1>3, <2>1, <2>2, <2>3 DEF Was
<1>4. CASE memlist[k].pages # n
  <2> DEFINE rest == [start |-> memlist[k].start + n, pages |-> memlist[k].pages - n]
  <2>1. rest \in Block
    BY <1>2, <1>4 DEF Block
  <2>2. CutFrom(k, n) = [memlist EXCEPT ![k] = rest]
    BY <1>4 DEF CutFrom
  <2> HIDE DEF rest
  <2>3. /\ CutFrom(k, n) \in Seq(Block) /\ Len(CutFrom(k, n)) = Len(memlist)
        /\ \A j \in 1 .. Len(memlist) : CutFrom(k, n)[j] = IF j = k THEN rest ELSE memlist[j]
    BY <1>1, <2>1, <2>2
  <2> QED BY <1>1, <1>4, <2>3 DEF Was, rest
<1> QED BY <1>3, <1>4

\* A successful allocation preserves the invariant.
LEMMA TakeIInv ==
  ASSUME IInv, InitDone, UNCHANGED initVars,
         NEW n \in Nat, NEW k \in 1 .. Len(memlist), TakeFrom(k, n)
  PROVE  IInv'
<1> DEFINE cut == [start |-> memlist[k].start, pages |-> n]
<1>1. /\ map' = map /\ pos' = pos /\ start' = start /\ pages' = pages
      /\ memlist' = CutFrom(k, n) /\ ptr' = memlist[k].start /\ memlist[k].pages >= n
      /\ used' = IF n = 0 THEN used ELSE used \cup {cut}
      /\ pos = Len(map) + 1 /\ Len(map) \in Nat /\ TypeOK
  BY DEF IInv, TypeOK, InitDone, initVars, TakeFrom, FirstFit
<1>2. memlist[k] \in Block /\ memlist[k].start \in Nat /\ memlist[k].pages \in Nat \ {0}
  BY <1>1, BlockFields
<1>3. n # 0 => cut \in Block /\ Within(cut, memlist[k])
  BY <1>1, <1>2 DEF Block, Within
<1>4. /\ memlist' \in Seq(Block) /\ Len(memlist') \in Nat
      /\ \A j \in 1 .. Len(memlist') :
           /\ Was(j, k, n) \in 1 .. Len(memlist)
           /\ Was(j, k, n) # k => memlist'[j] = memlist[Was(j, k, n)]
           /\ Was(j, k, n) = k => memlist'[j] = [start |-> memlist[k].start + n,
                                                 pages |-> memlist[k].pages - n]
  BY <1>1, CutShape
<1>5. ASSUME NEW j \in 1 .. Len(memlist')
      PROVE  /\ memlist'[j] \in Block
             /\ memlist[Was(j, k, n)] \in Block
             /\ Within(memlist'[j], memlist[Was(j, k, n)])
             /\ memlist'[j].start # 0
             /\ n # 0 => Disjoint(cut, memlist'[j])
  <2>1. memlist'[j] \in Block /\ Was(j, k, n) \in 1 .. Len(memlist)
    BY <1>4
  <2>2. /\ memlist[Was(j, k, n)] \in Block /\ memlist[Was(j, k, n)].start # 0
        /\ Within(memlist[Was(j, k, n)], memlist[Was(j, k, n)])
    BY <1>1, <2>1, BlockFields DEF IInv, NullMeansFailure
  <2>3. CASE Was(j, k, n) = k
    <3>1. memlist'[j] = [start |-> memlist[k].start + n, pages |-> memlist[k].pages - n]
      BY <1>4, <2>3
    <3>2. /\ memlist'[j].start = memlist[k].start + n
          /\ memlist'[j].start + memlist'[j].pages = memlist[k].start + memlist[k].pages
      <4>1. memlist'[j].start = memlist[k].start + n /\ memlist'[j].pages = memlist[k].pages - n
        BY <3>1
      <4>2. \A a, b \in Nat : (a + n) + (b - n) = a + b
        OBVIOUS
      <4> QED BY <1>2, <4>1, <4>2
    <3>3. memlist[k].start # 0
      BY DEF IInv, NullMeansFailure
    <3>4. Within(memlist'[j], memlist[k]) /\ memlist'[j].start # 0
      BY <1>2, <3>2, <3>3 DEF Within
    <3>5. Disjoint(cut, memlist'[j])
      BY <1>2, <3>2 DEF Disjoint
    <3> QED BY <2>1, <2>2, <2>3, <3>4, <3>5
  <2>4. CASE Was(j, k, n) # k
    <3>1. memlist'[j] = memlist[Was(j, k, n)]
      BY <1>4, <2>4
    <3>2. Disjoint(memlist[k], memlist[Was(j, k, n)])
      BY <2>1, <2>4 DEF IInv, NoSharing
    <3> HIDE DEF cut
    <3> QED BY <1>2, <1>3, <2>1, <2>2, <3>1, <3>2, PartsApart
  <2> QED BY <2>3, <2>4
<1> HIDE DEF cut
<1>6. TypeOK'
  BY <1>1, <1>2, <1>3, <1>4 DEF IInv, TypeOK
<1>7. RunOK' /\ NothingUsedYet' /\ NullMeansFailure'
  BY <1>1, <1>5 DEF IInv, RunOK, NothingUsedYet, NullMeansFailure
<1>8. AheadApart'
  <2>1. ASSUME start # 0, NEW j \in 1 .. Len(memlist') PROVE Disjoint(Run, memlist'[j])
    <3>1. Was(j, k, n) \in 1 .. Len(memlist) /\ Run \in Block /\ Within(Run, Run)
      BY <1>4, <2>1 DEF IInv, TypeOK, RunOK, Run, Block, Within
    <3>2. Disjoint(Run, memlist[Was(j, k, n)])
      BY <2>1, <3>1 DEF IInv, AheadApart
    <3> QED BY <1>5, <3>1, <3>2, PartsApart
  <2> QED BY <1>1, <2>1 DEF AheadApart, Run
<1>9. NoSharing'
  <2>1. ASSUME NEW i \in 1 .. Len(memlist'), NEW j \in 1 .. Len(memlist'), i # j
        PROVE  Disjoint(memlist'[i], memlist'[j])
    <3>1. /\ Was(i, k, n) \in 1 .. Len(memlist) /\ Was(j, k, n) \in 1 .. Len(memlist)
          /\ Was(i, k, n) # Was(j, k, n)
      BY <1>4, <2>1 DEF Was
    <3>2. Disjoint(memlist[Was(i, k, n)], memlist[Was(j, k, n)])
      BY <3>1 DEF IInv, NoSharing
    <3> QED BY <1>5, <3>2, PartsApart
  <2>2. ASSUME NEW a \in used, NEW j \in 1 .. Len(memlist') PROVE Disjoint(a, memlist'[j])
    <3>1. a \in Block /\ Was(j, k, n) \in 1 .. Len(memlist)
      BY <1>1, <1>4 DEF TypeOK
    <3>2. Within(a, a)
      BY <3>1 DEF Block, Within
    <3>3. Disjoint(a, memlist[Was(j, k, n)])
      BY <3>1 DEF IInv, NoSharing
    <3> QED BY <1>5, <3>1, <3>2, <3>3, PartsApart
  <2>3. ASSUME n # 0, NEW a \in used PROVE Disjoint(a, cut) /\ Disjoint(cut, a)
    <3>1. a \in Block /\ Disjoint(a, memlist[k])
      BY <1>1 DEF IInv, TypeOK, NoSharing
    <3>2. Within(a, a)
      BY <3>1 DEF Block, Within
    <3> QED BY <1>2, <1>3, <2>3, <3>1, <3>2, PartsApart
  <2> QED BY <1>1, <1>5, <2>1, <2>2, <2>3 DEF IInv, NoSharing
<1>10. AllUsable'
  <2>1. \A a, b \in Block : Within(a, b) => PagesOf(a) \subseteq PagesOf(b)
    BY DEF Within, PagesOf, Block
  <2>2. ASSUME NEW j \in 1 .. Len(memlist'), NEW p \in PagesOf(memlist'[j])
        PROVE  UsablePage(p)
    <3>1. p \in PagesOf(memlist[Was(j, k, n)]) /\ Was(j, k, n) \in 1 .. Len(memlist)
      BY <1>4, <1>5, <2>1
    <3> QED BY <3>1 DEF IInv, AllUsable
  <2>3. ASSUME n # 0, NEW p \in PagesOf(cut) PROVE UsablePage(p)
    BY <1>2, <1>3, <2>1, <2>3 DEF IInv, AllUsable
  <2>4. \A p : UsablePage(p)' <=> UsablePage(p)
    BY <1>1 DEF UsablePage
  <2>5. \A b \in used' : \A p \in PagesOf(b) : UsablePage(p)
    BY <1>1, <2>3 DEF IInv, AllUsable
  <2> QED BY <1>1, <2>2, <2>4, <2>5 DEF IInv, AllUsable, Run
<1> QED BY <1>6, <1>7, <1>8, <1>9, <1>10 DEF IInv

\* Every step of init_mem and every allocation preserves the invariant.
LEMMA NextIInv == IInv /\ [Next]_vars => IInv'
<1> SUFFICES ASSUME IInv, [Next]_vars PROVE IInv'
  OBVIOUS
<1>1. CASE init_mem
  BY <1>1, GatherIInv, FlushIInv DEF init_mem
<1>2. ASSUME NEW n \in Sizes, alloc_mem(n) PROVE IInv'
  <2>1. n \in Nat
    BY SizesAssumption
  <2>2. CASE \E k \in 1 .. Len(memlist) : TakeFrom(k, n)
    BY <1>2, <2>1, <2>2, TakeIInv DEF alloc_mem
  <2>3. CASE OutOfMemory(n)
    BY <1>2, <2>3
       DEF IInv, TypeOK, RunOK, AheadApart, NothingUsedYet, NoSharing, NullMeansFailure,
           AllUsable, UsablePage, Run, alloc_mem, initVars, OutOfMemory
  <2> QED BY <1>2, <2>2, <2>3 DEF alloc_mem
<1>3. CASE UNCHANGED vars
  BY <1>3 DEF IInv, TypeOK, RunOK, AheadApart, NothingUsedYet, NoSharing, NullMeansFailure,
              AllUsable, UsablePage, Run, vars
<1> QED BY <1>1, <1>2, <1>3 DEF Next

\* The invariant holds throughout init_mem and every run of allocations.
THEOREM IInvHolds == Spec => []IInv
  BY InitIInv, NextIInv, PTL DEF Spec

\* The list stays a list of non-empty blocks.
THEOREM TypeCorrect == Spec => []TypeOK
<1>1. IInv => TypeOK
  BY DEF IInv
<1> QED BY <1>1, IInvHolds, PTL

\* Two users of alloc_mem never share a page, and no header of the free list
\* is ever written into a page somebody uses, on every memory map.
THEOREM PagesNotShared == Spec => []NoSharing
<1>1. IInv => NoSharing
  BY DEF IInv
<1> QED BY <1>1, IInvHolds, PTL

\* Page 0 never enters the list, so a NULL from alloc_mem means failure.
THEOREM NullIsFailure == Spec => []NullMeansFailure
<1>1. IInv => NullMeansFailure
  BY DEF IInv
<1> QED BY <1>1, IInvHolds, PTL

\* Pages of types init_mem does not accept are never handed out.
THEOREM ReservedKept == Spec => []OnlyUsablePages
<1>1. IInv => OnlyUsablePages
  BY DEF IInv, AllUsable, UsablePage, OnlyUsablePages
<1> QED BY <1>1, IInvHolds, PTL

----------------------------------------------------------------------------
(* No page is lost or invented by an allocation. *)

\* The pages of a block are those of the n first and those of the rest.
LEMMA PagesSplit ==
  ASSUME NEW s \in Nat, NEW m \in Nat, NEW n \in Nat, n <= m, NEW p
  PROVE  p \in s .. s + m - 1 <=> \/ p \in s .. s + n - 1
                                  \/ p \in s + n .. (s + n) + (m - n) - 1
  OBVIOUS

\* One allocation moves pages between the list and the allocated blocks.
LEMMA TakeConserves ==
  ASSUME IInv, NEW n \in Nat, NEW k \in 1 .. Len(memlist), TakeFrom(k, n)
  PROVE  (FreePages \cup UsedPages)' = FreePages \cup UsedPages
<1> DEFINE cut == [start |-> memlist[k].start, pages |-> n]
           rest == [start |-> memlist[k].start + n, pages |-> memlist[k].pages - n]
<1>1. /\ memlist' = CutFrom(k, n) /\ memlist[k].pages >= n /\ TypeOK
      /\ used' = IF n = 0 THEN used ELSE used \cup {cut}
  BY DEF IInv, TakeFrom, FirstFit
<1>2. memlist[k].start \in Nat /\ memlist[k].pages \in Nat \ {0} /\ Len(memlist) \in Nat
  BY <1>1, BlockFields DEF TypeOK
<1>3. \A p : p \in PagesOf(memlist[k]) <=> p \in PagesOf(cut) \/ p \in PagesOf(rest)
  BY <1>1, <1>2, PagesSplit DEF PagesOf
<1>4. n = 0 => PagesOf(cut) = {}
  BY <1>2 DEF PagesOf
<1>5. n = memlist[k].pages => PagesOf(rest) = {}
  BY <1>2 DEF PagesOf
<1>6. /\ Len(memlist') = IF memlist[k].pages = n THEN Len(memlist) - 1 ELSE Len(memlist)
      /\ \A j \in 1 .. Len(memlist') :
           /\ Was(j, k, n) \in 1 .. Len(memlist)
           /\ Was(j, k, n) # k => memlist'[j] = memlist[Was(j, k, n)]
           /\ Was(j, k, n) = k => memlist'[j] = rest
  BY <1>1, CutShape
<1>7. \A i \in 1 .. Len(memlist) : i # k => \E j \in 1 .. Len(memlist') : Was(j, k, n) = i
  <2> SUFFICES ASSUME NEW i \in 1 .. Len(memlist), i # k
               PROVE  \E j \in 1 .. Len(memlist') : Was(j, k, n) = i
    OBVIOUS
  <2> DEFINE j == IF memlist[k].pages = n /\ i > k THEN i - 1 ELSE i
  <2>1. j \in 1 .. Len(memlist') /\ Was(j, k, n) = i
    BY <1>2, <1>6 DEF Was
  <2> QED BY <2>1
<1>8. memlist[k].pages # n => k \in 1 .. Len(memlist') /\ Was(k, k, n) = k
  BY <1>2, <1>6 DEF Was
<1>9. memlist[k].pages = n => \A j \in 1 .. Len(memlist') : Was(j, k, n) # k
  BY <1>2, <1>6 DEF Was
<1> DEFINE Old(p) == \E i \in 1 .. Len(memlist) : i # k /\ p \in PagesOf(memlist[i])
<1>10. \A p : p \in FreePages <=> Old(p) \/ p \in PagesOf(memlist[k])
  BY DEF FreePages
<1>11. \A p : p \in FreePages' <=> \E j \in 1 .. Len(memlist') : p \in PagesOf(memlist'[j])
  BY DEF FreePages, PagesOf
<1> HIDE DEF rest, cut
<1>12. \A p : p \in FreePages' <=> Old(p) \/ p \in PagesOf(rest)
  <2>1. ASSUME NEW p, p \in FreePages' PROVE Old(p) \/ p \in PagesOf(rest)
    BY <1>6, <1>11, <2>1
  <2>2. ASSUME NEW p, Old(p) PROVE p \in FreePages'
    BY <1>6, <1>7, <1>11, <2>2
  <2>3. ASSUME NEW p, p \in PagesOf(rest) PROVE p \in FreePages'
    BY <1>5, <1>6, <1>8, <1>11, <2>3
  <2> QED BY <2>1, <2>2, <2>3
<1>13. \A p : p \in UsedPages' <=> p \in UsedPages \/ p \in PagesOf(cut)
  <2>1. CASE n = 0
    BY <1>1, <1>4, <2>1 DEF UsedPages, PagesOf
  <2>2. CASE n # 0
    <3>1. UsedPages' = UNION {PagesOf(b) : b \in used \cup {cut}}
      BY <1>1, <2>2 DEF UsedPages, PagesOf
    <3> QED BY <3>1 DEF UsedPages
  <2> QED BY <2>1, <2>2
<1> QED BY <1>3, <1>10, <1>12, <1>13

\* Once init_mem is done, pages only move from the list to the callers of
\* alloc_mem: none leaks when a block is split or unlinked.
THEOREM NoPageLost == Spec => AllocConserves
<1>1. IInv /\ [Next]_vars
        => [InitDone => (FreePages \cup UsedPages)' = FreePages \cup UsedPages]_vars
  <2> SUFFICES ASSUME IInv, Next, InitDone
               PROVE  (FreePages \cup UsedPages)' = FreePages \cup UsedPages
    OBVIOUS
  <2>1. ~init_mem
    BY DEF IInv, TypeOK, InitDone, init_mem
  <2>2. PICK n \in Sizes : alloc_mem(n)
    BY <2>1 DEF Next
  <2>3. CASE \E k \in 1 .. Len(memlist) : TakeFrom(k, n)
    BY <2>3, TakeConserves, SizesAssumption
  <2>4. CASE OutOfMemory(n)
    BY <2>4 DEF OutOfMemory, FreePages, UsedPages, PagesOf
  <2> QED BY <2>2, <2>3, <2>4 DEF alloc_mem
<1> QED BY <1>1, IInvHolds, PTL DEF Spec, AllocConserves
----------------------------------------------------------------------------
(* What init_mem has linked, traced back to the descriptors it has read.   *)

\* The i-th descriptor begins a run: it is usable, and the one before it is
\* not, or was taken for none because it lies at page 0.
BeginsRun(i) ==
  /\ isUsableMemType(map[i].type)
  /\ i > 1 => ~isUsableMemType(map[i - 1].type) \/ map[i - 1].start = 0

\* The run being gathered began at a descriptor already read; without one the
\* next usable descriptor begins a run.
RunTraced ==
  /\ start # 0 => \E i \in 1 .. pos - 1 : map[i].start = start /\ BeginsRun(i)
  /\ start = 0 /\ pos > 1 => ~isUsableMemType(map[pos - 1].type) \/ map[pos - 1].start = 0

\* Until pages are handed out every header lies where a run begins.
HeadersTraced ==
  used = {} => \A k \in 1 .. Len(memlist) :
    \E i \in 1 .. Len(map) : map[i].start = memlist[k].start /\ BeginsRun(i)

\* On a complete map a run is being gathered exactly when the last descriptor
\* read was usable, and ends where that one ends.
RunReachesEnd ==
  Complete(map) =>
    IF start # 0
    THEN /\ pos > 1 /\ isUsableMemType(map[pos - 1].type)
         /\ start + pages = map[pos - 1].start + map[pos - 1].pages
    ELSE pos > 1 => ~isUsableMemType(map[pos - 1].type)

\* The pages of the usable descriptors among the first n.
UsableUpTo(n) ==
  UNION {PagesOf(map[i]) : i \in {j \in 1 .. n : isUsableMemType(map[j].type)}}

\* On a complete map every usable page read so far is listed or in the run.
FoundSoFar ==
  Complete(map) /\ used = {} =>
    FreePages \cup (IF start # 0 THEN PagesOf(Run) ELSE {}) = UsableUpTo(pos - 1)

TraceInv == RunTraced /\ HeadersTraced /\ RunReachesEnd /\ FoundSoFar

\* Nothing has been read or linked.
LEMMA InitTrace == Init => TraceInv
<1> SUFFICES ASSUME Init PROVE TraceInv
  OBVIOUS
<1>1. FreePages = {} /\ UsableUpTo(pos - 1) = {}
  BY DEF Init, FreePages, UsableUpTo
<1> QED BY <1>1 DEF Init, TraceInv, RunTraced, HeadersTraced, RunReachesEnd, FoundSoFar

\* The pages found grow by those of a usable descriptor, and by no others.
LEMMA UsableStep ==
  ASSUME map \in Seq(Descriptor), pos \in 1 .. Len(map)
  PROVE  UsableUpTo(pos) = UsableUpTo(pos - 1) \cup
           IF isUsableMemType(map[pos].type) THEN PagesOf(map[pos]) ELSE {}
<1>1. 1 .. pos = (1 .. pos - 1) \cup {pos}
  OBVIOUS
<1>2. ASSUME NEW n PROVE \A p : p \in UsableUpTo(n) <=>
        \E i \in 1 .. n : isUsableMemType(map[i].type) /\ p \in PagesOf(map[i])
  BY DEF UsableUpTo
<1>3. \A p : p \in UsableUpTo(pos) <=>
        p \in UsableUpTo(pos - 1) \/ (isUsableMemType(map[pos].type) /\ p \in PagesOf(map[pos]))
  BY <1>1, <1>2
<1> QED BY <1>3

\* A usable descriptor begins a run or lengthens one.
LEMMA GatherTrace ==
  ASSUME IInv, TraceInv, init_mem, GatherUsable(map[pos])
  PROVE  TraceInv'
<1>1. /\ map \in Seq(Descriptor) /\ pos \in 1 .. Len(map) /\ map[pos] \in Descriptor
      /\ map' = map /\ pos' = pos + 1 /\ memlist' = memlist /\ used' = used
      /\ Len(map) \in Nat /\ Len(memlist) \in Nat /\ isUsableMemType(map[pos].type)
      /\ pos' - 1 = pos
  BY DEF IInv, TypeOK, init_mem, GatherUsable
<1>a. map[pos].start \in Nat /\ map[pos].pages \in Nat \ {0}
  BY <1>1 DEF Descriptor
<1>b. start \in Nat /\ pages \in Nat /\ (start # 0 => pages # 0)
  BY DEF IInv, TypeOK, RunOK
<1>c. \/ start = 0 /\ start' = map[pos].start /\ pages' = map[pos].pages
      \/ start # 0 /\ start + pages = map[pos].start
           /\ start' = start /\ pages' = pages + map[pos].pages
      \/ start # 0 /\ start + pages # map[pos].start /\ start' = start /\ pages' = pages
  BY DEF GatherUsable
<1>2. \A i : BeginsRun(i)' <=> BeginsRun(i)
  BY <1>1 DEF BeginsRun
<1>3. RunTraced'
  <2>1. CASE start = 0
    <3>1. BeginsRun(pos)
      BY <1>1, <2>1 DEF TraceInv, RunTraced, BeginsRun
    <3> QED BY <1>1, <1>c, <1>2, <2>1, <3>1 DEF RunTraced
  <2>2. CASE start # 0
    <3>1. PICK i \in 1 .. pos - 1 : map[i].start = start /\ BeginsRun(i)
      BY <2>2 DEF TraceInv, RunTraced
    <3>2. start' # 0 /\ start' = start /\ i \in 1 .. pos' - 1
      BY <1>1, <1>c, <2>2
    <3> QED BY <1>1, <1>2, <3>1, <3>2 DEF RunTraced
  <2> QED BY <2>1, <2>2
<1>4. HeadersTraced'
  BY <1>1, <1>2 DEF TraceInv, HeadersTraced
<1>5. ASSUME Complete(map), start # 0 PROVE start + pages = map[pos].start
  <2>1. /\ pos > 1 /\ isUsableMemType(map[pos - 1].type)
        /\ start + pages = map[pos - 1].start + map[pos - 1].pages
    BY <1>5 DEF TraceInv, RunReachesEnd
  <2>2. pos \in 2 .. Len(map)
    BY <1>1, <2>1
  <2> QED BY <1>1, <1>5, <2>1, <2>2 DEF Complete
<1>6. Complete(map) => map[pos].start # 0
  BY <1>1 DEF Complete
<1>7. RunReachesEnd'
  <2>1. ASSUME Complete(map)
        PROVE start' # 0 /\ start' + pages' = map[pos].start + map[pos].pages
    BY <1>a, <1>b, <1>c, <1>5, <1>6, <2>1
  <2>2. Complete(map)' <=> Complete(map)
    BY <1>1 DEF Complete
  <2>3. pos' > 1 /\ map'[pos' - 1] = map[pos]
    BY <1>1
  <2> QED BY <1>1, <2>1, <2>2, <2>3 DEF RunReachesEnd
<1>8. FoundSoFar'
  <2> SUFFICES ASSUME Complete(map), used = {}
               PROVE FreePages \cup (IF start' # 0 THEN PagesOf(Run') ELSE {}) = UsableUpTo(pos)
    <3>1. Complete(map)' <=> Complete(map)
      BY <1>1 DEF Complete
    <3>2. FreePages' = FreePages /\ UsableUpTo(pos - 1)' = UsableUpTo(pos)
      BY <1>1 DEF FreePages, UsableUpTo, PagesOf
    <3>3. PagesOf(Run)' = PagesOf(Run')
      BY DEF PagesOf, Run
    <3> QED BY <1>1, <3>1, <3>2, <3>3 DEF FoundSoFar
  <2>1. FreePages \cup (IF start # 0 THEN PagesOf(Run) ELSE {}) = UsableUpTo(pos - 1)
    BY DEF TraceInv, FoundSoFar
  <2>2. UsableUpTo(pos) = UsableUpTo(pos - 1) \cup PagesOf(map[pos])
    BY <1>1, UsableStep
  <2>3. start' # 0 /\ PagesOf(Run') = (IF start # 0 THEN PagesOf(Run) ELSE {}) \cup PagesOf(map[pos])
    <3>1. CASE start = 0
      BY <1>c, <1>6, <3>1 DEF PagesOf, Run
    <3>2. CASE start # 0
      <4>1. start' = start /\ pages' = pages + map[pos].pages /\ start + pages = map[pos].start
        BY <1>c, <1>5, <3>2
      <4>2. \A p : p \in PagesOf(Run') <=> p \in PagesOf(Run) \/ p \in PagesOf(map[pos])
        BY <1>a, <1>b, <4>1 DEF PagesOf, Run
      <4> QED BY <3>2, <4>1, <4>2
    <3> QED BY <3>1, <3>2
  <2> QED BY <2>1, <2>2, <2>3
<1> QED BY <1>3, <1>4, <1>7, <1>8 DEF TraceInv

\* Any other descriptor turns the run into a block.
LEMMA FlushTrace ==
  ASSUME IInv, TraceInv, init_mem, FlushRun(map[pos])
  PROVE  TraceInv'
<1>1. /\ map \in Seq(Descriptor) /\ pos \in 1 .. Len(map)
      /\ map' = map /\ pos' = pos + 1 /\ used' = used
      /\ start' = 0 /\ pages' = pages /\ Len(map) \in Nat /\ Len(memlist) \in Nat
      /\ memlist \in Seq(Block) /\ ~isUsableMemType(map[pos].type)
      /\ pos' - 1 = pos
      /\ used = {}
  BY DEF IInv, TypeOK, NothingUsedYet, init_mem, FlushRun
<1>2. \A i : BeginsRun(i)' <=> BeginsRun(i)
  BY <1>1 DEF BeginsRun
<1>3. RunTraced' /\ RunReachesEnd'
  BY <1>1 DEF RunTraced, RunReachesEnd
<1>4. /\ start = 0 => memlist' = memlist
      /\ start # 0 => memlist' = Append(memlist, Run)
  BY DEF FlushRun, Run
<1>a. start # 0 => Run \in Block
  BY DEF IInv, TypeOK, RunOK, Run, Block
<1>5. start # 0 =>
        /\ Len(memlist') = Len(memlist) + 1
        /\ \A k \in 1 .. Len(memlist) : memlist'[k] = memlist[k]
        /\ memlist'[Len(memlist) + 1] = Run
  BY <1>1, <1>4, <1>a
<1>6. HeadersTraced'
  <2>1. \A k \in 1 .. Len(memlist) :
          \E i \in 1 .. Len(map) : map[i].start = memlist[k].start /\ BeginsRun(i)
    BY <1>1 DEF TraceInv, HeadersTraced
  <2>2. CASE start = 0
    BY <1>1, <1>2, <1>4, <2>1, <2>2 DEF HeadersTraced
  <2>3. CASE start # 0
    <3>1. PICK i \in 1 .. pos - 1 : map[i].start = start /\ BeginsRun(i)
      BY <2>3 DEF TraceInv, RunTraced
    <3>2. i \in 1 .. Len(map) /\ map[i].start = Run.start
      BY <1>1, <3>1 DEF Run
    <3>3. \A k \in 1 .. Len(memlist') : k \in 1 .. Len(memlist) \/ k = Len(memlist) + 1
      BY <1>1, <1>5, <2>3
    <3>4. \A k \in 1 .. Len(memlist') :
            \E j \in 1 .. Len(map) : map[j].start = memlist'[k].start /\ BeginsRun(j)
      BY <1>5, <2>1, <2>3, <3>1, <3>2, <3>3
    <3> QED BY <1>1, <1>2, <3>4 DEF HeadersTraced
  <2> QED BY <2>2, <2>3
<1>7. FoundSoFar'
  <2>1. ASSUME Complete(map) PROVE FreePages' = UsableUpTo(pos - 1)
    <3>1. FreePages \cup (IF start # 0 THEN PagesOf(Run) ELSE {}) = UsableUpTo(pos - 1)
      BY <1>1, <2>1 DEF TraceInv, FoundSoFar
    <3>2. CASE start = 0
      BY <1>4, <3>1, <3>2 DEF FreePages, PagesOf
    <3>3. CASE start # 0
      <4>1. 1 .. Len(memlist') = (1 .. Len(memlist)) \cup {Len(memlist) + 1}
        BY <1>1, <1>5, <3>3
      <4>2. \A p : p \in FreePages' <=> \E k \in 1 .. Len(memlist') : p \in PagesOf(memlist'[k])
        BY DEF FreePages, PagesOf
      <4>3. \A p : p \in FreePages <=> \E k \in 1 .. Len(memlist) : p \in PagesOf(memlist[k])
        BY DEF FreePages
      <4>4. \A p : p \in FreePages' <=> p \in FreePages \/ p \in PagesOf(Run)
        BY <1>5, <3>3, <4>1, <4>2, <4>3
      <4> QED BY <3>1, <3>3, <4>4
    <3> QED BY <3>2, <3>3
  <2>2. UsableUpTo(pos) = UsableUpTo(pos - 1)
    BY <1>1, UsableStep
  <2>3. UsableUpTo(pos - 1)' = UsableUpTo(pos) /\ (Complete(map)' <=> Complete(map))
    BY <1>1 DEF UsableUpTo, PagesOf, Complete
  <2> QED BY <1>1, <2>1, <2>2, <2>3 DEF FoundSoFar
<1> QED BY <1>3, <1>6, <1>7 DEF TraceInv

\* alloc_mem(0) leaves the list as it was; any other allocation hands out
\* pages, and what TraceInv says of the list is no longer about it.
LEMMA TakeTrace ==
  ASSUME IInv, TraceInv, UNCHANGED initVars,
         NEW n \in Nat, NEW k \in 1 .. Len(memlist), TakeFrom(k, n)
  PROVE  TraceInv'
<1>1. map' = map /\ pos' = pos /\ start' = start /\ pages' = pages /\ memlist \in Seq(Block)
  BY DEF initVars, IInv, TypeOK
<1>2. /\ memlist[k].start \in Nat /\ memlist[k].pages \in Nat \ {0} /\ memlist[k] \in Block
      /\ memlist[k] = [start |-> memlist[k].start, pages |-> memlist[k].pages]
  BY BlockFields DEF IInv, Block
<1>3. CASE n = 0
  <2>1. used' = used /\ memlist' = CutFrom(k, 0)
    BY <1>3 DEF TakeFrom
  <2>2. memlist' = memlist
    <3>1. memlist[k].start + 0 = memlist[k].start /\ memlist[k].pages - 0 = memlist[k].pages
      BY <1>2
    <3>2. CutFrom(k, 0) = [memlist EXCEPT ![k] = memlist[k]]
      BY <1>2, <3>1 DEF CutFrom
    <3> QED BY <1>1, <2>1, <3>2
  <2>3. (Complete(map)' <=> Complete(map)) /\ FreePages' = FreePages
        /\ UsableUpTo(pos - 1)' = UsableUpTo(pos - 1) /\ PagesOf(Run)' = PagesOf(Run)
        /\ \A i : BeginsRun(i)' <=> BeginsRun(i)
    BY <1>1, <2>2 DEF Complete, FreePages, UsableUpTo, PagesOf, Run, BeginsRun
  <2> QED BY <1>1, <2>1, <2>2, <2>3
       DEF TraceInv, RunTraced, HeadersTraced, RunReachesEnd, FoundSoFar
<1>4. CASE n # 0
  <2>1. used' # {}
    BY <1>4 DEF TakeFrom
  <2> QED BY <1>1, <2>1
       DEF TraceInv, RunTraced, HeadersTraced, RunReachesEnd, FoundSoFar, BeginsRun, Complete
<1> QED BY <1>3, <1>4

\* Every step keeps what has been read accounted for.
LEMMA NextTrace == IInv /\ TraceInv /\ [Next]_vars => TraceInv'
<1> SUFFICES ASSUME IInv, TraceInv, [Next]_vars PROVE TraceInv'
  OBVIOUS
<1>1. CASE init_mem
  BY <1>1, GatherTrace, FlushTrace DEF init_mem
<1>2. ASSUME UNCHANGED <<map, pos, start, pages, memlist, used>> PROVE TraceInv'
  <2>1. RunTraced' /\ HeadersTraced'
    BY <1>2 DEF TraceInv, RunTraced, HeadersTraced, BeginsRun
  <2>2. RunReachesEnd'
    BY <1>2 DEF TraceInv, RunReachesEnd
  <2>3. FoundSoFar'
    <3>1. FreePages' = FreePages /\ Run' = Run /\ UsableUpTo(pos - 1)' = UsableUpTo(pos - 1)
      BY <1>2 DEF FreePages, Run, UsableUpTo
    <3> QED BY <1>2, <3>1 DEF TraceInv, FoundSoFar
  <2> QED BY <2>1, <2>2, <2>3 DEF TraceInv
<1>3. ASSUME NEW n \in Sizes, alloc_mem(n) PROVE TraceInv'
  <2>1. n \in Nat
    BY SizesAssumption
  <2>2. CASE \E k \in 1 .. Len(memlist) : TakeFrom(k, n)
    BY <1>3, <2>1, <2>2, TakeTrace DEF alloc_mem
  <2>3. CASE OutOfMemory(n)
    BY <1>2, <1>3, <2>3 DEF alloc_mem, initVars, OutOfMemory
  <2> QED BY <1>3, <2>2, <2>3 DEF alloc_mem
<1>4. CASE UNCHANGED vars
  BY <1>2, <1>4 DEF vars
<1> QED BY <1>1, <1>3, <1>4 DEF Next

\* What init_mem links can always be traced to the descriptors it has read.
THEOREM TraceHolds == Spec => []TraceInv
  BY InitTrace, NextTrace, IInvHolds, PTL DEF Spec

\* Block headers are written at the first page of a run only, on every map:
\* a map that lies further up in its region is read before it is overwritten.
THEOREM HeadersInPlace == Spec => []HeadersAtRunStarts
<1>1. TraceInv => HeadersAtRunStarts
  BY DEF TraceInv, HeadersTraced, BeginsRun, HeadersAtRunStarts
<1> QED BY <1>1, TraceHolds, PTL

\* On a complete map init_mem lists every usable page.
THEOREM InitFindsAll == Spec => []NothingLost
<1>1. IInv /\ TraceInv => NothingLost
  <2> SUFFICES ASSUME IInv, TraceInv, InitDone, used = {}, Complete(map)
               PROVE  FreePages = UNION {PagesOf(d) : d \in {map[i] : i \in
                        {j \in 1 .. Len(map) : isUsableMemType(map[j].type)}}}
    BY DEF NothingLost
  <2>1. pos = Len(map) + 1 /\ Len(map) \in Nat
    BY DEF IInv, TypeOK, InitDone
  <2>2. start = 0
    <3> SUFFICES ASSUME start # 0 PROVE FALSE
      OBVIOUS
    <3>1. pos > 1 /\ isUsableMemType(map[pos - 1].type)
      BY DEF TraceInv, RunReachesEnd
    <3>2. Len(map) \in 1 .. Len(map) /\ isUsableMemType(map[Len(map)].type)
      BY <2>1, <3>1
    <3> QED BY <2>1, <3>2 DEF Complete
  <2>3. FreePages = UsableUpTo(Len(map))
    BY <2>1, <2>2 DEF TraceInv, FoundSoFar
  <2> QED BY <2>3 DEF UsableUpTo
<1> QED BY <1>1, IInvHolds, TraceHolds, PTL
============================================================================
