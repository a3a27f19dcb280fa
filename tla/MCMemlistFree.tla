--------------------------- MODULE MCMemlistFree ---------------------------
(* Two regions of free memory with a hole between them, blocks of one and  *)
(* two pages, up to six allocations and any frees in any order: freed      *)
(* blocks touch a free block before, after, on both sides or on none, at   *)
(* the front, in the middle and at the end of the list, and what they      *)
(* leave there is allocated from again.                                    *)
EXTENDS MemlistFree

MCRegions == <<[start |-> 1, pages |-> 6], [start |-> 8, pages |-> 3]>>
MCSizes == {1, 2}
============================================================================
