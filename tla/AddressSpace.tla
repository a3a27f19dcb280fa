---------------------------- MODULE AddressSpace ----------------------------
(***************************************************************************)
(* What setupPageMaps (kernel/paging.c) promises: the pages of a request   *)
(* become mapped one after the other, from the first upwards; a request    *)
(* may end early (no memory, end of the address space), and a page that is *)
(* mapped stays mapped.                                                    *)
(***************************************************************************)
EXTENDS Naturals

CONSTANTS NumPages,   \* pages of the address space
          Sizes       \* how many pages are requested at a time

VARIABLES mapped,     \* pages that are mapped
          todo        \* pages of the request still to be mapped

Init == mapped = {} /\ todo = {}

Request ==
  /\ todo = {}
  /\ \E first \in 0 .. NumPages - 1, n \in Sizes : todo' = first .. first + n - 1
  /\ UNCHANGED mapped

Map ==
  \E page \in todo :
    /\ \A other \in todo : page <= other
    /\ mapped' = mapped \cup {page} /\ todo' = todo \ {page}

GiveUp == todo # {} /\ todo' = {} /\ UNCHANGED mapped

Next == Request \/ Map \/ GiveUp

Spec == Init /\ [][Next]_<<mapped, todo>>
=============================================================================
