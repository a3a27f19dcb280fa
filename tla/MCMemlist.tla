----------------------------- MODULE MCMemlist -----------------------------
(* Every map of up to MaxDescs descriptors of one or two pages, in address *)
(* order, with or without a hole before each, starting at page 0 or later: *)
(* runs that merge, runs broken by a hole, runs at page 0 and at the end.  *)
EXTENDS Memlist, FiniteSets

CONSTANT MaxDescs

Shape == [gap : {0, 1}, pages : {1, 2},
          type : {"EfiConventionalMemory", "EfiUnusableMemory"}]

\* The map whose i-th descriptor lies s[i].gap pages after the one before.
Layout(s) ==
  LET end[i \in 0 .. Len(s)] == IF i = 0 THEN 0 ELSE end[i - 1] + s[i].gap + s[i].pages
  IN  [i \in 1 .. Len(s) |-> [start |-> end[i] - s[i].pages, pages |-> s[i].pages,
                              type |-> s[i].type]]

MCMemMaps == {Layout(s) : s \in UNION {[1 .. n -> Shape] : n \in 0 .. MaxDescs}}
MCSizes == {0, 1, 2, 3}
============================================================================
