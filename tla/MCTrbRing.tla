----------------------------- MODULE MCTrbRing -----------------------------
(* Six slots (five TRBs and the link), two TRB contents, groups of up to   *)
(* three TRBs, so that a group can start at every slot and straddle the    *)
(* link.                                                                   *)
EXTENDS TrbRing
============================================================================
