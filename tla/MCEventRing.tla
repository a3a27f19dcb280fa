---------------------------- MODULE MCEventRing ----------------------------
(* The event ring with four slots and two kinds of event contents: every   *)
(* offset between the pointers and both values of each cycle bit occur.    *)
EXTENDS EventRing
============================================================================
