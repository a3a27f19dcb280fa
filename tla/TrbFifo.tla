------------------------------ MODULE TrbFifo ------------------------------
(***************************************************************************)
(* What a TRB ring promises, whichever side the kernel is on: a bounded    *)
(* first-in first-out queue.  Entries come out once each, in the order in  *)
(* which they were put in, exactly as they were put in.                    *)
(* TrbRing (kernel produces) and EventRing (kernel consumes) implement it. *)
(***************************************************************************)
EXTENDS Naturals, Sequences

CONSTANTS Entry,     \* what the queue carries
          Capacity   \* how many entries may be waiting

VARIABLES q,         \* entries put in and not yet taken
          out        \* the entry taken last

Put(e) ==
  /\ Len(q) < Capacity
  /\ q' = Append(q, e)
  /\ UNCHANGED out

Take ==
  /\ q # <<>>
  /\ out' = Head(q)
  /\ q' = Tail(q)

Init == q = <<>>

Next == (\E e \in Entry : Put(e)) \/ Take

Spec == Init /\ [][Next]_<<q, out>>
============================================================================
