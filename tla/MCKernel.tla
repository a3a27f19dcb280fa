------------------------------ MODULE MCKernel ------------------------------
(***************************************************************************)
(* The parts of the kernel that every other part calls or falls into, each *)
(* with its own choice of inputs.  A behaviour is one of the parts from    *)
(* its start; the others stay in an initial state.                         *)
(***************************************************************************)
EXTENDS KernelParts, SequencesExt

VARIABLES part

MCVectors == 0 .. 19

\* Pages 0 to 2 can be mapped on demand, pages 4 to 7 are the kernel's half.
\* Accesses at the bottom and at the top of the range, and beyond it.
EdgeAccesses ==
  [page : {0, UserTop}, off : {0}, write : {TRUE}]
    \cup {[page |-> UserTop, off |-> 1, write |-> TRUE],
          [page |-> UserTop + 1, off |-> 0, write |-> FALSE]}
\* Requests that cross the ends of page maps, and one page that is read-only.
AnyRequest ==
  [first : {1, 6}, n : {4}, rw : {TRUE}] \cup {[first |-> UserTop, n |-> 1, rw |-> FALSE]}

\* All formats of up to three characters after a %, and those with a flag, a
\* width and a precision; every single character.
Alphabet == {"%", "-", "+", "0", "3", ".", "*", "l", "x", "d", "s", "a", "#"}
FullFormats ==
  {<<"%">> \o f \o w \o p \o <<c>> :
     f \in {<<>>, <<"-">>, <<"0">>, <<"+">>, <<"#">>, <<"+", "0">>, <<"-", "0">>, <<"#", "0">>},
     w \in {<<>>, <<"3">>, <<"*">>}, p \in {<<>>, <<".">>, <<".", "3">>, <<".", "*">>},
     c \in {"d", "x", "s"}}
SomeFormats ==
  {<<c>> : c \in Alphabet} \cup {<<"%">> \o f : f \in BoundedSeq(Alphabet, 3)} \cup FullFormats
MCValues == {0, 7, 300}
MCWidths == {-4, 0, 2}
MCArgument == <<"a", "b">>

\* A screen that is no multiple of the cell, on which the cursor is moved about,
\* and three for text: of whole cells, with a rest below them, and a narrow one.  A glyph lights
\* every row, the row that scroll_screen leaves behind with the others.
Moves == [w |-> 3, h |-> 3, partial |-> TRUE, rest |-> 1, scroll |-> 2, chars |-> {" "},
          digits |-> {0, 1, 2, 9}, beyond |-> 2]
Text(wide, high, below) ==
  [w |-> wide, h |-> high, partial |-> FALSE, rest |-> below, scroll |-> 1, chars |-> {"a"},
   digits |-> {}, beyond |-> 1]
MCModes == {Text(2, 2, 0), Text(2, 2, 1), Text(1, 3, 1), Moves}
Font == [ch \in {"a", " "} |-> IF ch = "a" THEN 0 .. 1 ELSE {}]

vars == <<part, excVars, pgVars, fmtVars, conVars>>

Init ==
  /\ part \in {"exception", "paging", "vsprintf", "put_console"}
  /\ Exc!Init /\ Pg!Init /\ Fmt!Init /\ Con!Init
  /\ part # "vsprintf" => fmt = <<"a">>
  /\ part # "put_console" => mode = Text(2, 2, 0)

ExcStep == part = "exception" /\ Exc!Next /\ UNCHANGED <<part, pgVars, fmtVars, conVars>>
PgStep(A) == part = "paging" /\ A /\ UNCHANGED <<part, excVars, fmtVars, conVars>>
FmtStep == part = "vsprintf" /\ Fmt!Next /\ UNCHANGED <<part, excVars, pgVars, conVars>>
ConStep == part = "put_console" /\ Con!Next /\ UNCHANGED <<part, excVars, pgVars, fmtVars>>

Next == ExcStep \/ PgStep(Pg!Next) \/ FmtStep \/ ConStep

\* The processor goes on with an instruction it has begun.
Spec == Init /\ [][Next]_vars /\ WF_vars(PgStep(Pg!KernelStep))

----------------------------------------------------------------------------

\* A fault in the range do_page_fault maps is served in the end (Paging).
FaultServed == Pg!FaultServed
=============================================================================
