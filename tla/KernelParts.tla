---------------------------- MODULE KernelParts ----------------------------
(***************************************************************************)
(* The parts of the kernel that every other part calls or falls into: the  *)
(* exception stubs, demand paging, vsprintf and the console.  They share   *)
(* no state while they run; each is an instance of its module, with        *)
(* variables of its own and the constants still open.                      *)
(***************************************************************************)
EXTENDS Integers, Sequences

CONSTANTS Vectors                                                   \* ExceptionStub
CONSTANTS Fan, Levels, NumFrames, UserTop, Accesses, Requests       \* Paging
CONSTANTS Formats, Values, Widths, Argument                         \* Printf
CONSTANTS Modes, CellH, Lit                                         \* Console

VARIABLES vector, present, ip, reg, stack, resumed, seen, at
VARIABLES mem, used, handler, access, pending, addr, num_pages, activations, req, readonly
VARIABLES fmt, pos, scanner, flags, field_width, precision, out
VARIABLES x, y, tmpx, tmpy, colour, screen, rows, mode

Exc == INSTANCE ExceptionStub WITH pc <- ip
Pg == INSTANCE Paging WITH pc <- handler, stack <- activations
Fmt == INSTANCE Printf WITH pc <- scanner, Text <- Argument
Con == INSTANCE Console

ASSUME PagingShape == Pg!ShapeAssumption
ASSUME PagingUse == Pg!UseAssumption
ASSUME PrintfArguments == Fmt!ArgumentsAssumption
ASSUME ConsoleModes == Con!ModesAssumption

excVars == <<vector, present, ip, reg, stack, resumed, seen, at>>
pgVars == <<mem, used, handler, access, pending, addr, num_pages, activations, req, readonly>>
fmtVars == <<fmt, pos, scanner, flags, field_width, precision, out>>
conVars == <<x, y, tmpx, tmpy, colour, screen, rows, mode>>

----------------------------------------------------------------------------

\* The stubs of asm.S give each handler of exception.c its frame, and the
\* interrupted code its place and its saved registers (ExceptionStub).
StubsTransparent == Exc!StubsTransparent

\* setupPageMap keeps the page maps a tree of allocated frames, and pages that
\* do_page_fault has mapped are zero and do not fault again (Paging).
PageMapsSound == Pg!PageMapsSound
\* setupPageMap implements AddressSpace (Paging).
MapsInOrder == Pg!MapsInOrder

\* vsprintf never goes past the end of its format, and vMain's printk echoes a
\* key as itself (Printf).
EndsAtNul == Fmt!EndsAtNul
\* The text number makes of a value reads back as the value (Printf).
NumberReadsBack == Fmt!NumberReadsBack

\* The screen shows the last lines put_console was given, and in one pixel row
\* of each cell also remains of earlier ones (Console).
ShowsText == Con!ShowsText
\* A newline brings put_console's cursor back onto the screen (Console).
NewlineRecovers == Con!NewlineRecovers
============================================================================
