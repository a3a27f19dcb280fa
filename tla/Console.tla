------------------------------ MODULE Console ------------------------------
(***************************************************************************)
(* put_console (kernel/console.c) with put_char and scroll_screen          *)
(* (kernel/uefi_graphics.c): the cursor, and what is on the screen.        *)
(*                                                                         *)
(* The input is a stream of tokens (a character, a control character, a    *)
(* whole escape sequence); each takes one step.  x and y count character   *)
(* cells.  The screen is kept by pixel row and text column, because        *)
(* scroll_screen moves and clears pixel rows; put_char only adds the lit   *)
(* pixels of a glyph to what is there, so a place holds a set of glyphs.   *)
(***************************************************************************)
EXTENDS Integers, SequencesExt

CONSTANTS Modes,        \* graphics modes and what is printed in them
          CellH,        \* pixel rows of a cell (16)
          Lit           \* pixel rows each character lights

VARIABLE mode

W == mode.w                    \* whole cells of the screen: width / 8, height / 16
H == mode.h
Partial == mode.partial        \* is width not a multiple of 8?
Rest == mode.rest              \* pixel rows below the last whole cell
ScrollCols == mode.scroll      \* columns scroll_screen moves: 400 pixels
Chars == mode.chars            \* characters printed
Digits == mode.digits          \* n of the cursor movements in the input
MaxX == W + mode.beyond        \* bound: how far off the screen the cursor may get
MaxY == H + mode.beyond

ModesAssumption ==
  /\ CellH \in Nat \ {0}
  /\ \A m \in Modes :
       /\ m.w \in Nat \ {0} /\ m.h \in Nat \ {0} /\ m.scroll \in 0 .. m.w
       /\ m.partial \in BOOLEAN /\ m.rest \in 0 .. CellH - 1
       /\ Lit \in [UNION {n.chars : n \in Modes} -> SUBSET (0 .. CellH - 1)]
       /\ m.digits \subseteq 0 .. 9 /\ m.beyond \in Nat
       /\ "blank" \notin m.chars

Height == H * CellH + Rest
Columns == 0 .. W - 1
White == 7
Colours == {White, 2}                     \* colours the input asks for
Glyphs == Chars \X Colours
Blank == <<"blank", White>>                \* a column a tab has skipped

VARIABLES x, y,        \* the cursor
          tmpx, tmpy,  \* where it was before the first movement, or -1
          colour,      \* r, g, b
          screen,      \* pixel row -> column -> glyphs drawn there
          rows         \* history: the text of the lines 0 .. y, as written

cursor == <<x, y, tmpx, tmpy>>
vars == <<x, y, tmpx, tmpy, colour, screen, rows, mode>>

TypeOK ==
  /\ mode \in Modes
  /\ x \in 0 .. MaxX + 2 /\ y \in 0 .. MaxY
  /\ tmpx \in {-1} \cup 0 .. MaxX + 2 /\ tmpy \in {-1} \cup 0 .. H - 1
  /\ colour \in Colours
  /\ screen \in [0 .. Height - 1 -> [Columns -> SUBSET Glyphs]]

\* init_gop has cleared the screen.
Init ==
  /\ mode \in Modes
  /\ x = 0 /\ y = 0 /\ tmpx = -1 /\ tmpy = -1 /\ colour = White
  /\ screen = [r \in 0 .. Height - 1 |-> [c \in Columns |-> {}]]
  /\ rows = << <<>> >>

----------------------------------------------------------------------------
(* The frame buffer.                                                       *)

\* put_char at a cell; putPixel drops what is outside the screen.
put_char(scr, g, col, row) ==
  [r \in 0 .. Height - 1 |-> [c \in Columns |->
     IF c = col /\ r \div CellH = row /\ (r % CellH) \in Lit[g[1]]
     THEN scr[r][c] \cup {g} ELSE scr[r][c]]]

\* The black block: every pixel of the cell.
put_block(scr, col, row) ==
  [r \in 0 .. Height - 1 |-> [c \in Columns |->
     IF c = col /\ r \div CellH = row THEN {} ELSE scr[r][c]]]

\* Mutant: only the columns that are not moved are cleared.
Cleared_scrolled(r, c) == r > Height - CellH /\ c >= ScrollCols
\* The last rows but one: the loop clears from height - 0 to height - 15.
Cleared(r, c) == r > Height - CellH

\* The first 400 pixels of every row move up by a line; then the last rows
\* are cleared over the whole width.
scroll_screen(scr) ==
  [r \in 0 .. Height - 1 |-> [c \in Columns |->
     IF Cleared(r, c) THEN {}
     ELSE IF r < Height - CellH /\ c < ScrollCols THEN scr[r + CellH][c]
     ELSE scr[r][c]]]

\* The text of the lines on the screen; line 0 is lost when it scrolls.
NewRow(rs) == LET all == Append(rs, <<>>) IN IF Len(all) > H THEN Tail(all) ELSE all
Write(rs) == rows' = IF Digits = {} THEN rs ELSE rows

----------------------------------------------------------------------------
(* put_console.                                                            *)

\* The cursor goes to the next line; at the end of the screen everything
\* moves up instead.
NextLine(line, scr) ==
  IF line + 1 = H THEN y' = line /\ screen' = scroll_screen(scr)
                  ELSE y' = line + 1 /\ screen' = scr

\* A printable character; on the right edge of the screen it is dropped.
Character(ch) ==
  /\ x # W \/ Partial
  /\ x < MaxX /\ y < MaxY
  /\ LET scr == put_char(screen, <<ch, colour>>, x, y)
         row == [rows EXCEPT ![Len(rows)] = Append(@, <<ch, colour>>)]
     IN  IF x + 1 = W THEN x' = 0 /\ NextLine(y, scr) /\ Write(NewRow(row))
         ELSE x' = x + 1 /\ screen' = scr /\ UNCHANGED y /\ Write(row)
  /\ UNCHANGED <<tmpx, tmpy, colour, mode>>

Tab ==
  /\ x <= MaxX
  /\ LET n == IF x % 2 = 1 THEN 1 ELSE 2
     IN  /\ x' = x + n
         /\ Write([rows EXCEPT ![Len(rows)] = @ \o [i \in 1 .. n |-> Blank]])
  /\ UNCHANGED <<y, tmpx, tmpy, colour, screen, mode>>

Backspace ==
  /\ x >= 1
  /\ x' = x - 1
  /\ screen' = put_block(screen, x - 1, y)
  /\ Write([rows EXCEPT ![Len(rows)] = IF @ = <<>> THEN @ ELSE Front(@)])
  /\ UNCHANGED <<y, tmpx, tmpy, colour, mode>>

\* Mutant: the saved line is not restored.
SavedLine_not == y
\* The line a newline starts from: the one saved before it, if the cursor
\* was moved.
SavedLine == IF tmpy # -1 THEN tmpy - 1 ELSE y

Newline ==
  /\ x' = 0 /\ tmpx' = -1 /\ tmpy' = -1 /\ colour' = White
  /\ NextLine(SavedLine, screen)
  /\ Write(NewRow(rows))
  /\ UNCHANGED mode

SetColour == colour' \in Colours /\ UNCHANGED <<cursor, screen, rows, mode>>

\* Only the first movement of a line saves the place.
Save(tmp, at) == IF tmp = -1 THEN at ELSE tmp

\* Movements: up and left stop at 0; down and right stop only once they are
\* past the edge, so that the edge itself (y = H, x = W) is reached.
Up(n) ==
  /\ tmpy' = Save(tmpy, y) /\ y' = IF y - n < 0 THEN 0 ELSE y - n
  /\ UNCHANGED <<x, tmpx, colour, screen, rows, mode>>
Down(n) ==
  /\ tmpy' = Save(tmpy, y) /\ y' = IF y + n > H THEN H - 1 ELSE y + n
  /\ UNCHANGED <<x, tmpx, colour, screen, rows, mode>>
Right(n) ==
  /\ tmpx' = Save(tmpx, x) /\ x' = IF x + n > W THEN W - 1 ELSE x + n
  /\ UNCHANGED <<y, tmpy, colour, screen, rows, mode>>
Left(n) ==
  /\ tmpx' = Save(tmpx, x) /\ x' = IF x - n < 0 THEN 0 ELSE x - n
  /\ UNCHANGED <<y, tmpy, colour, screen, rows, mode>>
Move == \E n \in Digits : Up(n) \/ Down(n) \/ Right(n) \/ Left(n)

\* init_xhci and usb_process_events scroll the screen under the console, which
\* does not move its cursor.  They do so after a whole line was printed.
ScrollUnder ==
  /\ x = 0
  /\ screen' = scroll_screen(screen)
  /\ Write(IF Len(rows) = 1 THEN rows ELSE Append(Tail(rows), <<>>))
  /\ UNCHANGED <<cursor, colour, mode>>

put_console ==
  \/ \E ch \in Chars : Character(ch)
  \/ Tab \/ Backspace \/ Newline \/ SetColour \/ Move

Next == put_console \/ ScrollUnder

Spec == Init /\ [][Next]_vars

----------------------------------------------------------------------------

\* What the text says is at a place of the screen.
Shown(r, c) ==
  LET line == r \div CellH IN
  IF line < Len(rows) /\ c < Len(rows[line + 1]) /\ rows[line + 1][c + 1] # Blank
     /\ (r % CellH) \in Lit[rows[line + 1][c + 1][1]]
  THEN {rows[line + 1][c + 1]} ELSE {}

\* In the columns that scroll, the screen shows the last lines of the text, each
\* character in the colour set on its line: no line is lost or doubled when the
\* text wraps at the lower right corner, and scrolling under the console loses
\* none either.  Nothing else is to be seen, but for one pixel row of each cell.
\* scroll_screen moves the rows above height - 16 and clears those below it, and
\* does neither with the row height - 16 (row Rest of the last cell; the memset
\* it has commented out would have cleared it).  What was drawn there stays under
\* what is drawn next, and both move up together with the next line.
ShowsText ==
  Digits = {} =>
    /\ Len(rows) = y + 1
    /\ \A r \in 0 .. Height - 1, c \in 0 .. ScrollCols - 1 :
         /\ Shown(r, c) \subseteq screen[r][c]
         /\ r % CellH # Rest => screen[r][c] = Shown(r, c)

\* A newline brings the cursor back onto the screen wherever escape sequences,
\* tabs and dropped characters have left it.
NewlineRecovers == [][Newline => x' = 0 /\ y' \in 0 .. H - 1]_vars
=============================================================================
