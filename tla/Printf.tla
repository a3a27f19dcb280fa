------------------------------- MODULE Printf -------------------------------
(***************************************************************************)
(* vsprintf and number (stdlib/vsprintf.c), which printk and sprintf call: *)
(* a scanner over the format, one step per part of a conversion.  A format *)
(* is a sequence of characters that ends with a NUL; vMain passes every    *)
(* key the user types as a format of its own.                              *)
(*                                                                         *)
(* Numbers are not negative: number takes an unsigned long, so its test    *)
(* for a negative one never succeeds.  Upper and lower case of hexadecimal *)
(* digits are not told apart.                                              *)
(***************************************************************************)
EXTENDS Integers, FiniteSetsExt, SequencesExt

CONSTANTS Formats,   \* formats that are scanned
          Values,    \* numbers that are formatted
          Widths,    \* arguments for *
          Text       \* the argument of %s

NUL == "NUL"

\* A format is a C string: characters up to a NUL that is not one of them.
ArgumentsAssumption ==
  /\ \A f \in Formats : f \in Seq(STRING) /\ \A i \in DOMAIN f : f[i] # NUL
  /\ Values \subseteq Nat /\ Widths \subseteq Int /\ Text \in Seq(STRING)

Digits == <<"0", "1", "2", "3", "4", "5", "6", "7", "8", "9", "A", "B", "C", "D", "E", "F">>
is_digit(c) == \E i \in 1 .. 10 : Digits[i] = c
Value(c) == (CHOOSE i \in 1 .. 16 : Digits[i] = c) - 1
Repeat(c, n) == [i \in 1 .. n |-> c]

VARIABLES fmt, pos,           \* the format and the place in it
          pc,                 \* scan, flags, width, precision, qualifier, convert, done
          flags, field_width, precision,
          out                 \* what is in buf

vars == <<fmt, pos, pc, flags, field_width, precision, out>>
spec == <<flags, field_width, precision>>

Cur == IF pos <= Len(fmt) THEN fmt[pos] ELSE NUL

Init ==
  /\ fmt \in Formats /\ pos = 1 /\ pc = "scan"
  /\ flags = {} /\ field_width = -1 /\ precision = -1
  /\ out = <<>>

----------------------------------------------------------------------------

\* The place behind the digits at p, and the number they give (skip_atoi).
DigitsEnd(p) == Min({i \in p .. Len(fmt) + 1 : i > Len(fmt) \/ ~is_digit(fmt[i])})
skip_atoi(p) ==
  LET val[i \in p - 1 .. Len(fmt)] == IF i < p THEN 0 ELSE val[i - 1] * 10 + Value(fmt[i])
  IN  val[DigitsEnd(p) - 1]

\* The digits of num, most significant first.
DigitsOf(num, base) ==
  LET ds[n \in 0 .. num] == IF n < base THEN <<Digits[n + 1]>>
                            ELSE Append(ds[n \div base], Digits[(n % base) + 1])
  IN  ds[num]

\* Mutant: the width is not reduced by what is printed as a number.
PadFor_full(size, digits) == size
PadFor(size, digits) == Max({0, size - digits})

\* number(str, num, base, size, precision, type)
number(num, base, size, prec, type) ==
  LET ds == DigitsOf(num, base)
      left == "LEFT" \in type
      zero == "ZEROPAD" \in type /\ ~left
      sign == IF "PLUS" \in type THEN <<"+">> ELSE IF "SPACE" \in type THEN <<" ">> ELSE <<>>
      n == Max({prec, Len(ds)})
      pad == PadFor(size - Len(sign), n)
      special == IF "SPECIAL" \in type /\ base = 16 THEN <<"0", "x">> ELSE <<>>
  IN  (IF zero \/ left THEN <<>> ELSE Repeat(" ", pad))
        \o sign \o special
        \o (IF zero THEN Repeat("0", pad) ELSE <<>>)
        \o Repeat("0", n - Len(ds)) \o ds
        \o (IF left THEN Repeat(" ", pad) ELSE <<>>)

string(s) ==
  LET shown == IF precision < 0 THEN s ELSE SubSeq(s, 1, Min({Len(s), precision}))
      pad == Repeat(" ", Max({0, field_width - Len(shown)}))
  IN  IF "LEFT" \in flags THEN shown \o pad ELSE pad \o shown

----------------------------------------------------------------------------
(* vsprintf.                                                               *)

Scan ==
  /\ pc = "scan"
  /\ \/ Cur = NUL /\ pc' = "done" /\ UNCHANGED <<pos, flags, out>>
     \/ /\ Cur \notin {NUL, "%"}
        /\ out' = Append(out, Cur) /\ pos' = pos + 1
        /\ UNCHANGED <<pc, flags>>
     \/ Cur = "%" /\ flags' = {} /\ pos' = pos + 1 /\ pc' = "flags" /\ UNCHANGED out
  /\ UNCHANGED <<fmt, field_width, precision>>

FlagOf == [c \in {"-", "+", " ", "#", "0"} |->
             CASE c = "-" -> "LEFT" [] c = "+" -> "PLUS" [] c = " " -> "SPACE"
               [] c = "#" -> "SPECIAL" [] c = "0" -> "ZEROPAD"]

Flag ==
  /\ pc = "flags"
  /\ IF Cur \in DOMAIN FlagOf
     THEN flags' = flags \cup {FlagOf[Cur]} /\ pos' = pos + 1 /\ UNCHANGED pc
     ELSE pc' = "width" /\ UNCHANGED <<flags, pos>>
  /\ UNCHANGED <<fmt, field_width, precision, out>>

\* A * takes its argument, but is not skipped.
Width ==
  /\ pc = "width"
  /\ \/ /\ is_digit(Cur)
        /\ field_width' = skip_atoi(pos) /\ pos' = DigitsEnd(pos) /\ UNCHANGED flags
     \/ /\ Cur = "*"
        /\ \E w \in Widths : /\ field_width' = IF w < 0 THEN -w ELSE w
                             /\ flags' = IF w < 0 THEN flags \cup {"LEFT"} ELSE flags
        /\ UNCHANGED pos
     \/ ~is_digit(Cur) /\ Cur # "*" /\ field_width' = -1 /\ UNCHANGED <<pos, flags>>
  /\ pc' = "precision"
  /\ UNCHANGED <<fmt, precision, out>>

Precision ==
  /\ pc = "precision"
  /\ IF Cur # "." THEN precision' = -1 /\ UNCHANGED pos
     ELSE LET next == IF pos + 1 <= Len(fmt) THEN fmt[pos + 1] ELSE NUL IN
          IF is_digit(next)
          THEN precision' = skip_atoi(pos + 1) /\ pos' = DigitsEnd(pos + 1)
          ELSE /\ pos' = pos + 1
               /\ IF next = "*" THEN \E w \in Widths : precision' = Max({w, 0})
                                ELSE precision' = 0
  /\ pc' = "qualifier"
  /\ UNCHANGED <<fmt, flags, field_width, out>>

Qualifier ==
  /\ pc = "qualifier"
  /\ pos' = IF Cur \in {"h", "l", "L"} THEN pos + 1 ELSE pos
  /\ pc' = "convert"
  /\ UNCHANGED <<fmt, spec, out>>

Emit(piece) == out' = out \o piece

Base == [c \in {"x", "X", "d", "i", "u"} |-> IF c \in {"x", "X"} THEN 16 ELSE 10]

\* Mutant: the scan goes on behind a % that ends the format.
Behind_skip == pos + 1
\* The NUL is not skipped.
Behind == IF Cur = NUL THEN pos ELSE pos + 1

\* What an unknown conversion prints.
Unknown == IF Cur \in {NUL, "%"} THEN <<"%">> ELSE <<"%", Cur>>

Convert ==
  /\ pc = "convert"
  /\ \/ Cur = "s" /\ Emit(string(Text))
     \/ /\ Cur \in DOMAIN Base
        /\ \E v \in Values : Emit(number(v, Base[Cur], field_width, precision, flags))
     \/ Cur \notin DOMAIN Base \cup {"s"} /\ Emit(Unknown)
  /\ pos' = Behind
  /\ pc' = "scan"
  /\ UNCHANGED <<fmt, spec>>

Done == pc = "done" /\ UNCHANGED vars

vsprintf == Scan \/ Flag \/ Width \/ Precision \/ Qualifier \/ Convert
Next == vsprintf \/ Done

Spec == Init /\ [][Next]_vars

----------------------------------------------------------------------------

\* The scanner never goes past the NUL, wherever in a conversion the format
\* ends: no part of a conversion skips it.
StaysInside == pos <= Len(fmt) + 1

\* A key the user types is echoed as itself although vMain passes it to printk
\* as the format, also when it is a %.
EchoesKey == pc = "done" /\ Len(fmt) = 1 => out = fmt

\* vsprintf ends where its format ends, and nothing of a format that ends
\* early is lost.
EndsAtNul == StaysInside /\ EchoesKey

\* The number a text of digits reads as.
ReadBack(s, base) ==
  LET val[i \in 0 .. Len(s)] == IF i = 0 THEN 0 ELSE val[i - 1] * base + Value(s[i])
  IN  val[Len(s)]
IsDigits(s) == \A i \in DOMAIN s : s[i] \in Range(Digits)

\* A converted number reads back as the value, has the precision's digits and
\* fills the field exactly, whatever flags, width and precision are combined
\* (a 0x prefix comes on top of the width).
NumberReadsBack ==
  [][pc = "convert" /\ Cur \in DOMAIN Base =>
       LET piece == SubSeq(out', Len(out) + 1, Len(out'))
           base == Base[Cur]
           body == SelectSeq(piece, LAMBDA c : c \notin {" ", "+", "x"})
           hash == IF "SPECIAL" \in flags /\ base = 16 THEN 1 ELSE 0
           sign == IF flags \cap {"PLUS", "SPACE"} # {} THEN 1 ELSE 0
       IN  /\ IsDigits(body) /\ ReadBack(body, base) \in Values
           /\ Len(body) >= precision
           /\ Len(piece) = Max({field_width + 2 * hash, Len(body) + sign + hash})]_vars
=============================================================================
