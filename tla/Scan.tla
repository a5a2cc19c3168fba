-------------------------------- MODULE Scan --------------------------------
(***************************************************************************)
(* What scanf makes of a line: _doscan, o_collect and string2long of       *)
(* _doscan.c.  NOFLOAT is defined, so %e, %f and %g are unknown            *)
(* conversions.                                                            *)
(*                                                                         *)
(* The input is a sequence of characters (a stream that __fillbuf never    *)
(* refills), a place in it the number of characters read.  A format is a   *)
(* sequence of items, split as _doscan reads it: [conv, noassign, width,   *)
(* size, arg] with -1 for a width that is not given, size "" or "h", and   *)
(* in arg the literal character, or the characters a [ ] accepts.          *)
(***************************************************************************)
EXTENDS Format

CONSTANTS NUMLEN,     \* 512, the size of inp_buf
          ShortMod    \* 2^16, the range of unsigned short

ASSUME ScanAssumption == NUMLEN \in Nat \ {0} /\ ShortMod \in Nat \ {0}

EOF   == "EOF"
White == {" ", "TAB", "VT", "FF", "CR", "NL"}
Signs == {"-", "+"}
Half  == WordMod \div 2     \* -(unsigned long)LONG_MIN

(* getc at place i; and how many places from there on are among `ok', up   *)
(* to a width: the loops of _doscan, o_collect and string2long.            *)
CharAt(in, i) == IF i < Len(in) THEN in[i + 1] ELSE EOF

Places(in) == 0 .. Len(in) - 1

Span(ok, i, width) ==
  CHOOSE n \in 0 .. width : i .. i + n - 1 \subseteq ok /\ (n < width => i + n \notin ok)

IsSpace(ch)   == ch \in White
Blanks(in, i) == Span({j \in Places(in) : IsSpace(CharAt(in, j))}, i, Len(in))

(* The lengths of the sign and of the 0 or 0x before the digits, within a  *)
(* field of `width' characters from place i on.                            *)
SignLen(in, i) == IF CharAt(in, i) \in Signs THEN 1 ELSE 0

(* Mutant of PrefixLen: a 0 alone is not seen.                             *)
PrefixLen_hex(in, i, width) ==
  IF width > 1 /\ CharAt(in, i) = "0" /\ CharAt(in, i + 1) \in {"x", "X"} THEN 2 ELSE 0

PrefixLen(in, i, width) ==
  IF width < 1 \/ CharAt(in, i) # "0" THEN 0
  ELSE IF width > 1 /\ CharAt(in, i + 1) \in {"x", "X"} THEN 2 ELSE 1

(* The base of %i, and of strtol with base 0.                              *)
Radix(prefix) == IF prefix = 2 THEN 16 ELSE IF prefix = 1 THEN 8 ELSE 10

(* Mutant of Collects: 'A' .. 'F' are missing as well.                     *)
Collects_digit(ch, base) == \E v \in 0 .. 9 : v < base /\ ch = DIGITS[v + 1]

(* isdigit and isxdigit: the latter names 'A' .. 'F' twice and 'a' .. 'f'  *)
(* not at all.                                                             *)
Collects(ch, base) == \E v \in 0 .. base - 1 : ch = DIGITS[v + 1]

(* How many characters from place i on o_collect copies to inp_buf, and    *)
(* the base it leaves for strtol.                                          *)
o_collect(in, i, type, width) ==
  LET sign   == SignLen(in, i)
      prefix == IF type \in {"i", "p", "x", "X"}
                THEN PrefixLen(in, i + sign, width - sign) ELSE 0
      base   == IF type = "i" THEN Radix(prefix) ELSE Base[type]
      ok     == {j \in Places(in) : Collects(CharAt(in, j), base)}
      from   == sign + prefix
  IN [len  |-> from + Span(ok, i + from, width - from),
      base |-> IF type = "i" THEN 0 ELSE base]

Overflows(val, v, base) == val > (WordMod - 1 - v) \div base

(* The digits of a text, one after the other: the value, as a word, and    *)
(* whether it did not fit.                                                 *)
AddDigit(a, ch, radix) ==
  [val  |-> (a.val * radix + ValueOf(ch)) % WordMod,
   ovfl |-> a.ovfl \/ Overflows(a.val, ValueOf(ch), radix)]

SumDigits(text, radix) ==
  FoldLeft(LAMBDA a, ch : AddDigit(a, ch, radix), [val |-> 0, ovfl |-> FALSE], text)

(* strtol and strtoul: the value, as a word, and where reading ended.      *)
string2long(nptr, base, is_signed) ==
  LET blank  == Blanks(nptr, 0)
      neg    == CharAt(nptr, blank) = "-"
      start  == blank + SignLen(nptr, blank)
      prefix == IF base \in {0, 16} THEN PrefixLen(nptr, start, 2) ELSE 0
      radix  == IF base = 0 THEN Radix(prefix) ELSE base
      ok     == {j \in Places(nptr) : IsDigit(CharAt(nptr, j), radix)}
      from   == start + prefix
      to     == from + Span(ok, from, Len(nptr))
      sum    == SumDigits(SubSeq(nptr, from + 1, to), radix)
      limit  == IF neg THEN Half ELSE Half - 1
  IN [end |-> IF to = start THEN 0 ELSE to,
      val |-> IF is_signed /\ (sum.ovfl \/ sum.val > limit) THEN limit
              ELSE IF sum.ovfl THEN WordMod - 1
              ELSE IF neg THEN (WordMod - sum.val) % WordMod ELSE sum.val]

-----------------------------------------------------------------------------
(* A call of _doscan is folded over its format.  Its state: the place in   *)
(* the input, nrchars, conv, done, the last character read, what has been  *)
(* stored, and what was returned, if it has ended.                         *)
Begin == [at |-> 0, nrchars |-> 0, conv |-> 0, done |-> 0, ic |-> EOF,
          out |-> <<>>, ret |-> <<>>]

(* `break' out of the loop over the format, and `return done'.             *)
Break(s)  == [s EXCEPT !.ret = <<IF s.conv > 0 \/ s.ic # EOF THEN s.done ELSE -1>>]
Return(s) == [s EXCEPT !.ret = <<s.done>>]

(* A conversion of n characters from place i on ends, and stores v.        *)
Assign(s, d, i, n, v) ==
  [s EXCEPT !.at = i + n, !.nrchars = @ + i - s.at + n, !.conv = @ + 1,
            !.done = IF d.noassign \/ d.conv = "n" THEN @ ELSE @ + 1,
            !.out = IF d.noassign THEN @ ELSE Append(@, v)]

(* A number: the field goes through inp_buf to strtol or strtoul.  A sign  *)
(* alone, or nothing, is no number.                                        *)
IsNumber(field) == field # <<>> /\ field \notin {<<c>> : c \in Signs}

Stored(field, base, d) ==
  LET val == string2long(field, base, d.conv \in {"d", "i"}).val
  IN IF d.size = "h" THEN val % ShortMod ELSE val

Numeric(s, d, in, i) ==
  LET width == IF d.width = -1 \/ d.width > NUMLEN THEN NUMLEN ELSE d.width
      c     == o_collect(in, i, d.conv, width)
      field == SubSeq(in, i + 1, i + c.len)
  IN IF width = 0 \/ ~IsNumber(field) THEN Return(s)
     ELSE Assign(s, d, i, c.len, Stored(field, c.base, d))

(* %c, %s and %[: characters are copied as long as they belong to the      *)
(* field; the last two are terminated.  The default width, 0xffff, is more *)
(* than any line has.                                                      *)
Textual(s, d, in, i) ==
  LET width  == IF d.width # -1 THEN d.width ELSE IF d.conv = "c" THEN 1 ELSE Len(in)
      Ok(ch) == CASE d.conv = "c" -> TRUE
                  [] d.conv = "s" -> ~IsSpace(ch)
                  [] d.conv = "[" -> ch \in d.arg
      n      == Span({j \in Places(in) : Ok(CharAt(in, j))}, i, width)
  IN IF n = 0 THEN Return(s)
     ELSE Assign(s, d, i, n, SubSeq(in, i + 1, i + n)
                             \o IF d.conv = "c" THEN <<>> ELSE <<"NUL">>)

(* Only %c, %[ and %n do not skip white space first.                       *)
Field(in, at, conv) == at + IF conv \in {"c", "[", "n"} THEN 0 ELSE Blanks(in, at)

Item(s, d, in) ==
  LET i  == IF d.conv = "literal" THEN s.at ELSE Field(in, s.at, d.conv)
      s1 == [s EXCEPT !.ic = IF d.conv = "n" THEN @ ELSE CharAt(in, i)]
  IN IF s.ret # <<>> THEN s ELSE
     CASE d.conv = "space"   -> [s1 EXCEPT !.at = i, !.nrchars = @ + i - s.at]
       [] d.conv = "literal" -> IF s1.ic = d.arg
                                THEN [s1 EXCEPT !.at = @ + 1, !.nrchars = @ + 1]
                                ELSE Break(s1)
       [] d.conv = "n"       -> Assign(s, d, i, 0, s.nrchars)
       [] OTHER              ->
            IF s1.ic = EOF THEN Break(s1)
            ELSE IF d.conv \in DOMAIN Base THEN Numeric(s1, d, in, i)
            ELSE IF d.conv \in {"c", "s", "["} THEN Textual(s1, d, in, i)
            ELSE Break(s1)

_doscan(in, format) ==
  IF format = <<>> THEN Return(Begin)
  ELSE LET s == FoldLeft(LAMBDA r, d : Item(r, d, in), Begin, format)
       IN IF s.ret = <<>> THEN Break(s) ELSE s
-----------------------------------------------------------------------------
(***************************************************************************)
(* The reference.                                                          *)
(***************************************************************************)
(* s is a numeral of the conversion, or the beginning of one: a sign, 0x   *)
(* where base 16 is allowed, and digits.                                   *)
NumeralBase(s, type) ==
  IF type # "i" THEN Base[type]
  ELSE LET b == SubSeq(s, 1 + SignLen(s, 0), Len(s))
       IN IF b = <<>> \/ b[1] # "0" THEN 10
          ELSE IF Len(b) > 1 /\ b[2] \in {"x", "X"} THEN 16 ELSE 8

Begins(s, type) ==
  LET base == NumeralBase(s, type) IN
  \E m \in {<<>>} \cup {<<c>> : c \in Signs},
     x \in {<<>>} \cup (IF base = 16 THEN {<<"0", "x">>, <<"0", "X">>} ELSE {}) :
       /\ IsPrefix(m \o x, s)
       /\ \A j \in Len(m \o x) + 1 .. Len(s) : Collects(s[j], base)

Clamp(v, lo, hi) == IF v < lo THEN lo ELSE IF v > hi THEN hi ELSE v

(* What a number conversion of type `type' and width w reads of `in' is    *)
(* the longest beginning of a numeral, and the whole of it is converted:   *)
(* its value, or the nearest a long or an unsigned long can hold.          *)
ReadsNumber(in, type, w) ==
  LET c     == o_collect(in, 0, type, w)
      field == SubSeq(in, 1, c.len)
      base  == NumeralBase(field, type)
      v     == Value(field, base)
      got   == string2long(field, c.base, type \in {"d", "i"})
  IN /\ Begins(field, type) /\ c.len <= w
     /\ c.len < w /\ c.len < Len(in) => ~Begins(SubSeq(in, 1, c.len + 1), type)
     /\ IsNumber(field) =>
          /\ got.end = c.len
          /\ got.val = IF type \in {"d", "i"}
                       THEN Clamp(IF field[1] = "-" THEN -v ELSE v, -Half, Half - 1) % WordMod
                       ELSE IF v >= WordMod THEN WordMod - 1
                       ELSE (IF field[1] = "-" THEN -v ELSE v) % WordMod
=============================================================================
