------------------------------- MODULE Format -------------------------------
(***************************************************************************)
(* What printf makes of its arguments: number and vsprintf of printf.c.    *)
(*                                                                         *)
(* A character is a string of length one.  A format is a sequence of       *)
(* items, each a literal character or a conversion, as the parser of       *)
(* vsprintf (printf.c:160-209) reads it: [conv, flags, width, prec, arg],  *)
(* with -1 for a width or a precision that is not given.  A `*' takes an   *)
(* argument but is not skipped, so it ends up as an unknown conversion:    *)
(* [conv |-> "default", arg |-> "*"], and what follows it is literal.      *)
(***************************************************************************)
EXTENDS Integers, FiniteSets, SequencesExt

CONSTANT WordMod   \* 2^32, the range of int and unsigned long

ASSUME FormatAssumption == WordMod \in Nat \ {0} /\ WordMod % 2 = 0

DIGITS == <<"0", "1", "2", "3", "4", "5", "6", "7", "8", "9",
            "A", "B", "C", "D", "E", "F">>
Digits == <<"0", "1", "2", "3", "4", "5", "6", "7", "8", "9",
            "a", "b", "c", "d", "e", "f">>

Larger(a, b) == IF a > b THEN a ELSE b
Fill(ch, n)  == [j \in 1 .. Larger(n, 0) |-> ch]

(* The digits of n, the lowest first, by repeated do_div.                  *)
Divide(n, base) ==
  LET f[m \in 0 .. n] == IF m < base THEN <<m>> ELSE <<m % base>> \o f[m \div base]
  IN f[n]

(* Mutant of Magnitude: the sign is tested, but the number not negated.    *)
Magnitude_raw(num, type) == num

(* num is an int: -num wraps for the smallest one, and do_div (divl) takes *)
(* what comes out for an unsigned number.                                  *)
Negative(num, type)  == "SIGN" \in type /\ 2 * num >= WordMod
Magnitude(num, type) == IF Negative(num, type) THEN (WordMod - num) % WordMod ELSE num

number(num, base, size, precision, type) ==
  LET table  == IF "SMALL" \in type THEN Digits ELSE DIGITS
      left   == "LEFT" \in type
      zero   == "ZEROPAD" \in type /\ ~left
      sign   == IF Negative(num, type) THEN <<"-">>
                ELSE IF "PLUS" \in type THEN <<"+">>
                ELSE IF "SPACE" \in type THEN <<" ">> ELSE <<>>
      prefix == IF "SPECIAL" \notin type THEN <<>>
                ELSE IF base = 16 THEN <<"0", IF "SMALL" \in type THEN "x" ELSE "X">>
                ELSE IF base = 8 THEN <<"0">> ELSE <<>>
      tmp    == Divide(Magnitude(num, type), base)
      digits == Larger(Len(tmp), precision)
      pad    == size - Len(sign) - Len(prefix) - digits
  IN Fill(" ", IF zero \/ left THEN 0 ELSE pad) \o sign \o prefix
     \o Fill("0", IF zero THEN pad ELSE 0) \o Fill("0", digits - Len(tmp))
     \o Reverse([j \in DOMAIN tmp |-> table[tmp[j] + 1]])
     \o Fill(" ", IF left THEN pad ELSE 0)

(* %c and %s: blanks on one side.                                          *)
Justify(s, width, left) ==
  LET pad == Fill(" ", width - Len(s)) IN IF left THEN s \o pad ELSE pad \o s

Base == [o |-> 8, p |-> 16, x |-> 16, X |-> 16, d |-> 10, i |-> 10, u |-> 10, b |-> 2]

Convert(d) ==
  LET left == "LEFT" \in d.flags IN
  CASE d.conv = "literal" -> <<d.arg>>
    [] d.conv = "c" -> Justify(<<d.arg>>, d.width, left)
    [] d.conv = "s" -> Justify(IF d.prec >= 0 /\ d.prec < Len(d.arg)
                               THEN SubSeq(d.arg, 1, d.prec) ELSE d.arg, d.width, left)
    [] d.conv \in DOMAIN Base ->
         LET whole == d.conv = "p" /\ d.width = -1     \* all digits of an address
         IN number(d.arg, Base[d.conv], IF whole THEN 8 ELSE d.width, d.prec,
                   d.flags \cup (IF whole THEN {"ZEROPAD"} ELSE {})
                           \cup (IF d.conv \in {"d", "i"} THEN {"SIGN"} ELSE {})
                           \cup (IF d.conv = "x" THEN {"SMALL"} ELSE {}))
    [] d.conv = "n" -> <<>>                \* stores the length so far
    [] d.conv = "default" -> IF d.arg = "%" THEN <<"%">> ELSE <<"%", d.arg>>

vsprintf(format) == FlattenSeq([j \in DOMAIN format |-> Convert(format[j])])
-----------------------------------------------------------------------------
(***************************************************************************)
(* The reference: reading the text back.                                   *)
(***************************************************************************)
ValueOf(ch) == CHOOSE v \in 0 .. 15 : ch \in {DIGITS[v + 1], Digits[v + 1]}

IsDigit(ch, base) == \E v \in 0 .. base - 1 : ch \in {DIGITS[v + 1], Digits[v + 1]}

Value(s, base) ==
  FoldLeft(LAMBDA v, ch : IF IsDigit(ch, base) THEN v * base + ValueOf(ch) ELSE v, 0, s)

Signed(num) == IF 2 * num >= WordMod THEN num - WordMod ELSE num

(* The text of number is a number: it has the value of the argument,       *)
(* signed or not, at least `precision' digits and at least `size'          *)
(* characters, and begins with a blank of the padding only if these fill   *)
(* it up on the left.                                                      *)
ReadsBack(num, base, size, precision, type) ==
  LET s  == number(num, base, size, precision, type)
      v  == Value(s, base)
      ds == {j \in DOMAIN s : IsDigit(s[j], base)}
  IN /\ (IF \E j \in DOMAIN s : s[j] = "-" THEN -v ELSE v)
           = IF "SIGN" \in type THEN Signed(num) ELSE num
     /\ Cardinality(ds) >= precision /\ Len(s) >= size
     /\ Len(s) > size /\ Len(s) > 0 => s[1] # " " \/ "SPACE" \in type
     /\ "LEFT" \in type => s[1] # " " \/ "SPACE" \in type
=============================================================================
