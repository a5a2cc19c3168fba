------------------------------ MODULE MCConsole ------------------------------
(* Console for TLC: the keys, and the inputs given to the conversions.     *)
EXTENDS Console
MCChars == {"7", "-", "NL", "NUL"}
MCTexts == UNION {[1 .. n -> {"0", "1", "9", "F", "x", "-", "+"}] : n \in 0 .. 4}
=============================================================================
