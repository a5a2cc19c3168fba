------------------------------- MODULE Console -------------------------------
(***************************************************************************)
(* Line input: the buffer of buffer.c, which the keyboard interrupt fills, *)
(* and scanf of scanf.c, which polls it for a newline and has _doscan read *)
(* the line, in place, with "%d" or "%s" as the tests ask for.             *)
(*                                                                         *)
(* temp holds, for each character, its number in `typed', and 0 for '\0',  *)
(* which ends the line and which the user can type, too: ctrl, shift and 2 *)
(* give "NUL" (keyboard.c:207-220).                                        *)
(* Readers are the tests (F1, F2) that call scanf; several can be running, *)
(* on top of each other or on the stacks of different threads, and they    *)
(* share temp and the static inp_buf of _doscan.c.                         *)
(***************************************************************************)
EXTENDS Scan, FiniteSets

CONSTANTS
  Readers,     \* tests that may be inside scanf at the same time
  Chars,       \* characters on the keys
  MAX_LENGTH,  \* size of temp
  MaxTyped,    \* bound: characters typed
  Texts        \* bound: inputs over which ScanRight is evaluated

ASSUME ConsoleAssumption ==
  /\ MAX_LENGTH \in Nat \ {0} /\ MaxTyped \in Nat /\ MAX_LENGTH <= NUMLEN
  /\ EOF \notin Chars /\ Texts \subseteq Seq(STRING \ {EOF})

Index == 0 .. MAX_LENGTH - 1

VARIABLES
  temp, p,              \* the buffer and its length
  wild,                 \* a write has missed the buffer
  typed, reset,         \* history: characters typed, how many of them when p was reset
  inp,                  \* inp_buf, and the base that goes with it
  pc, count, val,       \* each reader: stream._count, and what was stored
  crossed               \* history: two calls of scanf have overlapped

buffer == <<temp, p, wild>>
reader == <<count, val>>
vars   == <<buffer, typed, reset, inp, pc, reader, crossed>>

Init ==
  /\ temp = [i \in Index |-> 0] /\ p = 0 /\ wild = FALSE
  /\ typed = <<>> /\ reset = 0 /\ inp = [text |-> <<>>, base |-> 10]
  /\ pc = [r \in Readers |-> "idle"] /\ count = [r \in Readers |-> 0]
  /\ val = [r \in Readers |-> <<>>] /\ crossed = FALSE

(* A store to temp[i], which is not checked against MAX_LENGTH.            *)
Store(t, i, c) == IF i \in Index THEN [t EXCEPT ![i] = c] ELSE t

(* Mutant of Advance: p stays put at a newline.                            *)
Advance_stuck(c) == IF c = "NL" THEN p ELSE p + 1

Advance(c) == p + 1

Misses == p + 1 \notin Index

(* What temp holds for character c, the n-th typed.                        *)
Byte(c, n) == IF c = "NUL" THEN 0 ELSE n

(* IRQ1: do_self puts a character in the buffer, whether or not anybody is *)
(* reading.  The handler runs with interrupts off.                         *)
put_buffer(c) ==
  /\ ~wild /\ Len(typed) < MaxTyped
  /\ typed' = Append(typed, c)
  /\ temp' = Store(Store(temp, p, Byte(c, Len(typed'))), p + 1, 0)
  /\ p' = Advance(c)
  /\ wild' = Misses
  /\ UNCHANGED <<reset, inp, pc, reader, crossed>>

-----------------------------------------------------------------------------
At(r, l)   == ~wild /\ pc[r] = l
Goto(r, l) == pc' = [pc EXCEPT ![r] = l]

(* scanf begins with init_buffer: temp[p] = '\0' ...                       *)
scanf(r) ==
  /\ At(r, "idle")
  /\ temp' = Store(temp, p, 0)
  /\ Goto(r, "init")
  /\ crossed' = (crossed \/ \E s \in Readers \ {r} : pc[s] # "idle")
  /\ UNCHANGED <<p, wild, typed, reset, inp, reader>>

(* Mutant of Empty: p is not reset.                                        *)
Empty_keep == p

Empty == 0

(* ... and p = 0.                                                          *)
init_buffer(r) ==
  /\ At(r, "init")
  /\ p' = Empty
  /\ reset' = Len(typed)
  /\ Goto(r, "poll")
  /\ UNCHANGED <<temp, wild, typed, inp, reader, crossed>>

(* getLast: p is tested and then read again for the index.  With an empty  *)
(* buffer it returns the low byte of an address, which is not '\n'.        *)
getLast(r) ==
  /\ At(r, "poll") /\ p # 0
  /\ Goto(r, "last")
  /\ UNCHANGED <<buffer, typed, reset, inp, reader, crossed>>

(* Mutant of EndsLine: any character ends the line.                        *)
EndsLine_any(i) == TRUE

EndsLine(i) == i # 0 /\ typed[i] = "NL"

(* temp[p - 1]; if another reader has reset p in between, the byte before  *)
(* the buffer, which may be anything.                                      *)
compare(r) ==
  /\ At(r, "last")
  /\ \E l \in {"poll", "getline"} :
       /\ p # 0 => (l = "getline") = EndsLine(temp[p - 1])
       /\ Goto(r, l)
  /\ UNCHANGED <<buffer, typed, reset, inp, reader, crossed>>

(* getline and strlen: the characters before the first '\0' go to _doscan, *)
(* after the line has been printed.                                        *)
Length == CHOOSE n \in 0 .. MAX_LENGTH :
            /\ \A i \in 0 .. n - 1 : temp[i] # 0
            /\ n \in Index => temp[n] = 0

getline(r) ==
  /\ At(r, "getline")
  /\ count' = [count EXCEPT ![r] = Length]
  /\ Goto(r, "scan")
  /\ UNCHANGED <<buffer, typed, reset, inp, val, crossed>>

-----------------------------------------------------------------------------
(* _doscan reads the line where it is, in temp.  A '\0' in it (a second    *)
(* scanf has emptied the buffer) is a character like any other.            *)
Read(r) == [i \in 1 .. count[r] |-> IF temp[i - 1] = 0 THEN "NUL" ELSE typed[temp[i - 1]]]

Scanning(conv) == [conv |-> conv, noassign |-> FALSE, width |-> -1, size |-> "", arg |-> {}]

(* "%s": the word is copied to the caller's array.                         *)
scan_word(r) ==
  /\ At(r, "scan")
  /\ val' = [val EXCEPT ![r] = _doscan(Read(r), <<Scanning("s")>>).out]
  /\ Goto(r, "word")
  /\ UNCHANGED <<buffer, typed, reset, inp, count, crossed>>

(* Mutant of Collected: the field begins with the line, blank or not.      *)
Collected_raw(in) == o_collect(in, 0, "d", NUMLEN)

(* "%d": the field is first collected in inp_buf; a line without a number  *)
(* leaves the caller's variable as it was ...                              *)
Collected(in) == o_collect(in, Field(in, 0, "d"), "d", NUMLEN)

scan_number(r) ==
  LET in   == Read(r)
      i    == Field(in, 0, "d")
      c    == Collected(in)
      text == SubSeq(in, i + 1, i + c.len)
  IN /\ At(r, "scan")
     /\ inp' = IF CharAt(in, i) = EOF THEN inp ELSE [text |-> text, base |-> c.base]
     /\ Goto(r, IF CharAt(in, i) # EOF /\ IsNumber(text) THEN "strtol" ELSE "number")
     /\ UNCHANGED <<buffer, typed, reset, reader, crossed>>

(* ... and read again from there by strtol.                                *)
strtol(r) ==
  /\ At(r, "strtol")
  /\ val' = [val EXCEPT ![r] = <<Stored(inp.text, inp.base, Scanning("d"))>>]
  /\ Goto(r, "number")
  /\ UNCHANGED <<buffer, typed, reset, inp, count, crossed>>

return(r) ==
  /\ At(r, "word") \/ At(r, "number")
  /\ Goto(r, "idle")
  /\ count' = [count EXCEPT ![r] = 0] /\ val' = [val EXCEPT ![r] = <<>>]
  /\ UNCHANGED <<buffer, typed, reset, inp, crossed>>

Poll(r) == init_buffer(r) \/ getLast(r) \/ compare(r) \/ getline(r)
Reading(r) == scan_word(r) \/ scan_number(r) \/ strtol(r) \/ return(r)

Next == \/ \E c \in Chars : put_buffer(c)
        \/ \E r \in Readers : scanf(r) \/ Poll(r) \/ Reading(r)

Spec == Init /\ [][Next]_vars

(* The CPU keeps executing; the user need not type.                        *)
FairSpec == Spec /\ \A r \in Readers : WF_vars(Poll(r))
-----------------------------------------------------------------------------
(***************************************************************************)
(* Properties.                                                             *)
(***************************************************************************)
Polling  == {"poll", "last", "getline"}
Scanned  == {"word", "number"}
Scans(r) == pc[r] \in {"scan", "strtol"} \cup Scanned

TypeOK ==
  /\ temp \in [Index -> 0 .. MaxTyped] /\ p \in 0 .. MAX_LENGTH
  /\ wild \in BOOLEAN /\ typed \in Seq(Chars) /\ reset \in 0 .. Len(typed)
  /\ inp.text \in Seq(Chars \cup {"NUL"}) /\ Len(inp.text) <= MAX_LENGTH
  /\ pc \in [Readers -> {"idle", "init", "scan", "strtol"} \cup Polling \cup Scanned]
  /\ count \in [Readers -> 0 .. MAX_LENGTH - 1] /\ DOMAIN val = Readers
  /\ crossed \in BOOLEAN

(* Unless two calls of scanf overlap, each is given what was typed since   *)
(* it reset the buffer (scanf.c:30-32): every character, in order, none    *)
(* that an earlier call was given, and a newline among them; or, where the *)
(* user has typed a '\0', what was typed before the first one, since       *)
(* strlen ends there (scanf.c:40).  The line stays as it is until it has   *)
(* been read, although _doscan reads it in place (scanf.c:38-40) and       *)
(* characters keep arriving.                                               *)
LineExact == \A r \in Readers : (~crossed /\ Scans(r)) =>
  /\ \A i \in 1 .. count[r] : temp[i - 1] = reset + i /\ typed[reset + i] # "NUL"
  /\ \/ \E i \in 1 .. count[r] : typed[reset + i] = "NL"
     \/ reset + count[r] < Len(typed) /\ typed[reset + count[r] + 1] = "NUL"

(* put_buffer tests nothing (buffer.c:12-15): a store misses temp only     *)
(* once MAX_LENGTH characters were typed after the last reset, so a line   *)
(* of MAX_LENGTH - 1 characters always fits.  And what o_collect writes to *)
(* inp_buf, with its '\0', fits that, although the width alone would allow *)
(* one byte more (_doscan.c:474, 287): a line is never longer than temp.   *)
LineFits ==
  /\ wild => Len(typed) >= reset + MAX_LENGTH
  /\ Len(inp.text) + 1 <= NUMLEN

(* Unless two calls overlap, scanf stores what the line says               *)
(* (_doscan.c:438-546): the first word of it, or the number that word      *)
(* begins with, as far as an int can hold it; and nothing if there is no   *)
(* such word or number, whatever an earlier call left in inp_buf.          *)
FirstWord(s) ==
  LET from == CHOOSE i \in 1 .. Len(s) + 1 :
                /\ \A j \in 1 .. i - 1 : s[j] \in White
                /\ i \in DOMAIN s => s[i] \notin White
      to   == CHOOSE i \in from - 1 .. Len(s) :
                /\ \A j \in from .. i : s[j] \notin White
                /\ i + 1 \in DOMAIN s => s[i + 1] \in White
  IN SubSeq(s, from, to)

FirstNumber(s) ==
  LET w  == FirstWord(s)
      ns == {n \in 1 .. Len(w) : Begins(SubSeq(w, 1, n), "d")}
      n  == SubSeq(w, 1, CHOOSE k \in ns : \A l \in ns : l <= k)
      v  == Value(n, 10)
  IN IF ns = {} \/ ~IsNumber(n) THEN <<>>
     ELSE <<Clamp(IF n[1] = "-" THEN -v ELSE v, -Half, Half - 1) % WordMod>>

ScanExact == \A r \in Readers : (~crossed /\ pc[r] \in Scanned) =>
  LET text == SubSeq(typed, reset + 1, reset + count[r])
  IN val[r] = IF pc[r] = "number" THEN FirstNumber(text)
              ELSE IF FirstWord(text) = <<>> THEN <<>>
              ELSE <<Append(FirstWord(text), "NUL")>>

(* The number conversions read the longest numeral and convert all of it,  *)
(* or go to the limit of the type (_doscan.c:128-289), whatever the width. *)
(* This does not depend on the state: it is evaluated before the first     *)
(* character is typed.                                                     *)
ScanRight == (typed = <<>> /\ \A r \in Readers : pc[r] = "idle") =>
  \A in \in Texts, type \in DOMAIN Base, w \in 1 .. 4 : ReadsNumber(in, type, w)

(* What printf writes scanf reads back (printf.c:60-140, _doscan.c): every *)
(* number of the word that fits inp_buf, in every base the two share, but  *)
(* for the digits 'a' .. 'f' of %x, which isxdigit does not know           *)
(* (_doscan.c:7), and for %i of a number filled up with zeros, which it    *)
(* reads as octal.                                                         *)
ScanBack == (typed = <<>> /\ \A r \in Readers : pc[r] = "idle") =>
  \A num \in 0 .. WordMod - 1, conv \in DOMAIN Base, width \in {-1, 4},
     flags \in SUBSET {"PLUS", "ZEROPAD", "LEFT"} :
    LET s == Convert([conv |-> conv, flags |-> flags, width |-> width, prec |-> -1, arg |-> num])
    IN \/ Len(FirstWord(s)) > NUMLEN
       \/ conv = "x" /\ \E j \in DOMAIN s : s[j] \in {"a", "b", "c", "d", "e", "f"}
       \/ conv = "i" /\ {"ZEROPAD", "LEFT"} \cap flags = {"ZEROPAD"}
       \/ _doscan(s, <<Scanning(conv)>>).out = <<num>>

Flags == {"ZEROPAD", "SIGN", "PLUS", "SPACE", "LEFT", "SPECIAL", "SMALL"}

(* number gives back what it was given (printf.c:60-140): every number of  *)
(* the word, also the smallest, in every base, with every flag.            *)
NumberRight == (typed = <<>> /\ \A r \in Readers : pc[r] = "idle") =>
  \A num \in 0 .. WordMod - 1, base \in {2, 8, 10, 16}, size \in {-1, 0, 1, 4, 6},
     precision \in {-1, 0, 3}, type \in SUBSET Flags :
       ReadsBack(num, base, size, precision, type)

(* scanf stops polling once the user has typed a newline and nothing after *)
(* it, unless another call resets the buffer.                              *)
NewlineEnds == \A r \in Readers :
  (~wild /\ Len(typed) = MaxTyped /\ typed[MaxTyped] = "NL" /\ MaxTyped > reset
    /\ pc[r] \in Polling) ~> (crossed \/ pc[r] \notin Polling)
=============================================================================
