--------------------------- MODULE ConsoleProofs ---------------------------
(***************************************************************************)
(* Proofs about Console, for any readers, characters and sizes of the two  *)
(* buffers, as long as a line that fits temp fits inp_buf; and about the   *)
(* conversions of Scan and Format, for every text and every number.        *)
(***************************************************************************)
EXTENDS Console, FiniteSetTheorems, WellFoundedInduction, TLAPS

(* Where the characters are: from the last reset on in temp, a '\0' behind *)
(* them once there are any, and one somewhere as long as none has missed.  *)
Filled ==
  /\ p = Len(typed) - reset /\ p \in 0 .. MAX_LENGTH /\ (wild <=> p = MAX_LENGTH)
  /\ \A i \in 0 .. p - 1 : temp[i] = Byte(typed[reset + i + 1], reset + i + 1)
  /\ p \in 1 .. MAX_LENGTH - 1 => temp[p] = 0
  /\ ~wild => \E i \in p .. MAX_LENGTH - 1 : temp[i] = 0

(* A newline is among the first n characters since the reset.              *)
Newline(n) == \E i \in 1 .. n : typed[reset + i] = "NL"

(* None of the first n is a '\0', but the one behind them is.              *)
Plain(n) == \A i \in 1 .. n : typed[reset + i] # "NUL"
Cut(n)   == n < p /\ typed[reset + n + 1] = "NUL"
Ended(n) == Plain(n) /\ (Newline(n) \/ Cut(n))

(* What a reader that is alone has found.                                  *)
Lined(r) ==
  /\ pc[r] \in {"last", "getline"} => p > 0
  /\ pc[r] = "getline" => Newline(p)
  /\ Scans(r) => count[r] <= p /\ Ended(count[r])

Alone == ~crossed =>
  /\ \A r, s \in Readers : pc[r] # "idle" /\ pc[s] # "idle" => r = s
  /\ \A r \in Readers : Lined(r)

(* What is read, and what was collected, is shorter than the buffer.       *)
Short == /\ \A r \in Readers : Scans(r) => count[r] <= MAX_LENGTH - 1
         /\ Len(inp.text) \in 0 .. MAX_LENGTH - 1

Typed ==
  /\ temp \in [Index -> Nat] /\ wild \in BOOLEAN /\ typed \in Seq(Chars) /\ reset \in Nat
  /\ pc \in [Readers -> {"idle", "init", "scan", "strtol"} \cup Polling \cup Scanned]
  /\ count \in [Readers -> Nat] /\ crossed \in BOOLEAN

IInv == Typed /\ Filled /\ Alone /\ Short

-----------------------------------------------------------------------------
(* A set of numbers has a smallest element.                                *)
LEMMA Smallest ==
  ASSUME NEW T, T \subseteq Nat, T # {}
  PROVE  \E x \in T : \A y \in T : x <= y
<1>1. IsWellFoundedOn(OpToRel(<, Nat), Nat)
  BY NatLessThanWellFounded
<1>2. PICK x \in T : \A y \in T : ~(<<y, x>> \in OpToRel(<, Nat))
  BY <1>1, WFMin
<1>3. \A y \in T : ~(y < x)
  BY <1>2 DEF OpToRel
<1> QED
  BY <1>3

(* The last place.                                                         *)
LEMMA MaxLast ==
  ASSUME NEW n \in Nat, NEW e, e \subseteq 1 .. n, n \in e
  PROVE  Max(e) = n
<1>1. \A y \in e : n >= y
  OBVIOUS
<1>2. PICK x : x = Max(e)
  OBVIOUS
<1>3. x \in e /\ \A y \in e : x >= y
  BY <1>1, <1>2 DEF Max
<1>4. x >= n /\ n >= x /\ x \in Nat
  BY <1>1, <1>3
<1> QED
  BY <1>2, <1>4

(* There is one in every set of places.                                    *)
LEMMA MaxIn ==
  ASSUME NEW n \in Nat, NEW e, e \subseteq 1 .. n, e # {}
  PROVE  Max(e) \in e
<1>1. PICK T : T = {i \in 0 .. n : n - i \in e}
  OBVIOUS
<1>2. T \subseteq Nat /\ T # {}
  <2>1. PICK y \in e : TRUE
    OBVIOUS
  <2>2. PICK z \in 0 .. n : n - z = y
    <3>1. n - y \in 0 .. n /\ n - (n - y) = y
      BY <2>1
    <3> QED
      BY <3>1
  <2>3. z \in T
    BY <1>1, <2>1, <2>2
  <2>4. T \subseteq Nat
    BY <1>1
  <2> QED
    BY <2>3, <2>4
<1>3. PICK i \in T : \A j \in T : i <= j
  BY <1>2, Smallest
<1>4. n - i \in e /\ i \in 0 .. n
  BY <1>1, <1>3
<1>5. ASSUME NEW y \in e PROVE n - i >= y
  <2>1. n - y \in 0 .. n /\ n - (n - y) = y
    OBVIOUS
  <2>2. n - y \in T
    BY <1>1, <2>1
  <2> QED
    BY <1>3, <1>4, <2>2
<1> QED
  BY <1>4, <1>5 DEF Max

-----------------------------------------------------------------------------
(* g folds the first n characters of t with F from b on, in the form that  *)
(* MapThenFoldSet has.                                                     *)
Folds(g, F, b, t, n) ==
  g = [e \in SUBSET (1 .. n) |-> IF e = {} THEN b ELSE F[g[e \ {Max(e)}]][t[Max(e)]]]

Over(t, n, B) == \A i \in 1 .. n : t[i] \in B

(* There is such a function, and its values are those of F.                *)
LEMMA FoldsExists ==
  ASSUME NEW A, NEW B, NEW F \in [A -> [B -> A]], NEW b \in A, NEW t, NEW N \in Nat,
         Over(t, N, B)
  PROVE  \E g \in [SUBSET (1 .. N) -> A] : Folds(g, F, b, t, N)
<1> DEFINE Good(n) == \E g \in [SUBSET (1 .. n) -> A] : Folds(g, F, b, t, n)
<1>0. Good(0)
  <2>1. PICK g : g = [e \in SUBSET (1 .. 0) |-> b]
    OBVIOUS
  <2>2. \A e \in SUBSET (1 .. 0) : e = {}
    OBVIOUS
  <2>3. Folds(g, F, b, t, 0)
    BY <2>1, <2>2 DEF Folds
  <2> QED
    BY <2>1, <2>3
<1>1. ASSUME NEW m \in Nat, NEW n \in 1 .. N, n = m + 1, Good(m) PROVE Good(n)
  <2>1. \A x \in 1 .. n : x # n => x \in 1 .. m
    BY <1>1
  <2>2. PICK g \in [SUBSET (1 .. m) -> A] : Folds(g, F, b, t, m)
    BY <1>1
  <2>3. PICK f : f = [e \in SUBSET (1 .. n) |-> IF n \in e THEN F[g[e \ {n}]][t[n]] ELSE g[e]]
    OBVIOUS
  <2>4. ASSUME NEW e \in SUBSET (1 .. n)
        PROVE  f[e] \in A /\ f[e] = IF e = {} THEN b ELSE F[f[e \ {Max(e)}]][t[Max(e)]]
    <3>1. CASE n \in e
      <4>1. Max(e) = n
        <5>1. n \in Nat
          OBVIOUS
        <5> QED
          BY <3>1, <5>1, MaxLast
      <4>2. e \ {n} \in SUBSET (1 .. n) /\ n \notin e \ {n} /\ e \ {n} \in SUBSET (1 .. m)
        BY <1>1
      <4>3. f[e \ {n}] = g[e \ {n}] /\ f[e] = F[g[e \ {n}]][t[n]] /\ e # {}
        BY <2>3, <3>1, <4>2
      <4>4. g[e \ {n}] \in A /\ t[n] \in B
        BY <2>2, <4>2 DEF Over
      <4> QED
        BY <4>1, <4>3, <4>4
    <3>2. CASE n \notin e
      <4>1. \A x \in e : x \in 1 .. m
        BY <2>1, <3>2
      <4>2. g[e] = (IF e = {} THEN b ELSE F[g[e \ {Max(e)}]][t[Max(e)]]) /\ g[e] \in A
        <5>1. e \in SUBSET (1 .. m)
          BY <4>1
        <5> QED
          BY <2>2, <5>1 DEF Folds
      <4>3. e \ {Max(e)} \in SUBSET (1 .. n) /\ n \notin e \ {Max(e)}
        BY <3>2
      <4>4. f[e] = g[e] /\ f[e \ {Max(e)}] = g[e \ {Max(e)}]
        BY <2>3, <3>2, <4>3
      <4> QED
        BY <4>2, <4>4
    <3> QED
      BY <3>1, <3>2
  <2>5. f = [e \in SUBSET (1 .. n) |-> f[e]]
    BY <2>3
  <2>6. f \in [SUBSET (1 .. n) -> A]
    BY <2>4, <2>5
  <2>7. Folds(f, F, b, t, n)
    BY <2>4, <2>5 DEF Folds
  <2> QED
    BY <2>6, <2>7
<1> DEFINE Bad == {n \in 0 .. N : ~Good(n)}
<1> HIDE DEF Good
<1>2. ASSUME Bad # {} PROVE FALSE
  <2>1. PICK n \in Bad : \A m \in Bad : n <= m
    <3>1. Bad \subseteq Nat
      OBVIOUS
    <3> QED
      BY <1>2, <3>1, Smallest
  <2>2. n # 0
    BY <1>0, <2>1
  <2>3. PICK m \in Nat : n = m + 1
    <3>1. n - 1 \in Nat /\ n = (n - 1) + 1
      BY <2>1, <2>2
    <3> QED
      BY <3>1
  <2>4. n \in 1 .. N /\ m \in 0 .. N /\ ~(n <= m)
    BY <2>1, <2>3
  <2>5. Good(m)
    BY <2>1, <2>4
  <2>6. Good(n)
    BY <1>1, <2>3, <2>4, <2>5
  <2> QED
    BY <2>1, <2>6
<1>3. Good(N)
  BY <1>2
<1> QED
  BY <1>3 DEF Good

(* The first m places: the last of them, and the ones before it.           *)
LEMMA FirstPlaces ==
  ASSUME NEW n \in Nat, NEW m \in 1 .. n
  PROVE  /\ 1 .. m \in SUBSET (1 .. n) /\ 1 .. m # {} /\ Max(1 .. m) = m
         /\ (1 .. m) \ {Max(1 .. m)} = 1 .. m - 1
<1>1. m \in Nat /\ 1 .. m \in SUBSET (1 .. n) /\ m \in 1 .. m
  OBVIOUS
<1>2. Max(1 .. m) = m
  BY <1>1, MaxLast
<1> QED
  BY <1>1, <1>2

-----------------------------------------------------------------------------
(* The value so far, with a further character.                             *)
Worth(v, ch, base) == IF IsDigit(ch, base) THEN v * base + ValueOf(ch) ELSE v

(* f[n] is the value of the first n characters.                            *)
Worths(f, t, base) ==
  /\ f \in [0 .. Len(t) -> Nat] /\ f[0] = 0
  /\ \A n \in 1 .. Len(t) : f[n] = Worth(f[n - 1], t[n], base)

(* A digit has a value.                                                    *)
LEMMA ValueOfType ==
  ASSUME NEW ch, NEW base \in 1 .. 16, IsDigit(ch, base)
  PROVE  ValueOf(ch) \in 0 .. 15
BY DEF ValueOf, IsDigit

(* Value, character by character.                                          *)
LEMMA ValueFold ==
  ASSUME NEW S, NEW t \in Seq(S), NEW base \in 1 .. 16
  PROVE  \E f : Worths(f, t, base) /\ Value(t, base) = f[Len(t)]
<1>1. PICK n \in Nat : n = Len(t) /\ DOMAIN t = 1 .. n /\ Over(t, n, S)
  BY DEF Over
<1>2. PICK F : F = [v \in Nat |-> [ch \in S |-> Worth(v, ch, base)]]
  OBVIOUS
<1>3. ASSUME NEW v \in Nat, NEW ch \in S PROVE Worth(v, ch, base) \in Nat
  <2>1. v * base \in Nat
    OBVIOUS
  <2>2. IsDigit(ch, base) => ValueOf(ch) \in 0 .. 15
    BY ValueOfType
  <2> QED
    BY <2>1, <2>2 DEF Worth
<1>4. F \in [Nat -> [S -> Nat]] /\ \A v \in Nat, ch \in S : F[v][ch] = Worth(v, ch, base)
  BY <1>2, <1>3
<1>5. PICK g \in [SUBSET (1 .. n) -> Nat] : Folds(g, F, 0, t, n)
  BY <1>1, <1>4, FoldsExists
<1>6. ASSUME NEW e \in SUBSET (1 .. n)
      PROVE  g[e] = IF e = {} THEN 0 ELSE Worth(g[e \ {Max(e)}], t[Max(e)], base)
  <2>1. CASE e = {}
    BY <1>5, <2>1 DEF Folds
  <2>2. CASE e # {}
    <3>1. g[e] = F[g[e \ {Max(e)}]][t[Max(e)]] /\ g[e \ {Max(e)}] \in Nat
      BY <1>5, <2>2 DEF Folds
    <3>2. Max(e) \in e
      BY <2>2, MaxIn
    <3>3. t[Max(e)] \in S
      BY <1>1, <3>2 DEF Over
    <3> QED
      BY <1>4, <2>2, <3>1, <3>3
  <2> QED
    BY <2>1, <2>2
<1>7. PICK h : h = CHOOSE k : k = [e \in SUBSET (DOMAIN t) |->
                       IF e = {} THEN 0 ELSE Worth(k[e \ {Max(e)}], t[Max(e)], base)]
  OBVIOUS
<1>8. h = [e \in SUBSET (DOMAIN t) |-> IF e = {} THEN 0 ELSE Worth(h[e \ {Max(e)}], t[Max(e)], base)]
  <2>1. g = [e \in SUBSET (DOMAIN t) |-> g[e]]
    BY <1>1, <1>5
  <2>2. g = [e \in SUBSET (DOMAIN t) |->
               IF e = {} THEN 0 ELSE Worth(g[e \ {Max(e)}], t[Max(e)], base)]
    BY <1>1, <1>6, <2>1
  <2> QED
    BY <1>7, <2>2
<1>9. Value(t, base) = h[1 .. n]
  BY <1>1, <1>7 DEF Value, FoldLeft, MapThenFoldSet, Worth
<1>10. PICK f : f = [m \in 0 .. n |-> h[1 .. m]]
  OBVIOUS
<1>11. f[0] = 0
  <2>1. 1 .. 0 = {} /\ {} \in SUBSET (DOMAIN t) /\ 0 \in 0 .. n
    OBVIOUS
  <2> QED
    BY <1>8, <1>10, <2>1
<1>12. ASSUME NEW m \in 1 .. n PROVE f[m] = Worth(f[m - 1], t[m], base)
  <2>1. m \in 0 .. n /\ m - 1 \in 0 .. n
    OBVIOUS
  <2>2. h[1 .. m] = Worth(h[(1 .. m) \ {Max(1 .. m)}], t[Max(1 .. m)], base)
    BY <1>1, <1>8, FirstPlaces
  <2> QED
    BY <1>10, <2>1, <2>2, FirstPlaces
<1>13. \A m \in 0 .. n : f[m] \in Nat
  <2> DEFINE Bad == {m \in 0 .. n : f[m] \notin Nat}
  <2>1. ASSUME NEW m \in Bad, \A j \in Bad : m <= j PROVE FALSE
    <3>1. m \in 1 .. n /\ m - 1 \in 0 .. n /\ ~(m <= m - 1)
      BY <1>11, <2>1
    <3>2. f[m - 1] \in Nat
      BY <2>1, <3>1
    <3> QED
      BY <1>1, <1>3, <1>12, <3>1, <3>2 DEF Over
  <2>2. Bad \subseteq Nat
    OBVIOUS
  <2> QED
    BY <2>1, <2>2, Smallest
<1>14. Worths(f, t, base)
  BY <1>1, <1>10, <1>11, <1>12, <1>13 DEF Worths
<1>15. Value(t, base) = f[Len(t)]
  BY <1>1, <1>9, <1>10
<1> QED
  BY <1>14, <1>15

-----------------------------------------------------------------------------
(* Characters.                                                             *)
Figures == {"0", "1", "2", "3", "4", "5", "6", "7", "8", "9",
            "A", "B", "C", "D", "E", "F", "a", "b", "c", "d", "e", "f"}

(* The tables hold nothing else.                                           *)
LEMMA TableFacts ==
  ASSUME NEW v \in 0 .. 15
  PROVE  DIGITS[v + 1] \in Figures /\ Digits[v + 1] \in Figures
<1>1. v \in {0, 1, 2, 3, 4, 5, 6, 7, 8, 9, 10, 11, 12, 13, 14, 15}
  OBVIOUS
<1> QED
  BY <1>1 DEF DIGITS, Digits, Figures

(* So a digit is one of them, and no blank, sign or prefix is.             *)
LEMMA DigitFacts ==
  ASSUME NEW ch, NEW base \in 1 .. 16, Collects(ch, base) \/ IsDigit(ch, base)
  PROVE  /\ ch \in Figures /\ IsDigit(ch, base)
         /\ ch \notin White /\ ch \notin Signs /\ ch \notin {"x", "X", EOF, "NUL"}
<1>1. IsDigit(ch, base)
  BY DEF Collects, IsDigit
<1>2. ch \in Figures
  <2>1. PICK v \in 0 .. base - 1 : ch \in {DIGITS[v + 1], Digits[v + 1]}
    BY <1>1 DEF IsDigit
  <2>2. v \in 0 .. 15
    BY <2>1
  <2> QED
    BY <2>1, <2>2, TableFacts
<1> QED
  BY <1>1, <1>2 DEF Figures, White, Signs, EOF

(* The value of zero.                                                      *)
LEMMA ZeroFacts ==
  /\ ValueOf("0") = 0
  /\ \A base \in 1 .. 16 : Collects("0", base) /\ IsDigit("0", base)
<1>1. \A v \in 0 .. 15 : "0" \in {DIGITS[v + 1], Digits[v + 1]} <=> v = 0
  <2>1. \A v \in 0 .. 15 : v \in {0, 1, 2, 3, 4, 5, 6, 7, 8, 9, 10, 11, 12, 13, 14, 15}
    OBVIOUS
  <2> QED
    BY <2>1 DEF DIGITS, Digits
<1>2. DIGITS[0 + 1] = "0"
  BY DEF DIGITS
<1>3. ValueOf("0") = 0
  BY <1>1 DEF ValueOf
<1>4. \A base \in 1 .. 16 : 0 \in 0 .. base - 1
  OBVIOUS
<1> QED
  BY <1>2, <1>3, <1>4 DEF Collects, IsDigit

(* The character at a place.                                               *)
LEMMA CharFacts ==
  ASSUME NEW S, EOF \notin S, NEW t \in Seq(S), NEW i \in Nat
  PROVE  /\ CharAt(t, i) = EOF <=> i >= Len(t)
         /\ i < Len(t) => CharAt(t, i) = t[i + 1] /\ t[i + 1] \in S
BY DEF CharAt

(* The longest run of places.                                              *)
LEMMA SpanFacts ==
  ASSUME NEW ok, NEW i \in Nat, NEW width \in Nat
  PROVE  /\ Span(ok, i, width) \in 0 .. width
         /\ i .. i + Span(ok, i, width) - 1 \subseteq ok
         /\ Span(ok, i, width) < width => i + Span(ok, i, width) \notin ok
<1> DEFINE Ends(n) == i .. i + n - 1 \subseteq ok /\ (n < width => i + n \notin ok)
<1>1. \E n \in 0 .. width : Ends(n)
  <2>1. PICK T : T = {n \in 0 .. width : n = width \/ i + n \notin ok}
    OBVIOUS
  <2>2. T \subseteq Nat /\ width \in T
    BY <2>1
  <2>3. PICK n \in T : \A m \in T : n <= m
    BY <2>2, Smallest
  <2>4. n \in 0 .. width /\ (n < width => i + n \notin ok)
    BY <2>1, <2>3
  <2>5. ASSUME NEW x \in i .. i + n - 1 PROVE x \in ok
    <3>1. x - i \in 0 .. width /\ x - i < n /\ i + (x - i) = x
      BY <2>4
    <3>2. x - i \notin T
      BY <2>3, <2>4, <3>1
    <3> QED
      BY <2>1, <2>4, <3>1, <3>2
  <2> QED
    BY <2>4, <2>5
<1>2. PICK n : n = CHOOSE m \in 0 .. width : Ends(m)
  OBVIOUS
<1>3. n \in 0 .. width /\ Ends(n)
  BY <1>1, <1>2
<1>4. n = Span(ok, i, width)
  BY <1>2 DEF Span
<1> QED
  BY <1>3, <1>4

(* There is only one such number.                                          *)
LEMMA SpanIs ==
  ASSUME NEW ok, NEW i \in Nat, NEW width \in Nat, NEW n \in 0 .. width,
         i .. i + n - 1 \subseteq ok, n < width => i + n \notin ok
  PROVE  Span(ok, i, width) = n
<1>1. PICK m \in 0 .. width : /\ m = Span(ok, i, width) /\ i .. i + m - 1 \subseteq ok
                              /\ m < width => i + m \notin ok
  BY SpanFacts
<1>2. ~(m < n)
  BY <1>1
<1>3. ~(n < m)
  BY <1>1
<1> QED
  BY <1>1, <1>2, <1>3

-----------------------------------------------------------------------------
(* f[n] is what string2long has after n digits.                            *)
Zero == [val |-> 0, ovfl |-> FALSE]
Sums(f, t, radix) ==
  /\ f[0] = Zero
  /\ \A n \in 1 .. Len(t) : f[n] = AddDigit(f[n - 1], t[n], radix)

(* SumDigits, digit by digit.                                              *)
LEMMA SumFold ==
  ASSUME NEW S, NEW t \in Seq(S), NEW radix \in 1 .. 16, \A ch \in S : IsDigit(ch, radix)
  PROVE  \E f : Sums(f, t, radix) /\ SumDigits(t, radix) = f[Len(t)]
<1>1. PICK n \in Nat : n = Len(t) /\ DOMAIN t = 1 .. n /\ Over(t, n, S)
  BY DEF Over
<1>2. PICK A : A = [val : Nat, ovfl : BOOLEAN]
  OBVIOUS
<1>3. Zero \in A
  BY <1>2 DEF Zero
<1>4. ASSUME NEW a \in A, NEW ch \in S PROVE AddDigit(a, ch, radix) \in A
  <2>1. ValueOf(ch) \in 0 .. 15
    BY ValueOfType
  <2>2. PICK v \in Nat : v = a.val * radix + ValueOf(ch)
    <3>1. a.val * radix \in Nat
      BY <1>2
    <3> QED
      BY <2>1, <3>1
  <2>3. v % WordMod \in Nat
    BY FormatAssumption
  <2>4. (a.ovfl \/ Overflows(a.val, ValueOf(ch), radix)) \in BOOLEAN
    OBVIOUS
  <2> QED
    BY <1>2, <2>2, <2>3, <2>4 DEF AddDigit
<1>5. PICK F : F = [a \in A |-> [ch \in S |-> AddDigit(a, ch, radix)]]
  OBVIOUS
<1>6. F \in [A -> [S -> A]] /\ \A a \in A, ch \in S : F[a][ch] = AddDigit(a, ch, radix)
  BY <1>4, <1>5
<1>7. PICK g \in [SUBSET (1 .. n) -> A] : Folds(g, F, Zero, t, n)
  BY <1>1, <1>3, <1>6, FoldsExists
<1>8. ASSUME NEW e \in SUBSET (1 .. n)
      PROVE  g[e] = IF e = {} THEN Zero ELSE AddDigit(g[e \ {Max(e)}], t[Max(e)], radix)
  <2>1. CASE e = {}
    BY <1>7, <2>1 DEF Folds
  <2>2. CASE e # {}
    <3>1. g[e] = F[g[e \ {Max(e)}]][t[Max(e)]] /\ g[e \ {Max(e)}] \in A
      BY <1>7, <2>2 DEF Folds
    <3>2. Max(e) \in e
      BY <2>2, MaxIn
    <3>3. t[Max(e)] \in S
      BY <1>1, <3>2 DEF Over
    <3> QED
      BY <1>6, <2>2, <3>1, <3>3
  <2> QED
    BY <2>1, <2>2
<1>9. PICK h : h = CHOOSE k : k = [e \in SUBSET (DOMAIN t) |->
                       IF e = {} THEN Zero ELSE AddDigit(k[e \ {Max(e)}], t[Max(e)], radix)]
  OBVIOUS
<1>10. h = [e \in SUBSET (DOMAIN t) |->
              IF e = {} THEN Zero ELSE AddDigit(h[e \ {Max(e)}], t[Max(e)], radix)]
  <2>1. g = [e \in SUBSET (DOMAIN t) |-> g[e]]
    BY <1>1, <1>7
  <2>2. g = [e \in SUBSET (DOMAIN t) |->
               IF e = {} THEN Zero ELSE AddDigit(g[e \ {Max(e)}], t[Max(e)], radix)]
    BY <1>1, <1>8, <2>1
  <2> QED
    BY <1>9, <2>2
<1>11. SumDigits(t, radix) = h[1 .. n]
  BY <1>1, <1>9 DEF SumDigits, FoldLeft, MapThenFoldSet, Zero
<1>12. PICK f : f = [m \in 0 .. n |-> h[1 .. m]]
  OBVIOUS
<1>13. f[0] = Zero
  <2>1. 1 .. 0 = {} /\ {} \in SUBSET (DOMAIN t) /\ 0 \in 0 .. n
    OBVIOUS
  <2> QED
    BY <1>10, <1>12, <2>1
<1>14. ASSUME NEW m \in 1 .. n PROVE f[m] = AddDigit(f[m - 1], t[m], radix)
  <2>1. m \in 0 .. n /\ m - 1 \in 0 .. n
    OBVIOUS
  <2>2. h[1 .. m] = AddDigit(h[(1 .. m) \ {Max(1 .. m)}], t[Max(1 .. m)], radix)
    BY <1>1, <1>10, FirstPlaces
  <2> QED
    BY <1>12, <2>1, <2>2, FirstPlaces
<1>15. Sums(f, t, radix)
  BY <1>1, <1>13, <1>14 DEF Sums
<1>16. SumDigits(t, radix) = f[Len(t)]
  BY <1>1, <1>11, <1>12
<1> QED
  BY <1>15, <1>16

(* The bases.                                                              *)
Bases == {2, 8, 10, 16}

(* The overflow test of string2long: a * base + v is not a word.           *)
LEMMA OverflowsIs ==
  ASSUME NEW a \in Nat, NEW v \in Nat, NEW base \in Bases
  PROVE  Overflows(a, v, base) <=> a * base + v >= WordMod
<1>1. WordMod \in Nat
  BY FormatAssumption
<1>2. PICK d \in Int : d = WordMod - 1 - v
  BY <1>1
<1>3. a > d \div base <=> a * base > d
  <2>1. CASE base = 2
    BY <2>1
  <2>2. CASE base = 8
    BY <2>2
  <2>3. CASE base = 10
    BY <2>3
  <2>4. CASE base = 16
    BY <2>4
  <2> QED
    BY <2>1, <2>2, <2>3, <2>4 DEF Bases
<1>4. PICK w \in Nat : w = a * base
  BY DEF Bases
<1> QED
  BY <1>1, <1>2, <1>3, <1>4 DEF Overflows

(* The word a says v: v itself, or that it is too large.                   *)
Says(a, v) == (a.ovfl <=> v >= WordMod) /\ (~a.ovfl => a.val = v) /\ a.val \in Nat

(* A further digit keeps this.                                             *)
LEMMA SaysNext ==
  ASSUME NEW a, NEW v \in Nat, NEW base \in Bases, NEW ch, IsDigit(ch, base), Says(a, v)
  PROVE  Says(AddDigit(a, ch, base), Worth(v, ch, base))
<1>1. WordMod \in Nat \ {0} /\ base \in 1 .. 16
  BY FormatAssumption DEF Bases
<1>2. PICK x \in 0 .. 15 : x = ValueOf(ch)
  BY <1>1, ValueOfType
<1>3. PICK b : b = AddDigit(a, ch, base)
  OBVIOUS
<1>4. /\ b.val = (a.val * base + x) % WordMod
      /\ b.ovfl <=> a.ovfl \/ Overflows(a.val, x, base)
  BY <1>2, <1>3 DEF AddDigit
<1>5. PICK w \in Nat : w = a.val * base + x
  <2>1. a.val * base \in Nat
    BY <1>1 DEF Says
  <2> QED
    BY <2>1
<1>6. b.val \in Nat
  BY <1>1, <1>4, <1>5
<1>7. Worth(v, ch, base) = v * base + x
  BY <1>2 DEF Worth
<1>8. v * base + x \in Nat /\ v * base + x >= v
  BY DEF Bases
<1>9. CASE a.ovfl
  BY <1>1, <1>3, <1>4, <1>6, <1>7, <1>8, <1>9 DEF Says
<1>10. CASE ~a.ovfl
  <2>1. a.val = v /\ w = v * base + x
    BY <1>5, <1>10 DEF Says
  <2>2. Overflows(a.val, x, base) <=> w >= WordMod
    BY <2>1, OverflowsIs
  <2>3. w < WordMod => w % WordMod = w
    BY <1>1, <1>5
  <2>4. b.ovfl <=> w >= WordMod
    BY <1>4, <1>10, <2>2
  <2>5. b.val = w % WordMod
    BY <1>4, <1>5
  <2>6. ~b.ovfl => b.val = w
    BY <1>1, <1>5, <2>3, <2>4, <2>5
  <2>7. Worth(v, ch, base) = w
    BY <1>7, <2>1
  <2> QED
    BY <1>3, <1>6, <2>4, <2>6, <2>7 DEF Says
<1> QED
  BY <1>3, <1>9, <1>10

(* SumDigits says what the digits are worth.                               *)
LEMMA SumRight ==
  ASSUME NEW S, NEW t \in Seq(S), NEW base \in Bases, \A ch \in S : IsDigit(ch, base)
  PROVE  Value(t, base) \in Nat /\ Says(SumDigits(t, base), Value(t, base))
<1>0. base \in 1 .. 16
  BY DEF Bases
<1>1. PICK f : Worths(f, t, base) /\ Value(t, base) = f[Len(t)]
  BY <1>0, ValueFold
<1>2. PICK g : Sums(g, t, base) /\ SumDigits(t, base) = g[Len(t)]
  BY <1>0, SumFold
<1>3. PICK N \in Nat : N = Len(t) /\ \A i \in 1 .. N : t[i] \in S
  OBVIOUS
<1>4. Says(g[0], f[0])
  BY <1>1, <1>2, FormatAssumption DEF Worths, Sums, Says, Zero
<1>5. ASSUME NEW n \in 1 .. N, Says(g[n - 1], f[n - 1]) PROVE Says(g[n], f[n])
  <2>1. f[n - 1] \in Nat /\ f[n] = Worth(f[n - 1], t[n], base)
    BY <1>1, <1>3 DEF Worths
  <2>2. g[n] = AddDigit(g[n - 1], t[n], base) /\ IsDigit(t[n], base)
    BY <1>2, <1>3 DEF Sums
  <2> QED
    BY <1>5, <2>1, <2>2, SaysNext
<1> DEFINE Bad == {n \in 0 .. N : ~Says(g[n], f[n])}
<1>6. ASSUME NEW n \in Bad, \A j \in Bad : n <= j PROVE FALSE
  <2>1. n \in 1 .. N /\ n - 1 \in 0 .. N /\ ~(n <= n - 1)
    BY <1>4, <1>6
  <2>2. Says(g[n - 1], f[n - 1])
    BY <1>6, <2>1
  <2> QED
    BY <1>5, <1>6, <2>1, <2>2
<1>7. Bad = {}
  <2>1. Bad \subseteq Nat
    OBVIOUS
  <2> QED
    BY <1>6, <2>1, Smallest
<1>8. Says(g[N], f[N]) /\ f[N] \in Nat
  <2>1. N \in 0 .. N
    BY <1>3
  <2> QED
    BY <1>1, <1>3, <1>7, <2>1 DEF Worths
<1> QED
  BY <1>1, <1>2, <1>3, <1>8

(* u is what t has from place k on.                                        *)
Suffix(u, t, k) == Len(t) = k + Len(u) /\ \A j \in 1 .. Len(u) : u[j] = t[k + j]

(* Its first k characters are zeros or no digits.                          *)
Idle(t, k, base) == \A j \in 1 .. k : t[j] = "0" \/ ~IsDigit(t[j], base)

(* The value of a text whose first k characters are worth nothing.         *)
LEMMA ValueDrop ==
  ASSUME NEW S, NEW t \in Seq(S), NEW u \in Seq(S), NEW k \in Nat, NEW base \in 1 .. 16,
         Suffix(u, t, k), Idle(t, k, base)
  PROVE  Value(t, base) = Value(u, base)
<1>1. PICK f : Worths(f, t, base) /\ Value(t, base) = f[Len(t)]
  BY ValueFold
<1>2. PICK g : Worths(g, u, base) /\ Value(u, base) = g[Len(u)]
  BY ValueFold
<1>3. PICK N \in Nat : N = Len(u) /\ Len(t) = k + N
  BY DEF Suffix
<1>4. ASSUME NEW n \in 1 .. k, f[n - 1] = 0 PROVE f[n] = 0
  <2>1. n \in 1 .. Len(t)
    BY <1>3
  <2>2. f[n] = Worth(0, t[n], base)
    BY <1>1, <1>4, <2>1 DEF Worths
  <2> QED
    BY <2>2, ZeroFacts DEF Worth, Idle
<1>5. f[k] = 0
  <2> DEFINE Bad == {n \in 0 .. k : f[n] # 0}
  <2>1. ASSUME NEW n \in Bad, \A j \in Bad : n <= j PROVE FALSE
    <3>1. n \in 1 .. k /\ n - 1 \in 0 .. k /\ ~(n <= n - 1)
      BY <1>1, <2>1 DEF Worths
    <3>2. f[n - 1] = 0
      BY <2>1, <3>1
    <3> QED
      BY <1>4, <2>1, <3>1, <3>2
  <2>2. Bad \subseteq Nat
    OBVIOUS
  <2>3. Bad = {}
    BY <2>1, <2>2, Smallest
  <2>4. k \in 0 .. k
    OBVIOUS
  <2> QED
    BY <2>3, <2>4
<1>6. ASSUME NEW n \in 1 .. N, f[k + (n - 1)] = g[n - 1] PROVE f[k + n] = g[n]
  <2>1. k + n \in 1 .. Len(t) /\ (k + n) - 1 = k + (n - 1)
    BY <1>3
  <2>2. f[k + n] = Worth(f[k + (n - 1)], t[k + n], base)
    BY <1>1, <2>1 DEF Worths
  <2>3. g[n] = Worth(g[n - 1], u[n], base) /\ u[n] = t[k + n]
    BY <1>2, <1>3 DEF Worths, Suffix
  <2> QED
    BY <1>6, <2>2, <2>3
<1>7. f[k + N] = g[N]
  <2> DEFINE Bad == {n \in 0 .. N : f[k + n] # g[n]}
  <2>1. ASSUME NEW n \in Bad, \A j \in Bad : n <= j PROVE FALSE
    <3>1. n \in 1 .. N /\ n - 1 \in 0 .. N /\ ~(n <= n - 1)
      BY <1>2, <1>5, <2>1 DEF Worths
    <3>2. f[k + (n - 1)] = g[n - 1]
      BY <2>1, <3>1
    <3> QED
      BY <1>6, <2>1, <3>1, <3>2
  <2>2. Bad \subseteq Nat
    OBVIOUS
  <2>3. Bad = {}
    BY <2>1, <2>2, Smallest
  <2>4. N \in 0 .. N
    BY <1>3
  <2> QED
    BY <2>3, <2>4
<1> QED
  BY <1>1, <1>2, <1>3, <1>7

-----------------------------------------------------------------------------
(* Remainders of small numbers.                                            *)
LEMMA SmallMod ==
  ASSUME NEW W \in Nat \ {0}, NEW v \in 0 .. W - 1
  PROVE  v % W = v /\ (W - v) % W = (-v) % W /\ (-v) % W = IF v = 0 THEN 0 ELSE W - v
<1>1. v % W = v
  OBVIOUS
<1>2. CASE v = 0
  <2>1. 0 % W = 0 /\ W % W = 0
    OBVIOUS
  <2> QED
    BY <1>1, <1>2, <2>1
<1>3. CASE v # 0
  <2>1. PICK u \in 1 .. W - 1 : u = W - v
    BY <1>3
  <2>2. u % W = u
    BY <2>1
  <2>3. (u - W) % W = u
    BY <2>1
  <2>4. u - W = -v
    BY <2>1
  <2> QED
    BY <1>1, <1>3, <2>1, <2>2, <2>3, <2>4
<1> QED
  BY <1>2, <1>3

(* The word is two halves.                                                 *)
LEMMA HalfFacts == Half \in Nat \ {0} /\ WordMod = Half + Half /\ WordMod \in Nat \ {0}
BY FormatAssumption DEF Half

(* What a number conversion stores for the value v.                        *)
Nearest(is_signed, neg, v) ==
  IF is_signed THEN Clamp(IF neg THEN -v ELSE v, -Half, Half - 1) % WordMod
  ELSE IF v >= WordMod THEN WordMod - 1
  ELSE (IF neg THEN -v ELSE v) % WordMod

(* What string2long returns for the sum of the digits.                     *)
Kept(a, sg, neg) ==
  LET limit == IF neg THEN Half ELSE Half - 1
  IN IF sg /\ (a.ovfl \/ a.val > limit) THEN limit
     ELSE IF a.ovfl THEN WordMod - 1
     ELSE IF neg THEN (WordMod - a.val) % WordMod ELSE a.val

(* string2long makes that of the digits' sum.                              *)
LEMMA NearestIs ==
  ASSUME NEW a, NEW v \in Nat, Says(a, v), NEW sg \in BOOLEAN, NEW neg \in BOOLEAN
  PROVE  Kept(a, sg, neg) = Nearest(sg, neg, v)
<1> USE DEF Kept
<1>1. PICK W \in Nat \ {0}, h \in Nat \ {0} : W = WordMod /\ h = Half /\ W = h + h
  BY HalfFacts
<1>2. ASSUME NEW x \in 0 .. W - 1
      PROVE  x % W = x /\ (W - x) % W = (-x) % W /\ (-x) % W = IF x = 0 THEN 0 ELSE W - x
  BY SmallMod
<1>3. (-h) % W = h /\ (h - 1) % W = h - 1
  <2>1. h \in 0 .. W - 1 /\ h - 1 \in 0 .. W - 1 /\ h # 0 /\ W - h = h
    BY <1>1
  <2>2. (-h) % W = W - h
    <3>1. (-h) % W = IF h = 0 THEN 0 ELSE W - h
      BY <1>2, <2>1
    <3> QED
      BY <2>1, <3>1
  <2>3. (h - 1) % W = h - 1
    <3>1. PICK g \in 0 .. W - 1 : g = h - 1
      BY <2>1
    <3>2. g % W = g
      BY <1>2
    <3> QED
      BY <3>1, <3>2
  <2> QED
    BY <2>1, <2>2, <2>3
<1>4. CASE sg
  <2>1. CASE neg
    <3>1. CASE v > h
      <4>1. a.ovfl \/ a.val > h
        BY <1>1, <3>1 DEF Says
      <4>2. Clamp(-v, -h, h - 1) = -h
        BY <1>1, <3>1 DEF Clamp
      <4> QED
        BY <1>1, <1>3, <1>4, <2>1, <4>1, <4>2 DEF Nearest
    <3>2. CASE v <= h
      <4>1. ~a.ovfl /\ a.val = v /\ v \in 0 .. W - 1
        BY <1>1, <3>2 DEF Says
      <4>2. Clamp(-v, -h, h - 1) = -v
        BY <1>1, <3>2 DEF Clamp
      <4>3. (W - v) % W = (-v) % W
        BY <1>2, <4>1
      <4> QED
        BY <1>1, <1>4, <2>1, <3>2, <4>1, <4>2, <4>3 DEF Nearest
    <3> QED
      BY <1>1, <3>1, <3>2
  <2>2. CASE ~neg
    <3>1. CASE v > h - 1
      <4>1. a.ovfl \/ a.val > h - 1
        BY <1>1, <3>1 DEF Says
      <4>2. Clamp(v, -h, h - 1) = h - 1
        BY <1>1, <3>1 DEF Clamp
      <4> QED
        BY <1>1, <1>3, <1>4, <2>2, <4>1, <4>2 DEF Nearest
    <3>2. CASE v <= h - 1
      <4>1. ~a.ovfl /\ a.val = v /\ v \in 0 .. W - 1
        BY <1>1, <3>2 DEF Says
      <4>2. Clamp(v, -h, h - 1) = v
        BY <1>1, <3>2 DEF Clamp
      <4>3. v % W = v
        BY <1>2, <4>1
      <4> QED
        BY <1>1, <1>4, <2>2, <3>2, <4>1, <4>2, <4>3 DEF Nearest
    <3> QED
      BY <1>1, <3>1, <3>2
  <2> QED
    BY <2>1, <2>2
<1>5. CASE ~sg
  <2>1. CASE v >= W
    BY <1>1, <1>5, <2>1 DEF Says, Nearest
  <2>2. CASE v < W
    <3>1. ~a.ovfl /\ a.val = v /\ v \in 0 .. W - 1
      BY <1>1, <2>2 DEF Says
    <3>2. (W - v) % W = (-v) % W /\ v % W = v
      BY <1>2, <3>1
    <3> QED
      BY <1>1, <1>5, <2>2, <3>1, <3>2 DEF Nearest
  <2> QED
    BY <1>1, <2>1, <2>2
<1> QED
  BY <1>4, <1>5

-----------------------------------------------------------------------------
(* t is a sign or none, a prefix of q characters and digits of the base,   *)
(* and more than a sign.                                                   *)
Numeral(t, q, base) ==
  /\ q \in {0, 1, 2} /\ SignLen(t, 0) + q <= Len(t) /\ SignLen(t, 0) < Len(t)
  /\ q > 0 => t[SignLen(t, 0) + 1] = "0"
  /\ q = 2 => t[SignLen(t, 0) + 2] \in {"x", "X"}
  /\ \A j \in SignLen(t, 0) + q + 1 .. Len(t) : Collects(t[j], base)

(* strtol and strtoul are given the base c and find the prefix and the     *)
(* base of the numeral again.                                              *)
Agrees(t, c, q, base) ==
  /\ IF c \in {0, 16} THEN q = PrefixLen(t, SignLen(t, 0), 2) ELSE q = 0
  /\ base = IF c = 0 THEN Radix(q) ELSE c

(* They convert all of it.                                                 *)
LEMMA Converts ==
  ASSUME NEW S, EOF \notin S, NEW t \in Seq(S), NEW c, NEW q, NEW base \in Bases,
         Numeral(t, q, base), Agrees(t, c, q, base), NEW sg \in BOOLEAN
  PROVE  /\ string2long(t, c, sg).end = Len(t)
         /\ string2long(t, c, sg).val = Nearest(sg, t[1] = "-", Value(t, base))
<1>1. PICK N \in Nat, s \in {0, 1} : N = Len(t) /\ s = SignLen(t, 0) /\ s < N /\ s + q <= N
  BY DEF SignLen, Numeral
<1>2. base \in 1 .. 16 /\ q \in 0 .. 2
  BY DEF Bases, Numeral
<1>3. CharAt(t, 0) = t[1] /\ (s = 1 <=> t[1] \in Signs)
  BY <1>1, CharFacts DEF SignLen
<1>4. Blanks(t, 0) = 0
  <2>1. t[1] \notin White
    <3>1. CASE s = 1
      BY <1>3, <3>1 DEF White, Signs
    <3>2. CASE s = 0 /\ q > 0
      <4>1. t[0 + 1] = "0"
        BY <1>1, <3>2 DEF Numeral
      <4>2. t[1] = "0"
        BY <4>1
      <4> QED
        BY <4>2 DEF White
    <3>3. CASE s = 0 /\ q = 0
      <4>1. Collects(t[1], base)
        BY <1>1, <3>3 DEF Numeral
      <4> QED
        BY <1>2, <4>1, DigitFacts
    <3> QED
      BY <1>1, <1>2, <3>1, <3>2, <3>3
  <2>2. PICK ok : ok = {j \in Places(t) : IsSpace(CharAt(t, j))}
    OBVIOUS
  <2>3. 0 .. 0 + 0 - 1 \subseteq ok /\ 0 + 0 \notin ok
    BY <1>3, <2>1, <2>2 DEF IsSpace
  <2>4. Span(ok, 0, N) = 0
    BY <1>1, <2>3, SpanIs
  <2> QED
    BY <1>1, <2>2, <2>4 DEF Blanks
<1>5. PICK from \in 0 .. N : from = s + q
  BY <1>1, <1>2
<1>6. \A j \in from + 1 .. N : IsDigit(t[j], base)
  BY <1>1, <1>2, <1>5, DigitFacts DEF Numeral
<1>7. from + Span({j \in Places(t) : IsDigit(CharAt(t, j), base)}, from, N) = N
  <2>1. PICK ok : ok = {j \in Places(t) : IsDigit(CharAt(t, j), base)}
    OBVIOUS
  <2>2. PICK n \in 0 .. N : n = N - from
    BY <1>5
  <2>3. ASSUME NEW j \in from .. from + n - 1 PROVE j \in ok
    <3>0. N \in Nat /\ from \in Nat /\ n \in Nat /\ from + n = N
      BY <2>2
    <3>1. j \in 0 .. N - 1 /\ j + 1 \in from + 1 .. N
      BY <3>0
    <3>2. CharAt(t, j) = t[j + 1]
      BY <1>1, <3>1, CharFacts
    <3> QED
      BY <1>1, <1>6, <2>1, <3>1, <3>2 DEF Places
  <2>4. from + n \notin ok
    BY <1>1, <1>5, <2>1, <2>2 DEF Places
  <2>5. Span(ok, from, N) = n
    <3>1. from .. from + n - 1 \subseteq ok /\ (n < N => from + n \notin ok) /\ from \in Nat
      BY <2>3, <2>4
    <3> HIDE DEF Span
    <3> QED
      BY <3>1, SpanIs
  <2> QED
    BY <1>5, <2>1, <2>2, <2>5
<1>8. PICK u : u = SubSeq(t, from + 1, N)
  OBVIOUS
<1>9. PICK D : D = {ch \in S : IsDigit(ch, base)}
  OBVIOUS
<1>10. u \in Seq(D) /\ u \in Seq(S) /\ Suffix(u, t, from)
  <2>0. PICK k \in Nat : k = N - from
    BY <1>5
  <2>1. Len(u) = k /\ \A j \in 1 .. k : u[j] = t[from + j]
    <3>1. from + 1 \in 1 .. N + 1 /\ N - (from + 1) + 1 = k
      BY <1>5, <2>0
    <3>2. u = [j \in 1 .. N - (from + 1) + 1 |-> t[(from + 1) + j - 1]]
      BY <1>8
    <3>3. u = [j \in 1 .. k |-> t[(from + 1) + j - 1]]
      BY <3>1, <3>2
    <3>4. \A j \in 1 .. k : (from + 1) + j - 1 = from + j
      OBVIOUS
    <3>5. Len(u) = k
      BY <3>3
    <3> QED
      BY <3>3, <3>4, <3>5
  <2>2. ASSUME NEW j \in 1 .. k PROVE u[j] \in D
    <3>1. from + j \in from + 1 .. N /\ from + j \in 1 .. N
      BY <1>5, <2>0
    <3>2. t[from + j] \in S /\ IsDigit(t[from + j], base)
      BY <1>1, <1>6, <3>1
    <3> QED
      BY <1>9, <2>1, <3>2
  <2>3. u = [j \in 1 .. k |-> u[j]]
    BY <1>8, <2>1
  <2>4. u \in Seq(D) /\ u \in Seq(S)
    <3>1. \A ch \in D : ch \in S
      BY <1>9
    <3> QED
      BY <2>0, <2>2, <2>3, <3>1
  <2>5. N = from + k
    BY <1>5, <2>0
  <2> QED
    BY <1>1, <2>1, <2>4, <2>5 DEF Suffix
<1>11. PICK v \in Nat : v = Value(u, base) /\ Says(SumDigits(u, base), v)
  <2>1. \A ch \in D : IsDigit(ch, base)
    BY <1>9
  <2> QED
    BY <1>10, <2>1, SumRight
<1>12. Value(t, base) = v
  <2>1. ASSUME NEW j \in 1 .. from PROVE t[j] = "0" \/ ~IsDigit(t[j], base)
    <3>1. CASE j <= s
      <4>1. j = 1 /\ s = 1
        BY <1>1, <3>1
      <4>2. t[j] \in Signs
        BY <1>1, <1>3, <4>1
      <4> QED
        BY <1>2, <4>2, DigitFacts
    <3>2. CASE j = s + 1 /\ q > 0
      BY <1>1, <3>2 DEF Numeral
    <3>3. CASE j = s + 2 /\ q = 2
      <4>1. t[j] \in {"x", "X"}
        BY <1>1, <3>3 DEF Numeral
      <4> QED
        BY <1>2, <4>1, DigitFacts
    <3> QED
      BY <1>1, <1>2, <1>5, <3>1, <3>2, <3>3
  <2> QED
    <3>1. Idle(t, from, base) /\ from \in Nat
      BY <2>1 DEF Idle
    <3>2. Value(t, base) = Value(u, base)
      BY <1>2, <1>10, <3>1, ValueDrop
    <3> QED
      BY <1>11, <3>2
<1>13. PICK a : a = SumDigits(u, base)
  OBVIOUS
<1>14. PICK neg \in BOOLEAN : neg = (t[1] = "-")
  OBVIOUS
<1>15. (IF c \in {0, 16} THEN PrefixLen(t, s, 2) ELSE 0) = q /\ (IF c = 0 THEN Radix(q) ELSE c) = base
  BY <1>1 DEF Agrees
<1>16. string2long(t, c, sg) = [end |-> IF N = s THEN 0 ELSE N, val |-> Kept(a, sg, neg)]
  <2>1. /\ CharAt(t, 0) = t[1] /\ 0 + SignLen(t, 0) = s
        /\ from + Span({j \in Places(t) : IsDigit(CharAt(t, j), base)}, from, Len(t)) = N
        /\ SumDigits(SubSeq(t, from + 1, N), base) = a /\ s + q = from
    BY <1>1, <1>3, <1>5, <1>7, <1>8, <1>13
  <2> HIDE DEF CharAt, SignLen, Span, SumDigits, Blanks, PrefixLen, Radix
  <2> QED
    BY <1>4, <1>14, <1>15, <2>1 DEF string2long, Kept
<1>17. Kept(a, sg, neg) = Nearest(sg, neg, v)
  BY <1>11, <1>13, NearestIs
<1> QED
  BY <1>1, <1>12, <1>14, <1>16, <1>17

(* The conversions of numbers and their bases.                             *)
LEMMA TypeFacts ==
  ASSUME NEW type \in DOMAIN Base
  PROVE  /\ Base[type] \in Bases
         /\ Base[type] = 16 <=> type \in {"p", "x", "X"}
         /\ type = "i" => Base[type] = 10
<1>1. type \in {"o", "p", "x", "X", "d", "i", "u", "b"}
  BY DEF Base
<1>2. CASE type = "o"
  BY <1>2 DEF Base, Bases
<1>3. CASE type \in {"p", "x", "X"}
  BY <1>3 DEF Base, Bases
<1>4. CASE type \in {"d", "i", "u"}
  BY <1>4 DEF Base, Bases
<1>5. CASE type = "b"
  BY <1>5 DEF Base, Bases
<1> QED
  BY <1>1, <1>2, <1>3, <1>4, <1>5

(* A beginning of t.                                                       *)
LEMMA HeadFacts ==
  ASSUME NEW S, NEW t \in Seq(S), NEW n \in 0 .. Len(t)
  PROVE  /\ SubSeq(t, 1, n) \in Seq(S) /\ Len(SubSeq(t, 1, n)) = n
         /\ \A j \in 1 .. n : SubSeq(t, 1, n)[j] = t[j]
<1>1. n \in Nat /\ Len(t) \in Nat
  OBVIOUS
<1> QED
  BY <1>1

(* And what comes after it.                                                *)
LEMMA TailFacts ==
  ASSUME NEW S, NEW t \in Seq(S), NEW n \in 0 .. Len(t)
  PROVE  /\ SubSeq(t, n + 1, Len(t)) \in Seq(S)
         /\ Len(SubSeq(t, n + 1, Len(t))) = Len(t) - n
         /\ \A j \in 1 .. Len(t) - n : SubSeq(t, n + 1, Len(t))[j] = t[n + j]
<1>0. Len(t) \in Nat /\ Len(t) - n \in Nat
  OBVIOUS
<1>1a. PICK N \in Nat : N = Len(t)
  BY <1>0
<1>1b. PICK k \in Nat : k = N - n
  BY <1>0, <1>1a
<1>1c. PICK u : u = SubSeq(t, n + 1, N)
  OBVIOUS
<1>1. N = Len(t) /\ k = N - n /\ u = SubSeq(t, n + 1, N) /\ n \in Nat
  BY <1>1a, <1>1b, <1>1c
<1>2. u = [j \in 1 .. N - (n + 1) + 1 |-> t[(n + 1) + j - 1]]
  BY <1>1
<1>3. N - (n + 1) + 1 = k /\ \A j \in 1 .. k : (n + 1) + j - 1 = n + j
  BY <1>1
<1>4. u = [j \in 1 .. k |-> t[n + j]]
  BY <1>2, <1>3
<1>5. \A j \in 1 .. k : t[n + j] \in S
  <2>1. \A j \in 1 .. k : n + j \in 1 .. N
    BY <1>1
  <2> QED
    BY <1>1, <2>1
<1>6. u \in Seq(S) /\ Len(u) = k /\ \A j \in 1 .. k : u[j] = t[n + j]
  BY <1>1, <1>4, <1>5
<1> QED
  BY <1>1, <1>6

(* The length of the sign.                                                 *)
LEMMA SignFacts ==
  ASSUME NEW S, EOF \notin S, NEW t \in Seq(S)
  PROVE  /\ SignLen(t, 0) \in {0, 1} /\ SignLen(t, 0) <= Len(t)
         /\ SignLen(t, 0) = 1 <=> (Len(t) > 0 /\ t[1] \in Signs)
<1>1. CharAt(t, 0) \in Signs => Len(t) > 0
  BY DEF CharAt, Signs, EOF
<1>2. Len(t) > 0 => CharAt(t, 0) = t[1]
  BY DEF CharAt
<1> QED
  BY <1>1, <1>2 DEF SignLen

(* The length of the prefix.                                               *)
LEMMA PrefixFacts ==
  ASSUME NEW S, EOF \notin S, NEW t \in Seq(S), NEW i \in Nat, NEW w \in Nat
  PROVE  /\ PrefixLen(t, i, w) \in {0, 1, 2} /\ PrefixLen(t, i, w) <= w
         /\ PrefixLen(t, i, w) > 0 <=> (w > 0 /\ i < Len(t) /\ t[i + 1] = "0")
         /\ PrefixLen(t, i, w) = 2 <=> (/\ w > 1 /\ i + 1 < Len(t) /\ t[i + 1] = "0"
                                        /\ t[i + 2] \in {"x", "X"})
<1>1. PICK N \in Nat : N = Len(t)
  OBVIOUS
<1>2. CharAt(t, i) = "0" <=> i < N /\ t[i + 1] = "0"
  BY <1>1 DEF CharAt, EOF
<1>3. CharAt(t, i + 1) \in {"x", "X"} <=> i + 1 < N /\ t[i + 2] \in {"x", "X"}
  <2>1. (i + 1) + 1 = i + 2
    OBVIOUS
  <2> QED
    BY <1>1, <2>1 DEF CharAt, EOF
<1>4. i + 1 < N => i < N
  BY <1>1
<1> HIDE DEF CharAt
<1>5. PICK x : x = PrefixLen(t, i, w)
  OBVIOUS
<1>6. x = IF w < 1 \/ CharAt(t, i) # "0" THEN 0
          ELSE IF w > 1 /\ CharAt(t, i + 1) \in {"x", "X"} THEN 2 ELSE 1
  BY <1>5 DEF PrefixLen
<1>7. x \in {0, 1, 2} /\ x <= w
  BY <1>6
<1>8. x > 0 <=> w > 0 /\ CharAt(t, i) = "0"
  BY <1>6
<1>9. x = 2 <=> w > 1 /\ CharAt(t, i) = "0" /\ CharAt(t, i + 1) \in {"x", "X"}
  BY <1>6
<1> QED
  BY <1>1, <1>2, <1>3, <1>4, <1>5, <1>7, <1>8, <1>9

(* The base of a numeral for %i is the one its prefix says.                *)
LEMMA NumeralBaseIs ==
  ASSUME NEW S, EOF \notin S, NEW t \in Seq(S)
  PROVE  NumeralBase(t, "i") = Radix(PrefixLen(t, SignLen(t, 0), 2))
<1>1. PICK N \in Nat, s \in {0, 1} : N = Len(t) /\ s = SignLen(t, 0) /\ s <= N
  BY SignFacts
<1>2. PICK b : b = SubSeq(t, 1 + s, N)
  OBVIOUS
<1>3. Len(b) = N - s /\ (b = <<>> <=> N = s) /\ \A j \in 1 .. N - s : b[j] = t[s + j]
  <2>1. s \in 0 .. N /\ s + 1 = 1 + s
    BY <1>1
  <2>2. b \in Seq(S) /\ Len(b) = N - s /\ \A j \in 1 .. N - s : b[j] = t[s + j]
    BY <1>1, <1>2, <2>1, TailFacts
  <2>3. b = <<>> <=> Len(b) = 0
    BY <2>2
  <2> QED
    BY <1>1, <2>2, <2>3
<1>4. NumeralBase(t, "i") = IF b = <<>> \/ b[1] # "0" THEN 10
                            ELSE IF Len(b) > 1 /\ b[2] \in {"x", "X"} THEN 16 ELSE 8
  BY <1>1, <1>2 DEF NumeralBase
<1>5. PICK q \in {0, 1, 2} : /\ q = PrefixLen(t, s, 2)
                             /\ q > 0 <=> (s < N /\ t[s + 1] = "0")
                             /\ q = 2 <=> (s + 1 < N /\ t[s + 1] = "0" /\ t[s + 2] \in {"x", "X"})
  <2>1. s \in Nat
    BY <1>1
  <2> QED
    BY <1>1, <2>1, PrefixFacts
<1>6. CASE q = 0
  <2>1. b = <<>> \/ b[1] # "0"
    BY <1>1, <1>3, <1>5, <1>6
  <2> QED
    BY <1>1, <1>4, <1>5, <1>6, <2>1 DEF Radix
<1>7. CASE q > 0
  <2>1. b # <<>> /\ b[1] = "0"
    BY <1>1, <1>3, <1>5, <1>7
  <2>2. Len(b) > 1 /\ b[2] \in {"x", "X"} <=> q = 2
    <3>1. CASE s + 1 < N
      <4>1. Len(b) > 1 /\ b[2] = t[s + 2]
        BY <1>1, <1>3, <3>1
      <4> QED
        BY <1>5, <1>7, <3>1, <4>1
    <3>2. CASE ~(s + 1 < N)
      BY <1>1, <1>3, <1>5, <3>2
    <3> QED
      BY <3>1, <3>2
  <2> QED
    BY <1>1, <1>4, <1>5, <1>7, <2>1, <2>2 DEF Radix
<1> QED
  BY <1>5, <1>6, <1>7

(* The characters of t from place k on are digits o_collect knows.         *)
Figured(t, k, base) == \A j \in k + 1 .. Len(t) : Collects(t[j], base)

(* The length of 0x in a numeral of base 16.                               *)
HexLen(t, base) == IF base = 16 /\ PrefixLen(t, SignLen(t, 0), 2) = 2 THEN 2 ELSE 0


(* A prefix, character by character.                                       *)
LEMMA PrefixIs ==
  ASSUME NEW Z, NEW z \in Seq(Z), NEW S, NEW t \in Seq(S)
  PROVE  IsPrefix(z, t) <=> Len(z) <= Len(t) /\ \A j \in 1 .. Len(z) : z[j] = t[j]
<1>1. PICK n \in Nat : n = Len(z)
  OBVIOUS
<1>2. PICK a : a = SubSeq(z, 1, n)
  OBVIOUS
<1>3. PICK b : b = SubSeq(t, 1, n)
  OBVIOUS
<1>4. a = [j \in 1 .. n |-> z[j]]
  BY <1>1, <1>2
<1>5. Len(t) >= n => b = [j \in 1 .. n |-> t[j]]
  BY <1>1, <1>3
<1>6. Len(t) >= n => (a = b <=> \A j \in 1 .. n : z[j] = t[j])
  BY <1>4, <1>5
<1> QED
  BY <1>1, <1>2, <1>3, <1>6 DEF IsPrefix

(* What may stand before the digits.                                       *)
Lead(m, x) == m \in {<<>>} \cup {<<c>> : c \in Signs} /\ x \in {<<>>, <<"0", "x">>, <<"0", "X">>}

(* The characters of a sign and a prefix.                                  *)
LEMMA LeadFacts ==
  ASSUME NEW m, NEW x, Lead(m, x)
  PROVE  /\ Len(m) \in {0, 1} /\ Len(x) \in {0, 2} /\ Len(m \o x) = Len(m) + Len(x)
         /\ m \o x \in Seq(Signs \cup {"0", "x", "X"})
         /\ Len(m) = 1 => (m \o x)[1] \in Signs
         /\ Len(m) = 1 => (m \o x)[1] = m[1]
         /\ Len(x) = 2 => (m \o x)[Len(m) + 1] = "0" /\ (m \o x)[Len(m) + 2] = x[2]
         /\ Len(x) = 2 => x[2] \in {"x", "X"}
         /\ Len(x) = 0 <=> x = <<>>
<1>1. PICK Z : Z = Signs \cup {"0", "x", "X"}
  OBVIOUS
<1>2. m \in Seq(Z) /\ Len(m) \in {0, 1} /\ (Len(m) = 1 => m[1] \in Signs)
  <2>1. CASE m = <<>>
    BY <2>1
  <2>2. CASE m # <<>>
    <3>1. PICK c \in Signs : m = <<c>>
      BY <2>2 DEF Lead
    <3> QED
      BY <1>1, <3>1
  <2> QED
    BY <2>1, <2>2
<1>3. x \in Seq(Z) /\ Len(x) \in {0, 2} /\ (Len(x) = 2 => x[1] = "0" /\ x[2] \in {"x", "X"})
      /\ (Len(x) = 0 <=> x = <<>>)
  <2>1. CASE x = <<>>
    BY <2>1
  <2>2. CASE x = <<"0", "x">>
    BY <1>1, <2>2
  <2>3. CASE x = <<"0", "X">>
    BY <1>1, <2>3
  <2> QED
    BY <2>1, <2>2, <2>3 DEF Lead
<1>4a. PICK k \in {0, 1}, l \in {0, 2} : k = Len(m) /\ l = Len(x)
  BY <1>2, <1>3
<1>4b. PICK z : z = m \o x
  OBVIOUS
<1>4. k = Len(m) /\ l = Len(x) /\ z = m \o x /\ k \in {0, 1} /\ l \in {0, 2}
  BY <1>4a, <1>4b
<1>5. z \in Seq(Z) /\ Len(z) = k + l
  BY <1>2, <1>3, <1>4
<1>6. \A j \in 1 .. k + l : z[j] = IF j <= k THEN m[j] ELSE x[j - k]
  BY <1>2, <1>3, <1>4
<1>7. (k = 1 => z[1] = m[1]) /\ (l = 2 => z[k + 1] = x[1] /\ z[k + 2] = x[2])
  <2>1. k \in Nat /\ l \in Nat /\ (k + 1) - k = 1 /\ (k + 2) - k = 2 /\ ~(k + 1 <= k) /\ ~(k + 2 <= k)
    BY <1>4
  <2>2. k = 1 => 1 \in 1 .. k + l /\ 1 <= k
    BY <1>4
  <2>3. l = 2 => k + 1 \in 1 .. k + l /\ k + 2 \in 1 .. k + l
    BY <1>4
  <2> QED
    BY <1>6, <2>1, <2>2, <2>3
<1> QED
  BY <1>1, <1>2, <1>3, <1>4, <1>5, <1>6, <1>7

(* The beginnings of a numeral: after the sign, and 0x in base 16, only    *)
(* digits.                                                                 *)
LEMMA BeginsIs ==
  ASSUME NEW S, EOF \notin S, NEW t \in Seq(S), NEW type, NEW base \in Bases,
         base = NumeralBase(t, type)
  PROVE  Begins(t, type) <=> Figured(t, SignLen(t, 0) + HexLen(t, base), base)
<1>1. PICK N \in Nat, s \in {0, 1} : /\ N = Len(t) /\ s = SignLen(t, 0) /\ s <= N
                                     /\ s = 1 <=> (N > 0 /\ t[1] \in Signs)
  BY SignFacts
<1>2. PICK q \in {0, 1, 2} : /\ q = PrefixLen(t, s, 2)
                             /\ q = 2 <=> (s + 1 < N /\ t[s + 1] = "0" /\ t[s + 2] \in {"x", "X"})
  <2>1. s \in Nat
    BY <1>1
  <2> QED
    BY <1>1, <2>1, PrefixFacts
<1>3. base \in 1 .. 16 /\ s \in Nat
  BY <1>1 DEF Bases
<1>4. PICK h \in {0, 2} : h = HexLen(t, base) /\ (h = 2 <=> base = 16 /\ q = 2)
  BY <1>1, <1>2 DEF HexLen
<1> DEFINE Opens(m, x) ==
      /\ Lead(m, x) /\ (base # 16 => x = <<>>)
      /\ IsPrefix(m \o x, t) /\ \A j \in Len(m \o x) + 1 .. N : Collects(t[j], base)
<1>5. Begins(t, type) <=> \E m, x : Opens(m, x)
  <2>1. PICK M : M = {<<>>} \cup {<<c>> : c \in Signs}
    OBVIOUS
  <2>2. PICK X : X = {<<>>} \cup (IF base = 16 THEN {<<"0", "x">>, <<"0", "X">>} ELSE {})
    OBVIOUS
  <2>3. Begins(t, type) <=>
          \E m \in M, x \in X : /\ IsPrefix(m \o x, t)
                               /\ \A j \in Len(m \o x) + 1 .. N : Collects(t[j], base)
    BY <1>1, <2>1, <2>2, Zenon DEF Begins
  <2>4. \A x : x \in X <=> /\ x \in {<<>>, <<"0", "x">>, <<"0", "X">>}
                           /\ base # 16 => x = <<>>
    <3>1. CASE base = 16
      BY <2>2, <3>1
    <3>2. CASE base # 16
      BY <2>2, <3>2
    <3> QED
      BY <3>1, <3>2
  <2>5. \A m, x : Lead(m, x) /\ (base # 16 => x = <<>>) <=> m \in M /\ x \in X
    BY <2>1, <2>4, Zenon DEF Lead
  <2> HIDE DEF Lead
  <2> QED
    BY <2>3, <2>5, Zenon
<1>6. ASSUME NEW m, NEW x, Opens(m, x) PROVE Figured(t, s + h, base)
  <2>1a. PICK k \in {0, 1}, l \in {0, 2} : k = Len(m) /\ l = Len(x)
    BY <1>6, LeadFacts
  <2>1b. PICK z : z = m \o x
    OBVIOUS
  <2>1. k = Len(m) /\ l = Len(x) /\ z = m \o x /\ k \in {0, 1} /\ l \in {0, 2}
    BY <2>1a, <2>1b
  <2>2. /\ Len(z) = k + l /\ (k = 1 => z[1] \in Signs)
        /\ l = 2 => z[k + 1] = "0" /\ z[k + 2] \in {"x", "X"}
        /\ l = 2 => base = 16
    BY <1>6, <2>1, LeadFacts
  <2>3. k + l <= N /\ \A j \in 1 .. k + l : z[j] = t[j]
    <3>1. z \in Seq(Signs \cup {"0", "x", "X"}) /\ IsPrefix(z, t)
      BY <1>6, <2>1, LeadFacts
    <3> QED
      BY <1>1, <2>2, <3>1, PrefixIs
  <2>4. \A j \in k + l + 1 .. N : Collects(t[j], base)
    BY <1>6, <2>1, <2>2
  <2>5. k = s
    <3>1. CASE k = 1
      <4>1. N > 0 /\ t[1] \in Signs
        BY <1>1, <2>1, <2>2, <2>3, <3>1
      <4> QED
        BY <1>1, <3>1, <4>1
    <3>2. CASE k = 0 /\ l = 2
      <4>1. t[1] = "0"
        BY <2>2, <2>3, <3>2
      <4> QED
        BY <1>1, <3>2, <4>1 DEF Signs
    <3>3. CASE k = 0 /\ l = 0
      <4>1. N > 0 => Collects(t[1], base)
        BY <1>1, <2>4, <3>3
      <4>2. N > 0 => t[1] \notin Signs
        BY <1>3, <4>1, DigitFacts
      <4> QED
        BY <1>1, <3>3, <4>2
    <3> QED
      BY <2>1, <3>1, <3>2, <3>3
  <2>6. l = h
    <3>1. CASE l = 2
      <4>1. k + 1 \in 1 .. k + l /\ k + 2 \in 1 .. k + l
        BY <2>1, <3>1
      <4>2. t[s + 1] = "0" /\ t[s + 2] \in {"x", "X"} /\ s + 1 < N
        BY <1>1, <2>2, <2>3, <2>5, <3>1, <4>1
      <4> QED
        BY <1>2, <1>4, <2>2, <3>1, <4>2
    <3>2. CASE l = 0 /\ h = 2
      <4>1. s + 2 \in k + l + 1 .. N /\ t[s + 2] \in {"x", "X"}
        BY <1>1, <1>2, <1>4, <2>1, <2>5, <3>2
      <4>2. Collects(t[s + 2], base)
        BY <2>4, <4>1
      <4> QED
        BY <1>3, <4>1, <4>2, DigitFacts
    <3> QED
      BY <1>4, <2>1, <3>1, <3>2
  <2> QED
    BY <1>1, <2>4, <2>5, <2>6 DEF Figured
<1>7. ASSUME Figured(t, s + h, base) PROVE \E m, x : Opens(m, x)
  <2>1. PICK m : m = IF s = 1 THEN <<t[1]>> ELSE <<>>
    OBVIOUS
  <2>2. PICK x : x = IF h = 2 THEN <<"0", t[s + 2]>> ELSE <<>>
    OBVIOUS
  <2>3. Lead(m, x) /\ (base # 16 => x = <<>>) /\ Len(m) = s /\ Len(x) = h
    <3>1. m \in {<<>>} \cup {<<c>> : c \in Signs} /\ Len(m) = s
      BY <1>1, <2>1
    <3>2. x \in {<<>>, <<"0", "x">>, <<"0", "X">>} /\ Len(x) = h /\ (base # 16 => x = <<>>)
      BY <1>2, <1>4, <2>2
    <3> QED
      BY <3>1, <3>2 DEF Lead
  <2>4. PICK z : z = m \o x
    OBVIOUS
  <2>5. /\ z \in Seq(Signs \cup {"0", "x", "X"}) /\ Len(z) = s + h
        /\ s = 1 => z[1] = t[1]
        /\ h = 2 => z[s + 1] = "0" /\ z[s + 2] = t[s + 2]
    <3>1. s = 1 => m[1] = t[1]
      BY <2>1
    <3>2. h = 2 => x[2] = t[s + 2]
      BY <2>2
    <3> QED
      BY <2>3, <2>4, <3>1, <3>2, LeadFacts
  <2>6. s + h <= N
    BY <1>1, <1>2, <1>4
  <2>7. ASSUME NEW j \in 1 .. s + h PROVE z[j] = t[j]
    <3>1. (s = 1 /\ j = 1) \/ (h = 2 /\ j = s + 1) \/ (h = 2 /\ j = s + 2)
      BY <1>1, <1>4
    <3>2. h = 2 => t[s + 1] = "0"
      BY <1>2, <1>4
    <3> QED
      BY <2>5, <3>1, <3>2
  <2>8. IsPrefix(z, t)
    <3>1. Len(z) <= Len(t) /\ \A j \in 1 .. Len(z) : z[j] = t[j]
      BY <1>1, <2>5, <2>6, <2>7
    <3> QED
      BY <2>5, <3>1, PrefixIs
  <2>9. \A j \in Len(z) + 1 .. N : Collects(t[j], base)
    BY <1>1, <1>7, <2>5 DEF Figured
  <2> QED
    BY <2>3, <2>4, <2>8, <2>9
<1> HIDE DEF Opens
<1> QED
  BY <1>1, <1>4, <1>5, <1>6, <1>7

(* The conversions that look for a prefix.                                 *)
Prefixed == {"i", "p", "x", "X"}

(* o_collect reads a sign, q characters of prefix, and n digits, up to the *)
(* width; and stops there only for want of another digit.                  *)
Fields(t, type, w, s, q, base, len) ==
  /\ s \in {0, 1} /\ s <= Len(t) /\ (s = 1 <=> Len(t) > 0 /\ t[1] \in Signs)
  /\ q \in {0, 1, 2} /\ s + q <= w /\ s + q <= Len(t)
  /\ q > 0 <=> type \in Prefixed /\ s < w /\ s < Len(t) /\ t[s + 1] = "0"
  /\ q = 2 <=> /\ type \in Prefixed /\ s + 1 < w /\ s + 1 < Len(t) /\ t[s + 1] = "0"
               /\ t[s + 2] \in {"x", "X"}
  /\ base \in Bases /\ base = IF type = "i" THEN Radix(q) ELSE Base[type]
  /\ len \in s + q .. w /\ len <= Len(t)
  /\ \A j \in s + q + 1 .. len : Collects(t[j], base)
  /\ len < w /\ len < Len(t) => ~Collects(t[len + 1], base)

(* So it does.                                                             *)
LEMMA FieldsFacts ==
  ASSUME NEW S, EOF \notin S, NEW t \in Seq(S), NEW type \in DOMAIN Base, NEW w \in Nat \ {0}
  PROVE  \E s, q, base, len :
           /\ Fields(t, type, w, s, q, base, len) /\ s = SignLen(t, 0)
           /\ o_collect(t, 0, type, w) = [len |-> len, base |-> IF type = "i" THEN 0 ELSE base]
<1>1. PICK N \in Nat, s \in {0, 1} : /\ N = Len(t) /\ s = SignLen(t, 0) /\ s <= N
                                     /\ s = 1 <=> (N > 0 /\ t[1] \in Signs)
  BY SignFacts
<1>2. s \in Nat /\ w - s \in Nat /\ s <= w
  BY <1>1
<1>3. PICK q : q = IF type \in Prefixed THEN PrefixLen(t, s, w - s) ELSE 0
  OBVIOUS
<1>4. /\ q \in {0, 1, 2} /\ s + q <= w
      /\ q > 0 <=> type \in Prefixed /\ s < w /\ s < N /\ t[s + 1] = "0"
      /\ q = 2 <=> /\ type \in Prefixed /\ s + 1 < w /\ s + 1 < N /\ t[s + 1] = "0"
                   /\ t[s + 2] \in {"x", "X"}
  <2>1. CASE type \in Prefixed
    <3>0. PICK v \in Nat : v = w - s
      BY <1>2
    <3>1. /\ q \in {0, 1, 2} /\ q <= v
          /\ q > 0 <=> v > 0 /\ s < N /\ t[s + 1] = "0"
          /\ q = 2 <=> v > 1 /\ s + 1 < N /\ t[s + 1] = "0" /\ t[s + 2] \in {"x", "X"}
      BY <1>1, <1>2, <1>3, <2>1, <3>0, PrefixFacts
    <3>2. (v > 0 <=> s < w) /\ (v > 1 <=> s + 1 < w)
      BY <1>2, <3>0
    <3>3. s + q <= w
      BY <1>2, <3>0, <3>1
    <3> QED
      BY <2>1, <3>1, <3>2, <3>3
  <2>2. CASE type \notin Prefixed
    BY <1>2, <1>3, <2>2
  <2> QED
    BY <2>1, <2>2
<1>5. s + q <= N
  BY <1>1, <1>4
<1>6. PICK base \in Bases : base = IF type = "i" THEN Radix(q) ELSE Base[type]
  BY TypeFacts DEF Radix, Bases
<1>7. PICK from \in Nat : from = s + q /\ from <= w /\ from <= N
  BY <1>2, <1>4, <1>5
<1>8. PICK v \in Nat : v = w - from
  BY <1>7
<1>9. PICK ok : ok = {j \in Places(t) : Collects(CharAt(t, j), base)}
  OBVIOUS
<1>10. PICK n \in 0 .. v : /\ n = Span(ok, from, v) /\ from .. from + n - 1 \subseteq ok
                           /\ n < v => from + n \notin ok
  BY SpanFacts
<1>11. PICK len \in Nat : len = from + n
  BY <1>7, <1>10
<1>12. ASSUME NEW j \in Nat PROVE j \in ok <=> j < N /\ Collects(t[j + 1], base)
  BY <1>1, <1>9, CharFacts DEF Places
<1>13. len <= N
  <2>1. CASE n = 0
    BY <1>7, <1>11, <2>1
  <2>2. CASE n > 0
    <3>1. len - 1 \in from .. from + n - 1 /\ len - 1 \in Nat
      BY <1>7, <1>10, <1>11, <2>2
    <3> QED
      BY <1>1, <1>10, <1>12, <3>1
  <2> QED
    BY <1>10, <2>1, <2>2
<1>14. ASSUME NEW j \in from + 1 .. len PROVE Collects(t[j], base)
  <2>1. PICK i \in Nat : j = i + 1 /\ i \in from .. from + n - 1
    <3>1. j - 1 \in Nat /\ j = (j - 1) + 1 /\ j - 1 \in from .. from + n - 1
      BY <1>7, <1>11
    <3> QED
      BY <3>1
  <2>2. i \in ok
    BY <1>10, <2>1
  <2> QED
    BY <1>12, <2>1, <2>2
<1>15. len \in from .. w /\ (len < w => n < v)
  BY <1>7, <1>8, <1>10, <1>11
<1>16. len < w /\ len < N => ~Collects(t[len + 1], base)
  BY <1>10, <1>11, <1>12, <1>15
<1>17. o_collect(t, 0, type, w) = [len |-> len, base |-> IF type = "i" THEN 0 ELSE base]
  <2>1. 0 + s = s /\ 0 + from = from
    BY <1>2, <1>7
  <2> HIDE DEF SignLen, PrefixLen, Radix, Places, Collects, Span
  <2> QED
    BY <1>1, <1>3, <1>6, <1>7, <1>8, <1>9, <1>10, <1>11, <2>1 DEF o_collect, Prefixed
<1>18. Fields(t, type, w, s, q, base, len)
  BY <1>1, <1>4, <1>5, <1>6, <1>7, <1>13, <1>14, <1>15, <1>16 DEF Fields
<1> QED
  BY <1>1, <1>17, <1>18

(* u is the first k characters of t, with this sign, prefix and base.      *)
Same(u, t, k, S, type, s, q, base) ==
  /\ u \in Seq(S) /\ Len(u) = k /\ SignLen(u, 0) = s
  /\ type \in Prefixed => PrefixLen(u, s, 2) = q
  /\ NumeralBase(u, type) = base
  /\ HexLen(u, base) = IF q = 2 THEN 2 ELSE 0
  /\ \A j \in 1 .. k : u[j] = t[j]

(* The first k characters have the same sign, prefix and base: the field,  *)
(* and the field with the character that ended it.                         *)
LEMMA SameBase ==
  ASSUME NEW S, EOF \notin S, NEW t \in Seq(S), NEW type \in DOMAIN Base, NEW w \in Nat \ {0},
         NEW s, NEW q, NEW base, NEW len, Fields(t, type, w, s, q, base, len),
         NEW k \in Nat, k >= len, k <= w, k <= Len(t)
  PROVE  Same(SubSeq(t, 1, k), t, k, S, type, s, q, base)
<1>00. PICK u : u = SubSeq(t, 1, k)
  OBVIOUS
<1>0. PICK N \in Nat : N = Len(t)
  OBVIOUS
<1>1. u \in Seq(S) /\ Len(u) = k /\ \A j \in 1 .. k : u[j] = t[j]
  <2>1. k \in 0 .. Len(t)
    OBVIOUS
  <2> QED
    BY <1>00, <2>1, HeadFacts
<1>2. s \in {0, 1} /\ s \in Nat /\ q \in {0, 1, 2} /\ q \in Nat /\ k >= s + q
  BY DEF Fields
<1>3. SignLen(u, 0) = s
  <2>1. PICK z \in {0, 1} : z = SignLen(u, 0) /\ (z = 1 <=> k > 0 /\ u[1] \in Signs)
    BY <1>1, SignFacts
  <2>2. k > 0 => u[1] = t[1] /\ N > 0
    BY <1>0, <1>1
  <2>3. s = 1 => k > 0
    BY <1>2
  <2>4. s = 1 <=> N > 0 /\ t[1] \in Signs
    BY <1>0 DEF Fields
  <2> QED
    BY <1>2, <2>1, <2>2, <2>3, <2>4
<1>4. /\ q > 0 <=> type \in Prefixed /\ s < w /\ s < N /\ t[s + 1] = "0"
      /\ q = 2 <=> /\ type \in Prefixed /\ s + 1 < w /\ s + 1 < N /\ t[s + 1] = "0"
                   /\ t[s + 2] \in {"x", "X"}
  BY <1>0 DEF Fields
<1>5. PICK z \in {0, 1, 2} : /\ z = PrefixLen(u, s, 2)
                             /\ z > 0 <=> (s < k /\ u[s + 1] = "0")
                             /\ z = 2 <=> (s + 1 < k /\ u[s + 1] = "0" /\ u[s + 2] \in {"x", "X"})
  <2>1. PICK v \in Nat : v = 2
    OBVIOUS
  <2>2. v > 0 /\ v > 1
    BY <2>1
  <2>3. PICK z : z = PrefixLen(u, s, v)
    OBVIOUS
  <2>4. /\ z \in {0, 1, 2}
        /\ z > 0 <=> (v > 0 /\ s < k /\ u[s + 1] = "0")
        /\ z = 2 <=> (v > 1 /\ s + 1 < k /\ u[s + 1] = "0" /\ u[s + 2] \in {"x", "X"})
    BY <1>1, <1>2, <2>3, PrefixFacts
  <2>5. z = PrefixLen(u, s, 2)
    BY <2>1, <2>3
  <2> QED
    BY <2>2, <2>4, <2>5
<1>6. /\ s < k => u[s + 1] = t[s + 1] /\ s < N /\ s < w
      /\ s + 1 < k => u[s + 2] = t[s + 2] /\ s + 1 < N /\ s + 1 < w
  BY <1>0, <1>1, <1>2
<1>7. (q > 0 => s < k) /\ (q = 2 => s + 1 < k) /\ (s + 1 < k => s < k)
  BY <1>2
<1>8. type \in Prefixed => z = q
  <2>1. type \in Prefixed => (z > 0 <=> q > 0)
    BY <1>4, <1>5, <1>6, <1>7, Zenon
  <2>2. type \in Prefixed => (z = 2 <=> q = 2)
    BY <1>4, <1>5, <1>6, <1>7, <2>1, Zenon
  <2> QED
    BY <1>2, <1>5, <2>1, <2>2
<1>9. NumeralBase(u, type) = base
  <2>1. CASE type = "i"
    <3>1. NumeralBase(u, "i") = Radix(q)
      BY <1>1, <1>3, <1>5, <1>8, <2>1, NumeralBaseIs DEF Prefixed
    <3> QED
      BY <2>1, <3>1 DEF Fields
  <2>2. CASE type # "i"
    BY <2>2 DEF Fields, NumeralBase
  <2> QED
    BY <2>1, <2>2
<1>10. base = 16 => type \in Prefixed
  BY TypeFacts DEF Fields, Prefixed
<1>11. q = 2 => base = 16
  <2>1. CASE type = "i"
    BY <2>1 DEF Fields, Radix
  <2>2. CASE type # "i"
    BY <1>4, <2>2, TypeFacts DEF Fields, Prefixed
  <2> QED
    BY <2>1, <2>2
<1>12. HexLen(u, base) = IF q = 2 THEN 2 ELSE 0
  BY <1>3, <1>5, <1>8, <1>10, <1>11 DEF HexLen
<1> QED
  BY <1>00, <1>1, <1>3, <1>5, <1>8, <1>9, <1>12 DEF Same

(* A number conversion reads the longest numeral and converts all of it.   *)
LEMMA ReadsRight ==
  ASSUME NEW S, EOF \notin S, NEW t \in Seq(S), NEW type \in DOMAIN Base, NEW w \in Nat \ {0}
  PROVE  ReadsNumber(t, type, w)
<1>1. PICK s, q, base, len :
           /\ Fields(t, type, w, s, q, base, len) /\ s = SignLen(t, 0)
           /\ o_collect(t, 0, type, w) = [len |-> len, base |-> IF type = "i" THEN 0 ELSE base]
  BY FieldsFacts
<1>2. PICK N \in Nat : N = Len(t)
  OBVIOUS
<1>3. /\ s \in {0, 1} /\ q \in {0, 1, 2} /\ base \in Bases /\ len \in Nat /\ len >= s + q
      /\ len <= w /\ len <= N
  BY <1>1, <1>2 DEF Fields
<1>4. PICK u : u = SubSeq(t, 1, len)
  OBVIOUS
<1>5. /\ u \in Seq(S) /\ Len(u) = len /\ SignLen(u, 0) = s
      /\ type \in Prefixed => PrefixLen(u, s, 2) = q
      /\ NumeralBase(u, type) = base
      /\ HexLen(u, base) = IF q = 2 THEN 2 ELSE 0
      /\ \A j \in 1 .. len : u[j] = t[j]
  <2>1. len >= len /\ len <= Len(t)
    BY <1>2, <1>3
  <2>2. Same(u, t, len, S, type, s, q, base)
    BY <1>1, <1>3, <1>4, <2>1, SameBase
  <2> QED
    BY <2>2 DEF Same
<1>6. \A j \in s + q + 1 .. len : Collects(u[j], base)
  <2>1. \A j \in s + q + 1 .. len : Collects(t[j], base)
    BY <1>1 DEF Fields
  <2>2. \A j \in s + q + 1 .. len : j \in 1 .. len
    BY <1>3
  <2> QED
    BY <1>5, <2>1, <2>2
<1>7. q > 0 => u[s + 1] = "0"
  <2>1. q > 0 => t[s + 1] = "0" /\ s + 1 \in 1 .. len
    BY <1>1, <1>3 DEF Fields
  <2> QED
    BY <1>5, <2>1
<1>8. Begins(u, type)
  <2>1. PICK h \in {0, 2} : h = HexLen(u, base) /\ h = IF q = 2 THEN 2 ELSE 0
    BY <1>5
  <2>2. ASSUME NEW j \in s + h + 1 .. len PROVE Collects(u[j], base)
    <3>1. CASE q = 1 /\ j = s + 1
      <4>1. u[j] = "0" /\ base \in 1 .. 16
        BY <1>3, <1>7, <3>1 DEF Bases
      <4> QED
        BY <4>1, ZeroFacts
    <3>2. CASE ~(q = 1 /\ j = s + 1)
      <4>1. j \in s + q + 1 .. len
        BY <1>3, <2>1, <3>2
      <4> QED
        BY <1>6, <4>1
    <3> QED
      BY <3>1, <3>2
  <2>3. Figured(u, s + h, base)
    BY <1>5, <2>2 DEF Figured
  <2> QED
    BY <1>3, <1>5, <2>1, <2>3, BeginsIs
<1>9. ASSUME len < w, len < N PROVE ~Begins(SubSeq(t, 1, len + 1), type)
  <2>1. PICK v : v = SubSeq(t, 1, len + 1)
    OBVIOUS
  <2>2. PICK k \in Nat : k = len + 1 /\ k >= len /\ k <= w /\ k <= Len(t)
    BY <1>2, <1>3, <1>9
  <2>3. /\ v \in Seq(S) /\ Len(v) = k /\ SignLen(v, 0) = s
        /\ NumeralBase(v, type) = base
        /\ HexLen(v, base) = IF q = 2 THEN 2 ELSE 0
        /\ \A j \in 1 .. k : v[j] = t[j]
    <3>1. Same(SubSeq(t, 1, k), t, k, S, type, s, q, base)
      BY <1>1, <2>2, SameBase
    <3> QED
      BY <2>1, <2>2, <3>1 DEF Same
  <2>4. PICK h \in {0, 2} : h = HexLen(v, base) /\ h = IF q = 2 THEN 2 ELSE 0
    BY <2>3
  <2>5. k \in s + h + 1 .. k /\ k \in 1 .. k
    BY <1>3, <2>2, <2>4
  <2>6. ~Collects(v[k], base)
    <3>1. ~Collects(t[len + 1], base)
      BY <1>1, <1>2, <1>9 DEF Fields
    <3> QED
      BY <2>2, <2>3, <2>5, <3>1
  <2>7. ~Figured(v, s + h, base)
    BY <2>3, <2>5, <2>6 DEF Figured
  <2> QED
    BY <1>3, <2>1, <2>3, <2>4, <2>7, BeginsIs
<1>10. PICK c : c = IF type = "i" THEN 0 ELSE base
  OBVIOUS
<1>11. PICK sg \in BOOLEAN : sg <=> type \in {"d", "i"}
  OBVIOUS
<1>12. ASSUME IsNumber(u)
       PROVE  /\ string2long(u, c, sg).end = len
              /\ string2long(u, c, sg).val = Nearest(sg, u[1] = "-", Value(u, base))
  <2>1. s < len
    <3>1. u # <<>> => len > 0
      BY <1>3, <1>5
    <3>2. s = 1 /\ len = 1 => u \in {<<ch>> : ch \in Signs}
      <4>1. s = 1 /\ len = 1 => u[1] \in Signs
        BY <1>5, SignFacts
      <4>2. len = 1 => u = <<u[1]>>
        BY <1>5
      <4> QED
        BY <4>1, <4>2
    <3> QED
      BY <1>3, <1>12, <3>1, <3>2 DEF IsNumber
  <2>2. q = 2 => u[s + 2] \in {"x", "X"}
    <3>1. q = 2 => t[s + 2] \in {"x", "X"} /\ s + 2 \in 1 .. len
      BY <1>1, <1>3 DEF Fields
    <3> QED
      BY <1>5, <3>1
  <2>3. Numeral(u, q, base)
    BY <1>3, <1>5, <1>6, <1>7, <2>1, <2>2 DEF Numeral
  <2>4. Agrees(u, c, q, base)
    <3>1. CASE type \in Prefixed
      <4>1. c \in {0, 16} /\ q = PrefixLen(u, s, 2)
        BY <1>1, <1>5, <1>10, <3>1, TypeFacts DEF Fields, Prefixed
      <4>2. base = IF c = 0 THEN Radix(q) ELSE c
        BY <1>1, <1>3, <1>10 DEF Fields, Bases
      <4> QED
        BY <1>5, <4>1, <4>2 DEF Agrees
    <3>2. CASE type \notin Prefixed
      <4>1. c = base /\ c \notin {0, 16} /\ q = 0
        BY <1>1, <1>3, <1>10, <3>2, TypeFacts DEF Fields, Prefixed, Bases
      <4> QED
        BY <1>3, <4>1 DEF Agrees, Bases
    <3> QED
      BY <3>1, <3>2
  <2> QED
    BY <1>3, <1>5, <2>3, <2>4, Converts
<1>13. IsNumber(u) =>
         /\ string2long(u, c, type \in {"d", "i"}).end = len
         /\ string2long(u, c, type \in {"d", "i"}).val
              = IF type \in {"d", "i"}
                THEN Clamp(IF u[1] = "-" THEN -Value(u, base) ELSE Value(u, base), -Half, Half - 1) % WordMod
                ELSE IF Value(u, base) >= WordMod THEN WordMod - 1
                ELSE (IF u[1] = "-" THEN -Value(u, base) ELSE Value(u, base)) % WordMod
  <2>1. sg = (type \in {"d", "i"})
    BY <1>11
  <2> HIDE DEF string2long, Clamp, Value
  <2> QED
    BY <1>12, <2>1, Zenon DEF Nearest
<1> HIDE DEF string2long, Clamp, Value, Begins, NumeralBase, IsNumber, o_collect
<1>14. PICK o : o = o_collect(t, 0, type, w)
  OBVIOUS
<1>15. o.len = len /\ o.base = c
  BY <1>1, <1>10, <1>14
<1>16. /\ Begins(u, type) /\ len <= w
       /\ len < w /\ len < Len(t) => ~Begins(SubSeq(t, 1, len + 1), type)
  BY <1>2, <1>3, <1>8, <1>9
<1>17. u = SubSeq(t, 1, len) /\ base = NumeralBase(u, type)
  BY <1>4, <1>5
<1> QED
  BY <1>13, <1>14, <1>15, <1>16, <1>17, Zenon DEF ReadsNumber

(* A part of a text.                                                       *)
LEMMA PartFacts ==
  ASSUME NEW S, NEW t \in Seq(S), NEW i \in Nat, NEW n \in Nat, i + n <= Len(t)
  PROVE  /\ SubSeq(t, i + 1, i + n) \in Seq(S) /\ Len(SubSeq(t, i + 1, i + n)) = n
         /\ \A j \in 1 .. n : SubSeq(t, i + 1, i + n)[j] = t[i + j]
<1>1. PICK u : u = SubSeq(t, i + 1, i + n)
  OBVIOUS
<1>2. u = [j \in 1 .. (i + n) - (i + 1) + 1 |-> t[(i + 1) + j - 1]]
  BY <1>1
<1>3. (i + n) - (i + 1) + 1 = n /\ \A j \in 1 .. n : (i + 1) + j - 1 = i + j
  OBVIOUS
<1>4. u = [j \in 1 .. n |-> t[i + j]]
  BY <1>2, <1>3
<1>5. \A j \in 1 .. n : t[i + j] \in S
  <2>1. \A j \in 1 .. n : i + j \in 1 .. Len(t)
    OBVIOUS
  <2> QED
    BY <2>1
<1>6. u \in Seq(S) /\ Len(u) = n /\ \A j \in 1 .. n : u[j] = t[i + j]
  BY <1>4, <1>5
<1> QED
  BY <1>1, <1>6

Part(u, t, i, n, S) == u \in Seq(S) /\ Len(u) = n /\ \A j \in 1 .. n : u[j] = t[i + j]

(* The same, said once.                                                    *)
LEMMA PartIs ==
  ASSUME NEW S, NEW t \in Seq(S), NEW i \in Nat, NEW n \in Nat, i + n <= Len(t)
  PROVE  Part(SubSeq(t, i + 1, i + n), t, i, n, S)
BY PartFacts DEF Part

(* The first word of t is the n characters from place i on.                *)
Word(t, i, n) ==
  /\ i \in 0 .. Len(t) /\ n \in 0 .. Len(t) /\ i + n <= Len(t)
  /\ \A j \in 1 .. i : t[j] \in White
  /\ i < Len(t) => t[i + 1] \notin White
  /\ \A j \in i + 1 .. i + n : t[j] \notin White
  /\ i + n < Len(t) => t[i + n + 1] \in White

(* _doscan's loops find it.                                                *)
LEMMA WordFacts ==
  ASSUME NEW S, EOF \notin S, NEW t \in Seq(S)
  PROVE  Word(t, Blanks(t, 0),
              Span({j \in Places(t) : ~IsSpace(CharAt(t, j))}, Blanks(t, 0), Len(t)))
<1>1. PICK N \in Nat : N = Len(t)
  OBVIOUS
<1>2. PICK ok : ok = {j \in Places(t) : IsSpace(CharAt(t, j))}
  OBVIOUS
<1>3. PICK no : no = {j \in Places(t) : ~IsSpace(CharAt(t, j))}
  OBVIOUS
<1>4. ASSUME NEW j \in Nat
      PROVE  (j \in ok <=> j < N /\ t[j + 1] \in White) /\ (j \in no <=> j < N /\ t[j + 1] \notin White)
  BY <1>1, <1>2, <1>3, CharFacts DEF Places, IsSpace
<1>5. PICK i \in 0 .. N : /\ i = Span(ok, 0, N) /\ 0 .. 0 + i - 1 \subseteq ok
                          /\ i < N => 0 + i \notin ok
  BY SpanFacts
<1>6. PICK n \in 0 .. N : /\ n = Span(no, i, N) /\ i .. i + n - 1 \subseteq no
                          /\ n < N => i + n \notin no
  <2>1. i \in Nat
    BY <1>5
  <2> QED
    BY <2>1, SpanFacts
<1>7. i + n <= N
  <2>1. CASE n = 0
    BY <1>5, <2>1
  <2>2. CASE n > 0
    <3>1. i + n - 1 \in i .. i + n - 1 /\ i + n - 1 \in Nat
      BY <1>5, <1>6, <2>2
    <3>2. i + n - 1 < N
      BY <1>4, <1>6, <3>1
    <3> QED
      BY <1>5, <1>6, <3>2
  <2> QED
    BY <1>6, <2>1, <2>2
<1>8. ASSUME NEW j \in 1 .. i PROVE t[j] \in White
  <2>1. PICK k \in Nat : j = k + 1 /\ k \in 0 .. 0 + i - 1
    <3>1. j - 1 \in Nat /\ j = (j - 1) + 1 /\ j - 1 \in 0 .. 0 + i - 1
      BY <1>5
    <3> QED
      BY <3>1
  <2> QED
    BY <1>4, <1>5, <2>1
<1>9. ASSUME NEW j \in i + 1 .. i + n PROVE t[j] \notin White
  <2>1. PICK k \in Nat : j = k + 1 /\ k \in i .. i + n - 1
    <3>1. j - 1 \in Nat /\ j = (j - 1) + 1 /\ j - 1 \in i .. i + n - 1
      BY <1>5, <1>6
    <3> QED
      BY <3>1
  <2> QED
    BY <1>4, <1>6, <2>1
<1>10. i < N => t[i + 1] \notin White
  <2>1. i \in Nat /\ 0 + i = i
    BY <1>5
  <2> QED
    BY <1>4, <1>5, <2>1
<1>11. i + n < N => t[i + n + 1] \in White
  <2>1. i + n \in Nat /\ (i + n < N => n < N)
    BY <1>5, <1>6
  <2> QED
    BY <1>4, <1>6, <2>1
<1>12. Word(t, i, n)
  BY <1>1, <1>5, <1>6, <1>7, <1>8, <1>9, <1>10, <1>11 DEF Word
<1>13. i = Blanks(t, 0) /\ n = Span(no, i, Len(t))
  BY <1>1, <1>2, <1>5, <1>6 DEF Blanks
<1> QED
  BY <1>3, <1>12, <1>13

(* FirstWord is that word.                                                 *)
LEMMA WordIs ==
  ASSUME NEW S, NEW t \in Seq(S), NEW i, NEW n, Word(t, i, n)
  PROVE  FirstWord(t) = SubSeq(t, i + 1, i + n)
<1>1. PICK N \in Nat : N = Len(t) /\ DOMAIN t = 1 .. N
  OBVIOUS
<1>2. i \in 0 .. N /\ n \in 0 .. N /\ i + n <= N
  BY <1>1 DEF Word
<1> DEFINE First(k) == (\A j \in 1 .. k - 1 : t[j] \in White) /\ (k \in DOMAIN t => t[k] \notin White)
<1> DEFINE Final(f, k) == (\A j \in f .. k : t[j] \notin White) /\ (k + 1 \in DOMAIN t => t[k + 1] \in White)
<1>3. i + 1 \in 1 .. N + 1 /\ First(i + 1)
  <2>1. (i + 1) - 1 = i /\ i + 1 \in 1 .. N + 1 /\ (i + 1 \in 1 .. N => i < N)
    BY <1>2
  <2> QED
    BY <1>1, <2>1 DEF Word
<1>4. ASSUME NEW k \in 1 .. N + 1, First(k) PROVE k = i + 1
  <2>1. ~(k < i + 1)
    <3>1. k < i + 1 => k \in 1 .. i /\ k \in 1 .. N
      BY <1>2
    <3> QED
      BY <1>1, <1>4, <3>1 DEF Word
  <2>2. ~(k > i + 1)
    <3>1. k > i + 1 => i + 1 \in 1 .. k - 1 /\ i < N
      BY <1>2
    <3> QED
      BY <1>1, <1>4, <3>1 DEF Word
  <2> QED
    BY <1>2, <2>1, <2>2
<1>5. PICK f : f = CHOOSE k \in 1 .. N + 1 : First(k)
  OBVIOUS
<1>6. f = i + 1
  <2>1. f \in 1 .. N + 1 /\ First(f)
    BY <1>3, <1>5
  <2> HIDE DEF First
  <2> QED
    BY <1>4, <2>1
<1>7. i + n \in f - 1 .. N /\ Final(f, i + n)
  <2>1. f - 1 = i /\ i + n \in i .. N /\ ((i + n) + 1 \in 1 .. N => i + n < N)
    BY <1>2, <1>6
  <2> QED
    BY <1>1, <1>6, <2>1 DEF Word
<1>8. ASSUME NEW k \in f - 1 .. N, Final(f, k) PROVE k = i + n
  <2>0. k \in i .. N /\ k \in Nat
    BY <1>2, <1>6
  <2>1. ~(k < i + n)
    <3>1. k < i + n => k + 1 \in i + 1 .. i + n /\ k + 1 \in 1 .. N
      BY <1>2, <2>0
    <3> QED
      BY <1>1, <1>8, <3>1 DEF Word
  <2>2. ~(k > i + n)
    <3>1. k > i + n => i + n + 1 \in f .. k /\ i + n < N
      BY <1>2, <1>6, <2>0
    <3> QED
      BY <1>1, <1>8, <3>1 DEF Word
  <2> QED
    BY <1>2, <2>0, <2>1, <2>2
<1>9. PICK e : e = CHOOSE k \in f - 1 .. N : Final(f, k)
  OBVIOUS
<1>10. e = i + n
  <2>1. e \in f - 1 .. N /\ Final(f, e)
    BY <1>7, <1>9
  <2> HIDE DEF Final
  <2> QED
    BY <1>8, <2>1
<1>11. FirstWord(t) = SubSeq(t, f, e)
  BY <1>1, <1>5, <1>9 DEF FirstWord
<1> QED
  BY <1>6, <1>10, <1>11

(* What scanf stores for "%s" and "%d".                                    *)
Result(end, text) ==
  IF end = "number" THEN FirstNumber(text)
  ELSE IF FirstWord(text) = <<>> THEN <<>> ELSE <<Append(FirstWord(text), "NUL")>>

(* A format of one item.                                                   *)
LEMMA OneItem ==
  ASSUME NEW in, NEW d
  PROVE  FoldLeft(LAMBDA r, e : Item(r, e, in), Begin, <<d>>) = Item(Begin, d, in)
<1>1. DOMAIN <<d>> = {1} /\ Max({1}) = 1
  <2>1. {1} \subseteq 1 .. 1 /\ 1 \in Nat
    OBVIOUS
  <2>2. DOMAIN <<d>> = {1}
    OBVIOUS
  <2> QED
    BY <2>1, <2>2, MaxLast
<1>2. PICK h : h = CHOOSE k : k = [e \in SUBSET (DOMAIN <<d>>) |->
                       IF e = {} THEN Begin ELSE Item(k[e \ {Max(e)}], <<d>>[Max(e)], in)]
  OBVIOUS
<1>3. PICK g : g = [e \in SUBSET {1} |-> IF e = {} THEN Begin ELSE Item(Begin, d, in)]
  OBVIOUS
<1>4. g = [e \in SUBSET (DOMAIN <<d>>) |->
             IF e = {} THEN Begin ELSE Item(g[e \ {Max(e)}], <<d>>[Max(e)], in)]
  <2>1. g[{}] = Begin
    BY <1>3
  <2>2. ASSUME NEW e \in SUBSET {1}, e # {}
        PROVE  Item(g[e \ {Max(e)}], <<d>>[Max(e)], in) = Item(Begin, d, in)
    <3>1. e = {1} /\ e \ {1} = {}
      BY <2>2
    <3> HIDE DEF Item, Begin
    <3> QED
      BY <1>1, <2>1, <3>1
  <2> HIDE DEF Item, Begin
  <2> QED
    BY <1>1, <1>3, <2>2
<1>5. h = [e \in SUBSET (DOMAIN <<d>>) |->
             IF e = {} THEN Begin ELSE Item(h[e \ {Max(e)}], <<d>>[Max(e)], in)]
  BY <1>2, <1>4
<1>6. h[{1}] = Item(h[{}], d, in) /\ h[{}] = Begin
  <2> HIDE DEF Item, Begin
  <2>1. h[{}] = Begin
    BY <1>1, <1>5
  <2>2. {1} \in SUBSET (DOMAIN <<d>>) /\ {1} # {} /\ {1} \ {1} = {}
    BY <1>1
  <2>3. h[{1}] = Item(h[{1} \ {Max({1})}], <<d>>[Max({1})], in)
    BY <1>5, <2>2
  <2> QED
    BY <1>1, <2>1, <2>2, <2>3
<1>7. FoldLeft(LAMBDA r, e : Item(r, e, in), Begin, <<d>>) = h[DOMAIN <<d>>]
  BY <1>2 DEF FoldLeft, MapThenFoldSet
<1> QED
  BY <1>1, <1>6, <1>7

(* "%s" stores the first word.                                             *)
LEMMA WordOut ==
  ASSUME NEW S, EOF \notin S, NEW t \in Seq(S)
  PROVE  _doscan(t, <<Scanning("s")>>).out = Result("word", t)
<1>1. PICK N \in Nat : N = Len(t)
  OBVIOUS
<1>2. PICK i : i = Blanks(t, 0)
  OBVIOUS
<1>3. PICK n : n = Span({j \in Places(t) : ~IsSpace(CharAt(t, j))}, i, N)
  OBVIOUS
<1>4. Word(t, i, n)
  BY <1>1, <1>2, <1>3, WordFacts
<1>5. i \in 0 .. N /\ n \in 0 .. N /\ i + n <= N /\ (n = 0 <=> i = N)
  <2>1. i \in 0 .. N /\ n \in 0 .. N /\ i + n <= N
    BY <1>1, <1>4 DEF Word
  <2>2. CASE n = 0 /\ i < N
    <3>1. t[i + 1] \notin White /\ i + n = i /\ t[i + n + 1] \in White
      BY <1>1, <1>4, <2>1, <2>2 DEF Word
    <3> QED
      BY <3>1
  <2> QED
    BY <2>1, <2>2
<1>6. PICK w : w = SubSeq(t, i + 1, i + n)
  OBVIOUS
<1>7. w \in Seq(S) /\ Len(w) = n /\ w = FirstWord(t)
  <2>1. i \in Nat /\ n \in Nat
    BY <1>5
  <2>2. w \in Seq(S) /\ Len(w) = n
    BY <1>1, <1>5, <1>6, <2>1, PartFacts
  <2>3. w = FirstWord(t)
    BY <1>4, <1>6, WordIs
  <2> QED
    BY <2>2, <2>3
<1>8. w = <<>> <=> n = 0
  BY <1>7
<1>9. PICK d : d = Scanning("s")
  OBVIOUS
<1>10. d.conv = "s" /\ d.noassign = FALSE /\ d.width = -1
  BY <1>9 DEF Scanning
<1>11. PICK o : o = Item(Begin, d, t)
  OBVIOUS
<1>12. o.out = IF n = 0 THEN <<>> ELSE <<w \o <<"NUL">>>>
  <2>1. Field(t, 0, "s") = i /\ Begin.at = 0 /\ Begin.ret = <<>> /\ Begin.out = <<>>
    BY <1>2, <1>5 DEF Field, Begin
  <2>2. PICK b : b = [Begin EXCEPT !.ic = CharAt(t, i)]
    OBVIOUS
  <2>3. b.ic = CharAt(t, i) /\ b.out = <<>>
    BY <2>2 DEF Begin
  <2>4. "s" \notin DOMAIN Base
    BY DEF Base
  <2>5. o = IF CharAt(t, i) = EOF THEN Break(b) ELSE Textual(b, d, t, i)
    <3> HIDE DEF Begin, CharAt, EOF, Break, Textual, Field
    <3> QED
      BY <1>10, <1>11, <2>1, <2>2, <2>3, <2>4 DEF Item
  <2>6. CharAt(t, i) = EOF <=> i = N
    <3>1. i \in Nat /\ i <= N
      BY <1>5
    <3> QED
      BY <1>1, <3>1, CharFacts
  <2>7. CASE i = N
    <3>1. o.out = b.out
      BY <2>2, <2>5, <2>6, <2>7 DEF Break, Begin
    <3> QED
      BY <1>5, <2>3, <2>7, <3>1
  <2>8. CASE i # N
    <3>1. Textual(b, d, t, i) = Assign(b, d, i, n, w \o <<"NUL">>)
      BY <1>1, <1>3, <1>5, <1>6, <1>10, <2>8 DEF Textual
    <3>2. Assign(b, d, i, n, w \o <<"NUL">>).out = Append(b.out, w \o <<"NUL">>)
      BY <1>10, <2>2 DEF Assign, Begin
    <3>3. PICK e : e = w \o <<"NUL">>
      OBVIOUS
    <3>4. Append(b.out, e) = <<e>>
      BY <2>3
    <3>5. o.out = Append(b.out, e) /\ n # 0
      BY <1>5, <2>5, <2>6, <2>8, <3>1, <3>2, <3>3
    <3> QED
      BY <3>3, <3>4, <3>5
  <2> QED
    BY <2>7, <2>8
<1>13. _doscan(t, <<d>>).out = o.out
  <2>1. PICK z : z = FoldLeft(LAMBDA r, e : Item(r, e, t), Begin, <<d>>)
    OBVIOUS
  <2>2. z = o
    BY <1>11, <2>1, OneItem
  <2>3. <<d>> # <<>>
    OBVIOUS
  <2>4. _doscan(t, <<d>>) = IF z.ret = <<>> THEN Break(z) ELSE z
    BY <2>1, <2>3 DEF _doscan
  <2>5. Break(z).out = z.out
    BY DEF Break
  <2> QED
    BY <2>2, <2>4, <2>5
<1>14. Append(w, "NUL") = w \o <<"NUL">>
  BY <1>7
<1> QED
  BY <1>7, <1>8, <1>9, <1>12, <1>13, <1>14 DEF Result

(* "%d": the sign and the digits o_collect reads at place i, and why it    *)
(* stops there.                                                            *)
Decimal(t, i, s, len) ==
  /\ s \in {0, 1} /\ len \in Nat /\ s <= len /\ i + len <= Len(t)
  /\ i < Len(t) => (s = 1 <=> t[i + 1] \in Signs)
  /\ \A j \in s + 1 .. len : Collects(t[i + j], 10)
  /\ i + len < Len(t) => ~Collects(t[i + len + 1], 10)

(* So it does: the width is more than any line has.                        *)
LEMMA DecimalFacts ==
  ASSUME NEW S, EOF \notin S, NEW t \in Seq(S), NEW i \in Nat, i <= Len(t), Len(t) < NUMLEN
  PROVE  \E s, len : /\ Decimal(t, i, s, len)
                     /\ o_collect(t, i, "d", NUMLEN) = [len |-> len, base |-> 10]
<1>1. PICK N \in Nat, W \in Nat : N = Len(t) /\ W = NUMLEN /\ i <= N /\ N < W
  BY ScanAssumption
<1>2. PICK s \in {0, 1} : /\ s = SignLen(t, i) /\ (s = 1 => i < N)
                          /\ i < N => (s = 1 <=> t[i + 1] \in Signs)
  <2>1. CASE i < N
    <3>1. CharAt(t, i) = t[i + 1]
      BY <1>1, <2>1, CharFacts
    <3> QED
      BY <1>1, <2>1, <3>1 DEF SignLen
  <2>2. CASE ~(i < N)
    <3>1. CharAt(t, i) = EOF
      BY <1>1, <2>2, CharFacts
    <3> QED
      BY <1>1, <2>2, <3>1 DEF SignLen, Signs, EOF
  <2> QED
    BY <2>1, <2>2
<1>3. PICK f \in Nat, v \in Nat : f = i + s /\ v = W - s /\ f <= N
  <2>1. i + s \in Nat /\ W - s \in Nat /\ i + s <= N
    BY <1>1, <1>2
  <2> QED
    BY <2>1
<1>4. PICK ok : ok = {j \in Places(t) : Collects(CharAt(t, j), 10)}
  OBVIOUS
<1>5. PICK n \in 0 .. v : /\ n = Span(ok, f, v) /\ f .. f + n - 1 \subseteq ok
                          /\ n < v => f + n \notin ok
  BY SpanFacts
<1>5a. n \in Nat /\ n <= v /\ s \in Nat /\ s <= 1 /\ f = i + s /\ v = W - s
  BY <1>2, <1>3, <1>5
<1>6. ASSUME NEW j \in Nat PROVE j \in ok <=> j < N /\ Collects(t[j + 1], 10)
  BY <1>1, <1>4, CharFacts DEF Places
<1>7. f + n <= N
  <2>1. CASE n = 0
    BY <1>3, <2>1
  <2>2. CASE n > 0
    <3>1. f + n - 1 \in f .. f + n - 1 /\ f + n - 1 \in Nat
      BY <1>3, <1>5, <2>2
    <3>2. f + n - 1 < N
      BY <1>5, <1>6, <3>1
    <3> QED
      BY <1>1, <1>3, <1>5, <3>2
  <2> QED
    BY <1>5, <2>1, <2>2
<1>8. PICK len \in Nat : len = s + n /\ i + len = f + n
  <2>1. s + n \in Nat /\ i + (s + n) = f + n
    BY <1>5a
  <2> QED
    BY <2>1
<1>9. ASSUME NEW j \in s + 1 .. len PROVE Collects(t[i + j], 10)
  <2>1. PICK k \in Nat : i + j = k + 1 /\ k \in f .. f + n - 1
    <3>1. (i + j) - 1 \in Nat /\ i + j = ((i + j) - 1) + 1 /\ (i + j) - 1 \in f .. f + n - 1
      BY <1>5a, <1>8
    <3> QED
      BY <3>1
  <2> QED
    BY <1>5, <1>6, <2>1
<1>10. i + len < N => ~Collects(t[i + len + 1], 10)
  <2>1. n < v /\ i + len \in Nat
    BY <1>1, <1>5a, <1>7, <1>8
  <2> QED
    BY <1>5, <1>6, <1>8, <2>1
<1>11. Decimal(t, i, s, len)
  BY <1>1, <1>2, <1>5, <1>7, <1>8, <1>9, <1>10 DEF Decimal
<1>12. o_collect(t, i, "d", NUMLEN) = [len |-> len, base |-> 10]
  <2>1. Base["d"] = 10 /\ s + 0 = s
    BY <1>2 DEF Base
  <2> HIDE DEF SignLen, Places, Collects, Span, Base
  <2> QED
    BY <1>1, <1>2, <1>3, <1>4, <1>5, <1>8, <2>1 DEF o_collect
<1> QED
  BY <1>11, <1>12

(* A text of one character, or none.                                       *)
LEMMA FewCharacters ==
  ASSUME NEW S, NEW u \in Seq(S)
  PROVE  (Len(u) = 1 => u = <<u[1]>>) /\ (Len(u) = 0 => u = <<>>)
OBVIOUS

(* strtol converts all of it.                                              *)
LEMMA DecimalValue ==
  ASSUME NEW S, EOF \notin S, NEW u \in Seq(S), Figured(u, SignLen(u, 0), 10), IsNumber(u)
  PROVE  string2long(u, 10, TRUE).val = Nearest(TRUE, u[1] = "-", Value(u, 10))
<1>1. PICK len \in Nat, s \in {0, 1} : /\ len = Len(u) /\ s = SignLen(u, 0) /\ s <= len
                                       /\ s = 1 <=> (len > 0 /\ u[1] \in Signs)
  BY SignFacts
<1>2. s < len
  <2>1. s = 1 /\ len = 1 => u[1] \in Signs
    BY <1>1
  <2>2. (Len(u) = 1 => u = <<u[1]>>) /\ (Len(u) = 0 => u = <<>>)
    BY FewCharacters
  <2>3. (len = 1 => u = <<u[1]>>) /\ (len = 0 => u = <<>>)
    BY <1>1, <2>2
  <2>4. ~(s = 1 /\ len = 1) /\ len # 0
    BY <2>1, <2>3 DEF IsNumber
  <2> QED
    BY <1>1, <2>4
<1>3. Numeral(u, 0, 10)
  <2>1. s + 0 = s
    BY <1>1
  <2> QED
    BY <1>1, <1>2, <2>1 DEF Numeral, Figured
<1>4. Agrees(u, 10, 0, 10) /\ 10 \in Bases
  BY DEF Agrees, Bases
<1>5. PICK sg \in BOOLEAN : sg = TRUE
  OBVIOUS
<1> HIDE DEF string2long, Nearest, Numeral, Agrees, Bases, Value, Figured, IsNumber
<1>6. string2long(u, 10, sg).val = Nearest(sg, u[1] = "-", Value(u, 10))
  BY <1>3, <1>4, Converts
<1> QED
  BY <1>5, <1>6

(* "%d" stores the number the first word begins with, if there is one.     *)
LEMMA NumberOut ==
  ASSUME NEW S, EOF \notin S, NEW t \in Seq(S), Len(t) < NUMLEN,
         NEW i, i = Field(t, 0, "d"), NEW c, c = Collected(t),
         NEW u, u = SubSeq(t, i + 1, i + c.len)
  PROVE  Result("number", t) = IF CharAt(t, i) # EOF /\ IsNumber(u)
                               THEN <<Stored(u, c.base, Scanning("d"))>> ELSE <<>>
<1>1. PICK N \in Nat : N = Len(t)
  OBVIOUS
<1>2. PICK m : m = Span({j \in Places(t) : ~IsSpace(CharAt(t, j))}, i, N)
  OBVIOUS
<1>3. Word(t, i, m)
  <2>1. Blanks(t, 0) \in Nat
    <3>1. PICK ok : ok = {j \in Places(t) : IsSpace(CharAt(t, j))}
      OBVIOUS
    <3>2. Span(ok, 0, N) \in 0 .. N
      BY SpanFacts
    <3> QED
      BY <1>1, <3>1, <3>2 DEF Blanks
  <2>2. i = Blanks(t, 0)
    BY <2>1 DEF Field
  <2> QED
    BY <1>1, <1>2, <2>2, WordFacts
<1>4. i \in Nat /\ m \in Nat /\ i <= N /\ i + m <= N
  BY <1>1, <1>3 DEF Word
<1>5. PICK s, len : Decimal(t, i, s, len) /\ c = [len |-> len, base |-> 10]
  <2>1. c = o_collect(t, i, "d", NUMLEN)
    BY DEF Collected
  <2> QED
    BY <1>1, <1>4, <2>1, DecimalFacts
<1>6. /\ s \in {0, 1} /\ len \in Nat /\ s <= len /\ i + len <= N
      /\ i < N => (s = 1 <=> t[i + 1] \in Signs)
      /\ \A j \in s + 1 .. len : Collects(t[i + j], 10)
      /\ i + len < N => ~Collects(t[i + len + 1], 10)
  BY <1>1, <1>5 DEF Decimal
<1>7. PICK w : w = SubSeq(t, i + 1, i + m)
  OBVIOUS
<1>8. w = FirstWord(t)
  BY <1>3, <1>7, WordIs
<1>9. w \in Seq(S) /\ Len(w) = m /\ \A j \in 1 .. m : w[j] = t[i + j]
  <2>1. Part(w, t, i, m, S)
    BY <1>1, <1>4, <1>7, PartIs
  <2> QED
    BY <2>1 DEF Part
<1>10. u \in Seq(S) /\ Len(u) = len /\ \A j \in 1 .. len : u[j] = t[i + j]
  <2>1. u = SubSeq(t, i + 1, i + len)
    <3>1. c.len = len
      BY <1>5
    <3> QED
      BY <3>1
  <2>2. i + len <= Len(t) /\ i \in Nat /\ len \in Nat
    BY <1>1, <1>4, <1>6
  <2>3. PICK x : x = SubSeq(t, i + 1, i + len)
    OBVIOUS
  <2>4. x \in Seq(S) /\ Len(x) = len /\ \A j \in 1 .. len : x[j] = t[i + j]
    <3>1. Part(x, t, i, len, S)
      BY <2>2, <2>3, PartIs
    <3> QED
      BY <3>1 DEF Part
  <2> QED
    BY <2>1, <2>3, <2>4
<1>11. len <= m
  <2>1. SUFFICES ASSUME len > m PROVE FALSE
    BY <1>4, <1>6
  <2>2. i + m < N /\ m + 1 \in 1 .. len /\ i < N
    BY <1>4, <1>6, <2>1
  <2>3. t[i + m + 1] \in White
    BY <1>1, <1>3, <2>2 DEF Word
  <2>4. CASE m + 1 > s
    <3>1. m + 1 \in s + 1 .. len /\ i + (m + 1) = i + m + 1
      BY <1>4, <1>6, <2>2, <2>4
    <3>2. Collects(t[i + m + 1], 10)
      BY <1>6, <3>1
    <3>3. 10 \in 1 .. 16
      OBVIOUS
    <3> QED
      BY <2>3, <3>2, <3>3, DigitFacts
  <2>5. CASE m + 1 <= s
    <3>1. m = 0 /\ s = 1 /\ i + m + 1 = i + 1
      BY <1>4, <1>6, <2>5
    <3> QED
      BY <1>6, <2>2, <2>3, <3>1 DEF Signs, White
  <2> QED
    BY <1>4, <1>6, <2>4, <2>5
<1>12. ASSUME NEW k \in 1 .. m PROVE Begins(SubSeq(w, 1, k), "d") <=> k <= len
  <2>1. PICK b : b = SubSeq(w, 1, k)
    OBVIOUS
  <2>2. b \in Seq(S) /\ Len(b) = k /\ \A j \in 1 .. k : b[j] = t[i + j]
    <3>1. k \in 0 .. Len(w)
      BY <1>4, <1>9
    <3>2. \A j \in 1 .. k : j \in 1 .. m
      BY <1>4
    <3> QED
      BY <1>9, <2>1, <3>1, <3>2, HeadFacts
  <2>3. SignLen(b, 0) = s
    <3>1. PICK z \in {0, 1} : z = SignLen(b, 0) /\ (z = 1 <=> k > 0 /\ b[1] \in Signs)
      BY <2>2, SignFacts
    <3>2. k > 0 /\ 1 \in 1 .. k /\ i < N
      BY <1>4
    <3> QED
      BY <1>6, <2>2, <3>1, <3>2
  <2>4. NumeralBase(b, "d") = 10 /\ 10 \in Bases /\ HexLen(b, 10) = 0
    BY DEF NumeralBase, Base, Bases, HexLen
  <2>5. Begins(b, "d") <=> Figured(b, s + 0, 10)
    BY <2>2, <2>3, <2>4, BeginsIs
  <2>6. Figured(b, s + 0, 10) <=> \A j \in s + 1 .. k : Collects(t[i + j], 10)
    <3>1. s + 0 = s /\ \A j \in s + 1 .. k : j \in 1 .. k
      BY <1>6
    <3> QED
      BY <2>2, <3>1 DEF Figured
  <2>7. CASE k <= len
    <3>1. \A j \in s + 1 .. k : j \in s + 1 .. len
      BY <1>6, <2>7
    <3> QED
      BY <1>6, <2>1, <2>5, <2>6, <2>7, <3>1
  <2>8. CASE k > len
    <3>1. len + 1 \in s + 1 .. k /\ i + len < N /\ i + (len + 1) = i + len + 1
      BY <1>4, <1>6, <2>8
    <3>2. ~Collects(t[i + (len + 1)], 10)
      BY <1>6, <3>1
    <3>3. ~(k <= len)
      BY <1>6, <2>8
    <3> QED
      BY <2>1, <2>5, <2>6, <3>1, <3>2, <3>3
  <2> QED
    BY <1>6, <2>7, <2>8
<1>13. PICK ns : ns = {n \in 1 .. Len(w) : Begins(SubSeq(w, 1, n), "d")}
  OBVIOUS
<1>14. ns = 1 .. len
  <2>1. \A n \in 1 .. len : n \in 1 .. m
    BY <1>4, <1>6, <1>11
  <2>2. \A n \in 1 .. m : n <= len => n \in 1 .. len
    BY <1>4, <1>6
  <2>3. \A n \in 1 .. len : n <= len
    OBVIOUS
  <2> QED
    BY <1>9, <1>12, <1>13, <2>1, <2>2, <2>3
<1>15. PICK g : g = SubSeq(w, 1, CHOOSE k \in ns : \A l \in ns : l <= k)
  OBVIOUS
<1>16. FirstNumber(t) = IF ns = {} \/ ~IsNumber(g) THEN <<>> ELSE <<Nearest(TRUE, g[1] = "-", Value(g, 10))>>
  <2>1. PICK v : v = Value(g, 10)
    OBVIOUS
  <2>2. FirstNumber(t) =
          IF ns = {} \/ ~IsNumber(g) THEN <<>>
          ELSE <<Clamp(IF g[1] = "-" THEN -v ELSE v, -Half, Half - 1) % WordMod>>
    <3> HIDE DEF FirstWord, Begins, IsNumber, Value, Clamp
    <3> QED
      BY <1>8, <1>13, <1>15, <2>1 DEF FirstNumber
  <2>3. Nearest(TRUE, g[1] = "-", v) = Clamp(IF g[1] = "-" THEN -v ELSE v, -Half, Half - 1) % WordMod
    BY DEF Nearest
  <2> HIDE DEF Nearest, IsNumber, Clamp
  <2> QED
    BY <2>1, <2>2, <2>3
<1>17. CASE len = 0
  <2>1. ns = {}
    BY <1>14, <1>17
  <2>2. u = <<>>
    BY <1>10, <1>17
  <2>3. ~IsNumber(u)
    BY <2>2 DEF IsNumber
  <2> QED
    BY <1>16, <2>1, <2>3 DEF Result
<1>18. CASE len # 0
  <2>1. g = u
    <3>1. len \in ns /\ \A l \in ns : l <= len
      BY <1>6, <1>14, <1>18
    <3>2. PICK k : k = CHOOSE k1 \in ns : \A l \in ns : l <= k1
      OBVIOUS
    <3>3. k \in ns /\ \A l \in ns : l <= k
      BY <3>1, <3>2
    <3>4. k = len
      <4>1. k <= len /\ len <= k /\ k \in Nat
        BY <1>14, <3>1, <3>3
      <4> QED
        BY <1>6, <4>1
    <3>5. g = SubSeq(w, 1, len)
      BY <1>15, <3>2, <3>4
    <3>6. g \in Seq(S) /\ Len(g) = len /\ \A j \in 1 .. len : g[j] = u[j]
      <4>1. len \in 0 .. Len(w) /\ \A j \in 1 .. len : j \in 1 .. m
        BY <1>4, <1>6, <1>9, <1>11
      <4>2. g \in Seq(S) /\ Len(g) = len /\ \A j \in 1 .. len : g[j] = w[j]
        BY <1>9, <3>5, <4>1, HeadFacts
      <4> QED
        BY <1>9, <1>10, <4>1, <4>2
    <3>7. g = [j \in 1 .. Len(g) |-> g[j]] /\ u = [j \in 1 .. Len(u) |-> u[j]]
      BY <1>10, <3>6
    <3> QED
      BY <1>10, <3>6, <3>7
  <2>2. ns # {}
    <3>1. len \in 1 .. len
      BY <1>6, <1>18
    <3> QED
      BY <1>14, <3>1
  <2>3. CharAt(t, i) # EOF
    <3>1. i < N
      BY <1>4, <1>6, <1>18
    <3> QED
      BY <1>1, <1>4, <3>1, CharFacts
  <2>4. ASSUME IsNumber(u) PROVE Stored(u, c.base, Scanning("d")) = Nearest(TRUE, u[1] = "-", Value(u, 10))
    <3>1. SignLen(u, 0) = s
      <4>1. PICK z \in {0, 1} : z = SignLen(u, 0) /\ (z = 1 <=> len > 0 /\ u[1] \in Signs)
        BY <1>10, SignFacts
      <4>2. len > 0 /\ 1 \in 1 .. len /\ i < N
        BY <1>4, <1>6, <1>18
      <4> QED
        BY <1>6, <1>10, <4>1, <4>2
    <3>2. Figured(u, SignLen(u, 0), 10)
      <4>1. \A j \in s + 1 .. len : j \in 1 .. len
        BY <1>6
      <4>2. \A j \in s + 1 .. len : Collects(u[j], 10)
        BY <1>6, <1>10, <4>1
      <4> QED
        BY <1>10, <3>1, <4>2 DEF Figured
    <3>5. string2long(u, 10, TRUE).val = Nearest(TRUE, u[1] = "-", Value(u, 10))
      <4>1. u \in Seq(S)
        BY <1>10
      <4> HIDE DEF string2long, Nearest
      <4> QED
        BY <2>4, <3>2, <4>1, DecimalValue
    <3>6. c.base = 10 /\ Scanning("d").size = "" /\ Scanning("d").conv = "d"
      BY <1>5 DEF Scanning
    <3>7. ("d" \in {"d", "i"}) = TRUE /\ "" # "h"
      OBVIOUS
    <3> HIDE DEF Scanning, string2long, Nearest
    <3> QED
      BY <3>5, <3>6, <3>7 DEF Stored
  <2> HIDE DEF Nearest, Stored, IsNumber
  <2> QED
    BY <1>16, <2>1, <2>2, <2>3, <2>4 DEF Result
<1> QED
  BY <1>17, <1>18

-----------------------------------------------------------------------------
(* strlen of the line: it ends inside temp, and if anything was typed, at  *)
(* the first '\0' typed or at p.                                           *)
LEMMA LengthFacts ==
  ASSUME Typed, Filled, ~wild
  PROVE  /\ Length \in 0 .. MAX_LENGTH - 1
         /\ p > 0 => Length <= p /\ Plain(Length) /\ (Length = p \/ Cut(Length))
<1>k. MAX_LENGTH \in Nat \ {0} /\ Index = 0 .. MAX_LENGTH - 1 /\ reset \in Nat
  BY ConsoleAssumption DEF Index, Typed
<1>0. PICK q : q = p
  OBVIOUS
<1>1. q = p /\ q \in 0 .. MAX_LENGTH - 1
  <2>1. q \in 0 .. MAX_LENGTH /\ q # MAX_LENGTH
    BY <1>0 DEF Filled
  <2> QED
    BY <1>0, <1>k, <2>1
<1>2. PICK z \in 0 .. MAX_LENGTH - 1 : temp[z] = 0 /\ \A i \in 0 .. MAX_LENGTH - 1 : temp[i] = 0 => z <= i
  <2> DEFINE Z == {i \in 0 .. MAX_LENGTH - 1 : temp[i] = 0}
  <2>1. Z \subseteq Nat /\ Z # {}
    <3>1. PICK i \in p .. MAX_LENGTH - 1 : temp[i] = 0
      BY DEF Filled
    <3>2. i \in 0 .. MAX_LENGTH - 1
      BY <1>1, <1>k, <3>1
    <3> QED
      BY <3>1, <3>2
  <2>2. PICK z \in Z : \A i \in Z : z <= i
    BY <2>1, Smallest
  <2> QED
    BY <2>2
<1>3. /\ Length \in 0 .. MAX_LENGTH /\ \A i \in 0 .. Length - 1 : temp[i] # 0
      /\ Length \in Index => temp[Length] = 0
  <2>1. /\ z \in 0 .. MAX_LENGTH /\ \A i \in 0 .. z - 1 : temp[i] # 0
        /\ z \in Index => temp[z] = 0
    <3>1. \A i \in 0 .. z - 1 : i \in 0 .. MAX_LENGTH - 1 /\ ~(z <= i)
      BY <1>k
    <3> QED
      BY <1>2, <1>k, <3>1
  <2> QED
    BY <2>1 DEF Length
<1>4. PICK n \in 0 .. MAX_LENGTH : n = Length
  BY <1>3
<1>5. n # MAX_LENGTH
  BY <1>2, <1>3, <1>4
<1>6. ASSUME p > 0 PROVE n <= p /\ Plain(n) /\ (n = p \/ Cut(n))
  <2>1. temp[q] = 0 /\ q \in 1 .. MAX_LENGTH - 1
    BY <1>1, <1>6, <1>k DEF Filled
  <2>2. n <= q
    <3>1. ~(q < n)
      BY <1>3, <1>4, <2>1
    <3> QED
      BY <1>1, <3>1
  <2>3. Plain(n)
    <3> SUFFICES ASSUME NEW k \in 1 .. n PROVE typed[reset + k] # "NUL"
      BY DEF Plain
    <3>1. k - 1 \in 0 .. p - 1 /\ k - 1 \in 0 .. n - 1 /\ reset + (k - 1) + 1 = reset + k
      BY <1>1, <1>k, <2>2
    <3>2. temp[k - 1] = Byte(typed[reset + k], reset + k)
      BY <3>1 DEF Filled
    <3> QED
      BY <1>3, <1>4, <3>1, <3>2 DEF Byte
  <2>4. ASSUME n # p PROVE Cut(n)
    <3>1. n \in 0 .. p - 1 /\ n \in Index
      BY <1>1, <1>k, <2>2, <2>4
    <3>2. temp[n] = Byte(typed[reset + n + 1], reset + n + 1)
      BY <3>1 DEF Filled
    <3>3. typed[reset + n + 1] = "NUL"
      BY <1>3, <1>4, <1>k, <3>1, <3>2 DEF Byte
    <3> QED
      BY <1>1, <3>1, <3>3 DEF Cut
  <2> QED
    BY <1>1, <2>2, <2>3, <2>4
<1> QED
  BY <1>4, <1>5, <1>6, <1>k

(* o_collect does not read past the end of the line.                       *)
LEMMA CollectFacts ==
  ASSUME NEW in, Len(in) \in Nat, NEW i \in Nat, i < Len(in)
  PROVE  LET n == o_collect(in, i, "d", NUMLEN).len IN n \in Nat /\ i + n <= Len(in)
<1>k. NUMLEN \in Nat \ {0}
  BY ScanAssumption
<1>1. PICK s : s = SignLen(in, i) /\ s \in {0, 1}
  BY DEF SignLen
<1>2. PICK ok : ok = {j \in Places(in) : Collects(CharAt(in, j), Base["d"])}
  OBVIOUS
<1>3. o_collect(in, i, "d", NUMLEN).len = s + 0 + Span(ok, i + (s + 0), NUMLEN - (s + 0))
  BY <1>1, <1>2 DEF o_collect
<1>4. s + 0 = s /\ i + s \in Nat /\ NUMLEN - s \in Nat
  BY <1>1, <1>k
<1>5. PICK n \in Nat : n = Span(ok, i + s, NUMLEN - s) /\ i + s .. i + s + n - 1 \subseteq ok
  <2>1. PICK j \in Nat, w \in Nat : j = i + s /\ w = NUMLEN - s
    BY <1>4
  <2>2. PICK n : n = Span(ok, j, w)
    OBVIOUS
  <2>3. n \in 0 .. w /\ j .. j + n - 1 \subseteq ok
    BY <2>2, SpanFacts
  <2> QED
    BY <2>1, <2>2, <2>3
<1>6. i + s + n <= Len(in)
  <2>1. CASE n = 0
    BY <1>1, <2>1
  <2>2. CASE n # 0
    <3>1. i + s + n - 1 \in i + s .. i + s + n - 1
      BY <1>4, <2>2
    <3>2. i + s + n - 1 \in 0 .. Len(in) - 1
      BY <1>2, <1>5, <3>1 DEF Places
    <3> QED
      BY <1>4, <3>2
  <2> QED
    BY <2>1, <2>2
<1> QED
  BY <1>1, <1>3, <1>4, <1>5, <1>6

(* "%d" of a line: what goes to inp_buf is a part of the line.             *)
LEMMA FieldFacts ==
  ASSUME NEW in, Len(in) \in Nat
  PROVE  Field(in, 0, "d") \in Nat
<1>1. PICK n : n = Blanks(in, 0)
  OBVIOUS
<1>2. n \in 0 .. Len(in)
  BY <1>1, SpanFacts DEF Blanks
<1>3. Field(in, 0, "d") = 0 + n
  BY <1>1 DEF Field
<1> QED
  BY <1>2, <1>3

-----------------------------------------------------------------------------
(* What the steps keep.                                                    *)
USE DEF At, Goto, buffer, reader

(* IRQ1 puts a character behind the others.                                *)
LEMMA Keeps_put ==
  ASSUME IInv, NEW c \in Chars, put_buffer(c)
  PROVE  IInv'
<1>k. /\ MAX_LENGTH \in Nat \ {0} /\ Index = 0 .. MAX_LENGTH - 1 /\ reset \in Nat
      /\ typed \in Seq(Chars) /\ temp \in [Index -> Nat] /\ Len(typed) \in Nat
  BY ConsoleAssumption DEF Index, IInv, Typed
<1>s. /\ ~wild /\ typed' = Append(typed, c)
      /\ temp' = Store(Store(temp, p, Byte(c, Len(typed'))), p + 1, 0)
      /\ p' = p + 1 /\ (wild' <=> p + 1 \notin Index) /\ wild' \in BOOLEAN
      /\ reset' = reset /\ inp' = inp /\ pc' = pc /\ count' = count /\ crossed' = crossed
  BY Zenon DEF put_buffer, Advance, Misses
<1>0. PICK q : q = p
  OBVIOUS
<1>1. q \in 0 .. MAX_LENGTH - 1 /\ q = Len(typed) - reset
  <2>1. q \in 0 .. MAX_LENGTH /\ q # MAX_LENGTH /\ q = Len(typed) - reset
    BY <1>0, <1>s DEF IInv, Filled
  <2> QED
    BY <1>0, <1>k, <2>1
<1>q. /\ p = q /\ p' = q + 1 /\ (wild' <=> q + 1 \notin Index) 
      /\ temp' = Store(Store(temp, q, Byte(c, Len(typed'))), q + 1, 0)
  BY <1>0, <1>s
<1>2. PICK l \in Nat : l = Len(typed') /\ l = reset + q + 1
  BY <1>1, <1>k, <1>s
<1>b. PICK b \in Nat : b = Byte(c, l)
  BY DEF Byte
<1>3. /\ temp' \in [Index -> Nat] /\ temp'[q] = b /\ \A i \in 0 .. q - 1 : temp'[i] = temp[i]
      /\ q + 1 \in Index => temp'[q + 1] = 0
  <2>1. q \in Index
    BY <1>1, <1>k
  <2>2. PICK t \in [Index -> Nat] : t = [temp EXCEPT ![q] = b]
    BY <1>k, <2>1
  <2>3. temp' = Store(t, q + 1, 0)
    BY <1>2, <1>b, <1>q, <2>1, <2>2 DEF Store
  <2>4. t[q] = b /\ \A i \in 0 .. q - 1 : t[i] = temp[i]
    BY <1>1, <1>k, <2>1, <2>2
  <2>5. CASE q + 1 \in Index
    <3>1. temp' = [t EXCEPT ![q + 1] = 0]
      BY <2>3, <2>5 DEF Store
    <3>2. temp' \in [Index -> Nat] /\ temp'[q + 1] = 0
      BY <2>2, <2>5, <3>1
    <3>3. \A i \in 0 .. q : i \in Index /\ i # q + 1
      BY <1>1, <1>k
    <3>4. \A i \in 0 .. q : temp'[i] = t[i]
      BY <2>2, <3>1, <3>3
    <3> QED
      BY <1>1, <2>4, <3>2, <3>4
  <2>6. CASE q + 1 \notin Index
    BY <2>2, <2>3, <2>4, <2>6 DEF Store
  <2> QED
    BY <2>5, <2>6
<1>4. Typed'
  BY <1>3, <1>k, <1>s DEF IInv, Typed, Scans
<1>5. Filled'
  <2>1. p' = Len(typed') - reset' /\ p' \in 0 .. MAX_LENGTH /\ (wild' <=> p' = MAX_LENGTH)
    BY <1>1, <1>2, <1>k, <1>q, <1>s
  <2>2. ASSUME NEW i \in 0 .. p' - 1
        PROVE  temp'[i] = Byte(typed'[reset' + i + 1], reset' + i + 1)
    <3>1. CASE i = q
      <4>1. l = Len(typed) + 1 /\ typed'[l] = c /\ reset' + i + 1 = l
        BY <1>1, <1>2, <1>k, <1>s, <3>1
      <4> QED
        BY <1>3, <1>b, <3>1, <4>1
    <3>2. CASE i # q
      <4>1. i \in 0 .. q - 1
        BY <1>1, <1>q, <3>2
      <4>2. temp[i] = Byte(typed[reset + i + 1], reset + i + 1)
        BY <1>q, <4>1 DEF IInv, Filled
      <4>3. reset + i + 1 \in 1 .. Len(typed)
        BY <1>1, <1>k, <4>1
      <4>4. typed'[reset + i + 1] = typed[reset + i + 1]
        BY <1>k, <1>s, <4>3
      <4> QED
        BY <1>3, <1>s, <4>1, <4>2, <4>4
    <3> QED
      BY <3>1, <3>2
  <2>3. p' \in 1 .. MAX_LENGTH - 1 => temp'[p'] = 0
    BY <1>1, <1>3, <1>k, <1>q
  <2>4. ~wild' => \E i \in p' .. MAX_LENGTH - 1 : temp'[i] = 0
    BY <1>1, <1>3, <1>k, <1>q, SMTT(30)
  <2> QED
    BY <2>1, <2>2, <2>3, <2>4 DEF Filled
<1>6. Alone'
  <2>1. \A n : n \in 0 .. p /\ Newline(n) => Newline(n)'
    <3> SUFFICES ASSUME NEW n \in 0 .. p, Newline(n) PROVE Newline(n)'
      OBVIOUS
    <3>1. PICK i \in 1 .. n : typed[reset + i] = "NL"
      BY DEF Newline
    <3>2. reset + i \in 1 .. Len(typed)
      BY <1>1, <1>k, <1>q, <3>1
    <3>3. typed'[reset' + i] = "NL"
      BY <1>k, <1>s, <3>1, <3>2
    <3> QED
      BY <3>1, <3>3 DEF Newline
  <2>2. Newline(q) => (Newline(p))'
    <3> SUFFICES ASSUME Newline(q) PROVE (Newline(p))'
      OBVIOUS
    <3>1. PICK i \in 1 .. q : typed'[reset' + i] = "NL"
      BY <1>1, <1>q, <2>1 DEF Newline
    <3>2. i \in 1 .. p'
      BY <1>1, <1>q, <3>1
    <3> QED
      BY <3>1, <3>2 DEF Newline
  <2>3. SUFFICES ASSUME ~crossed, NEW r \in Readers, Lined(r) PROVE Lined(r)'
    BY <1>s DEF IInv, Alone
  <2>4. pc[r] \in {"last", "getline"} => p' > 0
    BY <1>1, <1>q
  <2>5. pc[r] = "getline" => (Newline(p))'
    BY <1>q, <2>2, <2>3 DEF Lined
  <2>6. Scans(r) => count[r] <= p' /\ (Ended(count[r]))'
    <3> SUFFICES ASSUME Scans(r) PROVE count[r] <= p' /\ (Ended(count[r]))'
      OBVIOUS
    <3>1. PICK n \in Nat : n = count[r]
      BY <2>3 DEF IInv, Typed
    <3>2. n <= p /\ Ended(n)
      BY <2>3, <3>1 DEF Lined
    <3>3. n <= q + 1 /\ n \in 0 .. q
      BY <1>1, <1>q, <3>1, <3>2
    <3>4. \A i \in 1 .. q : typed'[reset' + i] = typed[reset + i]
      <4> SUFFICES ASSUME NEW i \in 1 .. q PROVE typed'[reset + i] = typed[reset + i]
        BY <1>s
      <4>1. PICK j : j = reset + i
        OBVIOUS
      <4>2. j \in 1 .. Len(typed)
        BY <1>1, <1>k, <4>1
      <4>3. typed'[j] = typed[j]
        BY <1>k, <1>s, <4>2
      <4> QED
        BY <4>1, <4>3
    <3>5. \A i \in 1 .. n : i \in 1 .. q
      BY <1>1, <1>q, <3>3
    <3>6. \A i \in 1 .. n : typed'[reset' + i] # "NUL"
      BY <3>2, <3>4, <3>5 DEF Ended, Plain
    <3>7. CASE Newline(n)
      <4>1. PICK i \in 1 .. n : typed'[reset' + i] = "NL"
        BY <3>4, <3>5, <3>7 DEF Newline
      <4> QED
        BY <1>q, <1>s, <3>1, <3>3, <3>6, <4>1 DEF Ended, Plain, Newline
    <3>8. CASE Cut(n)
      <4>1. n + 1 \in 1 .. q /\ reset + n + 1 = reset + (n + 1) /\ n < q + 1
        BY <1>q, <1>1, <1>k, <3>8 DEF Cut
      <4>2. typed'[reset' + n + 1] = "NUL" /\ n < p'
        BY <1>q, <1>s, <3>4, <3>8, <4>1 DEF Cut
      <4> QED
        BY <1>q, <1>s, <3>1, <3>3, <3>6, <4>2 DEF Ended, Plain, Cut
    <3> QED
      BY <3>2, <3>7, <3>8 DEF Ended
  <2>7. Scans(r)' <=> Scans(r)
    BY <1>s DEF Scans
  <2> QED
    BY <1>s, <2>4, <2>5, <2>6, <2>7 DEF Lined
<1>7. Short'
  BY <1>s DEF IInv, Short, Scans
<1> QED
  BY <1>4, <1>5, <1>6, <1>7 DEF IInv

(* A step of a call that leaves the buffer alone.                          *)
LEMMA Keeps_step ==
  ASSUME IInv, NEW r \in Readers, ~wild, pc[r] # "idle",
         UNCHANGED <<temp, p, wild, typed, reset, crossed>>,
         NEW l \in {"idle", "init", "scan", "strtol"} \cup Polling \cup Scanned,
         pc' = [pc EXCEPT ![r] = l],
         count' \in [Readers -> Nat], \A s \in Readers \ {r} : count'[s] = count[s],
         ~crossed => Lined(r)', Scans(r)' => count'[r] <= MAX_LENGTH - 1,
         Len(inp'.text) \in 0 .. MAX_LENGTH - 1
  PROVE  IInv'
<1>0. Typed /\ pc \in [Readers -> {"idle", "init", "scan", "strtol"} \cup Polling \cup Scanned]
  BY DEF IInv, Typed
<1>1. Typed'
  BY <1>0 DEF Typed
<1>2. Filled'
  BY DEF IInv, Filled
<1>3. \A s \in Readers \ {r} : pc'[s] = pc[s] /\ count'[s] = count[s]
  BY <1>0
<1>4. Alone'
  <2>1. SUFFICES ASSUME ~crossed
                 PROVE  /\ \A s, t \in Readers : pc'[s] # "idle" /\ pc'[t] # "idle" => s = t
                        /\ \A s \in Readers : Lined(s)'
    BY DEF Alone
  <2>2. \A s, t \in Readers : pc[s] # "idle" /\ pc[t] # "idle" => s = t
    BY <2>1 DEF IInv, Alone
  <2>3. \A s \in Readers \ {r} : pc'[s] = "idle"
    BY <1>3, <2>2
  <2>4. \A s \in Readers \ {r} : Lined(s)'
    BY <2>3 DEF Lined, Scans, Scanned
  <2> QED
    BY <2>1, <2>3, <2>4
<1>5. Short'
  BY <1>3 DEF IInv, Short, Scans
<1> QED
  BY <1>1, <1>2, <1>4, <1>5 DEF IInv

(* Polling: the last character is looked at only if there is one.          *)
LEMMA Keeps_poll ==
  ASSUME IInv, NEW r \in Readers, getLast(r) \/ compare(r)
  PROVE  IInv'
<1>k. /\ MAX_LENGTH \in Nat \ {0} /\ reset \in Nat /\ p \in 0 .. MAX_LENGTH
      /\ count \in [Readers -> Nat] /\ Len(inp.text) \in 0 .. MAX_LENGTH - 1
      /\ pc \in [Readers -> {"idle", "init", "scan", "strtol"} \cup Polling \cup Scanned]
      /\ Len(typed) \in Nat
  BY ConsoleAssumption DEF IInv, Typed, Filled, Short
<1>1. CASE getLast(r)
  <2>1. /\ ~wild /\ pc[r] # "idle" /\ p # 0 /\ pc' = [pc EXCEPT ![r] = "last"]
        /\ UNCHANGED <<temp, p, wild, typed, reset, crossed>> /\ count' = count /\ inp' = inp
    BY <1>1 DEF getLast
  <2>2. pc'[r] = "last"
    BY <1>k, <2>1
  <2>3. p' > 0
    BY <1>k, <2>1
  <2>4. Lined(r)' /\ ~Scans(r)'
    BY <2>2, <2>3 DEF Lined, Scans, Scanned
  <2> QED
    BY <1>k, <2>1, <2>4, Keeps_step DEF Polling
<1>2. CASE compare(r)
  <2>0. PICK l \in {"poll", "getline"} :
          /\ p # 0 => (l = "getline") = EndsLine(temp[p - 1])
          /\ pc' = [pc EXCEPT ![r] = l]
    BY <1>2 DEF compare
  <2>1. /\ ~wild /\ pc[r] = "last"
        /\ UNCHANGED <<temp, p, wild, typed, reset, crossed>> /\ count' = count /\ inp' = inp
    BY <1>2 DEF compare
  <2>2. pc'[r] = l
    BY <1>k, <2>0
  <2>3. ASSUME ~crossed, l = "getline" PROVE p' > 0 /\ (Newline(p))'
    <3>1. p > 0
      BY <2>1, <2>3 DEF IInv, Alone, Lined
    <3>2. EndsLine(temp[p - 1])
      <4>1. p # 0
        BY <1>k, <3>1
      <4> QED
        BY Zenon, <2>0, <2>3, <4>1
    <3>3. temp[p - 1] = Byte(typed[reset + p], reset + p)
      <4>1. p - 1 \in 0 .. p - 1 /\ reset + (p - 1) + 1 = reset + p
        BY <1>k, <3>1
      <4> QED
        BY <4>1 DEF IInv, Filled
    <3>4. typed[reset + p] = "NL" /\ p \in 1 .. p
      BY <1>k, <3>1, <3>2, <3>3 DEF EndsLine, Byte
    <3>5. Newline(p)
      BY <3>4 DEF Newline
    <3> QED
      BY <2>1, <3>1, <3>5 DEF Newline
  <2>4. (~crossed => Lined(r)') /\ ~Scans(r)'
    BY <2>0, <2>2, <2>3 DEF Lined, Scans, Scanned
  <2> QED
    BY <1>k, <2>0, <2>1, <2>4, Keeps_step DEF Polling
<1> QED
  BY <1>1, <1>2

(* getline measures the line: it ends at p or at a '\0'.                    *)
LEMMA Keeps_getline ==
  ASSUME IInv, NEW r \in Readers, getline(r)
  PROVE  IInv'
<1>k. /\ count \in [Readers -> Nat] /\ Len(inp.text) \in 0 .. MAX_LENGTH - 1
      /\ pc \in [Readers -> {"idle", "init", "scan", "strtol"} \cup Polling \cup Scanned]
      /\ MAX_LENGTH \in Nat \ {0} /\ p \in 0 .. MAX_LENGTH
  BY ConsoleAssumption DEF IInv, Typed, Short, Filled
<1>1. /\ ~wild /\ pc[r] = "getline" /\ pc' = [pc EXCEPT ![r] = "scan"]
      /\ count' = [count EXCEPT ![r] = Length]
      /\ UNCHANGED <<temp, p, wild, typed, reset, crossed>> /\ inp' = inp
  BY DEF getline
<1>2. PICK n : n = Length
  OBVIOUS
<1>3. /\ n \in 0 .. MAX_LENGTH - 1
      /\ p > 0 => n <= p /\ Plain(n) /\ (n = p \/ Cut(n))
  BY <1>1, <1>2, LengthFacts DEF IInv
<1>4. /\ count' \in [Readers -> Nat] /\ count'[r] = n /\ pc'[r] = "scan"
      /\ \A s \in Readers \ {r} : count'[s] = count[s]
  BY <1>1, <1>2, <1>3, <1>k
<1>5. ASSUME ~crossed PROVE Lined(r)'
  <2>1. p > 0 /\ Newline(p)
    BY <1>1, <1>5 DEF IInv, Alone, Lined
  <2>2. n <= p /\ Ended(n)
    BY <1>3, <2>1 DEF Ended
  <2>3. count'[r] <= p' /\ (Ended(count[r]))'
    BY <1>1, <1>4, <1>k, <2>2 DEF Ended, Plain, Cut, Newline
  <2> QED
    BY <1>4, <2>3 DEF Lined
<1>6. count'[r] <= MAX_LENGTH - 1 /\ pc[r] # "idle" /\ inp'.text = inp.text
  BY <1>1, <1>3, <1>4, <1>k
<1> QED
  BY <1>1, <1>4, <1>5, <1>6, <1>k, Keeps_step

(* _doscan: what is collected is a part of the line, and fits inp_buf.     *)
LEMMA Keeps_scan ==
  ASSUME IInv, NEW r \in Readers, scan_word(r) \/ scan_number(r) \/ strtol(r)
  PROVE  IInv'
<1>k. /\ count \in [Readers -> Nat] /\ Len(inp.text) \in 0 .. MAX_LENGTH - 1
      /\ pc \in [Readers -> {"idle", "init", "scan", "strtol"} \cup Polling \cup Scanned]
      /\ MAX_LENGTH \in Nat \ {0}
  BY ConsoleAssumption DEF IInv, Typed, Short
<1>s. /\ ~wild /\ pc[r] \in {"scan", "strtol"}
      /\ UNCHANGED <<temp, p, wild, typed, reset, crossed>> /\ count' = count
  BY DEF scan_word, scan_number, strtol
<1>t. PICK l \in {"word", "number", "strtol"} : pc' = [pc EXCEPT ![r] = l]
  <2>1. CASE scan_word(r)
    BY <2>1 DEF scan_word
  <2>2. CASE scan_number(r)
    BY <2>2 DEF scan_number
  <2>3. CASE strtol(r)
    BY <2>3 DEF strtol
  <2> QED
    BY <2>1, <2>2, <2>3
<1>1. pc[r] # "idle" /\ Scans(r) /\ pc'[r] = l /\ l \in {"strtol"} \cup Scanned
  BY <1>k, <1>s, <1>t DEF Scans, Scanned
<1>2. count[r] \in Nat /\ count[r] <= MAX_LENGTH - 1
  BY <1>1, <1>k DEF IInv, Short
<1>3. ASSUME ~crossed PROVE Lined(r)'
  <2>1. count[r] <= p /\ Ended(count[r])
    BY <1>1, <1>3 DEF IInv, Alone, Lined
  <2>2. count'[r] <= p' /\ (Ended(count[r]))'
    BY <1>s, <2>1 DEF Ended, Plain, Cut, Newline
  <2> QED
    BY <1>1, <2>2 DEF Lined, Scanned
<1>4. Len(inp'.text) \in 0 .. MAX_LENGTH - 1
  <2>1. CASE inp' = inp
    BY <1>k, <2>1
  <2>2. CASE inp' # inp
    <3>1. PICK in : in = Read(r)
      OBVIOUS
    <3>2. PICK i : i = Field(in, 0, "d")
      OBVIOUS
    <3>3. PICK n : n = o_collect(in, i, "d", NUMLEN).len
      OBVIOUS
    <3>4. CharAt(in, i) # EOF /\ inp'.text = SubSeq(in, i + 1, i + n)
      <4>1. scan_number(r)
        BY <2>2 DEF scan_word, strtol
      <4> QED
        BY <2>2, <3>1, <3>2, <3>3, <4>1 DEF scan_number, Collected
    <3>5. Len(in) = count[r] /\ in \in Seq({in[j] : j \in 1 .. count[r]})
      <4> DEFINE S == {in[j] : j \in 1 .. count[r]}
      <4>1. in = [j \in 1 .. count[r] |-> in[j]]
        BY <3>1 DEF Read
      <4>2. in \in [1 .. count[r] -> S] /\ DOMAIN in = 1 .. count[r]
        BY <4>1
      <4>3. in \in Seq(S)
        BY <1>2, <4>2
      <4> QED
        BY <1>2, <4>2, <4>3
    <3>6. i \in Nat
      BY <1>2, <3>2, <3>5, FieldFacts
    <3>7. i < Len(in)
      BY <3>4 DEF CharAt
    <3>8. n \in Nat /\ i + n <= Len(in)
      BY <1>2, <3>3, <3>5, <3>6, <3>7, CollectFacts
    <3>9. Len(SubSeq(in, i + 1, i + n)) = n
      BY <1>2, <3>5, <3>6, <3>8
    <3> QED
      BY <1>2, <1>k, <3>4, <3>5, <3>6, <3>8, <3>9
  <2> QED
    BY <2>1, <2>2
<1> QED
  BY <1>1, <1>2, <1>3, <1>4, <1>k, <1>s, <1>t, Keeps_step

(* The call returns.                                                       *)
LEMMA Keeps_return ==
  ASSUME IInv, NEW r \in Readers, return(r)
  PROVE  IInv'
<1>1. /\ ~wild /\ pc[r] \in {"word", "number"} /\ pc' = [pc EXCEPT ![r] = "idle"]
      /\ count' = [count EXCEPT ![r] = 0] /\ inp' = inp
      /\ UNCHANGED <<temp, p, wild, typed, reset, crossed>>
  BY DEF return
<1>2. /\ count \in [Readers -> Nat] /\ Len(inp.text) \in 0 .. MAX_LENGTH - 1
      /\ pc \in [Readers -> {"idle", "init", "scan", "strtol"} \cup Polling \cup Scanned]
  BY DEF IInv, Typed, Short
<1>3. /\ pc'[r] = "idle" /\ pc[r] # "idle" /\ count' \in [Readers -> Nat]
      /\ \A s \in Readers \ {r} : count'[s] = count[s]
  BY <1>1, <1>2
<1>4. Lined(r)' /\ ~Scans(r)'
  BY <1>3 DEF Lined, Scans, Scanned
<1> QED
  BY <1>1, <1>2, <1>3, <1>4, Keeps_step

(* A call begins: alone, or from now on two have overlapped.               *)
LEMMA Keeps_scanf ==
  ASSUME IInv, NEW r \in Readers, scanf(r)
  PROVE  IInv'
<1>k. /\ MAX_LENGTH \in Nat \ {0} /\ Index = 0 .. MAX_LENGTH - 1
      /\ temp \in [Index -> Nat] /\ count \in [Readers -> Nat] /\ crossed \in BOOLEAN
      /\ pc \in [Readers -> {"idle", "init", "scan", "strtol"} \cup Polling \cup Scanned]
  BY ConsoleAssumption DEF Index, IInv, Typed
<1>1. /\ ~wild /\ pc[r] = "idle" /\ pc' = [pc EXCEPT ![r] = "init"]
      /\ temp' = Store(temp, p, 0) /\ count' = count /\ inp' = inp
      /\ UNCHANGED <<p, wild, typed, reset>>
  BY DEF scanf
<1>c. /\ crossed' \in BOOLEAN
      /\ ~crossed' => ~crossed /\ \A s \in Readers \ {r} : pc[s] = "idle"
  BY Zenon, <1>k DEF scanf
<1>0. PICK q : q = p
  OBVIOUS
<1>2. q \in Index
  <2>1. q \in 0 .. MAX_LENGTH /\ q # MAX_LENGTH
    BY <1>0, <1>1 DEF IInv, Filled
  <2> QED
    BY <1>k, <2>1
<1>3. temp' = [temp EXCEPT ![q] = 0]
  BY <1>0, <1>1, <1>2 DEF Store
<1>4. Typed'
  <2>1. temp' \in [Index -> Nat]
    BY <1>2, <1>3, <1>k
  <2>2. pc' \in [Readers -> {"idle", "init", "scan", "strtol"} \cup Polling \cup Scanned]
    BY <1>1, <1>k
  <2>3. wild' \in BOOLEAN /\ typed' \in Seq(Chars) /\ reset' \in Nat /\ count' \in [Readers -> Nat]
    BY <1>1 DEF IInv, Typed
  <2> QED
    BY Zenon, <1>c, <2>1, <2>2, <2>3 DEF Typed
<1>5. Filled'
  <2>1. p' = Len(typed') - reset' /\ p' \in 0 .. MAX_LENGTH /\ (wild' <=> p' = MAX_LENGTH)
    BY <1>1 DEF IInv, Filled
  <2>2. ASSUME NEW i \in 0 .. p' - 1
        PROVE  temp'[i] = Byte(typed'[reset' + i + 1], reset' + i + 1)
    <3>1. i \in 0 .. p - 1 /\ i \in Index /\ i # q
      BY <1>0, <1>1, <1>2, <1>k
    <3>2. temp[i] = Byte(typed[reset + i + 1], reset + i + 1)
      BY <3>1 DEF IInv, Filled
    <3> QED
      BY <1>1, <1>3, <1>k, <3>1, <3>2
  <2>3. temp'[p'] = 0 /\ p' \in p' .. MAX_LENGTH - 1
    BY <1>0, <1>1, <1>2, <1>3, <1>k
  <2> QED
    BY <2>1, <2>2, <2>3 DEF Filled
<1>6. pc'[r] = "init" /\ \A s \in Readers \ {r} : pc'[s] = pc[s]
  BY <1>1, <1>k
<1>7. Alone'
  <2>1. SUFFICES ASSUME ~crossed'
                 PROVE  /\ \A s, t \in Readers : pc'[s] # "idle" /\ pc'[t] # "idle" => s = t
                        /\ \A s \in Readers : Lined(s)'
    BY DEF Alone
  <2>2. \A s \in Readers \ {r} : pc'[s] = "idle"
    BY <1>6, <1>c, <2>1
  <2>3. \A s \in Readers : Lined(s)'
    BY <1>6, <2>2 DEF Lined, Scans, Scanned
  <2> QED
    BY <2>2, <2>3
<1>8. Short'
  BY <1>1, <1>6 DEF IInv, Short, Scans, Scanned
<1> QED
  BY <1>4, <1>5, <1>7, <1>8 DEF IInv

(* init_buffer empties the buffer; a '\0' is still somewhere in it.        *)
LEMMA Keeps_init ==
  ASSUME IInv, NEW r \in Readers, init_buffer(r)
  PROVE  IInv'
<1>k. /\ MAX_LENGTH \in Nat \ {0} /\ Len(typed) \in Nat
      /\ pc \in [Readers -> {"idle", "init", "scan", "strtol"} \cup Polling \cup Scanned]
  BY ConsoleAssumption DEF IInv, Typed
<1>1. /\ ~wild /\ pc[r] = "init" /\ pc' = [pc EXCEPT ![r] = "poll"]
      /\ p' = 0 /\ reset' = Len(typed) /\ UNCHANGED <<temp, wild, typed, count, crossed>> /\ inp' = inp
  BY DEF init_buffer, Empty
<1>2. Typed'
  BY <1>1, <1>k DEF IInv, Typed, Polling
<1>3. Filled'
  <2>1. p' = Len(typed') - reset' /\ p' \in 0 .. MAX_LENGTH /\ (wild' <=> p' = MAX_LENGTH)
    BY <1>1, <1>k
  <2>2. 0 .. p' - 1 = {} /\ p' \notin 1 .. MAX_LENGTH - 1
    BY <1>1
  <2>3. PICK q \in 0 .. MAX_LENGTH : q = p
    BY DEF IInv, Filled
  <2>4. PICK i \in q .. MAX_LENGTH - 1 : temp[i] = 0
    BY <1>1, <2>3 DEF IInv, Filled
  <2>5. i \in p' .. MAX_LENGTH - 1 /\ temp'[i] = 0
    BY <1>1, <1>k, <2>3, <2>4
  <2> QED
    BY <2>1, <2>2, <2>5 DEF Filled
<1>4. pc'[r] = "poll" /\ \A s \in Readers \ {r} : pc'[s] = pc[s]
  BY <1>1, <1>k
<1>5. Alone'
  <2>1. SUFFICES ASSUME ~crossed
                 PROVE  /\ \A s, t \in Readers : pc'[s] # "idle" /\ pc'[t] # "idle" => s = t
                        /\ \A s \in Readers : Lined(s)'
    BY <1>1 DEF Alone
  <2>2. \A s \in Readers \ {r} : pc'[s] = "idle"
    BY <1>1, <1>4, <2>1 DEF IInv, Alone
  <2>3. \A s \in Readers : Lined(s)'
    BY <1>4, <2>2 DEF Lined, Scans, Scanned
  <2> QED
    BY <2>2, <2>3
<1>6. Short'
  BY <1>1, <1>4 DEF IInv, Short, Scans, Scanned
<1> QED
  BY <1>2, <1>3, <1>5, <1>6 DEF IInv

-----------------------------------------------------------------------------
(* The invariant holds at the start and after every step.                  *)
THEOREM Invariance == Spec => []IInv
<1>1. Init => IInv
  <2> SUFFICES ASSUME Init PROVE IInv
    OBVIOUS
  <2>1. MAX_LENGTH \in Nat \ {0} /\ Index = 0 .. MAX_LENGTH - 1
    BY ConsoleAssumption DEF Index
  <2>2. /\ temp = [i \in Index |-> 0] /\ p = 0 /\ wild = FALSE /\ typed = <<>> /\ reset = 0
        /\ inp.text = <<>> /\ pc = [r \in Readers |-> "idle"] /\ count = [r \in Readers |-> 0]
        /\ crossed = FALSE
    BY DEF Init
  <2>3. Typed
    <3>1. temp \in [Index -> Nat] /\ reset \in Nat /\ count \in [Readers -> Nat]
      BY <2>2
    <3>2. pc \in [Readers -> {"idle", "init", "scan", "strtol"} \cup Polling \cup Scanned]
      BY <2>2
    <3>3. typed \in Seq(Chars)
      BY <2>2
    <3>4. wild \in BOOLEAN /\ crossed \in BOOLEAN
      BY Zenon, <2>2
    <3> QED
      BY Zenon, <3>1, <3>2, <3>3, <3>4 DEF Typed
  <2>4. Filled
    BY <2>1, <2>2 DEF Filled
  <2>5. \A r \in Readers : pc[r] = "idle" /\ ~Scans(r) /\ Lined(r)
    BY <2>2 DEF Scans, Scanned, Lined
  <2>6. Alone /\ Short
    BY <2>1, <2>2, <2>5 DEF Alone, Short
  <2> QED
    BY <2>3, <2>4, <2>6 DEF IInv
<1>2. IInv /\ [Next]_vars => IInv'
  <2>1. ASSUME IInv, Next PROVE IInv'
    BY <2>1, Keeps_put, Keeps_scanf, Keeps_init, Keeps_poll, Keeps_getline, Keeps_scan, Keeps_return
       DEF Next, Poll, Reading
  <2>2. ASSUME IInv, UNCHANGED vars PROVE IInv'
    BY <2>2 DEF IInv, Typed, Filled, Alone, Lined, Ended, Plain, Cut, Newline, Short, Scans, vars
  <2> QED
    BY <2>1, <2>2
<1> QED
  BY <1>1, <1>2, PTL DEF Spec

(* A call of scanf that no other overlaps is given what was typed since it *)
(* emptied the buffer, up to the newline and what follows it, or to the    *)
(* first '\0' typed (scanf.c:30-40), however the interrupts fall.          *)
THEOREM LineSafety == Spec => []LineExact
<1>1. IInv => LineExact
  <2> SUFFICES ASSUME IInv, NEW r \in Readers, ~crossed, Scans(r)
               PROVE  /\ \A i \in 1 .. count[r] : /\ temp[i - 1] = reset + i
                                                 /\ typed[reset + i] # "NUL"
                      /\ \/ \E i \in 1 .. count[r] : typed[reset + i] = "NL"
                         \/ /\ reset + count[r] < Len(typed)
                            /\ typed[reset + count[r] + 1] = "NUL"
    BY DEF LineExact
  <2>1. /\ count[r] <= p /\ Ended(count[r]) /\ count[r] \in Nat /\ p \in 0 .. MAX_LENGTH
        /\ p = Len(typed) - reset /\ reset \in Nat /\ Len(typed) \in Nat
    BY DEF IInv, Typed, Filled, Alone, Lined
  <2>2. ASSUME NEW i \in 1 .. count[r] PROVE temp[i - 1] = reset + i /\ typed[reset + i] # "NUL"
    <3>1. i - 1 \in 0 .. p - 1 /\ reset + (i - 1) + 1 = reset + i
      BY <2>1, ConsoleAssumption
    <3>2. temp[i - 1] = Byte(typed[reset + i], reset + i)
      BY <3>1 DEF IInv, Filled
    <3>3. typed[reset + i] # "NUL"
      BY <2>1 DEF Ended, Plain
    <3> QED
      BY <3>2, <3>3 DEF Byte
  <2>3. Cut(count[r]) => reset + count[r] < Len(typed) /\ typed[reset + count[r] + 1] = "NUL"
    BY <2>1, ConsoleAssumption DEF Cut
  <2> QED
    BY <2>1, <2>2, <2>3 DEF Ended, Newline
<1> QED
  BY <1>1, Invariance, PTL

(* A line of MAX_LENGTH - 1 characters never leaves temp, and no field of  *)
(* it leaves inp_buf (buffer.c:12-15, _doscan.c:474, 287).                 *)
THEOREM FitSafety == Spec => []LineFits
<1>1. IInv => LineFits
  <2> SUFFICES ASSUME IInv PROVE LineFits
    OBVIOUS
  <2>1. /\ MAX_LENGTH \in Nat \ {0} /\ NUMLEN \in Nat /\ MAX_LENGTH <= NUMLEN
        /\ Len(typed) \in Nat /\ reset \in Nat
    BY ConsoleAssumption, ScanAssumption DEF IInv, Typed
  <2>2. wild => Len(typed) >= reset + MAX_LENGTH
    BY <2>1 DEF IInv, Filled
  <2>3. Len(inp.text) + 1 <= NUMLEN
    BY <2>1 DEF IInv, Short
  <2> QED
    BY <2>2, <2>3 DEF LineFits
<1> QED
  BY <1>1, Invariance, PTL

-----------------------------------------------------------------------------
(* What a call has to show for the line it was given: nothing yet, the     *)
(* field that says the number, or the result.                              *)
Line(r) == SubSeq(typed, reset + 1, reset + count[r])

Due(r) ==
  /\ pc[r] \notin Scanned => val[r] = <<>>
  /\ pc[r] = "strtol" => Result("number", Line(r)) = <<Stored(inp.text, inp.base, Scanning("d"))>>
  /\ pc[r] \in Scanned => val[r] = Result(pc[r], Line(r))

Exact == val = [r \in Readers |-> val[r]] /\ (~crossed => \A r \in Readers : Due(r))

(* A reader that does nothing has the same to show: nothing at all, if it  *)
(* is not inside scanf, and otherwise its line and inp_buf are the same.   *)
LEMMA DueSame ==
  ASSUME NEW r \in Readers, Due(r), pc'[r] = pc[r], val'[r] = val[r],
         pc[r] = "idle" \/ (Scans(r) => Line(r)' = Line(r) /\ inp' = inp)
  PROVE  Due(r)'
<1>1. Scans(r) => Line(r)' = Line(r) /\ inp' = inp
  BY DEF Scans, Scanned
<1>2. CASE Scans(r)
  <2> HIDE DEF Stored, Scanning, Result, Line
  <2> QED
    BY <1>1, <1>2 DEF Due
<1>3. CASE ~Scans(r)
  BY <1>3 DEF Due, Scans
<1> QED
  BY <1>2, <1>3

(* A call that no other overlaps reads what was typed since the reset.     *)
LEMMA ReadIs ==
  ASSUME IInv, NEW r \in Readers, ~crossed, Scans(r)
  PROVE  /\ Read(r) = Line(r) /\ Line(r) \in Seq(Chars) /\ Len(Line(r)) < NUMLEN
         /\ reset + count[r] <= Len(typed) /\ reset \in Nat /\ count[r] \in Nat
<1>1. PICK n \in Nat : n = count[r] /\ n <= p /\ n <= MAX_LENGTH - 1
  BY DEF IInv, Typed, Alone, Lined, Short
<1>2. PICK a \in Nat, t \in Seq(Chars), L \in Nat : a = reset /\ t = typed /\ L = Len(t)
  BY DEF IInv, Typed
<1>3. p = L - a /\ a + n <= L
  BY <1>1, <1>2 DEF IInv, Filled
<1>4. MAX_LENGTH \in Nat \ {0} /\ MAX_LENGTH <= NUMLEN /\ NUMLEN \in Nat
  BY ConsoleAssumption, ScanAssumption
<1>5. Part(SubSeq(t, a + 1, a + n), t, a, n, Chars)
  BY <1>2, <1>3, PartIs
<1>6. PICK u : u = SubSeq(t, a + 1, a + n)
  OBVIOUS
<1>7. u = Line(r) /\ u \in Seq(Chars) /\ Len(u) = n /\ \A j \in 1 .. n : u[j] = t[a + j]
  BY <1>1, <1>2, <1>5, <1>6 DEF Line, Part
<1>8. ASSUME NEW j \in 1 .. n PROVE temp[j - 1] = a + j
  <2>1. j - 1 \in 0 .. p - 1 /\ a + (j - 1) + 1 = a + j
    BY <1>1, <1>2, <1>3
  <2>2. temp[j - 1] = Byte(typed[a + j], a + j)
    BY <1>2, <2>1 DEF IInv, Filled
  <2>3. typed[a + j] # "NUL"
    BY <1>1, <1>2 DEF IInv, Alone, Lined, Ended, Plain
  <2> QED
    BY <2>2, <2>3 DEF Byte
<1>9. Read(r) = [j \in 1 .. n |-> t[a + j]]
  <2>1. \A j \in 1 .. n : a + j # 0
    OBVIOUS
  <2> QED
    BY <1>1, <1>2, <1>8, <2>1 DEF Read
<1>10. u = [j \in 1 .. n |-> t[a + j]]
  BY <1>7
<1> QED
  BY <1>1, <1>2, <1>3, <1>4, <1>7, <1>9, <1>10

(* Alone, a reader finds the others idle.                                  *)
LEMMA OthersIdle ==
  ASSUME IInv, ~crossed, NEW r \in Readers, pc[r] # "idle", NEW s \in Readers, s # r
  PROVE  pc[s] = "idle"
BY DEF IInv, Alone

(* A step of one reader leaves nothing due that was not.                   *)
LEMMA Exact_step ==
  ASSUME IInv, Exact, NEW r \in Readers, pc[r] # "idle", NEW l, pc' = [pc EXCEPT ![r] = l],
         NEW v, val' = [val EXCEPT ![r] = v], crossed' = crossed, ~crossed => Due(r)'
  PROVE  Exact'
<1>1. /\ pc \in [Readers -> {"idle", "init", "scan", "strtol"} \cup Polling \cup Scanned]
      /\ val = [s \in Readers |-> val[s]]
  BY DEF IInv, Typed, Exact
<1>2. val' = [s \in Readers |-> val'[s]]
  BY <1>1
<1>3. ASSUME ~crossed, NEW s \in Readers, s # r PROVE Due(s)'
  <2>1. pc[s] = "idle" /\ pc'[s] = pc[s] /\ val'[s] = val[s]
    BY <1>1, <1>3, OthersIdle
  <2>2. val[s] = <<>>
    BY <1>3, <2>1 DEF Exact, Due, Scanned
  <2>3. pc'[s] = "idle" /\ val'[s] = <<>>
    BY <2>1, <2>2
  <2> QED
    BY <2>3 DEF Due, Scanned
<1> QED
  BY <1>2, <1>3 DEF Exact

(* A character that arrives does not change the lines that are being read. *)
LEMMA Exact_put ==
  ASSUME IInv, Exact, NEW c \in Chars, put_buffer(c)
  PROVE  Exact'
<1>1. /\ typed' = Append(typed, c) /\ reset' = reset /\ count' = count /\ pc' = pc
      /\ val' = val /\ inp' = inp /\ crossed' = crossed
  BY DEF put_buffer
<1>2. ASSUME ~crossed, NEW r \in Readers PROVE Due(r)'
  <2>1. ASSUME Scans(r) PROVE Line(r)' = Line(r)
    <3>1. PICK a \in Nat, n \in Nat, t \in Seq(Chars) :
               a = reset /\ n = count[r] /\ t = typed /\ a + n <= Len(t)
      BY <1>2, <2>1, ReadIs DEF IInv, Typed
    <3>2. PICK u \in Seq(Chars) : u = Append(t, c) /\ a + n <= Len(u)
      <4>1. Append(t, c) \in Seq(Chars) /\ Len(Append(t, c)) = Len(t) + 1
        OBVIOUS
      <4>2. a + n <= Len(t) + 1
        BY <3>1
      <4> QED
        BY <4>1, <4>2
    <3>3. Part(SubSeq(t, a + 1, a + n), t, a, n, Chars) /\ Part(SubSeq(u, a + 1, a + n), u, a, n, Chars)
      BY <3>1, <3>2, PartIs
    <3>4. \A j \in 1 .. n : u[a + j] = t[a + j]
      <4>1. \A j \in 1 .. n : a + j \in 1 .. Len(t)
        BY <3>1
      <4> QED
        BY <3>2, <4>1
    <3>5. SubSeq(t, a + 1, a + n) = SubSeq(u, a + 1, a + n)
      <4>1. PICK x, y : x = SubSeq(t, a + 1, a + n) /\ y = SubSeq(u, a + 1, a + n)
        OBVIOUS
      <4>2. x \in Seq(Chars) /\ y \in Seq(Chars) /\ Len(x) = n /\ Len(y) = n /\ \A j \in 1 .. n : x[j] = y[j]
        BY <3>3, <3>4, <4>1 DEF Part
      <4>3. x = [j \in 1 .. Len(x) |-> x[j]] /\ y = [j \in 1 .. Len(y) |-> y[j]]
        BY <4>2
      <4>4. x = y
        BY <4>2, <4>3
      <4> QED
        BY <4>1, <4>4
    <3> QED
      BY <1>1, <3>1, <3>2, <3>5 DEF Line
  <2>2. Due(r)
    BY <1>2 DEF Exact
  <2> QED
    BY <1>1, <2>1, <2>2, DueSame
<1> QED
  BY <1>1, <1>2 DEF Exact

(* A call begins with nothing stored.                                      *)
LEMMA Exact_scanf ==
  ASSUME IInv, Exact, NEW r \in Readers, scanf(r)
  PROVE  Exact'
<1>1. /\ pc[r] = "idle" /\ pc' = [pc EXCEPT ![r] = "init"] /\ val' = val /\ val = [s \in Readers |-> val[s]]
      /\ crossed' = (crossed \/ \E s \in Readers \ {r} : pc[s] # "idle")
      /\ pc \in [Readers -> {"idle", "init", "scan", "strtol"} \cup Polling \cup Scanned]
  BY DEF scanf, IInv, Typed, Exact
<1>2. ASSUME ~crossed', NEW s \in Readers PROVE Due(s)'
  <2>1. pc[s] = "idle" /\ ~crossed
    BY <1>1, <1>2
  <2>2. val[s] = <<>>
    BY <2>1 DEF Exact, Due, Scanned
  <2>3. pc'[s] \in {"idle", "init"} /\ val'[s] = <<>>
    BY <1>1, <2>1, <2>2
  <2> QED
    BY <2>3 DEF Due, Scanned
<1> QED
  BY <1>1, <1>2 DEF Exact

(* Nothing is due before the line is read.                                 *)
LEMMA Exact_poll ==
  ASSUME IInv, Exact, NEW r \in Readers, Poll(r)
  PROVE  Exact'
<1>1. PICK l \in {"poll", "last", "getline", "scan"} :
           pc' = [pc EXCEPT ![r] = l] /\ val' = val /\ crossed' = crossed
  <2>1. CASE init_buffer(r)
    BY <2>1 DEF init_buffer
  <2>2. CASE getLast(r)
    BY <2>2 DEF getLast
  <2>3. CASE compare(r)
    BY <2>3 DEF compare
  <2>4. CASE getline(r)
    BY <2>4 DEF getline
  <2> QED
    BY <2>1, <2>2, <2>3, <2>4 DEF Poll
<1>2. pc[r] \in {"init", "poll", "last", "getline"}
  BY DEF Poll, init_buffer, getLast, compare, getline
<1>3. /\ pc \in [Readers -> {"idle", "init", "scan", "strtol"} \cup Polling \cup Scanned]
      /\ val = [s \in Readers |-> val[s]] /\ val' = [val EXCEPT ![r] = val[r]]
  <2>1. val = [val EXCEPT ![r] = val[r]]
    BY DEF Exact
  <2> QED
    BY <1>1, <2>1 DEF IInv, Typed, Exact
<1>4. ~crossed => Due(r)'
  <2>1. ~crossed => val[r] = <<>>
    BY <1>2 DEF Exact, Due, Scanned
  <2>2. pc'[r] = l /\ l \notin Scanned /\ l # "strtol" /\ val'[r] = val[r]
    BY <1>1, <1>3 DEF Scanned
  <2> QED
    BY <2>1, <2>2 DEF Due
<1> QED
  BY <1>1, <1>2, <1>3, <1>4, Exact_step

(* "%s" and "%d" read the line.                                            *)
LEMMA Exact_scan ==
  ASSUME IInv, Exact, NEW r \in Readers, scan_word(r) \/ scan_number(r)
  PROVE  Exact'
<1>1. /\ pc \in [Readers -> {"idle", "init", "scan", "strtol"} \cup Polling \cup Scanned]
      /\ val = [s \in Readers |-> val[s]]
  BY DEF IInv, Typed, Exact
<1>2. /\ pc[r] = "scan" /\ pc[r] # "idle" /\ Scans(r)
      /\ UNCHANGED <<typed, reset, count>> /\ crossed' = crossed
  BY DEF scan_word, scan_number, Scans
<1>3. Line(r)' = Line(r)
  BY <1>2 DEF Line
<1>4. ~crossed => val[r] = <<>>
  BY <1>2 DEF Exact, Due, Scanned
<1>5. ~crossed => Read(r) = Line(r) /\ Line(r) \in Seq(Chars) /\ Len(Line(r)) < NUMLEN
  BY <1>2, ReadIs
<1>6. EOF \notin Chars
  BY ConsoleAssumption
<1>7. CASE scan_word(r)
  <2>1. PICK v : v = _doscan(Read(r), <<Scanning("s")>>).out
    OBVIOUS
  <2>2. pc' = [pc EXCEPT ![r] = "word"] /\ val' = [val EXCEPT ![r] = v]
    BY <1>7, <2>1 DEF scan_word
  <2>3. ~crossed => v = Result("word", Line(r))
    BY <1>5, <1>6, <2>1, WordOut
  <2>4. pc'[r] = "word" /\ val'[r] = v /\ "word" \in Scanned /\ "word" # "strtol"
    BY <1>1, <2>2 DEF Scanned
  <2>5. ~crossed => Due(r)'
    <3> HIDE DEF Result
    <3> QED
      BY <1>3, <2>3, <2>4 DEF Due
  <2> QED
    BY <1>2, <2>2, <2>5, Exact_step
<1>8. CASE scan_number(r)
  <2>1. PICK in : in = Read(r)
    OBVIOUS
  <2>2. PICK i : i = Field(in, 0, "d")
    OBVIOUS
  <2>3. PICK c : c = Collected(in)
    OBVIOUS
  <2>4. PICK u : u = SubSeq(in, i + 1, i + c.len)
    OBVIOUS
  <2>5. /\ inp' = IF CharAt(in, i) = EOF THEN inp ELSE [text |-> u, base |-> c.base]
        /\ pc' = [pc EXCEPT ![r] = IF CharAt(in, i) # EOF /\ IsNumber(u) THEN "strtol" ELSE "number"]
        /\ val' = val
    BY <1>8, <2>1, <2>2, <2>3, <2>4 DEF scan_number
  <2>6. ~crossed => Result("number", in) = IF CharAt(in, i) # EOF /\ IsNumber(u)
                               THEN <<Stored(u, c.base, Scanning("d"))>> ELSE <<>>
    BY <1>5, <1>6, <2>1, <2>2, <2>3, <2>4, NumberOut
  <2>7. val' = [val EXCEPT ![r] = val[r]]
    BY <1>1, <2>5
  <2>8. ~crossed => Line(r)' = in
    BY <1>3, <1>5, <2>1
  <2>9. CASE CharAt(in, i) # EOF /\ IsNumber(u)
    <3>1. inp'.text = u /\ inp'.base = c.base /\ pc' = [pc EXCEPT ![r] = "strtol"]
      BY <2>5, <2>9
    <3>2. pc'[r] = "strtol" /\ "strtol" \notin Scanned /\ val'[r] = val[r]
      BY <1>1, <2>5, <3>1 DEF Scanned
    <3>3. ~crossed => Due(r)'
      <4> HIDE DEF Result, Stored, Scanning, IsNumber, CharAt
      <4> QED
        BY <1>4, <2>6, <2>8, <2>9, <3>1, <3>2 DEF Due
    <3> QED
      BY <1>2, <2>7, <3>1, <3>3, Exact_step
  <2>10. CASE ~(CharAt(in, i) # EOF /\ IsNumber(u))
    <3>1. pc' = [pc EXCEPT ![r] = "number"]
      BY <2>5, <2>10
    <3>2. pc'[r] = "number" /\ "number" \in Scanned /\ "number" # "strtol" /\ val'[r] = val[r]
      BY <1>1, <2>5, <3>1 DEF Scanned
    <3>3. ~crossed => Due(r)'
      <4>1. ~crossed => Result("number", in) = <<>>
        BY <2>6, <2>10
      <4> HIDE DEF Result, Stored, Scanning
      <4> QED
        BY <1>4, <2>8, <3>2, <4>1 DEF Due
    <3> QED
      BY <1>2, <2>7, <3>1, <3>3, Exact_step
  <2> QED
    BY <2>9, <2>10
<1> QED
  BY <1>7, <1>8

(* strtol reads inp_buf, which nobody else has used since.                 *)
LEMMA Exact_strtol ==
  ASSUME IInv, Exact, NEW r \in Readers, strtol(r)
  PROVE  Exact'
<1>1. /\ pc \in [Readers -> {"idle", "init", "scan", "strtol"} \cup Polling \cup Scanned]
      /\ val = [s \in Readers |-> val[s]]
  BY DEF IInv, Typed, Exact
<1>2. PICK v : v = <<Stored(inp.text, inp.base, Scanning("d"))>>
  OBVIOUS
<1>3. /\ pc[r] = "strtol" /\ pc[r] # "idle" /\ UNCHANGED <<typed, reset, count>> /\ crossed' = crossed
      /\ pc' = [pc EXCEPT ![r] = "number"] /\ val' = [val EXCEPT ![r] = v]
  BY <1>2 DEF strtol
<1>4. Line(r)' = Line(r) /\ pc'[r] = "number" /\ val'[r] = v /\ "number" \in Scanned /\ "number" # "strtol"
  BY <1>1, <1>3 DEF Line, Scanned
<1>5. ~crossed => Due(r)'
  <2> HIDE DEF Result, Stored, Scanning
  <2>1. ~crossed => Result("number", Line(r)) = v
    BY <1>2, <1>3 DEF Exact, Due
  <2> QED
    BY <1>4, <2>1 DEF Due
<1> QED
  BY <1>3, <1>5, Exact_step

(* The call returns, and what it stored is the caller's.                   *)
LEMMA Exact_return ==
  ASSUME IInv, Exact, NEW r \in Readers, return(r)
  PROVE  Exact'
<1>1. /\ pc[r] # "idle" /\ pc' = [pc EXCEPT ![r] = "idle"] /\ val' = [val EXCEPT ![r] = <<>>]
      /\ crossed' = crossed
  BY DEF return
<1>2. /\ pc \in [Readers -> {"idle", "init", "scan", "strtol"} \cup Polling \cup Scanned]
      /\ val = [s \in Readers |-> val[s]]
  BY DEF IInv, Typed, Exact
<1>3. pc'[r] = "idle" /\ val'[r] = <<>>
  BY <1>1, <1>2
<1>4. Due(r)'
  BY <1>3 DEF Due, Scanned
<1> QED
  BY <1>1, <1>4, Exact_step

(* Unless two calls overlap, scanf stores the first word of the line, or   *)
(* the number it begins with (_doscan.c:438-546), for every line.          *)
THEOREM ScanSafety == Spec => []ScanExact
<1>1. Init => Exact
  <2> SUFFICES ASSUME Init PROVE Exact
    OBVIOUS
  <2>1. pc = [r \in Readers |-> "idle"] /\ val = [r \in Readers |-> <<>>]
    BY DEF Init
  <2>2. \A r \in Readers : pc[r] = "idle" /\ val[r] = <<>>
    BY <2>1
  <2> QED
    BY <2>1, <2>2 DEF Exact, Due, Scanned
<1>2. IInv /\ Exact /\ [Next]_vars => Exact'
  <2>1. ASSUME IInv, Exact, Next PROVE Exact'
    BY <2>1, Exact_put, Exact_scanf, Exact_poll, Exact_scan, Exact_strtol, Exact_return
       DEF Next, Reading
  <2>2. ASSUME Exact, UNCHANGED vars PROVE Exact'
    <3> HIDE DEF Result, Stored, Scanning
    <3> QED
      BY <2>2 DEF Exact, Due, Line, vars
  <2> QED
    BY <2>1, <2>2
<1>3. Exact => ScanExact
  <2> HIDE DEF FirstNumber, FirstWord
  <2> QED
    BY DEF Exact, Due, Line, Result, ScanExact
<1> QED
  BY <1>1, <1>2, <1>3, Invariance, PTL DEF Spec

(* The number conversions read the longest numeral and convert all of it,  *)
(* or go to the limit of the type (_doscan.c:128-289): ReadsRight, for     *)
(* every text over every alphabet, and so for those of ScanRight.          *)
THEOREM NumeralSafety == Spec => []ScanRight
<1>1. ScanRight
  <2>1. PICK S : S = STRING \ {EOF}
    OBVIOUS
  <2>2. EOF \notin S /\ Texts \subseteq Seq(S)
    BY <2>1, ConsoleAssumption
  <2>3. ASSUME NEW t \in Texts, NEW type \in DOMAIN Base, NEW w \in 1 .. 4 PROVE ReadsNumber(t, type, w)
    <3>1. t \in Seq(S) /\ w \in Nat \ {0}
      BY <2>2
    <3> QED
      BY <2>2, <3>1, ReadsRight
  <2> HIDE DEF ReadsNumber
  <2> QED
    BY <2>3 DEF ScanRight
<1> QED
  BY <1>1, PTL
-----------------------------------------------------------------------------
(* What number writes.                                                     *)

(* f[m] is the digits of m, the lowest first.                              *)
Divides(f, N, base) ==
  f = [m \in 0 .. N |-> IF m < base THEN <<m>> ELSE <<m % base>> \o f[m \div base]]

(* What one division leaves.                                               *)
LEMMA DivFacts ==
  ASSUME NEW m \in Nat, NEW base \in Bases
  PROVE  /\ m % base \in 0 .. base - 1 /\ m \div base \in Nat
         /\ (m \div base) * base + (m % base) = m
         /\ m >= base => m \div base < m
<1>1. CASE base = 2
  BY <1>1
<1>2. CASE base = 8
  BY <1>2
<1>3. CASE base = 10
  BY <1>3
<1>4. CASE base = 16
  BY <1>4
<1> QED
  BY <1>1, <1>2, <1>3, <1>4 DEF Bases

(* There is such a function.                                               *)
LEMMA DividesExists ==
  ASSUME NEW base \in Bases, NEW N \in Nat
  PROVE  \E f : Divides(f, N, base)
<1> DEFINE Good(n) == \E f : Divides(f, n, base)
<1>0. Good(0)
  <2>1. PICK f : f = [m \in 0 .. 0 |-> <<m>>]
    OBVIOUS
  <2>2. \A m \in 0 .. 0 : m < base
    BY DEF Bases
  <2> QED
    BY <2>1, <2>2 DEF Divides
<1>1. ASSUME NEW k \in Nat, NEW n \in Nat, n = k + 1, Good(k) PROVE Good(n)
  <2>1. PICK g : Divides(g, k, base)
    BY <1>1
  <2>2. PICK f : f = [m \in 0 .. n |-> IF m = n THEN IF m < base THEN <<m>> ELSE <<m % base>> \o g[m \div base] ELSE g[m]]
    OBVIOUS
  <2>3. ASSUME NEW m \in 0 .. n
        PROVE  f[m] = IF m < base THEN <<m>> ELSE <<m % base>> \o f[m \div base]
    <3>1. CASE m < base
      <4>1. m # n => g[m] = <<m>>
        <5>1. m # n => m \in 0 .. k
          BY <1>1
        <5> QED
          BY <2>1, <3>1, <5>1 DEF Divides
      <4> QED
        BY <2>2, <3>1, <4>1
    <3>2. CASE ~(m < base)
      <4>1. m >= base /\ m \in Nat
        BY <3>2 DEF Bases
      <4>2. PICK d \in Nat : d = m \div base /\ d < m
        BY <4>1, DivFacts
      <4>3. d \in 0 .. n /\ d # n /\ d \in 0 .. k
        BY <1>1, <4>2
      <4>4. f[d] = g[d]
        BY <2>2, <4>3
      <4>5. m # n => g[m] = <<m % base>> \o g[m \div base]
        <5>1. m # n => m \in 0 .. k
          BY <1>1
        <5> QED
          BY <2>1, <3>2, <5>1 DEF Divides
      <4>6. f[m] = <<m % base>> \o g[m \div base]
        BY <2>2, <3>2, <4>5
      <4> QED
        BY <3>2, <4>2, <4>4, <4>6
    <3> QED
      BY <3>1, <3>2
  <2>4. f = [m \in 0 .. n |-> f[m]]
    BY <2>2
  <2> QED
    BY <2>3, <2>4 DEF Divides
<1> DEFINE Bad == {n \in 0 .. N : ~Good(n)}
<1> HIDE DEF Good
<1>2. ASSUME NEW n \in Bad, \A j \in Bad : n <= j PROVE FALSE
  <2>1. n # 0 /\ n \in 0 .. N
    BY <1>0, <1>2
  <2>2. PICK k \in Nat : n = k + 1
    <3>1. n - 1 \in Nat /\ n = (n - 1) + 1
      BY <2>1
    <3> QED
      BY <3>1
  <2>3. k \in 0 .. N /\ ~(n <= k) /\ n \in Nat
    BY <2>1, <2>2
  <2>4. Good(k)
    BY <1>2, <2>3
  <2> QED
    BY <1>1, <1>2, <2>2, <2>3, <2>4
<1>3. Bad \subseteq Nat
  OBVIOUS
<1>4. Bad = {}
  BY <1>2, <1>3, Smallest
<1>5. N \in 0 .. N
  OBVIOUS
<1> QED
  BY <1>4, <1>5 DEF Good

(* Divide is its last value.                                               *)
LEMMA DivideIs ==
  ASSUME NEW base \in Bases, NEW N \in Nat
  PROVE  \E f : Divides(f, N, base) /\ Divide(N, base) = f[N]
<1>1. PICK h : h = CHOOSE f : f = [m \in 0 .. N |-> IF m < base THEN <<m>> ELSE <<m % base>> \o f[m \div base]]
  OBVIOUS
<1>2. PICK g : g = [m \in 0 .. N |-> IF m < base THEN <<m>> ELSE <<m % base>> \o g[m \div base]]
  BY DividesExists DEF Divides
<1>3. h = [m \in 0 .. N |-> IF m < base THEN <<m>> ELSE <<m % base>> \o h[m \div base]]
  BY <1>1, <1>2
<1>4. Divide(N, base) = h[N]
  BY <1>1 DEF Divide
<1> QED
  BY <1>3, <1>4 DEF Divides

(* The tables.                                                             *)
Tables == {DIGITS, Digits}

(* The digit d is written so that its value is d, and no table has it      *)
(* twice.                                                                  *)
LEMMA TableValue ==
  ASSUME NEW d \in 0 .. 15, NEW T \in Tables
  PROVE  ValueOf(T[d + 1]) = d
<1>1. \A v \in 0 .. 15 : T[d + 1] \in {DIGITS[v + 1], Digits[v + 1]} => v = d
  <2>0. \A v \in 0 .. 15 : v \in {0, 1, 2, 3, 4, 5, 6, 7, 8, 9, 10, 11, 12, 13, 14, 15}
    OBVIOUS
  <2>1. CASE d \in {0, 1, 2, 3}
    BY <2>0, <2>1 DEF DIGITS, Digits, Tables
  <2>2. CASE d \in {4, 5, 6, 7}
    BY <2>0, <2>2 DEF DIGITS, Digits, Tables
  <2>3. CASE d \in {8, 9, 10, 11}
    BY <2>0, <2>3 DEF DIGITS, Digits, Tables
  <2>4. CASE d \in {12, 13, 14, 15}
    BY <2>0, <2>4 DEF DIGITS, Digits, Tables
  <2> QED
    BY <2>0, <2>1, <2>2, <2>3, <2>4
<1>2. T[d + 1] \in {DIGITS[d + 1], Digits[d + 1]}
  BY DEF Tables
<1> QED
  BY <1>1, <1>2 DEF ValueOf

(* And it is a digit.                                                      *)
LEMMA TableDigit ==
  ASSUME NEW base \in Bases, NEW d \in 0 .. base - 1, NEW T \in Tables
  PROVE  IsDigit(T[d + 1], base) /\ d \in 0 .. 15 /\ T[d + 1] \in Figures
<1>1. d \in 0 .. 15
  BY DEF Bases
<1>2. T[d + 1] \in {DIGITS[d + 1], Digits[d + 1]}
  BY DEF Tables
<1>3. IsDigit(T[d + 1], base)
  BY <1>2 DEF IsDigit
<1> QED
  BY <1>1, <1>2, <1>3, TableFacts

(* c is a and b after it.                                                  *)
Joins(c, a, b, S) ==
  /\ c \in Seq(S) /\ Len(c) = Len(a) + Len(b)
  /\ \A j \in 1 .. Len(a) : c[j] = a[j]
  /\ \A j \in 1 .. Len(b) : c[Len(a) + j] = b[j]

(* So it is.                                                               *)
LEMMA JoinIs ==
  ASSUME NEW S, NEW a \in Seq(S), NEW b \in Seq(S)
  PROVE  Joins(a \o b, a, b, S)
<1>1. PICK m \in Nat, n \in Nat : m = Len(a) /\ n = Len(b)
  OBVIOUS
<1>2. PICK c : c = a \o b
  OBVIOUS
<1>3. c \in Seq(S) /\ Len(c) = m + n
  BY <1>1, <1>2
<1>4. ASSUME NEW j \in 1 .. m PROVE c[j] = a[j]
  BY <1>1, <1>2
<1>5. ASSUME NEW j \in 1 .. n PROVE c[m + j] = b[j]
  <2>1. m + j \in 1 .. m + n /\ ~(m + j <= m) /\ (m + j) - m = j
    BY <1>1
  <2>2. \A i \in 1 .. m + n : c[i] = IF i <= m THEN a[i] ELSE b[i - m]
    BY <1>1, <1>2
  <2> QED
    BY <2>1, <2>2
<1> QED
  BY <1>1, <1>2, <1>3, <1>4, <1>5 DEF Joins

(* The text t with characters behind it that are no digits.                *)
Trails(t, u, base) ==
  /\ Len(u) <= Len(t) /\ \A j \in 1 .. Len(u) : t[j] = u[j]
  /\ \A j \in Len(u) + 1 .. Len(t) : ~IsDigit(t[j], base)

(* They do not change its value.                                           *)
LEMMA ValueKeep ==
  ASSUME NEW S, NEW t \in Seq(S), NEW u \in Seq(S), NEW base \in 1 .. 16, Trails(t, u, base)
  PROVE  Value(t, base) = Value(u, base)
<1>1. PICK f : Worths(f, t, base) /\ Value(t, base) = f[Len(t)]
  BY ValueFold
<1>2. PICK g : Worths(g, u, base) /\ Value(u, base) = g[Len(u)]
  BY ValueFold
<1>3. PICK m \in Nat, n \in Nat : m = Len(u) /\ n = Len(t) /\ m <= n
  BY DEF Trails
<1>4. ASSUME NEW k \in 1 .. m, f[k - 1] = g[k - 1] PROVE f[k] = g[k]
  <2>1. k \in 1 .. n
    BY <1>3
  <2> QED
    BY <1>1, <1>2, <1>3, <1>4, <2>1 DEF Worths, Trails
<1>5. f[m] = g[m]
  <2> DEFINE Bad == {k \in 0 .. m : f[k] # g[k]}
  <2>1. ASSUME NEW k \in Bad, \A j \in Bad : k <= j PROVE FALSE
    <3>1. k \in 1 .. m /\ k - 1 \in 0 .. m /\ ~(k <= k - 1)
      BY <1>1, <1>2, <2>1 DEF Worths
    <3>2. f[k - 1] = g[k - 1]
      BY <2>1, <3>1
    <3> QED
      BY <1>4, <2>1, <3>1, <3>2
  <2>2. Bad \subseteq Nat
    OBVIOUS
  <2>3. Bad = {}
    BY <2>1, <2>2, Smallest
  <2>4. m \in 0 .. m
    OBVIOUS
  <2> QED
    BY <2>3, <2>4
<1>6. ASSUME NEW k \in m + 1 .. n, f[k - 1] = g[m] PROVE f[k] = g[m]
  <2>1. k \in 1 .. n
    BY <1>3
  <2>2. f[k] = Worth(f[k - 1], t[k], base) /\ ~IsDigit(t[k], base)
    BY <1>1, <1>3, <2>1 DEF Worths, Trails
  <2> QED
    BY <1>6, <2>2 DEF Worth
<1>7. f[n] = g[m]
  <2> DEFINE Bad == {k \in m .. n : f[k] # g[m]}
  <2>1. ASSUME NEW k \in Bad, \A j \in Bad : k <= j PROVE FALSE
    <3>1. k \in m + 1 .. n /\ k - 1 \in m .. n /\ ~(k <= k - 1)
      BY <1>3, <1>5, <2>1
    <3>2. f[k - 1] = g[m]
      BY <2>1, <3>1
    <3> QED
      BY <1>6, <2>1, <3>1, <3>2
  <2>2. Bad \subseteq Nat
    OBVIOUS
  <2>3. Bad = {}
    BY <2>1, <2>2, Smallest
  <2>4. n \in m .. n
    BY <1>3
  <2> QED
    BY <2>3, <2>4
<1> QED
  BY <1>1, <1>2, <1>3, <1>7

(* The text t with one more character.                                     *)
Longer(t, u) == Len(t) = Len(u) + 1 /\ \A j \in 1 .. Len(u) : t[j] = u[j]

(* The value with one more digit.                                          *)
LEMMA ValueNext ==
  ASSUME NEW S, NEW t \in Seq(S), NEW u \in Seq(S), NEW base \in 1 .. 16,
         Longer(t, u)
  PROVE  Value(t, base) = Worth(Value(u, base), t[Len(t)], base)
<1>1. PICK f : Worths(f, t, base) /\ Value(t, base) = f[Len(t)]
  BY ValueFold
<1>2. PICK g : Worths(g, u, base) /\ Value(u, base) = g[Len(u)]
  BY ValueFold
<1>3. PICK m \in Nat, n \in Nat : m = Len(u) /\ n = Len(t) /\ n = m + 1
  BY DEF Longer
<1>4. ASSUME NEW k \in 1 .. m, f[k - 1] = g[k - 1] PROVE f[k] = g[k]
  <2>1. k \in 1 .. n
    BY <1>3
  <2> QED
    BY <1>1, <1>2, <1>3, <1>4, <2>1 DEF Worths, Longer
<1>5. f[m] = g[m]
  <2> DEFINE Bad == {k \in 0 .. m : f[k] # g[k]}
  <2>1. ASSUME NEW k \in Bad, \A j \in Bad : k <= j PROVE FALSE
    <3>1. k \in 1 .. m /\ k - 1 \in 0 .. m /\ ~(k <= k - 1)
      BY <1>1, <1>2, <2>1 DEF Worths
    <3>2. f[k - 1] = g[k - 1]
      BY <2>1, <3>1
    <3> QED
      BY <1>4, <2>1, <3>1, <3>2
  <2>2. Bad \subseteq Nat
    OBVIOUS
  <2>3. Bad = {}
    BY <2>1, <2>2, Smallest
  <2>4. m \in 0 .. m
    OBVIOUS
  <2> QED
    BY <2>3, <2>4
<1>6. n \in 1 .. n /\ n - 1 = m
  BY <1>3
<1>7. f[n] = Worth(f[m], t[n], base)
  BY <1>1, <1>3, <1>6 DEF Worths
<1> QED
  BY <1>1, <1>2, <1>3, <1>5, <1>7

-----------------------------------------------------------------------------
(* The characters number writes for the digits tmp.                        *)
Spell(tmp, T) == Reverse([j \in DOMAIN tmp |-> T[tmp[j] + 1]])

(* What a sequence holds.                                                  *)
LEMMA InSeq ==
  ASSUME NEW S, NEW t \in Seq(S), NEW i \in 1 .. Len(t)
  PROVE  t[i] \in S
OBVIOUS

(* The highest digit is written first.                                     *)
LEMMA SpellFacts ==
  ASSUME NEW base \in Bases, NEW tmp \in Seq(0 .. base - 1), NEW T \in Tables
  PROVE  /\ Spell(tmp, T) \in Seq(Figures) /\ Len(Spell(tmp, T)) = Len(tmp)
         /\ \A j \in 1 .. Len(tmp) : /\ Spell(tmp, T)[j] = T[tmp[Len(tmp) - j + 1] + 1]
                                     /\ IsDigit(Spell(tmp, T)[j], base)
<1>1. PICK n \in Nat : n = Len(tmp) /\ DOMAIN tmp = 1 .. n
  OBVIOUS
<1>2. PICK w : w = [j \in 1 .. n |-> T[tmp[j] + 1]]
  OBVIOUS
<1>3. Len(w) = n
  BY <1>2
<1>4. PICK s : s = Spell(tmp, T)
  OBVIOUS
<1>5. s = [j \in 1 .. n |-> w[(n - j) + 1]]
  BY <1>1, <1>2, <1>3, <1>4 DEF Spell, Reverse
<1>6. ASSUME NEW j \in 1 .. n
      PROVE  s[j] = T[tmp[n - j + 1] + 1] /\ IsDigit(s[j], base) /\ s[j] \in Figures
  <2>1. PICK i \in 1 .. n : i = n - j + 1 /\ i = (n - j) + 1
    <3>1. n - j + 1 \in 1 .. n /\ n - j + 1 = (n - j) + 1
      OBVIOUS
    <3> QED
      BY <3>1
  <2>2. s[j] = w[i] /\ w[i] = T[tmp[i] + 1]
    BY <1>2, <1>5, <2>1
  <2>3. PICK d \in 0 .. base - 1 : d = tmp[i]
    <3>1. i \in 1 .. Len(tmp)
      BY <1>1, <2>1
    <3>2. PICK D : D = 0 .. base - 1
      OBVIOUS
    <3>3. tmp \in Seq(D)
      BY <3>2
    <3>4. tmp[i] \in D
      BY <3>1, <3>3, InSeq
    <3> QED
      BY <3>2, <3>4
  <2>4. IsDigit(T[d + 1], base) /\ T[d + 1] \in Figures
    BY TableDigit
  <2> QED
    BY <2>1, <2>2, <2>3, <2>4
<1>7. s = [j \in 1 .. n |-> s[j]]
  BY <1>5
<1>8. s \in Seq(Figures) /\ Len(s) = n
  BY <1>6, <1>7
<1> QED
  BY <1>1, <1>4, <1>6, <1>8

(* tmp is the digits of m: it is not empty, and writing it down gives m.   *)
Spells(tmp, m, base) ==
  /\ tmp \in Seq(0 .. base - 1) /\ Len(tmp) > 0
  /\ \A T \in Tables : Value(Spell(tmp, T), base) = m

(* One digit.                                                              *)
LEMMA SpellOne ==
  ASSUME NEW base \in Bases, NEW m \in 0 .. base - 1
  PROVE  Spells(<<m>>, m, base)
<1>0. base \in 1 .. 16
  BY DEF Bases
<1>1. PICK tmp : tmp = <<m>>
  OBVIOUS
<1>2. tmp \in Seq(0 .. base - 1) /\ Len(tmp) = 1 /\ tmp[1] = m
  BY <1>1
<1>3. ASSUME NEW T \in Tables PROVE Value(Spell(tmp, T), base) = m
  <2>1. PICK s : s = Spell(tmp, T)
    OBVIOUS
  <2>2. s \in Seq(Figures) /\ Len(s) = 1 /\ s[1] = T[m + 1] /\ IsDigit(s[1], base)
    <3>1. 1 \in 1 .. Len(tmp) /\ Len(tmp) - 1 + 1 = 1
      BY <1>2
    <3> QED
      BY <1>2, <2>1, <3>1, SpellFacts
  <2>3. PICK f : Worths(f, s, base) /\ Value(s, base) = f[Len(s)]
    BY <1>0, <2>2, ValueFold
  <2>4. f[1] = Worth(f[0], s[1], base) /\ f[0] = 0
    <3>1. 1 \in 1 .. Len(s) /\ 1 - 1 = 0
      BY <2>2
    <3> QED
      BY <2>3, <3>1 DEF Worths
  <2>5. ValueOf(s[1]) = m /\ 0 * base + m = m
    <3>1. m \in 0 .. 15
      BY DEF Bases
    <3> QED
      BY <1>0, <2>2, <3>1, TableValue
  <2> QED
    BY <2>1, <2>2, <2>3, <2>4, <2>5 DEF Worth
<1> QED
  BY <1>1, <1>2, <1>3 DEF Spells

(* A digit more.                                                           *)
LEMMA SpellMore ==
  ASSUME NEW base \in Bases, NEW m \in Nat, NEW t, Spells(t, m \div base, base)
  PROVE  Spells(<<m % base>> \o t, m, base)
<1>0. base \in 1 .. 16
  BY DEF Bases
<1>1. PICK d \in 0 .. base - 1, q \in Nat : d = m % base /\ q = m \div base /\ q * base + d = m
  BY DivFacts
<1>2. PICK n \in Nat : n = Len(t) /\ n > 0 /\ t \in Seq(0 .. base - 1)
  BY DEF Spells
<1>3. PICK tmp : tmp = <<d>> \o t
  OBVIOUS
<1>4. /\ tmp \in Seq(0 .. base - 1) /\ Len(tmp) = n + 1 /\ tmp[1] = d
      /\ \A j \in 1 .. n : tmp[j + 1] = t[j]
  <2>1. PICK e : e = <<d>>
    OBVIOUS
  <2>2. e \in Seq(0 .. base - 1) /\ Len(e) = 1 /\ e[1] = d
    BY <2>1
  <2>3. Joins(e \o t, e, t, 0 .. base - 1)
    BY <1>2, <2>2, JoinIs
  <2>4. tmp \in Seq(0 .. base - 1) /\ Len(tmp) = 1 + n /\ tmp[1] = d /\ \A j \in 1 .. n : tmp[1 + j] = t[j]
    BY <1>2, <1>3, <2>1, <2>2, <2>3 DEF Joins
  <2>5. 1 + n = n + 1 /\ \A j \in 1 .. n : 1 + j = j + 1
    OBVIOUS
  <2> QED
    BY <2>4, <2>5
<1>5. ASSUME NEW T \in Tables PROVE Value(Spell(tmp, T), base) = m
  <2>1. PICK s, u : s = Spell(tmp, T) /\ u = Spell(t, T)
    OBVIOUS
  <2>2. /\ s \in Seq(Figures) /\ Len(s) = n + 1
        /\ \A j \in 1 .. n + 1 : s[j] = T[tmp[(n + 1) - j + 1] + 1] /\ IsDigit(s[j], base)
    <3>1. PICK k \in Nat : k = n + 1
      OBVIOUS
    <3>2. tmp \in Seq(0 .. base - 1) /\ Len(tmp) = k
      BY <1>4, <3>1
    <3>3. /\ s \in Seq(Figures) /\ Len(s) = k
          /\ \A j \in 1 .. k : s[j] = T[tmp[k - j + 1] + 1] /\ IsDigit(s[j], base)
      BY <2>1, <3>2, SpellFacts
    <3> QED
      BY <3>1, <3>3
  <2>3. /\ u \in Seq(Figures) /\ Len(u) = n
        /\ \A j \in 1 .. n : u[j] = T[t[n - j + 1] + 1]
    BY <1>2, <2>1, SpellFacts
  <2>4. ASSUME NEW j \in 1 .. n PROVE s[j] = u[j]
    <3>1. PICK i \in 1 .. n : i = n - j + 1 /\ (n + 1) - j + 1 = i + 1
      <4>1. n - j + 1 \in 1 .. n /\ (n + 1) - j + 1 = (n - j + 1) + 1
        OBVIOUS
      <4> QED
        BY <4>1
    <3>2. tmp[i + 1] = t[i] /\ j \in 1 .. n + 1
      BY <1>4, <3>1
    <3> QED
      BY <2>2, <2>3, <3>1, <3>2
  <2>5. s[n + 1] = T[d + 1] /\ IsDigit(s[n + 1], base)
    <3>1. n + 1 \in 1 .. n + 1 /\ (n + 1) - (n + 1) + 1 = 1
      OBVIOUS
    <3> QED
      BY <1>4, <2>2, <3>1
  <2>6. Value(s, base) = Worth(Value(u, base), s[n + 1], base)
    <3>1. Longer(s, u) /\ s \in Seq(Figures) /\ u \in Seq(Figures) /\ Len(s) = n + 1
      BY <2>2, <2>3, <2>4 DEF Longer
    <3>2. Value(s, base) = Worth(Value(u, base), s[Len(s)], base)
      BY <1>0, <3>1, ValueNext
    <3> QED
      BY <3>1, <3>2
  <2>7. Value(u, base) = q
    BY <1>1, <2>1 DEF Spells
  <2>8. ValueOf(s[n + 1]) = d
    <3>1. d \in 0 .. 15
      BY DEF Bases
    <3> QED
      BY <2>5, <3>1, TableValue
  <2> QED
    BY <1>1, <2>1, <2>5, <2>6, <2>7, <2>8 DEF Worth
<1>6. Len(tmp) > 0
  BY <1>4
<1> QED
  BY <1>1, <1>3, <1>4, <1>5, <1>6 DEF Spells

(* Divide spells its argument.                                             *)
LEMMA DivideRight ==
  ASSUME NEW base \in Bases, NEW N \in Nat
  PROVE  Spells(Divide(N, base), N, base)
<1>1. PICK f : Divides(f, N, base) /\ Divide(N, base) = f[N]
  BY DivideIs
<1>2. ASSUME NEW m \in 0 .. N, m >= base => Spells(f[m \div base], m \div base, base)
      PROVE  Spells(f[m], m, base)
  <2>1. CASE m < base
    <3>1. f[m] = <<m>> /\ m \in 0 .. base - 1
      BY <1>1, <2>1 DEF Divides, Bases
    <3> QED
      BY <3>1, SpellOne
  <2>2. CASE m >= base
    <3>0. ~(m < base) /\ m \in Nat
      BY <2>2 DEF Bases
    <3>1. f[m] = <<m % base>> \o f[m \div base]
      BY <1>1, <3>0 DEF Divides
    <3> QED
      BY <1>2, <2>2, <3>0, <3>1, SpellMore
  <2> QED
    BY <2>1, <2>2 DEF Bases
<1> DEFINE Bad == {m \in 0 .. N : ~Spells(f[m], m, base)}
<1>3. ASSUME NEW m \in Bad, \A j \in Bad : m <= j PROVE FALSE
  <2>1. CASE m >= base
    <3>1. PICK q \in Nat : q = m \div base /\ q < m
      BY <2>1, DivFacts
    <3>2. q \in 0 .. N /\ ~(m <= q)
      BY <3>1
    <3>3. Spells(f[q], q, base)
      BY <1>3, <3>2
    <3> QED
      BY <1>2, <1>3, <3>1, <3>3
  <2>2. CASE ~(m >= base)
    BY <1>2, <1>3, <2>2
  <2> QED
    BY <2>1, <2>2
<1>4. Bad \subseteq Nat
  OBVIOUS
<1>5. Bad = {}
  BY <1>3, <1>4, Smallest
<1>6. N \in 0 .. N
  OBVIOUS
<1> QED
  BY <1>1, <1>5, <1>6

(* t has u after its first k characters.                                   *)
Holds(t, k, u) == k + Len(u) <= Len(t) /\ \A j \in 1 .. Len(u) : t[k + j] = u[j]

(* What is put together holds its parts.                                   *)
LEMMA JoinHolds ==
  ASSUME NEW S, NEW a \in Seq(S), NEW b \in Seq(S)
  PROVE  /\ a \o b \in Seq(S) /\ Len(a \o b) = Len(a) + Len(b)
         /\ Holds(a \o b, Len(a), b) /\ Holds(a \o b, 0, a)
<1>1. PICK c : c = a \o b
  OBVIOUS
<1>2. PICK m \in Nat, n \in Nat : m = Len(a) /\ n = Len(b)
  OBVIOUS
<1>3. /\ c \in Seq(S) /\ Len(c) = m + n
      /\ \A j \in 1 .. m : c[j] = a[j]
      /\ \A j \in 1 .. n : c[m + j] = b[j]
  BY <1>1, <1>2, JoinIs DEF Joins
<1>4. 0 + m <= m + n /\ m + n <= m + n /\ \A j \in 1 .. m : 0 + j = j
  BY <1>2
<1> QED
  BY <1>1, <1>2, <1>3, <1>4 DEF Holds

(* And what these hold.                                                    *)
LEMMA JoinKeeps ==
  ASSUME NEW S, NEW a \in Seq(S), NEW b \in Seq(S), NEW k \in Nat, NEW u \in Seq(S), Holds(a, k, u)
  PROVE  Holds(a \o b, k, u)
<1>1. PICK c : c = a \o b
  OBVIOUS
<1>2. PICK m \in Nat, n \in Nat, l \in Nat : m = Len(a) /\ n = Len(b) /\ l = Len(u)
  OBVIOUS
<1>3. Len(c) = m + n /\ \A j \in 1 .. m : c[j] = a[j]
  BY <1>1, <1>2, JoinIs DEF Joins
<1>4. k + l <= m /\ \A j \in 1 .. l : a[k + j] = u[j]
  BY <1>2 DEF Holds
<1>5. k + l <= m + n /\ \A j \in 1 .. l : k + j \in 1 .. m
  BY <1>2, <1>4
<1> QED
  BY <1>1, <1>2, <1>3, <1>4, <1>5 DEF Holds

(* The seven parts of what number writes: blanks, sign, prefix, zeros for  *)
(* the size and for the precision, digits, blanks.                         *)
Strung(s, A, G, P, B, C, R, D, S) ==
  /\ s \in Seq(S)
  /\ Len(s) = Len(A) + Len(G) + Len(P) + Len(B) + Len(C) + Len(R) + Len(D)
  /\ Holds(s, 0, A) /\ Holds(s, Len(A), G) /\ Holds(s, Len(A) + Len(G), P)
  /\ Holds(s, Len(A) + Len(G) + Len(P), B)
  /\ Holds(s, Len(A) + Len(G) + Len(P) + Len(B), C)
  /\ Holds(s, Len(A) + Len(G) + Len(P) + Len(B) + Len(C), R)
  /\ Holds(s, Len(A) + Len(G) + Len(P) + Len(B) + Len(C) + Len(R), D)

(* It has them all.                                                        *)
LEMMA StringIs ==
  ASSUME NEW S, NEW A \in Seq(S), NEW G \in Seq(S), NEW P \in Seq(S), NEW B \in Seq(S),
         NEW C \in Seq(S), NEW R \in Seq(S), NEW D \in Seq(S)
  PROVE  Strung(A \o G \o P \o B \o C \o R \o D, A, G, P, B, C, R, D, S)
<1>1. PICK s1 : s1 = A \o G
  OBVIOUS
<1>2. PICK s2 : s2 = s1 \o P
  OBVIOUS
<1>3. PICK s3 : s3 = s2 \o B
  OBVIOUS
<1>4. PICK s4 : s4 = s3 \o C
  OBVIOUS
<1>5. PICK s5 : s5 = s4 \o R
  OBVIOUS
<1>6. PICK s6 : s6 = s5 \o D
  OBVIOUS
<1>a. PICK k0 \in Nat : k0 = Len(A)
  OBVIOUS
<1>b. PICK k1 \in Nat : k1 = k0 + Len(G)
  OBVIOUS
<1>c. PICK k2 \in Nat : k2 = k1 + Len(P)
  OBVIOUS
<1>d. PICK k3 \in Nat : k3 = k2 + Len(B)
  OBVIOUS
<1>e. PICK k4 \in Nat : k4 = k3 + Len(C)
  OBVIOUS
<1>f. PICK k5 \in Nat : k5 = k4 + Len(R)
  OBVIOUS
<1>z. 0 \in Nat
  OBVIOUS
<1> HIDE DEF Holds
<1>11. s1 \in Seq(S) /\ Len(s1) = Len(A) + Len(G) /\ Holds(s1, Len(A), G) /\ Holds(s1, 0, A)
  BY <1>1, JoinHolds
<1>n1. Len(s1) = k1
  BY <1>11, <1>a, <1>b
<1>12. s2 \in Seq(S) /\ Len(s2) = Len(s1) + Len(P) /\ Holds(s2, Len(s1), P)
  BY <1>2, JoinHolds, <1>11
<1>n2. Len(s2) = k2
  BY <1>12, <1>n1, <1>c
<1>k2. Holds(s2, 0, A) /\ Holds(s2, k0, G)
  BY <1>2, <1>11, <1>z, JoinKeeps, <1>a
<1>13. s3 \in Seq(S) /\ Len(s3) = Len(s2) + Len(B) /\ Holds(s3, Len(s2), B)
  BY <1>3, JoinHolds, <1>12
<1>n3. Len(s3) = k3
  BY <1>13, <1>n2, <1>d
<1>k3. Holds(s3, 0, A) /\ Holds(s3, k0, G) /\ Holds(s3, k1, P)
  BY <1>3, <1>12, <1>z, JoinKeeps, <1>k2, <1>n1
<1>14. s4 \in Seq(S) /\ Len(s4) = Len(s3) + Len(C) /\ Holds(s4, Len(s3), C)
  BY <1>4, JoinHolds, <1>13
<1>n4. Len(s4) = k4
  BY <1>14, <1>n3, <1>e
<1>k4. Holds(s4, 0, A) /\ Holds(s4, k0, G) /\ Holds(s4, k1, P) /\ Holds(s4, k2, B)
  BY <1>4, <1>13, <1>z, JoinKeeps, <1>k3, <1>n2
<1>15. s5 \in Seq(S) /\ Len(s5) = Len(s4) + Len(R) /\ Holds(s5, Len(s4), R)
  BY <1>5, JoinHolds, <1>14
<1>n5. Len(s5) = k5
  BY <1>15, <1>n4, <1>f
<1>k5. Holds(s5, 0, A) /\ Holds(s5, k0, G) /\ Holds(s5, k1, P) /\ Holds(s5, k2, B) /\ Holds(s5, k3, C)
  BY <1>5, <1>14, <1>z, JoinKeeps, <1>k4, <1>n3
<1>16. s6 \in Seq(S) /\ Len(s6) = Len(s5) + Len(D) /\ Holds(s6, Len(s5), D)
  BY <1>6, JoinHolds, <1>15
<1>k6. Holds(s6, 0, A) /\ Holds(s6, k0, G) /\ Holds(s6, k1, P) /\ Holds(s6, k2, B) /\ Holds(s6, k3, C) /\ Holds(s6, k4, R)
  BY <1>6, <1>15, <1>z, JoinKeeps, <1>k5, <1>n4
<1>l. Len(s6) = k5 + Len(D) /\ Holds(s6, k5, D)
  BY <1>16, <1>n5
<1>17. s6 = A \o G \o P \o B \o C \o R \o D
  BY <1>1, <1>2, <1>3, <1>4, <1>5, <1>6
<1> QED
  BY <1>16, <1>17, <1>k6, <1>l, <1>a, <1>b, <1>c, <1>d, <1>e, <1>f DEF Strung

(* Blanks and zeros.                                                       *)
LEMMA FillFacts ==
  ASSUME NEW ch, NEW n \in Int
  PROVE  /\ Fill(ch, n) \in Seq({ch}) /\ Len(Fill(ch, n)) = IF n > 0 THEN n ELSE 0
         /\ \A j \in 1 .. Len(Fill(ch, n)) : Fill(ch, n)[j] = ch
<1>1. PICK m \in Nat : m = Larger(n, 0) /\ m = IF n > 0 THEN n ELSE 0
  BY DEF Larger
<1>2. Fill(ch, n) = [j \in 1 .. m |-> ch]
  BY <1>1 DEF Fill
<1>3. PICK f : f = [j \in 1 .. m |-> ch]
  OBVIOUS
<1>4. f \in Seq({ch}) /\ Len(f) = m /\ \A j \in 1 .. m : f[j] = ch
  BY <1>3
<1> QED
  BY <1>1, <1>2, <1>3, <1>4

(* A blank, and that it is no other character.                             *)
Gap == " "

(* No other mark is a blank, nor a digit.                                  *)
LEMMA GapFacts ==
  /\ Gap \notin Figures /\ Gap # "-" /\ Gap # "+" /\ Gap # "x" /\ Gap # "X"
  /\ Gap # EOF /\ IsSpace(Gap)
BY Zenon DEF Gap, Figures, EOF, IsSpace, White

(* The characters number writes.                                           *)
Marks == Figures \cup {Gap, "-", "+", "x", "X"}

(* A sequence over some of the characters.                                 *)
LEMMA Widen ==
  ASSUME NEW S, NEW U, S \subseteq U, NEW t \in Seq(S)
  PROVE  t \in Seq(U)
<1>1. PICK n \in Nat : n = Len(t)
  OBVIOUS
<1>2. t = [j \in 1 .. n |-> t[j]] /\ \A j \in 1 .. n : t[j] \in U
  BY <1>1
<1> QED
  BY <1>2

(* The sign and the prefix, as number chooses them.                        *)
Sign(num, type) ==
  IF Negative(num, type) THEN <<"-">>
  ELSE IF "PLUS" \in type THEN <<"+">>
  ELSE IF "SPACE" \in type THEN <<Gap>> ELSE <<>>

Lead0(base, type) ==
  IF "SPECIAL" \notin type THEN <<>>
  ELSE IF base = 16 THEN <<"0", IF "SMALL" \in type THEN "x" ELSE "X">>
  ELSE IF base = 8 THEN <<"0">> ELSE <<>>

Table(type)   == IF "SMALL" \in type THEN Digits ELSE DIGITS
Zeroed(type)  == "ZEROPAD" \in type /\ "LEFT" \notin type

(* What they can be.                                                       *)
LEMMA SignIs ==
  ASSUME NEW num, NEW type
  PROVE  /\ Sign(num, type) \in Seq(Marks) /\ Len(Sign(num, type)) \in {0, 1}
         /\ Negative(num, type) => Len(Sign(num, type)) = 1
         /\ Len(Sign(num, type)) = 1 =>
              /\ Sign(num, type)[1] = "-" <=> Negative(num, type)
              /\ Sign(num, type)[1] \in {"-", "+", Gap}
              /\ Sign(num, type)[1] = Gap => "SPACE" \in type
<1>1. "-" \in Marks /\ "+" \in Marks /\ Gap \in Marks
  BY DEF Marks
<1>2. CASE Negative(num, type)
  <2>1. Sign(num, type) = <<"-">>
    BY <1>2 DEF Sign
  <2>2. <<"-">> \in Seq(Marks) /\ Len(<<"-">>) = 1 /\ <<"-">>[1] = "-"
    BY <1>1
  <2>3. Len(Sign(num, type)) = 1 /\ Sign(num, type) \in Seq(Marks) /\ 1 \in {0, 1}
    BY <2>1, <2>2
  <2>4. Sign(num, type)[1] = "-"
    BY <2>1, <2>2
  <2> QED
    BY <1>2, <2>3, <2>4, GapFacts, Zenon
<1>3. CASE ~Negative(num, type) /\ "PLUS" \in type
  <2>1. Sign(num, type) = <<"+">>
    BY <1>3 DEF Sign
  <2>2. <<"+">> \in Seq(Marks) /\ Len(<<"+">>) = 1 /\ <<"+">>[1] = "+"
    BY <1>1
  <2>3. Len(Sign(num, type)) = 1 /\ Sign(num, type) \in Seq(Marks) /\ 1 \in {0, 1}
    BY <2>1, <2>2
  <2>4. Sign(num, type)[1] = "+"
    BY <2>1, <2>2
  <2> QED
    BY <1>3, <2>3, <2>4, GapFacts, Zenon
<1>4. CASE ~Negative(num, type) /\ "PLUS" \notin type /\ "SPACE" \in type
  <2>1. Sign(num, type) = <<Gap>>
    BY <1>4 DEF Sign
  <2>2. <<Gap>> \in Seq(Marks) /\ Len(<<Gap>>) = 1 /\ <<Gap>>[1] = Gap
    BY <1>1
  <2>3. Len(Sign(num, type)) = 1 /\ Sign(num, type) \in Seq(Marks) /\ 1 \in {0, 1}
    BY <2>1, <2>2
  <2>4. Sign(num, type)[1] = Gap
    BY <2>1, <2>2
  <2> QED
    BY <1>4, <2>3, <2>4, GapFacts, Zenon
<1>5. CASE ~Negative(num, type) /\ "PLUS" \notin type /\ "SPACE" \notin type
  BY <1>5 DEF Sign
<1> QED
  BY <1>2, <1>3, <1>4, <1>5

(* The prefix.                                                             *)
LEMMA LeadIs ==
  ASSUME NEW base, NEW type
  PROVE  /\ Lead0(base, type) \in Seq(Marks) /\ Len(Lead0(base, type)) \in {0, 1, 2}
         /\ "SPECIAL" \notin type => Len(Lead0(base, type)) = 0
         /\ Len(Lead0(base, type)) > 0 => Lead0(base, type)[1] = "0"
         /\ Len(Lead0(base, type)) = 2 => Lead0(base, type)[2] \in {"x", "X"}
<1>1. "0" \in Marks /\ "x" \in Marks /\ "X" \in Marks
  BY DEF Marks, Figures
<1>2. CASE "SPECIAL" \notin type
  BY <1>2 DEF Lead0
<1>3. CASE "SPECIAL" \in type /\ base = 16
  <2>1. PICK x : x = (IF "SMALL" \in type THEN "x" ELSE "X") /\ x \in {"x", "X"}
    OBVIOUS
  <2>2. Lead0(base, type) = <<"0", x>>
    BY <1>3, <2>1 DEF Lead0
  <2>3. x \in Marks
    BY <2>1 DEF Marks
  <2>4. <<"0", x>> \in Seq(Marks) /\ Len(<<"0", x>>) = 2 /\ <<"0", x>>[1] = "0" /\ <<"0", x>>[2] = x
    BY <1>1, <2>3
  <2> QED
    BY <1>3, <2>1, <2>2, <2>4
<1>4. CASE "SPECIAL" \in type /\ base # 16 /\ base = 8
  BY <1>1, <1>4 DEF Lead0
<1>5. CASE "SPECIAL" \in type /\ base # 16 /\ base # 8
  BY <1>5 DEF Lead0
<1> QED
  BY <1>2, <1>3, <1>4, <1>5

(* How s is made up of the sign G, the prefix P and the digits R, with a   *)
(* blanks before them, z zeros among them and d blanks behind them.        *)
Laid(s, G, P, R, g, e, n, a, z, d) ==
  /\ s \in Seq(Marks) /\ Len(s) = a + g + e + z + n + d
  /\ \A j \in 1 .. a : s[j] = Gap
  /\ \A j \in 1 .. g : s[a + j] = G[j]
  /\ \A j \in 1 .. e : s[a + g + j] = P[j]
  /\ \A j \in 1 .. z : s[a + g + e + j] = "0"
  /\ \A j \in 1 .. n : s[a + g + e + z + j] = R[j]
  /\ \A j \in 1 .. d : s[a + g + e + z + n + j] = Gap

(* And what the numbers of these have to do with size and precision.       *)
Fitted(g, e, n, a, z, d, size, precision, type) ==
  /\ z + n >= precision /\ a + g + e + z + n + d >= size
  /\ a > 0 => a + g + e + z + n + d = size /\ "LEFT" \notin type
  /\ z > 0 => precision > n \/ Zeroed(type)

(* A run of one character.                                                 *)
Full(t, ch) == \A j \in 1 .. Len(t) : t[j] = ch

(* Seven parts, two of them zeros.                                         *)
LEMMA LaidIs ==
  ASSUME NEW A \in Seq(Marks), NEW G \in Seq(Marks), NEW P \in Seq(Marks), NEW B \in Seq(Marks),
         NEW C \in Seq(Marks), NEW R \in Seq(Marks), NEW D \in Seq(Marks),
         Full(A, Gap), Full(B, "0"), Full(C, "0"), Full(D, Gap)
  PROVE  Laid(A \o G \o P \o B \o C \o R \o D, G, P, R, Len(G), Len(P), Len(R),
              Len(A), Len(B) + Len(C), Len(D))
<1>1. PICK s : s = A \o G \o P \o B \o C \o R \o D
  OBVIOUS
<1>2. Strung(s, A, G, P, B, C, R, D, Marks)
  BY <1>1, StringIs
<1>a. PICK a \in Nat : a = Len(A)
  OBVIOUS
<1>g. PICK g \in Nat : g = Len(G)
  OBVIOUS
<1>p. PICK e \in Nat : e = Len(P)
  OBVIOUS
<1>b. PICK b \in Nat : b = Len(B)
  OBVIOUS
<1>c. PICK c \in Nat : c = Len(C)
  OBVIOUS
<1>n. PICK n \in Nat : n = Len(R)
  OBVIOUS
<1>d. PICK d \in Nat : d = Len(D)
  OBVIOUS
<1>3. /\ s \in Seq(Marks) /\ Len(s) = a + g + e + b + c + n + d
      /\ Holds(s, 0, A) /\ Holds(s, a, G) /\ Holds(s, a + g, P) /\ Holds(s, a + g + e, B)
      /\ Holds(s, a + g + e + b, C) /\ Holds(s, a + g + e + b + c, R)
      /\ Holds(s, a + g + e + b + c + n, D)
  BY <1>2, <1>a, <1>g, <1>p, <1>b, <1>c, <1>n, <1>d DEF Strung
<1>4. ASSUME NEW j \in 1 .. a PROVE s[j] = Gap
  <2>1. s[0 + j] = A[j] /\ 0 + j = j
    BY <1>3, <1>a DEF Holds
  <2> QED
    BY <1>a, <2>1 DEF Full
<1>5. \A j \in 1 .. g : s[a + j] = G[j]
  BY <1>3, <1>g DEF Holds
<1>6. \A j \in 1 .. e : s[a + g + j] = P[j]
  BY <1>3, <1>p DEF Holds
<1>7. ASSUME NEW j \in 1 .. b + c PROVE s[a + g + e + j] = "0"
  <2>1. CASE j \in 1 .. b
    BY <1>3, <1>b, <2>1 DEF Holds, Full
  <2>2. CASE ~(j \in 1 .. b)
    <3>1. PICK i \in 1 .. c : j = b + i
      <4>1. j - b \in 1 .. c /\ j = b + (j - b)
        BY <2>2
      <4> QED
        BY <4>1
    <3>2. s[a + g + e + b + i] = C[i]
      BY <1>3, <1>c DEF Holds
    <3>3. a + g + e + b + i = a + g + e + j
      BY <3>1
    <3> QED
      BY <1>c, <3>2, <3>3 DEF Full
  <2> QED
    BY <2>1, <2>2
<1>8. ASSUME NEW j \in 1 .. n PROVE s[a + g + e + (b + c) + j] = R[j]
  <2>1. s[a + g + e + b + c + j] = R[j]
    BY <1>3, <1>n DEF Holds
  <2>2. a + g + e + b + c + j = a + g + e + (b + c) + j
    OBVIOUS
  <2> QED
    BY <2>1, <2>2
<1>9. ASSUME NEW j \in 1 .. d PROVE s[a + g + e + (b + c) + n + j] = Gap
  <2>1. s[a + g + e + b + c + n + j] = D[j]
    BY <1>3, <1>d DEF Holds
  <2>2. a + g + e + b + c + n + j = a + g + e + (b + c) + n + j
    OBVIOUS
  <2> QED
    BY <1>d, <2>1, <2>2 DEF Full
<1>10. Len(s) = a + g + e + (b + c) + n + d
  BY <1>3
<1> QED
  BY <1>1, <1>a, <1>g, <1>p, <1>b, <1>c, <1>n, <1>d, <1>3, <1>4, <1>5, <1>6, <1>7, <1>8, <1>9, <1>10
  DEF Laid

(* The room left beside the sign, the prefix and the digits.               *)
PadOf(num, base, size, precision, type) ==
  size - Len(Sign(num, type)) - Len(Lead0(base, type))
       - Larger(Len(Divide(Magnitude(num, type), base)), precision)

(* What is divided is a number.                                            *)
LEMMA MagnitudeFacts ==
  ASSUME NEW num \in 0 .. WordMod - 1, NEW type
  PROVE  /\ Magnitude(num, type) \in Nat
         /\ (IF Negative(num, type) THEN -Magnitude(num, type) ELSE Magnitude(num, type))
              = IF "SIGN" \in type THEN Signed(num) ELSE num
<1>1. WordMod \in Nat \ {0} /\ num \in Nat /\ num < WordMod
  BY FormatAssumption
<1>2. CASE Negative(num, type)
  <2>1. "SIGN" \in type /\ 2 * num >= WordMod
    BY <1>2 DEF Negative
  <2>2. PICK m \in Nat : m = WordMod - num /\ m < WordMod
    BY <1>1, <2>1
  <2>3. m % WordMod = m
    BY <1>1, <2>2
  <2>4. Magnitude(num, type) = m
    BY <1>2, <2>2, <2>3 DEF Magnitude
  <2>5. Signed(num) = num - WordMod
    BY <2>1 DEF Signed
  <2> QED
    BY <1>1, <1>2, <2>1, <2>2, <2>4, <2>5
<1>3. CASE ~Negative(num, type)
  BY <1>1, <1>3 DEF Magnitude, Negative, Signed
<1> QED
  BY <1>2, <1>3

(* How number lays out its text.                                           *)
Layout(num, base, size, precision, type, s, G, P, R, g, e, n, a, z, d) ==
  /\ Laid(s, G, P, R, g, e, n, a, z, d) /\ Fitted(g, e, n, a, z, d, size, precision, type)
  /\ G = Sign(num, type) /\ P = Lead0(base, type)
  /\ R = Spell(Divide(Magnitude(num, type), base), Table(type))
  /\ g = Len(G) /\ e = Len(P) /\ n = Len(R)
  /\ g \in {0, 1} /\ e \in {0, 1, 2} /\ n \in Nat \ {0} /\ a \in Nat /\ z \in Nat /\ d \in Nat

(* It does.                                                                *)
LEMMA LayoutIs ==
  ASSUME NEW num \in 0 .. WordMod - 1, NEW base \in Bases, NEW size \in Int,
         NEW precision \in Int, NEW type
  PROVE  \E G, P, R, g, e, n, a, z, d :
           Layout(num, base, size, precision, type, number(num, base, size, precision, type),
                  G, P, R, g, e, n, a, z, d)
<1>1. PICK tmp : tmp = Divide(Magnitude(num, type), base)
  OBVIOUS
<1>2. Spells(tmp, Magnitude(num, type), base)
  BY <1>1, MagnitudeFacts, DivideRight
<1>3. PICK G, P, R : G = Sign(num, type) /\ P = Lead0(base, type) /\ R = Spell(tmp, Table(type))
  OBVIOUS
<1>4. Table(type) \in Tables
  BY DEF Table, Tables
<1>5. tmp \in Seq(0 .. base - 1) /\ Len(tmp) > 0 /\ R \in Seq(Figures) /\ Len(R) = Len(tmp)
  BY <1>2, <1>3, <1>4, SpellFacts DEF Spells
<1>6. R \in Seq(Marks)
  <2>1. Figures \subseteq Marks
    BY DEF Marks
  <2> QED
    BY <1>5, <2>1, Widen
<1>7. PICK n \in Nat \ {0} : n = Len(R) /\ n = Len(tmp)
  BY <1>5
<1>8. /\ G \in Seq(Marks) /\ Len(G) \in {0, 1}
      /\ P \in Seq(Marks) /\ Len(P) \in {0, 1, 2}
  BY <1>3, SignIs, LeadIs
<1>9. PICK g \in {0, 1}, e \in {0, 1, 2} : g = Len(G) /\ e = Len(P)
  BY <1>8
<1>10. PICK w \in Int : w = Larger(n, precision) /\ w >= n /\ w >= precision
                        /\ (w > n => precision > n)
  BY DEF Larger
<1>11. PICK pad \in Int : pad = size - g - e - w
  <2>1. g \in Int /\ e \in Int
    BY <1>9
  <2> QED
    BY <2>1
<1>12. pad = PadOf(num, base, size, precision, type)
  BY <1>1, <1>3, <1>7, <1>9, <1>10, <1>11 DEF PadOf
<1>13. PICK ka \in Int : ka = IF Zeroed(type) \/ "LEFT" \in type THEN 0 ELSE pad
  OBVIOUS
<1>14. PICK kb \in Int : kb = IF Zeroed(type) THEN pad ELSE 0
  OBVIOUS
<1>15. PICK kd \in Int : kd = IF "LEFT" \in type THEN pad ELSE 0
  OBVIOUS
<1>16. PICK A, B, C, D : A = Fill(Gap, ka) /\ B = Fill("0", kb) /\ C = Fill("0", w - n)
                         /\ D = Fill(Gap, kd)
  OBVIOUS
<1>17. number(num, base, size, precision, type) = A \o G \o P \o B \o C \o R \o D
  <2>1. w - n = Larger(Len(tmp), precision) - Len(tmp)
    BY <1>7, <1>10
  <2>2. number(num, base, size, precision, type) =
           Fill(Gap, IF Zeroed(type) \/ "LEFT" \in type THEN 0 ELSE pad)
           \o Sign(num, type) \o Lead0(base, type)
           \o Fill("0", IF Zeroed(type) THEN pad ELSE 0)
           \o Fill("0", Larger(Len(tmp), precision) - Len(tmp))
           \o Spell(tmp, Table(type)) \o Fill(Gap, IF "LEFT" \in type THEN pad ELSE 0)
    BY <1>1, <1>12, Zenon DEF number, Gap, Zeroed, Sign, Lead0, Spell, Table, PadOf
  <2>3. number(num, base, size, precision, type) =
           Fill(Gap, ka) \o G \o P \o Fill("0", kb) \o Fill("0", w - n) \o R \o Fill(Gap, kd)
    BY <1>3, <1>13, <1>14, <1>15, <2>1, <2>2, Zenon
  <2> QED
    BY <1>16, <2>3, Zenon
<1>18. /\ A \in Seq({Gap}) /\ Len(A) = (IF ka > 0 THEN ka ELSE 0) /\ Full(A, Gap)
       /\ D \in Seq({Gap}) /\ Len(D) = (IF kd > 0 THEN kd ELSE 0) /\ Full(D, Gap)
       /\ B \in Seq({"0"}) /\ Len(B) = (IF kb > 0 THEN kb ELSE 0) /\ Full(B, "0")
       /\ C \in Seq({"0"}) /\ Len(C) = w - n /\ Full(C, "0")
  <2>1. w - n \in Int /\ (w - n = IF w - n > 0 THEN w - n ELSE 0)
    BY <1>10
  <2> QED
    BY <1>16, <2>1, FillFacts DEF Full
<1>19. A \in Seq(Marks) /\ B \in Seq(Marks) /\ C \in Seq(Marks) /\ D \in Seq(Marks)
  <2>1. {Gap} \subseteq Marks /\ {"0"} \subseteq Marks
    BY DEF Marks, Figures
  <2> QED
    BY <1>18, <2>1, Widen
<1>20. PICK a \in Nat, b \in Nat, c \in Nat, d \in Nat :
           a = Len(A) /\ b = Len(B) /\ c = Len(C) /\ d = Len(D)
  BY <1>19
<1>21. Laid(number(num, base, size, precision, type), G, P, R, g, e, n, a, b + c, d)
  <2>1. Laid(A \o G \o P \o B \o C \o R \o D, G, P, R, Len(G), Len(P), Len(R),
             Len(A), Len(B) + Len(C), Len(D))
    BY <1>6, <1>8, <1>18, <1>19, LaidIs, Zenon
  <2> QED
    BY <1>7, <1>9, <1>17, <1>20, <2>1, Zenon
<1>22. /\ a = (IF ka > 0 THEN ka ELSE 0) /\ d = (IF kd > 0 THEN kd ELSE 0)
       /\ b = (IF kb > 0 THEN kb ELSE 0) /\ c = w - n
  BY <1>18, <1>20
<1>23. PICK z \in Nat : z = b + c
  OBVIOUS
<1>24. Fitted(g, e, n, a, z, d, size, precision, type)
  <2>1. z + n >= precision
    BY <1>10, <1>22, <1>23
  <2>2. a + g + e + z + n + d = g + e + w + a + b + d
    <3>1. g \in Int /\ e \in Int
      BY <1>9
    <3> QED
      BY <3>1, <1>22, <1>23
  <2>3. a + b + d >= pad /\ (a > 0 => a + b + d = pad /\ "LEFT" \notin type)
    BY <1>13, <1>14, <1>15, <1>22 DEF Zeroed
  <2>4. size = g + e + w + pad
    BY <1>9, <1>11
  <2>5. z > 0 => precision > n \/ Zeroed(type)
    BY <1>10, <1>14, <1>22, <1>23
  <2> QED
    BY <1>9, <2>1, <2>2, <2>3, <2>4, <2>5 DEF Fitted
<1> QED
  BY <1>1, <1>3, <1>7, <1>9, <1>21, <1>23, <1>24 DEF Layout

(* A place behind the first k.                                             *)
LEMMA Offset ==
  ASSUME NEW k \in Nat, NEW n \in Nat, NEW j \in k + 1 .. k + n
  PROVE  \E i \in 1 .. n : j = k + i
<1>1. j - k \in 1 .. n /\ j = k + (j - k)
  OBVIOUS
<1> QED
  BY <1>1

(* Signs, blanks and the x of a prefix are no digits.                      *)
LEMMA NoDigits ==
  ASSUME NEW base \in Bases, NEW ch, ch = Gap \/ ch \in {"-", "+", "x", "X"}
  PROVE  ~IsDigit(ch, base) /\ ch \notin Figures
<1>1. base \in 1 .. 16
  BY DEF Bases
<1>2. ch \notin Figures
  BY GapFacts DEF Figures
<1>3. IsDigit(ch, base) => ch \in Figures
  BY <1>1, DigitFacts
<1> QED
  BY <1>2, <1>3

(* The text up to the blanks behind it, and after the place k only digits; *)
(* what is before has no value.                                            *)
Framed(s, base, num, type, k, m) ==
  /\ k \in Nat /\ m \in Nat \ {0} /\ k + m <= Len(s)
  /\ \A j \in k + 1 .. k + m : s[j] \in Figures /\ IsDigit(s[j], base)
  /\ \A j \in k + m + 1 .. Len(s) : s[j] = Gap
  /\ Value(s, base) = Magnitude(num, type)
  /\ (\E j \in 1 .. Len(s) : s[j] = "-") <=> Negative(num, type)

(* The parts of the text, character by character.                          *)
LEMMA LaidChars ==
  ASSUME NEW num \in 0 .. WordMod - 1, NEW base \in Bases, NEW size \in Int,
         NEW precision \in Int, NEW type, NEW s, NEW G, NEW P, NEW R, NEW g, NEW e, NEW n,
         NEW a, NEW z, NEW d,
         Layout(num, base, size, precision, type, s, G, P, R, g, e, n, a, z, d)
  PROVE  /\ \A j \in 1 .. a : s[j] = Gap
         /\ \A j \in a + 1 .. a + g : s[j] \in {"-", "+", Gap} /\ (s[j] = "-" <=> Negative(num, type))
         /\ \A j \in a + g + 1 .. a + g + e : s[j] \in {"0", "x", "X"}
         /\ \A j \in a + g + e + 1 .. a + g + e + z : s[j] = "0"
         /\ \A j \in a + g + e + z + 1 .. a + g + e + z + n : s[j] \in Figures /\ IsDigit(s[j], base)
         /\ \A j \in a + g + e + z + n + 1 .. Len(s) : s[j] = Gap
<1>1. /\ g \in {0, 1} /\ e \in {0, 1, 2} /\ n \in Nat \ {0} /\ a \in Nat /\ z \in Nat /\ d \in Nat
      /\ g \in Nat /\ e \in Nat /\ n \in Nat
      /\ G = Sign(num, type) /\ P = Lead0(base, type) /\ g = Len(G) /\ e = Len(P) /\ n = Len(R)
      /\ R = Spell(Divide(Magnitude(num, type), base), Table(type))
      /\ Laid(s, G, P, R, g, e, n, a, z, d)
  BY DEF Layout
<1>t. g \in Nat /\ e \in Nat /\ n \in Nat /\ a \in Nat /\ z \in Nat /\ d \in Nat
  BY <1>1
<1>u. e = 0 \/ e = 1 \/ e = 2
  BY <1>1
<1>2. PICK k1 \in Nat, k2 \in Nat, k3 \in Nat, k4 \in Nat :
          k1 = a + g /\ k2 = a + g + e /\ k3 = a + g + e + z /\ k4 = a + g + e + z + n
  BY <1>1
<1>3. /\ Len(s) = k4 + d
      /\ \A j \in 1 .. a : s[j] = Gap
      /\ \A j \in 1 .. g : s[a + j] = G[j]
      /\ \A j \in 1 .. e : s[k1 + j] = P[j]
      /\ \A j \in 1 .. z : s[k2 + j] = "0"
      /\ \A j \in 1 .. n : s[k3 + j] = R[j]
      /\ \A j \in 1 .. d : s[k4 + j] = Gap
  BY <1>1, <1>2 DEF Laid
<1>4. ASSUME NEW j \in a + 1 .. a + g
      PROVE  s[j] \in {"-", "+", Gap} /\ (s[j] = "-" <=> Negative(num, type))
  <2>1. PICK i \in 1 .. g : j = a + i
    BY <1>t, Offset
  <2>2. i = 1 /\ g = 1
    BY <1>1, <2>1
  <2>3. s[j] = G[1]
    BY <1>3, <2>1, <2>2
  <2> QED
    BY <1>1, <2>2, <2>3, SignIs, Zenon
<1>5. ASSUME NEW j \in k1 + 1 .. k1 + e PROVE s[j] \in {"0", "x", "X"}
  <2>1. PICK i \in 1 .. e : j = k1 + i
    BY <1>t, Offset
  <2>2. i = 1 \/ (i = 2 /\ e = 2)
    BY <1>u, <2>1
  <2>3. s[j] = P[i] /\ e > 0
    BY <1>1, <1>3, <2>1
  <2>4. P[1] = "0" /\ (e = 2 => P[2] \in {"x", "X"})
    BY <1>1, <2>3, LeadIs
  <2> QED
    BY <2>2, <2>3, <2>4
<1>6. ASSUME NEW j \in k2 + 1 .. k2 + z PROVE s[j] = "0"
  <2>1. PICK i \in 1 .. z : j = k2 + i
    BY <1>t, Offset
  <2> QED
    BY <1>3, <2>1
<1>7. ASSUME NEW j \in k3 + 1 .. k3 + n PROVE s[j] \in Figures /\ IsDigit(s[j], base)
  <2>1. PICK i \in 1 .. n : j = k3 + i
    BY <1>t, Offset
  <2>2. s[j] = R[i]
    BY <1>3, <2>1
  <2>3. PICK tmp : tmp = Divide(Magnitude(num, type), base)
    OBVIOUS
  <2>4. tmp \in Seq(0 .. base - 1)
    BY <2>3, MagnitudeFacts, DivideRight DEF Spells
  <2>5. Table(type) \in Tables
    BY DEF Table, Tables
  <2>6. R \in Seq(Figures) /\ Len(R) = Len(tmp) /\ \A m \in 1 .. Len(tmp) : IsDigit(R[m], base)
    BY <1>1, <2>3, <2>4, <2>5, SpellFacts
  <2>7. R[i] \in Figures /\ IsDigit(R[i], base)
    BY <1>1, <2>6
  <2> QED
    BY <2>2, <2>7
<1>8. ASSUME NEW j \in k4 + 1 .. k4 + d PROVE s[j] = Gap
  <2>1. PICK i \in 1 .. d : j = k4 + i
    BY <1>t, Offset
  <2> QED
    BY <1>3, <2>1
<1>9. \A j \in a + g + 1 .. a + g + e : s[j] \in {"0", "x", "X"}
  BY <1>2, <1>5
<1>10. \A j \in a + g + e + 1 .. a + g + e + z : s[j] = "0"
  BY <1>2, <1>6
<1>11. \A j \in a + g + e + z + 1 .. a + g + e + z + n : s[j] \in Figures /\ IsDigit(s[j], base)
  BY <1>2, <1>7
<1>12. \A j \in a + g + e + z + n + 1 .. Len(s) : s[j] = Gap
  BY <1>2, <1>3, <1>8
<1> QED
  BY <1>3, <1>4, <1>9, <1>10, <1>11, <1>12

(* The digits, and what is before and behind them.                         *)
LEMMA LaidFramed ==
  ASSUME NEW num \in 0 .. WordMod - 1, NEW base \in Bases, NEW size \in Int,
         NEW precision \in Int, NEW type, NEW s, NEW G, NEW P, NEW R, NEW g, NEW e, NEW n,
         NEW a, NEW z, NEW d,
         Layout(num, base, size, precision, type, s, G, P, R, g, e, n, a, z, d)
  PROVE  Framed(s, base, num, type, a + g + e, z + n)
<1>1. /\ g \in Nat /\ e \in Nat /\ n \in Nat /\ n > 0 /\ a \in Nat /\ z \in Nat /\ d \in Nat
      /\ s \in Seq(Marks) /\ Len(s) = a + g + e + z + n + d
  BY DEF Layout, Laid
<1>2. PICK k1 \in Nat, k2 \in Nat, k3 \in Nat, k4 \in Nat :
          k1 = a + g /\ k2 = a + g + e /\ k3 = a + g + e + z /\ k4 = a + g + e + z + n
  BY <1>1
<1>3. /\ \A j \in 1 .. a : s[j] = Gap
      /\ \A j \in a + 1 .. k1 : s[j] \in {"-", "+", Gap} /\ (s[j] = "-" <=> Negative(num, type))
      /\ \A j \in k1 + 1 .. k2 : s[j] \in {"0", "x", "X"}
      /\ \A j \in k2 + 1 .. k3 : s[j] = "0"
      /\ \A j \in k3 + 1 .. k4 : s[j] \in Figures /\ IsDigit(s[j], base)
      /\ \A j \in k4 + 1 .. Len(s) : s[j] = Gap
  BY <1>2, LaidChars
<1>4. /\ a <= k1 /\ k1 <= k2 /\ k2 <= k3 /\ k3 < k4 /\ k4 <= Len(s)
      /\ k4 = k3 + n /\ Len(s) = k4 + d /\ Len(s) \in Nat
  BY <1>1, <1>2
<1>5. base \in 1 .. 16
  BY DEF Bases
<1>6. ASSUME NEW j \in 1 .. k3 PROVE s[j] = "0" \/ ~IsDigit(s[j], base)
  <2>1. CASE j \in 1 .. a
    BY <1>3, <2>1, NoDigits
  <2>2. CASE j \in a + 1 .. k1
    <3>1. s[j] = Gap \/ s[j] \in {"-", "+", "x", "X"}
      BY <1>3, <2>2
    <3> QED
      BY <3>1, NoDigits
  <2>3. CASE j \in k1 + 1 .. k2
    <3>1. s[j] = "0" \/ s[j] \in {"-", "+", "x", "X"}
      BY <1>3, <2>3
    <3> QED
      BY <3>1, NoDigits
  <2>4. CASE j \in k2 + 1 .. k3
    BY <1>3, <2>4
  <2>5. j \in 1 .. a \/ j \in a + 1 .. k1 \/ j \in k1 + 1 .. k2 \/ j \in k2 + 1 .. k3
    BY <1>1, <1>4
  <2> QED
    BY <2>1, <2>2, <2>3, <2>4, <2>5
<1>7. ASSUME NEW j \in k2 + 1 .. k4 PROVE s[j] \in Figures /\ IsDigit(s[j], base)
  <2>1. CASE j \in k2 + 1 .. k3
    BY <1>3, <1>5, <2>1, ZeroFacts DEF Figures
  <2>2. CASE j \in k3 + 1 .. k4
    BY <1>3, <2>2
  <2>3. j \in k2 + 1 .. k3 \/ j \in k3 + 1 .. k4
    BY <1>4
  <2> QED
    BY <2>1, <2>2, <2>3
<1>8. Value(s, base) = Magnitude(num, type)
  <2>1. PICK u : u = SubSeq(s, 1, k4)
    OBVIOUS
  <2>2. u \in Seq(Marks) /\ Len(u) = k4 /\ \A j \in 1 .. k4 : u[j] = s[j]
    <3>1. k4 \in 0 .. Len(s)
      BY <1>4
    <3> QED
      BY <1>1, <2>1, <3>1, HeadFacts
  <2>3. Trails(s, u, base)
    <3>1. ~IsDigit(Gap, base)
      BY NoDigits
    <3> QED
      BY <1>3, <1>4, <2>2, <3>1 DEF Trails
  <2>4. Value(s, base) = Value(u, base)
    BY <1>1, <1>5, <2>2, <2>3, ValueKeep
  <2>5. R = Spell(Divide(Magnitude(num, type), base), Table(type)) /\ n = Len(R)
        /\ \A j \in 1 .. n : s[k3 + j] = R[j]
    BY <1>2 DEF Layout, Laid
  <2>6. Table(type) \in Tables
    BY DEF Table, Tables
  <2>7. Spells(Divide(Magnitude(num, type), base), Magnitude(num, type), base)
    BY MagnitudeFacts, DivideRight
  <2>8. R \in Seq(Figures) /\ Value(R, base) = Magnitude(num, type)
    BY <2>5, <2>6, <2>7, SpellFacts DEF Spells
  <2>9. R \in Seq(Marks)
    <3>1. Figures \subseteq Marks
      BY DEF Marks
    <3> QED
      BY <2>8, <3>1, Widen
  <2>10. Suffix(R, u, k3)
    <3>1. \A j \in 1 .. n : k3 + j \in 1 .. k4
      BY <1>1, <1>4
    <3> QED
      BY <1>4, <2>2, <2>5, <3>1 DEF Suffix
  <2>11. Idle(u, k3, base)
    <3>1. \A j \in 1 .. k3 : j \in 1 .. k4
      BY <1>4
    <3> QED
      BY <1>6, <2>2, <3>1 DEF Idle
  <2> QED
    BY <1>5, <2>2, <2>4, <2>8, <2>9, <2>10, <2>11, ValueDrop
<1>9. ASSUME Negative(num, type) PROVE \E j \in 1 .. Len(s) : s[j] = "-"
  <2>1. g = 1
    <3>1. G = Sign(num, type) /\ g = Len(G)
      BY DEF Layout
    <3> QED
      BY <1>9, <3>1, SignIs
  <2>2. k1 \in a + 1 .. k1 /\ k1 \in 1 .. Len(s)
    BY <1>1, <1>2, <1>4, <2>1
  <2>3. s[k1] = "-"
    BY <1>3, <1>9, <2>2
  <2> QED
    BY <2>2, <2>3
<1>10. ASSUME NEW j \in 1 .. Len(s), s[j] = "-" PROVE Negative(num, type)
  <2>1. "-" \notin Figures /\ Gap # "-"
    BY GapFacts DEF Figures
  <2>2. CASE j \in a + 1 .. k1
    BY <1>3, <1>10, <2>2
  <2>3. j \notin 1 .. a /\ j \notin k1 + 1 .. k2 /\ j \notin k2 + 1 .. k4 /\ j \notin k4 + 1 .. Len(s)
    BY <1>3, <1>7, <1>10, <2>1
  <2>4. j \in a + 1 .. k1
    BY <1>1, <1>4, <2>3
  <2> QED
    BY <2>2, <2>4
<1>11. /\ k2 \in Nat /\ z + n \in Nat \ {0} /\ k2 + (z + n) = k4
  BY <1>1, <1>2
<1>12. (\E j \in 1 .. Len(s) : s[j] = "-") <=> Negative(num, type)
  BY <1>9, <1>10
<1>13. Framed(s, base, num, type, k2, z + n)
  BY <1>3, <1>4, <1>7, <1>8, <1>11, <1>12 DEF Framed
<1> QED
  BY <1>2, <1>13

(* The first character.                                                    *)
LEMMA LaidFirst ==
  ASSUME NEW num \in 0 .. WordMod - 1, NEW base \in Bases, NEW size \in Int,
         NEW precision \in Int, NEW type, NEW s, NEW G, NEW P, NEW R, NEW g, NEW e, NEW n,
         NEW a, NEW z, NEW d,
         Layout(num, base, size, precision, type, s, G, P, R, g, e, n, a, z, d), a = 0
  PROVE  s[1] # Gap \/ "SPACE" \in type
<1>1. /\ g \in {0, 1} /\ g \in Nat /\ e \in Nat /\ n \in Nat /\ n > 0 /\ z \in Nat
      /\ G = Sign(num, type) /\ g = Len(G)
  BY DEF Layout
<1>2. CASE g = 1
  <2>1. s[0 + 1] = G[1]
    BY <1>2 DEF Layout, Laid
  <2> QED
    <3>1. s[1] = Sign(num, type)[1] /\ Len(Sign(num, type)) = 1
      BY <1>1, <1>2, <2>1
    <3> QED
      BY <3>1, SignIs, Zenon
<1>3. CASE g = 0 /\ e > 0
  <2>1. 1 \in 0 + 0 + 1 .. 0 + 0 + e
    BY <1>1, <1>3
  <2>2. s[1] \in {"0", "x", "X"}
    BY <1>3, <2>1, LaidChars
  <2> QED
    BY <2>2, GapFacts DEF Figures
<1>4. CASE g = 0 /\ e = 0
  <2>1. Framed(s, base, num, type, 0 + 0 + 0, z + n)
    BY <1>4, LaidFramed
  <2>2. 1 \in 0 + 0 + 0 + 1 .. 0 + 0 + 0 + (z + n)
    BY <1>1
  <2>3. s[1] \in Figures
    BY <2>1, <2>2 DEF Framed
  <2> QED
    BY <2>3, GapFacts
<1> QED
  BY <1>1, <1>2, <1>3, <1>4

(* Every text number writes says its number.                               *)
LEMMA NumberReads ==
  ASSUME NEW num \in 0 .. WordMod - 1, NEW base \in Bases, NEW size \in Int,
         NEW precision \in Int, NEW type
  PROVE  ReadsBack(num, base, size, precision, type)
<1>1. PICK s : s = number(num, base, size, precision, type)
  OBVIOUS
<1>2. PICK G, P, R, g, e, n, a, z, d :
          Layout(num, base, size, precision, type, s, G, P, R, g, e, n, a, z, d)
  BY <1>1, LayoutIs
<1>3. /\ g \in Nat /\ e \in Nat /\ n \in Nat /\ n > 0 /\ a \in Nat /\ z \in Nat /\ d \in Nat
      /\ s \in Seq(Marks) /\ Len(s) = a + g + e + z + n + d
      /\ Fitted(g, e, n, a, z, d, size, precision, type)
  BY <1>2 DEF Layout, Laid
<1>4. PICK k \in Nat, m \in Nat : k = a + g + e /\ m = z + n
  BY <1>3
<1>5. Framed(s, base, num, type, k, m)
  BY <1>2, <1>4, LaidFramed
<1>6. DOMAIN s = 1 .. Len(s) /\ Len(s) \in Nat
  BY <1>3
<1>7. (IF \E j \in DOMAIN s : s[j] = "-" THEN -Value(s, base) ELSE Value(s, base))
           = IF "SIGN" \in type THEN Signed(num) ELSE num
  <2>1. Value(s, base) = Magnitude(num, type)
    BY <1>5 DEF Framed
  <2>2. (\E j \in DOMAIN s : s[j] = "-") <=> Negative(num, type)
    BY <1>5, <1>6, Zenon DEF Framed
  <2> QED
    BY <2>1, <2>2, MagnitudeFacts, Zenon
<1>8. Cardinality({j \in DOMAIN s : IsDigit(s[j], base)}) >= precision
  <2>1. PICK ds : ds = {j \in DOMAIN s : IsDigit(s[j], base)}
    OBVIOUS
  <2>2. k + 1 .. k + m \subseteq ds
    <3>1. \A j \in k + 1 .. k + m : j \in 1 .. Len(s) /\ IsDigit(s[j], base)
      BY <1>5, <1>6 DEF Framed
    <3> QED
      BY <1>6, <2>1, <3>1
  <2>3. IsFiniteSet(1 .. Len(s)) /\ ds \subseteq 1 .. Len(s)
    BY <1>6, <2>1, FS_Interval
  <2>4. IsFiniteSet(ds)
    BY <2>3, FS_Subset
  <2>5. Cardinality(k + 1 .. k + m) <= Cardinality(ds) /\ Cardinality(ds) \in Nat
    BY <2>2, <2>4, FS_Subset, FS_CardinalityType
  <2>6. Cardinality(k + 1 .. k + m) = m
    <3>1. k + 1 \in Int /\ k + m \in Int /\ (k + 1 <= k + m)
      BY <1>3, <1>4
    <3>2. Cardinality(k + 1 .. k + m) = (k + m) - (k + 1) + 1
      BY <3>1, FS_Interval
    <3> QED
      BY <3>2
  <2>7. m >= precision
    BY <1>3, <1>4 DEF Fitted
  <2> QED
    BY <2>1, <2>5, <2>6, <2>7
<1>9. Len(s) >= size
  BY <1>3 DEF Fitted
<1>10. Len(s) > size \/ "LEFT" \in type => a = 0
  BY <1>3 DEF Fitted
<1>11. a = 0 => s[1] # " " \/ "SPACE" \in type
  <2>1. a = 0 => s[1] # Gap \/ "SPACE" \in type
    BY <1>2, LaidFirst
  <2> QED
    BY <2>1, Zenon DEF Gap
<1> QED
  BY <1>1, <1>7, <1>8, <1>9, <1>10, <1>11, Zenon DEF ReadsBack

-----------------------------------------------------------------------------
(* The highest digit of m is no zero, unless m is zero.                    *)
Topped(tmp, m, base) ==
  /\ tmp \in Seq(0 .. base - 1) /\ Len(tmp) > 0
  /\ tmp[Len(tmp)] = 0 => m = 0 /\ Len(tmp) = 1

(* One digit.                                                              *)
LEMMA ToppedOne ==
  ASSUME NEW base \in Bases, NEW m \in 0 .. base - 1
  PROVE  Topped(<<m>>, m, base)
<1>1. <<m>> \in Seq(0 .. base - 1) /\ Len(<<m>>) = 1 /\ <<m>>[1] = m
  OBVIOUS
<1> QED
  BY <1>1 DEF Topped

(* A digit more, below.                                                    *)
LEMMA ToppedMore ==
  ASSUME NEW base \in Bases, NEW m \in Nat, NEW t, m >= base, Topped(t, m \div base, base)
  PROVE  Topped(<<m % base>> \o t, m, base)
<1>1. m % base \in 0 .. base - 1 /\ m \div base \in Nat /\ (m \div base) * base + (m % base) = m
  BY DivFacts
<1>2. m \div base # 0
  BY <1>1 DEF Bases
<1>3. PICK D : D = 0 .. base - 1
  OBVIOUS
<1>4. PICK h : h = <<m % base>>
  OBVIOUS
<1>5. h \in Seq(D) /\ Len(h) = 1
  BY <1>1, <1>3, <1>4
<1>6. t \in Seq(D) /\ Len(t) > 0 /\ t[Len(t)] # 0
  BY <1>2, <1>3 DEF Topped
<1>7. PICK c : c = h \o t
  OBVIOUS
<1>8. Joins(c, h, t, D)
  BY <1>5, <1>6, <1>7, JoinIs
<1>9. PICK n \in Nat : n = Len(t) /\ n > 0
  BY <1>6
<1>10. c \in Seq(D) /\ Len(c) = 1 + n /\ c[1 + n] = t[n]
  <2>1. n \in 1 .. n
    BY <1>9
  <2> QED
    BY <1>5, <1>8, <1>9, <2>1 DEF Joins
<1> QED
  BY <1>3, <1>4, <1>6, <1>7, <1>9, <1>10 DEF Topped

(* So Divide writes no zero in front.                                      *)
LEMMA DivideTop ==
  ASSUME NEW base \in Bases, NEW N \in Nat
  PROVE  Topped(Divide(N, base), N, base)
<1>1. PICK f : Divides(f, N, base) /\ Divide(N, base) = f[N]
  BY DivideIs
<1>2. ASSUME NEW m \in 0 .. N, \A j \in 0 .. N : j < m => Topped(f[j], j, base)
      PROVE  Topped(f[m], m, base)
  <2>1. CASE m < base
    <3>1. m \in 0 .. base - 1 /\ f[m] = <<m>>
      BY <1>1, <2>1 DEF Divides, Bases
    <3> QED
      BY <3>1, ToppedOne
  <2>2. CASE m >= base
    <3>1. ~(m < base) /\ m \in Nat
      BY <2>2 DEF Bases
    <3>2. f[m] = <<m % base>> \o f[m \div base]
      BY <1>1, <3>1 DEF Divides
    <3>3. PICK j \in Nat : j = m \div base /\ j < m
      BY <2>2, <3>1, DivFacts
    <3>4. j \in 0 .. N
      BY <3>3
    <3>5. Topped(f[m \div base], m \div base, base)
      BY <1>2, <3>3, <3>4
    <3> QED
      BY <2>2, <3>1, <3>2, <3>5, ToppedMore
  <2> QED
    BY <2>1, <2>2 DEF Bases
<1> DEFINE Bad == {m \in 0 .. N : ~Topped(f[m], m, base)}
<1>3. ASSUME NEW m \in Bad, \A j \in Bad : m <= j PROVE FALSE
  <2>1. m \in 0 .. N /\ ~Topped(f[m], m, base)
    OBVIOUS
  <2>2. \A j \in 0 .. N : j < m => ~(m <= j)
    OBVIOUS
  <2>3. \A j \in 0 .. N : j < m => Topped(f[j], j, base)
    BY <1>3, <2>2
  <2> QED
    BY <1>2, <2>1, <2>3
<1>4. Bad \subseteq Nat
  OBVIOUS
<1>5. Bad = {}
  BY <1>3, <1>4, Smallest
<1>6. N \in 0 .. N
  OBVIOUS
<1> QED
  BY <1>1, <1>5, <1>6

(* Nor does number: what it writes for the digits begins with a zero only  *)
(* if that is all.                                                         *)
LEMMA SpellTop ==
  ASSUME NEW base \in Bases, NEW N \in Nat, NEW T \in Tables, NEW R, R = Spell(Divide(N, base), T),
         R[1] = "0"
  PROVE  Len(R) = 1
<1>1. PICK tmp : tmp = Divide(N, base)
  OBVIOUS
<1>2. Topped(tmp, N, base)
  BY <1>1, DivideTop
<1>3. PICK n \in Nat : n = Len(tmp) /\ n > 0 /\ tmp \in Seq(0 .. base - 1)
  BY <1>2 DEF Topped
<1>4. Len(R) = n /\ R[1] = T[tmp[n - 1 + 1] + 1]
  <2>1. 1 \in 1 .. Len(tmp)
    BY <1>3
  <2> QED
    BY <1>1, <1>3, <2>1, SpellFacts
<1>5. n - 1 + 1 = n /\ tmp[n] \in 0 .. 15
  <2>1. PICK D : D = 0 .. base - 1
    OBVIOUS
  <2>2. tmp[n] \in D
    <3>1. n \in 1 .. Len(tmp) /\ tmp \in Seq(D)
      BY <1>3, <2>1
    <3> QED
      BY <3>1, InSeq
  <2>3. \A x \in 0 .. base - 1 : x \in 0 .. 15
    BY DEF Bases
  <2>4. tmp[n] \in 0 .. 15
    BY <2>1, <2>2, <2>3
  <2> QED
    BY <2>4
<1>6. tmp[n] = 0
  BY <1>4, <1>5, TableValue, ZeroFacts
<1> QED
  BY <1>2, <1>3, <1>4, <1>6 DEF Topped

(* The small letters, which isxdigit does not know.                        *)
Smalls == {"a", "b", "c", "d", "e", "f"}

(* It knows all other digits.                                              *)
LEMMA KnowsOthers ==
  ASSUME NEW base \in Bases, NEW ch, IsDigit(ch, base), ch \notin Smalls
  PROVE  Collects(ch, base)
<1>1. PICK v \in 0 .. base - 1 : ch \in {DIGITS[v + 1], Digits[v + 1]}
  BY DEF IsDigit
<1>2. v \in {0, 1, 2, 3, 4, 5, 6, 7, 8, 9, 10, 11, 12, 13, 14, 15}
  BY DEF Bases
<1>3. v \in {0, 1, 2, 3, 4, 5, 6, 7, 8, 9} => DIGITS[v + 1] = Digits[v + 1]
  BY DEF DIGITS, Digits
<1>4. v \in {10, 11, 12, 13, 14, 15} => Digits[v + 1] \in Smalls
  BY DEF Digits, Smalls
<1>5. ch = DIGITS[v + 1]
  BY <1>1, <1>2, <1>3, <1>4
<1> QED
  BY <1>1, <1>5 DEF Collects

(* The capital table has none of them.                                     *)
LEMMA CapitalTable ==
  ASSUME NEW v \in 0 .. 15
  PROVE  DIGITS[v + 1] \notin Smalls
<1>1. v \in {0, 1, 2, 3, 4, 5, 6, 7, 8, 9, 10, 11, 12, 13, 14, 15}
  OBVIOUS
<1> QED
  BY <1>1 DEF DIGITS, Smalls
-----------------------------------------------------------------------------
(* What printf writes scanf reads back.                                    *)

(* What number writes without blank signs and prefixes: one word, the      *)
(* characters u of s after the first a, which is a sign of g characters    *)
(* and digits, the last n of them R.                                       *)
Written(s, u, a, m, g, n, R, base, num, type) ==
  /\ s \in Seq(Marks) /\ Word(s, a, m) /\ Part(u, s, a, m, Marks)
  /\ a \in Nat /\ m \in Nat /\ g \in {0, 1} /\ n \in Nat \ {0} /\ g + n <= m
  /\ g = 1 => u[1] \in Signs
  /\ u[1] = "-" <=> Negative(num, type)
  /\ \A j \in g + 1 .. m : u[j] \in Figures /\ IsDigit(u[j], base)
  /\ \A j \in 1 .. n : u[m - n + j] = R[j]
  /\ Value(u, base) = Magnitude(num, type)

(* The word it is.                                                         *)
LEMMA WrittenIs ==
  ASSUME NEW num \in 0 .. WordMod - 1, NEW base \in Bases, NEW size \in Int,
         NEW precision \in Int, NEW type, "SPACE" \notin type, "SPECIAL" \notin type,
         NEW s, NEW G, NEW P, NEW R, NEW g, NEW e, NEW n, NEW a, NEW z, NEW d,
         Layout(num, base, size, precision, type, s, G, P, R, g, e, n, a, z, d)
  PROVE  Written(s, SubSeq(s, a + 1, a + (g + z + n)), a, g + z + n, g, n, R, base, num, type)
<1>1. /\ g \in {0, 1} /\ g \in Nat /\ n \in Nat \ {0} /\ n \in Nat /\ a \in Nat /\ z \in Nat
      /\ d \in Nat /\ e \in Nat
      /\ G = Sign(num, type) /\ P = Lead0(base, type) /\ g = Len(G) /\ e = Len(P)
      /\ s \in Seq(Marks) /\ Laid(s, G, P, R, g, e, n, a, z, d)
  BY DEF Layout, Laid
<1>2. e = 0
  BY <1>1, LeadIs
<1>3. PICK m \in Nat : m = g + z + n
  BY <1>1
<1>4. g + n <= m /\ a + g + 0 + z + n = a + m /\ a + g + 0 = a + g /\ Len(s) = a + m + d
      /\ a + g + (z + n) = a + m
  BY <1>1, <1>2, <1>3 DEF Laid
<1>5. PICK u : u = SubSeq(s, a + 1, a + m)
  OBVIOUS
<1>6. Part(u, s, a, m, Marks)
  <2>1. a + m <= Len(s)
    BY <1>1, <1>4
  <2> QED
    BY <1>1, <1>5, <2>1, PartIs
<1>7. u \in Seq(Marks) /\ Len(u) = m /\ \A j \in 1 .. m : u[j] = s[a + j]
  BY <1>6 DEF Part
<1>8. Framed(s, base, num, type, a + g, z + n)
  BY <1>2, <1>4, LaidFramed
<1>9. /\ \A j \in 1 .. a : s[j] = Gap
      /\ \A j \in a + 1 .. a + g : s[j] \in {"-", "+", Gap} /\ (s[j] = "-" <=> Negative(num, type))
      /\ \A j \in a + m + 1 .. Len(s) : s[j] = Gap
  BY <1>2, <1>4, LaidChars
<1>10. ASSUME NEW j \in g + 1 .. m PROVE u[j] \in Figures /\ IsDigit(u[j], base)
  <2>1. a + j \in a + g + 1 .. a + g + (z + n) /\ j \in 1 .. m
    BY <1>1, <1>4
  <2> QED
    BY <1>7, <1>8, <2>1 DEF Framed
<1>11. ASSUME g = 1 PROVE u[1] \in Signs /\ (u[1] = "-" <=> Negative(num, type))
  <2>1. 1 \in 1 .. m /\ 1 \in 1 .. g
    BY <1>1, <1>4, <1>11
  <2>2. u[1] = G[1]
    BY <1>1, <1>7, <2>1 DEF Laid
  <2>3. /\ G[1] \in {"-", "+", Gap} /\ (G[1] = Gap => "SPACE" \in type)
        /\ (G[1] = "-" <=> Negative(num, type))
    BY <1>1, <1>11, SignIs, Zenon
  <2> QED
    BY <2>2, <2>3 DEF Signs
<1>12. ASSUME g = 0 PROVE u[1] # "-" /\ ~Negative(num, type)
  <2>1. 1 \in g + 1 .. m
    BY <1>1, <1>4, <1>12
  <2>2. u[1] \in Figures
    BY <1>10, <2>1
  <2>3. ~Negative(num, type)
    <3>1. Negative(num, type) => Len(Sign(num, type)) = 1
      BY SignIs, Zenon
    <3>2. Len(Sign(num, type)) = 0
      BY <1>1, <1>12
    <3> QED
      BY <3>1, <3>2
  <2> QED
    BY <2>2, <2>3 DEF Figures
<1>13. u[1] = "-" <=> Negative(num, type)
  BY <1>1, <1>11, <1>12
<1>14. ASSUME NEW j \in 1 .. n PROVE u[m - n + j] = R[j]
  <2>1. PICK i \in 1 .. m : i = m - n + j /\ a + i = a + g + e + z + j
    <3>1. m - n + j \in 1 .. m /\ a + (m - n + j) = a + g + e + z + j
      BY <1>1, <1>2, <1>3
    <3> QED
      BY <3>1
  <2>2. s[a + g + e + z + j] = R[j]
    BY <1>1 DEF Laid
  <2> QED
    BY <1>7, <2>1, <2>2
<1>15. base \in 1 .. 16 /\ Gap \in White
  BY GapFacts DEF Bases, IsSpace
<1>16. ASSUME NEW j \in 1 .. m PROVE u[j] \notin White
  <2>1. CASE j \in g + 1 .. m
    BY <1>10, <1>15, <2>1, DigitFacts
  <2>2. CASE j \notin g + 1 .. m
    <3>1. j = 1 /\ g = 1
      <4>1. g = 0 \/ g = 1
        BY <1>1
      <4> QED
        BY <2>2, <4>1
    <3>2. u[1] \in Signs
      BY <1>11, <3>1
    <3> QED
      BY <3>1, <3>2 DEF Signs, White
  <2> QED
    BY <2>1, <2>2
<1>17. ASSUME NEW j \in a + 1 .. a + m PROVE s[j] \notin White
  <2>1. PICK i \in 1 .. m : j = a + i
    BY <1>1, Offset
  <2> QED
    BY <1>7, <1>16, <2>1
<1>18. Word(s, a, m)
  <2>1. a + 1 \in a + 1 .. a + m /\ a \in 0 .. Len(s) /\ m \in 0 .. Len(s) /\ a + m <= Len(s)
    BY <1>1, <1>4
  <2>2. a + m < Len(s) => a + m + 1 \in a + m + 1 .. Len(s)
    BY <1>1, <1>4
  <2> QED
    BY <1>9, <1>15, <1>17, <2>1, <2>2 DEF Word
<1>19. Value(u, base) = Magnitude(num, type)
  <2>1. PICK v : v = SubSeq(s, 1, a + m)
    OBVIOUS
  <2>2. v \in Seq(Marks) /\ Len(v) = a + m /\ \A j \in 1 .. a + m : v[j] = s[j]
    <3>1. a + m \in 0 .. Len(s)
      BY <1>1, <1>4
    <3> QED
      BY <1>1, <2>1, <3>1, HeadFacts
  <2>3. Trails(s, v, base)
    <3>1. ~IsDigit(Gap, base)
      BY NoDigits
    <3>2. a + m <= Len(s)
      BY <1>1, <1>4
    <3> QED
      BY <1>9, <2>2, <3>1, <3>2 DEF Trails
  <2>4. Value(s, base) = Value(v, base)
    BY <1>1, <1>15, <2>2, <2>3, ValueKeep
  <2>5. Suffix(u, v, a)
    <3>1. \A j \in 1 .. m : a + j \in 1 .. a + m
      BY <1>1
    <3> QED
      BY <1>7, <2>2, <3>1 DEF Suffix
  <2>6. Idle(v, a, base)
    <3>1. ~IsDigit(Gap, base)
      BY NoDigits
    <3>2. \A j \in 1 .. a : j \in 1 .. a + m
      BY <1>1
    <3> QED
      BY <1>9, <2>2, <3>1, <3>2 DEF Idle
  <2>7. Value(v, base) = Value(u, base)
    BY <1>1, <1>7, <1>15, <2>2, <2>5, <2>6, ValueDrop
  <2>8. Value(s, base) = Magnitude(num, type)
    BY <1>8 DEF Framed
  <2> QED
    BY <2>4, <2>7, <2>8
<1>20. Written(s, u, a, m, g, n, R, base, num, type)
  BY <1>1, <1>4, <1>6, <1>10, <1>11, <1>13, <1>14, <1>18, <1>19 DEF Written
<1> QED
  BY <1>3, <1>5, <1>20

(* What is read back of a number: with its sign, or without.               *)
LEMMA NearestBack ==
  ASSUME NEW num \in 0 .. WordMod - 1, NEW type, NEW sg \in BOOLEAN, sg <=> "SIGN" \in type
  PROVE  Nearest(sg, Negative(num, type), Magnitude(num, type)) = num
<1>1. PICK W \in Nat \ {0}, h \in Nat \ {0} : W = WordMod /\ h = Half /\ W = h + h
  BY HalfFacts
<1>2. num \in Nat /\ num < W
  BY <1>1
<1>3. num % W = num
  BY <1>1, <1>2
<1>4. CASE Negative(num, type)
  <2>1. sg /\ 2 * num >= W
    BY <1>1, <1>4 DEF Negative
  <2>2. PICK m \in Nat : m = W - num /\ m < W /\ m <= h /\ m > 0
    BY <1>1, <1>2, <2>1
  <2>3. Magnitude(num, type) = m
    <3>1. m % W = m
      BY <2>2
    <3> QED
      BY <1>1, <1>4, <2>2, <3>1 DEF Magnitude
  <2>4. Clamp(-m, -h, h - 1) = -m
    BY <1>1, <2>2 DEF Clamp
  <2>5. (-m) % W = num
    <3>1. m \in 0 .. W - 1
      BY <2>2
    <3>2. (-m) % W = IF m = 0 THEN 0 ELSE W - m
      BY <3>1, SmallMod
    <3> QED
      BY <1>1, <2>2, <3>2
  <2> QED
    BY <1>1, <1>4, <2>1, <2>3, <2>4, <2>5 DEF Nearest
<1>5. CASE ~Negative(num, type)
  <2>1. Magnitude(num, type) = num
    BY <1>5 DEF Magnitude
  <2>2. CASE sg
    <3>1. num <= h - 1
      BY <1>1, <1>2, <1>5, <2>2 DEF Negative
    <3>2. Clamp(num, -h, h - 1) = num
      BY <1>1, <1>2, <3>1 DEF Clamp
    <3> QED
      BY <1>1, <1>3, <1>5, <2>1, <2>2, <3>2 DEF Nearest
  <2>3. CASE ~sg
    BY <1>1, <1>2, <1>3, <1>5, <2>1, <2>3 DEF Nearest
  <2> QED
    BY <2>2, <2>3
<1> QED
  BY <1>4, <1>5

(* The m characters of t after the first i are what a conversion of this   *)
(* type takes: a sign of g characters, a zero that counts as a prefix if q *)
(* is one, and digits of the base; and no digit follows.                   *)
Spelt(t, i, m, g, q, base, type) ==
  /\ i \in Nat /\ m \in Nat /\ g \in {0, 1} /\ q \in {0, 1} /\ g < m /\ i + m <= Len(t)
  /\ g = 1 <=> t[i + 1] \in Signs
  /\ q = 1 <=> type \in Prefixed /\ t[i + g + 1] = "0"
  /\ g + 1 < m => t[i + g + 2] \notin {"x", "X"}
  /\ i + m < Len(t) => t[i + m + 1] \in White
  /\ base \in Bases /\ base = IF type = "i" THEN Radix(q) ELSE Base[type]
  /\ \A j \in g + q + 1 .. m : Collects(t[i + j], base)

(* o_collect takes it.                                                     *)
LEMMA CollectIs ==
  ASSUME NEW S, EOF \notin S, NEW t \in Seq(S), NEW type \in DOMAIN Base, NEW W \in Nat,
         NEW i, NEW m, NEW g, NEW q, NEW base, Spelt(t, i, m, g, q, base, type), m <= W
  PROVE  o_collect(t, i, type, W) = [len |-> m, base |-> IF type = "i" THEN 0 ELSE base]
<1>1. /\ i \in Nat /\ m \in Nat /\ g \in {0, 1} /\ q \in {0, 1} /\ g < m /\ i + m <= Len(t)
      /\ g \in Nat /\ q \in Nat
  BY DEF Spelt
<1>2. PICK N \in Nat : N = Len(t)
  OBVIOUS
<1>3. SignLen(t, i) = g
  <2>1. CharAt(t, i) = t[i + 1]
    BY <1>1, CharFacts
  <2> QED
    BY <1>1, <2>1 DEF SignLen, Spelt
<1>4. PICK k \in Nat, v \in Nat : k = i + g /\ v = W - g /\ k < N /\ v > 0
  <2>1. i + g \in Nat /\ W - g \in Nat /\ i + g < N /\ W - g > 0
    BY <1>1, <1>2
  <2> QED
    BY <2>1
<1>5. (IF type \in Prefixed THEN PrefixLen(t, k, v) ELSE 0) = q
  <2>1. CASE type \in Prefixed
    <3>1. /\ PrefixLen(t, k, v) \in {0, 1, 2}
          /\ PrefixLen(t, k, v) > 0 <=> (v > 0 /\ k < Len(t) /\ t[k + 1] = "0")
          /\ PrefixLen(t, k, v) = 2 <=> (/\ v > 1 /\ k + 1 < Len(t) /\ t[k + 1] = "0"
                                         /\ t[k + 2] \in {"x", "X"})
      BY PrefixFacts
    <3>2. t[k + 1] = "0" <=> q = 1
      BY <1>4, <2>1 DEF Spelt
    <3>3. k + 1 < N => t[k + 2] \notin {"x", "X"}
      <4>1. CASE g + 1 < m
        BY <1>4, <4>1 DEF Spelt
      <4>2. CASE ~(g + 1 < m)
        <5>1. k + 1 = i + m /\ k + 2 = i + m + 1
          BY <1>1, <1>4, <4>2
        <5>2. k + 1 < N => t[k + 2] \in White
          BY <1>2, <5>1 DEF Spelt
        <5>3. "x" \notin White /\ "X" \notin White
          BY Zenon DEF White
        <5> QED
          BY <5>2, <5>3
      <4> QED
        BY <4>1, <4>2
    <3>4. PICK x \in {0, 1, 2} : /\ x = PrefixLen(t, k, v) /\ (x > 0 <=> q = 1) /\ x # 2
      BY <1>2, <1>4, <3>1, <3>2, <3>3
    <3>5. x = q
      BY <1>1, <3>4
    <3> QED
      BY <2>1, <3>4, <3>5
  <2>2. CASE type \notin Prefixed
    BY <1>1, <2>2 DEF Spelt
  <2> QED
    BY <2>1, <2>2
<1>6. base \in Bases /\ base = (IF type = "i" THEN Radix(q) ELSE Base[type]) /\ base \in 1 .. 16
  BY DEF Spelt, Bases
<1>7. PICK from \in Nat : from = g + q
  BY <1>1
<1>8. PICK f \in Nat, n \in Nat, w \in Nat :
          f = i + from /\ n = m - from /\ w = W - from /\ n <= w /\ f + n = i + m
  <2>1. from <= m
    BY <1>1, <1>7
  <2>2. /\ i + from \in Nat /\ m - from \in Nat /\ W - from \in Nat /\ m - from <= W - from
        /\ (i + from) + (m - from) = i + m
    BY <1>1, <1>7, <2>1
  <2> QED
    BY <2>2
<1>9. PICK ok : ok = {j \in Places(t) : Collects(CharAt(t, j), base)}
  OBVIOUS
<1>10. ASSUME NEW j \in Nat PROVE j \in ok <=> j < N /\ Collects(t[j + 1], base)
  BY <1>2, <1>9, CharFacts DEF Places
<1>11. f .. f + n - 1 \subseteq ok
  <2>1. ASSUME NEW x \in f .. f + n - 1 PROVE x \in ok
    <3>1. PICK j \in g + q + 1 .. m : x + 1 = i + j
      <4>1. (x + 1) - i \in g + q + 1 .. m /\ x + 1 = i + ((x + 1) - i)
        BY <1>1, <1>7, <1>8
      <4> QED
        BY <4>1
    <3>2. Collects(t[x + 1], base)
      BY <3>1 DEF Spelt
    <3>3. x \in Nat /\ x < N
      BY <1>1, <1>2, <1>8
    <3> QED
      BY <1>10, <3>2, <3>3
  <2> QED
    BY <2>1
<1>12. f + n \notin ok
  <2>1. f + n \in Nat /\ f + n = i + m
    BY <1>8
  <2>2. i + m < N => t[i + m + 1] \in White
    BY <1>2 DEF Spelt
  <2>3. ASSUME Collects(t[f + n + 1], base) PROVE t[f + n + 1] \notin White
    BY <1>6, <2>3, DigitFacts
  <2> QED
    BY <1>10, <2>1, <2>2, <2>3
<1>13. Span(ok, f, w) = n
  <2>1. n \in 0 .. w
    BY <1>8
  <2> QED
    BY <1>11, <1>12, <2>1, SpanIs
<1>14. from + n = m /\ W - g = v /\ i + g = k
  BY <1>1, <1>4, <1>7, <1>8
<1>15. PICK pr : pr = IF type \in Prefixed THEN PrefixLen(t, k, v) ELSE 0
  OBVIOUS
<1>16. pr = q
  BY <1>5, <1>15
<1>17. o_collect(t, i, type, W) = [len |-> from + n, base |-> IF type = "i" THEN 0 ELSE base]
  <2> HIDE DEF SignLen, PrefixLen, Radix, Places, Collects, Span, Base
  <2> QED
    BY <1>3, <1>6, <1>7, <1>8, <1>9, <1>13, <1>14, <1>15, <1>16 DEF o_collect, Prefixed
<1> QED
  BY <1>14, <1>17

(* strtol and strtoul convert all of it.                                   *)
LEMMA SpeltValue ==
  ASSUME NEW S, EOF \notin S, NEW t \in Seq(S), NEW type \in DOMAIN Base,
         NEW i, NEW m, NEW g, NEW q, NEW base, Spelt(t, i, m, g, q, base, type),
         NEW u, Part(u, t, i, m, S), NEW sg \in BOOLEAN
  PROVE  /\ IsNumber(u)
         /\ string2long(u, IF type = "i" THEN 0 ELSE base, sg).val
              = Nearest(sg, u[1] = "-", Value(u, base))
<1>1. /\ i \in Nat /\ m \in Nat /\ g \in {0, 1} /\ q \in {0, 1} /\ g < m /\ i + m <= Len(t)
      /\ g \in Nat /\ q \in Nat
  BY DEF Spelt
<1>2. u \in Seq(S) /\ Len(u) = m /\ \A j \in 1 .. m : u[j] = t[i + j]
  BY DEF Part
<1>3. SignLen(u, 0) = g
  <2>1. PICK z \in {0, 1} : z = SignLen(u, 0) /\ (z = 1 <=> m > 0 /\ u[1] \in Signs)
    BY <1>2, SignFacts
  <2>2. m > 0 /\ 1 \in 1 .. m
    BY <1>1
  <2> QED
    BY <1>1, <1>2, <2>1, <2>2 DEF Spelt
<1>4. IsNumber(u)
  <2>1. ASSUME u = <<>> PROVE FALSE
    BY <1>1, <1>2, <2>1
  <2>2. ASSUME NEW c \in Signs, u = <<c>> PROVE FALSE
    <3>1. u[1] \in Signs /\ Len(u) = 1
      BY <2>2
    <3>2. m = 1 /\ g = 0 /\ t[i + 1] \in Signs
      BY <1>1, <1>2, <3>1
    <3> QED
      BY <3>2 DEF Spelt
  <2> QED
    BY <2>1, <2>2 DEF IsNumber
<1>5. PICK k \in 1 .. m : k = g + 1 /\ i + k = i + g + 1
  <2>1. g + 1 \in 1 .. m /\ i + (g + 1) = i + g + 1
    BY <1>1
  <2> QED
    BY <2>1
<1>6. q = 1 <=> type \in Prefixed /\ u[g + 1] = "0"
  BY <1>2, <1>5 DEF Spelt
<1>7. base \in Bases /\ base = (IF type = "i" THEN Radix(q) ELSE Base[type])
  BY DEF Spelt
<1>8. PICK c : c = IF type = "i" THEN 0 ELSE base
  OBVIOUS
<1>9. type \in Prefixed => PrefixLen(u, g, 2) = q
  <2>1. /\ PrefixLen(u, g, 2) \in {0, 1, 2}
        /\ PrefixLen(u, g, 2) > 0 <=> (2 > 0 /\ g < Len(u) /\ u[g + 1] = "0")
        /\ PrefixLen(u, g, 2) = 2 <=> (/\ 2 > 1 /\ g + 1 < Len(u) /\ u[g + 1] = "0"
                                       /\ u[g + 2] \in {"x", "X"})
    <3>1. 2 \in Nat
      OBVIOUS
    <3> QED
      BY <1>1, <1>2, <3>1, PrefixFacts
  <2>2. g + 1 < m => u[g + 2] \notin {"x", "X"}
    <3>1. g + 1 < m => g + 2 \in 1 .. m /\ i + (g + 2) = i + g + 2
      BY <1>1
    <3> QED
      BY <1>2, <3>1 DEF Spelt
  <2>3. PICK x \in {0, 1, 2} : x = PrefixLen(u, g, 2) /\ (x > 0 <=> u[g + 1] = "0") /\ x # 2
    BY <1>1, <1>2, <2>1, <2>2
  <2> QED
    BY <1>1, <1>6, <2>3
<1>10. c \in {0, 16} <=> type \in Prefixed
  <2>1. CASE type = "i"
    BY <1>8, <2>1 DEF Prefixed
  <2>2. CASE type # "i"
    <3>1. c = Base[type] /\ Base[type] \in Bases /\ (Base[type] = 16 <=> type \in {"p", "x", "X"})
      BY <1>7, <1>8, <2>2, TypeFacts
    <3>2. c # 0
      BY <3>1 DEF Bases
    <3> QED
      BY <2>2, <3>1, <3>2 DEF Prefixed
  <2> QED
    BY <2>1, <2>2
<1>11. Agrees(u, c, q, base)
  <2>1. IF c \in {0, 16} THEN q = PrefixLen(u, g, 2) ELSE q = 0
    BY <1>1, <1>6, <1>9, <1>10
  <2>2. base = IF c = 0 THEN Radix(q) ELSE c
    <3>1. base # 0
      BY <1>7 DEF Bases
    <3> QED
      BY <1>7, <1>8, <3>1
  <2> QED
    BY <1>3, <2>1, <2>2 DEF Agrees
<1>12. Numeral(u, q, base)
  <2>1. ASSUME NEW j \in g + q + 1 .. m PROVE Collects(u[j], base)
    <3>1. j \in 1 .. m
      BY <1>1
    <3> QED
      BY <1>2, <3>1 DEF Spelt
  <2>2. q > 0 => u[g + 1] = "0"
    BY <1>1, <1>6
  <2>3. q \in {0, 1, 2} /\ q # 2 /\ g + q <= m
    BY <1>1
  <2> QED
    BY <1>1, <1>2, <1>3, <2>1, <2>2, <2>3 DEF Numeral
<1>13. string2long(u, c, sg).val = Nearest(sg, u[1] = "-", Value(u, base))
  <2> HIDE DEF string2long, Nearest, Numeral, Agrees, Bases
  <2> QED
    BY <1>2, <1>7, <1>11, <1>12, Converts
<1> HIDE DEF string2long, Nearest, IsNumber
<1> QED
  BY <1>4, <1>8, <1>13

(* There is one first word.                                                *)
LEMMA WordAt ==
  ASSUME NEW S, NEW t \in Seq(S), NEW i, NEW m, NEW k, NEW n, Word(t, i, m), Word(t, k, n), m > 0
  PROVE  k = i
<1>1. PICK N \in Nat : N = Len(t)
  OBVIOUS
<1>2. i \in 0 .. N /\ k \in 0 .. N /\ m \in Nat /\ i + m <= N
  BY <1>1 DEF Word
<1>3. ~(k < i)
  <2>1. k < i => k + 1 \in 1 .. i /\ k < N
    BY <1>2
  <2> QED
    BY <1>1, <2>1 DEF Word
<1>4. ~(i < k)
  <2>1. i < N /\ (i < k => i + 1 \in 1 .. k)
    BY <1>2
  <2> QED
    BY <1>1, <2>1 DEF Word
<1> QED
  BY <1>2, <1>3, <1>4

(* The field u of a conversion: a numeral that is the first word.          *)
Taken(t, i, m, g, q, base, type, u) ==
  /\ Spelt(t, i, m, g, q, base, type) /\ Word(t, i, m) /\ m <= NUMLEN
  /\ u = SubSeq(t, i + 1, i + m) /\ IsNumber(u)

(* A number conversion stores what its first word says.                    *)
LEMMA SpeltOut ==
  ASSUME NEW t \in Seq(Marks), NEW type \in DOMAIN Base,
         NEW i, NEW m, NEW g, NEW q, NEW base, NEW u, Taken(t, i, m, g, q, base, type, u), NEW v,
         v = Stored(u, IF type = "i" THEN 0 ELSE base, Scanning(type))
  PROVE  _doscan(t, <<Scanning(type)>>).out = <<v>>
<1>0. /\ Spelt(t, i, m, g, q, base, type) /\ Word(t, i, m) /\ m <= NUMLEN
      /\ u = SubSeq(t, i + 1, i + m) /\ IsNumber(u)
  BY DEF Taken
<1>0e. EOF \notin Marks
  BY Zenon DEF Marks, Figures, EOF, Gap
<1>1. i \in Nat /\ m \in Nat /\ m > 0 /\ i + m <= Len(t)
  BY <1>0 DEF Spelt
<1>2. Blanks(t, 0) = i
  <2>1. PICK k, n : k = Blanks(t, 0) /\ n = Span({j \in Places(t) : ~IsSpace(CharAt(t, j))}, k, Len(t))
    OBVIOUS
  <2>2. Word(t, k, n)
    BY <1>0e, <2>1, WordFacts
  <2> QED
    BY <1>0, <1>1, <2>1, <2>2, WordAt
<1>4. PICK c : c = IF type = "i" THEN 0 ELSE base
  OBVIOUS
<1>8. PICK W \in Nat \ {0} : W = NUMLEN
  BY ScanAssumption
<1>9. o_collect(t, i, type, W) = [len |-> m, base |-> c]
  BY <1>0, <1>0e, <1>4, <1>8, CollectIs
<1>10. PICK d : d = Scanning(type)
  OBVIOUS
<1>11. d.conv = type /\ d.noassign = FALSE /\ d.width = -1 /\ d.size = ""
  BY <1>10 DEF Scanning
<1>12. Stored(u, c, d) = v
  BY <1>4, <1>10
<1>13. PICK o : o = Item(Begin, d, t)
  OBVIOUS
<1>14. type \in {"o", "p", "x", "X", "d", "i", "u", "b"}
  BY DEF Base
<1>15. type \notin {"c", "[", "n", "space", "literal"}
  BY <1>14
<1>16. o.out = <<v>>
  <2>1. Field(t, 0, type) = i /\ Begin.at = 0 /\ Begin.ret = <<>> /\ Begin.out = <<>>
    BY <1>1, <1>2, <1>15 DEF Field, Begin
  <2>2. PICK b : b = [Begin EXCEPT !.ic = CharAt(t, i)]
    OBVIOUS
  <2>3. b.ic = CharAt(t, i) /\ b.out = <<>>
    BY <2>2 DEF Begin
  <2>4. CharAt(t, i) # EOF
    BY <1>0e, <1>1, CharFacts
  <2>5. o = Numeric(b, d, t, i)
    <3> HIDE DEF Begin, CharAt, EOF, Break, Numeric, Textual, Field, Assign, Base
    <3> QED
      BY <1>11, <1>13, <1>15, <2>1, <2>2, <2>3, <2>4 DEF Item
  <2>6. Numeric(b, d, t, i) = Assign(b, d, i, m, v)
    <3>1. PICK width : width = IF d.width = -1 \/ d.width > NUMLEN THEN NUMLEN ELSE d.width
      OBVIOUS
    <3>2. width = W /\ width # 0
      BY <1>8, <1>11, <3>1
    <3>3. o_collect(t, i, d.conv, width).len = m /\ o_collect(t, i, d.conv, width).base = c
      <4>1. PICK oc : oc = [len |-> m, base |-> c]
        OBVIOUS
      <4>2. oc.len = m /\ oc.base = c
        BY <4>1
      <4> HIDE DEF o_collect
      <4> QED
        BY <1>9, <1>11, <3>2, <4>1, <4>2
    <3> HIDE DEF o_collect, IsNumber, Stored, Assign, Return
    <3> QED
      BY <1>0, <1>12, <3>1, <3>2, <3>3 DEF Numeric
  <2>7. Assign(b, d, i, m, v).out = Append(b.out, v)
    BY <1>11, <2>2 DEF Assign, Begin
  <2>8. Append(b.out, v) = <<v>>
    BY <2>3
  <2> QED
    BY <2>5, <2>6, <2>7, <2>8
<1>17. _doscan(t, <<d>>).out = o.out
  <2>1. PICK z : z = FoldLeft(LAMBDA r, x : Item(r, x, t), Begin, <<d>>)
    OBVIOUS
  <2>2. z = o
    BY <1>13, <2>1, OneItem
  <2>3. <<d>> # <<>>
    OBVIOUS
  <2>4. _doscan(t, <<d>>) = IF z.ret = <<>> THEN Break(z) ELSE z
    BY <2>1, <2>3 DEF _doscan
  <2>5. Break(z).out = z.out
    BY DEF Break
  <2> QED
    BY <2>2, <2>4, <2>5
<1> QED
  BY <1>10, <1>16, <1>17

(* Zeros only: the value is zero in every base.                            *)
LEMMA NoValue ==
  ASSUME NEW S, NEW u \in Seq(S), NEW base \in 1 .. 16, Idle(u, Len(u), base)
  PROVE  Value(u, base) = 0
<1>1. PICK w : w = <<>>
  OBVIOUS
<1>2. w \in Seq(S) /\ Len(w) = 0
  BY <1>1
<1>3. PICK m \in Nat : m = Len(u)
  OBVIOUS
<1>4. Suffix(w, u, m)
  BY <1>2, <1>3 DEF Suffix
<1>5. Value(u, base) = Value(w, base)
  BY <1>2, <1>3, <1>4, ValueDrop
<1>6. PICK f : Worths(f, w, base) /\ Value(w, base) = f[Len(w)]
  BY <1>2, ValueFold
<1> QED
  BY <1>2, <1>5, <1>6 DEF Worths

Capital(s) == \A j \in DOMAIN s : s[j] \notin Smalls
InpFits(s) == ~(Len(FirstWord(s)) > NUMLEN)

(* What number writes is read back by the same conversion: it has no small *)
(* letters, and for %i no zeros in front.                                  *)
LEMMA NumberBack ==
  ASSUME NEW num \in 0 .. WordMod - 1, NEW conv \in DOMAIN Base, NEW size \in Int, NEW type,
         "SPACE" \notin type, "SPECIAL" \notin type, "SIGN" \in type <=> conv \in {"d", "i"},
         conv = "i" => ~Zeroed(type),
         NEW s, s = number(num, Base[conv], size, -1, type),
         Capital(s), InpFits(s)
  PROVE  _doscan(s, <<Scanning(conv)>>).out = <<num>>
<1>1. PICK base \in Bases : base = Base[conv]
  BY TypeFacts
<1>2. PICK G, P, R, g, e, n, a, z, d :
          Layout(num, base, size, -1, type, s, G, P, R, g, e, n, a, z, d)
  BY <1>1, LayoutIs
<1>3. PICK m : m = g + z + n
  OBVIOUS
<1>3u. PICK u : u = SubSeq(s, a + 1, a + m)
  OBVIOUS
<1>4. Written(s, u, a, m, g, n, R, base, num, type)
  BY <1>2, <1>3, <1>3u, WrittenIs
<1>5. /\ s \in Seq(Marks) /\ Word(s, a, m) /\ Part(u, s, a, m, Marks)
      /\ a \in Nat /\ m \in Nat /\ g \in {0, 1} /\ g \in Nat /\ n \in Nat /\ n > 0 /\ g + n <= m
      /\ g = 1 => u[1] \in Signs
      /\ u[1] = "-" <=> Negative(num, type)
      /\ \A j \in g + 1 .. m : u[j] \in Figures /\ IsDigit(u[j], base)
      /\ \A j \in 1 .. n : u[m - n + j] = R[j]
      /\ Value(u, base) = Magnitude(num, type)
  BY <1>4 DEF Written
<1>5w. s \in Seq(Marks) /\ Word(s, a, m)
  BY <1>5
<1>6. u \in Seq(Marks) /\ Len(u) = m /\ \A j \in 1 .. m : u[j] = s[a + j]
  BY <1>5 DEF Part
<1>7. EOF \notin Marks
  BY Zenon DEF Marks, Figures, EOF, Gap
<1>8. a + m <= Len(s) /\ g < m /\ (a + m < Len(s) => s[a + m + 1] \in White)
  BY <1>5 DEF Word
<1>9. m <= NUMLEN
  <2>1. FirstWord(s) = u
    BY <1>3u, <1>5w, WordIs
  <2>2. m \in Nat /\ NUMLEN \in Nat
    BY <1>5, ScanAssumption
  <2> QED
    BY <1>6, <2>1, <2>2 DEF InpFits
<1>10. ASSUME NEW j \in g + 1 .. m PROVE Collects(u[j], base) /\ u[j] \notin {"x", "X"} /\ u[j] \notin Signs
  <2>1. j \in 1 .. m /\ a + j \in DOMAIN s
    BY <1>5, <1>8
  <2>2. u[j] \notin Smalls /\ IsDigit(u[j], base) /\ u[j] \in Figures
    BY <1>5, <1>6, <2>1 DEF Capital
  <2>3. Collects(u[j], base)
    BY <2>2, KnowsOthers
  <2> QED
    BY <2>2, <2>3 DEF Figures, Signs
<1>11. PICK q \in {0, 1} : q = 1 <=> conv \in Prefixed /\ u[g + 1] = "0"
  <2>1. CASE conv \in Prefixed /\ u[g + 1] = "0"
    BY <2>1
  <2>2. CASE ~(conv \in Prefixed /\ u[g + 1] = "0")
    BY <2>2
  <2> QED
    BY <2>1, <2>2
<1>12. PICK rad \in Bases : rad = IF conv = "i" THEN Radix(q) ELSE base
  BY <1>11 DEF Radix, Bases
<1>13. ASSUME conv = "i", q = 1 PROVE m = g + 1 /\ u[g + 1] = "0" /\ rad = 8
  <2>1. u[g + 1] = "0" /\ rad = 8
    BY <1>11, <1>12, <1>13 DEF Radix
  <2>2. z = 0 /\ R = Spell(Divide(Magnitude(num, type), base), Table(type)) /\ n = Len(R)
    BY <1>2, <1>13 DEF Layout, Fitted
  <2>3. m - n + 1 = g + 1 /\ 1 \in 1 .. n /\ m = g + n
    BY <1>3, <1>5, <2>2
  <2>4. R[1] = "0"
    BY <1>5, <2>1, <2>3
  <2>5. Table(type) \in Tables /\ Magnitude(num, type) \in Nat
    BY MagnitudeFacts DEF Table, Tables
  <2>6. n = 1
    BY <2>2, <2>4, <2>5, SpellTop
  <2> QED
    BY <2>1, <2>3, <2>6
<1>14. ~(conv = "i" /\ q = 1) => rad = base
  <2>1. CASE conv = "i" /\ q = 0
    BY <1>1, <1>12, <2>1, TypeFacts DEF Radix
  <2>2. CASE conv # "i"
    BY <1>12, <2>2
  <2> QED
    BY <1>11, <2>1, <2>2
<1>15. ASSUME NEW j \in g + q + 1 .. m PROVE Collects(s[a + j], rad)
  <2>1. CASE conv = "i" /\ q = 1
    BY <1>5, <1>13, <2>1
  <2>2. CASE ~(conv = "i" /\ q = 1)
    <3>1. j \in g + 1 .. m /\ j \in 1 .. m
      BY <1>5, <1>11
    <3>2. Collects(u[j], base)
      BY <1>10, <3>1
    <3> QED
      BY <1>6, <1>14, <2>2, <3>1, <3>2
  <2> QED
    BY <2>1, <2>2
<1>16. Spelt(s, a, m, g, q, rad, conv)
  <2>1. 1 \in 1 .. m /\ s[a + 1] = u[1]
    BY <1>5, <1>6
  <2>2. g = 1 <=> s[a + 1] \in Signs
    <3>1. CASE g = 1
      BY <1>5, <2>1, <3>1
    <3>2. CASE g = 0
      <4>1. 1 \in g + 1 .. m
        BY <1>5, <3>2
      <4> QED
        BY <1>10, <2>1, <3>2, <4>1
    <3> QED
      BY <1>5, <3>1, <3>2
  <2>3. s[a + g + 1] = u[g + 1]
    <3>1. g + 1 \in 1 .. m /\ a + (g + 1) = a + g + 1
      BY <1>5
    <3> QED
      BY <1>6, <3>1
  <2>4. g + 1 < m => s[a + g + 2] \notin {"x", "X"}
    <3>1. g + 1 < m => g + 2 \in 1 .. m /\ g + 2 \in g + 1 .. m /\ a + (g + 2) = a + g + 2
      BY <1>5
    <3> QED
      BY <1>6, <1>10, <3>1
  <2>5. rad = IF conv = "i" THEN Radix(q) ELSE Base[conv]
    BY <1>1, <1>12
  <2> QED
    BY <1>5, <1>8, <1>11, <1>12, <1>15, <2>2, <2>3, <2>4, <2>5 DEF Spelt
<1>17. _doscan(s, <<Scanning(conv)>>).out
         = <<Nearest(conv \in {"d", "i"}, u[1] = "-", Value(u, rad))>>
  <2>1. PICK sg \in BOOLEAN : sg = (conv \in {"d", "i"})
    <3>1. (conv \in {"d", "i"}) \in BOOLEAN
      OBVIOUS
    <3> QED
      BY <3>1, Zenon
  <2>2. IsNumber(u) /\ string2long(u, IF conv = "i" THEN 0 ELSE rad, sg).val
                        = Nearest(sg, u[1] = "-", Value(u, rad))
    BY <1>5, <1>7, <1>16, SpeltValue
  <2>3. PICK c : c = IF conv = "i" THEN 0 ELSE rad
    OBVIOUS
  <2>4. Stored(u, c, Scanning(conv)) = string2long(u, c, sg).val
    <3>1. PICK x : x = Scanning(conv)
      OBVIOUS
    <3>2. x.conv = conv /\ x.size # "h"
      BY <3>1 DEF Scanning
    <3>3. Stored(u, c, x) = string2long(u, c, x.conv \in {"d", "i"}).val
      BY <3>2, Zenon DEF Stored
    <3> QED
      BY <2>1, <3>1, <3>2, <3>3, Zenon
  <2>5. PICK v : v = Stored(u, c, Scanning(conv))
    OBVIOUS
  <2>6. _doscan(s, <<Scanning(conv)>>).out = <<v>>
    <3>1. Taken(s, a, m, g, q, rad, conv, u)
      BY <1>3u, <1>5w, <1>9, <1>16, <2>2, Zenon DEF Taken
    <3>2. s \in Seq(Marks)
      BY <1>5w
    <3>3. v = Stored(u, IF conv = "i" THEN 0 ELSE rad, Scanning(conv))
      BY <2>3, <2>5, Zenon
    <3> HIDE DEF Taken, _doscan, Stored, Scanning, number, Marks
    <3> QED
      BY <3>1, <3>2, <3>3, SpeltOut
  <2>7. v = Nearest(sg, u[1] = "-", Value(u, rad))
    BY <2>2, <2>3, <2>4, <2>5, Zenon
  <2> QED
    BY <2>1, <2>6, <2>7, Zenon
<1>18. Value(u, rad) = Magnitude(num, type)
  <2>1. CASE ~(conv = "i" /\ q = 1)
    BY <1>5, <1>14, <2>1
  <2>2. CASE conv = "i" /\ q = 1
    <3>1. ASSUME NEW b \in 1 .. 16 PROVE Value(u, b) = 0
      <4>1. ASSUME NEW j \in 1 .. m PROVE u[j] = "0" \/ ~IsDigit(u[j], b)
        <5>1. CASE j = g + 1
          BY <1>13, <2>2, <5>1
        <5>2. CASE j # g + 1
          <6>1. j = 1 /\ g = 1
            <7>1. g = 0 \/ g = 1
              BY <1>5
            <7>2. m = g + 1
              BY <1>13, <2>2
            <7> QED
              BY <5>2, <7>1, <7>2
          <6>2. u[j] \in Signs
            BY <1>5, <6>1
          <6> QED
            BY <6>2, DigitFacts
        <5> QED
          BY <5>1, <5>2
      <4>2. Idle(u, Len(u), b)
        BY <1>6, <4>1 DEF Idle
      <4> QED
        BY <1>6, <4>2, NoValue
    <3>2. base \in 1 .. 16 /\ rad \in 1 .. 16
      BY DEF Bases
    <3> QED
      BY <1>5, <3>1, <3>2
  <2> QED
    BY <2>1, <2>2
<1>19. PICK sg \in BOOLEAN : sg = (conv \in {"d", "i"})
  <2>1. (conv \in {"d", "i"}) \in BOOLEAN
    OBVIOUS
  <2> QED
    BY <2>1, Zenon
<1>20. (u[1] = "-") = Negative(num, type)
  BY <1>5, Zenon DEF Negative
<1>21. Nearest(sg, Negative(num, type), Magnitude(num, type)) = num
  BY <1>19, NearestBack
<1> HIDE DEF Nearest, Scanning, _doscan, Negative
<1> QED
  BY <1>17, <1>18, <1>19, <1>20, <1>21

(* Without SMALL, number writes no small letters.                          *)
LEMMA NoSmall ==
  ASSUME NEW num \in 0 .. WordMod - 1, NEW base \in Bases, NEW size \in Int, NEW type,
         "SMALL" \notin type, "SPECIAL" \notin type, NEW s, s = number(num, base, size, -1, type)
  PROVE  Capital(s)
<1>1. PICK G, P, R, g, e, n, a, z, d :
          Layout(num, base, size, -1, type, s, G, P, R, g, e, n, a, z, d)
  BY LayoutIs
<1>2. /\ g \in Nat /\ e \in Nat /\ n \in Nat /\ a \in Nat /\ z \in Nat /\ d \in Nat
      /\ P = Lead0(base, type) /\ e = Len(P) /\ n = Len(R)
      /\ R = Spell(Divide(Magnitude(num, type), base), Table(type))
      /\ s \in Seq(Marks) /\ Len(s) = a + g + e + z + n + d
  BY <1>1 DEF Layout, Laid
<1>3. e = 0
  BY <1>2, LeadIs
<1>4. PICK k1, k2, k3 : k1 = a + g /\ k2 = a + g + z /\ k3 = a + g + z + n
  OBVIOUS
<1>4n. k1 \in Nat /\ k2 \in Nat /\ k3 \in Nat
  BY <1>2, <1>4
<1>5. PICK k : k = a + g + e + z
  OBVIOUS
<1>6. k = k2 /\ a + g + e + z + n = k3 /\ a + g + e = k1 /\ a + g = k1
  BY <1>2, <1>3, <1>4, <1>5
<1>7. /\ \A j \in 1 .. a : s[j] = Gap
      /\ \A j \in a + 1 .. k1 : s[j] \in {"-", "+", Gap}
      /\ \A j \in k1 + 1 .. k2 : s[j] = "0"
      /\ \A j \in k3 + 1 .. Len(s) : s[j] = Gap
  BY <1>1, <1>5, <1>6, LaidChars
<1>8. \A j \in 1 .. n : s[k + j] = R[j]
  BY <1>1, <1>5 DEF Layout, Laid
<1>9. ASSUME NEW j \in 1 .. n PROVE R[j] \notin Smalls
  <2>1. PICK tmp : tmp = Divide(Magnitude(num, type), base)
    OBVIOUS
  <2>2. tmp \in Seq(0 .. base - 1)
    BY <2>1, MagnitudeFacts, DivideRight DEF Spells
  <2>3. DIGITS \in Tables /\ R = Spell(tmp, DIGITS)
    BY <1>2, <2>1 DEF Tables, Table
  <2>4. n = Len(tmp) /\ R[j] = DIGITS[tmp[n - j + 1] + 1]
    BY <1>2, <2>2, <2>3, SpellFacts
  <2>5. n - j + 1 \in 1 .. n
    BY <1>2
  <2>6. PICK i \in 1 .. n : i = n - j + 1
    BY <2>5
  <2>7. tmp[i] \in 0 .. base - 1
    <3>1. PICK S : S = 0 .. base - 1
      OBVIOUS
    <3>2. tmp \in Seq(S) /\ i \in 1 .. Len(tmp)
      BY <2>2, <2>4, <3>1
    <3>3. tmp[i] \in S
      BY <3>2
    <3> QED
      BY <3>1, <3>3
  <2>8. tmp[i] \in 0 .. 15
    BY <2>7 DEF Bases
  <2> QED
    BY <2>4, <2>6, <2>8, CapitalTable
<1>10. Gap \notin Smalls /\ "-" \notin Smalls /\ "+" \notin Smalls /\ "0" \notin Smalls
  BY Zenon DEF Gap, Smalls
<1>11. ASSUME NEW j \in DOMAIN s PROVE s[j] \notin Smalls
  <2>1. j \in 1 .. Len(s)
    BY <1>2
  <2>0. a \in Nat /\ n \in Nat /\ Len(s) \in Nat /\ k3 = k2 + n
    BY <1>2, <1>4
  <2>2. j \in 1 .. a \/ j \in a + 1 .. k1 \/ j \in k1 + 1 .. k2 \/ j - k2 \in 1 .. n
        \/ j \in k3 + 1 .. Len(s)
    BY <1>4n, <2>0, <2>1
  <2>3. CASE j - k2 \in 1 .. n
    <3>1. k + (j - k2) = j
      BY <1>4n, <1>6, <2>1
    <3> QED
      BY <1>8, <1>9, <2>3, <3>1
  <2>4. CASE j \in 1 .. a \/ j \in k3 + 1 .. Len(s) \/ j \in k1 + 1 .. k2
    BY <1>7, <1>10, <2>4
  <2>5. CASE j \in a + 1 .. k1
    BY <1>7, <1>10, <2>5
  <2> QED
    BY <2>2, <2>3, <2>4, <2>5
<1> QED
  BY <1>11 DEF Capital

(* The flags vsprintf passes to number for a conversion.                   *)
Passed(conv, flags, whole) ==
  flags \cup (IF whole THEN {"ZEROPAD"} ELSE {})
        \cup (IF conv \in {"d", "i"} THEN {"SIGN"} ELSE {})
        \cup (IF conv = "x" THEN {"SMALL"} ELSE {})

(* A number conversion of vsprintf is a call of number.                    *)
LEMMA ConvertIs ==
  ASSUME NEW conv \in DOMAIN Base, NEW flags, NEW width, NEW num
  PROVE  \E size, type :
           /\ size \in {8, width} /\ type = Passed(conv, flags, conv = "p" /\ width = -1)
           /\ Convert([conv |-> conv, flags |-> flags, width |-> width, prec |-> -1, arg |-> num])
                = number(num, Base[conv], size, -1, type)
<1>1. PICK d : d = [conv |-> conv, flags |-> flags, width |-> width, prec |-> -1, arg |-> num]
  OBVIOUS
<1>2. d.conv = conv /\ d.flags = flags /\ d.width = width /\ d.prec = -1 /\ d.arg = num
  BY <1>1
<1>3. conv \in {"o", "p", "x", "X", "d", "i", "u", "b"}
  BY DEF Base
<1>4. d.conv \notin {"literal", "c", "s", "n", "default"} /\ d.conv \in DOMAIN Base
  BY <1>2, <1>3
<1>5. PICK size, type : size = (IF conv = "p" /\ width = -1 THEN 8 ELSE width)
                        /\ type = Passed(conv, flags, conv = "p" /\ width = -1)
  OBVIOUS
<1>6. Convert(d) = number(d.arg, Base[d.conv], IF d.conv = "p" /\ d.width = -1 THEN 8 ELSE d.width,
                          d.prec, Passed(d.conv, d.flags, d.conv = "p" /\ d.width = -1))
  <2> HIDE DEF number, Base, Justify
  <2> QED
    BY <1>4 DEF Convert, Passed
<1>7. Convert(d) = number(num, Base[conv], size, -1, type)
  BY <1>2, <1>5, <1>6
<1>8. size \in {8, width}
  BY <1>5
<1> QED
  BY <1>1, <1>5, <1>7, <1>8

(* number gives back what it was given (printf.c:60-140), for every word.  *)
THEOREM NumberSafety == Spec => []NumberRight
<1>1. NumberRight
  <2>1. ASSUME NEW num \in 0 .. WordMod - 1, NEW base \in {2, 8, 10, 16},
               NEW size \in {-1, 0, 1, 4, 6}, NEW precision \in {-1, 0, 3}, NEW type \in SUBSET Flags
        PROVE  ReadsBack(num, base, size, precision, type)
    <3>1. base \in Bases /\ size \in Int /\ precision \in Int
      BY DEF Bases
    <3> HIDE DEF ReadsBack
    <3> QED
      BY <3>1, NumberReads
  <2> HIDE DEF ReadsBack
  <2> QED
    BY <2>1 DEF NumberRight
<1> QED
  BY <1>1, PTL

(* What printf writes scanf reads back (printf.c:60-140, _doscan.c:128-289) *)
(* for every word.                                                         *)
THEOREM BackSafety == Spec => []ScanBack
<1>1. ScanBack
  <2>1. ASSUME NEW num \in 0 .. WordMod - 1, NEW conv \in DOMAIN Base, NEW width \in {-1, 4},
               NEW flags \in SUBSET {"PLUS", "ZEROPAD", "LEFT"}, NEW s,
               s = Convert([conv |-> conv, flags |-> flags, width |-> width, prec |-> -1, arg |-> num]),
               ~(Len(FirstWord(s)) > NUMLEN),
               ~(conv = "x" /\ \E j \in DOMAIN s : s[j] \in {"a", "b", "c", "d", "e", "f"}),
               ~(conv = "i" /\ {"ZEROPAD", "LEFT"} \cap flags = {"ZEROPAD"})
        PROVE  _doscan(s, <<Scanning(conv)>>).out = <<num>>
    <3>1. PICK size, type :
             /\ size \in {8, width} /\ type = Passed(conv, flags, conv = "p" /\ width = -1)
             /\ s = number(num, Base[conv], size, -1, type)
      <4> HIDE DEF number, Convert, Base, Passed
      <4> QED
        BY <2>1, ConvertIs
    <3>2. size \in Int /\ Base[conv] \in Bases
      BY <3>1, TypeFacts
    <3>3. "SPACE" \notin type /\ "SPECIAL" \notin type
      BY <3>1 DEF Passed
    <3>4. "SIGN" \in type <=> conv \in {"d", "i"}
      BY <3>1 DEF Passed
    <3>5. "SMALL" \in type => conv = "x"
      BY <3>1 DEF Passed
    <3>6. conv = "i" => ~Zeroed(type)
      <4>1. conv = "i" => (Zeroed(type) => "ZEROPAD" \in flags /\ "LEFT" \notin flags)
        BY <3>1 DEF Passed, Zeroed
      <4>2. "ZEROPAD" \in flags /\ "LEFT" \notin flags => {"ZEROPAD", "LEFT"} \cap flags = {"ZEROPAD"}
        OBVIOUS
      <4> QED
        BY <2>1, <4>1, <4>2
    <3>7. Capital(s)
      <4>1. CASE conv = "x"
        BY <2>1, <4>1 DEF Capital, Smalls
      <4>2. CASE conv # "x"
        BY <3>1, <3>2, <3>3, <3>5, <4>2, NoSmall
      <4> QED
        BY <4>1, <4>2
    <3>8. InpFits(s)
      BY <2>1 DEF InpFits
    <3> HIDE DEF _doscan, Scanning, number, Capital, Zeroed, InpFits
    <3> QED
      BY <3>1, <3>2, <3>3, <3>4, <3>6, <3>7, <3>8, NumberBack
  <2> HIDE DEF _doscan, Scanning, Convert, FirstWord
  <2> QED
    BY <2>1 DEF ScanBack
<1> QED
  BY <1>1, PTL
=============================================================================
