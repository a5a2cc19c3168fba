--------------------------- MODULE KeyboardProofs ---------------------------
(***************************************************************************)
(* Proofs about Keyboard, for any set of its keys, any number of tests and *)
(* any bound on the queue and on the keys held.                            *)
(***************************************************************************)
EXTENDS Keyboard, TLAPS

(* What the keyboard sends: the code of a key that goes down or up, or a   *)
(* byte without an event of its own (a prefix, an ACK, the codes of Pause).*)
Sent(h) ==
  \/ h.ev = "make"  /\ h.key \in Keys \ {"Pause"} /\ h.code = Code[h.key]
  \/ h.ev = "break" /\ h.key \in Keys \ {"Pause"} /\ h.code = Code[h.key] + 128
  \/ h.ev = "none" /\ h.code \in {E0, E1, ACK, 29, 69, 29 + 128, 69 + 128}
Item == {h \in [code : Nat, ev : {"make", "break", "none"}, key : Keys \cup {"none"}] : Sent(h)}

(* Up to the first Pause in s, a code is the one of a right key exactly if *)
(* a 0xE0 comes before it, where e is the prefix taken before s.           *)
Clean(s, i)     == \A j \in 1 .. i - 1 : s[j].code # E1
After0(s, e, i) == IF i = 1 THEN e # 0 ELSE s[i - 1].code = E0
Paired(s, e) ==
  /\ e # 0 => s # <<>>
  /\ \A i \in 1 .. Len(s) : Clean(s, i) =>
       /\ s[i].ev = "none" => s[i].code \in {E0, E1, ACK}
       /\ After0(s, e, i) <=> (s[i].ev # "none" /\ Right(s[i].key))

(* s does not end inside a key's codes.                                    *)
Whole(s) == s # <<>> => s[Len(s)].code # E0

(* The queue, and caps lock's own bit, which no Pause disturbs.            *)
Queued ==
  /\ q \in Seq(Item) /\ Whole(q)
  /\ ~torn => Paired(q, e0)
  /\ "Pause" \notin down
CapsTracks == 128 \in mode <=> "Caps" \in held

IInv == TypeOK /\ Queued /\ CapsTracks /\ ModeTracks /\ LocksInStep

-----------------------------------------------------------------------------
(* The queue without its first code.                                       *)
LEMMA TailFacts ==
  ASSUME NEW s \in Seq(Item), s # <<>>
  PROVE  /\ Tail(s) \in Seq(Item) /\ Len(Tail(s)) = Len(s) - 1 /\ Len(s) \in Nat \ {0}
         /\ Head(s) = s[1] /\ Head(s) \in Item
         /\ \A i \in 1 .. Len(s) - 1 : Tail(s)[i] = s[i + 1]
OBVIOUS

(* The queue with codes added at its end.                                  *)
LEMMA ConcatFacts ==
  ASSUME NEW s \in Seq(Item), NEW m \in Seq(Item)
  PROVE  /\ s \o m \in Seq(Item) /\ Len(s \o m) = Len(s) + Len(m)
         /\ Len(s) \in Nat /\ Len(m) \in Nat
         /\ \A i \in 1 .. Len(s) : (s \o m)[i] = s[i]
         /\ \A i \in 1 .. Len(m) : (s \o m)[Len(s) + i] = m[i]
OBVIOUS

(* Taking a code keeps prefixes and codes together.                        *)
LEMMA TailPaired ==
  ASSUME NEW s \in Seq(Item), s # <<>>, NEW e, Paired(s, e), Whole(s), Head(s).code # E1
  PROVE  /\ Paired(Tail(s), IF Head(s).code = E0 THEN 1 ELSE 0)
         /\ Whole(Tail(s))
<1> DEFINE r == Tail(s)
           d == IF Head(s).code = E0 THEN 1 ELSE 0
<1>1. Whole(r)
  BY TailFacts DEF Whole
<1>2. d # 0 => r # <<>>
  <2> SUFFICES ASSUME r = <<>> PROVE Head(s).code # E0
    OBVIOUS
  <2>0. Tail(s) = <<>> /\ Len(Tail(s)) = 0
    OBVIOUS
  <2>1. Len(Tail(s)) = Len(s) - 1 /\ Len(s) \in Nat \ {0} /\ Head(s) = s[1]
    BY TailFacts
  <2>2. Len(s) = 1
    BY <2>0, <2>1
  <2> HIDE DEF r, d
  <2> QED
    BY <2>1, <2>2 DEF Whole
<1>3. ASSUME NEW i \in 1 .. Len(r), Clean(r, i)
      PROVE  /\ r[i].ev = "none" => r[i].code \in {E0, E1, ACK}
             /\ After0(r, d, i) <=> (r[i].ev # "none" /\ Right(r[i].key))
  <2>1. i + 1 \in 1 .. Len(s) /\ r[i] = s[i + 1]
    BY TailFacts
  <2>2. Clean(s, i + 1)
    <3> SUFFICES ASSUME NEW j \in 1 .. i PROVE s[j].code # E1
      BY <2>1 DEF Clean
    <3>1. CASE j = 1
      BY <3>1, TailFacts
    <3>2. CASE j # 1
      <4>1. j - 1 \in 1 .. i - 1 /\ r[j - 1] = s[j]
        BY <2>1, <3>2, TailFacts
      <4> QED
        BY <1>3, <4>1 DEF Clean
    <3> QED
      BY <3>1, <3>2
  <2>3. After0(r, d, i) <=> After0(s, e, i + 1)
    <3>1. CASE i = 1
      BY <3>1, TailFacts DEF After0
    <3>2. CASE i # 1
      <4>1. r[i - 1] = s[i]
        BY <2>1, <3>2, TailFacts
      <4> QED
        BY <2>1, <3>2, <4>1 DEF After0
    <3> QED
      BY <3>1, <3>2
  <2> QED
    BY <2>1, <2>2, <2>3 DEF Paired
<1> QED
  BY <1>1, <1>2, <1>3 DEF Paired

(* Adding a whole event keeps prefixes and codes together.                 *)
LEMMA ConcatPaired ==
  ASSUME NEW s \in Seq(Item), NEW m \in Seq(Item), NEW e, m # <<>>,
         Paired(s, e), Whole(s), Paired(m, 0)
  PROVE  Paired(s \o m, e)
<1> DEFINE r == s \o m
<1>1. ASSUME NEW i \in 1 .. Len(r), Clean(r, i)
      PROVE  /\ r[i].ev = "none" => r[i].code \in {E0, E1, ACK}
             /\ After0(r, e, i) <=> (r[i].ev # "none" /\ Right(r[i].key))
  <2>1. CASE i <= Len(s)
    <3>1. i \in 1 .. Len(s) /\ \A j \in 1 .. i : r[j] = s[j]
      BY <2>1, ConcatFacts
    <3>2. Clean(s, i) /\ (After0(r, e, i) <=> After0(s, e, i))
      BY <1>1, <3>1 DEF Clean, After0
    <3>3. r[i] = s[i]
      BY <3>1
    <3> HIDE DEF r
    <3> QED
      BY <3>1, <3>2, <3>3 DEF Paired
  <2>2. CASE i > Len(s)
    <3>0. PICK k \in 1 .. Len(m) : i = Len(s) + k
      <4>1. i - Len(s) \in 1 .. Len(m) /\ i = Len(s) + (i - Len(s))
        BY <2>2, ConcatFacts
      <4> QED
        BY <4>1
    <3>1. \A j \in 1 .. k : Len(s) + j \in 1 .. i /\ r[Len(s) + j] = m[j]
      BY <3>0, ConcatFacts
    <3>2. Clean(m, k)
      <4> SUFFICES ASSUME NEW j \in 1 .. k - 1 PROVE m[j].code # E1
        BY DEF Clean
      <4>1. Len(s) + j \in 1 .. i - 1 /\ r[Len(s) + j] = m[j]
        BY <3>0, <3>1, ConcatFacts
      <4> QED
        BY <1>1, <4>1 DEF Clean
    <3>3. After0(r, e, i) <=> After0(m, 0, k)
      <4>1. CASE k # 1
        <5>1. k - 1 \in 1 .. k /\ Len(s) + (k - 1) = i - 1 /\ i # 1
          BY <3>0, <4>1, ConcatFacts
        <5>2. r[i - 1] = m[k - 1]
          BY <3>1, <5>1
        <5> QED
          BY <4>1, <5>1, <5>2 DEF After0
      <4>2. CASE k = 1 /\ s = <<>>
        <5>1. i = 1 /\ ~(e # 0)
          <6>1. Len(s) = 0
            BY <4>2
          <6>2. i = 1
            BY <3>0, <4>2, <6>1
          <6>3. ~(e # 0)
            BY <4>2 DEF Paired
          <6> QED
            BY <6>2, <6>3
        <5> QED
          BY <4>2, <5>1 DEF After0
      <4>3. CASE k = 1 /\ s # <<>>
        <5>1. i # 1 /\ i - 1 = Len(s) /\ r[i - 1] = s[Len(s)]
          BY <3>0, <4>3, ConcatFacts
        <5> QED
          BY <4>3, <5>1 DEF After0, Whole
      <4> QED
        BY <4>1, <4>2, <4>3
    <3>4. r[i] = m[k]
      BY <3>0, <3>1
    <3> QED
      BY <3>2, <3>3, <3>4 DEF Paired
  <2>3. i \in Nat /\ Len(s) \in Nat
    BY ConcatFacts
  <2>4. i <= Len(s) \/ i > Len(s)
    BY <2>3
  <2> HIDE DEF r
  <2> QED
    BY <2>1, <2>2, <2>4
<1>2. r # <<>>
  BY ConcatFacts
<1> QED
  BY <1>1, <1>2 DEF Paired

(* A queue that ends in a whole event does not end in a prefix.            *)
LEMMA ConcatWhole ==
  ASSUME NEW s \in Seq(Item), NEW m \in Seq(Item), m # <<>>, Whole(m)
  PROVE  Whole(s \o m)
<1>1. Len(m) \in 1 .. Len(m)
  OBVIOUS
<1>2. (s \o m)[Len(s) + Len(m)] = m[Len(m)]
  BY <1>1, ConcatFacts
<1> QED
  BY <1>2, ConcatFacts DEF Whole

(* A sequence of one code.                                                 *)
LEMMA OneSeq ==
  ASSUME NEW x \in Item
  PROVE  /\ <<x>> \in Seq(Item) /\ <<x>> # <<>> /\ Len(<<x>>) = 1 /\ <<x>>[1] = x
         /\ \A i : i \in 1 .. Len(<<x>>) <=> i = 1
OBVIOUS

(* A sequence of two codes.                                                *)
LEMMA TwoSeq ==
  ASSUME NEW x \in Item, NEW y \in Item
  PROVE  /\ <<x, y>> \in Seq(Item) /\ <<x, y>> # <<>> /\ Len(<<x, y>>) = 2
         /\ <<x, y>>[1] = x /\ <<x, y>>[2] = y
         /\ \A i : i \in 1 .. Len(<<x, y>>) <=> i \in {1, 2}
<1>1. <<x, y>> \in Seq(Item)
  OBVIOUS
<1>2. Len(<<x, y>>) = 2 /\ <<x, y>>[1] = x /\ <<x, y>>[2] = y
  OBVIOUS
<1>3. \A i : i \in 1 .. 2 <=> i \in {1, 2}
  OBVIOUS
<1>4. <<x, y>> # <<>>
  BY <1>2
<1> QED
  BY <1>1, <1>2, <1>3, <1>4

-----------------------------------------------------------------------------
(* A code the keyboard sends, and the key of its event.                    *)
LEMMA ItemCode ==
  ASSUME NEW h \in Item
  PROVE  /\ h.code \in Nat /\ h.ev \in {"make", "break", "none"} /\ Sent(h)
         /\ h.ev # "none" => h.key \in Keys \ {"Pause"} /\ h.key \in DOMAIN Code
BY KeyAssumption DEF Item, Sent

(* The code of a key is no prefix and no ACK.                              *)
LEMMA EventCode ==
  ASSUME NEW h \in Item, h.ev # "none"
  PROVE  h.code \notin {E0, E1, ACK}
BY ItemCode DEF Sent, Code, E0, E1, ACK

(* The two ACKs that setleds() brings.                                     *)
LEMMA AckWell ==
  LET m == <<Pre(ACK), Pre(ACK)>> IN
  m \in Seq(Item) /\ m # <<>> /\ Paired(m, 0) /\ Whole(m)
<1> DEFINE m == <<Pre(ACK), Pre(ACK)>>
<1>1. Pre(ACK) \in Item /\ Pre(ACK).ev = "none" /\ Pre(ACK).code = ACK
  BY DEF Pre, Item, Sent, ACK
<1>2. /\ m \in Seq(Item) /\ m # <<>> /\ Len(m) = 2 /\ m[1] = Pre(ACK) /\ m[2] = Pre(ACK)
      /\ \A i : i \in 1 .. Len(m) <=> i \in {1, 2}
  BY <1>1, TwoSeq
<1> HIDE DEF m
<1>3. Paired(m, 0) /\ Whole(m)
  <2>1. E0 # ACK /\ 2 - 1 = 1 /\ 2 # 1
    BY DEF E0, ACK
  <2> QED
    BY <1>1, <1>2, <2>1 DEF Paired, Whole, After0
<1> QED
  BY <1>2, <1>3 DEF m

(* An event of a key without a prefix.                                     *)
LEMMA LeftWell ==
  ASSUME NEW h \in Item, h.ev # "none", ~Right(h.key)
  PROVE  Paired(<<h>>, 0) /\ Whole(<<h>>)
<1>c. h.code \notin {E0, E1}
  BY EventCode
<1> DEFINE m == <<h>>
<1>1. /\ m \in Seq(Item) /\ m # <<>> /\ Len(m) = 1 /\ m[1] = h
      /\ \A i : i \in 1 .. Len(m) <=> i = 1
  BY OneSeq
<1> HIDE DEF m
<1>2. Paired(m, 0) /\ Whole(m)
  BY <1>c, <1>1 DEF Paired, Whole, After0
<1> QED
  BY <1>2 DEF m

(* An event of right ctrl or right alt: 0xE0, then the code.               *)
LEMMA RightWell ==
  ASSUME NEW h \in Item, h.ev # "none", Right(h.key)
  PROVE  /\ <<Pre(E0), h>> \in Seq(Item) /\ <<Pre(E0), h>> # <<>>
         /\ Paired(<<Pre(E0), h>>, 0) /\ Whole(<<Pre(E0), h>>)
<1>c. h.code \notin {E0, E1}
  BY EventCode
<1>p. Pre(E0) \in Item /\ Pre(E0).ev = "none" /\ Pre(E0).code = E0
  BY DEF Pre, Item, Sent, E0
<1> DEFINE m == <<Pre(E0), h>>
<1>1. /\ m \in Seq(Item) /\ m # <<>> /\ Len(m) = 2 /\ m[1] = Pre(E0) /\ m[2] = h
      /\ \A i : i \in 1 .. Len(m) <=> i \in {1, 2}
  BY <1>p, TwoSeq
<1> HIDE DEF m
<1>2. Paired(m, 0) /\ Whole(m)
  <2>1. 2 - 1 = 1 /\ 2 # 1
    OBVIOUS
  <2> QED
    BY <1>c, <1>p, <1>1, <2>1 DEF Paired, Whole, After0
<1> QED
  BY <1>1, <1>2 DEF m

(* The six codes of Pause, which carry no event.                           *)
LEMMA PauseWell ==
  LET m == Make("Pause") IN
  m \in Seq(Item) /\ m # <<>> /\ Paired(m, 0) /\ Whole(m)
<1> DEFINE m == Make("Pause")
<1>1. \A c \in {E1, 29, 69, 29 + 128, 69 + 128} :
        Pre(c) \in Item /\ Pre(c).ev = "none" /\ Pre(c).code = c
  BY DEF Pre, Item, Sent, E1
<1>2. m = <<Pre(E1), Pre(29), Pre(69), Pre(E1), Pre(29 + 128), Pre(69 + 128)>>
  BY DEF Make, Right
<1>3. /\ m \in Seq(Item) /\ m # <<>> /\ Len(m) = 6
      /\ m[1] = Pre(E1) /\ m[6] = Pre(69 + 128)
      /\ \A i \in 1 .. 6 : m[i].ev = "none"
  <2> HIDE DEF m
  <2>1. PICK u, v, w, x, y \in Item :
          /\ u = Pre(E1) /\ v = Pre(29) /\ w = Pre(69) /\ x = Pre(29 + 128) /\ y = Pre(69 + 128)
          /\ u.ev = "none" /\ v.ev = "none" /\ w.ev = "none" /\ x.ev = "none" /\ y.ev = "none"
    BY <1>1
  <2>2. m = <<u, v, w, u, x, y>>
    BY <1>2, <2>1
  <2>3. m \in Seq(Item) /\ Len(m) = 6
    BY <2>2
  <2>4. m[1] = u /\ m[2] = v /\ m[3] = w /\ m[4] = u /\ m[5] = x /\ m[6] = y
    BY <2>2
  <2>5. \A i \in 1 .. 6 : i = 1 \/ i = 2 \/ i = 3 \/ i = 4 \/ i = 5 \/ i = 6
    OBVIOUS
  <2>6. m # <<>>
    BY <2>3
  <2> QED
    BY <2>1, <2>3, <2>4, <2>5, <2>6
<1> HIDE DEF m
<1>4. Paired(m, 0)
  <2> SUFFICES ASSUME NEW i \in 1 .. Len(m), Clean(m, i)
               PROVE  /\ m[i].ev = "none" => m[i].code \in {E0, E1, ACK}
                      /\ After0(m, 0, i) <=> (m[i].ev # "none" /\ Right(m[i].key))
    BY DEF Paired
  <2>1. i = 1
    <3> SUFFICES ASSUME i # 1 PROVE FALSE
      OBVIOUS
    <3>1. 1 \in 1 .. i - 1
      BY <1>3
    <3> QED
      BY <1>1, <1>3, <3>1 DEF Clean
  <2> QED
    BY <1>1, <1>3, <2>1 DEF After0
<1>5. Whole(m)
  BY <1>1, <1>3 DEF Whole, E0
<1> QED
  BY <1>3, <1>4, <1>5 DEF m

(* What a key sends when it goes down.                                     *)
LEMMA MakeWell ==
  ASSUME NEW k \in Keys
  PROVE  Make(k) \in Seq(Item) /\ Make(k) # <<>> /\ Paired(Make(k), 0) /\ Whole(Make(k))
<1>1. CASE k = "Pause"
  BY <1>1, PauseWell
<1>2. CASE k # "Pause"
  <2> DEFINE h == Last(Code[k], "make", k)
  <2>k. k \in DOMAIN Code /\ Code[k] \in Nat
    BY <1>2, KeyAssumption DEF Code
  <2>1. h \in Item /\ h.ev = "make" /\ h.key = k
    BY <1>2, <2>k DEF Last, Item, Sent
  <2>2. Make(k) = IF Right(k) THEN <<Pre(E0), h>> ELSE <<h>>
    BY <1>2 DEF Make
  <2> HIDE DEF h
  <2>3. CASE Right(k)
    BY <2>1, <2>2, <2>3, RightWell
  <2>4. CASE ~Right(k)
    <3>1. Make(k) = <<h>> /\ <<h>> \in Seq(Item) /\ <<h>> # <<>>
      BY <2>1, <2>2, <2>4, OneSeq
    <3> QED
      BY <2>1, <2>4, <3>1, LeftWell
  <2> QED
    BY <2>3, <2>4
<1> QED
  BY <1>1, <1>2

(* What a key sends when it goes up.                                       *)
LEMMA BreakWell ==
  ASSUME NEW k \in Keys \ {"Pause"}
  PROVE  Break(k) \in Seq(Item) /\ Break(k) # <<>> /\ Paired(Break(k), 0) /\ Whole(Break(k))
<1> DEFINE h == Last(Code[k] + 128, "break", k)
<1>k. k \in DOMAIN Code /\ Code[k] \in Nat
  BY KeyAssumption DEF Code
<1>1. h \in Item /\ h.ev = "break" /\ h.key = k
  BY <1>k DEF Last, Item, Sent
<1>2. Break(k) = IF Right(k) THEN <<Pre(E0), h>> ELSE <<h>>
  BY DEF Break
<1> HIDE DEF h
<1>3. CASE Right(k)
  BY <1>1, <1>2, <1>3, RightWell
<1>4. CASE ~Right(k)
  <2>1. Break(k) = <<h>> /\ <<h>> \in Seq(Item) /\ <<h>> # <<>>
    BY <1>1, <1>2, <1>4, OneSeq
  <2> QED
    BY <1>1, <1>4, <2>1, LeftWell
<1> QED
  BY <1>3, <1>4

-----------------------------------------------------------------------------
(* A step of the keyboard adds a whole event to the queue.                 *)
LEMMA SendQueue ==
  ASSUME IInv, NEW m \in Seq(Item), m # <<>>, Paired(m, 0), Whole(m), q' = q \o m,
         "Pause" \notin down',
         UNCHANGED <<driver, tests, history, reset>>,
         down' \subseteq Keys, rep' \in Keys \cup {"none"}
  PROVE  IInv'
<1> USE DEF driver, history
<1>1. q \in Seq(Item) /\ Whole(q) /\ (~torn => Paired(q, e0))
  BY DEF IInv, Queued
<1>2. q' \in Seq(Item) /\ Whole(q')
  BY <1>1, ConcatFacts, ConcatWhole
<1>3. ~torn' => Paired(q', e0')
  BY <1>1, ConcatPaired
<1>5. Queued'
  BY <1>2, <1>3 DEF Queued
<1>6. TypeOK' /\ CapsTracks' /\ ModeTracks' /\ LocksInStep'
  BY DEF IInv, TypeOK, CapsTracks, ModeTracks, LocksInStep
<1> QED
  BY <1>5, <1>6 DEF IInv

(* Press keeps IInv.                                                       *)
LEMMA PressStep ==
  ASSUME IInv, NEW k \in Keys, Press(k)
  PROVE  IInv'
<1>0. down \subseteq Keys /\ rep \in Keys \cup {"none"} /\ "Pause" \notin down
  BY DEF IInv, TypeOK, Queued
<1>1. k \notin down /\ q' = q \o Make(k) /\ UNCHANGED <<driver, tests, history, reset>>
  BY DEF Press
<1>2. IF k = "Pause" THEN UNCHANGED <<down, rep>> ELSE down' = down \cup {k} /\ rep' = k
  BY DEF Press
<1>4. "Pause" \notin down' /\ down' \subseteq Keys /\ rep' \in Keys \cup {"none"}
  BY <1>0, <1>2
<1> QED
  BY <1>1, <1>4, MakeWell, SendQueue

(* Repeat keeps IInv.                                                      *)
LEMMA RepeatStep ==
  ASSUME IInv, Repeat
  PROVE  IInv'
<1>0. down \subseteq Keys /\ rep \in Keys \cup {"none"} /\ "Pause" \notin down
  BY DEF IInv, TypeOK, Queued
<1>1. /\ rep \in Keys /\ q' = q \o Make(rep)
      /\ UNCHANGED <<driver, tests, down, rep, history, reset>>
  BY <1>0 DEF Repeat
<1> QED
  BY <1>0, <1>1, MakeWell, SendQueue

(* Release keeps IInv.                                                     *)
LEMMA ReleaseStep ==
  ASSUME IInv, NEW k \in Keys, Release(k)
  PROVE  IInv'
<1>0. down \subseteq Keys /\ rep \in Keys \cup {"none"} /\ "Pause" \notin down
  BY DEF IInv, TypeOK, Queued
<1>1. /\ k \in down /\ q' = q \o Break(k) /\ UNCHANGED <<driver, tests, history, reset>>
      /\ down' = down \ {k} /\ rep' \in {rep, "none"}
  BY DEF Release
<1>2. k \in Keys \ {"Pause"}
  BY <1>0, <1>1
<1>4. "Pause" \notin down' /\ down' \subseteq Keys /\ rep' \in Keys \cup {"none"}
  BY <1>0, <1>1
<1> QED
  BY <1>1, <1>2, <1>4, BreakWell, SendQueue

-----------------------------------------------------------------------------
(* A code that keyboard_handler takes from the queue.                      *)
LEMMA HandledQueue ==
  ASSUME IInv, q # <<>>, NEW ch, Happens(ch),
         ~torn' => e0' = IF Head(q).code = E0 THEN 1 ELSE 0,
         q' = Tail(q) \/ q' = Tail(q) \o <<Pre(ACK), Pre(ACK)>>
  PROVE  Queued'
<1> DEFINE m == <<Pre(ACK), Pre(ACK)>>
           h == Head(q)
<1>0. q \in Seq(Item) /\ Whole(q) /\ (~torn => Paired(q, e0)) /\ "Pause" \notin down
  BY DEF IInv, Queued
<1>1. h \in Item /\ Tail(q) \in Seq(Item) /\ h.ev \in {"make", "break", "none"}
  BY <1>0, TailFacts, ItemCode
<1>2. /\ held' = CASE h.ev = "make" -> held \cup {h.key}
                   [] h.ev = "break" -> held \ {h.key}
                   [] OTHER -> held
      /\ torn' = (torn \/ h.code = E1) /\ down' = down
  BY DEF Happens
<1>m. m \in Seq(Item) /\ m # <<>> /\ Paired(m, 0) /\ Whole(m)
  BY AckWell
<1> HIDE DEF m, h
<1>3. Whole(Tail(q))
  <2>1. CASE Tail(q) = <<>>
    BY <2>1 DEF Whole
  <2>2. CASE Tail(q) # <<>>
    <3>1. Len(Tail(q)) \in 1 .. Len(q) - 1 /\ Len(Tail(q)) + 1 = Len(q)
      BY <1>0, <1>1, <2>2, TailFacts
    <3> QED
      BY <1>0, <3>1, TailFacts DEF Whole
  <2> QED
    BY <2>1, <2>2
<1>4. ~torn' => Paired(Tail(q), e0')
  BY <1>0, <1>2, TailPaired DEF h
<1>6. CASE q' = Tail(q)
  BY <1>0, <1>1, <1>2, <1>3, <1>4, <1>6 DEF Queued
<1>7. CASE q' = Tail(q) \o m
  <2>1. q' \in Seq(Item) /\ Whole(q')
    BY <1>1, <1>m, <1>7, ConcatFacts, ConcatWhole
  <2>2. ~torn' => Paired(q', e0')
    BY <1>1, <1>3, <1>4, <1>m, <1>7, ConcatPaired
  <2> QED
    BY <1>0, <1>2, <2>1, <2>2 DEF Queued
<1> QED
  BY <1>6, <1>7 DEF m

(* Which event a code stands for, as long as no Pause has been seen.       *)
LEMMA HeadFacts ==
  ASSUME IInv, q # <<>>, NEW h, h = Head(q)
  PROVE  /\ h \in Item
         /\ ~torn => /\ h.ev = "none" => h.code \in {E0, E1, ACK}
                     /\ e0 # 0 <=> (h.ev # "none" /\ Right(h.key))
<1>0. q \in Seq(Item) /\ (~torn => Paired(q, e0))
  BY DEF IInv, Queued
<1>1. h \in Item /\ h = q[1] /\ 1 \in 1 .. Len(q)
  BY <1>0, TailFacts
<1>2. Clean(q, 1) /\ (After0(q, e0, 1) <=> e0 # 0)
  BY DEF Clean, After0
<1> QED
  BY <1>0, <1>1, <1>2 DEF Paired

(* ModeTracks, bit by bit.                                                 *)
LEMMA ModeBits ==
  ModeTracks <=> (~torn =>
    /\ 1 \in mode <=> "LShift" \in held
    /\ 2 \in mode <=> "RShift" \in held
    /\ 4 \in mode <=> "LCtrl" \in held
    /\ 8 \in mode <=> "RCtrl" \in held
    /\ 16 \in mode <=> "LAlt" \in held
    /\ 32 \in mode <=> "RAlt" \in held
    /\ 128 \in mode <=> "Caps" \in held)
BY DEF ModeTracks, Bit

(* The history variables keep their types.                                 *)
LEMMA HappensType ==
  ASSUME IInv, q # <<>>, NEW ch \in 0 .. 255, Happens(ch)
  PROVE  /\ down' \subseteq Keys /\ rep' \in Keys \cup {"none"}
         /\ held' \subseteq Keys /\ {capsOn', numOn', torn'} \subseteq BOOLEAN
         /\ out' \in 0 .. 255
<1>1. Head(q) \in Item
  BY HeadFacts
<1>2. /\ down' \subseteq Keys /\ rep' \in Keys \cup {"none"} /\ out' \in 0 .. 255
  BY DEF Happens, IInv, TypeOK
<1>3. held' \subseteq Keys
  BY <1>1, ItemCode DEF Happens, IInv, TypeOK
<1>4. {capsOn', numOn', torn'} \subseteq BOOLEAN
  BY DEF Happens
<1> QED
  BY <1>2, <1>3, <1>4

(* The key of each code, when the code ends a key's event.                 *)
LEMMA CodeKey ==
  ASSUME NEW h \in Item
  PROVE  /\ h.code = 58 <=> h.ev = "make" /\ h.key = "Caps"
         /\ h.code = 58 + 128 <=> h.ev = "break" /\ h.key = "Caps"
         /\ h.ev # "none" =>
              /\ h.code = 42 <=> h.ev = "make" /\ h.key = "LShift"
              /\ h.code = 42 + 128 <=> h.ev = "break" /\ h.key = "LShift"
              /\ h.code = 54 <=> h.ev = "make" /\ h.key = "RShift"
              /\ h.code = 54 + 128 <=> h.ev = "break" /\ h.key = "RShift"
              /\ h.code = 29 <=> h.ev = "make" /\ h.key \in {"LCtrl", "RCtrl"}
              /\ h.code = 29 + 128 <=> h.ev = "break" /\ h.key \in {"LCtrl", "RCtrl"}
              /\ h.code = 56 <=> h.ev = "make" /\ h.key \in {"LAlt", "RAlt"}
              /\ h.code = 56 + 128 <=> h.ev = "break" /\ h.key \in {"LAlt", "RAlt"}
              /\ h.code = 69 <=> h.ev = "make" /\ h.key = "Num"
<1>1. CASE h.ev = "none"
  BY <1>1, ItemCode DEF Sent, E0, E1, ACK
<1>2. CASE h.ev = "make"
  BY <1>2, ItemCode DEF Sent, Code
<1>3. CASE h.ev = "break"
  BY <1>3, ItemCode DEF Sent, Code
<1> QED
  BY <1>1, <1>2, <1>3, ItemCode

(* A code that changes neither lock.                                       *)
LEMMA PlainLocks ==
  ASSUME IInv, q # <<>>, NEW ch, Happens(ch), Head(q).code # 69,
         Head(q).code = 58 => 128 \in mode, 64 \in mode' <=> 64 \in mode, leds' \cap {2, 4} = leds \cap {2, 4}
  PROVE  LocksInStep'
<1>0. PICK h \in Item : h = Head(q)
  BY HeadFacts
<1>1. h.code # 69 /\ (h.code = 58 => "Caps" \in held)
  BY <1>0 DEF IInv, CapsTracks
<1>2. ~(h.ev = "make" /\ h.key = "Caps" /\ "Caps" \notin held)
  BY <1>1, CodeKey
<1>3. ~(h.ev = "make" /\ h.key = "Num")
  BY <1>1, CodeKey
<1>4. capsOn \in BOOLEAN /\ numOn \in BOOLEAN
  BY DEF IInv, TypeOK
<1>5. capsOn' = capsOn
  BY <1>0, <1>2, <1>4 DEF Happens
<1>6. numOn' = numOn
  BY <1>0, <1>3, <1>4 DEF Happens
<1>7. ~torn' => ~torn
  BY DEF Happens
<1> QED
  BY <1>5, <1>6, <1>7 DEF IInv, LocksInStep

(* A code of no modifier.                                                  *)
LEMMA PlainMode ==
  ASSUME IInv, q # <<>>, NEW ch, Happens(ch), mode' = mode,
         Head(q).code \notin {56, 56 + 128, 29, 29 + 128, 42, 42 + 128, 54, 54 + 128, 58 + 128},
         Head(q).code = 58 => 128 \in mode
  PROVE  CapsTracks' /\ ModeTracks'
<1>0. PICK h \in Item : h = Head(q)
  BY HeadFacts
<1>1. \A k \in {"LShift", "RShift", "LCtrl", "RCtrl", "LAlt", "RAlt", "Caps"} :
        h.ev = "none" \/ h.key # k \/ (k = "Caps" /\ h.ev = "make" /\ "Caps" \in held)
  BY <1>0, CodeKey, ItemCode DEF IInv, CapsTracks
<1>2. \A k \in {"LShift", "RShift", "LCtrl", "RCtrl", "LAlt", "RAlt", "Caps"} :
        k \in held' <=> k \in held
  BY <1>0, <1>1, ItemCode DEF Happens
<1>3. ~torn' => ~torn
  BY DEF Happens
<1>4. CapsTracks'
  BY <1>2 DEF IInv, CapsTracks
<1>5. ModeTracks'
  BY <1>2, <1>3 DEF IInv, ModeTracks, Bit
<1> QED
  BY <1>4, <1>5

(* The end of keyboard_handler.                                            *)
LEMMA DoneStep ==
  ASSUME IInv, NEW S, Scan(S), E0 \notin S, NEW ch \in 0 .. 255, Done(ch),
         mode' \subseteq {1, 2, 4, 8, 16, 32, 64, 128}, leds' = leds,
         tests' \in [Tests -> {"idle", "waiting", "answered"}], reset' \in BOOLEAN,
         CapsTracks', ModeTracks', LocksInStep'
  PROVE  IInv'
<1>1. q # <<>> /\ Head(q).code # E0 /\ e0' = 0 /\ q' = Tail(q) /\ Happens(ch)
  BY DEF Scan, Done
<1>2. Queued'
  BY <1>1, HandledQueue
<1>3. /\ down' \subseteq Keys /\ rep' \in Keys \cup {"none"}
      /\ held' \subseteq Keys /\ {capsOn', numOn', torn'} \subseteq BOOLEAN
      /\ out' \in 0 .. 255
  BY <1>1, HappensType
<1>4. TypeOK'
  BY <1>1, <1>3 DEF TypeOK, IInv
<1> QED
  BY <1>2, <1>4 DEF IInv

(* A handler that only changes mode.                                       *)
LEMMA SetsStep ==
  ASSUME IInv, NEW S, NEW m, Sets(S, m), S \cap {E0, 69} = {}, 58 \in S => 128 \in mode,
         64 \in m <=> 64 \in mode, m \subseteq {1, 2, 4, 8, 16, 32, 64, 128},
         CapsTracks', ModeTracks'
  PROVE  IInv'
<1>1. Scan(S) /\ mode' = m /\ Done(0) /\ UNCHANGED <<leds, tests, reset>>
  BY DEF Sets
<1>2. q # <<>> /\ Head(q).code \in S /\ Happens(0)
  BY <1>1 DEF Scan, Done
<1>3. Head(q).code # 69 /\ (Head(q).code = 58 => 128 \in mode)
  BY <1>2
<1>4. LocksInStep'
  BY <1>1, <1>2, <1>3, PlainLocks
<1>5. /\ tests' \in [Tests -> {"idle", "waiting", "answered"}] /\ reset' \in BOOLEAN
      /\ 0 \in 0 .. 255 /\ E0 \notin S /\ leds' = leds
  BY <1>1 DEF IInv, TypeOK
<1> QED
  BY <1>1, <1>4, <1>5, DoneStep

(* A make or a break of the modifier k, where 0xE0 tells right from left.  *)
LEMMA ModifierStep ==
  ASSUME IInv, NEW k \in DOMAIN Bit \ {"Caps"}, NEW c, NEW m, Sets({c}, m),
         \/ c = Code[k] /\ m = mode \cup {Bit[k]}
         \/ c = Code[k] + 128 /\ m = mode \ {Bit[k]},
         Code[k] \in {29, 56} => (e0 # 0 <=> Right(k))
  PROVE  IInv'
<1>c. /\ c \in {29, 42, 54, 56, 29 + 128, 42 + 128, 54 + 128, 56 + 128}
      /\ Bit[k] \in {1, 2, 4, 8, 16, 32}
  BY DEF Bit, Code
<1>2. q # <<>> /\ Head(q).code = c /\ Happens(0) /\ mode' = m
  BY DEF Sets, Scan, Done
<1>3. PICK h \in Item : h = Head(q)
  BY <1>2, HeadFacts
<1>4. /\ m \subseteq {1, 2, 4, 8, 16, 32, 64, 128} /\ (64 \in m <=> 64 \in mode)
      /\ (128 \in m <=> 128 \in mode) /\ {c} \cap {E0, 69} = {} /\ 58 \notin {c}
  <2>1. m = mode \cup {Bit[k]} \/ m = mode \ {Bit[k]}
    OBVIOUS
  <2>2. m \subseteq {1, 2, 4, 8, 16, 32, 64, 128}
    <3>1. mode \subseteq {1, 2, 4, 8, 16, 32, 64, 128}
      BY DEF IInv, TypeOK
    <3>2. Bit[k] \in {1, 2, 4, 8, 16, 32, 64, 128}
      BY <1>c
    <3>3. ASSUME NEW x \in m PROVE x \in mode \/ x = Bit[k]
      BY <2>1
    <3> QED
      BY <3>1, <3>2, <3>3
  <2>3. (64 \in m <=> 64 \in mode) /\ (128 \in m <=> 128 \in mode)
    BY <1>c, <2>1
  <2>4. {c} \cap {E0, 69} = {} /\ 58 \notin {c}
    BY <1>c DEF E0
  <2> QED
    BY <2>2, <2>3, <2>4
<1>5. h.code = c /\ ~(h.ev # "none" /\ h.key = "Caps")
  BY <1>c, <1>2, <1>3, CodeKey, ItemCode
<1>6. CapsTracks'
  BY <1>2, <1>3, <1>4, <1>5, ItemCode DEF Happens, IInv, CapsTracks
<1>7. ASSUME ~torn
      PROVE  h.key = k /\ (h.ev = "make" <=> c = Code[k]) /\ h.ev \in {"make", "break"}
  <2>1. h.ev # "none" /\ (e0 # 0 <=> Right(h.key))
    BY <1>c, <1>2, <1>3, <1>5, <1>7, HeadFacts DEF E0, E1, ACK
  <2>2. h.ev \in {"make", "break"}
    BY <2>1, ItemCode
  <2> QED
    BY <1>5, <2>1, <2>2, CodeKey DEF Right, Bit, Code
<1>8. ModeTracks'
  <2>1. ASSUME ~torn' PROVE ~torn
    BY <1>2, <2>1 DEF Happens
  <2>2. ~torn => held' = IF c = Code[k] THEN held \cup {k} ELSE held \ {k}
    BY <1>2, <1>3, <1>7 DEF Happens
  <2>3. Code[k] # Code[k] + 128 /\ \A j \in DOMAIN Bit : Bit[j] = Bit[k] <=> j = k
    BY DEF Code, Bit
  <2>4. \A j \in DOMAIN Bit : ~torn' => (Bit[j] \in mode' <=> j \in held')
    BY <1>2, <2>1, <2>2, <2>3 DEF IInv, ModeTracks
  <2> QED
    BY <2>4 DEF ModeTracks
<1> QED
  BY <1>4, <1>6, <1>8, SetsStep

(* The eight handlers of shift, ctrl and alt keep IInv.                    *)
LEMMA ModifierSteps ==
  ASSUME IInv, alt \/ unalt \/ ctrl \/ unctrl \/ lshift \/ unlshift \/ rshift \/ unrshift
  PROVE  IInv'
<1>k. \A k \in {"LShift", "RShift", "LCtrl", "RCtrl", "LAlt", "RAlt"} :
        k \in DOMAIN Bit \ {"Caps"}
  BY DEF Bit
<1>c. /\ Code["LShift"] = 42 /\ Code["RShift"] = 54 /\ Code["LCtrl"] = 29
      /\ Code["RCtrl"] = 29 /\ Code["LAlt"] = 56 /\ Code["RAlt"] = 56
      /\ Bit["LShift"] = 1 /\ Bit["RShift"] = 2 /\ Bit["LCtrl"] = 4
      /\ Bit["RCtrl"] = 8 /\ Bit["LAlt"] = 16 /\ Bit["RAlt"] = 32
      /\ Right("RCtrl") /\ Right("RAlt") /\ ~Right("LCtrl") /\ ~Right("LAlt")
  BY DEF Bit, Code, Right
<1>1. CASE alt /\ e0 # 0
  BY <1>1, <1>k, <1>c, ModifierStep DEF alt
<1>2. CASE alt /\ e0 = 0
  BY <1>2, <1>k, <1>c, ModifierStep DEF alt
<1>3. CASE unalt /\ e0 # 0
  BY <1>3, <1>k, <1>c, ModifierStep DEF unalt
<1>4. CASE unalt /\ e0 = 0
  BY <1>4, <1>k, <1>c, ModifierStep DEF unalt
<1>5. CASE ctrl /\ e0 # 0
  BY <1>5, <1>k, <1>c, ModifierStep DEF ctrl
<1>6. CASE ctrl /\ e0 = 0
  BY <1>6, <1>k, <1>c, ModifierStep DEF ctrl
<1>7. CASE unctrl /\ e0 # 0
  BY <1>7, <1>k, <1>c, ModifierStep DEF unctrl
<1>8. CASE unctrl /\ e0 = 0
  BY <1>8, <1>k, <1>c, ModifierStep DEF unctrl
<1>9. CASE lshift
  <2>1. Sets({Code["LShift"]}, mode \cup {Bit["LShift"]}) /\ Code["LShift"] \notin {29, 56}
    BY <1>9, <1>c DEF lshift
  <2> QED
    BY <2>1, <1>k, ModifierStep
<1>10. CASE unlshift
  <2>1. Sets({Code["LShift"] + 128}, mode \ {Bit["LShift"]}) /\ Code["LShift"] \notin {29, 56}
    BY <1>10, <1>c DEF unlshift
  <2> QED
    BY <2>1, <1>k, ModifierStep
<1>11. CASE rshift
  <2>1. Sets({Code["RShift"]}, mode \cup {Bit["RShift"]}) /\ Code["RShift"] \notin {29, 56}
    BY <1>11, <1>c DEF rshift
  <2> QED
    BY <2>1, <1>k, ModifierStep
<1>12. CASE unrshift
  <2>1. Sets({Code["RShift"] + 128}, mode \ {Bit["RShift"]}) /\ Code["RShift"] \notin {29, 56}
    BY <1>12, <1>c DEF unrshift
  <2> QED
    BY <2>1, <1>k, ModifierStep
<1> QED
  BY <1>1, <1>2, <1>3, <1>4, <1>5, <1>6, <1>7, <1>8, <1>9, <1>10, <1>11, <1>12

(* uncaps keeps IInv.                                                      *)
LEMMA uncapsStep ==
  ASSUME IInv, uncaps
  PROVE  IInv'
<1> DEFINE m == mode \ {128}
<1>1. Sets({58 + 128}, m)
  BY DEF uncaps
<1>2. q # <<>> /\ Head(q).code = 58 + 128 /\ Happens(0) /\ mode' = mode \ {128}
  BY <1>1 DEF Sets, Scan, Done
<1>3. PICK h \in Item : h = Head(q)
  BY <1>2, HeadFacts
<1>4. h.ev = "break" /\ h.key = "Caps"
  BY <1>2, <1>3, CodeKey
<1>5. held' = held \ {"Caps"} /\ (~torn' => ~torn)
  BY <1>2, <1>3, <1>4 DEF Happens
<1>6. CapsTracks' /\ ModeTracks'
  BY <1>2, <1>5 DEF IInv, CapsTracks, ModeTracks, Bit
<1>7. /\ m \subseteq {1, 2, 4, 8, 16, 32, 64, 128}
      /\ {58 + 128} \cap {E0, 69} = {} /\ (58 \in {58 + 128} => 128 \in mode)
      /\ 64 \in m <=> 64 \in mode
  BY DEF IInv, TypeOK, E0
<1> HIDE DEF m
<1> QED
  BY <1>1, <1>6, <1>7, SetsStep

(* Flip changes one bit.                                                   *)
LEMMA FlipFacts ==
  ASSUME NEW S, NEW b
  PROVE  /\ b \in Flip(S, b) <=> b \notin S
         /\ \A x : x # b => (x \in Flip(S, b) <=> x \in S)
BY DEF Flip

(* A code that turns a light.                                              *)
LEMMA LedStep ==
  ASSUME IInv, NEW c, Scan({c}), c # E0, NEW b \in {1, 2, 4}, Setleds(Flip(leds, b)),
         mode' \subseteq {1, 2, 4, 8, 16, 32, 64, 128},
         CapsTracks', ModeTracks', LocksInStep'
  PROVE  IInv'
<1>1. /\ q # <<>> /\ Head(q).code # E0 /\ e0' = 0 /\ Happens(0)
      /\ q' = Tail(q) \o <<Pre(ACK), Pre(ACK)>> /\ leds' = Flip(leds, b)
      /\ UNCHANGED <<tests, reset>>
  BY DEF Scan, Setleds
<1>2. Queued'
  BY <1>1, HandledQueue
<1>3. /\ down' \subseteq Keys /\ rep' \in Keys \cup {"none"}
      /\ held' \subseteq Keys /\ {capsOn', numOn', torn'} \subseteq BOOLEAN
      /\ out' \in 0 .. 255
  <2>1. 0 \in 0 .. 255
    OBVIOUS
  <2> QED
    BY <1>1, <2>1, HappensType
<1>4. leds' \subseteq {1, 2, 4}
  BY <1>1 DEF IInv, TypeOK, Flip
<1>5. TypeOK'
  BY <1>1, <1>3, <1>4 DEF TypeOK, IInv
<1> QED
  BY <1>2, <1>5 DEF IInv

(* caps keeps IInv: CapsTracks tells a press from a repeat.                *)
LEMMA capsStep ==
  ASSUME IInv, caps
  PROVE  IInv'
<1>1. CASE 128 \in mode /\ Sets({58}, mode)
  <2>1. q # <<>> /\ Head(q).code = 58 /\ Happens(0) /\ mode' = mode
    BY <1>1 DEF Sets, Scan, Done
  <2>2. CapsTracks' /\ ModeTracks'
    BY <1>1, <2>1, PlainMode
  <2>3. {58} \cap {E0, 69} = {} /\ mode \subseteq {1, 2, 4, 8, 16, 32, 64, 128}
    BY DEF IInv, TypeOK, E0
  <2> QED
    BY <1>1, <2>2, <2>3, SetsStep
<1>2. CASE 128 \notin mode /\ Scan({58}) /\ mode' = Flip(mode, 64) \cup {128}
           /\ Setleds(Flip(leds, 4))
  <2>1. q # <<>> /\ Head(q).code = 58 /\ Happens(0) /\ leds' = Flip(leds, 4)
    BY <1>2 DEF Scan, Setleds
  <2>2. PICK h \in Item : h = Head(q)
    BY <2>1, HeadFacts
  <2>3. h.ev = "make" /\ h.key = "Caps" /\ "Caps" \notin held
    BY <1>2, <2>1, <2>2, CodeKey DEF IInv, CapsTracks
  <2>b. capsOn \in BOOLEAN /\ numOn \in BOOLEAN
    BY DEF IInv, TypeOK
  <2>4. held' = held \cup {"Caps"} /\ (~torn' => ~torn)
    BY <2>1, <2>2, <2>3 DEF Happens
  <2>5. capsOn' = ~capsOn
    BY <2>1, <2>2, <2>3, <2>b DEF Happens
  <2>6. numOn' = numOn
    BY <2>1, <2>2, <2>3, <2>b DEF Happens
  <2>7. /\ 64 \in mode' <=> 64 \notin mode
        /\ 128 \in mode' /\ \A x \in {1, 2, 4, 8, 16, 32} : x \in mode' <=> x \in mode
    BY <1>2, FlipFacts
  <2>8. CapsTracks' /\ ModeTracks'
    BY <2>4, <2>7 DEF IInv, CapsTracks, ModeTracks, Bit
  <2>9. 4 \in leds' <=> 4 \notin leds
    BY <2>1, FlipFacts
  <2>10. 2 \in leds' <=> 2 \in leds
    BY <2>1, FlipFacts
  <2>11. LocksInStep'
    BY <2>4, <2>5, <2>6, <2>7, <2>9, <2>10, <2>b DEF IInv, LocksInStep
  <2>12. mode' \subseteq {1, 2, 4, 8, 16, 32, 64, 128} /\ 58 # E0
    BY <1>2 DEF IInv, TypeOK, Flip, E0
  <2> QED
    BY <1>2, <2>8, <2>11, <2>12, LedStep
<1> QED
  BY <1>1, <1>2 DEF caps

(* screen_scroll keeps IInv.                                               *)
LEMMA scrollStep ==
  ASSUME IInv, screen_scroll
  PROVE  IInv'
<1>1. q # <<>> /\ Head(q).code = 70 /\ Happens(0) /\ leds' = Flip(leds, 1) /\ mode' = mode
  BY DEF screen_scroll, Scan, Setleds
<1>2. CapsTracks' /\ ModeTracks'
  BY <1>1, PlainMode
<1>3. leds' \cap {2, 4} = leds \cap {2, 4}
  BY <1>1, FlipFacts
<1>4. LocksInStep'
  BY <1>1, <1>3, PlainLocks
<1>5. mode' \subseteq {1, 2, 4, 8, 16, 32, 64, 128} /\ 70 # E0
  BY <1>1 DEF IInv, TypeOK, E0
<1> QED
  BY <1>2, <1>4, <1>5, LedStep DEF screen_scroll

(* num keeps IInv: its code is a make code of num lock.                    *)
LEMMA numStep ==
  ASSUME IInv, num
  PROVE  IInv'
<1>1. q # <<>> /\ Head(q).code = 69 /\ Happens(0) /\ leds' = Flip(leds, 2) /\ mode' = mode
  BY DEF num, Scan, Setleds
<1>2. CapsTracks' /\ ModeTracks'
  BY <1>1, PlainMode
<1>3. PICK h \in Item : h = Head(q)
  BY <1>1, HeadFacts
<1>b. capsOn \in BOOLEAN /\ numOn \in BOOLEAN
  BY DEF IInv, TypeOK
<1>4. capsOn' = capsOn
  <2>1. ~(h.ev = "make" /\ h.key = "Caps")
    BY <1>1, <1>3, CodeKey
  <2> QED
    BY <1>1, <1>3, <1>b, <2>1 DEF Happens
<1>5. (4 \in leds' <=> 4 \in leds) /\ (2 \in leds' <=> 2 \notin leds)
  BY <1>1, FlipFacts
<1>6. ASSUME ~torn' PROVE ~torn /\ numOn' = ~numOn
  <2>1. ~torn
    BY <1>1, <1>6 DEF Happens
  <2>2. h.ev # "none"
    BY <1>1, <1>3, <2>1, HeadFacts DEF E0, E1, ACK
  <2>3. h.ev = "make" /\ h.key = "Num"
    BY <1>1, <1>3, <2>2, CodeKey
  <2>5. numOn' = ~numOn
    BY <1>1, <1>3, <1>b, <2>3 DEF Happens
  <2> QED
    BY <2>1, <2>5
<1>7. LocksInStep'
  BY <1>1, <1>4, <1>5, <1>6, <1>b DEF IInv, LocksInStep
<1>8. mode' \subseteq {1, 2, 4, 8, 16, 32, 64, 128} /\ 69 # E0
  BY <1>1 DEF IInv, TypeOK, E0
<1> QED
  BY <1>2, <1>7, <1>8, LedStep DEF num

(* A prefix keeps IInv: its code is next in the queue.                     *)
LEMMA prefixStep ==
  ASSUME IInv, prefix
  PROVE  IInv'
<1>1. /\ q # <<>> /\ Head(q).code \in {E0, E1} /\ Happens(0) /\ q' = Tail(q)
      /\ e0' = (IF Head(q).code = E0 THEN 1 ELSE 2) /\ UNCHANGED <<mode, leds, tests, reset>>
  BY DEF prefix, Scan
<1>2. CapsTracks' /\ ModeTracks' /\ LocksInStep'
  BY <1>1, PlainMode, PlainLocks DEF E0, E1
<1>3. ~torn' => e0' = IF Head(q).code = E0 THEN 1 ELSE 0
  BY <1>1 DEF Happens
<1>4. Queued'
  BY <1>1, <1>3, HandledQueue
<1>5. /\ down' \subseteq Keys /\ rep' \in Keys \cup {"none"}
      /\ held' \subseteq Keys /\ {capsOn', numOn', torn'} \subseteq BOOLEAN
      /\ out' \in 0 .. 255
  <2>1. 0 \in 0 .. 255
    OBVIOUS
  <2> QED
    BY <1>1, <2>1, HappensType
<1>6. e0' \in 0 .. 2
  BY <1>1
<1>7. TypeOK'
  BY <1>1, <1>5, <1>6 DEF TypeOK, IInv
<1> QED
  BY <1>2, <1>4, <1>7 DEF IInv

(* Codes that change neither mode nor a light.                             *)
LEMMA QuietStep ==
  ASSUME IInv, NEW S, Scan(S), NEW ch \in 0 .. 255, Done(ch), UNCHANGED <<mode, leds>>,
         S \cap {E0, 69, 58, 56, 56 + 128, 29, 29 + 128, 42, 42 + 128, 54, 54 + 128, 58 + 128} = {},
         tests' \in [Tests -> {"idle", "waiting", "answered"}], reset' \in BOOLEAN
  PROVE  IInv'
<1>1. q # <<>> /\ Head(q).code \in S /\ Happens(ch)
  BY DEF Scan, Done
<1>2. Head(q).code \notin {E0, 69, 58, 56, 56 + 128, 29, 29 + 128, 42, 42 + 128,
                           54, 54 + 128, 58 + 128}
  BY <1>1
<1>3. CapsTracks' /\ ModeTracks'
  BY <1>1, <1>2, PlainMode
<1>4. LocksInStep'
  BY <1>1, <1>2, PlainLocks
<1>5. mode' \subseteq {1, 2, 4, 8, 16, 32, 64, 128} /\ E0 \notin S
  BY DEF IInv, TypeOK
<1> QED
  BY <1>3, <1>4, <1>5, DoneStep

-----------------------------------------------------------------------------
(* The key of each code that do_self takes.                                *)
LEMMA KeyOfFacts ==
  /\ KeyOf(3) = "Digit" /\ KeyOf(28) = "Enter" /\ KeyOf(30) = "Letter" /\ KeyOf(57) = "Space"
<1> DEFINE D == {"Digit", "Enter", "Letter", "Space"}
<1>1. DOMAIN key_map = D
  BY DEF key_map
<1>2. \A k \in D : /\ Code[k] = 3 <=> k = "Digit"
                   /\ Code[k] = 28 <=> k = "Enter"
                   /\ Code[k] = 30 <=> k = "Letter"
                   /\ Code[k] = 57 <=> k = "Space"
  BY DEF Code
<1> QED
  BY <1>1, <1>2 DEF KeyOf

(* do_self gives a byte.                                                   *)
LEMMA CharFacts ==
  ASSUME NEW m, NEW k \in {"Digit", "Enter", "Letter", "Space"}
  PROVE  Char(m, k) \in 0 .. 255
<1> DEFINE map == IF 32 \in m THEN alt_map
                  ELSE IF m \cap {1, 2} # {} THEN shift_map ELSE key_map
           ch  == Cased(m, map[k])
           ch2 == IF m \cap {4, 8} # {} THEN (ch + 256 - 64) % 256 ELSE ch
<1>1. map[k] \in 0 .. 122
  BY DEF alt_map, shift_map, key_map
<1> HIDE DEF map
<1>2. ch \in 0 .. 122
  BY <1>1 DEF Cased, IsCapital, IsSmall
<1> HIDE DEF ch
<1>3. ch2 \in 0 .. 255
  BY <1>2
<1> HIDE DEF ch2
<1>4. Char(m, k) = IF map[k] = 0 THEN 0
                   ELSE IF 16 \in m /\ ch2 < 128 THEN ch2 + 128 ELSE ch2
  BY DEF Char, map, ch, ch2
<1> QED
  BY <1>3, <1>4

(* do_self keeps IInv.                                                     *)
LEMMA do_selfStep ==
  ASSUME IInv, do_self
  PROVE  IInv'
<1>1. PICK ch : /\ ch = Char(mode, KeyOf(Head(q).code)) /\ Done(ch)
                /\ tests' = [t \in Tests |-> IF tests[t] = "waiting" /\ ch = 10
                                             THEN "answered" ELSE tests[t]]
  BY DEF do_self
<1>2. Scan({3, 28, 30, 57}) /\ UNCHANGED <<mode, leds, reset>>
  BY DEF do_self
<1>3. Head(q).code \in {3, 28, 30, 57}
  BY <1>2 DEF Scan
<1>4. KeyOf(Head(q).code) \in {"Digit", "Enter", "Letter", "Space"}
  BY <1>3, KeyOfFacts
<1>5. ch \in 0 .. 255
  BY <1>1, <1>4, CharFacts
<1>6. tests' \in [Tests -> {"idle", "waiting", "answered"}] /\ reset' \in BOOLEAN
  BY <1>1, <1>2 DEF IInv, TypeOK
<1>7. {3, 28, 30, 57} \cap {E0, 69, 58, 56, 56 + 128, 29, 29 + 128, 42, 42 + 128,
                            54, 54 + 128, 58 + 128} = {}
  BY DEF E0
<1> QED
  BY <1>1, <1>2, <1>5, <1>6, <1>7, QuietStep

(* cursor keeps IInv.                                                      *)
LEMMA cursorStep ==
  ASSUME IInv, cursor
  PROVE  IInv'
<1>1. Scan({83}) /\ Done(0) /\ UNCHANGED <<mode, leds>> /\ reset' \in BOOLEAN /\ tests' = tests
  BY DEF cursor
<1>2. {83} \cap {E0, 69, 58, 56, 56 + 128, 29, 29 + 128, 42, 42 + 128,
                 54, 54 + 128, 58 + 128} = {}
  BY DEF E0
<1>3. 0 \in 0 .. 255 /\ tests' \in [Tests -> {"idle", "waiting", "answered"}]
  BY <1>1 DEF IInv, TypeOK
<1> QED
  BY <1>1, <1>2, <1>3, QuietStep

(* none keeps IInv.                                                        *)
LEMMA noneStep ==
  ASSUME IInv, none
  PROVE  IInv'
<1> DEFINE S == {ACK} \cup {Code[k] + 128 : k \in {"Num", "Scroll", "Digit", "Enter",
                                                   "Letter", "Space", "Del", "F2"}}
<1>1. Scan(S) /\ Done(0) /\ UNCHANGED <<mode, leds, tests, reset>>
  BY DEF none
<1>2. S \cap {E0, 69, 58, 56, 56 + 128, 29, 29 + 128, 42, 42 + 128,
              54, 54 + 128, 58 + 128} = {}
  <2>1. \A x \in S : x \in {ACK, 197, 198, 131, 156, 158, 185, 211, 188}
    BY DEF Code
  <2> HIDE DEF S
  <2> QED
    BY <2>1 DEF E0, ACK
<1>3. 0 \in 0 .. 255 /\ tests' \in [Tests -> {"idle", "waiting", "answered"}] /\ reset' \in BOOLEAN
  BY <1>1 DEF IInv, TypeOK
<1> HIDE DEF S
<1> QED
  BY <1>1, <1>2, <1>3, QuietStep

(* func keeps IInv: F2 has no prefix, so e0 is 0 already.                  *)
LEMMA funcStep ==
  ASSUME IInv, NEW t \in Tests, func(t)
  PROVE  IInv'
<1>1. /\ q # <<>> /\ Head(q).code = 60 /\ Happens(0) /\ q' = Tail(q)
      /\ tests' = [tests EXCEPT ![t] = "waiting"]
      /\ UNCHANGED <<mode, leds, e0, reset>>
  BY DEF func, Scan, driver
<1>2. CapsTracks' /\ ModeTracks'
  BY <1>1, PlainMode
<1>3. LocksInStep'
  BY <1>1, PlainLocks
<1>4. PICK h \in Item : h = Head(q)
  BY <1>1, HeadFacts
<1>5. ASSUME ~torn PROVE e0 = 0
  <2>1. h.ev # "none" /\ (e0 # 0 <=> Right(h.key))
    BY <1>1, <1>4, <1>5, HeadFacts DEF E0, E1, ACK
  <2>2. ~Right(h.key)
    <3>1. h.code = 60 /\ h.key \in DOMAIN Code /\ h.code \in {Code[h.key], Code[h.key] + 128}
      BY <1>1, <1>4, <2>1, ItemCode DEF Sent
    <3>2. Right(h.key) => Code[h.key] \in {29, 56}
      BY DEF Right, Code
    <3> QED
      BY <3>1, <3>2
  <2> QED
    BY <2>1, <2>2
<1>6. ~torn' => e0' = IF Head(q).code = E0 THEN 1 ELSE 0
  <2>1. Head(q).code # E0
    BY <1>1 DEF E0
  <2>2. ~torn' => ~torn
    BY <1>1 DEF Happens
  <2> QED
    BY <1>1, <1>5, <2>1, <2>2
<1>7. Queued'
  BY <1>1, <1>6, HandledQueue
<1>8. /\ down' \subseteq Keys /\ rep' \in Keys \cup {"none"}
      /\ held' \subseteq Keys /\ {capsOn', numOn', torn'} \subseteq BOOLEAN
      /\ out' \in 0 .. 255
  <2>1. 0 \in 0 .. 255
    OBVIOUS
  <2> QED
    BY <1>1, <2>1, HappensType
<1>9. TypeOK'
  BY <1>1, <1>8 DEF TypeOK, IInv
<1> QED
  BY <1>2, <1>3, <1>7, <1>9 DEF IInv

(* A test that returns keeps IInv: it is torn if it clears a prefix.       *)
LEMMA func_returnsStep ==
  ASSUME IInv, NEW t \in Tests, func_returns(t)
  PROVE  IInv'
<1>1. /\ tests' = [tests EXCEPT ![t] = "idle"] /\ e0' = 0 /\ torn' = (torn \/ e0 # 0) /\ out' = 0
      /\ UNCHANGED <<mode, leds, q, down, rep, held, capsOn, numOn, reset>>
  BY DEF func_returns, keyboard
<1>2. ~torn' => ~torn /\ e0 = e0'
  BY <1>1
<1>3. Queued'
  BY <1>1, <1>2 DEF IInv, Queued
<1>4. 0 \in 0 .. 255 /\ 0 \in 0 .. 2
  OBVIOUS
<1>5. torn' \in BOOLEAN
  BY <1>1
<1>6. TypeOK'
  BY <1>1, <1>4, <1>5 DEF IInv, TypeOK
<1>7. CapsTracks' /\ ModeTracks' /\ LocksInStep'
  BY <1>1, <1>2 DEF IInv, CapsTracks, ModeTracks, LocksInStep
<1> QED
  BY <1>3, <1>6, <1>7 DEF IInv

-----------------------------------------------------------------------------
(* IInv holds at first.                                                    *)
LEMMA InitInv == Init => IInv
<1> SUFFICES ASSUME Init PROVE IInv
  OBVIOUS
<1>1. q = <<Pre(ACK), Pre(ACK)>> /\ e0 = 0 /\ held = {} /\ down = {}
  BY DEF Init, Pre
<1>2. Queued
  BY <1>1, AckWell DEF Queued
<1>3. TypeOK
  <2>1. 0 \in 0 .. 2 /\ 0 \in 0 .. 255 /\ {2} \subseteq {1, 2, 4}
    OBVIOUS
  <2>2. tests \in [Tests -> {"idle", "waiting", "answered"}]
    BY DEF Init
  <2>3. {capsOn, numOn, reset, torn} \subseteq BOOLEAN
    BY DEF Init
  <2> QED
    BY <2>1, <2>2, <2>3 DEF Init, TypeOK
<1>4. CapsTracks /\ ModeTracks /\ LocksInStep
  BY DEF Init, CapsTracks, ModeTracks, LocksInStep
<1> QED
  BY <1>2, <1>3, <1>4 DEF IInv

(* Every step keeps IInv.                                                  *)
LEMMA StepInv == IInv /\ [Next]_vars => IInv'
<1> SUFFICES ASSUME IInv, [Next]_vars PROVE IInv'
  OBVIOUS
<1>1. CASE UNCHANGED vars
  <2>1. UNCHANGED <<mode, leds, e0, tests, q, down, rep, held, capsOn, numOn, out, torn, reset>>
    BY <1>1 DEF vars, driver, keyboard, history
  <2> QED
    BY <2>1 DEF IInv, TypeOK, Queued, CapsTracks, ModeTracks, LocksInStep
<1>2. CASE Repeat
  BY <1>2, RepeatStep
<1>3. ASSUME NEW k \in Keys, Press(k) \/ Release(k) PROVE IInv'
  BY <1>3, PressStep, ReleaseStep
<1>4. CASE keyboard_handler
  BY <1>4, ModifierSteps, uncapsStep, capsStep, scrollStep, numStep, prefixStep, cursorStep,
     noneStep, do_selfStep, funcStep, func_returnsStep DEF keyboard_handler
<1> QED
  BY <1>1, <1>2, <1>3, <1>4 DEF Next

(* IInv holds in every state.                                              *)
THEOREM Invariance == Spec => []IInv
BY InitInv, StepInv, PTL DEF Spec

(* Every variable keeps its type: the character do_self gives is a byte.   *)
THEOREM TypeCorrect == Spec => []TypeOK
<1>1. IInv => TypeOK
  BY DEF IInv
<1> QED
  BY <1>1, Invariance, PTL

(* mode says which special keys are held, left and right apart, however    *)
(* keys go down, repeat and go up (keyboard.c:245-300), for any keys, any  *)
(* number of codes waiting and any number of tests.                        *)
THEOREM ModeSafety == Spec => []ModeTracks
<1>1. IInv => ModeTracks
  BY DEF IInv
<1> QED
  BY <1>1, Invariance, PTL

(* Caps lock's state and light follow the presses of its key, the light of *)
(* num lock the make codes of its own, a held key's repeats included       *)
(* (keyboard.c:283-318).                                                   *)
THEOREM LockSafety == Spec => []LocksInStep
<1>1. IInv => LocksInStep
  BY DEF IInv
<1> QED
  BY <1>1, Invariance, PTL

-----------------------------------------------------------------------------
(* After a reset nothing happens, and only Del resets.                     *)
LEMMA OnlyDelResets ==
  ASSUME Next
  PROVE  ~reset /\ (reset' = reset \/ cursor)
<1> USE DEF Scan, Done, Sets, Setleds
<1>1. CASE Repeat
  BY <1>1 DEF Repeat, CanSend
<1>2. ASSUME NEW k \in Keys, Press(k) \/ Release(k) PROVE ~reset /\ reset' = reset
  BY <1>2 DEF Press, Release, CanSend
<1>3. CASE alt \/ unalt \/ ctrl \/ unctrl \/ lshift \/ unlshift \/ rshift \/ unrshift \/ uncaps
  BY <1>3 DEF alt, unalt, ctrl, unctrl, lshift, unlshift, rshift, unrshift, uncaps
<1>4. CASE prefix \/ caps \/ screen_scroll \/ num
  BY <1>4 DEF prefix, caps, screen_scroll, num
<1>5. CASE cursor
  BY <1>5 DEF cursor
<1>6. CASE none \/ do_self
  BY <1>6 DEF none, do_self
<1>7. ASSUME NEW t \in Tests, func(t) \/ func_returns(t) PROVE ~reset /\ reset' = reset
  BY <1>7 DEF func, func_returns
<1> QED
  BY <1>1, <1>2, <1>3, <1>4, <1>5, <1>6, <1>7 DEF Next, keyboard_handler

(* A reboot needs left ctrl and left alt held (keyboard.c:320-335).        *)
THEOREM RebootSafety == Spec => RebootAsked
<1>1. IInv /\ [Next]_vars => [reset' => torn \/ {"LCtrl", "LAlt"} \subseteq held]_vars
  <2> SUFFICES ASSUME IInv, Next, reset', ~torn
               PROVE  {"LCtrl", "LAlt"} \subseteq held
    OBVIOUS
  <2>1. CASE cursor
    BY <2>1, ModeBits DEF cursor, IInv
  <2> QED
    BY <2>1, OnlyDelResets
<1> QED
  BY <1>1, Invariance, PTL DEF Spec, RebootAsked

(* The code of a key of do_self is handled by do_self.                     *)
LEMMA SelfHandled ==
  ASSUME IInv, Next, q # <<>>, q' = Tail(q), Head(q).code \in {3, 28, 30, 57}
  PROVE  do_self
<1> USE DEF Scan
<1>q. q \in Seq(Item) /\ Len(q) \in Nat /\ Len(q') = Len(q) - 1
  BY TailFacts DEF IInv, Queued
<1>1. ASSUME NEW m \in Seq(Item), q' = q \o m PROVE FALSE
  BY <1>1, <1>q, ConcatFacts
<1>2. ~Repeat
  BY <1>1, MakeWell DEF Repeat, IInv, TypeOK
<1>3. ASSUME NEW k \in Keys PROVE ~Press(k) /\ ~Release(k)
  <2>1. Release(k) => k \in Keys \ {"Pause"}
    BY DEF Release, IInv, Queued
  <2> QED
    BY <1>1, <2>1, MakeWell, BreakWell DEF Press, Release
<1>4. /\ ~alt /\ ~unalt /\ ~ctrl /\ ~unctrl /\ ~lshift /\ ~unlshift /\ ~rshift /\ ~unrshift
      /\ ~uncaps
  BY DEF Sets, alt, unalt, ctrl, unctrl, lshift, unlshift, rshift, unrshift, uncaps
<1>5. ~prefix /\ ~caps /\ ~screen_scroll /\ ~num /\ ~cursor
  BY DEF Sets, prefix, caps, screen_scroll, num, cursor, E0, E1
<1>6. ~none
  <2>1. \A k \in {"Num", "Scroll", "Digit", "Enter", "Letter", "Space", "Del", "F2"} :
          Code[k] + 128 \notin {3, 28, 30, 57}
    BY DEF Code
  <2> QED
    BY <2>1 DEF none, ACK
<1>7. ASSUME NEW t \in Tests PROVE ~func(t) /\ ~func_returns(t)
  <2>1. ~func(t)
    BY DEF func
  <2>2. ~func_returns(t)
    <3> SUFFICES ASSUME q' = q PROVE FALSE
      BY DEF func_returns, keyboard
    <3> QED
      BY <1>q
  <2> QED
    BY <2>1, <2>2
<1> QED
  BY <1>2, <1>3, <1>4, <1>5, <1>6, <1>7 DEF Next, keyboard_handler

(* What do_self computes for a letter and a digit.                         *)
LEMMA CharValues ==
  ASSUME NEW m, 32 \notin m, 16 \notin m
  PROVE  /\ m \cap {4, 8} = {} => Char(m, "Letter") =
              IF (m \cap {1, 2} # {}) # (64 \in m) THEN 65 ELSE 97
         /\ m \cap {4, 8} # {} /\ ~(m \cap {1, 2} # {} /\ 64 \in m) => Char(m, "Letter") = 1
         /\ m \cap {4, 8} = {} => Char(m, "Digit") = IF m \cap {1, 2} # {} THEN 64 ELSE 50
         /\ m \cap {4, 8} # {} => Char(m, "Digit") = IF m \cap {1, 2} # {} THEN 0 ELSE 242
<1> DEFINE map == IF m \cap {1, 2} # {} THEN shift_map ELSE key_map
           ch(k)  == Cased(m, map[k])
           ch2(k) == IF m \cap {4, 8} # {} THEN (ch(k) + 256 - 64) % 256 ELSE ch(k)
<1>1. /\ map["Letter"] = IF m \cap {1, 2} # {} THEN 65 ELSE 97
      /\ map["Digit"] = IF m \cap {1, 2} # {} THEN 64 ELSE 50
  BY DEF shift_map, key_map
<1>2. \A k \in {"Letter", "Digit"} : map[k] # 0 => Char(m, k) = ch2(k)
  BY DEF Char
<1> HIDE DEF map
<1>3. m \cap {4, 8, 64} = {} <=> m \cap {4, 8} = {} /\ 64 \notin m
  OBVIOUS
<1>4. ASSUME m \cap {4, 8} = {}
      PROVE  /\ ch2("Letter") = IF (m \cap {1, 2} # {}) # (64 \in m) THEN 65 ELSE 97
             /\ ch2("Digit") = IF m \cap {1, 2} # {} THEN 64 ELSE 50
  BY <1>1, <1>3, <1>4 DEF Cased, IsCapital, IsSmall
<1>5. ASSUME m \cap {4, 8} # {}, ~(m \cap {1, 2} # {} /\ 64 \in m)
      PROVE  ch2("Letter") = 1
  <2>1. ch("Letter") = 65
    BY <1>1, <1>3, <1>5 DEF Cased, IsCapital, IsSmall
  <2> QED
    BY <1>5, <2>1
<1>7. ASSUME m \cap {4, 8} # {}
      PROVE  ch2("Digit") = IF m \cap {1, 2} # {} THEN 0 ELSE 242
  <2>1. ch("Digit") = IF m \cap {1, 2} # {} THEN 64 ELSE 50
    BY <1>1, <1>3, <1>7 DEF Cased, IsCapital, IsSmall
  <2> QED
    BY <1>7, <2>1
<1>6. map["Letter"] # 0 /\ map["Digit"] # 0
  BY <1>1
<1> QED
  BY <1>2, <1>4, <1>5, <1>6, <1>7

(* What a letter or a digit gives under shift, caps lock and ctrl          *)
(* (keyboard.c:174-223), whatever was typed before and is still queued.    *)
THEOREM CharSafety == Spec => CharRight
<1> DEFINE shift == held \cap {"LShift", "RShift"} # {}
           ctl   == held \cap {"LCtrl", "RCtrl"} # {}
           plain == ~torn /\ held \cap {"LAlt", "RAlt"} = {}
           A == /\ plain /\ ~ctl /\ Typed("Letter") =>
                     out' = IF shift # capsOn THEN 65 ELSE 97
                /\ plain /\ ctl /\ Typed("Letter") /\ ~(shift /\ capsOn) => out' = 1
                /\ plain /\ ~ctl /\ Typed("Digit") => out' = IF shift THEN 64 ELSE 50
                /\ plain /\ ctl /\ Typed("Digit") => out' = IF shift THEN 0 ELSE 242
<1>1. IInv /\ Next => A
  <2>1. ASSUME IInv, Next, NEW k \in {"Letter", "Digit"}, Typed(k)
        PROVE  out' = Char(mode, k)
    <3>1. PICK h \in Item : h = Head(q) /\ h.ev = "make" /\ h.key = k /\ q' = Tail(q)
                           /\ q # <<>>
      BY <2>1, HeadFacts DEF Typed
    <3>2. h.code = IF k = "Letter" THEN 30 ELSE 3
      BY <3>1, ItemCode DEF Sent, Code
    <3>3. do_self
      BY <2>1, <3>1, <3>2, SelfHandled
    <3>4. KeyOf(h.code) = k
      BY <3>2, KeyOfFacts
    <3> QED
      BY <3>1, <3>3, <3>4 DEF do_self, Done, Happens
  <2>2. ASSUME IInv, plain
        PROVE  /\ 32 \notin mode /\ 16 \notin mode
               /\ shift <=> mode \cap {1, 2} # {}
               /\ ctl <=> mode \cap {4, 8} # {}
               /\ capsOn \in BOOLEAN /\ (capsOn <=> 64 \in mode)
    BY <2>2, ModeBits DEF IInv, LocksInStep, TypeOK
  <2> HIDE DEF shift, ctl, plain
  <2>3. ASSUME IInv, Next, plain, ~ctl, Typed("Letter")
        PROVE  out' = IF shift # capsOn THEN 65 ELSE 97
    BY <2>1, <2>2, <2>3, CharValues DEF shift
  <2>4. ASSUME IInv, Next, plain, ctl, Typed("Letter"), ~(shift /\ capsOn)
        PROVE  out' = 1
    BY <2>1, <2>2, <2>4, CharValues
  <2>5. ASSUME IInv, Next, plain, ~ctl, Typed("Digit")
        PROVE  out' = IF shift THEN 64 ELSE 50
    BY <2>1, <2>2, <2>5, CharValues
  <2>6. ASSUME IInv, Next, plain, ctl, Typed("Digit")
        PROVE  out' = IF shift THEN 0 ELSE 242
    BY <2>1, <2>2, <2>6, CharValues
  <2> QED
    BY <2>3, <2>4, <2>5, <2>6
<1>2. IInv /\ [Next]_vars => [A]_vars
  BY <1>1
<1> QED
  BY <1>2, Invariance, PTL DEF Spec, CharRight
=============================================================================
