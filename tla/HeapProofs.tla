----------------------------- MODULE HeapProofs -----------------------------
(***************************************************************************)
(* Proofs about Heap, for any callers, sizes, page and header sizes.       *)
(***************************************************************************)
EXTENDS Heap, Integers, TLAPS

D == DOMAIN hdr

(* The headers tile the heap from V_MM_START on, in the order of their     *)
(* addresses; `first' is set before the first header is written.           *)
Growing == {"extend", "map", "add", "write", "panic"}

Chained ==
  /\ \A x \in D :
       LET n == hdr[x] IN
       /\ x \in Nat /\ n \in Header /\ n.used /\ V_MM_START <= x
       /\ H <= n.length /\ x + n.length <= mm_top
       /\ n.next # NULL => n.next = x + n.length /\ n.next \in D /\ hdr[n.next].prev = x
       /\ n.prev = NULL <=> x = first
  /\ \A x \in D : \A y \in D : x < y => x + hdr[x].length <= y
  /\ first \in D \/ (D = {} /\ (first = NULL \/ \E c \in Callers : pc[c] \in Growing))

(* Only the last header points nowhere, and the one before it while a call *)
(* has not linked them yet.                                                *)
Last(x) == x \in D /\ hdr[x].next = NULL /\ \A y \in D : y <= x
Ending  == \A x \in D : hdr[x].next = NULL =>
             Last(x) \/ \E c \in Callers : pc[c] = "link" /\ prev[c] = x

(* The pages below mm_top are mapped, and the one there before it moves.   *)
Pages(top) == {x \in V_MM_START .. top - 1 : x % PAGE_SIZE = 0}
Backed ==
  /\ mm_top \in Nat /\ V_MM_START <= mm_top /\ mm_top % PAGE_SIZE = 0
  /\ mapped = Pages(mm_top) \cup IF \E c \in Callers : pc[c] = "add" THEN {mm_top} ELSE {}

(* What the locals of a call are at each point.                            *)
Ends(c) == IF prev[c] = NULL THEN D = {} ELSE Last(prev[c])
Linked(c) ==
  /\ maddr[c] \in D /\ hdr[maddr[c]].next = NULL
  /\ hdr[maddr[c]].prev = prev[c] /\ hdr[maddr[c]].length = size[c]
  /\ IF prev[c] = NULL THEN D = {maddr[c]}
     ELSE /\ prev[c] \in D \ {maddr[c]} /\ hdr[prev[c]].next = NULL
          /\ maddr[c] = prev[c] + hdr[prev[c]].length
          /\ \A y \in D : y = maddr[c] \/ y <= prev[c]
Local(c) ==
  /\ pc[c] # "idle" => size[c] \in H .. UintMod \div 2 - 1
  /\ pc[c] = "scan" => IF node[c] = NULL THEN Ends(c) ELSE node[c] \in D
  /\ pc[c] \in Growing =>
       /\ Ends(c) /\ maddr[c] = Place(c) /\ maddr[c] + size[c] < UintMod
       /\ prev[c] = NULL => first = V_MM_START
  /\ pc[c] = "write" => maddr[c] + size[c] <= mm_top
  /\ pc[c] = "link" => Linked(c)

(* A block handed out is what lies behind a header that is not being       *)
(* linked.                                                                 *)
Owned == \A b \in live : \E x \in D :
  /\ b = [obj |-> x + H, size |-> hdr[x].length - H]
  /\ \A c \in Callers : pc[c] = "link" => x # maddr[c]

Typed ==
  /\ pc \in [Callers -> Growing \cup {"idle", "scan", "link"}]
  /\ size \in [Callers -> Nat] /\ node \in [Callers -> Nat]
  /\ prev \in [Callers -> Nat] /\ maddr \in [Callers -> Nat] /\ first \in Nat

Safe == Typed /\ Chained /\ Ending /\ Backed /\ Owned /\ ~Races /\ \A c \in Callers : Local(c)

IInv == spoilt \in BOOLEAN /\ (~spoilt => Safe)

-----------------------------------------------------------------------------
(* A multiple of P and a number below P.                                   *)
LEMMA ModSum ==
  ASSUME NEW P \in Nat \ {0}, NEW t \in Nat, t % P = 0, NEW r \in 0 .. P - 1
  PROVE  (t + r) % P = r
OBVIOUS

(* The multiple after P * q.                                               *)
LEMMA ModNext ==
  ASSUME NEW P \in Nat \ {0}, NEW q \in Nat
  PROVE  (P * q + P) % P = 0
<1>1. P * q + P = P * (q + 1) /\ q + 1 \in Nat
  OBVIOUS
<1>2. (P * (q + 1)) % P = 0
  BY <1>1
<1> QED
  BY <1>1, <1>2

(* A number is a multiple of P and a remainder.                            *)
LEMMA ModBase ==
  ASSUME NEW P \in Nat \ {0}, NEW x \in Nat
  PROVE  \E m \in Nat, q \in Nat, r \in 0 .. P - 1 :
           x % P = r /\ x = m + r /\ m = P * q /\ m % P = 0
<1>1. x = P * (x \div P) + (x % P) /\ (x % P) \in 0 .. P - 1 /\ (x \div P) \in Nat
  OBVIOUS
<1>2. PICK q \in Nat : q = x \div P
  BY <1>1
<1>3. PICK m \in Nat : m = P * q
  OBVIOUS
<1>4. PICK r \in 0 .. P - 1 : r = x % P
  BY <1>1
<1>5. x = m + r
  BY <1>1, <1>2, <1>3, <1>4
<1>6. m % P = 0
  BY <1>3
<1> QED
  BY <1>3, <1>4, <1>5, <1>6

(* Multiples of P are P apart.                                             *)
LEMMA Times ==
  ASSUME NEW P \in Nat \ {0}, NEW p \in Nat, NEW q \in Nat, p < q
  PROVE  P * p + P <= P * q
<1>1. PICK k \in Nat : q = p + 1 + k
  <2>1. q - p - 1 \in Nat /\ q = p + 1 + (q - p - 1)
    OBVIOUS
  <2> QED
    BY <2>1
<1>2. P * q = P * p + P + P * k /\ P * k \in Nat
  BY <1>1
<1> QED
  BY <1>2

(* Multiples of the page size.                                             *)
LEMMA Multiple ==
  ASSUME NEW P \in Nat \ {0}, NEW t \in Nat, t % P = 0
  PROVE  /\ (t + P) % P = 0
         /\ \A r \in 1 .. P - 1 : (t + r) % P # 0
         /\ \A x \in Nat : t <= x => \E m \in Nat : m = x - (x % P) /\ m % P = 0 /\ t <= m /\ m <= x
<1>1. PICK q \in Nat : t = P * q
  <2>1. PICK m \in Nat, q \in Nat, r \in 0 .. P - 1 :
          t % P = r /\ t = m + r /\ m = P * q /\ m % P = 0
    BY ModBase
  <2>2. t = m
    BY <2>1
  <2> QED
    BY <2>1, <2>2
<1>2. (t + P) % P = 0
  BY <1>1, ModNext
<1>3. ASSUME NEW r \in 1 .. P - 1 PROVE (t + r) % P # 0
  <2>1. r \in 0 .. P - 1 /\ r # 0
    OBVIOUS
  <2> QED
    BY <2>1, ModSum
<1>4. ASSUME NEW x \in Nat, t <= x
      PROVE  \E m \in Nat : m = x - (x % P) /\ m % P = 0 /\ t <= m /\ m <= x
  <2>1. PICK m \in Nat, p \in Nat, r \in 0 .. P - 1 :
          x % P = r /\ x = m + r /\ m = P * p /\ m % P = 0
    BY ModBase
  <2>2. t <= m
    <3>1. CASE p < q
      <4>1. m + P <= t
        BY <1>1, <2>1, <3>1, Times
      <4> QED
        BY <1>4, <2>1, <4>1
    <3>2. CASE p = q
      BY <1>1, <2>1, <3>2
    <3>3. CASE q < p
      <4>1. t + P <= m
        BY <1>1, <2>1, <3>3, Times
      <4> QED
        BY <4>1
    <3> QED
      BY <3>1, <3>2, <3>3
  <2>3. m = x - (x % P) /\ m <= x
    BY <2>1
  <2> QED
    BY <2>1, <2>2, <2>3
<1> QED
  BY <1>2, <1>3, <1>4

(* The page of an address between V_MM_START and top is one of Pages.      *)
LEMMA PageIn ==
  ASSUME NEW top \in Nat, NEW x \in Nat, V_MM_START <= x, x < top
  PROVE  x - (x % PAGE_SIZE) \in Pages(top)
<1>1. PAGE_SIZE \in Nat \ {0} /\ V_MM_START \in Nat /\ V_MM_START % PAGE_SIZE = 0
  BY HeapAssumption
<1>2. PICK m \in Nat : m = x - (x % PAGE_SIZE) /\ m % PAGE_SIZE = 0 /\ V_MM_START <= m /\ m <= x
  BY <1>1, Multiple
<1>3. m \in V_MM_START .. top - 1
  BY <1>1, <1>2
<1> QED
  BY <1>2, <1>3 DEF Pages

(* One more page.                                                          *)
LEMMA PagesNext ==
  ASSUME NEW top \in Nat, V_MM_START <= top, top % PAGE_SIZE = 0
  PROVE  Pages(top + PAGE_SIZE) = Pages(top) \cup {top} /\ (top + PAGE_SIZE) % PAGE_SIZE = 0
<1>1. PAGE_SIZE \in Nat \ {0} /\ V_MM_START \in Nat
  BY HeapAssumption
<1>2. /\ (top + PAGE_SIZE) % PAGE_SIZE = 0
      /\ \A r \in 1 .. PAGE_SIZE - 1 : (top + r) % PAGE_SIZE # 0
  BY <1>1, Multiple
<1>3. ASSUME NEW x \in Pages(top + PAGE_SIZE) PROVE x \in Pages(top) \/ x = top
  <2>1. x \in V_MM_START .. top + PAGE_SIZE - 1 /\ x % PAGE_SIZE = 0
    <3>1. PICK n : n = top + PAGE_SIZE
      OBVIOUS
    <3>2. x \in Pages(n)
      BY <3>1
    <3>3. x \in V_MM_START .. n - 1 /\ x % PAGE_SIZE = 0
      BY <3>2 DEF Pages
    <3>4. x \in V_MM_START .. top + PAGE_SIZE - 1
      BY <1>1, <3>1, <3>3
    <3> QED
      BY <3>3, <3>4
  <2>2. CASE x < top
    BY <1>1, <2>1, <2>2 DEF Pages
  <2>3. CASE x > top
    <3>1. x - top \in 1 .. PAGE_SIZE - 1 /\ x = top + (x - top)
      BY <1>1, <2>1, <2>3
    <3> QED
      BY <1>2, <2>1, <3>1
  <2> QED
    BY <1>1, <2>1, <2>2, <2>3
<1>4. Pages(top) \cup {top} \subseteq Pages(top + PAGE_SIZE)
  BY <1>1 DEF Pages
<1> QED
  BY <1>2, <1>3, <1>4

-----------------------------------------------------------------------------
(* Memory with one header written.                                         *)
LEMMA WriteFacts ==
  ASSUME NEW m, NEW x, NEW h
  PROVE  /\ DOMAIN Write(m, x, h) = DOMAIN m \cup {x} /\ Write(m, x, h)[x] = h
         /\ \A y \in DOMAIN m : y # x => Write(m, x, h)[y] = m[y]
BY DEF Write

(* Init.                                                                   *)
LEMMA InitInv == Init => IInv
<1> SUFFICES ASSUME Init PROVE IInv
  OBVIOUS
<1>1. D = {} /\ \A c \in Callers : pc[c] = "idle"
  BY DEF Init, D
<1>2. Typed
  BY DEF Init, Typed, NULL
<1>3. Chained /\ Ending /\ Owned
  BY <1>1 DEF Init, Chained, Ending, Owned
<1>4. Backed
  <2>1. Pages(V_MM_START) = {}
    BY HeapAssumption DEF Pages
  <2> QED
    BY <1>1, <2>1, HeapAssumption DEF Init, Backed
<1>5. ~Races
  BY <1>1 DEF Races, Appends
<1>6. \A c \in Callers : Local(c)
  BY <1>1 DEF Local, Growing
<1> QED
  BY <1>2, <1>3, <1>4, <1>5, <1>6 DEF Init, IInv, Safe

-----------------------------------------------------------------------------
(* A step of c leaves the others where they are.                           *)
Rest(c) == \A b \in Callers \ {c} :
  /\ pc'[b] = pc[b] /\ size'[b] = size[b] /\ node'[b] = node[b]
  /\ prev'[b] = prev[b] /\ maddr'[b] = maddr[b]

(* While a call appends, no other does, and before there is a header no    *)
(* other is under way.                                                     *)
LEMMA Alone ==
  ASSUME Safe, NEW c \in Callers, Appends(c), NEW b \in Callers \ {c}
  PROVE  ~Appends(b) /\ pc[b] \notin Growing \cup {"link"} /\ (D = {} => pc[b] = "idle")
<1>1. ~Appends(b) /\ (D = {} => pc[b] = "idle")
  BY DEF Safe, Races, D
<1> QED
  BY <1>1 DEF Appends, Growing

(* A call that does not append needs its node only.                        *)
LEMMA Bystander ==
  ASSUME NEW b \in Callers, Local(b), ~Appends(b), D \subseteq D',
         pc'[b] = pc[b], size'[b] = size[b], node'[b] = node[b]
  PROVE  Local(b)'
<1>1. pc[b] \notin Growing \cup {"link"} /\ (pc[b] = "scan" => node[b] # NULL)
  BY DEF Appends, Growing
<1>2. pc[b] # "write"
  BY <1>1 DEF Growing
<1> QED
  BY <1>1, <1>2 DEF Local

(* Steps that begin no append and no call.                                 *)
LEMMA NoNewRace ==
  ASSUME Safe, \A b \in Callers : Appends(b)' => Appends(b),
         \A b \in Callers : pc'[b] # "idle" => pc[b] # "idle", D' = {} => D = {}
  PROVE  ~Races'
BY DEF Safe, Races, D

(* A step that touches the locals of c only.                               *)
LEMMA Quiet ==
  ASSUME Safe, NEW c \in Callers, UNCHANGED <<first, mm_top, hdr, mapped, live>>, Rest(c),
         pc[c] \notin {"link", "add"}, pc'[c] \notin {"link", "add"},
         pc[c] \in Growing => pc'[c] \in Growing
  PROVE  /\ Chained' /\ Ending' /\ Backed' /\ Owned'
         /\ \A b \in Callers \ {c} : Local(b)'
<1>0. D' = D
  BY DEF D
<1>p. \A b \in Callers : b # c => pc'[b] = pc[b] /\ prev'[b] = prev[b] /\ maddr'[b] = maddr[b]
  BY DEF Rest
<1>1. Chained'
  <2>1. Chained
    BY DEF Safe
  <2>2. (\E b \in Callers : pc[b] \in Growing) => (\E b \in Callers : pc'[b] \in Growing)
    BY <1>p
  <2> QED
    BY <1>0, <2>1, <2>2 DEF Chained
<1>2. Ending'
  <2>1. Ending
    BY DEF Safe
  <2>2. \A x : Last(x) => Last(x)'
    BY <1>0 DEF Last
  <2>3. \A x : (\E b \in Callers : pc[b] = "link" /\ prev[b] = x)
                 => (\E b \in Callers : pc'[b] = "link" /\ prev'[b] = x)
    BY <1>p
  <2> QED
    BY <1>0, <2>1, <2>2, <2>3 DEF Ending
<1>3. Backed'
  <2>1. Backed
    BY DEF Safe
  <2>2. (\E b \in Callers : pc[b] = "add") <=> (\E b \in Callers : pc'[b] = "add")
    BY <1>p
  <2> QED
    BY <2>1, <2>2 DEF Backed
<1>4. Owned'
  BY <1>0, <1>p DEF Safe, Owned
<1>5. ASSUME NEW b \in Callers \ {c} PROVE Local(b)'
  <2>1. Local(b)
    BY DEF Safe
  <2> QED
    BY <1>0, <2>1 DEF Rest, Local, Ends, Last, Linked, Place
<1> QED
  BY <1>1, <1>2, <1>3, <1>4, <1>5

(* kmalloc begins at the first header, if there is one.                    *)
LEMMA KmallocStep ==
  ASSUME Safe, NEW c \in Callers, NEW s \in Sizes, kmalloc(c, s), ~spoilt'
  PROVE  Safe'
<1>t. Typed /\ Chained /\ s \in Nat /\ H \in Nat /\ H # 0 /\ UintMod \in Nat /\ V_MM_START \in Nat
      /\ V_MM_START # 0
  BY HeapAssumption DEF Safe
<1>1. /\ pc' = [pc EXCEPT ![c] = "scan"] /\ size' = [size EXCEPT ![c] = Padded(s)]
      /\ node' = [node EXCEPT ![c] = first] /\ prev' = [prev EXCEPT ![c] = NULL]
      /\ UNCHANGED <<first, mm_top, hdr, mapped, maddr, live>> /\ pc[c] = "idle"
      /\ ~(s + H >= UintMod \div 2) /\ ~Races'
  BY DEF kmalloc, Goto, At, heap, Head
<1>2. Padded(s) \in H .. UintMod \div 2 - 1 /\ Padded(s) \in Nat
  <2>1. s + H < UintMod \div 2 /\ UintMod \div 2 \in Nat /\ s + H < UintMod
    BY <1>t, <1>1
  <2>2. (s + H) % UintMod = s + H
    BY <1>t, <2>1
  <2> QED
    BY <1>t, <2>1, <2>2 DEF Padded
<1>3. /\ pc'[c] = "scan" /\ size'[c] = Padded(s) /\ node'[c] = first /\ prev'[c] = NULL
      /\ Rest(c)
  BY <1>t, <1>1 DEF Typed, Rest
<1>4. first \in Nat
  BY <1>t DEF Typed
<1>5. Typed'
  BY <1>t, <1>1, <1>2, <1>4 DEF Typed, NULL
<1>6. /\ Chained' /\ Ending' /\ Backed' /\ Owned' /\ \A b \in Callers \ {c} : Local(b)'
  BY <1>1, <1>3, Quiet DEF Growing
<1>7. Local(c)'
  <2>1. CASE first \in D
    <3>1. first # NULL
      BY <1>t, <2>1 DEF Chained, NULL
    <3> QED
      BY <1>1, <1>2, <1>3, <2>1, <3>1 DEF Local, Growing, D
  <2>2. CASE D = {} /\ first = NULL
    BY <1>1, <1>2, <1>3, <2>2 DEF Local, Growing, D, Ends
  <2>3. CASE D = {} /\ \E b \in Callers : pc[b] \in Growing
    <3>1. PICK b \in Callers : pc[b] \in Growing
      BY <2>3
    <3>2. b # c /\ pc'[b] = pc[b]
      BY <1>1, <1>3, <3>1 DEF Growing, Rest
    <3>3. Races'
      BY <1>1, <1>3, <2>3, <3>1, <3>2 DEF Races, Appends, Growing, D
    <3> QED
      BY <1>1, <3>3
  <2> QED
    BY <1>t, <2>1, <2>2, <2>3 DEF Chained
<1> QED
  BY <1>1, <1>5, <1>6, <1>7 DEF Safe

(* Every header is in use, so the search goes on to the next one; at the   *)
(* last one it is over, unless another call is about to append.            *)
LEMMA ScanStep ==
  ASSUME Safe, NEW c \in Callers, scan(c), ~spoilt'
  PROVE  Safe' /\ UNCHANGED <<live, mapped>>
<1>t. Typed /\ Chained /\ Ending /\ Local(c)
  BY DEF Safe
<1>1. pc[c] = "scan" /\ node[c] # NULL /\ ~Races' /\ UNCHANGED <<first, mm_top, mapped>>
  BY DEF scan, At
<1>2. node[c] \in D /\ hdr[node[c]].used /\ size[c] \in H .. UintMod \div 2 - 1
  BY <1>t, <1>1 DEF Local, Chained
<1>3. /\ prev' = [prev EXCEPT ![c] = node[c]] /\ node' = [node EXCEPT ![c] = hdr[node[c]].next]
      /\ UNCHANGED <<hdr, pc, size, maddr, live>>
  BY <1>1, <1>2 DEF scan, D
<1>n. hdr[node[c]].next \in Nat
  BY <1>t, <1>2 DEF Chained, Header
<1>4. prev'[c] = node[c] /\ node'[c] = hdr[node[c]].next /\ Rest(c)
  BY <1>t, <1>3 DEF Typed, Rest
<1>5. Typed'
  BY <1>t, <1>1, <1>3, <1>n DEF Typed
<1>6. /\ Chained' /\ Ending' /\ Backed' /\ Owned' /\ \A b \in Callers \ {c} : Local(b)'
  BY <1>1, <1>3, <1>4, Quiet DEF Growing
<1>7. Local(c)'
  <2>1. CASE hdr[node[c]].next # NULL
    <3>1. hdr[node[c]].next \in D
      BY <1>t, <1>2, <2>1 DEF Chained
    <3> QED
      BY <1>1, <1>2, <1>3, <1>4, <2>1, <3>1 DEF Local, Growing, D
  <2>2. CASE hdr[node[c]].next = NULL
    <3>1. Last(node[c])
      <4> SUFFICES ASSUME ~Last(node[c]) PROVE FALSE
        OBVIOUS
      <4>1. PICK b \in Callers : pc[b] = "link" /\ prev[b] = node[c]
        BY <1>t, <1>2, <2>2 DEF Ending
      <4>2. b # c /\ Appends(b)' /\ Appends(c)'
        BY <1>1, <1>3, <1>4, <2>2, <4>1 DEF Appends
      <4> QED
        BY <1>1, <4>2 DEF Races
    <3>2. Last(prev[c])'
      BY <1>3, <1>4, <3>1 DEF Last, D
    <3>3. Ends(c)'
      BY <1>1, <1>4, <3>2 DEF Ends
    <3> QED
      BY <1>1, <1>2, <1>3, <1>4, <2>2, <3>3 DEF Local, Growing
  <2> QED
    BY <2>1, <2>2
<1> QED
  BY <1>1, <1>3, <1>5, <1>6, <1>7 DEF Safe

(* The end of the search: the new block goes behind the last one.          *)
LEMMA ScanEndStep ==
  ASSUME Safe, NEW c \in Callers, scan_end(c), ~spoilt'
  PROVE  Safe' /\ UNCHANGED <<live, mapped>>
<1>t. /\ Typed /\ Chained /\ Ending /\ Backed /\ Owned /\ Local(c)
      /\ V_MM_START \in Nat /\ V_MM_START # 0
  BY HeapAssumption DEF Safe
<1>1. /\ pc[c] = "scan" /\ node[c] = NULL /\ ~Races' /\ ~(Place(c) + size[c] >= UintMod)
      /\ maddr' = [maddr EXCEPT ![c] = Place(c)] /\ pc' = [pc EXCEPT ![c] = "extend"]
      /\ first' = IF prev[c] # NULL THEN first ELSE V_MM_START
      /\ UNCHANGED <<mm_top, hdr, mapped, size, node, prev, live>>
  BY DEF scan_end, At, Goto
<1>2. Ends(c) /\ size[c] \in H .. UintMod \div 2 - 1 /\ Appends(c)
  BY <1>t, <1>1 DEF Local, Appends
<1>3. Place(c) \in Nat
  <2>1. CASE prev[c] # NULL
    <3>1. prev[c] \in D
      BY <1>2, <2>1 DEF Ends, Last
    <3>2. prev[c] \in Nat /\ hdr[prev[c]].length \in Nat
      BY <1>t, <3>1 DEF Chained, Header
    <3> QED
      BY <2>1, <3>2 DEF Place
  <2>2. CASE prev[c] = NULL
    BY <1>t, <2>2 DEF Place
  <2> QED
    BY <2>1, <2>2
<1>4. pc'[c] = "extend" /\ maddr'[c] = Place(c) /\ Rest(c)
  BY <1>t, <1>1, <1>3 DEF Typed, Rest
<1>5. Typed'
  BY <1>t, <1>1, <1>3 DEF Typed, Growing
<1>6. \A b \in Callers \ {c} : ~Appends(b) /\ pc[b] \notin Growing \cup {"link"}
  BY <1>2, Alone
<1>7. D' = D /\ Place(c)' = Place(c) /\ (prev[c] = NULL => D = {})
  BY <1>1, <1>2 DEF D, Place, Ends
<1>8. Chained'
  <2>1. CASE prev[c] = NULL
    BY <1>1, <1>4, <1>7, <2>1 DEF Chained, Growing
  <2>2. CASE prev[c] # NULL
    <3>1. first' = first /\ D # {}
      BY <1>1, <1>2, <2>2 DEF Ends, Last
    <3> QED
      BY <1>t, <1>1, <1>7, <3>1 DEF Chained
  <2> QED
    BY <2>1, <2>2
<1>9. \A b \in Callers : pc[b] # "link" /\ pc'[b] # "link" /\ pc[b] # "add" /\ pc'[b] # "add"
  BY <1>1, <1>4, <1>6 DEF Rest, Growing
<1>10. Ending' /\ Owned' /\ Backed'
  <2>1. Ending'
    BY <1>t, <1>1, <1>7, <1>9 DEF Ending, Last
  <2>2. Owned'
    BY <1>t, <1>1, <1>7, <1>9 DEF Owned
  <2>3. Backed'
    BY <1>t, <1>1, <1>9 DEF Backed
  <2> QED
    BY <2>1, <2>2, <2>3
<1>11. ASSUME NEW b \in Callers \ {c} PROVE Local(b)'
  BY <1>4, <1>6, <1>7, Bystander DEF Rest, Safe
<1>12. Local(c)'
  <2>1. Ends(c)'
    BY <1>1, <1>2, <1>7 DEF Ends, Last
  <2>2. maddr'[c] + size'[c] < UintMod
    BY <1>1, <1>2, <1>3, <1>4, HeapAssumption
  <2>3. prev'[c] = NULL => first' = V_MM_START
    BY <1>1
  <2> QED
    BY <1>1, <1>2, <1>4, <1>7, <2>1, <2>2, <2>3 DEF Local, Growing
<1> QED
  BY <1>1, <1>5, <1>8, <1>10, <1>11, <1>12 DEF Safe

(* The page loop: the test ...                                             *)
LEMMA ExtendStep ==
  ASSUME Safe, NEW c \in Callers, extend(c)
  PROVE  Safe' /\ UNCHANGED <<live, mapped>>
<1>t. /\ Typed /\ Local(c) /\ Backed
  BY DEF Safe
<1>1. /\ pc[c] = "extend" /\ UNCHANGED <<first, mm_top, hdr, mapped, size, node, prev, maddr, live>>
      /\ \E l \in {"write", "map", "panic"} :
           pc' = [pc EXCEPT ![c] = l] /\ (l = "write" => mm_top >= End(c))
  BY DEF extend, At, Goto, heap, locals
<1>2. PICK l \in {"write", "map", "panic"} :
        pc' = [pc EXCEPT ![c] = l] /\ (l = "write" => mm_top >= End(c))
  BY <1>1
<1>3. pc'[c] = l /\ Rest(c)
  BY <1>t, <1>1, <1>2 DEF Typed, Rest
<1>4. Typed'
  BY <1>t, <1>1, <1>2 DEF Typed, Growing
<1>5. /\ Chained' /\ Ending' /\ Backed' /\ Owned' /\ \A b \in Callers \ {c} : Local(b)'
  BY <1>1, <1>3, Quiet DEF Growing
<1>6. ~Races'
  <2>1. \A b \in Callers : Appends(b)' => Appends(b)
    BY <1>1, <1>3 DEF Appends, Rest
  <2>2. \A b \in Callers : pc'[b] # "idle" => pc[b] # "idle"
    BY <1>1, <1>3 DEF Rest
  <2> QED
    BY <1>1, <2>1, <2>2, NoNewRace DEF D
<1>7. Local(c)'
  <2>1. /\ Ends(c) /\ maddr[c] = Place(c) /\ maddr[c] + size[c] < UintMod
        /\ prev[c] = NULL => first = V_MM_START
        /\ size[c] \in H .. UintMod \div 2 - 1
    BY <1>t, <1>1 DEF Local, Growing
  <2>2. Ends(c)' /\ Place(c)' = Place(c)
    BY <1>1, <2>1 DEF Ends, Last, D, Place
  <2>3. End(c) = maddr[c] + size[c] /\ maddr[c] + size[c] \in Nat
    <3>1. maddr[c] + size[c] \in Nat /\ UintMod \in Nat
      BY <1>t, HeapAssumption DEF Typed
    <3> QED
      BY <2>1, <3>1 DEF End
  <2>4. pc'[c] = "write" => maddr'[c] + size'[c] <= mm_top'
    BY <1>t, <1>1, <1>2, <1>3, <2>3 DEF Backed
  <2>5. pc'[c] \in Growing /\ pc'[c] \notin {"scan", "link"}
    BY <1>3 DEF Growing
  <2> QED
    BY <1>1, <2>1, <2>2, <2>4, <2>5 DEF Local
<1> QED
  BY <1>1, <1>4, <1>5, <1>6, <1>7 DEF Safe

(* ... map, which maps the page at mm_top ...                              *)
LEMMA MapStep ==
  ASSUME Safe, NEW c \in Callers, map_page(c)
  PROVE  Safe' /\ live' = live /\ mapped \subseteq mapped'
<1>t. Typed /\ Local(c) /\ Backed /\ Chained /\ Ending /\ Owned
  BY DEF Safe
<1>1. /\ pc[c] = "map" /\ UNCHANGED <<first, mm_top, hdr, size, node, prev, maddr, live>>
      /\ pc' = [pc EXCEPT ![c] = "add"] /\ mapped' = mapped \cup {mm_top}
  BY DEF map_page, At, Goto, locals
<1>2. pc'[c] = "add" /\ Rest(c) /\ Appends(c)
  BY <1>t, <1>1 DEF Typed, Rest, Appends
<1>3. Typed'
  BY <1>t, <1>1 DEF Typed, Growing
<1>4. \A b \in Callers \ {c} : ~Appends(b) /\ pc[b] \notin Growing \cup {"link"}
  BY <1>2, Alone
<1>5. \A b \in Callers : pc[b] # "link" /\ pc'[b] # "link" /\ pc[b] # "add"
  BY <1>1, <1>2, <1>4 DEF Rest, Growing
<1>6. Chained'
  <2>1. c \in Callers /\ pc'[c] \in Growing
    BY <1>2 DEF Growing
  <2> QED
    BY <1>t, <1>1, <2>1 DEF Chained, D
<1>7. Ending' /\ Owned'
  BY <1>t, <1>1, <1>5 DEF Ending, Owned, Last, D
<1>8. Backed'
  BY <1>t, <1>1, <1>2, <1>5 DEF Backed
<1>9. ~Races'
  <2>1. \A b \in Callers : Appends(b)' => Appends(b)
    BY <1>1, <1>2 DEF Appends, Rest
  <2>2. \A b \in Callers : pc'[b] # "idle" => pc[b] # "idle"
    BY <1>1, <1>2 DEF Rest
  <2> QED
    BY <1>1, <2>1, <2>2, NoNewRace DEF D
<1>10. ASSUME NEW b \in Callers \ {c} PROVE Local(b)'
  BY <1>1, <1>2, <1>4, Bystander DEF Rest, Safe, D
<1>11. Local(c)'
  BY <1>t, <1>1, <1>2 DEF Local, Growing, Ends, Last, D, Place
<1> QED
  BY <1>1, <1>3, <1>6, <1>7, <1>8, <1>9, <1>10, <1>11 DEF Safe

(* ... and mm_top moves on.                                                *)
LEMMA AddStep ==
  ASSUME Safe, NEW c \in Callers, add_page(c)
  PROVE  Safe' /\ UNCHANGED <<live, mapped>>
<1>t. Typed /\ Local(c) /\ Backed /\ Chained /\ Ending /\ Owned /\ PAGE_SIZE \in Nat \ {0}
  BY HeapAssumption DEF Safe
<1>1. /\ pc[c] = "add" /\ UNCHANGED <<first, hdr, mapped, size, node, prev, maddr, live>>
      /\ pc' = [pc EXCEPT ![c] = "extend"] /\ mm_top' = mm_top + PAGE_SIZE
  BY DEF add_page, At, Goto, locals, Step
<1>2. pc'[c] = "extend" /\ Rest(c) /\ Appends(c)
  BY <1>t, <1>1 DEF Typed, Rest, Appends
<1>3. Typed'
  BY <1>t, <1>1 DEF Typed, Growing
<1>4. \A b \in Callers \ {c} : ~Appends(b) /\ pc[b] \notin Growing \cup {"link"}
  BY <1>2, Alone
<1>5. \A b \in Callers : pc[b] # "link" /\ pc'[b] # "link" /\ pc'[b] # "add"
  BY <1>1, <1>2, <1>4 DEF Rest, Growing
<1>m. mm_top \in Nat /\ mm_top' \in Nat /\ mm_top <= mm_top' /\ V_MM_START <= mm_top
      /\ V_MM_START \in Nat
  BY <1>t, <1>1, HeapAssumption DEF Backed
<1>6. Chained'
  <2>1. c \in Callers /\ pc'[c] \in Growing
    BY <1>2 DEF Growing
  <2>2. \A x \in D : x + hdr[x].length <= mm_top'
    <3> SUFFICES ASSUME NEW x \in D PROVE x + hdr[x].length <= mm_top'
      OBVIOUS
    <3>1. x \in Nat /\ hdr[x].length \in Nat /\ x + hdr[x].length <= mm_top
      BY <1>t DEF Chained, Header
    <3> QED
      BY <1>m, <3>1
  <2> QED
    BY <1>t, <1>1, <2>1, <2>2 DEF Chained, D
<1>7. Ending' /\ Owned'
  BY <1>t, <1>1, <1>5 DEF Ending, Owned, Last, D
<1>8. Backed'
  <2>1. mapped = Pages(mm_top) \cup {mm_top} /\ mm_top % PAGE_SIZE = 0
    BY <1>t, <1>1 DEF Backed
  <2>2. /\ Pages(mm_top + PAGE_SIZE) = Pages(mm_top) \cup {mm_top}
        /\ (mm_top + PAGE_SIZE) % PAGE_SIZE = 0
    BY <1>m, <2>1, PagesNext
  <2>3. mapped' = Pages(mm_top') /\ mm_top' % PAGE_SIZE = 0
    BY <1>1, <2>1, <2>2
  <2>4. V_MM_START <= mm_top'
    BY <1>m
  <2> QED
    BY <1>5, <1>m, <2>3, <2>4 DEF Backed
<1>9. ~Races'
  <2>1. \A b \in Callers : Appends(b)' => Appends(b)
    BY <1>1, <1>2 DEF Appends, Rest
  <2>2. \A b \in Callers : pc'[b] # "idle" => pc[b] # "idle"
    BY <1>1, <1>2 DEF Rest
  <2> QED
    BY <1>1, <2>1, <2>2, NoNewRace DEF D
<1>10. ASSUME NEW b \in Callers \ {c} PROVE Local(b)'
  BY <1>1, <1>2, <1>4, Bystander DEF Rest, Safe, D
<1>11. Local(c)'
  BY <1>t, <1>1, <1>2 DEF Local, Growing, Ends, Last, D, Place
<1> QED
  BY <1>1, <1>3, <1>6, <1>7, <1>8, <1>9, <1>10, <1>11 DEF Safe

(* The place of the new block: behind all others, and mapped.              *)
LEMMA Behind ==
  ASSUME Safe, NEW c \in Callers, pc[c] = "write"
  PROVE  /\ maddr[c] \in Nat /\ V_MM_START <= maddr[c] /\ maddr[c] + size[c] <= mm_top
         /\ size[c] \in H .. UintMod \div 2 - 1 /\ Ends(c)
         /\ \A y \in D : y < maddr[c] /\ y + hdr[y].length <= maddr[c]
         /\ Page(maddr[c]) \in mapped
         /\ prev[c] = NULL => first = maddr[c]
         /\ prev[c] # NULL => maddr[c] = prev[c] + hdr[prev[c]].length
<1>t. Typed /\ Local(c) /\ Backed /\ Chained
  BY DEF Safe
<1>k. H \in Nat /\ H # 0 /\ V_MM_START \in Nat
  BY HeapAssumption
<1>1. /\ Ends(c) /\ maddr[c] = Place(c) /\ (prev[c] = NULL => first = V_MM_START)
      /\ size[c] \in H .. UintMod \div 2 - 1 /\ maddr[c] + size[c] <= mm_top
  BY <1>t DEF Local, Growing
<1>2. maddr[c] \in Nat /\ size[c] \in Nat /\ mm_top \in Nat
  BY <1>t DEF Typed, Backed
<1>3. CASE prev[c] = NULL
  <2>1. maddr[c] = V_MM_START /\ D = {}
    BY <1>1, <1>3 DEF Place, Ends
  <2>2. Page(maddr[c]) \in mapped
    <3>1. maddr[c] < mm_top
      BY <1>1, <1>2, <1>k
    <3>2. Page(maddr[c]) \in Pages(mm_top)
      BY <1>2, <1>k, <2>1, <3>1, PageIn DEF Page
    <3> QED
      BY <1>t, <3>2 DEF Backed
  <2> QED
    BY <1>1, <1>2, <1>3, <1>k, <2>1, <2>2
<1>4. CASE prev[c] # NULL
  <2>1. Last(prev[c]) /\ maddr[c] = prev[c] + hdr[prev[c]].length
    BY <1>1, <1>4 DEF Place, Ends
  <2>2. prev[c] \in D /\ prev[c] \in Nat /\ V_MM_START <= prev[c] /\ hdr[prev[c]].length \in Nat
    BY <1>t, <2>1 DEF Last, Chained, Header
  <2>3. ASSUME NEW y \in D PROVE y < maddr[c] /\ y + hdr[y].length <= maddr[c]
    <3>1. y \in Nat /\ hdr[y].length \in Nat /\ H <= hdr[y].length /\ y <= prev[c]
      BY <1>t, <2>1 DEF Last, Chained, Header
    <3>2. CASE y = prev[c]
      BY <1>k, <2>1, <2>2, <3>1, <3>2
    <3>3. CASE y < prev[c]
      <4>1. y + hdr[y].length <= prev[c]
        BY <1>t, <2>2, <3>3 DEF Chained
      <4> QED
        BY <1>k, <2>1, <2>2, <3>1, <4>1
    <3> QED
      BY <2>2, <3>1, <3>2, <3>3
  <2>4. V_MM_START <= maddr[c]
    BY <1>k, <2>1, <2>2
  <2>5. Page(maddr[c]) \in mapped
    <3>1. maddr[c] < mm_top
      BY <1>1, <1>2, <1>k
    <3>2. Page(maddr[c]) \in Pages(mm_top)
      BY <1>2, <1>k, <2>4, <3>1, PageIn DEF Page
    <3> QED
      BY <1>t, <3>2 DEF Backed
  <2> QED
    BY <1>1, <1>2, <1>4, <2>1, <2>3, <2>4, <2>5
<1> QED
  BY <1>3, <1>4

(* The header of the new block is written.                                 *)
LEMMA WriteStep ==
  ASSUME Safe, NEW c \in Callers, write(c)
  PROVE  Safe' /\ UNCHANGED <<live, mapped>>
<1>t. Typed /\ Backed /\ Chained /\ Ending /\ Owned
  BY DEF Safe
<1>k. H \in Nat /\ H # 0 /\ V_MM_START \in Nat /\ V_MM_START # 0 /\ UintMod \in Nat
  BY HeapAssumption
<1>0. pc[c] = "write"
  BY DEF write, At
<1>1. /\ maddr[c] \in Nat /\ V_MM_START <= maddr[c] /\ maddr[c] + size[c] <= mm_top
      /\ size[c] \in H .. UintMod \div 2 - 1 /\ Ends(c)
      /\ \A y \in D : y < maddr[c] /\ y + hdr[y].length <= maddr[c]
      /\ Page(maddr[c]) \in mapped
      /\ prev[c] = NULL => first = maddr[c]
      /\ prev[c] # NULL => maddr[c] = prev[c] + hdr[prev[c]].length
  BY <1>0, Behind
<1>2. /\ hdr' = Write(hdr, maddr[c], NewHeader(c)) /\ pc' = [pc EXCEPT ![c] = "link"]
      /\ UNCHANGED <<first, mm_top, mapped, size, node, prev, maddr, live>>
  BY <1>1 DEF write, Goto, locals
<1>3. pc'[c] = "link" /\ Rest(c) /\ Appends(c)
  BY <1>t, <1>0, <1>2 DEF Typed, Rest, Appends
<1>4. Typed'
  BY <1>t, <1>2 DEF Typed, Growing
<1>5. /\ \A b \in Callers \ {c} : ~Appends(b) /\ pc[b] \notin Growing \cup {"link"}
      /\ \A b \in Callers : /\ pc[b] # "link" /\ (pc'[b] = "link" => b = c)
                            /\ pc[b] # "add" /\ pc'[b] # "add"
  <2>1. \A b \in Callers \ {c} : ~Appends(b) /\ pc[b] \notin Growing \cup {"link"}
    BY <1>3, Alone
  <2> QED
    BY <1>0, <1>3, <2>1 DEF Rest, Growing
<1>6. PICK a \in Nat : a = maddr[c] /\ a \notin D
  <2>1. maddr[c] \notin D
    BY <1>1
  <2> QED
    BY <1>1, <2>1
<1>7. D' = D \cup {a} /\ hdr'[a] = NewHeader(c) /\ \A y \in D : hdr'[y] = hdr[y]
  <2>1. \A y \in DOMAIN hdr : y # a
    BY <1>6 DEF D
  <2>2. hdr' = [y \in DOMAIN hdr \cup {a} |-> IF y = a THEN NewHeader(c) ELSE hdr[y]]
    BY <1>2, <1>6 DEF Write
  <2> QED
    BY <2>1, <2>2 DEF D
<1>8. /\ hdr'[a] \in Header /\ hdr'[a].used /\ hdr'[a].length = size[c]
      /\ hdr'[a].next = NULL /\ hdr'[a].prev = prev[c]
  <2>1. UintMod \div 2 \in Nat /\ prev[c] \in Nat
    BY <1>t, <1>k DEF Typed
  <2>2. Length(size[c]) = size[c]
    BY <1>1, <1>k, <2>1 DEF Length
  <2>3. size[c] \in 0 .. UintMod \div 2 - 1
    BY <1>1, <1>k, <2>1
  <2> QED
    BY <1>7, <2>1, <2>2, <2>3 DEF NewHeader, Header, NULL
<1>9. prev[c] = NULL <=> D = {}
  BY <1>1 DEF Ends, Last
<1>10. Chained'
  <2>1. ASSUME NEW x \in D'
        PROVE  /\ x \in Nat /\ hdr'[x] \in Header /\ hdr'[x].used /\ V_MM_START <= x
               /\ H <= hdr'[x].length /\ x + hdr'[x].length <= mm_top'
               /\ hdr'[x].next # NULL => /\ hdr'[x].next = x + hdr'[x].length
                                         /\ hdr'[x].next \in D' /\ hdr'[hdr'[x].next].prev = x
               /\ hdr'[x].prev = NULL <=> x = first'
    <3>1. CASE x = a
      <4>1. a = first <=> prev[c] = NULL
        <5>1. prev[c] # NULL => first \in D
          BY <1>t, <1>9 DEF Chained
        <5> QED
          BY <1>1, <1>6, <5>1
      <4> QED
        BY <1>1, <1>2, <1>6, <1>8, <3>1, <4>1
    <3>2. CASE x # a
      <4>1. x \in D /\ hdr'[x] = hdr[x]
        BY <1>7, <3>2
      <4>2. hdr[x].next # NULL => hdr[x].next \in D /\ hdr'[hdr[x].next] = hdr[hdr[x].next]
        BY <1>t, <1>7, <4>1 DEF Chained
      <4> QED
        BY <1>t, <1>2, <1>7, <4>1, <4>2 DEF Chained
    <3> QED
      BY <3>1, <3>2
  <2>2. ASSUME NEW x \in D', NEW y \in D', x < y PROVE x + hdr'[x].length <= y
    <3>1. x # a
      <4>1. y = a \/ (y \in Nat /\ y < a)
        BY <1>t, <1>1, <1>6, <1>7 DEF Chained
      <4> QED
        BY <1>6, <2>2, <4>1
    <3>2. x \in D /\ hdr'[x] = hdr[x]
      BY <1>7, <3>1
    <3>3. CASE y = a
      BY <1>1, <1>6, <3>2, <3>3
    <3>4. CASE y \in D
      BY <1>t, <2>2, <3>2, <3>4 DEF Chained
    <3> QED
      BY <1>7, <3>3, <3>4
  <2>3. first' \in D'
    <3>1. CASE D = {}
      BY <1>1, <1>2, <1>6, <1>7, <1>9, <3>1
    <3>2. CASE D # {}
      BY <1>t, <1>2, <1>7, <3>2 DEF Chained
    <3> QED
      BY <3>1, <3>2
  <2> QED
    BY <2>1, <2>2, <2>3 DEF Chained
<1>11. Ending'
  <2> SUFFICES ASSUME NEW x \in D', hdr'[x].next = NULL
               PROVE  Last(x)' \/ \E b \in Callers : pc'[b] = "link" /\ prev'[b] = x
    BY DEF Ending
  <2>1. CASE x = a
    <3>1. ASSUME NEW y \in D' PROVE y <= a
      <4>1. y = a \/ (y \in Nat /\ y < a)
        BY <1>t, <1>1, <1>6, <1>7 DEF Chained
      <4> QED
        BY <1>6, <4>1
    <3> QED
      BY <2>1, <3>1 DEF Last
  <2>2. CASE x # a
    <3>1. x \in D /\ hdr[x].next = NULL
      BY <1>7, <2>2
    <3>2. Last(x)
      BY <1>t, <1>5, <3>1 DEF Ending
    <3>3. Last(prev[c])
      BY <1>1, <1>9, <3>1 DEF Ends
    <3>4. x = prev[c]
      BY <1>t, <3>2, <3>3 DEF Last, Chained
    <3> QED
      BY <1>2, <1>3, <3>4
  <2> QED
    BY <2>1, <2>2
<1>12. Backed'
  BY <1>t, <1>2, <1>5 DEF Backed
<1>13. Owned'
  <2> SUFFICES ASSUME NEW b \in live'
               PROVE  \E x \in D' : /\ b = [obj |-> x + H, size |-> hdr'[x].length - H]
                                    /\ \A d \in Callers : pc'[d] = "link" => x # maddr'[d]
    BY DEF Owned
  <2>1. PICK x \in D : b = [obj |-> x + H, size |-> hdr[x].length - H]
    BY <1>t, <1>2 DEF Owned
  <2>2. x \in D' /\ hdr'[x] = hdr[x] /\ x # a
    BY <1>6, <1>7
  <2> QED
    BY <1>2, <1>5, <1>6, <2>1, <2>2
<1>14. ~Races'
  <2>1. \A b \in Callers : Appends(b)' => Appends(b)
    BY <1>2, <1>3 DEF Appends, Rest
  <2>2. \A b \in Callers : pc'[b] # "idle" => pc[b] # "idle"
    BY <1>0, <1>3 DEF Rest
  <2> QED
    BY <1>7, <2>1, <2>2, NoNewRace
<1>15. ASSUME NEW b \in Callers \ {c} PROVE Local(b)'
  BY <1>3, <1>5, <1>7, Bystander DEF Rest, Safe
<1>16. Local(c)'
  <2>1. Linked(c)'
    <3>1. CASE prev[c] = NULL
      BY <1>2, <1>6, <1>7, <1>8, <1>9, <3>1 DEF Linked
    <3>2. CASE prev[c] # NULL
      <4>1. prev[c] \in D /\ hdr[prev[c]].next = NULL /\ \A y \in D : y <= prev[c]
        BY <1>1, <3>2 DEF Ends, Last
      <4>2. prev[c] # a /\ hdr'[prev[c]] = hdr[prev[c]] /\ prev[c] \in D'
        BY <1>6, <1>7, <4>1
      <4>3. \A y \in D' : y = a \/ y <= prev[c]
        BY <1>7, <4>1
      <4> QED
        BY <1>1, <1>2, <1>6, <1>7, <1>8, <3>2, <4>1, <4>2, <4>3 DEF Linked
    <3> QED
      BY <3>1, <3>2
  <2> QED
    BY <1>1, <1>2, <1>3, <2>1 DEF Local, Growing
<1> QED
  BY <1>2, <1>4, <1>10, <1>11, <1>12, <1>13, <1>14, <1>15, <1>16 DEF Safe

(* The block a call is about to hand out.                                  *)
New(c) == [obj |-> maddr[c] + H, size |-> size[c] - H]

(* It lies behind a header no block handed out has, so it shares no byte   *)
(* with any of them, and in mapped pages.                                  *)
LEMMA Fresh ==
  ASSUME Safe, NEW c \in Callers, pc[c] = "link"
  PROVE  /\ New(c) \notin live
         /\ \A d \in live : A!Bytes(New(c)) \cap A!Bytes(d) = {}
         /\ A!Backing(New(c)) \subseteq mapped
<1>t. Typed /\ Backed /\ Chained /\ Owned /\ Local(c)
  BY DEF Safe
<1>k. H \in Nat /\ H # 0 /\ V_MM_START \in Nat /\ UintMod \in Nat
  BY HeapAssumption
<1>1. maddr[c] \in D /\ hdr[maddr[c]].length = size[c] /\ size[c] \in Nat /\ H <= size[c]
  BY <1>t, <1>k DEF Local, Linked, Typed
<1>2. PICK a \in Nat : a = maddr[c]
  BY <1>t DEF Typed
<1>3. PICK z \in Nat : z = size[c]
  BY <1>1
<1>4. V_MM_START <= a /\ a + z <= mm_top /\ mm_top \in Nat /\ H <= z
  BY <1>t, <1>1, <1>2, <1>3 DEF Chained, Backed
<1>5. New(c) = [obj |-> a + H, size |-> z - H]
  BY <1>2, <1>3 DEF New
<1>6. ASSUME NEW d \in live
      PROVE  d # New(c) /\ A!Bytes(New(c)) \cap A!Bytes(d) = {}
  <2>1. PICK x \in D : /\ d = [obj |-> x + H, size |-> hdr[x].length - H]
                       /\ \A b \in Callers : pc[b] = "link" => x # maddr[b]
    BY <1>t DEF Owned
  <2>2. x # a
    BY <1>2, <2>1
  <2>3. x \in Nat /\ hdr[x].length \in Nat /\ H <= hdr[x].length
    BY <1>t DEF Chained, Header
  <2>4. PICK l \in Nat : l = hdr[x].length /\ H <= l
    BY <2>3
  <2>5. x + l <= a \/ a + z <= x
    <3>1. x < a => x + l <= a
      BY <1>t, <1>1, <1>2, <2>4 DEF Chained
    <3>2. a < x => a + z <= x
      BY <1>t, <1>1, <1>2, <1>3 DEF Chained
    <3> QED
      BY <2>2, <2>3, <3>1, <3>2
  <2>6. d.obj = x + H /\ d.size = l - H /\ New(c).obj = a + H /\ New(c).size = z - H
    BY <1>5, <2>1, <2>4
  <2>7. d # New(c)
    BY <1>k, <2>2, <2>3, <2>6
  <2>8. A!Bytes(New(c)) = a + H .. (a + H) + (z - H) - 1 /\ A!Bytes(d) = x + H .. (x + H) + (l - H) - 1
    BY <2>6 DEF A!Bytes
  <2>9. ASSUME NEW y \in A!Bytes(New(c)), y \in A!Bytes(d) PROVE FALSE
    <3>0. y \in a + H .. (a + H) + (z - H) - 1 /\ y \in x + H .. (x + H) + (l - H) - 1
      BY <2>8, <2>9
    <3>1. y \in Int /\ a + H <= y /\ y < a + z /\ x + H <= y /\ y < x + l
      BY <1>k, <1>4, <2>3, <2>4, <3>0
    <3> QED
      BY <1>k, <2>3, <2>4, <2>5, <3>1
  <2> QED
    BY <2>7, <2>9
<1>7. A!Backing(New(c)) \subseteq mapped
  <2> SUFFICES ASSUME NEW x \in A!Bytes(New(c)) PROVE x - (x % PAGE_SIZE) \in mapped
    BY DEF A!Backing
  <2>1. x \in a + H .. (a + H) + (z - H) - 1
    BY <1>5 DEF A!Bytes
  <2>2. x \in Nat /\ V_MM_START <= x /\ x < mm_top
    BY <1>k, <1>4, <2>1
  <2>3. x - (x % PAGE_SIZE) \in Pages(mm_top)
    BY <1>4, <2>2, PageIn
  <2> QED
    BY <1>t, <2>3 DEF Backed
<1> QED
  BY <1>6, <1>7

(* The new header is linked, and the block handed out.                     *)
LEMMA LinkStep ==
  ASSUME Safe, NEW c \in Callers, link(c)
  PROVE  Safe' /\ live' = live \cup {New(c)} /\ UNCHANGED mapped
<1>t. Typed /\ Backed /\ Chained /\ Ending /\ Owned /\ Local(c)
  BY DEF Safe
<1>k. H \in Nat /\ H # 0 /\ V_MM_START \in Nat /\ V_MM_START # 0 /\ UintMod \in Nat
  BY HeapAssumption
<1>0. pc[c] = "link" /\ Appends(c)
  BY DEF link, At, Appends
<1>1. Linked(c) /\ size[c] \in H .. UintMod \div 2 - 1
  BY <1>t, <1>0 DEF Local
<1>2. /\ hdr' = IF prev[c] # NULL THEN Write(hdr, prev[c], [hdr[prev[c]] EXCEPT !.next = maddr[c]])
                                  ELSE hdr
      /\ live' = live \cup {[obj |-> maddr[c] + H, size |-> (size[c] + UintMod - H) % UintMod]}
      /\ pc' = [pc EXCEPT ![c] = "idle"]
      /\ size' = [size EXCEPT ![c] = 0] /\ node' = [node EXCEPT ![c] = NULL]
      /\ prev' = [prev EXCEPT ![c] = NULL] /\ maddr' = [maddr EXCEPT ![c] = NULL]
      /\ UNCHANGED <<first, mm_top, mapped>>
  BY DEF link, Return, Goto
<1>3. live' = live \cup {New(c)}
  <2>1. PICK z \in Nat : z = size[c] /\ H <= z /\ z - H \in 0 .. UintMod - 1
    BY <1>1, <1>k
  <2>2. UintMod \in Nat \ {0} /\ UintMod % UintMod = 0
    BY <1>k, <2>1
  <2>3. (UintMod + (z - H)) % UintMod = z - H
    BY <2>1, <2>2, ModSum
  <2>4. z + UintMod - H = UintMod + (z - H)
    BY <1>k, <2>1
  <2>5. (size[c] + UintMod - H) % UintMod = size[c] - H
    BY <2>1, <2>3, <2>4
  <2> QED
    BY <1>2, <2>5 DEF New
<1>4. pc'[c] = "idle" /\ Rest(c)
  BY <1>t, <1>2 DEF Typed, Rest
<1>5. Typed'
  BY <1>t, <1>2 DEF Typed, NULL
<1>6. /\ \A b \in Callers \ {c} : ~Appends(b) /\ pc[b] \notin Growing \cup {"link"}
      /\ \A b \in Callers : pc[b] # "add" /\ pc'[b] # "add" /\ pc'[b] # "link" /\ pc[b] \notin Growing
  <2>1. \A b \in Callers \ {c} : ~Appends(b) /\ pc[b] \notin Growing \cup {"link"}
    BY <1>0, Alone
  <2> QED
    BY <1>0, <1>4, <2>1 DEF Rest, Growing
<1>7. PICK a \in D : a = maddr[c]
  BY <1>1 DEF Linked
<1>8. PICK p \in Nat : p = prev[c]
  BY <1>t DEF Typed
<1>9. /\ a \in Nat /\ V_MM_START <= a /\ hdr[a].next = NULL /\ hdr[a].prev = p /\ hdr[a].length = size[c]
      /\ p = NULL => D = {a}
      /\ p # NULL => /\ p \in D /\ p # a /\ hdr[p].next = NULL /\ a = p + hdr[p].length
                     /\ \A y \in D : y = a \/ y <= p
  BY <1>t, <1>1, <1>7, <1>8 DEF Linked, Chained
<1>10. /\ D' = D /\ \A y \in D : /\ y # p => hdr'[y] = hdr[y]
                                 /\ y = p => hdr'[y] = [hdr[y] EXCEPT !.next = a]
  <2>1. CASE p = NULL
    <3>1. hdr' = hdr
      BY <1>2, <1>8, <2>1
    <3>2. \A y \in D : y # p
      BY <1>t, <1>k, <2>1 DEF Chained, NULL
    <3> QED
      BY <3>1, <3>2 DEF D
  <2>2. CASE p # NULL
    <3>1. hdr' = [y \in DOMAIN hdr \cup {p} |-> IF y = p THEN [hdr[p] EXCEPT !.next = a] ELSE hdr[y]]
      BY <1>2, <1>7, <1>8, <2>2 DEF Write
    <3>2. p \in DOMAIN hdr
      BY <1>9, <2>2 DEF D
    <3>3. D' = D
      BY <3>1, <3>2 DEF D
    <3> QED
      BY <3>1, <3>3 DEF D
  <2> QED
    BY <2>1, <2>2
<1>11. \A y \in D : /\ hdr[y] \in Header
                    /\ hdr'[y] \in Header /\ hdr'[y].used = hdr[y].used
                    /\ hdr'[y].length = hdr[y].length /\ hdr'[y].prev = hdr[y].prev
                    /\ hdr'[y].next = IF y = p THEN a ELSE hdr[y].next
  <2> SUFFICES ASSUME NEW y \in D
               PROVE  /\ hdr[y] \in Header
                      /\ hdr'[y] \in Header /\ hdr'[y].used = hdr[y].used
                      /\ hdr'[y].length = hdr[y].length /\ hdr'[y].prev = hdr[y].prev
                      /\ hdr'[y].next = IF y = p THEN a ELSE hdr[y].next
    OBVIOUS
  <2>1. hdr[y] \in Header
    BY <1>t DEF Chained
  <2>2. CASE y = p
    BY <1>9, <1>10, <2>1, <2>2 DEF Header
  <2>3. CASE y # p
    BY <1>10, <2>1, <2>3
  <2> QED
    BY <2>1, <2>2, <2>3
<1>12. Chained'
  <2>1. ASSUME NEW x \in D'
        PROVE  /\ x \in Nat /\ hdr'[x] \in Header /\ hdr'[x].used /\ V_MM_START <= x
               /\ H <= hdr'[x].length /\ x + hdr'[x].length <= mm_top'
               /\ hdr'[x].next # NULL => /\ hdr'[x].next = x + hdr'[x].length
                                         /\ hdr'[x].next \in D' /\ hdr'[hdr'[x].next].prev = x
               /\ hdr'[x].prev = NULL <=> x = first'
    <3>1. x \in D /\ mm_top' = mm_top /\ first' = first
      BY <1>2, <1>10
    <3>2. /\ x \in Nat /\ hdr'[x] \in Header /\ hdr'[x].used /\ V_MM_START <= x
          /\ H <= hdr'[x].length /\ x + hdr'[x].length <= mm_top'
          /\ hdr'[x].prev = NULL <=> x = first'
      BY <1>t, <1>11, <3>1 DEF Chained
    <3>3. CASE x = p
      <4>1. p # NULL
        BY <1>k, <3>2, <3>3 DEF NULL
      <4>2. hdr'[x].next = a /\ hdr'[a].prev = p /\ a = p + hdr'[p].length
        BY <1>9, <1>11, <3>1, <3>3, <4>1
      <4> QED
        BY <1>10, <3>2, <3>3, <4>2
    <3>4. CASE x # p
      <4>1. hdr'[x].next = hdr[x].next /\ hdr'[x].length = hdr[x].length
        BY <1>11, <3>1, <3>4
      <4>2. hdr[x].next # NULL => /\ hdr[x].next = x + hdr[x].length
                                  /\ hdr[x].next \in D /\ hdr[hdr[x].next].prev = x
        BY <1>t, <3>1 DEF Chained
      <4>3. hdr[x].next # NULL => hdr'[hdr[x].next].prev = x
        BY <1>11, <4>2
      <4> QED
        BY <1>10, <3>2, <4>1, <4>2, <4>3
    <3> QED
      BY <3>3, <3>4
  <2>2. ASSUME NEW x \in D', NEW y \in D', x < y PROVE x + hdr'[x].length <= y
    BY <1>t, <1>10, <1>11, <2>2 DEF Chained
  <2>3. first' \in D'
    BY <1>t, <1>2, <1>7, <1>10 DEF Chained
  <2> QED
    BY <2>1, <2>2, <2>3 DEF Chained
<1>13. Ending'
  <2> SUFFICES ASSUME NEW x \in D', hdr'[x].next = NULL
               PROVE  Last(x)'
    BY DEF Ending
  <2>1. x \in D /\ x # p /\ hdr[x].next = NULL
    BY <1>9, <1>10, <1>11, <1>k DEF NULL
  <2>2. Last(x)
    BY <1>t, <1>0, <1>6, <1>8, <2>1 DEF Ending
  <2> QED
    BY <1>10, <2>2 DEF Last
<1>14. Backed'
  BY <1>t, <1>2, <1>6 DEF Backed
<1>15. Owned'
  <2> SUFFICES ASSUME NEW b \in live'
               PROVE  \E x \in D' : b = [obj |-> x + H, size |-> hdr'[x].length - H]
    BY <1>6 DEF Owned
  <2>1. CASE b \in live
    <3>1. PICK x \in D : b = [obj |-> x + H, size |-> hdr[x].length - H]
      BY <1>t, <2>1 DEF Owned
    <3> QED
      BY <1>10, <1>11, <3>1
  <2>2. CASE b = New(c)
    BY <1>7, <1>9, <1>10, <1>11, <2>2 DEF New
  <2> QED
    BY <1>3, <2>1, <2>2
<1>16. ~Races'
  <2>1. \A b \in Callers : Appends(b)' => Appends(b)
    BY <1>0, <1>4 DEF Appends, Rest
  <2>2. \A b \in Callers : pc'[b] # "idle" => pc[b] # "idle"
    BY <1>0, <1>4 DEF Rest
  <2> QED
    BY <1>10, <2>1, <2>2, NoNewRace
<1>17. ASSUME NEW b \in Callers \ {c} PROVE Local(b)'
  BY <1>4, <1>6, <1>10, Bystander DEF Rest, Safe
<1>18. Local(c)'
  BY <1>4 DEF Local, Growing
<1> QED
  BY <1>2, <1>3, <1>5, <1>12, <1>13, <1>14, <1>15, <1>16, <1>17, <1>18 DEF Safe

(* A step of a call keeps Safe and is a step of the abstract allocator.    *)
LEMMA WorkStep ==
  ASSUME Safe, ~spoilt', NEW c \in Callers, Work(c)
  PROVE  Safe' /\ (A!Alloc \/ A!Map)
<1>1. CASE scan(c)
  BY <1>1, ScanStep DEF A!Map
<1>2. CASE scan_end(c)
  BY <1>2, ScanEndStep DEF A!Map
<1>3. CASE extend(c)
  BY <1>3, ExtendStep DEF A!Map
<1>4. CASE map_page(c)
  BY <1>4, MapStep DEF A!Map
<1>5. CASE add_page(c)
  BY <1>5, AddStep DEF A!Map
<1>6. CASE write(c)
  BY <1>6, WriteStep DEF A!Map
<1>7. CASE link(c)
  <2>1. Safe' /\ live' = live \cup {New(c)} /\ UNCHANGED mapped
    BY <1>7, LinkStep
  <2>2. /\ New(c) \notin live
        /\ \A d \in live : A!Bytes(New(c)) \cap A!Bytes(d) = {}
        /\ A!Backing(New(c)) \subseteq mapped
    BY <1>7, Fresh DEF link, At
  <2>3. New(c) \in live' \ live
    BY <2>1, <2>2
  <2>4. A!Alloc
    BY <2>1, <2>2, <2>3 DEF A!Alloc
  <2> QED
    BY <2>1, <2>4
<1> QED
  BY <1>1, <1>2, <1>3, <1>4, <1>5, <1>6, <1>7 DEF Work

(* Once the heap is spoilt it stays so; until then every step keeps Safe   *)
(* and is a step of the abstract allocator.                                *)
LEMMA Steps ==
  ASSUME IInv, Next
  PROVE  spoilt' \in BOOLEAN /\ (spoilt => spoilt') /\ (~spoilt' => Safe' /\ (A!Alloc \/ A!Map))
<1>1. PICK c \in Callers : Work(c) \/ \E s \in Sizes : kmalloc(c, s)
  BY DEF Next
<1>2. spoilt' \in BOOLEAN /\ (spoilt => spoilt')
  <2>0. spoilt \in BOOLEAN
    BY DEF IInv
  <2>1. \A s \in Sizes : kmalloc(c, s) => spoilt' \in BOOLEAN /\ (spoilt => spoilt')
    BY <2>0 DEF kmalloc
  <2>2. scan(c) => spoilt' \in BOOLEAN /\ (spoilt => spoilt')
    BY <2>0 DEF scan
  <2>3. scan_end(c) => spoilt' \in BOOLEAN /\ (spoilt => spoilt')
    BY <2>0 DEF scan_end
  <2>4. extend(c) \/ map_page(c) \/ add_page(c) \/ write(c) \/ link(c) => spoilt' = spoilt
    BY DEF extend, map_page, add_page, write, link
  <2> QED
    BY <1>1, <2>0, <2>1, <2>2, <2>3, <2>4 DEF Work
<1>3. ASSUME ~spoilt' PROVE Safe' /\ (A!Alloc \/ A!Map)
  <2>1. Safe
    BY <1>2, <1>3 DEF IInv
  <2>2. CASE Work(c)
    BY <1>3, <2>1, <2>2, WorkStep
  <2>3. ASSUME NEW s \in Sizes, kmalloc(c, s) PROVE Safe' /\ A!Map
    BY <1>3, <2>1, <2>3, KmallocStep DEF kmalloc, heap, A!Map
  <2> QED
    BY <1>1, <2>2, <2>3
<1> QED
  BY <1>2, <1>3

(* A stuttering step keeps the invariant.                                  *)
LEMMA Stutter ==
  ASSUME IInv, UNCHANGED vars
  PROVE  IInv'
<1>0. /\ first' = first /\ mm_top' = mm_top /\ hdr' = hdr /\ mapped' = mapped
      /\ pc' = pc /\ size' = size /\ node' = node /\ prev' = prev /\ maddr' = maddr
      /\ live' = live /\ spoilt' = spoilt
  BY DEF vars, heap, locals
<1>1. Typed' = Typed /\ Chained' = Chained /\ Ending' = Ending /\ Backed' = Backed /\ Owned' = Owned
  BY <1>0 DEF Typed, Chained, Ending, Last, Backed, Owned, D
<1>2. Races' = Races
  BY <1>0 DEF Races, Appends
<1>3. \A c \in Callers : Local(c)' = Local(c)
  BY <1>0 DEF Local, Linked, Ends, Last, Place, D
<1> QED
  BY <1>0, <1>1, <1>2, <1>3 DEF IInv, Safe

(* IInv is inductive: nothing kmalloc does breaks the list, the mapping or *)
(* the blocks handed out, before the heap is spoilt.                       *)
THEOREM Invariance == Spec => []IInv
<1>1. IInv /\ [Next]_vars => IInv'
  <2> SUFFICES ASSUME IInv, [Next]_vars PROVE IInv'
    OBVIOUS
  <2>1. CASE Next
    BY <2>1, Steps DEF IInv
  <2>2. CASE UNCHANGED vars
    BY <2>2, Stutter
  <2> QED
    BY <2>1, <2>2
<1> QED
  BY InitInv, <1>1, PTL DEF Spec

(* No header lies in what a caller of kmalloc may write, and no call reads *)
(* a header where none has been written, although `first' is set before    *)
(* the header it points to.                                                *)
THEOREM HeaderSafety == Spec => []HeadersSafe
<1>1. IInv => HeadersSafe
  <2> SUFFICES ASSUME IInv, ~spoilt
               PROVE  /\ \A b \in live : \A x \in DOMAIN hdr : x + H <= b.obj \/ b.obj + b.size <= x
                      /\ \A c \in Callers : pc[c] \notin {"fault", "wild"}
    BY DEF HeadersSafe
  <2>1. Typed /\ Chained /\ Owned /\ H \in Nat
    BY HeapAssumption DEF IInv, Safe
  <2>2. ASSUME NEW b \in live, NEW x \in D PROVE x + H <= b.obj \/ b.obj + b.size <= x
    <3>1. PICK y \in D : b = [obj |-> y + H, size |-> hdr[y].length - H]
      BY <2>1 DEF Owned
    <3>2. x \in Nat /\ y \in Nat /\ hdr[y].length \in Nat /\ hdr[x].length \in Nat /\ H <= hdr[x].length
      BY <2>1 DEF Chained, Header
    <3>3. PICK l \in Nat : l = hdr[y].length
      BY <3>2
    <3>4. b.obj = y + H /\ b.size = l - H
      BY <3>1, <3>3
    <3>5. y < x => y + l <= x
      BY <2>1, <3>3 DEF Chained
    <3> QED
      BY <2>1, <3>2, <3>4, <3>5
  <2>3. \A c \in Callers : pc[c] \notin {"fault", "wild"}
    BY <2>1 DEF Typed, Growing
  <2> QED
    BY <2>2, <2>3 DEF D
<1> QED
  BY Invariance, <1>1, PTL

(* Between appends the headers tile the heap, forwards and backwards, and  *)
(* exactly the pages below mm_top are mapped.                              *)
THEOREM TileSafety == Spec => []Tiled
<1>1. IInv => Tiled
  <2> SUFFICES ASSUME IInv, ~spoilt, \A c \in Callers : ~Appends(c) PROVE Tiled
    BY DEF Tiled
  <2>1. Chained /\ Backed
    BY DEF IInv, Safe
  <2>2. \A c \in Callers : pc[c] \notin Growing /\ pc[c] # "add"
    BY DEF Appends, Growing
  <2>3. first \in DOMAIN hdr \cup {NULL}
    BY <2>1, <2>2 DEF Chained, D
  <2>4. mapped = {x \in V_MM_START .. mm_top - 1 : x % PAGE_SIZE = 0}
    BY <2>1, <2>2 DEF Backed, Pages
  <2>5. ASSUME NEW x \in DOMAIN hdr
        PROVE  /\ hdr[x].used /\ x + hdr[x].length <= mm_top
               /\ hdr[x].next # NULL => /\ hdr[x].next = x + hdr[x].length /\ hdr[x].next \in DOMAIN hdr
                                        /\ hdr[hdr[x].next].prev = x
               /\ hdr[x].prev = NULL <=> x = first
    BY <2>1 DEF Chained, D
  <2> QED
    BY <2>3, <2>4, <2>5 DEF Tiled
<1> QED
  BY Invariance, <1>1, PTL

(* kmalloc implements the allocator: each call hands out mapped memory     *)
(* that shares no byte with a block handed out before, also when calls     *)
(* overlap in their searches, until the heap is spoilt.                    *)
THEOREM Refinement == Spec => Allocates
<1>1. Init => A!Init
  BY DEF Init, A!Init
<1>2. IInv /\ [Next]_vars => [A!Next]_<<live, mapped, spoilt>>
  <2> SUFFICES ASSUME IInv, [Next]_vars PROVE [A!Next]_<<live, mapped, spoilt>>
    OBVIOUS
  <2>1. CASE Next
    <3>1. spoilt' \in BOOLEAN /\ (spoilt => spoilt') /\ (~spoilt' => A!Alloc \/ A!Map)
      BY <2>1, Steps
    <3> QED
      BY <3>1 DEF A!Next
  <2>2. CASE UNCHANGED vars
    BY <2>2 DEF vars, heap
  <2> QED
    BY <2>1, <2>2
<1> QED
  BY Invariance, <1>1, <1>2, PTL DEF Spec, Allocates, A!Spec
=============================================================================
