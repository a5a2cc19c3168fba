---------------------------- MODULE MemoryProofs ----------------------------
(***************************************************************************)
(* Proofs about Memory, for any number of callers, frames, directories and *)
(* slots.  Frames move between four places: the free stack, the directory, *)
(* the pages in use and the hand of a call.  Five steps move one; the      *)
(* others leave every frame where it is (SameRoles).                       *)
(***************************************************************************)
EXTENDS Memory, TLAPS

Unmapping(c) == pc[c] \in {"u_pte", "u_invlpg"}
Mapping(c)   == \/ pc[c] \in {"m_pgd", "m_set", "m_memset", "m_pte", "m_invlpg"}
                \/ Popping(c) /\ ret[c] = "table"

(* As init_page leaves it: no call runs, nothing is mapped, and the frames *)
(* below page_addr lie on the stack in order.                              *)
Fresh ==
  /\ \A c \in Callers : pc[c] = "idle"
  /\ top = page_addr - FirstFrame
  /\ \A i \in 1 .. top : stack[i] = FirstFrame + i - 1
  /\ \A d \in Dirs : pgd[d] = 0
  /\ \A v \in Pages : tlb[v] = 0
  /\ own = {} /\ ~raced /\ ~freed

(* Boot never panics, and until it is over nothing but init_page has run.  *)
Booting ==
  /\ boot # "panic" /\ page_addr \in FirstFrame .. MaxFrames + 1
  /\ boot # "up" => Fresh

(* No two calls work on one page, and none works on a page in use.         *)
Distinct ==
  /\ \A c \in Callers : ~Idle(c) => va[c] \in Pages \ own
  /\ \A b, c \in Callers : ~Idle(b) /\ ~Idle(c) /\ va[b] = va[c] => b = c

(* A call that has taken no frame holds none, and frames are given back    *)
(* only by calls that began with get_mapping.                              *)
Locals == \A c \in Callers :
  /\ Idle(c) => page[c] = 0 /\ ret[c] = "page"
  /\ Popping(c) /\ ret[c] = "page" => page[c] = 0
  /\ Unmapping(c) \/ Pushing(c) => freed

(* What OneRole, TlbSafe and NoLeak assume of the past.                    *)
Quiet == ~raced /\ InReach

(* The local copy of _top agrees with _top, and stays inside _stack.       *)
Stacked ==
  /\ top <= MaxFrames
  /\ \A c \in Callers :
       /\ pc[c] \in {"a_load", "a_store"} => top # 0
       /\ pc[c] = "a_store" => t[c] = top
       /\ pc[c] = "a_read"  => t[c] = top + 1 /\ top < MaxFrames
       /\ pc[c] \in {"f_load", "f_store"} => top < MaxFrames
       /\ pc[c] = "f_store" => t[c] = top + 1
       /\ pc[c] = "f_write" => top # 0

(* No call is off the direct map, and the locals hold real frames: a page  *)
(* and a table taken by one call are two frames.                           *)
Filled == \A c \in Callers :
  /\ pc[c] # "astray"
  /\ Mapping(c) \/ Unmapping(c) \/ Pushing(c) => page[c] # 0
  /\ pc[c] = "a_read" => stack[t[c]] \notin {0, page[c]}
  /\ pc[c] = "m_set" => tab[c] \notin {0, page[c]}

(* A call past the test of the directory entry works on the table that is  *)
(* entered there, and a table that is still to be cleared has no page in   *)
(* use, being completed or being taken away.                               *)
Entered ==
  /\ \A v \in own : pgd[Dir(v)] # 0
  /\ \A c \in Callers :
       /\ pc[c] \in {"m_memset", "m_pte", "m_invlpg"} => tab[c] # 0 /\ pgd[Dir(va[c])] = tab[c]
       /\ pc[c] = "m_invlpg" => pt[tab[c]][Slot(va[c])] = page[c]
       /\ Unmapping(c) => pgd[Dir(va[c])] # 0
       /\ pc[c] = "m_memset" =>
            /\ \A v \in own : Dir(v) # Dir(va[c])
            /\ \A b \in Callers : pc[b] = "m_invlpg" \/ Unmapping(b) => Dir(va[b]) # Dir(va[c])

(* What the TLB holds is the entry of a page in use, or of one that a call *)
(* is taking away and has not flushed yet.                                 *)
Cached == \A v \in Pages : tlb[v] # 0 =>
  \/ v \in own /\ tlb[v] = Walk(v)
  \/ \E c \in Callers : Unmapping(c) /\ va[c] = v /\ tlb[v] = page[c]

(* The body of OneRole.                                                    *)
Roles ==
  /\ \A i, j \in 1 .. FreeTop : stack[i] = stack[j] => i = j
  /\ \A d, e \in Dirs : pgd[d] = pgd[e] /\ pgd[d] # 0 => d = e
  /\ \A v, w \in own : Walk(v) = Walk(w) => v = w
  /\ \A b, c \in Callers : Held(b) \cap Held(c) # {} => b = c
  /\ Free \cap Tables = {} /\ Mapped \cap (Free \cup Tables) = {}
  /\ InHand \cap (Free \cup Tables \cup Mapped) = {}
  /\ 0 \notin Free \cup Mapped

(* The body of NoLeak.                                                     *)
Kept == Free \cup Tables \cup Mapped \cup InHand = FirstFrame .. page_addr - 1

(* All of it, which holds as long as the past is Quiet.                    *)
Safe == Stacked /\ Filled /\ Entered /\ Cached /\ Roles /\ Kept

(* Races are recorded, and a directory entry found absent stays absent     *)
(* until the call that found it so enters its table.                       *)
Apart == ~raced =>
  /\ ~Races
  /\ \A c \in Callers :
       pc[c] = "m_set" \/ (Popping(c) /\ ret[c] = "table") => pgd[Dir(va[c])] = 0

(* A call that has a frame of the stack, or is about to read it.           *)
Taken(c) == \/ pc[c] \in {"a_read", "m_pgd", "m_set", "m_memset", "m_pte", "m_invlpg"}
            \/ Popping(c) /\ ret[c] = "table"

(* Until a page is given back the stack is as init_page left it, below     *)
(* _top; a call that takes a table has taken a page before.                *)
Pristine == ~raced /\ ~freed =>
  /\ InReach
  /\ \A i \in 1 .. page_addr - FirstFrame : stack[i] = FirstFrame + i - 1
  /\ top <= page_addr - FirstFrame
  /\ \A c \in Callers :
       /\ Taken(c) => top < page_addr - FirstFrame
       /\ pc[c] = "a_read" => t[c] <= page_addr - FirstFrame
       /\ pc[c] = "a_read" /\ ret[c] = "table" => t[c] < page_addr - FirstFrame
       /\ pc[c] = "m_set" => Direct(tab[c])

(* The inductive invariant.                                                *)
IInv == TypeOK /\ Booting /\ Distinct /\ Locals /\ Apart /\ (Quiet => Safe) /\ Pristine

-----------------------------------------------------------------------------
(* A page is its two indices.                                              *)
LEMMA PageFacts ==
  /\ \A v \in Pages : Dir(v) \in Dirs /\ Slot(v) \in Slots
  /\ \A v, w \in Pages : Dir(v) = Dir(w) /\ Slot(v) = Slot(w) => v = w
BY DEF Pages, Dir, Slot

(* uint32_t arithmetic.                                                    *)
LEMMA ModType ==
  ASSUME NEW a \in Nat
  PROVE  a % UintMod \in 0 .. UintMod - 1
BY MemAssumption

(* Lowering an index that is not zero.                                     *)
LEMMA ModLower ==
  ASSUME NEW a \in 1 .. UintMod - 1
  PROVE  (a + UintMod - 1) % UintMod = a - 1
BY MemAssumption

(* Raising an index below its bound.                                       *)
LEMMA ModRaise ==
  ASSUME NEW a \in 0 .. UintMod - 2
  PROVE  (a + 1) % UintMod = a + 1
BY MemAssumption

(* The part of the invariant that holds whether or not calls race.        *)
Base == TypeOK /\ Booting /\ Distinct /\ Locals

(* The initial state has the unconditional part of the invariant.          *)
LEMMA InitBase == Init => Base
<1> SUFFICES ASSUME Init PROVE Base
  OBVIOUS
<1> USE MemAssumption
<1>1. TypeOK
  <2>1. pt \in [0 .. MaxFrames -> [Slots -> 0 .. MaxFrames]]
    BY DEF Init, Junk
  <2>2. stack \in [0 .. MaxFrames -> 0 .. MaxFrames] /\ top \in 0 .. UintMod - 1
    BY DEF Init
  <2>3. pgd \in [Dirs -> 0 .. MaxFrames] /\ tlb \in [Pages -> 0 .. MaxFrames]
    BY DEF Init
  <2>4. t \in [Callers -> 0 .. UintMod - 1]
    BY DEF Init
  <2>5. page \in [Callers -> 0 .. MaxFrames] /\ tab \in [Callers -> 0 .. MaxFrames]
    BY DEF Init
  <2>6. boot \in {"init_page", "init_vmm", "up", "panic"} /\ page_addr \in Nat
    BY DEF Init
  <2> QED
    BY <2>1, <2>2, <2>3, <2>4, <2>5, <2>6 DEF Init, TypeOK
<1>2. Booting
  BY DEF Init, Booting, Fresh
<1>3. Distinct /\ Locals
  BY DEF Init, Distinct, Locals, Idle, Popping, Pushing, Unmapping
<1> QED
  BY <1>1, <1>2, <1>3 DEF Base

(* The boot steps keep it: init_page stays inside _stack although its loop *)
(* runs to MEMORY_MAX_SIZE inclusive.                                      *)
LEMMA Base_init ==
  ASSUME Base, init_page \/ init_vmm
  PROVE  Base'
<1> USE MemAssumption DEF Base
<1>1. CASE init_page
  <2>0. (Distinct /\ Locals)'
    BY <1>1 DEF init_page, frame, Distinct, Locals, Idle, Popping, Pushing, Unmapping
  <2>1. CASE InRegion
    <3>1. /\ top \in 0 .. MaxFrames - 1 /\ page_addr \in FirstFrame .. MaxFrames
          /\ top = page_addr - FirstFrame
      BY <1>1, <2>1 DEF init_page, InRegion, TypeOK, Booting, Fresh
    <3>2. /\ top' = top + 1 /\ page_addr' = page_addr + 1 /\ boot' = "init_page"
          /\ UNCHANGED <<pgd, pt, tlb, pc, own, va, t, ret, page, tab, raced, freed>>
      BY <1>1, <2>1, <3>1 DEF init_page, hw, frame, Found
    <3>a. stack' = [stack EXCEPT ![top + 1] = page_addr]
      BY <1>1, <2>1, <3>1 DEF init_page, Found
    <3>3. stack' \in [0 .. MaxFrames -> 0 .. MaxFrames]
      BY <3>1, <3>a, SMTT(30) DEF TypeOK
    <3>4. TypeOK'
      <4>1. top' \in 0 .. UintMod - 1 /\ page_addr' \in Nat
        BY <3>1, <3>2
      <4> QED
        BY <4>1, <3>2, <3>3 DEF TypeOK
    <3>5. \A i \in 1 .. top + 1 : stack'[i] = FirstFrame + i - 1
      <4>1. \A i \in 1 .. top : stack[i] = FirstFrame + i - 1
        BY <1>1 DEF Booting, Fresh, init_page
      <4> QED
        <5> TAKE i \in 1 .. top + 1
        <5>1. i \in DOMAIN stack
          BY <3>1 DEF TypeOK
        <5>2. CASE i = top + 1
          BY <5>1, <5>2, <3>1, <3>a
        <5>3. CASE i # top + 1
          <6>1. i \in 1 .. top /\ stack'[i] = stack[i]
            BY <5>1, <5>3, <3>1, <3>a
          <6> QED
            BY <6>1, <4>1
        <5> QED
          BY <5>2, <5>3
    <3>6. Booting'
      BY <3>1, <3>2, <3>5, <1>1 DEF Booting, Fresh, init_page
    <3> QED
      BY <2>0, <3>4, <3>6
  <2>2. CASE ~InRegion
    <3>1. TypeOK'
      BY <1>1, <2>2 DEF TypeOK, init_page, hw, frame
    <3>2. Booting'
      BY <1>1, <2>2 DEF Booting, Fresh, init_page, hw, frame
    <3> QED
      BY <2>0, <3>1, <3>2
  <2> QED
    BY <2>1, <2>2
<1>2. CASE init_vmm
  <2> USE <1>2 DEF init_vmm, hw, frame
  <2>1. TypeOK'
    BY DEF TypeOK, Booting, Fresh
  <2>2. Booting'
    BY DEF TypeOK, Booting, Fresh
  <2>3. (Distinct /\ Locals)'
    BY DEF Distinct, Locals, Idle, Popping, Pushing, Unmapping
  <2> QED
    BY <2>1, <2>2, <2>3
<1> QED
  BY <1>1, <1>2

(* The frame a walk gives is one the type allows.                          *)
LEMMA WalkType ==
  ASSUME TypeOK, NEW v \in Pages
  PROVE  Walk(v) \in 0 .. MaxFrames
BY PageFacts DEF TypeOK, Walk

(* A write to a page in use keeps it.                                      *)
LEMMA Base_Access ==
  ASSUME Base, NEW v \in Pages, Access(v)
  PROVE  Base'
<1> USE MemAssumption DEF Base
<1>1. TypeOK'
  <2> DEFINE f == IF tlb[v] # 0 THEN tlb[v] ELSE Walk(v)
  <2>1. f \in 0 .. MaxFrames
    BY WalkType DEF TypeOK
  <2>2. /\ tlb' = [tlb EXCEPT ![v] = f] /\ pt' = [pt EXCEPT ![f] = Junk]
        /\ UNCHANGED <<stack, top, pgd, boot, page_addr, pc, own, va, t, ret, page, tab, raced, freed>>
    BY DEF Access, booted, frame
  <2>3. Junk \in [Slots -> 0 .. MaxFrames]
    BY DEF Junk
  <2> HIDE DEF f
  <2> QED
    BY <2>1, <2>2, <2>3 DEF TypeOK
<1>2. Booting'
  BY DEF Booting, Fresh, TypeOK, Access, booted
<1>3. (Distinct /\ Locals)'
  BY DEF Access, frame, Distinct, Locals, Idle, Popping, Pushing, Unmapping
<1> QED
  BY <1>1, <1>2, <1>3

(* A call that begins takes a page no other call works on.                 *)
LEMMA Base_enter ==
  ASSUME Base, NEW c \in Callers, NEW v \in Pages,
         grow(c, v) \/ get_mapping(c, v), raced' \in BOOLEAN
  PROVE  Base'
<1> USE MemAssumption DEF Base, booted, hw, At, Goto
<1>1. CASE grow(c, v)
  <2> USE <1>1 DEF grow
  <2>1. TypeOK'
    BY DEF TypeOK
  <2>2. Booting'
    BY DEF Booting, Fresh, TypeOK
  <2>3. Distinct'
    BY DEF Distinct, TypeOK, Idle, Busy
  <2>4. Locals'
    BY DEF Locals, TypeOK, Idle, Popping, Pushing, Unmapping
  <2> QED
    BY <2>1, <2>2, <2>3, <2>4
<1>2. CASE get_mapping(c, v)
  <2> USE <1>2 DEF get_mapping
  <2>0. PICK f \in 0 .. MaxFrames : page' = [page EXCEPT ![c] = f]
    BY WalkType DEF TypeOK
  <2>1. TypeOK'
    BY <2>0 DEF TypeOK
  <2>2. Booting'
    BY DEF Booting, Fresh, TypeOK
  <2>3. Distinct'
    <3>1. /\ pc' = [pc EXCEPT ![c] = "u_pte"] /\ va' = [va EXCEPT ![c] = v]
          /\ own' = own \ {v} /\ v \in Pages
          /\ DOMAIN pc = Callers /\ DOMAIN va = Callers
      BY DEF TypeOK
    <3>2. va'[c] = v /\ va'[c] \in Pages \ own'
      BY <3>1
    <3>3. ASSUME NEW b \in Callers, b # c, ~Idle(b)'
          PROVE  va'[b] = va[b] /\ ~Idle(b) /\ va'[b] \in Pages \ own' /\ va'[b] # v
      <4>1. va'[b] = va[b] /\ ~Idle(b)
        BY <3>1, <3>3 DEF Idle
      <4> QED
        BY <3>1, <4>1 DEF Distinct
    <3>4. ASSUME NEW a \in Callers, NEW b \in Callers, ~Idle(a)', ~Idle(b)', va'[a] = va'[b]
          PROVE  a = b
      <4>1. CASE a = c \/ b = c
        BY <3>2, <3>3, <3>4, <4>1
      <4>2. CASE a # c /\ b # c
        BY <3>3, <3>4, <4>2 DEF Distinct
      <4> QED
        BY <4>1, <4>2
    <3> QED
      BY <3>2, <3>3, <3>4 DEF Distinct
  <2>4. Locals'
    BY DEF Locals, TypeOK, Idle, Popping, Pushing, Unmapping
  <2> QED
    BY <2>1, <2>2, <2>3, <2>4
<1> QED
  BY <1>1, <1>2

(* The steps of alloc_page keep it, whatever _top holds after a race.      *)
LEMMA Base_alloc_page ==
  ASSUME Base, NEW c \in Callers, alloc_page(c), UNCHANGED freed, raced' \in BOOLEAN
  PROVE  Base'
<1> USE MemAssumption DEF Base, booted, hw, frame, At, Goto
<1>1. CASE a_assert(c)
  <2> USE <1>1 DEF a_assert
  <2>1. TypeOK' /\ Booting'
    BY DEF TypeOK, Booting, Fresh
  <2>2. Distinct'
    BY DEF Distinct, TypeOK, Idle
  <2>3. Locals'
    BY DEF Locals, TypeOK, Idle, Popping, Pushing, Unmapping
  <2> QED
    BY <2>1, <2>2, <2>3
<1>2. CASE a_load(c)
  <2> USE <1>2 DEF a_load
  <2>1. TypeOK' /\ Booting'
    BY DEF TypeOK, Booting, Fresh
  <2>2. Distinct'
    BY DEF Distinct, TypeOK, Idle
  <2>3. Locals'
    BY DEF Locals, TypeOK, Idle, Popping, Pushing, Unmapping
  <2> QED
    BY <2>1, <2>2, <2>3
<1>3. CASE a_store(c)
  <2> USE <1>3 DEF a_store
  <2>0. Lowered(c) \in 0 .. UintMod - 1
    <3>1. t[c] + UintMod - 1 \in Nat
      BY SMTT(30) DEF TypeOK
    <3> QED
      BY <3>1, ModType DEF Lowered
  <2>1. TypeOK'
    BY <2>0 DEF TypeOK
  <2>a. Booting'
    BY DEF TypeOK, Booting, Fresh
  <2>2. Distinct'
    BY DEF Distinct, TypeOK, Idle
  <2>3. Locals'
    BY DEF Locals, TypeOK, Idle, Popping, Pushing, Unmapping
  <2> QED
    BY <2>1, <2>2, <2>3, <2>a
<1>4. CASE a_read(c)
  <2> USE <1>4 DEF a_read
  <2>0. Word(t[c]) \subseteq 0 .. MaxFrames
    BY DEF Word, TypeOK
  <2>1. TypeOK'
    BY <2>0 DEF TypeOK
  <2>a. Booting'
    BY DEF TypeOK, Booting, Fresh
  <2>2. Distinct'
    BY DEF Distinct, TypeOK, Idle
  <2>3. Locals'
    BY DEF Locals, TypeOK, Idle, Popping, Pushing, Unmapping
  <2> QED
    BY <2>1, <2>2, <2>3, <2>a
<1> QED
  BY <1>1, <1>2, <1>3, <1>4 DEF alloc_page

(* A store through the direct map keeps the tables well typed.             *)
LEMMA StoreType ==
  ASSUME TypeOK, NEW f \in 0 .. MaxFrames, NEW table \in [Slots -> 0 .. MaxFrames],
         Store(f, table)
  PROVE  pt' \in [0 .. MaxFrames -> [Slots -> 0 .. MaxFrames]]
BY DEF Store, TypeOK

(* A call that ends leaves well typed locals.                              *)
LEMMA ReturnType ==
  ASSUME TypeOK, NEW c \in Callers, Return(c)
  PROVE  /\ va' \in [Callers -> Pages \cup {<<0, 0>>}] /\ t' \in [Callers -> 0 .. UintMod - 1]
         /\ ret' \in [Callers -> {"page", "table"}]
         /\ page' \in [Callers -> 0 .. MaxFrames] /\ tab' \in [Callers -> 0 .. MaxFrames]
<1>0. 0 \in 0 .. MaxFrames /\ 0 \in 0 .. UintMod - 1
  BY MemAssumption
<1>1. va' \in [Callers -> Pages \cup {<<0, 0>>}]
  BY DEF Return, TypeOK
<1>2. t' \in [Callers -> 0 .. UintMod - 1]
  BY <1>0 DEF Return, TypeOK
<1>3. ret' \in [Callers -> {"page", "table"}]
  BY DEF Return, TypeOK
<1>4. page' \in [Callers -> 0 .. MaxFrames]
  BY <1>0 DEF Return, TypeOK
<1>5. tab' \in [Callers -> 0 .. MaxFrames]
  BY <1>0 DEF Return, TypeOK
<1> QED
  BY <1>1, <1>2, <1>3, <1>4, <1>5

(* Emptying an entry keeps the TLB well typed.                             *)
LEMMA FlushType ==
  ASSUME TypeOK, NEW v \in Pages
  PROVE  [tlb EXCEPT ![v] = 0] \in [Pages -> 0 .. MaxFrames]
<1>0. 0 \in 0 .. MaxFrames
  BY MemAssumption
<1> QED
  BY <1>0 DEF TypeOK

(* The steps of map keep it.                                               *)
LEMMA Base_map ==
  ASSUME Base, NEW c \in Callers, map(c), UNCHANGED freed, raced' \in BOOLEAN
  PROVE  Base'
<1> USE MemAssumption DEF Base, booted, hw, frame, At, Goto
<1>1. CASE m_pgd(c)
  <2> USE <1>1 DEF m_pgd
  <2>0. va[c] \in Pages /\ Dir(va[c]) \in Dirs /\ Slot(va[c]) \in Slots
    BY PageFacts DEF Distinct, Idle
  <2>1. TypeOK'
    <3>1. pgd[Dir(va[c])] \in 0 .. MaxFrames
      BY <2>0 DEF TypeOK
    <3>2. tab' \in [Callers -> 0 .. MaxFrames] /\ ret' \in [Callers -> {"page", "table"}]
      BY <3>1 DEF TypeOK
    <3>3. UNCHANGED <<stack, top, pgd, pt, tlb, boot, page_addr, va, t, page, own>>
      OBVIOUS
    <3> QED
      BY <3>2, <3>3 DEF TypeOK
  <2>2. Booting'
    BY DEF Booting, Fresh, TypeOK
  <2>3. Distinct'
    BY DEF Distinct, TypeOK, Idle
  <2>4. Locals'
    BY DEF Locals, TypeOK, Idle, Popping, Pushing, Unmapping
  <2> QED
    BY <2>1, <2>2, <2>3, <2>4
<1>2. CASE m_set(c)
  <2> USE <1>2 DEF m_set
  <2>0. va[c] \in Pages /\ Dir(va[c]) \in Dirs /\ Slot(va[c]) \in Slots
    BY PageFacts DEF Distinct, Idle
  <2>1. TypeOK'
    BY <2>0 DEF TypeOK
  <2>2. Booting'
    BY DEF Booting, Fresh, TypeOK
  <2>3. Distinct'
    BY DEF Distinct, TypeOK, Idle
  <2>4. Locals'
    BY DEF Locals, TypeOK, Idle, Popping, Pushing, Unmapping
  <2> QED
    BY <2>1, <2>2, <2>3, <2>4
<1>3. CASE m_memset(c)
  <2> USE <1>3 DEF m_memset, Onward
  <2>0. va[c] \in Pages /\ Dir(va[c]) \in Dirs /\ Slot(va[c]) \in Slots
    BY PageFacts DEF Distinct, Idle
  <2>a. tab[c] \in 0 .. MaxFrames /\ Empty \in [Slots -> 0 .. MaxFrames]
    BY <2>0 DEF TypeOK, Empty
  <2>b. pt' \in [0 .. MaxFrames -> [Slots -> 0 .. MaxFrames]]
    BY <2>a, StoreType
  <2>1. TypeOK'
    BY <2>0, <2>b DEF TypeOK
  <2>2. Booting'
    BY DEF Booting, Fresh, TypeOK
  <2>3. Distinct'
    BY DEF Distinct, TypeOK, Idle
  <2>4. Locals'
    BY DEF Locals, TypeOK, Idle, Popping, Pushing, Unmapping
  <2> QED
    BY <2>1, <2>2, <2>3, <2>4
<1>4. CASE m_pte(c)
  <2> USE <1>4 DEF m_pte, Onward
  <2>0. va[c] \in Pages /\ Dir(va[c]) \in Dirs /\ Slot(va[c]) \in Slots
    BY PageFacts DEF Distinct, Idle
  <2>a. tab[c] \in 0 .. MaxFrames /\ [pt[tab[c]] EXCEPT ![Slot(va[c])] = page[c]] \in [Slots -> 0 .. MaxFrames]
    BY <2>0 DEF TypeOK, Empty
  <2>b. pt' \in [0 .. MaxFrames -> [Slots -> 0 .. MaxFrames]]
    BY <2>a, StoreType
  <2>1. TypeOK'
    BY <2>0, <2>b DEF TypeOK
  <2>2. Booting'
    BY DEF Booting, Fresh, TypeOK
  <2>3. Distinct'
    BY DEF Distinct, TypeOK, Idle
  <2>4. Locals'
    BY DEF Locals, TypeOK, Idle, Popping, Pushing, Unmapping
  <2> QED
    BY <2>1, <2>2, <2>3, <2>4
<1>5. CASE m_invlpg(c)
  <2> USE <1>5 DEF m_invlpg, Return
  <2>0. va[c] \in Pages /\ Dir(va[c]) \in Dirs /\ Slot(va[c]) \in Slots
    BY PageFacts DEF Distinct, Idle
  <2>1. TypeOK'
    BY <2>0, ReturnType, FlushType DEF TypeOK
  <2>2. Booting'
    BY DEF Booting, Fresh, TypeOK
  <2>3. Distinct'
    BY DEF Distinct, TypeOK, Idle
  <2>4. Locals'
    BY DEF Locals, TypeOK, Idle, Popping, Pushing, Unmapping
  <2> QED
    BY <2>1, <2>2, <2>3, <2>4
<1> QED
  BY <1>1, <1>2, <1>3, <1>4, <1>5 DEF map

(* The steps of unmap keep it.                                             *)
LEMMA Base_unmap ==
  ASSUME Base, NEW c \in Callers, unmap(c), UNCHANGED freed, raced' \in BOOLEAN
  PROVE  Base'
<1> USE MemAssumption DEF Base, booted, hw, frame, At, Goto
<1>1. CASE u_pte(c)
  <2> USE <1>1 DEF u_pte, Onward
  <2>0. va[c] \in Pages /\ Dir(va[c]) \in Dirs /\ Slot(va[c]) \in Slots
    BY PageFacts DEF Distinct, Idle
  <2>a. /\ pgd[Dir(va[c])] \in 0 .. MaxFrames
        /\ [pt[pgd[Dir(va[c])]] EXCEPT ![Slot(va[c])] = 0] \in [Slots -> 0 .. MaxFrames]
    <3>1. 0 \in 0 .. MaxFrames
      OBVIOUS
    <3>2. pgd[Dir(va[c])] \in 0 .. MaxFrames
      BY <2>0 DEF TypeOK
    <3> QED
      BY <2>0, <3>1, <3>2 DEF TypeOK
  <2>b. pt' \in [0 .. MaxFrames -> [Slots -> 0 .. MaxFrames]]
    BY <2>a, StoreType DEF TypeOK
  <2>1. TypeOK'
    BY <2>0, <2>b DEF TypeOK
  <2>2. Booting'
    BY DEF Booting, Fresh, TypeOK
  <2>3. Distinct'
    BY DEF Distinct, TypeOK, Idle
  <2>4. Locals'
    BY DEF Locals, TypeOK, Idle, Popping, Pushing, Unmapping
  <2> QED
    BY <2>1, <2>2, <2>3, <2>4
<1>2. CASE u_invlpg(c)
  <2> USE <1>2 DEF u_invlpg, Flushed
  <2>0. va[c] \in Pages /\ Dir(va[c]) \in Dirs /\ Slot(va[c]) \in Slots
    BY PageFacts DEF Distinct, Idle
  <2>1. TypeOK'
    BY <2>0, FlushType DEF TypeOK
  <2>2. Booting'
    BY DEF Booting, Fresh, TypeOK
  <2>3. Distinct'
    BY DEF Distinct, TypeOK, Idle
  <2>4. Locals'
    BY DEF Locals, TypeOK, Idle, Popping, Pushing, Unmapping
  <2> QED
    BY <2>1, <2>2, <2>3, <2>4
<1> QED
  BY <1>1, <1>2 DEF unmap

(* The steps of free_page keep it.                                         *)
LEMMA Base_free_page ==
  ASSUME Base, NEW c \in Callers, free_page(c), UNCHANGED freed, raced' \in BOOLEAN
  PROVE  Base'
<1> USE MemAssumption DEF Base, booted, hw, frame, At, Goto
<1>1. CASE f_assert(c)
  <2> USE <1>1 DEF f_assert
  <2>1. TypeOK'
    BY DEF TypeOK
  <2>2. Booting'
    BY DEF Booting, Fresh, TypeOK
  <2>3. Distinct'
    BY DEF Distinct, TypeOK, Idle
  <2>4. Locals'
    BY DEF Locals, TypeOK, Idle, Popping, Pushing, Unmapping
  <2> QED
    BY <2>1, <2>2, <2>3, <2>4
<1>2. CASE f_load(c)
  <2> USE <1>2 DEF f_load
  <2>0. Raised \in 0 .. UintMod - 1
    <3>1. top + 1 \in Nat
      BY DEF TypeOK
    <3> QED
      BY <3>1, ModType DEF Raised
  <2>1. TypeOK'
    BY <2>0 DEF TypeOK
  <2>2. Booting'
    BY DEF Booting, Fresh, TypeOK
  <2>3. Distinct'
    BY DEF Distinct, TypeOK, Idle
  <2>4. Locals'
    BY DEF Locals, TypeOK, Idle, Popping, Pushing, Unmapping
  <2> QED
    BY <2>1, <2>2, <2>3, <2>4
<1>3. CASE f_store(c)
  <2> USE <1>3 DEF f_store
  <2>1. TypeOK'
    BY DEF TypeOK
  <2>2. Booting'
    BY DEF Booting, Fresh, TypeOK
  <2>3. Distinct'
    BY DEF Distinct, TypeOK, Idle
  <2>4. Locals'
    BY DEF Locals, TypeOK, Idle, Popping, Pushing, Unmapping
  <2> QED
    BY <2>1, <2>2, <2>3, <2>4
<1>4. CASE f_write(c)
  <2> USE <1>4 DEF f_write, Return
  <2>0. stack' \in [0 .. MaxFrames -> 0 .. MaxFrames]
    BY DEF TypeOK
  <2>1. TypeOK'
    BY <2>0, ReturnType DEF TypeOK
  <2>2. Booting'
    BY DEF Booting, Fresh, TypeOK
  <2>3. Distinct'
    BY DEF Distinct, TypeOK, Idle
  <2>4. Locals'
    BY DEF Locals, TypeOK, Idle, Popping, Pushing, Unmapping
  <2> QED
    BY <2>1, <2>2, <2>3, <2>4
<1> QED
  BY <1>1, <1>2, <1>3, <1>4 DEF free_page

-----------------------------------------------------------------------------
(* A step that moves no frame keeps every role.                            *)
LEMMA SameRoles ==
  ASSUME Roles, Kept, UNCHANGED <<pgd, own, page_addr>>, FreeTop' = FreeTop,
         \A i \in 1 .. FreeTop : stack'[i] = stack[i],
         \A v \in own : Walk(v)' = Walk(v),
         \A b \in Callers : Held(b)' = Held(b)
  PROVE  Roles' /\ Kept'
<1>1. Free' = Free
  BY DEF Free
<1>2. Tables' = Tables
  BY DEF Tables
<1>3. Mapped' = Mapped
  BY DEF Mapped
<1>4. InHand' = InHand
  BY DEF InHand
<1>5. Kept'
  BY <1>1, <1>2, <1>3, <1>4 DEF Kept
<1>6. Roles'
  BY <1>1, <1>2, <1>3, <1>4 DEF Roles
<1> QED
  BY <1>5, <1>6

(* Without a race, a call inside alloc_page or free_page is the only one.  *)
LEMMA Alone ==
  ASSUME ~Races, NEW c \in Callers, Popping(c) \/ Pushing(c), NEW b \in Callers, b # c
  PROVE  ~Popping(b) /\ ~Pushing(b)
BY DEF Races

(* What a call needs of the tables is not disturbed by calls elsewhere.    *)
LEMMA SameEntered ==
  ASSUME Entered, UNCHANGED <<pgd, pt, own>>,
         \A b \in Callers :
           \/ pc'[b] = pc[b] /\ tab'[b] = tab[b] /\ page'[b] = page[b] /\ va'[b] = va[b]
           \/ pc'[b] \notin {"m_memset", "m_pte", "m_invlpg", "u_pte", "u_invlpg"}
  PROVE  Entered'
<1>1. \A v \in own' : pgd'[Dir(v)] # 0
  BY DEF Entered
<1> SUFFICES ASSUME NEW c \in Callers
    PROVE  (/\ pc[c] \in {"m_memset", "m_pte", "m_invlpg"} => tab[c] # 0 /\ pgd[Dir(va[c])] = tab[c]
            /\ pc[c] = "m_invlpg" => pt[tab[c]][Slot(va[c])] = page[c]
            /\ Unmapping(c) => pgd[Dir(va[c])] # 0
            /\ pc[c] = "m_memset" =>
                 /\ \A v \in own : Dir(v) # Dir(va[c])
                 /\ \A b \in Callers : pc[b] = "m_invlpg" \/ Unmapping(b) => Dir(va[b]) # Dir(va[c]))'
  BY <1>1 DEF Entered
<1>2. (pc[c] \in {"m_memset", "m_pte", "m_invlpg"} => tab[c] # 0 /\ pgd[Dir(va[c])] = tab[c])'
  BY DEF Entered
<1>3. (pc[c] = "m_invlpg" => pt[tab[c]][Slot(va[c])] = page[c])'
  BY DEF Entered
<1>4. (Unmapping(c) => pgd[Dir(va[c])] # 0)'
  BY DEF Entered, Unmapping
<1>5. (pc[c] = "m_memset" => \A v \in own : Dir(v) # Dir(va[c]))'
  BY DEF Entered
<1>6. (pc[c] = "m_memset" =>
         \A b \in Callers : pc[b] = "m_invlpg" \/ Unmapping(b) => Dir(va[b]) # Dir(va[c]))'
  BY DEF Entered, Unmapping
<1> QED
  BY <1>2, <1>3, <1>4, <1>5, <1>6

(* The TLB stays right as long as nobody unmaps.                           *)
LEMMA SameCached ==
  ASSUME Cached, UNCHANGED <<tlb, own>>,
         \A v \in own : Walk(v)' = Walk(v),
         \A b \in Callers : Unmapping(b) => Unmapping(b)' /\ va'[b] = va[b] /\ page'[b] = page[b]
  PROVE  Cached'
BY DEF Cached

(* A call that begins to grow the heap area moves no frame.                *)
LEMMA Safe_grow ==
  ASSUME Base, Base', Apart, ~raced, ~Races', InReach, Safe,
         NEW c \in Callers, NEW v \in Pages, grow(c, v)
  PROVE  Safe'
<1> USE MemAssumption DEF Base, Safe, grow, booted, hw, frame, At, Goto
<1>0. \A u \in own : Walk(u)' = Walk(u)
  BY DEF Walk
<1>1. Stacked'
  BY DEF Stacked, TypeOK
<1>2. Filled'
  BY DEF Filled, TypeOK, Mapping, Unmapping, Popping, Pushing, Locals, Idle
<1>3. Entered'
  <2>1. \A b \in Callers :
           \/ pc'[b] = pc[b] /\ tab'[b] = tab[b] /\ page'[b] = page[b] /\ va'[b] = va[b]
           \/ pc'[b] \notin {"m_memset", "m_pte", "m_invlpg", "u_pte", "u_invlpg"}
    BY DEF TypeOK
  <2> QED
    BY <2>1, SameEntered
<1>4. Cached'
  <2>1. \A b \in Callers : Unmapping(b) =>
           Unmapping(b)' /\ va'[b] = va[b] /\ page'[b] = page[b]
    BY DEF Unmapping, TypeOK
  <2> QED
    BY <1>0, <2>1, SameCached
<1>5. Roles' /\ Kept'
  <2>1. FreeTop' = FreeTop
    BY DEF FreeTop, TypeOK
  <2>2. \A b \in Callers : Held(b)' = Held(b)
    BY DEF Held, TypeOK
  <2> QED
    BY <1>0, <2>1, <2>2, SameRoles
<1> QED
  BY <1>1, <1>2, <1>3, <1>4, <1>5

(* The assert of alloc_page moves no frame.                                *)
LEMMA Safe_a_assert ==
  ASSUME Base, Base', Apart, ~raced, ~Races', InReach, Safe,
         NEW c \in Callers, a_assert(c)
  PROVE  Safe'
<1> USE MemAssumption DEF Base, Safe, a_assert, booted, hw, frame, At, Goto
<1>0. \A v \in own : Walk(v)' = Walk(v)
  BY DEF Walk
<1>1. Stacked'
  BY DEF Stacked, TypeOK
<1>2. Filled'
  BY DEF Filled, TypeOK, Mapping, Unmapping, Popping, Pushing
<1>3. Entered'
  <2>1. \A b \in Callers :
           \/ pc'[b] = pc[b] /\ tab'[b] = tab[b] /\ page'[b] = page[b] /\ va'[b] = va[b]
           \/ pc'[b] \notin {"m_memset", "m_pte", "m_invlpg", "u_pte", "u_invlpg"}
    BY DEF TypeOK
  <2> QED
    BY <2>1, SameEntered
<1>4. Cached'
  <2>1. \A b \in Callers : Unmapping(b) =>
           Unmapping(b)' /\ va'[b] = va[b] /\ page'[b] = page[b]
    BY DEF Unmapping, TypeOK
  <2> QED
    BY <1>0, <2>1, SameCached
<1>5. Roles' /\ Kept'
  <2>1. FreeTop' = FreeTop
    BY DEF FreeTop, TypeOK
  <2>2. \A b \in Callers : Held(b)' = Held(b)
    BY DEF Held, TypeOK
  <2> QED
    BY <1>0, <2>1, <2>2, SameRoles
<1> QED
  BY <1>1, <1>2, <1>3, <1>4, <1>5

(* The load of _top moves no frame.                                        *)
LEMMA Safe_a_load ==
  ASSUME Base, Base', Apart, ~raced, ~Races', InReach, Safe,
         NEW c \in Callers, a_load(c)
  PROVE  Safe'
<1> USE MemAssumption DEF Base, Safe, a_load, booted, hw, frame, At, Goto
<1>0. \A v \in own : Walk(v)' = Walk(v)
  BY DEF Walk
<1>1. Stacked'
  BY DEF Stacked, TypeOK
<1>2. Filled'
  BY DEF Filled, TypeOK, Mapping, Unmapping, Popping, Pushing
<1>3. Entered'
  <2>1. \A b \in Callers :
           \/ pc'[b] = pc[b] /\ tab'[b] = tab[b] /\ page'[b] = page[b] /\ va'[b] = va[b]
           \/ pc'[b] \notin {"m_memset", "m_pte", "m_invlpg", "u_pte", "u_invlpg"}
    BY DEF TypeOK
  <2> QED
    BY <2>1, SameEntered
<1>4. Cached'
  <2>1. \A b \in Callers : Unmapping(b) =>
           Unmapping(b)' /\ va'[b] = va[b] /\ page'[b] = page[b]
    BY DEF Unmapping, TypeOK
  <2> QED
    BY <1>0, <2>1, SameCached
<1>5. Roles' /\ Kept'
  <2>1. FreeTop' = FreeTop
    BY DEF FreeTop, TypeOK
  <2>2. \A b \in Callers : Held(b)' = Held(b)
    BY DEF Held, TypeOK
  <2> QED
    BY <1>0, <2>1, <2>2, SameRoles
<1> QED
  BY <1>1, <1>2, <1>3, <1>4, <1>5

(* The read of _stack puts the frame in a local: it stays in hand.         *)
LEMMA Safe_a_read ==
  ASSUME Base, Base', Apart, ~raced, ~Races', InReach, Safe,
         NEW c \in Callers, a_read(c)
  PROVE  Safe'
<1> USE MemAssumption DEF Base, Safe
<1>a. Word(t[c]) = {stack[t[c]]} /\ stack[t[c]] # 0
  <2>1. pc[c] = "a_read"
    BY DEF a_read, At
  <2>2. t[c] \in 0 .. MaxFrames
    BY <2>1 DEF Stacked, TypeOK
  <2> QED
    BY <2>1, <2>2 DEF Word, Filled
<1>b. /\ UNCHANGED <<stack, top, pgd, pt, tlb, boot, page_addr, va, t, ret, own>>
      /\ \A b \in Callers : b # c => pc'[b] = pc[b] /\ page'[b] = page[b] /\ tab'[b] = tab[b]
      /\ \/ ret[c] = "page" /\ page'[c] = stack[t[c]] /\ tab'[c] = tab[c] /\ pc'[c] = "m_pgd"
         \/ ret[c] = "table" /\ tab'[c] = stack[t[c]] /\ page'[c] = page[c] /\ pc'[c] = "m_set"
      /\ pc[c] = "a_read"
  <2>1. PICK f \in {stack[t[c]]} :
          \/ ret[c] = "page" /\ page' = [page EXCEPT ![c] = f] /\ Goto(c, "m_pgd") /\ UNCHANGED tab
          \/ ret[c] = "table" /\ tab' = [tab EXCEPT ![c] = f] /\ Goto(c, "m_set") /\ UNCHANGED page
    BY <1>a DEF a_read
  <2>2. CASE ret[c] = "page"
    BY <2>1, <2>2 DEF a_read, booted, hw, At, Goto, TypeOK
  <2>3. CASE ret[c] = "table"
    BY <2>1, <2>3 DEF a_read, booted, hw, At, Goto, TypeOK
  <2> QED
    BY <2>2, <2>3 DEF TypeOK
<1>0. \A v \in own : Walk(v)' = Walk(v)
  BY <1>b DEF Walk
<1>1. Stacked'
  BY <1>b DEF Stacked, TypeOK
<1>2. Filled'
  <2> SUFFICES ASSUME NEW b \in Callers
      PROVE (/\ pc[b] # "astray"
             /\ Mapping(b) \/ Unmapping(b) \/ Pushing(b) => page[b] # 0
             /\ pc[b] = "a_read" => stack[t[b]] \notin {0, page[b]}
             /\ pc[b] = "m_set" => tab[b] \notin {0, page[b]})'
    BY DEF Filled
  <2>1. CASE b # c
    BY <2>1, <1>b DEF Filled, Mapping, Unmapping, Popping, Pushing
  <2>2. CASE b = c
    BY <2>2, <1>a, <1>b DEF Filled, Mapping, Unmapping, Popping, Pushing
  <2> QED
    BY <2>1, <2>2
<1>3. Entered'
  <2>1. \A b \in Callers :
           \/ pc'[b] = pc[b] /\ tab'[b] = tab[b] /\ page'[b] = page[b] /\ va'[b] = va[b]
           \/ pc'[b] \notin {"m_memset", "m_pte", "m_invlpg", "u_pte", "u_invlpg"}
    BY <1>b
  <2> QED
    BY <1>b, <2>1, SameEntered
<1>4. Cached'
  <2>1. \A b \in Callers : Unmapping(b) =>
           Unmapping(b)' /\ va'[b] = va[b] /\ page'[b] = page[b]
    BY <1>b DEF Unmapping
  <2> QED
    BY <1>0, <1>b, <2>1, SameCached
<1>5. Roles' /\ Kept'
  <2>1. FreeTop' = FreeTop
    BY <1>b DEF FreeTop
  <2>2. \A b \in Callers : Held(b)' = Held(b)
    <3> TAKE b \in Callers
    <3>1. CASE b # c
      BY <1>b, <3>1 DEF Held
    <3>2. ret[c] = "page" => page[c] = 0
      BY <1>b DEF Locals, Popping
    <3>3. Held(c) = {page[c], stack[t[c]]} \ {0}
      BY <1>b DEF Held
    <3>4. Held(c)' = Held(c)
      <4>1. CASE ret[c] = "page"
        BY <4>1, <1>b, <3>2, <3>3 DEF Held
      <4>2. CASE ret[c] = "table"
        BY <4>2, <1>b, <3>3 DEF Held
      <4> QED
        BY <4>1, <4>2, <1>b
    <3> QED
      BY <3>1, <3>4
  <2> QED
    BY <1>0, <1>b, <2>1, <2>2, SameRoles
<1> QED
  BY <1>1, <1>2, <1>3, <1>4, <1>5

(* The assert of free_page moves no frame.                                 *)
LEMMA Safe_f_assert ==
  ASSUME Base, Base', Apart, ~raced, ~Races', InReach, Safe,
         NEW c \in Callers, f_assert(c)
  PROVE  Safe'
<1> USE MemAssumption DEF Base, Safe, f_assert, booted, hw, frame, At, Goto
<1>0. \A v \in own : Walk(v)' = Walk(v)
  BY DEF Walk
<1>1. Stacked'
  BY DEF Stacked, TypeOK
<1>2. Filled'
  BY DEF Filled, TypeOK, Mapping, Unmapping, Popping, Pushing
<1>3. Entered'
  <2>1. \A b \in Callers :
           \/ pc'[b] = pc[b] /\ tab'[b] = tab[b] /\ page'[b] = page[b] /\ va'[b] = va[b]
           \/ pc'[b] \notin {"m_memset", "m_pte", "m_invlpg", "u_pte", "u_invlpg"}
    BY DEF TypeOK
  <2> QED
    BY <2>1, SameEntered
<1>4. Cached'
  <2>1. \A b \in Callers : Unmapping(b) =>
           Unmapping(b)' /\ va'[b] = va[b] /\ page'[b] = page[b]
    BY DEF Unmapping, TypeOK
  <2> QED
    BY <1>0, <2>1, SameCached
<1>5. Roles' /\ Kept'
  <2>1. FreeTop' = FreeTop
    BY DEF FreeTop, TypeOK
  <2>2. \A b \in Callers : Held(b)' = Held(b)
    BY DEF Held, TypeOK
  <2> QED
    BY <1>0, <2>1, <2>2, SameRoles
<1> QED
  BY <1>1, <1>2, <1>3, <1>4, <1>5

(* The load of _top moves no frame.                                        *)
LEMMA Safe_f_load ==
  ASSUME Base, Base', Apart, ~raced, ~Races', InReach, Safe,
         NEW c \in Callers, f_load(c)
  PROVE  Safe'
<1> USE MemAssumption DEF Base, Safe, f_load, booted, hw, frame, At, Goto
<1>a. Raised = top + 1
  BY ModRaise DEF Raised, Stacked, TypeOK
<1>0. \A v \in own : Walk(v)' = Walk(v)
  BY DEF Walk
<1>1. Stacked'
  BY <1>a, Alone DEF Stacked, TypeOK, Apart, Pushing, Popping
<1>2. Filled'
  BY DEF Filled, TypeOK, Mapping, Unmapping, Popping, Pushing
<1>3. Entered'
  <2>1. \A b \in Callers :
           \/ pc'[b] = pc[b] /\ tab'[b] = tab[b] /\ page'[b] = page[b] /\ va'[b] = va[b]
           \/ pc'[b] \notin {"m_memset", "m_pte", "m_invlpg", "u_pte", "u_invlpg"}
    BY DEF TypeOK
  <2> QED
    BY <2>1, SameEntered
<1>4. Cached'
  <2>1. \A b \in Callers : Unmapping(b) =>
           Unmapping(b)' /\ va'[b] = va[b] /\ page'[b] = page[b]
    BY DEF Unmapping, TypeOK
  <2> QED
    BY <1>0, <2>1, SameCached
<1>5. Roles' /\ Kept'
  <2>1. FreeTop' = FreeTop
    BY DEF FreeTop, TypeOK
  <2>2. \A b \in Callers : Held(b)' = Held(b)
    BY DEF Held, TypeOK
  <2> QED
    BY <1>0, <2>1, <2>2, SameRoles
<1> QED
  BY <1>1, <1>2, <1>3, <1>4, <1>5

(* Raising _top frees no frame yet: its slot is not written.               *)
LEMMA Safe_f_store ==
  ASSUME Base, Base', Apart, ~raced, ~Races', InReach, Safe,
         NEW c \in Callers, f_store(c)
  PROVE  Safe'
<1> USE MemAssumption DEF Base, Safe, f_store, booted, hw, frame, At, Goto
<1>a. \A b \in Callers : b # c => ~Popping(b) /\ ~Pushing(b)
  BY Alone DEF Apart, Pushing
<1>b. top \in 0 .. MaxFrames - 1 /\ t[c] = top + 1
  BY DEF Stacked, TypeOK
<1>0. \A v \in own : Walk(v)' = Walk(v)
  BY DEF Walk
<1>1. Stacked'
  <2>1. top' = top + 1 /\ t' = t /\ pc'[c] = "f_write"
    BY <1>b DEF TypeOK
  <2>2. \A b \in Callers : b # c => pc'[b] = pc[b]
    BY DEF TypeOK
  <2> QED
    BY <1>a, <1>b, <2>1, <2>2 DEF Stacked, Pushing, Popping
<1>2. Filled'
  BY DEF Filled, TypeOK, Mapping, Unmapping, Popping, Pushing
<1>3. Entered'
  <2>1. \A b \in Callers :
           \/ pc'[b] = pc[b] /\ tab'[b] = tab[b] /\ page'[b] = page[b] /\ va'[b] = va[b]
           \/ pc'[b] \notin {"m_memset", "m_pte", "m_invlpg", "u_pte", "u_invlpg"}
    BY DEF TypeOK
  <2> QED
    BY <2>1, SameEntered
<1>4. Cached'
  <2>1. \A b \in Callers : Unmapping(b) =>
           Unmapping(b)' /\ va'[b] = va[b] /\ page'[b] = page[b]
    BY DEF Unmapping, TypeOK
  <2> QED
    BY <1>0, <2>1, SameCached
<1>5. Roles' /\ Kept'
  <2>0. top' = top + 1 /\ pc'[c] = "f_write"
    BY <1>b DEF TypeOK
  <2>1. FreeTop = top /\ FreeTop' = top
    BY <1>a, <1>b, <2>0 DEF FreeTop, Pushing
  <2>2. \A b \in Callers : Held(b)' = Held(b)
    BY DEF Held, TypeOK
  <2> QED
    BY <1>0, <2>1, <2>2, SameRoles
<1> QED
  BY <1>1, <1>2, <1>3, <1>4, <1>5

(* Clearing a new table touches no page in use: none has this directory.   *)
LEMMA Safe_m_memset ==
  ASSUME Base, Base', Apart, ~raced, ~Races', InReach, Safe,
         NEW c \in Callers, m_memset(c)
  PROVE  Safe'
<1> USE MemAssumption DEF Base, Safe
<1>a. pc[c] = "m_memset" /\ va[c] \in Pages /\ Dir(va[c]) \in Dirs
  BY PageFacts DEF m_memset, At, Distinct, Idle
<1>c. tab[c] # 0 /\ pgd[Dir(va[c])] = tab[c] /\ Direct(tab[c]) /\ tab[c] \in 0 .. MaxFrames
  BY <1>a DEF Entered, InReach, Tables, TypeOK
<1>b. /\ UNCHANGED <<stack, top, pgd, tlb, boot, page_addr, va, t, ret, page, tab, own>>
      /\ pt' = [pt EXCEPT ![tab[c]] = Empty]
      /\ pc' = [pc EXCEPT ![c] = "m_pte"]
      /\ pc[c] = "m_memset"
  BY <1>a, <1>c DEF m_memset, booted, frame, Goto, Onward, Store
<1>0. \A v \in own : Walk(v)' = Walk(v)
  <2> TAKE v \in own
  <2>1. v \in Pages /\ v # va[c] /\ pgd[Dir(v)] # 0
    BY <1>a DEF Distinct, TypeOK, Entered, Idle
  <2>2. Dir(v) \in Dirs /\ Slot(v) \in Slots /\ pgd[Dir(v)] \in 0 .. MaxFrames
    BY <2>1, PageFacts DEF TypeOK
  <2>3. pgd[Dir(v)] # tab[c]
    BY <1>a, <1>c, <2>1, <2>2 DEF Roles, Entered
  <2> QED
    BY <1>b, <2>2, <2>3 DEF Walk, TypeOK
<1>1. Stacked'
  BY <1>b DEF Stacked, TypeOK
<1>2. Filled'
  BY <1>b DEF Filled, TypeOK, Mapping, Unmapping, Popping, Pushing
<1>3. Entered'
  <2>1. \A v \in own' : pgd'[Dir(v)] # 0
    BY <1>b DEF Entered
  <2> SUFFICES ASSUME NEW b \in Callers
      PROVE  (/\ pc[b] \in {"m_memset", "m_pte", "m_invlpg"} => tab[b] # 0 /\ pgd[Dir(va[b])] = tab[b]
              /\ pc[b] = "m_invlpg" => pt[tab[b]][Slot(va[b])] = page[b]
              /\ Unmapping(b) => pgd[Dir(va[b])] # 0
              /\ pc[b] = "m_memset" =>
                   /\ \A v \in own : Dir(v) # Dir(va[b])
                   /\ \A a \in Callers : pc[a] = "m_invlpg" \/ Unmapping(a) => Dir(va[a]) # Dir(va[b]))'
    BY <2>1 DEF Entered
  <2>2. pc'[b] = "m_invlpg" => pt'[tab'[b]][Slot(va'[b])] = page'[b]
    <3> SUFFICES ASSUME pc'[b] = "m_invlpg" PROVE pt'[tab[b]] = pt[tab[b]]
      BY <1>b DEF Entered, TypeOK
    <3>1. b # c /\ pc[b] = "m_invlpg"
      BY <1>b DEF TypeOK
    <3>2. Dir(va[b]) # Dir(va[c]) /\ Dir(va[b]) \in Dirs
      BY <1>a, <3>1, PageFacts DEF Entered, Distinct, Idle
    <3>3. tab[b] # tab[c]
      BY <1>a, <1>c, <3>1, <3>2 DEF Entered, Roles
    <3> QED
      BY <1>b, <3>3 DEF TypeOK
  <2>4. (pc[b] \in {"m_memset", "m_pte", "m_invlpg"} => tab[b] # 0 /\ pgd[Dir(va[b])] = tab[b])'
    BY <1>b, <1>c DEF Entered, TypeOK
  <2>5. (Unmapping(b) => pgd[Dir(va[b])] # 0)'
    BY <1>b, <1>c DEF Entered, TypeOK, Unmapping
  <2>6. (pc[b] = "m_memset" => \A v \in own : Dir(v) # Dir(va[b]))'
    BY <1>b DEF Entered, TypeOK
  <2>7. (pc[b] = "m_memset" =>
           \A a \in Callers : pc[a] = "m_invlpg" \/ Unmapping(a) => Dir(va[a]) # Dir(va[b]))'
    BY <1>b DEF Entered, TypeOK, Unmapping
  <2> QED
    BY <2>2, <2>4, <2>5, <2>6, <2>7
<1>4. Cached'
  <2>1. \A b \in Callers : Unmapping(b) =>
           Unmapping(b)' /\ va'[b] = va[b] /\ page'[b] = page[b]
    BY <1>b DEF Unmapping, TypeOK
  <2> QED
    BY <1>0, <1>b, <2>1, SameCached
<1>5. Roles' /\ Kept'
  <2>1. FreeTop' = FreeTop
    BY <1>b DEF FreeTop, TypeOK
  <2>2. \A b \in Callers : Held(b)' = Held(b)
    BY <1>b DEF Held, TypeOK
  <2> QED
    BY <1>0, <1>b, <2>1, <2>2, SameRoles
<1> QED
  BY <1>1, <1>2, <1>3, <1>4, <1>5

(* Writing a page table entry touches no other page, because no two calls  *)
(* work on one page and no two directory entries share a table.            *)
LEMMA Safe_m_pte ==
  ASSUME Base, Base', Apart, ~raced, ~Races', InReach, Safe,
         NEW c \in Callers, m_pte(c)
  PROVE  Safe'
<1> USE MemAssumption DEF Base, Safe
<1>a. pc[c] = "m_pte" /\ va[c] \in Pages /\ Dir(va[c]) \in Dirs /\ Slot(va[c]) \in Slots
  BY PageFacts DEF m_pte, At, Distinct, Idle
<1>c. tab[c] # 0 /\ pgd[Dir(va[c])] = tab[c] /\ Direct(tab[c]) /\ tab[c] \in 0 .. MaxFrames
  BY <1>a DEF Entered, InReach, Tables, TypeOK
<1>b. /\ UNCHANGED <<stack, top, pgd, tlb, boot, page_addr, va, t, ret, page, tab, own>>
      /\ pt' = [pt EXCEPT ![tab[c]] = [pt[tab[c]] EXCEPT ![Slot(va[c])] = page[c]]]
      /\ pc' = [pc EXCEPT ![c] = "m_invlpg"]
      /\ pc[c] = "m_pte"
  BY <1>a, <1>c DEF m_pte, booted, frame, Goto, Onward, Store
<1>d. /\ pt'[tab[c]][Slot(va[c])] = page[c]
      /\ \A f \in 0 .. MaxFrames, s \in Slots : f # tab[c] \/ s # Slot(va[c]) => pt'[f][s] = pt[f][s]
  BY <1>a, <1>b, <1>c DEF TypeOK
<1>0. \A v \in own : Walk(v)' = Walk(v)
  <2> TAKE v \in own
  <2>1. v \in Pages /\ v # va[c] /\ pgd[Dir(v)] # 0
    BY <1>a DEF Distinct, TypeOK, Entered, Idle
  <2>2. Dir(v) \in Dirs /\ Slot(v) \in Slots /\ pgd[Dir(v)] \in 0 .. MaxFrames
    BY <2>1, PageFacts DEF TypeOK
  <2>3. pgd[Dir(v)] # tab[c] \/ Slot(v) # Slot(va[c])
    BY <1>a, <1>c, <2>1, <2>2, PageFacts DEF Roles
  <2> QED
    BY <1>b, <1>d, <2>2, <2>3 DEF Walk
<1>1. Stacked'
  BY <1>b DEF Stacked, TypeOK
<1>2. Filled'
  BY <1>b DEF Filled, TypeOK, Mapping, Unmapping, Popping, Pushing
<1>3. Entered'
  <2>1. \A v \in own' : pgd'[Dir(v)] # 0
    BY <1>b DEF Entered
  <2> SUFFICES ASSUME NEW b \in Callers
      PROVE  (/\ pc[b] \in {"m_memset", "m_pte", "m_invlpg"} => tab[b] # 0 /\ pgd[Dir(va[b])] = tab[b]
              /\ pc[b] = "m_invlpg" => pt[tab[b]][Slot(va[b])] = page[b]
              /\ Unmapping(b) => pgd[Dir(va[b])] # 0
              /\ pc[b] = "m_memset" =>
                   /\ \A v \in own : Dir(v) # Dir(va[b])
                   /\ \A a \in Callers : pc[a] = "m_invlpg" \/ Unmapping(a) => Dir(va[a]) # Dir(va[b]))'
    BY <2>1 DEF Entered
  <2>2. pc'[b] = "m_invlpg" => pt'[tab'[b]][Slot(va'[b])] = page'[b]
    <3>1. CASE b = c
      BY <1>b, <1>d, <3>1
    <3>2. CASE b # c
      <4> SUFFICES ASSUME pc[b] = "m_invlpg" PROVE pt'[tab[b]][Slot(va[b])] = pt[tab[b]][Slot(va[b])]
        BY <1>b, <3>2 DEF Entered, TypeOK
      <4>1. va[b] # va[c] /\ va[b] \in Pages /\ Dir(va[b]) \in Dirs /\ Slot(va[b]) \in Slots
        BY <1>a, <3>2, PageFacts DEF Distinct, Idle
      <4>2. tab[b] # tab[c] \/ Slot(va[b]) # Slot(va[c])
        BY <1>a, <1>c, <4>1, PageFacts DEF Entered, Roles
      <4> QED
        BY <1>d, <4>1, <4>2 DEF TypeOK
    <3> QED
      BY <3>1, <3>2
  <2>3. pc[b] = "m_memset" => Dir(va[c]) # Dir(va[b])
    BY <1>a DEF Apart, Races, Building
  <2>4. (pc[b] \in {"m_memset", "m_pte", "m_invlpg"} => tab[b] # 0 /\ pgd[Dir(va[b])] = tab[b])'
    BY <1>b, <1>c DEF Entered, TypeOK
  <2>5. (Unmapping(b) => pgd[Dir(va[b])] # 0)'
    BY <1>b, <1>c DEF Entered, TypeOK, Unmapping
  <2>6. (pc[b] = "m_memset" => \A v \in own : Dir(v) # Dir(va[b]))'
    BY <1>b DEF Entered, TypeOK
  <2>7. (pc[b] = "m_memset" =>
           \A a \in Callers : pc[a] = "m_invlpg" \/ Unmapping(a) => Dir(va[a]) # Dir(va[b]))'
    BY <1>b, <2>3 DEF Entered, TypeOK, Unmapping
  <2> QED
    BY <2>2, <2>4, <2>5, <2>6, <2>7
<1>4. Cached'
  <2>1. \A b \in Callers : Unmapping(b) =>
           Unmapping(b)' /\ va'[b] = va[b] /\ page'[b] = page[b]
    BY <1>b DEF Unmapping, TypeOK
  <2> QED
    BY <1>0, <1>b, <2>1, SameCached
<1>5. Roles' /\ Kept'
  <2>1. FreeTop' = FreeTop
    BY <1>b DEF FreeTop, TypeOK
  <2>2. \A b \in Callers : Held(b)' = Held(b)
    BY <1>b DEF Held, TypeOK
  <2> QED
    BY <1>0, <1>b, <2>1, <2>2, SameRoles
<1> QED
  BY <1>1, <1>2, <1>3, <1>4, <1>5

(* Clearing the entry touches no other page.                               *)
LEMMA Safe_u_pte ==
  ASSUME Base, Base', Apart, ~raced, ~Races', InReach, Safe,
         NEW c \in Callers, u_pte(c)
  PROVE  Safe'
<1> USE MemAssumption DEF Base, Safe
<1>a. pc[c] = "u_pte" /\ va[c] \in Pages /\ Dir(va[c]) \in Dirs /\ Slot(va[c]) \in Slots
  BY PageFacts DEF u_pte, At, Distinct, Idle
<1> DEFINE d == pgd[Dir(va[c])]
<1>c. d # 0 /\ Direct(d) /\ d \in 0 .. MaxFrames
  BY <1>a DEF Entered, InReach, Tables, TypeOK, Unmapping
<1>b. /\ UNCHANGED <<stack, top, pgd, tlb, boot, page_addr, va, t, ret, page, tab, own>>
      /\ pt' = [pt EXCEPT ![d] = [pt[d] EXCEPT ![Slot(va[c])] = 0]]
      /\ pc' = [pc EXCEPT ![c] = "u_invlpg"]
      /\ pc[c] = "u_pte"
  BY <1>a, <1>c DEF u_pte, booted, frame, Goto, Onward, Store
<1>d. \A f \in 0 .. MaxFrames, s \in Slots : f # d \/ s # Slot(va[c]) => pt'[f][s] = pt[f][s]
  BY <1>a, <1>b, <1>c DEF TypeOK
<1>0. \A v \in own : Walk(v)' = Walk(v)
  <2> TAKE v \in own
  <2>1. v \in Pages /\ v # va[c] /\ pgd[Dir(v)] # 0
    BY <1>a DEF Distinct, TypeOK, Entered, Idle
  <2>2. Dir(v) \in Dirs /\ Slot(v) \in Slots /\ pgd[Dir(v)] \in 0 .. MaxFrames
    BY <2>1, PageFacts DEF TypeOK
  <2>3. pgd[Dir(v)] # d \/ Slot(v) # Slot(va[c])
    BY <1>a, <1>c, <2>1, <2>2, PageFacts DEF Roles
  <2> QED
    BY <1>b, <1>d, <2>2, <2>3 DEF Walk
<1>1. Stacked'
  BY <1>b DEF Stacked, TypeOK
<1>2. Filled'
  BY <1>b DEF Filled, TypeOK, Mapping, Unmapping, Popping, Pushing
<1>3. Entered'
  <2>1. \A v \in own' : pgd'[Dir(v)] # 0
    BY <1>b DEF Entered
  <2> SUFFICES ASSUME NEW b \in Callers
      PROVE  (/\ pc[b] \in {"m_memset", "m_pte", "m_invlpg"} => tab[b] # 0 /\ pgd[Dir(va[b])] = tab[b]
              /\ pc[b] = "m_invlpg" => pt[tab[b]][Slot(va[b])] = page[b]
              /\ Unmapping(b) => pgd[Dir(va[b])] # 0
              /\ pc[b] = "m_memset" =>
                   /\ \A v \in own : Dir(v) # Dir(va[b])
                   /\ \A a \in Callers : pc[a] = "m_invlpg" \/ Unmapping(a) => Dir(va[a]) # Dir(va[b]))'
    BY <2>1 DEF Entered
  <2>2. pc'[b] = "m_invlpg" => pt'[tab'[b]][Slot(va'[b])] = page'[b]
    <3> SUFFICES ASSUME pc[b] = "m_invlpg", b # c
        PROVE pt'[tab[b]][Slot(va[b])] = pt[tab[b]][Slot(va[b])]
      BY <1>b DEF Entered, TypeOK
    <3>1. va[b] # va[c] /\ va[b] \in Pages /\ Dir(va[b]) \in Dirs /\ Slot(va[b]) \in Slots
      BY <1>a, PageFacts DEF Distinct, Idle
    <3>2. tab[b] # d \/ Slot(va[b]) # Slot(va[c])
      BY <1>a, <1>c, <3>1, PageFacts DEF Entered, Roles
    <3> QED
      BY <1>d, <3>1, <3>2 DEF TypeOK
  <2>4. (pc[b] \in {"m_memset", "m_pte", "m_invlpg"} => tab[b] # 0 /\ pgd[Dir(va[b])] = tab[b])'
    BY <1>b, <1>c DEF Entered, TypeOK
  <2>5. (Unmapping(b) => pgd[Dir(va[b])] # 0)'
    BY <1>b, <1>c DEF Entered, TypeOK, Unmapping
  <2>6. (pc[b] = "m_memset" => \A v \in own : Dir(v) # Dir(va[b]))'
    BY <1>b DEF Entered, TypeOK
  <2>7. (pc[b] = "m_memset" =>
           \A a \in Callers : pc[a] = "m_invlpg" \/ Unmapping(a) => Dir(va[a]) # Dir(va[b]))'
    BY <1>b DEF Entered, TypeOK, Unmapping
  <2> QED
    BY <2>2, <2>4, <2>5, <2>6, <2>7
<1>4. Cached'
  <2>1. \A b \in Callers : Unmapping(b) =>
           Unmapping(b)' /\ va'[b] = va[b] /\ page'[b] = page[b]
    BY <1>b DEF Unmapping, TypeOK
  <2> QED
    BY <1>0, <1>b, <2>1, SameCached
<1>5. Roles' /\ Kept'
  <2>1. FreeTop' = FreeTop
    BY <1>b DEF FreeTop, TypeOK
  <2>2. \A b \in Callers : Held(b)' = Held(b)
    BY <1>b DEF Held, TypeOK
  <2> QED
    BY <1>0, <1>b, <2>1, <2>2, SameRoles
<1> QED
  BY <1>1, <1>2, <1>3, <1>4, <1>5

(* Reading the directory entry moves no frame.                             *)
LEMMA Safe_m_pgd ==
  ASSUME Base, Base', Apart, ~raced, ~Races', InReach, Safe,
         NEW c \in Callers, m_pgd(c)
  PROVE  Safe'
<1> USE MemAssumption DEF Base, Safe
<1>a. pc[c] = "m_pgd" /\ va[c] \in Pages /\ Dir(va[c]) \in Dirs
  BY PageFacts DEF m_pgd, At, Distinct, Idle
<1>b. /\ UNCHANGED <<stack, top, pgd, pt, tlb, boot, page_addr, va, t, page, own>>
      /\ \A b \in Callers : b # c => pc'[b] = pc[b] /\ ret'[b] = ret[b] /\ tab'[b] = tab[b]
      /\ \/ pc'[c] = "a_assert"
         \/ pc'[c] = "m_pte" /\ tab'[c] = pgd[Dir(va[c])] /\ tab'[c] # 0
  <2>1. CASE pgd[Dir(va[c])] = 0
    BY <1>a, <2>1 DEF m_pgd, booted, hw, Goto, TypeOK
  <2>2. CASE pgd[Dir(va[c])] # 0
    BY <1>a, <2>2 DEF m_pgd, booted, hw, Goto, TypeOK
  <2> QED
    BY <2>1, <2>2
<1>0. \A v \in own : Walk(v)' = Walk(v)
  BY <1>b DEF Walk
<1>1. Stacked'
  BY <1>a, <1>b DEF Stacked
<1>2. Filled'
  BY <1>a, <1>b DEF Filled, Mapping, Unmapping, Popping, Pushing
<1>3. Entered'
  <2>1. \A v \in own' : pgd'[Dir(v)] # 0
    BY <1>b DEF Entered
  <2> SUFFICES ASSUME NEW b \in Callers
      PROVE  (/\ pc[b] \in {"m_memset", "m_pte", "m_invlpg"} => tab[b] # 0 /\ pgd[Dir(va[b])] = tab[b]
              /\ pc[b] = "m_invlpg" => pt[tab[b]][Slot(va[b])] = page[b]
              /\ Unmapping(b) => pgd[Dir(va[b])] # 0
              /\ pc[b] = "m_memset" =>
                   /\ \A v \in own : Dir(v) # Dir(va[b])
                   /\ \A a \in Callers : pc[a] = "m_invlpg" \/ Unmapping(a) => Dir(va[a]) # Dir(va[b]))'
    BY <2>1 DEF Entered
  <2>2. (pc[b] = "m_invlpg" => pt[tab[b]][Slot(va[b])] = page[b])'
    BY <1>b DEF Entered
  <2>4. (pc[b] \in {"m_memset", "m_pte", "m_invlpg"} => tab[b] # 0 /\ pgd[Dir(va[b])] = tab[b])'
    BY <1>b DEF Entered
  <2>5. (Unmapping(b) => pgd[Dir(va[b])] # 0)'
    BY <1>b DEF Entered, Unmapping
  <2>6. (pc[b] = "m_memset" => \A v \in own : Dir(v) # Dir(va[b]))'
    BY <1>b DEF Entered
  <2>7. (pc[b] = "m_memset" =>
           \A a \in Callers : pc[a] = "m_invlpg" \/ Unmapping(a) => Dir(va[a]) # Dir(va[b]))'
    BY <1>b DEF Entered, Unmapping
  <2> QED
    BY <2>2, <2>4, <2>5, <2>6, <2>7
<1>4. Cached'
  <2>1. \A b \in Callers : Unmapping(b) =>
           Unmapping(b)' /\ va'[b] = va[b] /\ page'[b] = page[b]
    BY <1>a, <1>b DEF Unmapping
  <2> QED
    BY <1>0, <1>b, <2>1, SameCached
<1>5. Roles' /\ Kept'
  <2>1. FreeTop' = FreeTop
    BY <1>a, <1>b DEF FreeTop
  <2>2. \A b \in Callers : Held(b)' = Held(b)
    BY <1>a, <1>b DEF Held
  <2> QED
    BY <1>0, <1>b, <2>1, <2>2, SameRoles
<1> QED
  BY <1>1, <1>2, <1>3, <1>4, <1>5

(* After invlpg the TLB holds nothing of the page.                         *)
LEMMA Safe_u_invlpg ==
  ASSUME Base, Base', Apart, ~raced, ~Races', InReach, Safe,
         NEW c \in Callers, u_invlpg(c)
  PROVE  Safe'
<1> USE MemAssumption DEF Base, Safe, u_invlpg, booted, hw, frame, At, Goto, Flushed
<1>0. \A v \in own : Walk(v)' = Walk(v)
  BY DEF Walk
<1>1. Stacked'
  BY DEF Stacked, TypeOK
<1>2. Filled'
  BY DEF Filled, TypeOK, Mapping, Unmapping, Popping, Pushing
<1>3. Entered'
  <2>1. \A b \in Callers :
           \/ pc'[b] = pc[b] /\ tab'[b] = tab[b] /\ page'[b] = page[b] /\ va'[b] = va[b]
           \/ pc'[b] \notin {"m_memset", "m_pte", "m_invlpg", "u_pte", "u_invlpg"}
    BY DEF TypeOK
  <2> QED
    BY <2>1, SameEntered
<1>4. Cached'
  <2>1. pc[c] = "u_invlpg" /\ va[c] \in Pages
    BY DEF Distinct, Idle
  <2> SUFFICES ASSUME NEW v \in Pages, tlb'[v] # 0
      PROVE  \/ v \in own' /\ tlb'[v] = Walk(v)'
             \/ \E b \in Callers : Unmapping(b)' /\ va'[b] = v /\ tlb'[v] = page'[b]
    BY DEF Cached
  <2>2. v # va[c] /\ tlb'[v] = tlb[v]
    BY <2>1 DEF TypeOK
  <2>3. CASE v \in own /\ tlb[v] = Walk(v)
    BY <1>0, <2>2, <2>3
  <2>4. ASSUME NEW b \in Callers, Unmapping(b), va[b] = v, tlb[v] = page[b]
        PROVE  Unmapping(b)' /\ va'[b] = v /\ tlb'[v] = page'[b]
    BY <2>2, <2>4 DEF Unmapping, TypeOK
  <2> QED
    BY <2>2, <2>3, <2>4 DEF Cached
<1>5. Roles' /\ Kept'
  <2>1. FreeTop' = FreeTop
    BY DEF FreeTop, TypeOK
  <2>2. \A b \in Callers : Held(b)' = Held(b)
    BY DEF Held, TypeOK
  <2> QED
    BY <1>0, <2>1, <2>2, SameRoles
<1> QED
  BY <1>1, <1>2, <1>3, <1>4, <1>5

(* Lowering _top takes the top frame off the stack and into the hand of the *)
(* call, which alone works on the stack.                                   *)
LEMMA Safe_a_store ==
  ASSUME Base, Base', Apart, ~raced, ~Races', InReach, Safe,
         NEW c \in Callers, a_store(c)
  PROVE  Safe'
<1> USE MemAssumption DEF Base, Safe
<1>a. pc[c] = "a_store" /\ t[c] = top /\ top \in 1 .. MaxFrames
  BY DEF a_store, At, Stacked, TypeOK
<1>b. /\ UNCHANGED <<stack, pgd, pt, tlb, boot, page_addr, va, t, ret, page, tab, own>>
      /\ top' = top - 1 /\ pc' = [pc EXCEPT ![c] = "a_read"]
  BY <1>a, ModLower DEF a_store, booted, hw, frame, Goto, Lowered
<1>c. \A b \in Callers : b # c => ~Popping(b) /\ ~Pushing(b) /\ pc'[b] = pc[b]
  BY <1>a, <1>b, Alone DEF Apart, Popping, TypeOK
<1>d. /\ FreeTop = top /\ FreeTop' = top - 1
      /\ stack[top] \in Free /\ stack[top] # 0 /\ pc'[c] = "a_read"
  <2>1. pc'[c] = "a_read"
    BY <1>b DEF TypeOK
  <2>2. FreeTop = top /\ FreeTop' = top - 1
    BY <1>a, <1>b, <1>c, <2>1 DEF FreeTop, Pushing
  <2> QED
    BY <1>a, <2>1, <2>2 DEF Free, Roles
<1>0. \A v \in own : Walk(v)' = Walk(v)
  BY <1>b DEF Walk
<1>1. Stacked'
  BY <1>a, <1>b, <1>c, <1>d DEF Stacked, Popping, Pushing
<1>2. Filled'
  <2>1. Mapping(c) => page[c] \in InHand
    BY DEF Filled, InHand, Held
  <2>2. page[c] # stack[top]
    <3>1. CASE ret[c] = "table"
      BY <1>a, <1>d, <2>1, <3>1 DEF Roles, Mapping, Popping
    <3>2. CASE ret[c] = "page"
      BY <1>a, <1>d, <3>2 DEF Locals, Popping
    <3> QED
      BY <3>1, <3>2 DEF TypeOK
  <2> QED
    BY <1>a, <1>b, <1>c, <1>d, <2>2 DEF Filled, Mapping, Unmapping, Popping, Pushing
<1>3. Entered'
  <2>1. \A b \in Callers :
           \/ pc'[b] = pc[b] /\ tab'[b] = tab[b] /\ page'[b] = page[b] /\ va'[b] = va[b]
           \/ pc'[b] \notin {"m_memset", "m_pte", "m_invlpg", "u_pte", "u_invlpg"}
    BY <1>b, <1>c, <1>d
  <2> QED
    BY <1>b, <2>1, SameEntered
<1>4. Cached'
  <2>1. \A b \in Callers : Unmapping(b) =>
           Unmapping(b)' /\ va'[b] = va[b] /\ page'[b] = page[b]
    BY <1>a, <1>b, <1>c DEF Unmapping
  <2> QED
    BY <1>0, <1>b, <2>1, SameCached
<1>5. Roles' /\ Kept'
  <2>1. Free' = Free \ {stack[top]}
    BY <1>a, <1>b, <1>d DEF Free, Roles
  <2>2. Tables' = Tables /\ Mapped' = Mapped
    BY <1>b, <1>0 DEF Tables, Mapped
  <2>3. Held(c)' = Held(c) \cup {stack[top]}
    BY <1>a, <1>b, <1>d DEF Held
  <2>4. \A b \in Callers : b # c => Held(b)' = Held(b)
    BY <1>b, <1>c DEF Held
  <2>5. InHand' = InHand \cup {stack[top]}
    BY <2>3, <2>4 DEF InHand
  <2>6. \A b \in Callers : stack[top] \notin Held(b)
    BY <1>d DEF Roles, InHand
  <2>8. (\A i, j \in 1 .. FreeTop : stack[i] = stack[j] => i = j)'
    BY <1>a, <1>b, <1>d DEF Roles
  <2>9. (\A d, e \in Dirs : pgd[d] = pgd[e] /\ pgd[d] # 0 => d = e)'
    BY <1>b DEF Roles
  <2>10. (\A v, w \in own : Walk(v) = Walk(w) => v = w)'
    BY <1>0, <1>b DEF Roles
  <2>11. (\A a, b \in Callers : Held(a) \cap Held(b) # {} => a = b)'
    BY <2>3, <2>4, <2>6 DEF Roles
  <2>12. (/\ Free \cap Tables = {} /\ Mapped \cap (Free \cup Tables) = {}
          /\ InHand \cap (Free \cup Tables \cup Mapped) = {}
          /\ 0 \notin Free \cup Mapped)'
    BY <1>d, <2>1, <2>2, <2>5 DEF Roles
  <2>13. Roles'
    BY <2>8, <2>9, <2>10, <2>11, <2>12 DEF Roles
  <2>14. Kept'
    BY <1>b, <1>d, <2>1, <2>2, <2>5 DEF Kept
  <2> QED
    BY <2>13, <2>14
<1> QED
  BY <1>1, <1>2, <1>3, <1>4, <1>5

(* Entering the table moves its frame from the hand of the call to the     *)
(* directory; the entry was still absent.                                  *)
LEMMA Safe_m_set ==
  ASSUME Base, Base', Apart, ~raced, ~Races', InReach, Safe,
         NEW c \in Callers, m_set(c)
  PROVE  Safe'
<1> USE MemAssumption DEF Base, Safe
<1>a. /\ pc[c] = "m_set" /\ va[c] \in Pages /\ Dir(va[c]) \in Dirs
      /\ pgd[Dir(va[c])] = 0 /\ tab[c] \notin {0, page[c]} /\ page[c] # 0
  BY PageFacts DEF m_set, At, Distinct, Idle, Apart, Filled, Mapping
<1>b. /\ UNCHANGED <<stack, top, pt, tlb, boot, page_addr, va, t, ret, page, tab, own>>
      /\ pgd'[Dir(va[c])] = tab[c]
      /\ \A d \in Dirs : d # Dir(va[c]) => pgd'[d] = pgd[d]
  BY <1>a DEF m_set, booted, frame, TypeOK
<1>c. pc'[c] = "m_memset" /\ \A b \in Callers : b # c => pc'[b] = pc[b]
  BY <1>a DEF m_set, Goto, TypeOK
<1>d. \A b \in Callers : b # c /\ ~Idle(b) /\ (pc[b] \in {"m_memset", "m_pte"} \/ Building(b)) =>
        Dir(va[b]) # Dir(va[c])
  BY <1>a DEF Apart, Races, Building
<1>0. \A v \in own : Walk(v)' = Walk(v)
  <2> TAKE v \in own
  <2>1. Dir(v) # Dir(va[c]) /\ Dir(v) \in Dirs
    BY <1>a, PageFacts DEF Entered, TypeOK
  <2> QED
    BY <1>b, <2>1 DEF Walk
<1>1. Stacked'
  BY <1>a, <1>b, <1>c DEF Stacked
<1>2. Filled'
  BY <1>a, <1>b, <1>c DEF Filled, Mapping, Unmapping, Popping, Pushing
<1>3. Entered'
  <2>1. \A v \in own' : pgd'[Dir(v)] # 0
    <3> TAKE v \in own'
    <3>1. v \in own /\ Dir(v) \in Dirs
      BY <1>b, PageFacts DEF TypeOK
    <3> QED
      BY <1>a, <1>b, <3>1 DEF Entered
  <2>a. \A b \in Callers : b # c /\ (Unmapping(b) \/ pc[b] = "m_invlpg") =>
          Dir(va[b]) # Dir(va[c])
    BY <1>a DEF Entered
  <2> SUFFICES ASSUME NEW b \in Callers
      PROVE  (/\ pc[b] \in {"m_memset", "m_pte", "m_invlpg"} => tab[b] # 0 /\ pgd[Dir(va[b])] = tab[b]
              /\ pc[b] = "m_invlpg" => pt[tab[b]][Slot(va[b])] = page[b]
              /\ Unmapping(b) => pgd[Dir(va[b])] # 0
              /\ pc[b] = "m_memset" =>
                   /\ \A v \in own : Dir(v) # Dir(va[b])
                   /\ \A a \in Callers : pc[a] = "m_invlpg" \/ Unmapping(a) => Dir(va[a]) # Dir(va[b]))'
    BY <2>1 DEF Entered
  <2>b. ~Idle(b) => Dir(va[b]) \in Dirs
    BY PageFacts DEF Distinct
  <2>2. (pc[b] = "m_invlpg" => pt[tab[b]][Slot(va[b])] = page[b])'
    BY <1>b, <1>c DEF Entered
  <2>4. (pc[b] \in {"m_memset", "m_pte", "m_invlpg"} => tab[b] # 0 /\ pgd[Dir(va[b])] = tab[b])'
    <3>1. CASE b = c
      BY <1>a, <1>b, <3>1
    <3>2. CASE b # c
      BY <1>b, <1>c, <1>d, <2>a, <2>b, <3>2 DEF Entered, Idle
    <3> QED
      BY <3>1, <3>2
  <2>5. (Unmapping(b) => pgd[Dir(va[b])] # 0)'
    BY <1>b, <1>c, <2>a, <2>b DEF Entered, Unmapping, Idle
  <2>6. (pc[b] = "m_memset" => \A v \in own : Dir(v) # Dir(va[b]))'
    BY <1>a, <1>b, <1>c DEF Entered
  <2>7. (pc[b] = "m_memset" =>
           \A a \in Callers : pc[a] = "m_invlpg" \/ Unmapping(a) => Dir(va[a]) # Dir(va[b]))'
    BY <1>b, <1>c, <2>a DEF Entered, Unmapping
  <2> QED
    BY <2>2, <2>4, <2>5, <2>6, <2>7
<1>4. Cached'
  <2>1. \A b \in Callers : Unmapping(b) =>
           Unmapping(b)' /\ va'[b] = va[b] /\ page'[b] = page[b]
    BY <1>a, <1>b, <1>c DEF Unmapping
  <2> QED
    BY <1>0, <1>b, <2>1, SameCached
<1>5. Roles' /\ Kept'
  <2>1. Free' = Free /\ FreeTop' = FreeTop
    BY <1>a, <1>b, <1>c DEF Free, FreeTop
  <2>2. Tables' = Tables \cup {tab[c]}
    BY <1>a, <1>b DEF Tables
  <2>3. Mapped' = Mapped
    BY <1>b, <1>0 DEF Mapped
  <2>4. Held(c) = {page[c], tab[c]} /\ Held(c)' = {page[c]}
    BY <1>a, <1>b, <1>c DEF Held
  <2>5. \A b \in Callers : b # c => Held(b)' = Held(b) /\ tab[c] \notin Held(b)
    BY <1>b, <1>c, <2>4 DEF Held, Roles
  <2>6. InHand' = InHand \ {tab[c]} /\ tab[c] \in InHand
    BY <1>a, <2>4, <2>5 DEF InHand
  <2>7. \A d \in Dirs : pgd[d] # tab[c]
    BY <1>a, <2>6 DEF Roles, Tables
  <2>8. (\A i, j \in 1 .. FreeTop : stack[i] = stack[j] => i = j)'
    BY <1>b, <2>1 DEF Roles
  <2>9. (\A d, e \in Dirs : pgd[d] = pgd[e] /\ pgd[d] # 0 => d = e)'
    BY <1>a, <1>b, <2>7 DEF Roles
  <2>10. (\A v, w \in own : Walk(v) = Walk(w) => v = w)'
    BY <1>0, <1>b DEF Roles
  <2>11. (\A a, b \in Callers : Held(a) \cap Held(b) # {} => a = b)'
    BY <2>4, <2>5 DEF Roles
  <2>12. (/\ Free \cap Tables = {} /\ Mapped \cap (Free \cup Tables) = {}
          /\ InHand \cap (Free \cup Tables \cup Mapped) = {}
          /\ 0 \notin Free \cup Mapped)'
    BY <2>1, <2>2, <2>3, <2>6 DEF Roles
  <2>13. Roles'
    BY <2>8, <2>9, <2>10, <2>11, <2>12 DEF Roles
  <2>14. Kept'
    BY <1>b, <2>1, <2>2, <2>3, <2>6 DEF Kept
  <2> QED
    BY <2>13, <2>14
<1> QED
  BY <1>1, <1>2, <1>3, <1>4, <1>5

(* The end of map hands the frame over to the page in use.                 *)
LEMMA Safe_m_invlpg ==
  ASSUME Base, Base', Apart, ~raced, ~Races', InReach, Safe,
         NEW c \in Callers, m_invlpg(c)
  PROVE  Safe'
<1> USE MemAssumption DEF Base, Safe
<1>a. /\ pc[c] = "m_invlpg" /\ va[c] \in Pages \ own /\ Dir(va[c]) \in Dirs
      /\ page[c] # 0 /\ Walk(va[c]) = page[c] /\ pgd[Dir(va[c])] # 0
  BY PageFacts DEF m_invlpg, At, Distinct, Idle, Filled, Mapping, Entered, Walk
<1>b. /\ UNCHANGED <<stack, top, pgd, pt, boot, page_addr>> /\ own' = own \cup {va[c]}
      /\ tlb'[va[c]] = 0 /\ \A v \in Pages : v # va[c] => tlb'[v] = tlb[v]
  BY <1>a DEF m_invlpg, booted, TypeOK
<1>c. /\ pc'[c] = "idle" /\ page'[c] = 0
      /\ \A b \in Callers : b # c => /\ pc'[b] = pc[b] /\ va'[b] = va[b] /\ t'[b] = t[b]
                                     /\ ret'[b] = ret[b] /\ page'[b] = page[b] /\ tab'[b] = tab[b]
  BY DEF m_invlpg, Return, Goto, TypeOK
<1>0. \A v \in own : Walk(v)' = Walk(v)
  BY <1>b DEF Walk
<1>1. Stacked'
  BY <1>a, <1>b, <1>c DEF Stacked
<1>2. Filled'
  BY <1>a, <1>b, <1>c DEF Filled, Mapping, Unmapping, Popping, Pushing
<1>3. Entered'
  <2>1. \A v \in own' : pgd'[Dir(v)] # 0
    BY <1>a, <1>b DEF Entered
  <2> SUFFICES ASSUME NEW b \in Callers
      PROVE  (/\ pc[b] \in {"m_memset", "m_pte", "m_invlpg"} => tab[b] # 0 /\ pgd[Dir(va[b])] = tab[b]
              /\ pc[b] = "m_invlpg" => pt[tab[b]][Slot(va[b])] = page[b]
              /\ Unmapping(b) => pgd[Dir(va[b])] # 0
              /\ pc[b] = "m_memset" =>
                   /\ \A v \in own : Dir(v) # Dir(va[b])
                   /\ \A a \in Callers : pc[a] = "m_invlpg" \/ Unmapping(a) => Dir(va[a]) # Dir(va[b]))'
    BY <2>1 DEF Entered
  <2>2. (pc[b] = "m_invlpg" => pt[tab[b]][Slot(va[b])] = page[b])'
    BY <1>b, <1>c DEF Entered
  <2>4. (pc[b] \in {"m_memset", "m_pte", "m_invlpg"} => tab[b] # 0 /\ pgd[Dir(va[b])] = tab[b])'
    BY <1>b, <1>c DEF Entered
  <2>5. (Unmapping(b) => pgd[Dir(va[b])] # 0)'
    BY <1>b, <1>c DEF Entered, Unmapping
  <2>6. (pc[b] = "m_memset" => \A v \in own : Dir(v) # Dir(va[b]))'
    BY <1>a, <1>b, <1>c DEF Entered
  <2>7. (pc[b] = "m_memset" =>
           \A a \in Callers : pc[a] = "m_invlpg" \/ Unmapping(a) => Dir(va[a]) # Dir(va[b]))'
    BY <1>b, <1>c DEF Entered, Unmapping
  <2> QED
    BY <2>2, <2>4, <2>5, <2>6, <2>7
<1>4. Cached'
  <2> SUFFICES ASSUME NEW v \in Pages, tlb'[v] # 0
      PROVE  \/ v \in own' /\ tlb'[v] = Walk(v)'
             \/ \E b \in Callers : Unmapping(b)' /\ va'[b] = v /\ tlb'[v] = page'[b]
    BY DEF Cached
  <2>1. v # va[c] /\ tlb'[v] = tlb[v] /\ tlb[v] # 0
    BY <1>b
  <2>2. CASE v \in own /\ tlb[v] = Walk(v)
    BY <1>0, <1>b, <2>1, <2>2
  <2>3. ASSUME NEW b \in Callers, Unmapping(b), va[b] = v, tlb[v] = page[b]
        PROVE  Unmapping(b)' /\ va'[b] = v /\ tlb'[v] = page'[b]
    BY <1>a, <1>c, <2>1, <2>3 DEF Unmapping
  <2> QED
    BY <2>1, <2>2, <2>3 DEF Cached
<1>5. Roles' /\ Kept'
  <2>1. Free' = Free /\ FreeTop' = FreeTop
    BY <1>a, <1>b, <1>c DEF Free, FreeTop
  <2>2. Tables' = Tables
    BY <1>b DEF Tables
  <2>b. PICK u \in Pages : u = va[c]
    BY <1>a
  <2>3. own' = own \cup {u} /\ Walk(u)' = page[c]
    BY <1>a, <1>b, <2>b DEF Walk
  <2>a. Mapped' = Mapped \cup {page[c]}
    BY <1>b, <1>0, <2>3 DEF Mapped
  <2>4. Held(c) = {page[c]} /\ Held(c)' = {}
    BY <1>a, <1>c DEF Held
  <2>5. \A b \in Callers : b # c => Held(b)' = Held(b) /\ page[c] \notin Held(b)
    BY <1>b, <1>c, <2>4 DEF Held, Roles
  <2>6. InHand' = InHand \ {page[c]} /\ page[c] \in InHand
    BY <2>4, <2>5 DEF InHand
  <2>7. \A v \in own : Walk(v) # page[c]
    BY <2>6 DEF Roles, Mapped
  <2>8. (\A i, j \in 1 .. FreeTop : stack[i] = stack[j] => i = j)'
    BY <1>b, <2>1 DEF Roles
  <2>9. (\A d, e \in Dirs : pgd[d] = pgd[e] /\ pgd[d] # 0 => d = e)'
    BY <1>b DEF Roles
  <2>10. (\A v, w \in own : Walk(v) = Walk(w) => v = w)'
    BY <1>0, <1>b, <2>3, <2>7 DEF Roles
  <2>11. (\A a, b \in Callers : Held(a) \cap Held(b) # {} => a = b)'
    BY <2>4, <2>5 DEF Roles
  <2>12. (/\ Free \cap Tables = {} /\ Mapped \cap (Free \cup Tables) = {}
          /\ InHand \cap (Free \cup Tables \cup Mapped) = {}
          /\ 0 \notin Free \cup Mapped)'
    BY <1>a, <2>1, <2>2, <2>a, <2>6 DEF Roles
  <2>13. Roles'
    BY <2>8, <2>9, <2>10, <2>11, <2>12 DEF Roles
  <2>14. Kept'
    BY <1>b, <2>1, <2>2, <2>a, <2>6 DEF Kept
  <2> QED
    BY <2>13, <2>14
<1> QED
  BY <1>1, <1>2, <1>3, <1>4, <1>5

(* A call that takes a page away holds its frame from then on.             *)
LEMMA Safe_get_mapping ==
  ASSUME Base, Base', Apart, ~raced, ~Races', InReach, Safe,
         NEW c \in Callers, NEW v \in Pages, get_mapping(c, v)
  PROVE  Safe'
<1> USE MemAssumption DEF Base, Safe
<1>a. /\ pc[c] = "idle" /\ page[c] = 0 /\ v \in own /\ Dir(v) \in Dirs /\ pgd[Dir(v)] # 0
      /\ Walk(v) \in Mapped /\ Walk(v) # 0
  <2>1. v \in own /\ pc[c] = "idle"
    BY DEF get_mapping, At
  <2>2. Walk(v) \in Mapped
    BY <2>1 DEF Mapped
  <2> QED
    BY <2>1, <2>2, PageFacts DEF Locals, Idle, Entered, Roles
<1>b. /\ UNCHANGED <<stack, top, pgd, pt, tlb, boot, page_addr, t, ret, tab>> /\ own' = own \ {v}
      /\ pc'[c] = "u_pte" /\ va'[c] = v /\ page'[c] = Walk(v)
  BY <1>a DEF get_mapping, hw, booted, Goto, TypeOK
<1>c. \A b \in Callers : b # c => pc'[b] = pc[b] /\ va'[b] = va[b] /\ page'[b] = page[b]
  BY DEF get_mapping, Goto, TypeOK
<1>0. \A u \in own : Walk(u)' = Walk(u)
  BY <1>b DEF Walk
<1>1. Stacked'
  BY <1>b, <1>c DEF Stacked
<1>2. Filled'
  BY <1>a, <1>b, <1>c DEF Filled, Mapping, Unmapping, Popping, Pushing
<1>3. Entered'
  <2>1. \A u \in own' : pgd'[Dir(u)] # 0
    BY <1>b DEF Entered
  <2> SUFFICES ASSUME NEW b \in Callers
      PROVE  (/\ pc[b] \in {"m_memset", "m_pte", "m_invlpg"} => tab[b] # 0 /\ pgd[Dir(va[b])] = tab[b]
              /\ pc[b] = "m_invlpg" => pt[tab[b]][Slot(va[b])] = page[b]
              /\ Unmapping(b) => pgd[Dir(va[b])] # 0
              /\ pc[b] = "m_memset" =>
                   /\ \A u \in own : Dir(u) # Dir(va[b])
                   /\ \A a \in Callers : pc[a] = "m_invlpg" \/ Unmapping(a) => Dir(va[a]) # Dir(va[b]))'
    BY <2>1 DEF Entered
  <2>2. (pc[b] = "m_invlpg" => pt[tab[b]][Slot(va[b])] = page[b])'
    BY <1>b, <1>c DEF Entered
  <2>4. (pc[b] \in {"m_memset", "m_pte", "m_invlpg"} => tab[b] # 0 /\ pgd[Dir(va[b])] = tab[b])'
    BY <1>b, <1>c DEF Entered
  <2>5. (Unmapping(b) => pgd[Dir(va[b])] # 0)'
    BY <1>a, <1>b, <1>c DEF Entered, Unmapping
  <2>6. (pc[b] = "m_memset" => \A u \in own : Dir(u) # Dir(va[b]))'
    BY <1>b, <1>c DEF Entered
  <2>7. (pc[b] = "m_memset" =>
           \A a \in Callers : pc[a] = "m_invlpg" \/ Unmapping(a) => Dir(va[a]) # Dir(va[b]))'
    BY <1>a, <1>b, <1>c DEF Entered, Unmapping
  <2> QED
    BY <2>2, <2>4, <2>5, <2>6, <2>7
<1>4. Cached'
  <2> SUFFICES ASSUME NEW u \in Pages, tlb'[u] # 0
      PROVE  \/ u \in own' /\ tlb'[u] = Walk(u)'
             \/ \E b \in Callers : Unmapping(b)' /\ va'[b] = u /\ tlb'[u] = page'[b]
    BY DEF Cached
  <2>1. tlb'[u] = tlb[u] /\ tlb[u] # 0
    BY <1>b
  <2>2. CASE u \in own /\ tlb[u] = Walk(u) /\ u # v
    BY <1>0, <1>b, <2>1, <2>2
  <2>3. CASE tlb[u] = Walk(u) /\ u = v
    BY <1>b, <2>1, <2>3 DEF Unmapping
  <2>4. ASSUME NEW b \in Callers, Unmapping(b), va[b] = u, tlb[u] = page[b]
        PROVE  Unmapping(b)' /\ va'[b] = u /\ tlb'[u] = page'[b]
    BY <1>a, <1>c, <2>1, <2>4 DEF Unmapping
  <2> QED
    BY <2>1, <2>2, <2>3, <2>4 DEF Cached
<1>5. Roles' /\ Kept'
  <2>1. Free' = Free /\ FreeTop' = FreeTop
    BY <1>a, <1>b, <1>c DEF Free, FreeTop
  <2>2. Tables' = Tables
    BY <1>b DEF Tables
  <2>3. Mapped' = Mapped \ {Walk(v)}
    BY <1>a, <1>b, <1>0 DEF Mapped, Roles
  <2>4. Held(c) = {} /\ Held(c)' = {Walk(v)}
    BY <1>a, <1>b DEF Held
  <2>5. \A b \in Callers : b # c => Held(b)' = Held(b) /\ Walk(v) \notin Held(b)
    BY <1>a, <1>b, <1>c DEF Held, Roles, InHand
  <2>6. InHand' = InHand \cup {Walk(v)}
    BY <2>4, <2>5 DEF InHand
  <2>8. (\A i, j \in 1 .. FreeTop : stack[i] = stack[j] => i = j)'
    BY <1>b, <2>1 DEF Roles
  <2>9. (\A d, e \in Dirs : pgd[d] = pgd[e] /\ pgd[d] # 0 => d = e)'
    BY <1>b DEF Roles
  <2>10. (\A u, w \in own : Walk(u) = Walk(w) => u = w)'
    BY <1>0, <1>b DEF Roles
  <2>11. (\A a, b \in Callers : Held(a) \cap Held(b) # {} => a = b)'
    BY <2>4, <2>5 DEF Roles
  <2>12. (/\ Free \cap Tables = {} /\ Mapped \cap (Free \cup Tables) = {}
          /\ InHand \cap (Free \cup Tables \cup Mapped) = {}
          /\ 0 \notin Free \cup Mapped)'
    BY <1>a, <2>1, <2>2, <2>3, <2>6 DEF Roles
  <2>13. Roles'
    BY <2>8, <2>9, <2>10, <2>11, <2>12 DEF Roles
  <2>14. Kept'
    BY <1>a, <1>b, <2>1, <2>2, <2>3, <2>6 DEF Kept
  <2> QED
    BY <2>13, <2>14
<1> QED
  BY <1>1, <1>2, <1>3, <1>4, <1>5

(* Writing the slot moves the frame from the hand of the call to the stack. *)
LEMMA Safe_f_write ==
  ASSUME Base, Base', Apart, ~raced, ~Races', InReach, Safe,
         NEW c \in Callers, f_write(c)
  PROVE  Safe'
<1> USE MemAssumption DEF Base, Safe
<1>a. /\ pc[c] = "f_write" /\ page[c] # 0 /\ top \in 1 .. MaxFrames
  BY DEF f_write, At, Filled, Pushing, Stacked, TypeOK
<1>b. /\ UNCHANGED <<top, pgd, pt, tlb, boot, page_addr, own>>
      /\ stack'[top] = page[c]
      /\ \A i \in 0 .. MaxFrames : i # top => stack'[i] = stack[i]
  BY <1>a DEF f_write, hw, booted, TypeOK
<1>c. /\ pc'[c] = "idle" /\ page'[c] = 0
      /\ \A b \in Callers : b # c => /\ pc'[b] = pc[b] /\ va'[b] = va[b] /\ t'[b] = t[b]
                                     /\ ret'[b] = ret[b] /\ page'[b] = page[b] /\ tab'[b] = tab[b]
  BY DEF f_write, Return, Goto, TypeOK
<1>d. \A b \in Callers : b # c => ~Popping(b) /\ ~Pushing(b)
  BY <1>a, Alone DEF Apart, Pushing
<1>0. \A v \in own : Walk(v)' = Walk(v)
  BY <1>b DEF Walk
<1>1. Stacked'
  BY <1>a, <1>b, <1>c, <1>d DEF Stacked, Popping, Pushing
<1>2. Filled'
  BY <1>a, <1>b, <1>c, <1>d DEF Filled, Mapping, Unmapping, Popping, Pushing
<1>3. Entered'
  <2>1. \A b \in Callers :
           \/ pc'[b] = pc[b] /\ tab'[b] = tab[b] /\ page'[b] = page[b] /\ va'[b] = va[b]
           \/ pc'[b] \notin {"m_memset", "m_pte", "m_invlpg", "u_pte", "u_invlpg"}
    BY <1>c
  <2> QED
    BY <1>b, <2>1, SameEntered
<1>4. Cached'
  <2>1. \A b \in Callers : Unmapping(b) =>
           Unmapping(b)' /\ va'[b] = va[b] /\ page'[b] = page[b]
    BY <1>a, <1>b, <1>c DEF Unmapping
  <2> QED
    BY <1>0, <1>b, <2>1, SameCached
<1>5. Roles' /\ Kept'
  <2>0. FreeTop = top - 1 /\ FreeTop' = top
    BY <1>a, <1>b, <1>c, <1>d DEF FreeTop, Pushing
  <2>1. Free' = Free \cup {page[c]}
    BY <1>a, <1>b, <2>0 DEF Free
  <2>2. Tables' = Tables /\ Mapped' = Mapped
    BY <1>b, <1>0 DEF Tables, Mapped
  <2>4. Held(c) = {page[c]} /\ Held(c)' = {}
    BY <1>a, <1>c DEF Held
  <2>5. \A b \in Callers : b # c => Held(b)' = Held(b) /\ page[c] \notin Held(b)
    BY <1>c, <1>d, <2>4 DEF Held, Roles, Popping
  <2>6. InHand' = InHand \ {page[c]} /\ page[c] \in InHand
    BY <2>4, <2>5 DEF InHand
  <2>7. \A i \in 1 .. top - 1 : stack[i] # page[c]
    BY <2>0, <2>6 DEF Roles, Free
  <2>8. (\A i, j \in 1 .. FreeTop : stack[i] = stack[j] => i = j)'
    BY <1>a, <1>b, <2>0, <2>7 DEF Roles
  <2>9. (\A d, e \in Dirs : pgd[d] = pgd[e] /\ pgd[d] # 0 => d = e)'
    BY <1>b DEF Roles
  <2>10. (\A v, w \in own : Walk(v) = Walk(w) => v = w)'
    BY <1>0, <1>b DEF Roles
  <2>11. (\A a, b \in Callers : Held(a) \cap Held(b) # {} => a = b)'
    BY <2>4, <2>5 DEF Roles
  <2>12. (/\ Free \cap Tables = {} /\ Mapped \cap (Free \cup Tables) = {}
          /\ InHand \cap (Free \cup Tables \cup Mapped) = {}
          /\ 0 \notin Free \cup Mapped)'
    BY <1>a, <2>1, <2>2, <2>6 DEF Roles
  <2>13. Roles'
    BY <2>8, <2>9, <2>10, <2>11, <2>12 DEF Roles
  <2>14. Kept'
    BY <1>b, <2>1, <2>2, <2>6 DEF Kept
  <2> QED
    BY <2>13, <2>14
<1> QED
  BY <1>1, <1>2, <1>3, <1>4, <1>5

(* A write to a page in use goes to its own frame and spares every table.  *)
LEMMA Safe_Access ==
  ASSUME Base, Base', Apart, ~raced, ~Races', InReach, Safe,
         NEW v \in Pages, Access(v)
  PROVE  Safe'
<1> USE MemAssumption DEF Base, Safe
<1>a. v \in own /\ Walk(v) \in Mapped /\ Walk(v) \in 0 .. MaxFrames /\ Walk(v) # 0
  <2>1. v \in own
    BY DEF Access
  <2> QED
    BY <2>1, WalkType DEF Mapped, Roles
<1>b. tlb[v] \in {0, Walk(v)}
  BY <1>a DEF Cached, Unmapping, Distinct, Idle
<1>c. /\ UNCHANGED <<stack, top, pgd, boot, page_addr, pc, own, va, t, ret, page, tab>>
      /\ tlb' = [tlb EXCEPT ![v] = Walk(v)] /\ pt' = [pt EXCEPT ![Walk(v)] = Junk]
  BY <1>b DEF Access, booted, frame
<1>d. \A f \in Tables : f # Walk(v)
  BY <1>a DEF Roles
<1>e. \A d \in Dirs : pgd[d] # 0 => pt'[pgd[d]] = pt[pgd[d]]
  BY <1>c, <1>d DEF Tables, TypeOK
<1>0. \A u \in own : Walk(u)' = Walk(u)
  <2> TAKE u \in own
  <2>1. Dir(u) \in Dirs
    BY PageFacts DEF TypeOK
  <2> QED
    BY <1>c, <1>e, <2>1 DEF Walk
<1>1. Stacked'
  BY <1>c DEF Stacked
<1>2. Filled'
  BY <1>c DEF Filled, Mapping, Unmapping, Popping, Pushing
<1>3. Entered'
  <2>1. \A b \in Callers : pc[b] = "m_invlpg" => pt'[tab[b]] = pt[tab[b]]
    BY <1>e, PageFacts DEF Entered, Distinct, Idle
  <2> QED
    BY <1>c, <2>1 DEF Entered, Unmapping
<1>4. Cached'
  <2>1. tlb \in [Pages -> 0 .. MaxFrames]
    BY DEF TypeOK
  <2>2. tlb'[v] = Walk(v) /\ v \in own' /\ Walk(v)' = Walk(v)
    BY <1>0, <1>a, <1>c, <2>1
  <2>3. ASSUME NEW u \in Pages, u # v, tlb'[u] # 0
        PROVE  \/ u \in own' /\ tlb'[u] = Walk(u)'
               \/ \E c \in Callers : Unmapping(c)' /\ va'[c] = u /\ tlb'[u] = page'[c]
    <3>1. tlb'[u] = tlb[u]
      BY <1>c, <2>1, <2>3
    <3>2. CASE u \in own /\ tlb[u] = Walk(u)
      BY <1>0, <1>c, <3>1, <3>2
    <3>3. CASE \E c \in Callers : Unmapping(c) /\ va[c] = u /\ tlb[u] = page[c]
      BY <1>c, <3>1, <3>3 DEF Unmapping
    <3> QED
      BY <2>3, <3>1, <3>2, <3>3 DEF Cached
  <2> QED
    BY <2>2, <2>3 DEF Cached
<1>5. Roles' /\ Kept'
  <2>1. FreeTop' = FreeTop
    BY <1>c DEF FreeTop
  <2>2. \A b \in Callers : Held(b)' = Held(b)
    BY <1>c DEF Held
  <2> QED
    BY <1>0, <1>c, <2>1, <2>2, SameRoles
<1> QED
  BY <1>1, <1>2, <1>3, <1>4, <1>5

-----------------------------------------------------------------------------
(* What init_page leaves is safe.                                          *)
LEMMA FreshSafe ==
  Base /\ Fresh => Safe /\ InReach /\ Apart /\ Pristine
<1> SUFFICES ASSUME Base, Fresh
             PROVE  Safe /\ InReach /\ Apart /\ Pristine
  OBVIOUS
<1> USE MemAssumption DEF Base
<1>1. FreeTop = top /\ top \in 0 .. MaxFrames /\ page_addr \in FirstFrame .. MaxFrames + 1
  BY DEF Fresh, FreeTop, Booting, TypeOK
<1>2. Free = FirstFrame .. page_addr - 1
  <2>1. \A i \in 1 .. top : stack[i] = FirstFrame + i - 1
    BY DEF Fresh
  <2>2. \A f \in FirstFrame .. page_addr - 1 : f - FirstFrame + 1 \in 1 .. top /\ stack[f - FirstFrame + 1] = f
    BY <1>1, <2>1 DEF Fresh
  <2>3. \A i \in 1 .. top : stack[i] \in FirstFrame .. page_addr - 1
    BY <1>1, <2>1 DEF Fresh
  <2> QED
    BY <1>1, <2>2, <2>3 DEF Free
<1>3. Tables = {} /\ Mapped = {}
  BY DEF Fresh, Tables, Mapped
<1>4. \A c \in Callers : Held(c) = {}
  BY DEF Fresh, Held, Locals, Idle
<1>5. InHand = {}
  BY <1>4 DEF InHand
<1>6. Roles
  <2>1. \A i, j \in 1 .. FreeTop : stack[i] = stack[j] => i = j
    BY <1>1 DEF Fresh
  <2>2. \A d, e \in Dirs : pgd[d] = pgd[e] /\ pgd[d] # 0 => d = e
    BY DEF Fresh
  <2>3. \A v, w \in own : Walk(v) = Walk(w) => v = w
    BY DEF Fresh
  <2>4. 0 \notin Free
    BY <1>2
  <2> QED
    BY <1>3, <1>4, <1>5, <2>1, <2>2, <2>3, <2>4 DEF Roles
<1>7. Kept
  BY <1>2, <1>3, <1>5 DEF Kept
<1>8. Stacked /\ Filled /\ Entered /\ Cached
  BY <1>1 DEF Fresh, Stacked, Filled, Entered, Cached, Mapping, Unmapping, Popping, Pushing
<1>9. InReach
  BY <1>3 DEF InReach
<1>10. Apart
  BY DEF Fresh, Apart, Races, Popping, Pushing, Building
<1>11. Pristine
  BY <1>1, <1>9 DEF Fresh, Pristine, Taken, Popping
<1> QED
  BY <1>6, <1>7, <1>8, <1>9, <1>10, <1>11 DEF Safe

(* Races shows in raced, and a directory entry found absent stays absent   *)
(* until the call that found it so fills it.                               *)
LEMMA ApartStep ==
  ASSUME Base, Apart, NEW c \in Callers,
         Work(c) \/ \E v \in Pages : grow(c, v) \/ get_mapping(c, v),
         raced' = (raced \/ Races')
  PROVE  Apart'
<1> SUFFICES ASSUME ~raced, ~Races', ~Races, NEW b \in Callers,
                    (pc[b] = "m_set" \/ (Popping(b) /\ ret[b] = "table"))'
             PROVE  pgd'[Dir(va'[b])] = 0
  BY DEF Apart
<1> DEFINE Before(a) == pc[a] = "m_set" \/ (Popping(a) /\ ret[a] = "table")
<1>0. \A a \in Callers : Before(a) => pgd[Dir(va[a])] = 0
  BY DEF Apart
<1> USE DEF Base, At, Goto, hw, booted, frame
<1>1. CASE b # c /\ ~m_set(c)
  <2>1. Before(b) /\ va'[b] = va[b] /\ pgd' = pgd
    BY <1>1 DEF Work, alloc_page, map, unmap, free_page, a_assert, a_load, a_store, a_read,
       m_pgd, m_memset, m_pte, m_invlpg, u_pte, u_invlpg, f_assert, f_load, f_store, f_write,
       grow, get_mapping, Return, Popping, TypeOK
  <2> QED
    BY <1>0, <2>1
<1>2. CASE b # c /\ m_set(c)
  <2>1. Before(b) /\ va'[b] = va[b] /\ Building(b) /\ Building(c)
    BY <1>2 DEF m_set, Popping, TypeOK, Building
  <2>2. Dir(va[b]) # Dir(va[c])
    BY <1>2, <2>1 DEF Races
  <2>3. va[b] \in Pages /\ va[c] \in Pages
    BY <1>2, <2>1 DEF Distinct, Idle, Popping, m_set
  <2> QED
    BY <1>0, <1>2, <2>1, <2>2, <2>3, PageFacts DEF m_set, TypeOK
<1>3. CASE b = c
  <2>1. CASE alloc_page(c)
    BY <1>0, <1>3, <2>1 DEF alloc_page, a_assert, a_load, a_store, a_read, Popping, TypeOK
  <2>2. CASE m_pgd(c)
    <3>1. CASE pgd[Dir(va[c])] = 0
      BY <1>3, <2>2, <3>1 DEF m_pgd
    <3>2. CASE pgd[Dir(va[c])] # 0
      BY <1>3, <2>2, <3>2 DEF m_pgd, Popping, TypeOK
    <3> QED
      BY <3>1, <3>2
  <2>3. CASE map(c) /\ ~m_pgd(c)
    BY <1>3, <2>3 DEF map, m_set, m_memset, m_pte, m_invlpg, Return, Onward, Popping, TypeOK
  <2>4. CASE unmap(c) \/ free_page(c)
    BY <1>3, <2>4 DEF unmap, free_page, u_pte, u_invlpg, f_assert, f_load, f_store, f_write,
       Return, Onward, Popping, TypeOK
  <2>5. CASE \E v \in Pages : grow(c, v) \/ get_mapping(c, v)
    BY <1>3, <2>5 DEF grow, get_mapping, Popping, TypeOK, Locals, Idle
  <2> QED
    BY <2>1, <2>2, <2>3, <2>4, <2>5 DEF Work
<1> QED
  BY <1>1, <1>2, <1>3

(* No step of a call brings a table back into reach.                       *)
LEMMA ReachBefore ==
  ASSUME Base, Apart, ~raced, NEW c \in Callers,
         Work(c) \/ \E v \in Pages : grow(c, v) \/ get_mapping(c, v), InReach'
  PROVE  InReach
<1>1. CASE m_set(c)
  <2>1. pc[c] = "m_set" /\ pgd[Dir(va[c])] = 0
    BY <1>1 DEF m_set, At, Apart
  <2>2. \A d \in Dirs : pgd[d] # 0 => pgd'[d] = pgd[d]
    BY <1>1, <2>1 DEF m_set, Base, TypeOK
  <2> QED
    BY <2>2 DEF InReach, Tables
<1>2. CASE ~m_set(c)
  <2>1. pgd' = pgd
    BY <1>2 DEF Work, alloc_page, map, unmap, free_page, a_assert, a_load, a_store, a_read,
       m_pgd, m_memset, m_pte, m_invlpg, u_pte, u_invlpg, f_assert, f_load, f_store, f_write,
       grow, get_mapping, hw
  <2> QED
    BY <2>1 DEF InReach, Tables
<1> QED
  BY <1>1, <1>2

(* Frames leave the stack from the top until one is given back.            *)
LEMMA PristineStep ==
  ASSUME Base, ~raced, Pristine, InReach => Safe, NEW c \in Callers,
         \/ Work(c) /\ UNCHANGED freed
         \/ \E v \in Pages : grow(c, v) \/ get_mapping(c, v)
  PROVE  Pristine'
<1> USE MemAssumption DEF Base
<1> SUFFICES ASSUME ~freed' PROVE Pristine'
  BY DEF Pristine
<1>N. PICK N \in 0 .. MaxFrames : N = page_addr - FirstFrame /\ N <= MaxFrames + 1 - FirstFrame
  BY DEF Booting
<1>0. ~freed /\ page_addr' = page_addr
  BY DEF Work, alloc_page, map, unmap, free_page, a_assert, a_load, a_store, a_read,
     m_pgd, m_set, m_memset, m_pte, m_invlpg, u_pte, u_invlpg, f_assert, f_load, f_store, f_write,
     grow, get_mapping, booted, TypeOK
<1>1. /\ InReach /\ top <= N
      /\ \A i \in 1 .. N : stack[i] = FirstFrame + i - 1
      /\ \A b \in Callers : /\ Taken(b) => top < N
                            /\ pc[b] = "a_read" => t[b] <= N
                            /\ pc[b] = "a_read" /\ ret[b] = "table" => t[b] < N
                            /\ pc[b] = "m_set" => Direct(tab[b])
  BY <1>0, <1>N DEF Pristine
<1>2. ~Unmapping(c) /\ ~Pushing(c)
  BY <1>0 DEF Locals
<1>3. SUFFICES /\ InReach' /\ top' <= N
               /\ \A i \in 1 .. N : stack'[i] = FirstFrame + i - 1
               /\ \A b \in Callers : (/\ Taken(b) => top < N
                                      /\ pc[b] = "a_read" => t[b] <= N
                                      /\ pc[b] = "a_read" /\ ret[b] = "table" => t[b] < N
                                      /\ pc[b] = "m_set" => Direct(tab[b]))'
  BY <1>0, <1>N DEF Pristine
<1>4. Safe
  BY <1>1
<1>5. CASE a_store(c)
  <2>1. pc[c] = "a_store" /\ t[c] = top /\ top \in 1 .. MaxFrames
    BY <1>4, <1>5 DEF a_store, At, Safe, Stacked, TypeOK
  <2>2. /\ top' = top - 1 /\ UNCHANGED <<stack, pgd, t, ret, tab>>
        /\ pc'[c] = "a_read" /\ \A b \in Callers : b # c => pc'[b] = pc[b]
    <3>1. top' = top - 1
      BY <1>5, <2>1, ModLower DEF a_store, Lowered
    <3> QED
      BY <1>5, <3>1 DEF a_store, hw, frame, Goto, TypeOK
  <2>3. InReach'
    BY <1>1, <2>2 DEF InReach, Tables
  <2>4. ret[c] = "table" => top < N
    BY <1>1, <2>1 DEF Taken, Popping
  <2> QED
    BY <1>0, <1>1, <2>1, <2>2, <2>3, <2>4 DEF Taken, Popping
<1>6. CASE a_read(c)
  <2>1. pc[c] = "a_read" /\ t[c] \in 1 .. N /\ t[c] \in 0 .. MaxFrames
    <3>1. pc[c] = "a_read" /\ t[c] = top + 1 /\ top \in 0 .. MaxFrames - 1
      BY <1>4, <1>6 DEF a_read, At, Safe, Stacked, TypeOK
    <3> QED
      BY <1>1, <3>1
  <2>2. Word(t[c]) = {stack[t[c]]}
    BY <2>1 DEF Word
  <2>3. /\ UNCHANGED <<stack, top, pgd, t, ret>>
        /\ \/ ret[c] = "page" /\ pc'[c] = "m_pgd"
           \/ ret[c] = "table" /\ pc'[c] = "m_set" /\ tab'[c] = stack[t[c]]
        /\ \A b \in Callers : b # c => pc'[b] = pc[b] /\ tab'[b] = tab[b]
    <3>1. PICK f \in {stack[t[c]]} :
            \/ ret[c] = "page" /\ page' = [page EXCEPT ![c] = f] /\ Goto(c, "m_pgd") /\ UNCHANGED tab
            \/ ret[c] = "table" /\ tab' = [tab EXCEPT ![c] = f] /\ Goto(c, "m_set") /\ UNCHANGED page
      BY <1>6, <2>2 DEF a_read
    <3>2. UNCHANGED <<stack, top, pgd, t, ret>>
      BY <1>6 DEF a_read, hw
    <3>3. CASE ret[c] = "page"
      BY <3>1, <3>2, <3>3 DEF Goto, TypeOK
    <3>4. CASE ret[c] = "table"
      BY <3>1, <3>2, <3>4 DEF Goto, TypeOK
    <3> QED
      BY <3>3, <3>4 DEF TypeOK
  <2>4. InReach'
    BY <1>1, <2>3 DEF InReach, Tables
  <2>5. ret[c] = "table" => Direct(stack[t[c]])
    <3> SUFFICES ASSUME ret[c] = "table" PROVE Direct(stack[t[c]])
      OBVIOUS
    <3>1. t[c] \in 1 .. N - 1 /\ stack[t[c]] = FirstFrame + t[c] - 1
      BY <1>0, <1>1, <2>1
    <3> QED
      BY <1>N, <3>1 DEF Direct
  <2>6. Taken(c)
    BY <2>1 DEF Taken
  <2> QED
    BY <1>1, <2>3, <2>4, <2>5, <2>6 DEF Taken, Popping
<1>7. CASE m_set(c)
  <2>1. pc[c] = "m_set" /\ Direct(tab[c]) /\ Taken(c)
    BY <1>1, <1>7 DEF m_set, At, Taken
  <2>2. /\ UNCHANGED <<stack, top, t, ret, tab>> /\ pgd' = [pgd EXCEPT ![Dir(va[c])] = tab[c]]
        /\ pc'[c] = "m_memset" /\ \A b \in Callers : b # c => pc'[b] = pc[b]
    BY <1>7 DEF m_set, frame, Goto, TypeOK
  <2>3. InReach'
    BY <1>1, <2>1, <2>2 DEF InReach, Tables, TypeOK
  <2> QED
    BY <1>1, <2>1, <2>2, <2>3 DEF Taken, Popping
<1>8. CASE \/ a_assert(c) \/ a_load(c) \/ m_pgd(c) \/ m_memset(c) \/ m_pte(c) \/ m_invlpg(c)
           \/ \E v \in Pages : grow(c, v)
  <2>1. /\ UNCHANGED <<stack, top, pgd>> /\ pc'[c] \notin {"a_read", "m_set"}
        /\ \A b \in Callers : b # c => /\ pc'[b] = pc[b] /\ tab'[b] = tab[b]
                                       /\ t'[b] = t[b] /\ ret'[b] = ret[b]
    BY <1>8 DEF a_assert, a_load, m_pgd, m_memset, m_pte, m_invlpg, grow, hw, frame, Goto, Onward,
       Return, TypeOK
  <2>2. Taken(c)' => Taken(c)
    BY <1>8 DEF a_assert, a_load, m_pgd, m_memset, m_pte, m_invlpg, grow, At, hw, frame, Goto,
       Onward, Return, TypeOK, Taken, Popping, Locals, Idle
  <2>3. InReach'
    BY <1>1, <2>1 DEF InReach, Tables
  <2> QED
    BY <1>1, <2>1, <2>2, <2>3 DEF Taken, Popping
<1>9. CASE unmap(c) \/ free_page(c)
  BY <1>2, <1>9 DEF unmap, free_page, u_pte, u_invlpg, f_assert, f_load, f_store, f_write, At,
     Unmapping, Pushing
<1>10. CASE \E v \in Pages : get_mapping(c, v)
  BY <1>10 DEF get_mapping
<1> QED
  BY <1>5, <1>6, <1>7, <1>8, <1>9, <1>10 DEF Work, alloc_page, map

-----------------------------------------------------------------------------

(* The initial state has the invariant.                                    *)
LEMMA InitInv == Init => IInv
<1> SUFFICES ASSUME Init PROVE IInv
  OBVIOUS
<1>1. Base /\ Fresh
  BY InitBase DEF Base, Booting, Init
<1> QED
  BY <1>1, FreshSafe DEF IInv, Base

(* Every step keeps the invariant.                                         *)
LEMMA NextInv ==
  ASSUME IInv, [Next]_vars
  PROVE  IInv'
<1>0. Base
  BY DEF IInv, Base
<1>1. CASE UNCHANGED vars
  <2> USE <1>1 DEF vars, hw, booted, frame
  <2>1. Base'
    BY <1>0 DEF Base, TypeOK, Booting, Fresh, Distinct, Locals, Idle, Popping, Pushing, Unmapping
  <2>2. Apart'
    BY DEF IInv, Apart, Races, Popping, Pushing, Building
  <2>3. (Quiet => Safe)'
    <3>1. Quiet' = Quiet /\ Walk(CHOOSE x : TRUE)' = Walk(CHOOSE x : TRUE)
      BY DEF Quiet, InReach, Tables, Walk
    <3>2. (Stacked /\ Filled /\ Entered /\ Cached)' = (Stacked /\ Filled /\ Entered /\ Cached)
      BY DEF Stacked, Filled, Entered, Cached, Mapping, Unmapping, Popping, Pushing, Walk
    <3> QED
      BY <3>1, <3>2, SameRoles DEF IInv, Safe, Walk, FreeTop, Held
  <2>4. Pristine'
    BY DEF IInv, Pristine, InReach, Tables, Taken, Popping
  <2> QED
    BY <2>1, <2>2, <2>3, <2>4 DEF IInv, Base
<1>2. CASE init_page \/ init_vmm
  <2>1. Base'
    BY <1>0, <1>2, Base_init
  <2>2. Fresh'
    <3>1. CASE boot' # "up"
      BY <2>1, <3>1 DEF Base, Booting
    <3>2. CASE boot' = "up"
      BY <1>0, <1>2, <3>2 DEF init_page, init_vmm, Base, Booting, Fresh, frame, hw
    <3> QED
      BY <3>1, <3>2
  <2>3. (Base /\ Fresh => Safe /\ InReach /\ Apart /\ Pristine)'
    BY FreshSafe, PTL
  <2> QED
    BY <2>1, <2>2, <2>3 DEF IInv, Base
<1>3. ASSUME NEW v \in Pages, Access(v) PROVE IInv'
  <2>1. Base'
    BY <1>0, <1>3, Base_Access
  <2>2. UNCHANGED <<stack, top, pgd, page_addr, pc, va, t, ret, tab, raced, freed>>
    BY <1>3 DEF Access, booted, frame
  <2>3. Apart' /\ (~raced => ~Races')
    BY <2>2 DEF IInv, Apart, Races, Popping, Pushing, Building
  <2>4. Pristine'
    BY <2>2 DEF IInv, Pristine, InReach, Tables, Taken, Popping
  <2>5. Quiet' => Quiet
    BY <2>2 DEF Quiet, InReach, Tables
  <2>6. Quiet => Safe'
    BY <1>0, <1>3, <2>1, <2>3, Safe_Access DEF IInv, Quiet
  <2> QED
    BY <2>1, <2>3, <2>4, <2>5, <2>6 DEF IInv, Base
<1>4. ASSUME NEW c \in Callers,
             \/ Work(c) /\ UNCHANGED freed
             \/ \E v \in Pages : grow(c, v) \/ get_mapping(c, v),
             raced' = (raced \/ Races')
      PROVE  IInv'
  <2>0. raced' \in BOOLEAN
    BY <1>4
  <2>1. Base'
    BY <1>0, <1>4, <2>0, Base_enter, Base_alloc_page, Base_map, Base_unmap, Base_free_page DEF Work
  <2>2. Apart'
    BY <1>0, <1>4, ApartStep DEF IInv
  <2>3. Pristine'
    <3>1. CASE raced'
      BY <3>1 DEF Pristine
    <3>2. CASE ~raced'
      BY <1>0, <1>4, <3>2, PristineStep DEF IInv, Quiet
    <3> QED
      BY <3>1, <3>2
  <2>4. ASSUME Quiet' PROVE Safe'
    <3>1. ~raced /\ ~Races'
      BY <1>4, <2>4 DEF Quiet
    <3>2. InReach
      BY <1>0, <1>4, <2>4, <3>1, ReachBefore DEF IInv, Quiet
    <3>3. Safe
      BY <3>1, <3>2 DEF IInv, Quiet
    <3> USE <1>0, <2>1, <3>1, <3>2, <3>3
    <3>4. CASE alloc_page(c)
      BY <3>4, Safe_a_assert, Safe_a_load, Safe_a_store, Safe_a_read DEF IInv, alloc_page
    <3>5. CASE map(c)
      BY <3>5, Safe_m_pgd, Safe_m_set, Safe_m_memset, Safe_m_pte, Safe_m_invlpg DEF IInv, map
    <3>6. CASE unmap(c)
      BY <3>6, Safe_u_pte, Safe_u_invlpg DEF IInv, unmap
    <3>7. CASE free_page(c)
      BY <3>7, Safe_f_assert, Safe_f_load, Safe_f_store, Safe_f_write DEF IInv, free_page
    <3>8. CASE \E v \in Pages : grow(c, v) \/ get_mapping(c, v)
      BY <3>8, Safe_grow, Safe_get_mapping DEF IInv
    <3> QED
      BY <1>4, <3>4, <3>5, <3>6, <3>7, <3>8 DEF Work
  <2> QED
    BY <2>1, <2>2, <2>3, <2>4 DEF IInv, Base
<1> QED
  BY <1>1, <1>2, <1>3, <1>4 DEF Next

(* Every behaviour of memory.c, boot included, keeps the invariant.        *)
THEOREM Invariance == Spec => []IInv
<1>1. IInv /\ [Next]_vars => IInv'
  BY NextInv
<1> QED
  BY <1>1, InitInv, PTL DEF Spec

(* The variables keep their types: no index of _stack is out of range when *)
(* a frame is pushed at boot, and every count fits uint32_t.               *)
THEOREM TypeCorrect == Spec => []TypeOK
<1>1. IInv => TypeOK
  BY DEF IInv
<1> QED
  BY <1>1, Invariance, PTL

(* Without a race a frame has one role at most: alloc_page and free_page   *)
(* (memory.c:35-48) and map and unmap never give one frame to two users.   *)
THEOREM RoleSafety == Spec => []OneRole
<1>1. IInv => OneRole
  BY DEF IInv, Quiet, Safe, Roles, OneRole
<1> QED
  BY <1>1, Invariance, PTL

(* Without a race the TLB agrees with the page tables for every page in use *)
(* and holds no frame that is free or a table: the invlpg of map and unmap *)
(* (memory.c:88,106) come early enough.                                    *)
THEOREM TlbSafety == Spec => []TlbSafe
<1>1. IInv => TlbSafe
  <2> SUFFICES ASSUME IInv, ~raced, InReach PROVE TlbSafe
    BY DEF TlbSafe
  <2>1. Safe
    BY DEF IInv, Quiet
  <2>2. \A v \in own : tlb[v] \in {0, Walk(v)}
    <3> TAKE v \in own
    <3>1. v \in Pages /\ \A c \in Callers : Unmapping(c) => va[c] # v
      BY DEF IInv, TypeOK, Distinct, Unmapping, Idle
    <3> QED
      BY <2>1, <3>1 DEF Safe, Cached
  <2>3. ASSUME NEW v \in Pages, tlb[v] # 0 PROVE tlb[v] \notin Free \cup Tables
    <3>1. tlb[v] \in Mapped \cup InHand
      BY <2>1, <2>3 DEF Safe, Cached, Mapped, InHand, Held
    <3> QED
      BY <2>1, <3>1 DEF Safe, Roles
  <2> QED
    BY <2>2, <2>3 DEF TlbSafe
<1> QED
  BY <1>1, Invariance, PTL

(* Without a race no frame that init_page found is ever lost, and init_page *)
(* never meets the bound that free_page asserts (memory.c:44).             *)
THEOREM LeakFreedom == Spec => []NoLeak
<1>1. IInv => NoLeak
  BY DEF IInv, Booting, Quiet, Safe, Kept, NoLeak
<1> QED
  BY <1>1, Invariance, PTL

(* Until a page is given back, map reaches every page table through the    *)
(* direct map (memory.c:27,59): the frame it does not reach is taken first. *)
THEOREM ReachSafety == Spec => []TablesInReach
<1>1. IInv => TablesInReach
  BY DEF IInv, Pristine, TablesInReach
<1> QED
  BY <1>1, Invariance, PTL
=============================================================================
