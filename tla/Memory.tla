------------------------------- MODULE Memory -------------------------------
(***************************************************************************)
(* Physical page frames and the kernel page tables: memory.c.              *)
(*                                                                         *)
(* `stack' and `top' are _stack and _top, the LIFO of free frames.  `pgd'  *)
(* holds the directory entries of the heap area (memlib.h:6), `pt' the     *)
(* contents of every frame seen as a page table, `tlb' what the processor  *)
(* has cached.  0 stands for an absent entry and for the null frame.       *)
(*                                                                         *)
(* The kernel calls memory.c from threads and from interrupt handlers that *)
(* have enabled interrupts, and takes no lock: each call is one of the     *)
(* Callers, broken into the accesses gcc -O0 compiles its statements to.   *)
(* A caller grows the heap area by a page as the loop of memlib.c:41-44    *)
(* does, or takes a page away as memlib.c:95-98 does, given a page that is *)
(* really there.                                                           *)
(***************************************************************************)
EXTENDS Naturals, FiniteSets

CONSTANTS
  Callers,     \* contexts that may be inside memory.c at the same time
  FirstFrame,  \* first frame after the kernel image
  RamEnd,      \* frame after the last one of the multiboot region
  MaxFrames,   \* PAGE_MAX_SIZE = MEMORY_MAX_SIZE / MEMORY_PAGE_SIZE
  Dirs, Slots, \* values of PGD_INDEX and PTE_INDEX in the heap area
  UintMod      \* 2^32, the range of uint32_t

ASSUME MemAssumption ==
  /\ MaxFrames \in Nat /\ FirstFrame \in 1 .. MaxFrames /\ RamEnd \in Nat
  /\ UintMod \in Nat /\ UintMod > MaxFrames + 1

Pages  == Dirs \X Slots      \* a page of virtual addresses, by its indices

VARIABLES
  stack, top,                  \* _stack[], _top
  pgd, pt, tlb,                \* page directory, page tables, TLB
  boot, page_addr,             \* progress of init_page and init_vmm
  pc, va, t, ret, page, tab,   \* locals of each caller
  own,                         \* pages of the heap area in use
  raced, freed                 \* history: two calls have met where they must not;
                               \* a page has been given back

hw     == <<pgd, pt, tlb>>
booted == <<boot, page_addr>>
frame  == <<va, t, ret, page, tab>>
vars   == <<stack, top, hw, booted, pc, own, frame, raced, freed>>

Empty == [s \in Slots |-> 0]
Junk  == [s \in Slots |-> FirstFrame]   \* whatever RAM holds, read as a table

Dir(v)  == v[1]                        \* PGD_INDEX
Slot(v) == v[2]                        \* PTE_INDEX

(* The frames that the direct map at PAGE_OFFSET reaches: as many as       *)
(* MaxFrames, but not the first.  The page behind it is the heap's first.  *)
Direct(f) == f \in 1 .. MaxFrames - 1

(* The translation the page tables give v.                                 *)
Walk(v) == IF pgd[Dir(v)] = 0 THEN 0 ELSE pt[pgd[Dir(v)]][Slot(v)]

Init ==
  /\ stack = [i \in 0 .. MaxFrames |-> 0] /\ top = 0
  /\ pgd = [d \in Dirs |-> 0]
  /\ pt = [f \in 0 .. MaxFrames |-> Junk]
  /\ tlb = [v \in Pages |-> 0]
  /\ boot = "init_page" /\ page_addr = FirstFrame
  /\ pc = [c \in Callers |-> "idle"]
  /\ va = [c \in Callers |-> <<0, 0>>] /\ t = [c \in Callers |-> 0]
  /\ ret = [c \in Callers |-> "page"]
  /\ page = [c \in Callers |-> 0] /\ tab = [c \in Callers |-> 0]
  /\ own = {} /\ raced = FALSE /\ freed = FALSE

-----------------------------------------------------------------------------
InRegion == page_addr < RamEnd /\ page_addr <= MaxFrames

(* Mutant of Found: the address is stepped before it is freed.             *)
Found_late == page_addr + 1

Found == page_addr

(* Boot, with interrupts off.  One iteration of the loop of init_page over *)
(* the region that starts at 1 MB; the bound is <=, not <.                 *)
init_page ==
  /\ boot = "init_page"
  /\ IF InRegion
     THEN /\ IF top # MaxFrames
             THEN /\ top' = top + 1
                  /\ stack' = [stack EXCEPT ![top + 1] = Found]
                  /\ UNCHANGED boot
             ELSE boot' = "panic" /\ UNCHANGED <<stack, top>>
          /\ page_addr' = page_addr + 1
     ELSE /\ boot' = "init_vmm"
          /\ UNCHANGED <<stack, top, page_addr>>
  /\ UNCHANGED <<hw, pc, own, frame, raced, freed>>

(* The directory entries of the heap area stay absent; loading cr3 empties *)
(* the TLB.                                                                *)
init_vmm ==
  /\ boot = "init_vmm"
  /\ tlb' = [v \in Pages |-> 0]
  /\ boot' = "up"
  /\ UNCHANGED <<stack, top, pgd, pt, page_addr, pc, own, frame, raced, freed>>

-----------------------------------------------------------------------------
At(c, l)   == boot = "up" /\ pc[c] = l
Goto(c, l) == pc' = [pc EXCEPT ![c] = l]
Idle(c)    == pc[c] = "idle"
Busy(v)    == \E c \in Callers : ~Idle(c) /\ va[c] = v

(* Where two calls must not meet: anywhere inside alloc_page or free_page; *)
(* or past the test of a directory entry that one of them found absent and *)
(* whose table it has not entered and cleared yet.                         *)
Popping(c)   == pc[c] \in {"a_assert", "a_load", "a_store", "a_read"}
Pushing(c)   == pc[c] \in {"f_assert", "f_load", "f_store", "f_write"}
Building(c)  == pc[c] \in {"m_set", "m_memset"} \/ (Popping(c) /\ ret[c] = "table")

Races == \E c \in Callers : \E b \in Callers \ {c} :
  \/ (Popping(c) \/ Pushing(c)) /\ (Popping(b) \/ Pushing(b))
  \/ /\ Building(c) /\ (Building(b) \/ pc[b] = "m_pte")
     /\ Dir(va[c]) = Dir(va[b])

Tables  == {pgd[d] : d \in Dirs} \ {0}
InReach == \A f \in Tables : Direct(f)

(* A call ends, and its locals are gone.                                   *)
Return(c) ==
  /\ Goto(c, "idle")
  /\ va' = [va EXCEPT ![c] = <<0, 0>>] /\ t' = [t EXCEPT ![c] = 0]
  /\ ret' = [ret EXCEPT ![c] = "page"]
  /\ page' = [page EXCEPT ![c] = 0] /\ tab' = [tab EXCEPT ![c] = 0]

(* page = alloc_page(), for a page that is not mapped ...                  *)
grow(c, v) ==
  /\ At(c, "idle") /\ ~raced /\ InReach /\ v \notin own /\ ~Busy(v)
  /\ va' = [va EXCEPT ![c] = v]
  /\ Goto(c, "a_assert")
  /\ UNCHANGED <<stack, top, hw, booted, t, ret, page, tab, own, freed>>

(* alloc_page: assert(_top != 0), then _stack[_top--] as a load, a store   *)
(* and a read.  A failed assert spins for ever in print_stack_info.        *)
a_assert(c) ==
  /\ At(c, "a_assert")
  /\ Goto(c, IF top # 0 THEN "a_load" ELSE "panic")
  /\ UNCHANGED <<stack, top, hw, booted, own, frame>>

a_load(c) ==
  /\ At(c, "a_load")
  /\ t' = [t EXCEPT ![c] = top]
  /\ Goto(c, "a_store")
  /\ UNCHANGED <<stack, top, hw, booted, va, ret, page, tab, own>>

(* Mutant of Lowered: the decrement is lost.                               *)
Lowered_lost(c) == top

Lowered(c) == (t[c] + UintMod - 1) % UintMod

a_store(c) ==
  /\ At(c, "a_store")
  /\ top' = Lowered(c)
  /\ Goto(c, "a_read")
  /\ UNCHANGED <<stack, hw, booted, own, frame>>

(* The words an index of _stack may read: anything outside the array.      *)
Word(i) == IF i \in 0 .. MaxFrames THEN {stack[i]} ELSE 0 .. MaxFrames

a_read(c) ==
  /\ At(c, "a_read")
  /\ \E f \in Word(t[c]) :
       \/ /\ ret[c] = "page"
          /\ page' = [page EXCEPT ![c] = f]
          /\ Goto(c, "m_pgd") /\ UNCHANGED tab
       \/ /\ ret[c] = "table"
          /\ tab' = [tab EXCEPT ![c] = f]
          /\ Goto(c, "m_set") /\ UNCHANGED page
  /\ UNCHANGED <<stack, top, hw, booted, va, t, ret, own>>

(* ... then map(): a missing page table is a frame of its own, entered in  *)
(* the directory before it is cleared.                                     *)
m_pgd(c) ==
  /\ At(c, "m_pgd")
  /\ LET d == pgd[Dir(va[c])] IN
       IF d = 0
       THEN ret' = [ret EXCEPT ![c] = "table"] /\ Goto(c, "a_assert") /\ UNCHANGED tab
       ELSE tab' = [tab EXCEPT ![c] = d] /\ Goto(c, "m_pte") /\ UNCHANGED ret
  /\ UNCHANGED <<stack, top, hw, booted, va, t, page, own>>

m_set(c) ==
  /\ At(c, "m_set")
  /\ pgd' = [pgd EXCEPT ![Dir(va[c])] = tab[c]]
  /\ Goto(c, "m_memset")
  /\ UNCHANGED <<stack, top, pt, tlb, booted, own, frame>>

(* The kernel reads and writes a table through the direct map.  Outside it *)
(* the store hits the heap or faults: the call is not followed further.    *)
Store(f, table) == IF Direct(f) THEN pt' = [pt EXCEPT ![f] = table] ELSE UNCHANGED pt
Onward(f, l)    == IF Direct(f) THEN l ELSE "astray"

m_memset(c) ==
  /\ At(c, "m_memset")
  /\ Store(tab[c], Empty)
  /\ Goto(c, Onward(tab[c], "m_pte"))
  /\ UNCHANGED <<stack, top, pgd, tlb, booted, own, frame>>

m_pte(c) ==
  /\ At(c, "m_pte")
  /\ Store(tab[c], [pt[tab[c]] EXCEPT ![Slot(va[c])] = page[c]])
  /\ Goto(c, Onward(tab[c], "m_invlpg"))
  /\ UNCHANGED <<stack, top, pgd, tlb, booted, own, frame>>

m_invlpg(c) ==
  /\ At(c, "m_invlpg")
  /\ tlb' = [tlb EXCEPT ![va[c]] = 0]
  /\ own' = own \cup {va[c]}
  /\ Return(c)
  /\ UNCHANGED <<stack, top, pgd, pt, booted>>

-----------------------------------------------------------------------------
(* get_mapping() of a page in use, then unmap() and free_page().  Without  *)
(* an entry get_mapping stores nothing and `page' stays uninitialised.     *)
get_mapping(c, v) ==
  /\ At(c, "idle") /\ ~raced /\ InReach /\ v \in own
  /\ va' = [va EXCEPT ![c] = v]
  /\ \E f \in IF Walk(v) # 0 THEN {Walk(v)} ELSE 0 .. MaxFrames :
       page' = [page EXCEPT ![c] = f]
  /\ own' = own \ {v} /\ freed' = TRUE
  /\ Goto(c, "u_pte")
  /\ UNCHANGED <<stack, top, hw, booted, t, ret, tab>>

u_pte(c) ==
  /\ At(c, "u_pte")
  /\ LET d == pgd[Dir(va[c])] IN
       IF d = 0
       THEN Goto(c, "f_assert") /\ UNCHANGED pt
       ELSE /\ Store(d, [pt[d] EXCEPT ![Slot(va[c])] = 0])
            /\ Goto(c, Onward(d, "u_invlpg"))
  /\ UNCHANGED <<stack, top, pgd, tlb, booted, own, frame>>

(* Mutant of Flushed: no invlpg.                                           *)
Flushed_none(v) == tlb

Flushed(v) == [tlb EXCEPT ![v] = 0]

u_invlpg(c) ==
  /\ At(c, "u_invlpg")
  /\ tlb' = Flushed(va[c])
  /\ Goto(c, "f_assert")
  /\ UNCHANGED <<stack, top, pgd, pt, booted, own, frame>>

(* free_page: assert(_top != PAGE_MAX_SIZE), then _stack[++_top] = p as a  *)
(* load, a store, and a write through the stored index.                    *)
f_assert(c) ==
  /\ At(c, "f_assert")
  /\ Goto(c, IF top # MaxFrames THEN "f_load" ELSE "panic")
  /\ UNCHANGED <<stack, top, hw, booted, own, frame>>

(* Mutant of Raised: the increment is lost.                                *)
Raised_lost == top

Raised == (top + 1) % UintMod

f_load(c) ==
  /\ At(c, "f_load")
  /\ t' = [t EXCEPT ![c] = Raised]
  /\ Goto(c, "f_store")
  /\ UNCHANGED <<stack, top, hw, booted, va, ret, page, tab, own>>

f_store(c) ==
  /\ At(c, "f_store")
  /\ top' = t[c]
  /\ Goto(c, "f_write")
  /\ UNCHANGED <<stack, hw, booted, own, frame>>

f_write(c) ==
  /\ At(c, "f_write")
  /\ stack' = [i \in 0 .. MaxFrames |-> IF i = top THEN page[c] ELSE stack[i]]
  /\ Return(c)
  /\ UNCHANGED <<top, hw, booted, own>>

-----------------------------------------------------------------------------
(* The heap's user writes to a page of its own: through the cached         *)
(* translation if there is one, else through the page tables, which are    *)
(* then cached.  What it writes, read as page table entries, is junk.      *)
Access(v) ==
  /\ boot = "up" /\ v \in own
  /\ LET f == IF tlb[v] # 0 THEN tlb[v] ELSE Walk(v) IN
       /\ tlb' = [tlb EXCEPT ![v] = f]
       /\ pt' = [pt EXCEPT ![f] = Junk]
  /\ UNCHANGED <<stack, top, pgd, booted, pc, own, frame, raced, freed>>

alloc_page(c) == a_assert(c) \/ a_load(c) \/ a_store(c) \/ a_read(c)
map(c)        == m_pgd(c) \/ m_set(c) \/ m_memset(c) \/ m_pte(c) \/ m_invlpg(c)
unmap(c)      == u_pte(c) \/ u_invlpg(c)
free_page(c)  == f_assert(c) \/ f_load(c) \/ f_store(c) \/ f_write(c)

Work(c) == alloc_page(c) \/ map(c) \/ unmap(c) \/ free_page(c)

(* Calls begun after a race, or with a table out of reach, are not         *)
(* followed.                                                               *)
Next ==
  \/ init_page \/ init_vmm
  \/ \E v \in Pages : Access(v)
  \/ /\ \E c \in Callers : \/ Work(c) /\ UNCHANGED freed
                           \/ \E v \in Pages : grow(c, v) \/ get_mapping(c, v)
     /\ raced' = (raced \/ Races')

Spec == Init /\ [][Next]_vars
-----------------------------------------------------------------------------
(***************************************************************************)
(* Properties.                                                             *)
(***************************************************************************)
TypeOK ==
  /\ stack \in [0 .. MaxFrames -> 0 .. MaxFrames] /\ top \in 0 .. UintMod - 1
  /\ pgd \in [Dirs -> 0 .. MaxFrames]
  /\ pt \in [0 .. MaxFrames -> [Slots -> 0 .. MaxFrames]]
  /\ tlb \in [Pages -> 0 .. MaxFrames]
  /\ boot \in {"init_page", "init_vmm", "up", "panic"} /\ page_addr \in Nat
  /\ pc \in [Callers -> {"idle", "a_assert", "a_load", "a_store", "a_read",
                         "m_pgd", "m_set", "m_memset", "m_pte", "m_invlpg",
                         "u_pte", "u_invlpg", "f_assert", "f_load", "f_store",
                         "f_write", "panic", "astray"}]
  /\ va \in [Callers -> Pages \cup {<<0, 0>>}] /\ t \in [Callers -> 0 .. UintMod - 1]
  /\ ret \in [Callers -> {"page", "table"}]
  /\ page \in [Callers -> 0 .. MaxFrames] /\ tab \in [Callers -> 0 .. MaxFrames]
  /\ own \subseteq Pages /\ raced \in BOOLEAN /\ freed \in BOOLEAN

(* Where the frames are: free (free_page has raised _top before it writes  *)
(* its slot), page tables, mapped pages, and in the hands of a call, which *)
(* has them in its locals or is about to read them from the stack.         *)
FreeTop == IF \E c \in Callers : pc[c] = "f_write" THEN top - 1 ELSE top
Free    == {stack[i] : i \in 1 .. FreeTop}
Mapped  == {Walk(v) : v \in own}
Held(c) == ({page[c]} \cup (IF pc[c] = "m_set" THEN {tab[c]} ELSE {})
                      \cup (IF pc[c] = "a_read" THEN {stack[t[c]]} ELSE {})) \ {0}
InHand  == UNION {Held(c) : c \in Callers}

(* A frame has one role at most, until two calls race: no frame is twice   *)
(* on the free stack (memory.c:35-48), is a page table twice, backs two    *)
(* pages in use or is held by two calls, and none of these kinds meet.     *)
OneRole == (~raced /\ InReach) =>
  /\ \A i, j \in 1 .. FreeTop : stack[i] = stack[j] => i = j
  /\ \A d, e \in Dirs : pgd[d] = pgd[e] /\ pgd[d] # 0 => d = e
  /\ \A v, w \in own : Walk(v) = Walk(w) => v = w
  /\ \A b, c \in Callers : Held(b) \cap Held(c) # {} => b = c
  /\ Free \cap Tables = {} /\ Mapped \cap (Free \cup Tables) = {}
  /\ InHand \cap (Free \cup Tables \cup Mapped) = {}
  /\ 0 \notin Free \cup Mapped

(* Every access goes where the page tables say: for a page in use the TLB  *)
(* holds its entry or nothing, and no translation of a page given back is  *)
(* left behind (invlpg at memory.c:88,106) when its frame becomes free,    *)
(* whatever other calls do between the steps of unmap.                     *)
TlbSafe == (~raced /\ InReach) =>
  /\ \A v \in own : tlb[v] \in {0, Walk(v)}
  /\ \A v \in Pages : tlb[v] # 0 => tlb[v] \notin Free \cup Tables

(* No frame init_page found is ever lost: at every moment each of them is  *)
(* free, a page table, mapped, or in the hands of a call that has not      *)
(* ended; and init_page does not meet the bound of free_page (memory.c:44) *)
(* although its loop runs to MEMORY_MAX_SIZE inclusive.                    *)
NoLeak == boot # "panic" /\ ((boot = "up" /\ ~raced /\ InReach) =>
  Free \cup Tables \cup Mapped \cup InHand = FirstFrame .. page_addr - 1)

(* The loop of init_page also frees the frame at MEMORY_MAX_SIZE, which    *)
(* the direct map does not reach (memory.c:27,59).  It is the first to be  *)
(* taken, and it is taken for a page, not for a table: until a page is     *)
(* given back, map reaches every table.                                    *)
TablesInReach == (~raced /\ ~freed) => InReach

(* What assert(_top != 0) of alloc_page (memory.c:36) is there for: no     *)
(* frame is taken from an empty stack.                                     *)
NeverEmptyPop == \A c \in Callers : pc[c] = "a_store" => t[c] # 0
=============================================================================
