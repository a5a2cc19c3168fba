-------------------------------- MODULE Heap --------------------------------
(***************************************************************************)
(* The kernel heap: kmalloc of memlib.c.                                   *)
(*                                                                         *)
(* The heap is a list of headers that live in the memory they manage.      *)
(* `hdr' is that memory, kept where a header has been written: a partial   *)
(* function from addresses to header_t.  kmalloc takes no lock and is      *)
(* called by testMalloc (F1) and init_thread (F2), both inside keyboard    *)
(* interrupts that have enabled interrupts again, so several Callers may   *)
(* be inside it; one action is one iteration of a loop, or one store to    *)
(* the list or to mm_top.                                                  *)
(***************************************************************************)
EXTENDS Naturals, FiniteSets

CONSTANTS
  Callers,    \* contexts that may be inside kmalloc at the same time
  Sizes,      \* sizes requested
  H,          \* sizeof(header_t)
  PAGE_SIZE,
  V_MM_START, \* first address of the heap
  MaxPages,   \* bound: pages alloc_page and map can still provide
  UintMod     \* 2^32, the range of uint32_t

ASSUME HeapAssumption ==
  /\ Sizes \subseteq Nat /\ H \in Nat \ {0} /\ PAGE_SIZE \in Nat \ {0}
  /\ V_MM_START \in Nat \ {0} /\ V_MM_START % PAGE_SIZE = 0 /\ MaxPages \in Nat
  /\ UintMod \in Nat /\ V_MM_START + MaxPages * PAGE_SIZE < UintMod

NULL == 0

VARIABLES
  first, mm_top, hdr, mapped,  \* the globals; the headers in memory, the mapped pages
  pc, size, node, prev, maddr, \* locals of each caller
  live,                        \* blocks handed out: [obj, size], as asked for
  spoilt                       \* history: calls have raced, or a size has wrapped

heap   == <<first, mm_top, hdr, mapped>>
locals == <<size, node, prev, maddr>>
vars   == <<heap, pc, locals, live, spoilt>>

(* length has 31 bits.                                                     *)
Header == [prev : Nat, next : Nat, used : BOOLEAN, length : 0 .. UintMod \div 2 - 1]
Length(s) == s % (UintMod \div 2)

Init ==
  /\ first = NULL /\ mm_top = V_MM_START /\ hdr = [x \in {} |-> 0] /\ mapped = {}
  /\ pc = [c \in Callers |-> "idle"]
  /\ size = [c \in Callers |-> 0]
  /\ node = [c \in Callers |-> NULL] /\ prev = [c \in Callers |-> NULL]
  /\ maddr = [c \in Callers |-> NULL]
  /\ live = {} /\ spoilt = FALSE

(* Memory with header h written at address x.                              *)
Write(m, x, h) == [y \in DOMAIN m \cup {x} |-> IF y = x THEN h ELSE m[y]]

At(c, l)   == pc[c] = l
Goto(c, l) == pc' = [pc EXCEPT ![c] = l]

(* The caller gets the address behind header x, for the bytes it asked for *)
(* (size - sizeof(header_t), read as it was before the addition wrapped).  *)
(* Its locals are gone.                                                    *)
Return(c, x) ==
  /\ live' = live \cup {[obj |-> x + H, size |-> (size[c] + UintMod - H) % UintMod]}
  /\ Goto(c, "idle")
  /\ size' = [size EXCEPT ![c] = 0] /\ node' = [node EXCEPT ![c] = NULL]
  /\ prev' = [prev EXCEPT ![c] = NULL] /\ maddr' = [maddr EXCEPT ![c] = NULL]

(* Two calls that may not be there at the same time: both are past the end *)
(* of the list, about to append to it, or one is about to write the first  *)
(* header, to which `first' points already.                                *)
Appends(c) == \/ pc[c] \in {"extend", "map", "add", "write", "link", "panic"}
              \/ pc[c] = "scan" /\ node[c] = NULL

Races == \E c \in Callers : \E b \in Callers \ {c} :
           Appends(c) /\ (Appends(b) \/ (DOMAIN hdr = {} /\ pc[b] # "idle"))

-----------------------------------------------------------------------------
Padded(s) == (s + H) % UintMod

Head == first

(* Calls begun after the heap was spoilt are not followed.                 *)
kmalloc(c, s) ==
  /\ At(c, "idle") /\ ~spoilt
  /\ size' = [size EXCEPT ![c] = Padded(s)]
  /\ node' = [node EXCEPT ![c] = Head]
  /\ prev' = [prev EXCEPT ![c] = NULL]
  /\ Goto(c, "scan")
  /\ UNCHANGED <<heap, maddr, live>>
  /\ spoilt' = (spoilt \/ s + H >= UintMod \div 2 \/ Races')

(* A free block that is large enough is cut if more than a header would be *)
(* left: the header of the rest is written BEHIND the block, at its old    *)
(* length, not at the size cut off.                                        *)
Take(m, x, s) ==
  LET n    == m[x]
      rest == x + n.length
  IN IF n.length > H + s
     THEN Write(Write(m, rest, [prev |-> x, next |-> n.next, used |-> FALSE,
                                length |-> n.length - s]),
                x, [n EXCEPT !.next = rest, !.length = s, !.used = TRUE])
     ELSE Write(m, x, [n EXCEPT !.used = TRUE])

(* Mutant of Place: length is taken for that of the caller's part.         *)
Place_obj(c) == IF prev[c] # NULL THEN prev[c] + hdr[prev[c]].length - H ELSE V_MM_START

(* Where a new block goes: behind the last header, or at the start of an   *)
(* empty heap.                                                             *)
Place(c) == IF prev[c] # NULL THEN prev[c] + hdr[prev[c]].length ELSE V_MM_START

scan_end(c) ==
  /\ At(c, "scan") /\ node[c] = NULL
  /\ maddr' = [maddr EXCEPT ![c] = Place(c)]
  /\ first' = IF prev[c] # NULL THEN first ELSE V_MM_START
  /\ Goto(c, "extend")
  /\ UNCHANGED <<mm_top, hdr, mapped, size, node, prev, live>>
  /\ spoilt' = (spoilt \/ Place(c) + size[c] >= UintMod \/ Races')

(* One iteration of the search.  Reading a header where none has been      *)
(* written faults if the page is not mapped (page_fault never returns); if *)
(* it is, what is read is arbitrary and not followed further.              *)
Page(x) == x - (x % PAGE_SIZE)

scan(c) ==
  /\ At(c, "scan") /\ node[c] # NULL
  /\ LET n == hdr[node[c]] IN
     IF node[c] \notin DOMAIN hdr
     THEN /\ Goto(c, IF Page(node[c]) \in mapped THEN "wild" ELSE "fault")
          /\ UNCHANGED <<hdr, locals, live>>
     ELSE IF ~n.used /\ n.length >= size[c]
     THEN /\ hdr' = Take(hdr, node[c], size[c])
          /\ Return(c, node[c])
     ELSE /\ prev' = [prev EXCEPT ![c] = node[c]]
          /\ node' = [node EXCEPT ![c] = n.next]
          /\ UNCHANGED <<hdr, pc, size, maddr, live>>
  /\ UNCHANGED <<first, mm_top, mapped>>
  /\ spoilt' = (spoilt \/ Races')

(* Mutant of End: it forgets where the block starts.                       *)
End_short(c) == V_MM_START + size[c]

End(c) == (maddr[c] + size[c]) % UintMod

(* The loop that maps pages up to the end of the block: the test, and      *)
(* alloc_page, which asserts that a frame is left and otherwise never      *)
(* returns ...                                                             *)
extend(c) ==
  /\ At(c, "extend")
  /\ Goto(c, IF mm_top >= End(c) THEN "write"
             ELSE IF mm_top < V_MM_START + MaxPages * PAGE_SIZE THEN "map" ELSE "panic")
  /\ UNCHANGED <<heap, locals, live, spoilt>>

(* ... map, at what mm_top then is ...                                     *)
map_page(c) ==
  /\ At(c, "map")
  /\ mapped' = mapped \cup {mm_top}
  /\ Goto(c, "add")
  /\ UNCHANGED <<first, mm_top, hdr, locals, live, spoilt>>

(* Mutant of Step: mm_top is not advanced.                                 *)
Step_zero == 0

Step == PAGE_SIZE

(* ... and mm_top += PAGE_SIZE.                                            *)
add_page(c) ==
  /\ At(c, "add")
  /\ mm_top' = mm_top + Step
  /\ Goto(c, "extend")
  /\ UNCHANGED <<first, hdr, mapped, locals, live, spoilt>>

(* Mutant of NewHeader: the back pointer is lost.                          *)
NewHeader_noprev(c) == [prev |-> NULL, next |-> NULL, used |-> TRUE, length |-> Length(size[c])]

NewHeader(c) == [prev |-> prev[c], next |-> NULL, used |-> TRUE, length |-> Length(size[c])]

(* The header of the new block ...                                         *)
write(c) ==
  /\ At(c, "write")
  /\ IF Page(maddr[c]) \in mapped
     THEN hdr' = Write(hdr, maddr[c], NewHeader(c)) /\ Goto(c, "link")
     ELSE Goto(c, "fault") /\ UNCHANGED hdr
  /\ UNCHANGED <<first, mm_top, mapped, locals, live, spoilt>>

(* ... and the pointer to it from the header that was the last.            *)
link(c) ==
  /\ At(c, "link")
  /\ hdr' = IF prev[c] # NULL
            THEN Write(hdr, prev[c], [hdr[prev[c]] EXCEPT !.next = maddr[c]])
            ELSE hdr
  /\ Return(c, maddr[c])
  /\ UNCHANGED <<first, mm_top, mapped, spoilt>>

Work(c) == \/ scan(c) \/ scan_end(c) \/ extend(c) \/ map_page(c) \/ add_page(c)
           \/ write(c) \/ link(c)

Next == \E c \in Callers : Work(c) \/ \E s \in Sizes : kmalloc(c, s)

Spec == Init /\ [][Next]_vars
-----------------------------------------------------------------------------
(***************************************************************************)
(* Properties.                                                             *)
(***************************************************************************)
TypeOK ==
  /\ first \in Nat /\ mm_top \in Nat /\ mapped \subseteq Nat
  /\ DOMAIN hdr \subseteq Nat \ {NULL} /\ \A x \in DOMAIN hdr : hdr[x] \in Header
  /\ pc \in [Callers -> {"idle", "scan", "extend", "map", "add", "write", "link",
                         "panic", "fault", "wild"}]
  /\ size \in [Callers -> Nat] /\ maddr \in [Callers -> Nat]
  /\ node \in [Callers -> Nat] /\ prev \in [Callers -> Nat]
  /\ \A b \in live : b.obj \in Nat /\ b.size \in Nat
  /\ spoilt \in BOOLEAN

(* kmalloc is an allocator: each call hands out mapped memory that nobody  *)
(* else was given, also when calls overlap in their searches, until two    *)
(* calls append at the same time or a size or an address wraps.            *)
A == INSTANCE Allocator

Allocates == A!Spec

(* Until then the headers are safe: none lies in what a caller may write,  *)
(* and no call reads one where none has been written, although kmalloc     *)
(* sets `first' (memlib.c:38) before the memory there holds a header.      *)
HeadersSafe == ~spoilt =>
  /\ \A b \in live : \A x \in DOMAIN hdr : x + H <= b.obj \/ b.obj + b.size <= x
  /\ \A c \in Callers : pc[c] \notin {"fault", "wild"}

(* Between appends the headers tile the heap: each one's successor starts  *)
(* where it ends, and points back; the last ends below mm_top, and below   *)
(* mm_top every page is mapped.                                            *)
Tiled == (~spoilt /\ \A c \in Callers : ~Appends(c)) =>
  /\ first \in DOMAIN hdr \cup {NULL}
  /\ \A x \in DOMAIN hdr :
       LET n == hdr[x] IN
       /\ n.used /\ x + n.length <= mm_top
       /\ n.next # NULL => /\ n.next = x + n.length /\ n.next \in DOMAIN hdr
                           /\ hdr[n.next].prev = x
       /\ n.prev = NULL <=> x = first
  /\ mapped = {x \in V_MM_START .. mm_top - 1 : x % PAGE_SIZE = 0}

(* A call whose stack keeps getting the CPU ends, unless alloc_page has    *)
(* stopped it for want of memory: its search meets the end of the list     *)
(* whatever the others do to it.  Nothing is asked of the others: a call   *)
(* that lies under a nested F1 or F2, which waits for the user on the same *)
(* stack (test.c:46-51, 106-112), may stay where it is for ever, in the    *)
(* middle of an append included.                                           *)
Returns == \A c \in Callers :
  WF_vars(Work(c)) => (pc[c] # "idle" ~> (spoilt \/ pc[c] \in {"idle", "panic"}))
=============================================================================
