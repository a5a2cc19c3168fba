------------------------------ MODULE HeapFree ------------------------------
(***************************************************************************)
(* Heap with kfree (memlib.c:61-100), which only testMalloc calls.         *)
(*                                                                         *)
(* kfree computes the header as (header_t * )obj - sizeof(header_t): the   *)
(* subtraction counts in headers, so it goes back H * H bytes, not H.      *)
(***************************************************************************)
EXTENDS Heap

VARIABLE freed   \* the block the last kfree was given, until the next step

varsF == <<vars, freed>>

InitF == Init /\ freed = {}

(* node->used = 0, then node absorbs a free successor.                     *)
Forward(m, x) ==
  LET n   == m[x]
      nx  == n.next
      m1  == Write(m, x, [n EXCEPT !.used = FALSE])
      nn  == m[nx].next
      m2  == IF nn # NULL THEN Write(m1, nn, [m1[nn] EXCEPT !.prev = x]) ELSE m1
  IN IF nx # NULL /\ ~m[nx].used
     THEN Write(m2, x, [m2[x] EXCEPT !.length = @ + m[nx].length, !.next = nn])
     ELSE m1

(* A free predecessor absorbs node; its own next pointer is left alone.    *)
Mergeable(m, x) == m[x].prev # NULL /\ ~m[m[x].prev].used

Backward(m, x) ==
  LET p  == m[x].prev
      m1 == Write(m, p, [m[p] EXCEPT !.length = @ + m[x].length])
      pp == m[p].prev
  IN IF ~Mergeable(m, x) THEN m
     ELSE IF pp # NULL THEN Write(m1, pp, [m1[pp] EXCEPT !.next = p]) ELSE m1

(* _free_memory: the last block leaves the list, and mm_top comes down to  *)
(* its page.  What it unmaps is the page AT mm_top, behind the last one,   *)
(* so the lowest page stays mapped; the frame it pushes is an              *)
(* uninitialised local where that page is not mapped.                      *)
RECURSIVE Lower(_, _)
Lower(t, x) == IF t >= PAGE_SIZE + x THEN Lower(t - PAGE_SIZE, x) ELSE t

free_memory(m, x) ==
  /\ IF m[x].prev = NULL
     THEN first' = NULL /\ hdr' = m
     ELSE first' = first /\ hdr' = Write(m, m[x].prev, [m[m[x].prev] EXCEPT !.next = NULL])
  /\ mm_top' = Lower(mm_top, x)
  /\ mapped' = {a \in mapped : a <= mm_top'}

kfree(c, b) ==
  /\ At(c, "idle") /\ b \in live
  /\ live' = live \ {b} /\ freed' = {b}
  /\ LET x == b.obj - H * H IN
     IF x \in DOMAIN hdr
     THEN LET m == Backward(Forward(hdr, x), x)
              y == IF Mergeable(Forward(hdr, x), x) THEN hdr[x].prev ELSE x
          IN /\ IF m[y].next = NULL
                THEN free_memory(m, y)
                ELSE hdr' = m /\ UNCHANGED <<first, mm_top, mapped>>
             /\ UNCHANGED pc
     ELSE Goto(c, "wild") /\ UNCHANGED heap
  /\ UNCHANGED <<locals, spoilt>>

NextF == \/ Next /\ freed' = {}
         \/ \E c \in Callers, b \in live : kfree(c, b)

SpecF == InitF /\ [][NextF]_varsF

(* What testMalloc reports after kfree (test.c:63-64): the block it named  *)
(* is free, so its header is no longer marked used.                        *)
FreeFrees == \A b \in freed : \A c \in Callers :
  pc[c] = "idle" => ~hdr[b.obj - H].used
=============================================================================
