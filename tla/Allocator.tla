------------------------------ MODULE Allocator ------------------------------
(***************************************************************************)
(* What kmalloc promises: each call hands out one block of mapped memory   *)
(* that shares no byte with a block handed out before, and nobody loses    *)
(* memory it was given.  Nothing is promised any more once `spoilt'.       *)
(***************************************************************************)
EXTENDS Naturals

CONSTANT PAGE_SIZE

VARIABLES live,    \* blocks handed out: [obj, size]
          mapped,  \* addresses of mapped pages
          spoilt

Bytes(b) == b.obj .. b.obj + b.size - 1

Backing(b) == {x - (x % PAGE_SIZE) : x \in Bytes(b)}

Init == live = {} /\ spoilt = FALSE

Alloc == \E b \in live' \ live :
  /\ live' = live \cup {b}
  /\ \A d \in live : Bytes(b) \cap Bytes(d) = {}
  /\ Backing(b) \subseteq mapped' /\ UNCHANGED mapped

Map == mapped \subseteq mapped' /\ UNCHANGED live

Next == spoilt' \/ (~spoilt /\ ~spoilt' /\ (Alloc \/ Map))

Spec == Init /\ [][Next]_<<live, mapped, spoilt>>
=============================================================================
