------------------------------ MODULE Scheduler ------------------------------
(***************************************************************************)
(* What the scheduler promises: the threads take turns in the order of     *)
(* their creation, a new one comes last, and none ever leaves.  Nothing is *)
(* promised any more once `spoilt'.                                        *)
(***************************************************************************)
EXTENDS Naturals, Sequences

VARIABLES order,    \* the threads, in the order of their creation
          running,  \* the thread that has the CPU
          spoilt

Init == order = <<>> /\ spoilt = FALSE

Create ==
  LET n == Len(order) + 1
  IN /\ Len(order') = n /\ SubSeq(order', 1, n - 1) = order
     /\ \A k \in 1 .. n - 1 : order'[k] # order'[n]
     /\ UNCHANGED running

Switch == \E k \in 1 .. Len(order) :
  /\ order[k] = running /\ running' = order[(k % Len(order)) + 1]
  /\ UNCHANGED order

Next == spoilt' \/ (~spoilt /\ ~spoilt' /\ (Create \/ Switch))

Spec == Init /\ [][Next]_<<order, running, spoilt>>
=============================================================================
