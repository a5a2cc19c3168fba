----------------------------- MODULE ProcessRun -----------------------------
(***************************************************************************)
(* Process as an implementation of Scheduler, and the numbering of its     *)
(* threads.                                                                *)
(***************************************************************************)
EXTENDS Process, FiniteSets

VARIABLE pidRaced   \* history: two calls have loaded the same cur_pid

varsR == <<vars, pidRaced>>

InitR == Init /\ pidRaced = FALSE

NextR == Next /\ pidRaced' = (pidRaced \/ \E a \in Acts : \E b \in Acts \ {a} :
                                apc'[a] = "pid_store" /\ apc'[b] = "pid_store")

SpecR == InitR /\ [][NextR]_varsR

FairSpecR == SpecR /\ Fairness

(* The ring, from run_head on.                                             *)
RingOrder == IF run_head = NULL THEN <<>>
             ELSE [k \in 1 .. Cardinality(Ring) |-> Orbit[k - 1]]

(* Until two insertions overlap, the run list and the context switch are a *)
(* round robin (process.c:47-70): the CPU goes from each thread's stack to *)
(* that of its successor in order of creation, also when init_thread is in *)
(* the middle of an insertion, and no thread is passed over or taken out;  *)
(* nor until kmalloc or kfree overwrite a PCB in use.                      *)
S == INSTANCE Scheduler WITH order <- RingOrder, running <- sp,
                             spoilt <- raced \/ ruined

TakesTurns == S!Spec

(* No two threads have the same pid (process.c:36), unless two calls of    *)
(* init_thread have loaded cur_pid before either stored it, or a PCB in    *)
(* use has been overwritten.                                               *)
PidsUnique == (~pidRaced /\ ~ruined) =>
  \A p, q \in Threads : p # q => pid[p] # pid[q]
=============================================================================
