--------------------------- MODULE ProcessProofs ---------------------------
(***************************************************************************)
(* Proofs about Process and ProcessRun, for any number of threads and of   *)
(* nested activations of the tests.                                        *)
(***************************************************************************)
EXTENDS ProcessRun, FiniteSetTheorems, WellFoundedInduction, TLAPS

USE DEF hist

(* Before sti nothing but the boot code runs.                              *)
Booting ==
  /\ body[Boot] \in {"init", "sti", "hlt"}
  /\ \A p \in Procs \ {Boot} : body[p] \in {"free", "new", "fn", "exit"}
  /\ body[Boot] # "hlt" =>
       /\ sp = Boot /\ ~iflag /\ inService = {}
       /\ irq[Boot] = "none" /\ kbd[Boot] = <<>>
       /\ \A a \in Acts : apc[a] = "idle"
       /\ \A p \in Procs \ {Boot} : body[p] = "free"

(* Stacks that are not yet a thread's hold nothing.                        *)
Fresh ==
  /\ \A p \in Procs : p > nproc => body[p] = "free"
  /\ \A p \in Procs \ Threads : irq[p] = "none" /\ kbd[p] = <<>>

(* The run list is closed under next.                                      *)
Closed ==
  body[Boot] # "init" =>
    /\ cur_proc \in Threads /\ run_head \in Threads /\ sp \in Threads
    /\ \A p \in Threads : next[p] \in Threads

(* What each activation of init_thread holds: a PCB of its own that is not *)
(* on the list yet and, while it walks, a position on the list.            *)
Building(a) == apc[a] \in {"pid_load", "pid_store", "context", "walk", "link"}

Inserting ==
  /\ \A a \in Acts : Building(a) => anew[a] \in Procs /\ body[anew[a]] = "new"
  /\ \A a, b \in Acts : Building(a) /\ Building(b) /\ anew[a] = anew[b] => a = b
  /\ \A a \in Acts : apc[a] \in {"walk", "link"} =>
       /\ aproc[a] \in Threads
       /\ next[anew[a]] \in Threads
       /\ ctx[anew[a]] = [esp |-> anew[a], iflag |-> TRUE]

(* Where the CPU is in the interrupt path decides how cur_proc and the     *)
(* stack it runs on are related.                                           *)
Switching ==
  /\ irq[sp] # "none" => ~iflag
  /\ irq[sp] \in {"none", "eoi", "callback", "iret"} /\ body[Boot] # "init"
       => cur_proc = sp
  /\ irq[sp] \in {"save", "load"} =>
       /\ swp[sp] = [prev |-> sp, next |-> cur_proc]
       /\ cur_proc # sp
  /\ irq[sp] = "load" => ctx[sp] = [esp |-> sp, iflag |-> FALSE]

(* An unacknowledged interrupt is the one the CPU is serving.              *)
Acknowledged ==
  inService # {} =>
    /\ ~iflag
    /\ \/ inService = {0} /\ irq[sp] = "eoi"
       \/ inService = {1} /\ irq[sp] = "none" /\ kbd[sp] # <<>>
                          /\ apc[Head(kbd[sp])] = "eoi"

Waiting == \A p \in Threads \ {sp} : Resumable(p)

(* The inductive invariant: all of it until kmalloc or kfree overwrite a   *)
(* PCB in use, and then what does not speak of the contents of PCBs.       *)
IInv == /\ TypeOK /\ Booting /\ Fresh /\ Closed /\ Inserting
        /\ Switching /\ Acknowledged /\ Waiting

Rest == /\ TypeOK /\ Booting /\ Fresh /\ Switching /\ Acknowledged
        /\ ruined => body[Boot] = "hlt"

Inv == Rest /\ (~ruined => IInv)

-----------------------------------------------------------------------------
(* The boot PCB is a PCB, and NULL is none.                                *)
LEMMA BootIsAProc == Boot \in Procs /\ NULL \notin Procs
  BY ProcAssumption DEF Boot, Procs, NULL

(* At power-on the invariant holds.                                        *)
LEMMA InitInv == Init => IInv
  <1> SUFFICES ASSUME Init PROVE IInv
    OBVIOUS
  <1>1. TypeOK
    <2>1. kbd \in [Procs -> Seq(Acts)]
      BY DEF Init
    <2>2. ctx \in [Procs -> Context]
      BY DEF Init, Context
    <2>3. nproc \in Procs /\ sp \in Procs
      BY BootIsAProc DEF Init, Boot
    <2>4. QED
      BY <2>1, <2>2, <2>3 DEF Init, TypeOK, Stages
  <1>2. Booting /\ Fresh /\ Closed
    BY BootIsAProc DEF Init, Booting, Fresh, Closed, Boot
  <1>3. Inserting /\ Switching /\ Acknowledged
    BY BootIsAProc DEF Init, Inserting, Building, Switching, Acknowledged
  <1>4. Waiting
    BY DEF Init, Waiting, Threads
  <1>5. QED
    BY <1>1, <1>2, <1>3, <1>4 DEF IInv

-----------------------------------------------------------------------------
(* Every action preserves it: first the boot code and the interrupt path.  *)

(* init_proc_schedule (process.c:12-21) makes a ring of one thread.        *)
LEMMA Keeps_init_proc_schedule ==
  ASSUME IInv, init_proc_schedule PROVE IInv'
  <1> USE BootIsAProc
  <1>1. TypeOK'
    <2>1. /\ cur_proc' \in Procs /\ run_head' \in Procs /\ cur_pid' \in Nat
          /\ pid' \in [Procs -> Nat] /\ next' \in [Procs -> Procs \cup {NULL}]
      BY DEF IInv, TypeOK, init_proc_schedule
    <2>2. body' \in [Procs -> {"init", "sti", "hlt", "free", "new", "fn", "exit"}]
      BY DEF IInv, TypeOK, init_proc_schedule
    <2>3. QED
      BY <2>1, <2>2 DEF IInv, TypeOK, init_proc_schedule, cpu, acts, hist
  <1>2. Booting' /\ Fresh'
    BY DEF IInv, Booting, Fresh, Threads, init_proc_schedule, cpu, acts
  <1>3. Closed'
    BY DEF IInv, TypeOK, Booting, Closed, Threads, init_proc_schedule, cpu
  <1>4. Inserting'
    BY DEF IInv, Inserting, Building, Threads, init_proc_schedule, acts
  <1>5. Switching' /\ Acknowledged'
    BY DEF IInv, Booting, Switching, Acknowledged, init_proc_schedule, cpu
  <1>6. Waiting'
    BY DEF IInv, Booting, Waiting, Threads, init_proc_schedule, cpu
  <1>7. QED
    BY <1>1, <1>2, <1>3, <1>4, <1>5, <1>6 DEF IInv

(* sti (init.c:67) finds the boot thread on its own stack.                 *)
LEMMA Keeps_BootSti ==
  ASSUME IInv, BootSti PROVE IInv'
  <1> USE BootIsAProc
  <1>1. TypeOK'
    BY DEF IInv, TypeOK, BootSti, pcbs, acts
  <1>2. Booting' /\ Fresh'
    BY DEF IInv, TypeOK, Booting, Fresh, Threads, BootSti, pcbs
  <1>3. Closed'
    BY DEF IInv, Closed, Threads, BootSti, pcbs
  <1>4. Inserting'
    BY DEF IInv, Inserting, Building, Threads, BootSti, pcbs, acts
  <1>5. Switching' /\ Acknowledged'
    BY DEF IInv, Booting, Switching, Acknowledged, BootSti, pcbs
  <1>6. Waiting'
    BY DEF IInv, Waiting, Resumable, Threads, BootSti, pcbs
  <1>7. QED
    BY <1>1, <1>2, <1>3, <1>4, <1>5, <1>6 DEF IInv

(* The timer interrupts code that is on the stack of cur_proc.             *)
LEMMA Keeps_Irq0 ==
  ASSUME IInv, Irq0 PROVE IInv'
  <1> USE BootIsAProc
  <1>1. TypeOK'
    BY DEF IInv, TypeOK, Irq0, pcbs, acts
  <1>2. Booting' /\ Fresh'
    BY DEF IInv, Booting, Fresh, Closed, Threads, Irq0, pcbs
  <1>3. Closed'
    BY DEF IInv, Closed, Threads, Irq0, pcbs
  <1>4. Inserting'
    BY DEF IInv, Inserting, Building, Threads, Irq0, pcbs, acts
  <1>5. Switching' /\ Acknowledged'
    BY DEF IInv, TypeOK, Switching, Acknowledged, Irq0, pcbs
  <1>6. Waiting'
    BY DEF IInv, Waiting, Resumable, Threads, Irq0, pcbs
  <1>7. QED
    BY <1>1, <1>2, <1>3, <1>4, <1>5, <1>6 DEF IInv

(* The EOI (trap.c:139-148) leaves no interrupt in service.                *)
LEMMA Keeps_irq_handler ==
  ASSUME IInv, irq_handler PROVE IInv'
  <1> USE BootIsAProc
  <1>1. TypeOK'
    BY DEF IInv, TypeOK, EOI, irq_handler, pcbs, acts
  <1>2. Booting' /\ Fresh'
    BY DEF IInv, Booting, Fresh, Threads, irq_handler, pcbs
  <1>3. Closed'
    BY DEF IInv, Closed, Threads, irq_handler, pcbs
  <1>4. Inserting'
    <2>1. \A b \in Acts : Building(b)' <=> Building(b)
      BY DEF Building, irq_handler, acts
    <2>2. QED
      BY <2>1 DEF IInv, Inserting, Threads, irq_handler, pcbs, acts
  <1>5. Switching' /\ Acknowledged'
    BY DEF IInv, Switching, Acknowledged, EOI, irq_handler, pcbs
  <1>6. Waiting'
    BY DEF IInv, Waiting, Resumable, Threads, irq_handler, pcbs
  <1>7. QED
    BY <1>1, <1>2, <1>3, <1>4, <1>5, <1>6 DEF IInv

(* iret is reached only on the stack of cur_proc.                          *)
LEMMA Keeps_Iret ==
  ASSUME IInv, Iret PROVE IInv'
  <1> USE BootIsAProc
  <1>1. TypeOK'
    BY DEF IInv, TypeOK, Iret, pcbs, acts
  <1>2. Booting' /\ Fresh'
    BY DEF IInv, Booting, Fresh, Threads, Iret, pcbs
  <1>3. Closed'
    BY DEF IInv, Closed, Threads, Iret, pcbs
  <1>4. Inserting'
    BY DEF IInv, Inserting, Building, Threads, Iret, pcbs, acts
  <1>5. Switching' /\ Acknowledged'
    BY DEF IInv, TypeOK, Switching, Acknowledged, Iret, pcbs
  <1>6. Waiting'
    BY DEF IInv, Waiting, Resumable, Threads, Iret, pcbs
  <1>7. QED
    BY <1>1, <1>2, <1>3, <1>4, <1>5, <1>6 DEF IInv

(* A thread that exits (process.c:66-70) stays on the list.                *)
LEMMA Keeps_thread_exit ==
  ASSUME IInv, thread_exit PROVE IInv'
  <1> USE BootIsAProc
  <1>1. TypeOK'
    BY DEF IInv, TypeOK, thread_exit, cpu, pcbs, acts
  <1>2. Booting' /\ Fresh'
    BY DEF IInv, Booting, Fresh, Threads, thread_exit, pcbs
  <1>3. Closed'
    BY DEF IInv, Closed, Threads, thread_exit, cpu, pcbs
  <1>4. Inserting'
    <2>1. Threads' = Threads /\ sp \in Procs /\ body[sp] = "fn"
      BY DEF IInv, TypeOK, Threads, thread_exit
    <2>2. QED
      BY <2>1 DEF IInv, Inserting, Building, thread_exit, pcbs, acts
  <1>5. Switching' /\ Acknowledged'
    BY DEF IInv, Switching, Acknowledged, thread_exit, cpu, pcbs
  <1>6. Waiting'
    BY DEF IInv, Waiting, Resumable, Threads, thread_exit, cpu, pcbs
  <1>7. QED
    BY <1>1, <1>2, <1>3, <1>4, <1>5, <1>6 DEF IInv

(* cur_proc moves to its successor on the ring, which is a thread.         *)
LEMMA Keeps_timer_callback ==
  ASSUME IInv, timer_callback PROVE IInv'
  <1> USE BootIsAProc
  <1> DEFINE proc == next[cur_proc]
  <1>1. cur_proc = sp /\ sp \in Threads /\ proc \in Threads /\ cur_proc # NULL
    BY DEF IInv, Booting, Closed, Switching, Threads, timer_callback
  <1>2. CASE proc # sp
    <2>1. /\ swp' = [swp EXCEPT ![sp] = [prev |-> sp, next |-> proc]]
          /\ cur_proc' = proc
          /\ irq' = [irq EXCEPT ![sp] = "save"]
          /\ UNCHANGED <<sp, iflag, inService, run_head, cur_pid, next, pid, ctx,
                         nproc, body, kbd, apc, anew, aproc, apid, made, raced, spoilt, ruined>>
      BY <1>1, <1>2 DEF timer_callback, cpu, acts
    <2>2. TypeOK'
      BY <1>1, <2>1 DEF IInv, TypeOK
    <2>3. Booting' /\ Fresh'
      BY <1>1, <1>2, <2>1 DEF IInv, Booting, Fresh, Threads
    <2>4. Closed' /\ Inserting'
      BY <1>1, <2>1 DEF IInv, Closed, Inserting, Building, Threads
    <2>5. Switching' /\ Acknowledged'
      BY <1>1, <1>2, <2>1 DEF IInv, TypeOK, Switching, Acknowledged,
         timer_callback
    <2>6. Waiting'
      BY <1>1, <2>1 DEF IInv, Waiting, Resumable, Threads
    <2>7. QED
      BY <2>2, <2>3, <2>4, <2>5, <2>6 DEF IInv
  <1>3. CASE proc = sp
    <2>1. /\ irq' = [irq EXCEPT ![sp] = "iret"]
          /\ UNCHANGED <<sp, iflag, inService, cur_proc, run_head, cur_pid, next, pid, ctx,
                         nproc, body, kbd, swp, apc, anew, aproc, apid, made, raced, spoilt, ruined>>
      BY <1>1, <1>3 DEF timer_callback, cpu, acts
    <2>2. TypeOK' /\ Closed' /\ Inserting'
      BY <1>1, <2>1, SMTT(30) DEF IInv, TypeOK, Closed, Inserting, Building, Threads
    <2>3. Booting' /\ Fresh'
      BY <1>1, <2>1 DEF IInv, Booting, Fresh, Threads, timer_callback
    <2>4. Switching' /\ Acknowledged' /\ Waiting'
      BY <1>1, <2>1 DEF IInv, Switching, Acknowledged, Waiting, Resumable,
         Threads, timer_callback
    <2>5. QED
      BY <2>2, <2>3, <2>4 DEF IInv
  <1>4. QED
    BY <1>2, <1>3

(* The context saved is the running thread's own, with IF clear.           *)
LEMMA Keeps_switch_save ==
  ASSUME IInv, switch_save PROVE IInv'
  <1> USE BootIsAProc
  <1>1. sp \in Threads /\ swp[sp].prev = sp /\ ~iflag /\ body[Boot] = "hlt"
    BY DEF IInv, Booting, Closed, Switching, switch_save
  <1>2. /\ ctx' = [ctx EXCEPT ![sp] = [esp |-> sp, iflag |-> FALSE]]
        /\ irq' = [irq EXCEPT ![sp] = "load"]
        /\ UNCHANGED <<sp, iflag, inService, cur_proc, run_head, cur_pid, next, pid, nproc,
                       body, kbd, swp, apc, anew, aproc, apid, made, raced, spoilt, ruined>>
    BY <1>1 DEF IInv, TypeOK, switch_save, cpu, acts
  <1>3. TypeOK' /\ Closed'
    BY <1>1, <1>2 DEF IInv, TypeOK, Closed, Context, Threads
  <1>4. Booting' /\ Fresh'
    BY <1>1, <1>2 DEF IInv, Booting, Fresh, Threads
  <1>5. Inserting'
    BY <1>1, <1>2 DEF IInv, Inserting, Building, Threads
  <1>6. Switching' /\ Acknowledged'
    BY <1>1, <1>2 DEF IInv, TypeOK, Switching, Acknowledged, switch_save
  <1>7. Waiting'
    BY <1>1, <1>2 DEF IInv, Waiting, Resumable, Threads
  <1>8. QED
    BY <1>3, <1>4, <1>5, <1>6, <1>7 DEF IInv

(* The stack loaded is that of cur_proc, which was resumable; the one left *)
(* behind becomes so.                                                      *)
LEMMA Keeps_switch_load ==
  ASSUME IInv, switch_load PROVE IInv'
  <1> USE BootIsAProc
  <1>1. /\ sp \in Threads /\ cur_proc \in Threads /\ cur_proc # sp
        /\ swp[sp].next = cur_proc /\ Resumable(cur_proc)
        /\ ctx[sp] = [esp |-> sp, iflag |-> FALSE] /\ body[Boot] = "hlt"
    BY DEF IInv, Booting, Closed, Switching, Waiting, switch_load
  <1>2. /\ sp' = cur_proc /\ iflag' = ctx[cur_proc].iflag
        /\ irq' = [irq EXCEPT ![sp] = "iret"]
        /\ UNCHANGED <<inService, cur_proc, run_head, cur_pid, next, pid, ctx, nproc,
                       body, kbd, swp, apc, anew, aproc, apid, made, raced, spoilt, ruined>>
    BY <1>1 DEF Resumable, switch_load, pcbs, acts
  <1>3. TypeOK' /\ Closed'
    BY <1>1, <1>2 DEF IInv, TypeOK, Closed, Threads, Context
  <1>4. Booting' /\ Fresh'
    BY <1>1, <1>2 DEF IInv, Booting, Fresh, Threads
  <1>5. Inserting'
    BY <1>1, <1>2 DEF IInv, Inserting, Building, Threads
  <1>6. Switching' /\ Acknowledged'
    BY <1>1, <1>2 DEF IInv, Switching, Acknowledged, Resumable
  <1>7. Waiting'
    BY <1>1, <1>2 DEF IInv, TypeOK, Waiting, Resumable, Threads
  <1>8. QED
    BY <1>3, <1>4, <1>5, <1>6, <1>7 DEF IInv

-----------------------------------------------------------------------------
(* The keyboard path and the steps of init_thread.                         *)

(* The keyboard interrupts code that is on the stack of cur_proc.          *)
LEMMA Keeps_Irq1 ==
  ASSUME IInv, NEW a \in Acts, Irq1(a) PROVE IInv'
  <1> USE BootIsAProc
  <1>1. TypeOK'
    <2>1. kbd' \in [Procs -> Seq(Acts)]
      BY DEF IInv, TypeOK, Stages, Irq1
    <2>2. QED
      BY <2>1 DEF IInv, TypeOK, Stages, Irq1, pcbs
  <1>2. Booting' /\ Fresh'
    BY DEF IInv, Booting, Fresh, Closed, Threads, Irq1, pcbs
  <1>3. Closed'
    BY DEF IInv, Closed, Threads, Irq1, pcbs
  <1>4. Inserting'
    BY DEF IInv, Inserting, Building, Threads, Irq1, pcbs
  <1>5. Switching' /\ Acknowledged'
    BY DEF IInv, TypeOK, Switching, Acknowledged, Irq1, pcbs
  <1>6. Waiting'
    BY DEF IInv, Waiting, Resumable, Threads, Irq1, pcbs
  <1>7. QED
    BY <1>1, <1>2, <1>3, <1>4, <1>5, <1>6 DEF IInv

(* The EOI comes before testProcess enables interrupts.                    *)
LEMMA Keeps_Irq1Eoi ==
  ASSUME IInv, NEW a \in Acts, Irq1Eoi(a) PROVE IInv'
  <1> USE BootIsAProc
  <1>1. TypeOK'
    <2>1. apc' \in [Acts -> Stages]
      BY DEF IInv, TypeOK, Stages, Irq1Eoi
    <2>2. QED
      BY <2>1 DEF IInv, TypeOK, EOI, Irq1Eoi, pcbs, stk
  <1>2. Booting' /\ Fresh'
    BY DEF IInv, Booting, Fresh, Threads, Irq1Eoi, pcbs, stk
  <1>3. Closed'
    BY DEF IInv, Closed, Threads, Irq1Eoi, pcbs, stk
  <1>4. Inserting'
    <2>1. \A b \in Acts : Building(b)' <=> Building(b)
      BY DEF Building, Irq1Eoi
    <2>2. QED
      BY <2>1 DEF IInv, Inserting, Threads, Irq1Eoi, pcbs, stk
  <1>5. Switching' /\ Acknowledged'
    BY DEF IInv, Switching, Acknowledged, EOI, Irq1Eoi, pcbs, stk
  <1>6. Waiting'
    BY DEF IInv, Waiting, Resumable, Threads, Irq1Eoi, pcbs, stk
  <1>7. QED
    BY <1>1, <1>2, <1>3, <1>4, <1>5, <1>6 DEF IInv

(* testProcess (test.c:104-106) sets IF outside the timer path.            *)
LEMMA Keeps_testProcess ==
  ASSUME IInv, NEW a \in Acts, testProcess(a) PROVE IInv'
  <1> USE BootIsAProc
  <1>1. TypeOK'
    BY DEF IInv, TypeOK, Stages, testProcess, pcbs, stk
  <1>2. Booting' /\ Fresh'
    BY DEF IInv, Booting, Fresh, Threads, testProcess, pcbs, stk
  <1>3. Closed'
    BY DEF IInv, Closed, Threads, testProcess, pcbs, stk
  <1>4. Inserting'
    <2>1. \A b \in Acts : Building(b)' <=> Building(b)
      BY DEF Building, testProcess
    <2>2. QED
      BY <2>1 DEF IInv, Inserting, Threads, testProcess, pcbs, stk
  <1>5. Switching' /\ Acknowledged'
    BY DEF IInv, Switching, Acknowledged, testProcess, Running, pcbs, stk
  <1>6. Waiting'
    BY DEF IInv, Waiting, Resumable, Threads, testProcess, pcbs, stk
  <1>7. QED
    BY <1>1, <1>2, <1>3, <1>4, <1>5, <1>6 DEF IInv

(* So does testMalloc (test.c:46).                                         *)
LEMMA Keeps_testMalloc ==
  ASSUME IInv, NEW a \in Acts, testMalloc(a) PROVE IInv'
  <1> USE BootIsAProc
  <1>1. TypeOK'
    BY DEF IInv, TypeOK, Stages, testMalloc, pcbs, stk
  <1>2. Booting' /\ Fresh'
    BY DEF IInv, Booting, Fresh, Threads, testMalloc, pcbs, stk
  <1>3. Closed'
    BY DEF IInv, Closed, Threads, testMalloc, pcbs, stk
  <1>4. Inserting'
    <2>1. \A b \in Acts : Building(b)' <=> Building(b)
      BY DEF Building, testMalloc
    <2>2. QED
      BY <2>1 DEF IInv, Inserting, Threads, testMalloc, pcbs, stk
  <1>5. Switching' /\ Acknowledged'
    BY DEF IInv, Switching, Acknowledged, testMalloc, Running, pcbs, stk
  <1>6. Waiting'
    BY DEF IInv, Waiting, Resumable, Threads, testMalloc, pcbs, stk
  <1>7. QED
    BY <1>1, <1>2, <1>3, <1>4, <1>5, <1>6 DEF IInv

(* The steps of a test that move nothing but its own place: scanf, kmalloc *)
(* and kfree touch nothing the scheduler uses unless they ruin a PCB.      *)
Talks(a) == scanf(a) \/ kmalloc(a) \/ kfree(a) \/ heap_ret(a)

(* What such a step changes.                                               *)
LEMMA TalkStep ==
  ASSUME IInv, NEW a \in Acts, Talks(a)
  PROVE  /\ UNCHANGED <<cpu, pcbs, stk, anew, aproc, apid, made, raced, ruined>>
         /\ spoilt' \in BOOLEAN /\ Running(a)
         /\ apc[a] \in {"scanf", "line", "kmalloc", "malloc", "free", "in_test", "in_free"}
         /\ \E l \in {"kmalloc", "malloc", "free", "return", "in_thread", "in_test",
                     "in_free", "line"} : apc' = [apc EXCEPT ![a] = l]
<1>t. spoilt \in BOOLEAN /\ apc \in [Acts -> Stages]
  BY DEF IInv, TypeOK, Stages
<1>1. CASE scanf(a)
  BY <1>t, <1>1 DEF scanf, Answers
<1>2. CASE kmalloc(a)
  <2>1. spoilt' \in BOOLEAN
    BY <1>2 DEF kmalloc
  <2>2. apc' = [apc EXCEPT ![a] = IF apc[a] = "kmalloc" THEN "in_thread" ELSE "in_test"]
    BY <1>t, <1>2 DEF kmalloc
  <2> QED
    BY <1>2, <2>1, <2>2 DEF kmalloc
<1>3. CASE kfree(a)
  BY <1>3 DEF kfree
<1>4. CASE heap_ret(a)
  BY <1>t, <1>4 DEF heap_ret
<1> QED
  BY <1>1, <1>2, <1>3, <1>4 DEF Talks

(* It keeps the invariant.                                                 *)
LEMMA Keeps_talk ==
  ASSUME IInv, NEW a \in Acts, Talks(a) PROVE IInv'
  <1> USE BootIsAProc
  <1>0. /\ UNCHANGED <<cpu, pcbs, stk, anew, aproc, apid, made, raced, ruined>>
        /\ spoilt' \in BOOLEAN /\ Running(a)
        /\ apc[a] \in {"scanf", "line", "kmalloc", "malloc", "free", "in_test", "in_free"}
    BY TalkStep
  <1>a. PICK l \in {"kmalloc", "malloc", "free", "return", "in_thread", "in_test",
                    "in_free", "line"} : apc' = [apc EXCEPT ![a] = l]
    BY TalkStep
  <1>1. TypeOK'
    BY <1>0, <1>a DEF IInv, TypeOK, Stages, cpu, pcbs, stk
  <1>2. Booting' /\ Fresh'
    BY <1>0, <1>a DEF IInv, TypeOK, Booting, Fresh, Threads, cpu, pcbs, stk
  <1>3. Closed'
    BY <1>0 DEF IInv, Closed, Threads, cpu, pcbs, stk
  <1>4. Inserting'
    <2>1. \A b \in Acts : Building(b)' <=> Building(b)
      BY <1>0, <1>a DEF IInv, TypeOK, Building
    <2>2. \A b \in Acts : apc'[b] \in {"walk", "link"} => apc[b] \in {"walk", "link"}
      BY <1>0, <1>a DEF IInv, TypeOK
    <2>3. QED
      BY <1>0, <2>1, <2>2 DEF IInv, Inserting, Threads, pcbs, stk
  <1>5. Switching' /\ Acknowledged'
    <2>1. Switching'
      BY <1>0 DEF IInv, Switching, cpu, pcbs, stk
    <2>2. Acknowledged'
      BY <1>0, <1>a DEF IInv, TypeOK, Acknowledged, Running, cpu, pcbs, stk
    <2>3. QED
      BY <2>1, <2>2
  <1>6. Waiting'
    BY <1>0 DEF IInv, Waiting, Resumable, Threads, cpu, pcbs, stk
  <1>7. QED
    BY <1>1, <1>2, <1>3, <1>4, <1>5, <1>6 DEF IInv

(* Reading cur_pid disturbs nothing.                                       *)
LEMMA Keeps_it_pid_load ==
  ASSUME IInv, NEW a \in Acts, it_pid_load(a) PROVE IInv'
  <1> USE BootIsAProc
  <1>1. TypeOK'
    BY DEF IInv, TypeOK, Stages, it_pid_load, cpu, pcbs, stk
  <1>2. Booting' /\ Fresh'
    BY DEF IInv, Booting, Fresh, Threads, it_pid_load, pcbs, stk
  <1>3. Closed'
    BY DEF IInv, Closed, Threads, it_pid_load, cpu, pcbs, stk
  <1>4. Inserting'
    <2>1. \A b \in Acts : Building(b)' <=> Building(b)
      BY DEF Building, it_pid_load
    <2>2. QED
      BY <2>1 DEF IInv, Inserting, Threads, it_pid_load, pcbs, stk
  <1>5. Switching' /\ Acknowledged'
    BY DEF IInv, Switching, Acknowledged, it_pid_load, cpu, pcbs, stk
  <1>6. Waiting'
    BY DEF IInv, Waiting, Resumable, Threads, it_pid_load, cpu, pcbs, stk
  <1>7. QED
    BY <1>1, <1>2, <1>3, <1>4, <1>5, <1>6 DEF IInv

(* The pid goes to a PCB that is not on the list.                          *)
LEMMA Keeps_it_pid_store ==
  ASSUME IInv, NEW a \in Acts, it_pid_store(a) PROVE IInv'
  <1> USE BootIsAProc
  <1>1. TypeOK'
    <2>1. anew[a] \in Procs
      BY DEF IInv, Inserting, Building, it_pid_store
    <2>2. cur_pid' \in Nat /\ pid' \in [Procs -> Nat]
      BY <2>1 DEF IInv, TypeOK, it_pid_store
    <2>3. apc' \in [Acts -> Stages]
      BY DEF IInv, TypeOK, Stages, it_pid_store
    <2>4. QED
      BY <2>2, <2>3 DEF IInv, TypeOK, it_pid_store, cpu, stk, hist
  <1>2. Booting' /\ Fresh'
    BY DEF IInv, Booting, Fresh, Threads, it_pid_store, stk
  <1>3. Closed'
    BY DEF IInv, Closed, Threads, it_pid_store, cpu, stk
  <1>4. Inserting'
    <2>1. \A b \in Acts : Building(b)' <=> Building(b)
      BY DEF Building, it_pid_store
    <2>2. QED
      BY <2>1 DEF IInv, Inserting, Threads, it_pid_store, stk
  <1>5. Switching' /\ Acknowledged'
    BY DEF IInv, Switching, Acknowledged, it_pid_store, cpu, stk
  <1>6. Waiting'
    BY DEF IInv, Waiting, Resumable, Threads, it_pid_store, cpu, stk
  <1>7. QED
    BY <1>1, <1>2, <1>3, <1>4, <1>5, <1>6 DEF IInv

(* The context goes to a PCB that is this activation's alone.              *)
LEMMA Keeps_it_context ==
  ASSUME IInv, NEW a \in Acts, it_context(a) PROVE IInv'
  <1> USE BootIsAProc
  <1>1. TypeOK'
    BY DEF IInv, TypeOK, Stages, Context, it_context, cpu, stk
  <1>2. Booting' /\ Fresh'
    BY DEF IInv, Booting, Fresh, Threads, it_context, stk
  <1>3. Closed'
    BY DEF IInv, Closed, Threads, it_context, cpu, stk
  <1>4. Inserting'
    <2>0. anew[a] \in Procs /\ anew[a] \notin Threads /\ Building(a) /\ run_head \in Threads
      BY DEF IInv, Booting, Closed, Inserting, Building, it_context, Threads
    <2>8. Threads' = Threads
      BY DEF Threads, it_context, stk
    <2>1. \A b \in Acts : Building(b)' <=> Building(b)
      BY DEF Building, it_context
    <2>4. \A b \in Acts : Building(b) /\ b # a => anew[b] # anew[a]
      BY <2>0 DEF IInv, Inserting
    <2>5. /\ ctx' = [ctx EXCEPT ![anew[a]] = [esp |-> anew[a], iflag |-> TRUE]]
          /\ next' = [next EXCEPT ![anew[a]] = run_head]
          /\ aproc' = [aproc EXCEPT ![a] = run_head]
          /\ apc' = [apc EXCEPT ![a] = "walk"]
          /\ UNCHANGED <<anew, body>>
      BY DEF it_context, stk
    <2>2. \A b \in Acts : Building(b)' => anew'[b] \in Procs /\ body'[anew'[b]] = "new"
      BY <2>1, <2>5 DEF IInv, Inserting
    <2>3. \A b, c \in Acts : Building(b)' /\ Building(c)' /\ anew'[b] = anew'[c] => b = c
      BY <2>1, <2>5 DEF IInv, Inserting
    <2>6. ASSUME NEW b \in Acts, apc'[b] \in {"walk", "link"}
          PROVE  /\ aproc'[b] \in Threads'
                 /\ next'[anew'[b]] \in Threads'
                 /\ ctx'[anew'[b]] = [esp |-> anew'[b], iflag |-> TRUE]
      <3>1. CASE b = a
        BY <3>1, <2>0, <2>8, <2>5 DEF IInv, TypeOK
      <3>2. CASE b # a
        <4>1. apc[b] \in {"walk", "link"} /\ Building(b)
          BY <3>2, <2>5, <2>6 DEF Building
        <4>2. QED
          BY <3>2, <4>1, <2>0, <2>8, <2>4, <2>5 DEF IInv, Inserting
      <3>3. QED BY <3>1, <3>2
    <2>7. QED
      BY <2>2, <2>3, <2>6 DEF Inserting
  <1>5. Switching' /\ Acknowledged'
    BY DEF IInv, Switching, Acknowledged, it_context, Running, cpu, stk
  <1>6. Waiting'
    <2>1. anew[a] \in Procs \ Threads
      BY DEF IInv, Inserting, Building, Threads, it_context
    <2>2. QED
      BY <2>1 DEF IInv, Waiting, Resumable, Threads, it_context, cpu, stk
  <1>7. QED
    BY <1>1, <1>2, <1>3, <1>4, <1>5, <1>6 DEF IInv

(* The keyboard activation leaves the stack it was on.                     *)
LEMMA Keeps_Irq1Iret ==
  ASSUME IInv, NEW a \in Acts, Irq1Iret(a) PROVE IInv'
  <1> USE BootIsAProc
  <1>1. TypeOK'
    <2>1. kbd' \in [Procs -> Seq(Acts)]
      BY DEF IInv, TypeOK, Stages, Irq1Iret, Running
    <2>2. QED
      BY <2>1 DEF IInv, TypeOK, Stages, Irq1Iret, pcbs
  <1>2. Booting' /\ Fresh'
    BY DEF IInv, Booting, Fresh, Threads, Irq1Iret, pcbs
  <1>3. Closed'
    BY DEF IInv, Closed, Threads, Irq1Iret, pcbs
  <1>4. Inserting'
    <2>1. \A b \in Acts : Building(b)' <=> Building(b)
      BY DEF Building, Irq1Iret
    <2>2. QED
      BY <2>1 DEF IInv, Inserting, Threads, Irq1Iret, pcbs
  <1>5. Switching' /\ Acknowledged'
    BY DEF IInv, Switching, Acknowledged, Irq1Iret, Running, pcbs
  <1>6. Waiting'
    BY DEF IInv, Waiting, Resumable, Threads, Irq1Iret, pcbs
  <1>7. QED
    BY <1>1, <1>2, <1>3, <1>4, <1>5, <1>6 DEF IInv

(* A PCB never handed out before is on nobody's list.                      *)
LEMMA Memset ==
  ASSUME IInv, NEW a \in Acts, it_memset(a), ~ruined'
  PROVE  /\ nproc + 1 \in Procs /\ nproc + 1 > nproc
         /\ nproc' = nproc + 1 /\ ruined' = FALSE
         /\ anew' = [anew EXCEPT ![a] = nproc + 1]
         /\ next' = [next EXCEPT ![nproc + 1] = NULL]
         /\ pid' = [pid EXCEPT ![nproc + 1] = 0]
         /\ ctx' = [ctx EXCEPT ![nproc + 1] = [esp |-> NULL, iflag |-> FALSE]]
         /\ body' = [body EXCEPT ![nproc + 1] = "new"]
  <1>1. PICK p \in Blocks :
          /\ nproc' = IF p > nproc THEN p ELSE nproc
          /\ ruined' = (p <= nproc)
          /\ anew' = [anew EXCEPT ![a] = p]
          /\ next' = [next EXCEPT ![p] = NULL]
          /\ pid' = [pid EXCEPT ![p] = 0]
          /\ ctx' = [ctx EXCEPT ![p] = [esp |-> NULL, iflag |-> FALSE]]
          /\ body' = [body EXCEPT ![p] = IF p > nproc THEN "new" ELSE @]
    BY DEF it_memset
  <1>2. p \in Nat /\ nproc \in Nat /\ p \in Procs
    BY <1>1, ProcAssumption DEF IInv, TypeOK, Procs, Blocks
  <1>3. ~(p <= nproc)
    BY <1>1
  <1>4. p = nproc + 1
    BY <1>2, <1>3 DEF Blocks
  <1>5. p > nproc
    BY <1>2, <1>4
  <1>6. nproc' = p /\ body' = [body EXCEPT ![p] = "new"] /\ ruined' = FALSE
    BY <1>1, <1>3, <1>5
  <1>7. QED
    BY <1>1, <1>2, <1>4, <1>5, <1>6

(* Clearing it disturbs no thread and no other insertion.                  *)
LEMMA Keeps_it_memset ==
  ASSUME IInv, NEW a \in Acts, it_memset(a), ~ruined' PROVE IInv'
  <1> USE BootIsAProc
  <1> DEFINE new == nproc + 1
  <1>1. /\ new \in Procs /\ body[new] = "free" /\ new \notin Threads
        /\ sp \in Procs /\ body[Boot] = "hlt"
    <2>1. new \in Procs /\ new > nproc
      BY Memset
    <2>2. body[new] = "free"
      BY <2>1 DEF IInv, Fresh
    <2>3. body[Boot] = "hlt" /\ sp \in Procs
      BY DEF IInv, TypeOK, Booting, it_memset
    <2>4. QED
      BY <2>1, <2>2, <2>3 DEF Threads
  <1>2. /\ nproc' = new
        /\ anew' = [anew EXCEPT ![a] = new]
        /\ next' = [next EXCEPT ![new] = NULL]
        /\ pid' = [pid EXCEPT ![new] = 0]
        /\ ctx' = [ctx EXCEPT ![new] = [esp |-> NULL, iflag |-> FALSE]]
        /\ body' = [body EXCEPT ![new] = "new"]
        /\ apc' = [apc EXCEPT ![a] = "pid_load"]
        /\ UNCHANGED <<sp, iflag, inService, cur_proc, run_head, cur_pid,
                       kbd, irq, swp, aproc, apid, made, raced, spoilt>> /\ ruined' = FALSE
    BY Memset DEF it_memset, cpu
  <1>3. \A p \in Procs : p > new => p > nproc /\ p # new
    BY DEF IInv, TypeOK, Procs
  <1> HIDE DEF new
  <1>4. Threads' = Threads
    BY <1>1, <1>2 DEF Threads
  <1>5. TypeOK' /\ Closed'
    <2>1. TypeOK'
      BY <1>1, <1>2 DEF IInv, TypeOK, Stages, Context
    <2>2. \A p \in Threads : next'[p] = next[p]
      BY <1>1, <1>2
    <2>3. Closed'
      BY <1>1, <1>2, <1>4, <2>2 DEF IInv, Closed
    <2>4. QED
      BY <2>1, <2>3
  <1>6. Booting' /\ Fresh'
    BY <1>1, <1>2, <1>3, <1>4 DEF IInv, Booting, Fresh
  <1>7. Inserting'
    <2>1. \A b \in Acts : Building(b) => anew[b] # new
      BY <1>1 DEF IInv, Inserting
    <2>2. \A b \in Acts : Building(b)' <=> Building(b) \/ b = a
      BY <1>2 DEF IInv, TypeOK, Building
    <2>3. \A b \in Acts : Building(b)' =>
            anew'[b] = (IF b = a THEN new ELSE anew[b])
      BY <1>2 DEF IInv, TypeOK
    <2>4. \A b \in Acts : Building(b)' => anew'[b] \in Procs /\ body'[anew'[b]] = "new"
      BY <1>1, <1>2, <2>2, <2>3 DEF IInv, TypeOK, Inserting
    <2>5. \A b, c \in Acts : Building(b)' /\ Building(c)' /\ anew'[b] = anew'[c] => b = c
      BY <2>1, <2>2, <2>3 DEF IInv, Inserting
    <2>6. ASSUME NEW b \in Acts, apc'[b] \in {"walk", "link"}
          PROVE  /\ aproc'[b] \in Threads'
                 /\ next'[anew'[b]] \in Threads'
                 /\ ctx'[anew'[b]] = [esp |-> anew'[b], iflag |-> TRUE]
      <3>1. b # a /\ apc[b] \in {"walk", "link"} /\ Building(b)
        BY <1>2, <2>6 DEF IInv, TypeOK, Building
      <3>2. anew'[b] = anew[b] /\ anew[b] # new /\ anew[b] \in Procs
        BY <1>2, <2>1, <3>1 DEF IInv, Inserting
      <3>3. QED
        BY <1>2, <1>4, <3>1, <3>2 DEF IInv, Inserting
    <2>7. QED
      BY <2>4, <2>5, <2>6 DEF Inserting
  <1>8. Switching' /\ Acknowledged' /\ Waiting'
    <2>1. Switching'
      BY <1>1, <1>2 DEF IInv, Switching, it_memset, Running
    <2>2. Acknowledged'
      BY <1>1, <1>2 DEF IInv, Acknowledged, it_memset
    <2>3. Waiting'
      BY <1>1, <1>2, <1>4 DEF IInv, Waiting, Resumable
    <2>4. QED
      BY <2>1, <2>2, <2>3
  <1>9. QED
    BY <1>5, <1>6, <1>7, <1>8 DEF IInv

(* Whatever kmalloc or kfree overwrite, the stack the CPU is on and the    *)
(* interrupts are as they were.                                            *)
LEMMA Ruins ==
  ASSUME IInv, NEW a \in Acts, it_memset(a) \/ heap_stray(a), ruined' PROVE Rest'
  <1> USE BootIsAProc
  <1>0. body[Boot] = "hlt"
    BY DEF IInv, Booting, it_memset, heap_stray, InHeap, InKmalloc
  <1>1. CASE heap_stray(a)
    BY <1>0, <1>1 DEF IInv, Rest, TypeOK, Booting, Fresh, Switching, Acknowledged, Threads,
       heap_stray, cpu, pcbs, stk
  <1>2. CASE it_memset(a)
    <2>1. PICK p \in Blocks :
            /\ nproc' = IF p > nproc THEN p ELSE nproc
            /\ ruined' = (p <= nproc)
            /\ anew' = [anew EXCEPT ![a] = p]
            /\ next' = [next EXCEPT ![p] = NULL]
            /\ pid' = [pid EXCEPT ![p] = 0]
            /\ ctx' = [ctx EXCEPT ![p] = [esp |-> NULL, iflag |-> FALSE]]
            /\ body' = [body EXCEPT ![p] = IF p > nproc THEN "new" ELSE @]
      BY <1>2 DEF it_memset
    <2>2. p \in Nat /\ nproc \in Nat /\ p \in Procs
      BY <2>1, ProcAssumption DEF IInv, TypeOK, Procs, Blocks
    <2>a. p <= nproc
      BY <2>1
    <2>3. ~(p > nproc)
      BY <2>2, <2>a
    <2>4. /\ apc' = [apc EXCEPT ![a] = "pid_load"] /\ apc[a] = "in_thread" /\ Running(a)
          /\ UNCHANGED <<sp, iflag, inService, cur_proc, run_head, cur_pid, kbd, irq, swp,
                         aproc, apid, made, raced, spoilt>>
      BY <1>2 DEF it_memset, cpu
    <2>5. body' = body /\ nproc' = nproc
      BY <2>1, <2>2, <2>3 DEF IInv, TypeOK
    <2>6. TypeOK'
      BY <2>1, <2>2, <2>4, <2>5 DEF IInv, TypeOK, Stages, Context
    <2>7. Booting' /\ Fresh'
      BY <2>4, <2>5 DEF IInv, Booting, Fresh, Threads
    <2>8. Switching'
      BY <2>4, <2>5 DEF IInv, Switching, Running
    <2>9. Acknowledged'
      BY <2>4 DEF IInv, TypeOK, Acknowledged, Running
    <2>10. QED
      BY <1>0, <2>5, <2>6, <2>7, <2>8, <2>9 DEF Rest
  <1>3. QED
    BY <1>1, <1>2

(* The walk stays on the list, because the list is closed under next.      *)
LEMMA Keeps_it_walk ==
  ASSUME IInv, NEW a \in Acts, it_walk(a) PROVE IInv'
  <1> USE BootIsAProc
  <1>1. aproc[a] \in Threads /\ next[aproc[a]] \in Threads
    BY DEF IInv, Booting, Closed, Inserting, it_walk
  <1>2. /\ UNCHANGED <<cpu, pcbs, stk, anew, apid, made, hist>>
        /\ \/ apc' = apc /\ aproc' = [aproc EXCEPT ![a] = next[aproc[a]]]
           \/ aproc' = aproc /\ apc' = [apc EXCEPT ![a] = "link"]
    BY DEF it_walk
  <1>3. Threads' = Threads
    BY <1>2 DEF Threads, stk
  <1>4. TypeOK' /\ Closed'
    <2>1. apc' \in [Acts -> Stages] /\ aproc' \in [Acts -> Procs \cup {NULL}]
      BY <1>1, <1>2 DEF IInv, TypeOK, Stages, Threads
    <2>2. TypeOK'
      BY <1>2, <2>1 DEF IInv, TypeOK, cpu, pcbs, stk
    <2>3. Closed'
      BY <1>1, <1>2, <1>3 DEF IInv, Closed, cpu, pcbs, stk
    <2>4. QED
      BY <2>2, <2>3
  <1>5. Booting' /\ Fresh'
    BY <1>2, <1>3 DEF IInv, Booting, Fresh, pcbs, stk, it_walk
  <1>6. Inserting'
    <2>1. \A b \in Acts : Building(b)' <=> Building(b)
      BY <1>2 DEF IInv, TypeOK, Building, it_walk
    <2>2. \A b \in Acts : apc'[b] \in {"walk", "link"} => apc[b] \in {"walk", "link"}
      BY <1>2 DEF IInv, TypeOK, it_walk
    <2>3. \A b \in Acts : aproc'[b] = aproc[b] \/ aproc'[b] \in Threads
      BY <1>1, <1>2 DEF IInv, TypeOK
    <2>4. QED
      BY <1>2, <1>3, <2>1, <2>2, <2>3 DEF IInv, Inserting, pcbs, stk
  <1>7. Switching' /\ Acknowledged' /\ Waiting'
    <2>1. Switching' /\ Waiting'
      BY <1>2, <1>3 DEF IInv, Switching, Waiting, Resumable, cpu, pcbs, stk
    <2>2. Acknowledged'
      BY <1>2 DEF IInv, Acknowledged, cpu, it_walk, Running
    <2>3. QED
      BY <2>1, <2>2
  <1>8. QED
    BY <1>4, <1>5, <1>6, <1>7 DEF IInv

(* The thread that joins the list is complete: its successor is on the     *)
(* list, its stack is its own and nothing has run on it.                   *)
LEMMA Keeps_it_link ==
  ASSUME IInv, NEW a \in Acts, it_link(a) PROVE IInv'
  <1> USE BootIsAProc
  <1>1. /\ aproc[a] \in Threads /\ anew[a] \in Procs \ Threads /\ Building(a)
        /\ next[anew[a]] \in Threads /\ body[Boot] = "hlt"
        /\ ctx[anew[a]] = [esp |-> anew[a], iflag |-> TRUE]
        /\ irq[anew[a]] = "none" /\ kbd[anew[a]] = <<>>
    BY DEF IInv, Booting, Inserting, Fresh, Building, it_link, Threads
  <1>2. /\ next' = [next EXCEPT ![aproc[a]] = anew[a]]
        /\ body' = [body EXCEPT ![anew[a]] = "fn"]
        /\ made' = [made EXCEPT ![a] = @ + 1]
        /\ apc' \in {[apc EXCEPT ![a] = "kmalloc"], [apc EXCEPT ![a] = "return"]}
        /\ UNCHANGED <<sp, iflag, inService, cur_proc, run_head, cur_pid, pid, ctx,
                       nproc, kbd, irq, swp, anew, aproc, apid, raced, spoilt, ruined>>
    BY DEF it_link, cpu
  <1>3. Threads' = Threads \cup {anew[a]}
    BY <1>1, <1>2 DEF IInv, TypeOK, Threads
  <1>4. TypeOK'
    <2>1. /\ next' \in [Procs -> Procs \cup {NULL}]
          /\ body' \in [Procs -> {"init", "sti", "hlt", "free", "new", "fn", "exit"}]
      BY <1>1, <1>2 DEF IInv, TypeOK
    <2>0. made' \in [Acts -> Nat]
      BY <1>2 DEF IInv, TypeOK
    <2>2. apc' \in [Acts -> Stages]
      BY <1>2 DEF IInv, TypeOK, Stages
    <2>3. QED
      BY <1>2, <2>0, <2>1, <2>2 DEF IInv, TypeOK
  <1>5. Booting' /\ Fresh' /\ Closed'
    <2>1. Booting'
      BY <1>1, <1>2 DEF IInv, Booting, Threads
    <2>2. Fresh'
      BY <1>1, <1>2, <1>3 DEF IInv, Fresh, Inserting
    <2>3. Closed'
      BY <1>1, <1>2, <1>3 DEF IInv, Closed
    <2>4. QED
      BY <2>1, <2>2, <2>3
  <1>6. Inserting'
    <2>1. \A b \in Acts : Building(b)' => Building(b) /\ b # a
      BY <1>2 DEF IInv, TypeOK, Building
    <2>2. \A b \in Acts : apc'[b] \in {"walk", "link"} =>
            apc[b] \in {"walk", "link"} /\ Building(b) /\ b # a
      BY <1>2 DEF IInv, TypeOK, Building
    <2>3. \A b \in Acts : Building(b) /\ b # a =>
            anew[b] # anew[a] /\ anew[b] \notin Threads
      BY <1>1 DEF IInv, Inserting, Threads
    <2>4. QED
      BY <1>1, <1>2, <1>3, <2>1, <2>2, <2>3 DEF IInv, Inserting
  <1>7. Switching' /\ Acknowledged'
    BY <1>1, <1>2 DEF IInv, Switching, Acknowledged, it_link
  <1>8. Waiting'
    <2>1. ASSUME NEW p \in Threads \ {sp} PROVE Resumable(p)'
      <3>1. Resumable(p) /\ p # anew[a] /\ p \in Procs
        BY <1>1 DEF IInv, Waiting, Threads
      <3>2. body'[p] = body[p]
        BY <1>2, <3>1
      <3>3. QED
        BY <1>2, <3>1, <3>2 DEF Resumable
    <2>2. Resumable(anew[a])'
      BY <1>1, <1>2 DEF IInv, TypeOK, Resumable
    <2>3. QED
      BY <1>2, <1>3, <2>1, <2>2 DEF Waiting
  <1>9. QED
    BY <1>4, <1>5, <1>6, <1>7, <1>8 DEF IInv

-----------------------------------------------------------------------------
(* A step from a state in which no PCB in use has been overwritten.        *)
LEMMA Steps ==
  ASSUME IInv, ~ruined, Next
  PROVE  Rest' /\ (~ruined' => IInv')
  <1>0. IInv' /\ UNCHANGED ruined => Rest' /\ (~ruined' => IInv')
    BY DEF IInv, Rest
  <1>2. CASE Irq0 \/ thread_exit
    BY <1>0, <1>2, Keeps_Irq0, Keeps_thread_exit DEF Irq0, thread_exit, acts
  <1>3. CASE Handler
    BY <1>0, <1>3, Keeps_init_proc_schedule, Keeps_BootSti, Keeps_irq_handler,
       Keeps_timer_callback, Keeps_switch_save, Keeps_switch_load, Keeps_Iret,
       Keeps_Irq1Eoi, Keeps_testProcess, Keeps_testMalloc DEF Handler, acts,
       init_proc_schedule, BootSti, irq_handler, timer_callback, switch_save, switch_load,
       Iret, Irq1Eoi, testProcess, testMalloc
  <1>4. ASSUME NEW a \in Acts,
               \/ Irq1(a) \/ Talks(a) \/ Irq1Iret(a) \/ it_pid_load(a) \/ it_pid_store(a)
               \/ it_context(a) \/ it_walk(a) \/ it_link(a)
        PROVE  IInv' /\ UNCHANGED ruined
    <2>1. IInv'
      BY <1>4, Keeps_Irq1, Keeps_talk, Keeps_Irq1Iret, Keeps_it_pid_load,
         Keeps_it_pid_store, Keeps_it_context, Keeps_it_walk, Keeps_it_link
    <2>2. UNCHANGED ruined
      BY <1>4, TalkStep DEF Irq1, Irq1Iret, it_pid_load, it_pid_store, it_context, it_walk,
         it_link
    <2>3. QED
      BY <2>1, <2>2
  <1>5. ASSUME NEW a \in Acts, it_memset(a) \/ heap_stray(a)
        PROVE  Rest' /\ (~ruined' => IInv')
    <2>1. CASE ruined'
      BY <1>5, <2>1, Ruins
    <2>2. CASE ~ruined'
      <3>1. it_memset(a)
        BY <1>5, <2>2 DEF heap_stray
      <3>2. IInv' /\ ruined' = FALSE
        BY <2>2, <3>1, Memset, Keeps_it_memset
      <3>3. QED
        BY <2>2, <3>2 DEF IInv, Rest
    <2>3. QED
      BY <2>1, <2>2
  <1>6. QED
    BY <1>0, <1>2, <1>3, <1>4, <1>5 DEF Next, Code, init_thread, Talks, Ruined

(* Nothing is followed once a PCB in use has been overwritten.             *)
LEMMA StaysRuined ==
  ASSUME Inv, Next, ruined PROVE UNCHANGED vars
  BY DEF Inv, Rest, init_proc_schedule, BootSti, Next, Code, Handler, init_thread, Irq0,
     irq_handler, timer_callback, switch_save, switch_load, Iret, thread_exit, Irq1,
     Irq1Eoi, testProcess, testMalloc, scanf, kmalloc, kfree, heap_stray, heap_ret,
     it_memset, it_pid_load, it_pid_store, it_context, it_walk, it_link, Irq1Iret,
     Running, Ruined

(* Inv is inductive.                                                       *)
LEMMA NextInv == Inv /\ [Next]_vars => Inv'
  <1> SUFFICES ASSUME Inv, [Next]_vars PROVE Inv'
    OBVIOUS
  <1>1. CASE UNCHANGED vars
    <2>1. UNCHANGED <<cpu, pcbs, stk, acts>>
      BY <1>1 DEF vars
    <2>2. TypeOK => TypeOK'
      BY <2>1 DEF TypeOK, cpu, pcbs, stk, acts
    <2>3. (Booting => Booting') /\ (Fresh => Fresh') /\ (Closed => Closed')
      BY <2>1 DEF Booting, Fresh, Closed, Threads, cpu, pcbs, stk, acts
    <2>4. Inserting => Inserting'
      BY <2>1 DEF Inserting, Building, Threads, pcbs, stk, acts
    <2>5. (Switching => Switching') /\ (Acknowledged => Acknowledged')
      BY <2>1 DEF Switching, Acknowledged, cpu, pcbs, stk, acts
    <2>6. Waiting => Waiting'
      BY <2>1 DEF Waiting, Resumable, Threads, cpu, pcbs, stk, acts
    <2>7. ruined' = ruined /\ body' = body
      BY <2>1 DEF stk, acts
    <2>8. QED
      BY <2>2, <2>3, <2>4, <2>5, <2>6, <2>7 DEF Inv, Rest, IInv
  <1>2. CASE Next /\ ~ruined
    BY <1>2, Steps DEF Inv
  <1>3. CASE Next /\ ruined
    BY <1>1, <1>3, StaysRuined
  <1>4. QED
    BY <1>1, <1>2, <1>3

(* Inv holds in every reachable state, whatever the number of threads, of  *)
(* F1 and F2 presses and of threads each of them creates.                  *)
THEOREM Invariance == Spec => []Inv
  <1>1. Init => Inv
    BY InitInv DEF Inv, Rest, IInv, Init
  <1>2. QED
    BY <1>1, NextInv, PTL DEF Spec

(* Type correctness: in particular esp always points into some thread's    *)
(* stack and the pointers the scheduler follows are PCBs (process.c:23-27, *)
(* 49-53).                                                                 *)
THEOREM TypeCorrect == Spec => []TypeOK
  <1>1. Inv => TypeOK
    BY DEF Inv, Rest
  <1>2. QED
    BY Invariance, <1>1, PTL

(* No interrupt is taken between `cur_proc = proc' (process.c:61) and the  *)
(* switch of esp, nor with an interrupt unacknowledged.                    *)
THEOREM StackSafety == Spec => []OnOwnStack
  <1>1. Inv => OnOwnStack
    BY DEF Inv, Rest, Booting, Switching, Acknowledged, OnOwnStack
  <1>2. QED
    BY Invariance, <1>1, PTL

(* switch_to (proc_s.s) always finds a context it can resume, although     *)
(* threads are created by interruptible code on any thread's stack: only a *)
(* PCB in use that kmalloc returns once more, or that kmalloc or kfree     *)
(* write a header into, ends that.                                         *)
THEOREM SwitchSafety == Spec => []OthersResumable
  <1>1. Inv => OthersResumable
    BY DEF Inv, IInv, Waiting, OthersResumable
  <1>2. QED
    BY Invariance, <1>1, PTL

-----------------------------------------------------------------------------
(***************************************************************************)
(* Following a function g from h on: what Orbit is made of.                *)
(***************************************************************************)
(* A set of numbers has a smallest element: induction, in the form the     *)
(* provers can use.                                                        *)
LEMMA Smallest ==
  ASSUME NEW T, T \subseteq Nat, T # {}
  PROVE  \E x \in T : \A y \in T : x <= y
<1>1. IsWellFoundedOn(OpToRel(<, Nat), Nat)
  BY NatLessThanWellFounded
<1>2. PICK x \in T : \A y \in T : ~(<<y, x>> \in OpToRel(<, Nat))
  BY <1>1, WFMin
<1>3. \A y \in T : ~(y < x)
  BY <1>2 DEF OpToRel
<1> QED
  BY <1>3

(* f follows g from h on, for N steps.                                     *)
Follows(f, h, g, N) ==
  f = [k \in 0 .. N |-> IF k = 0 THEN h ELSE IF f[k - 1] = NULL THEN NULL ELSE g[f[k - 1]]]

(* Such an f exists, for any number of steps.                              *)
LEMMA FollowsExists ==
  ASSUME NEW h, NEW g, NEW N \in Nat
  PROVE  \E f : Follows(f, h, g, N)
<1> DEFINE Bad == {n \in Nat : ~\E f : Follows(f, h, g, n)}
<1> SUFFICES ASSUME Bad # {} PROVE FALSE
  OBVIOUS
<1>1. PICK n \in Bad : \A m \in Bad : n <= m
  BY Smallest
<1>2. CASE n = 0
  <2>1. PICK f : f = [k \in 0 .. 0 |-> h]
    OBVIOUS
  <2>2. Follows(f, h, g, 0)
    BY <2>1 DEF Follows
  <2> QED
    BY <1>1, <1>2, <2>2
<1>3. CASE n # 0
  <2>1. PICK m \in Nat : n = m + 1
    <3>1. n - 1 \in Nat /\ n = (n - 1) + 1
      BY <1>3
    <3> QED
      BY <3>1
  <2>2. PICK f : Follows(f, h, g, m)
    BY <1>1, <2>1
  <2>3. PICK e : e = [k \in 0 .. n |-> IF k = n THEN IF f[m] = NULL THEN NULL ELSE g[f[m]]
                                               ELSE f[k]]
    OBVIOUS
  <2>4. ASSUME NEW k \in 0 .. n
        PROVE  e[k] = IF k = 0 THEN h ELSE IF e[k - 1] = NULL THEN NULL ELSE g[e[k - 1]]
    <3>1. CASE k = n
      <4>1. m = k - 1 /\ m \in 0 .. n /\ m # n /\ k # 0
        BY <2>1, <3>1
      <4>2. e[m] = f[m] /\ e[k] = IF f[m] = NULL THEN NULL ELSE g[f[m]]
        BY <2>3, <3>1, <4>1
      <4> QED
        BY <4>1, <4>2
    <3>2. CASE k # n
      <4>1. k \in 0 .. m /\ e[k] = f[k]
        BY <2>1, <2>3, <3>2
      <4>2. f[k] = IF k = 0 THEN h ELSE IF f[k - 1] = NULL THEN NULL ELSE g[f[k - 1]]
        BY <2>2, <4>1 DEF Follows
      <4>3. k # 0 => e[k - 1] = f[k - 1]
        BY <2>1, <2>3, <4>1
      <4> QED
        BY <4>1, <4>2, <4>3
    <3> QED
      BY <3>1, <3>2
  <2>5. Follows(e, h, g, n)
    BY <2>3, <2>4 DEF Follows
  <2> QED
    BY <1>1, <2>5
<1> QED
  BY <1>2, <1>3

(* Orbit is one.                                                           *)
LEMMA OrbitFollows == Follows(Orbit, run_head, next, MaxProc)
<1>1. \E f : Follows(f, run_head, next, MaxProc)
  BY ProcAssumption, FollowsExists
<1>2. \E f : f = [k \in 0 .. MaxProc |-> IF k = 0 THEN run_head
                     ELSE IF f[k - 1] = NULL THEN NULL ELSE next[f[k - 1]]]
  BY <1>1 DEF Follows
<1> QED
  BY <1>2 DEF Orbit, Follows

(* On a set T of non-null pointers that g does not leave and from all of   *)
(* which it leads to h, f comes back to h, after n steps in which it meets *)
(* no element twice, and then repeats.                                     *)
Cycle(f, h, n, N) ==
  /\ n \in 1 .. N /\ f[n] = h
  /\ \A i, j \in 0 .. n - 1 : f[i] = f[j] => i = j
  /\ {f[k] : k \in 0 .. N} = {f[k] : k \in 0 .. n - 1}

Keeps(T, g) == \A t \in T : g[t] \in T

Walks(f, g, T, N) == /\ \A k \in 0 .. N : f[k] \in T
                     /\ \A k \in 0 .. N - 1 : f[k + 1] = g[f[k]]

Leads(T, h, g) == \A X \in SUBSET (T \ {h}) : (\A t \in X : g[t] \in X) => X = {}

(* f stays in T.                                                           *)
LEMMA Stays ==
  ASSUME NEW h, NEW g, NEW f, NEW N \in Nat, NEW T, NULL \notin T, h \in T,
         Keeps(T, g), Follows(f, h, g, N)
  PROVE  f[0] = h /\ Walks(f, g, T, N)
<1>1. \A k \in 0 .. N : f[k] = IF k = 0 THEN h ELSE IF f[k - 1] = NULL THEN NULL ELSE g[f[k - 1]]
  BY DEF Follows
<1>2. f[0] = h
  BY <1>1
<1>3. \A k \in 0 .. N : f[k] \in T
  <2> DEFINE Bad == {k \in 0 .. N : f[k] \notin T}
  <2> SUFFICES ASSUME Bad # {} PROVE FALSE
    OBVIOUS
  <2>1. PICK k \in Bad : \A m \in Bad : k <= m
    <3>1. Bad \subseteq Nat
      OBVIOUS
    <3> QED
      BY <3>1, Smallest
  <2>2. k # 0
    BY <1>2, <2>1
  <2>3. k - 1 \in 0 .. N /\ ~(k <= k - 1)
    BY <2>1, <2>2
  <2>4. f[k - 1] \in T
    BY <2>1, <2>3
  <2> QED
    BY <1>1, <2>1, <2>2, <2>4 DEF Keeps
<1>4. ASSUME NEW k \in 0 .. N - 1 PROVE f[k + 1] = g[f[k]]
  <2>1. k + 1 \in 0 .. N /\ k + 1 # 0 /\ (k + 1) - 1 = k /\ k \in 0 .. N
    OBVIOUS
  <2>2. f[k] # NULL
    BY <1>3, <2>1
  <2>3. f[k + 1] = IF f[(k + 1) - 1] = NULL THEN NULL ELSE g[f[(k + 1) - 1]]
    BY <1>1, <2>1
  <2> QED
    BY <2>1, <2>2, <2>3
<1> QED
  BY <1>2, <1>3, <1>4 DEF Walks

(* Where f meets an element twice it has met h in between: otherwise the   *)
(* elements in between lead nowhere else.                                  *)
LEMMA NoLoop ==
  ASSUME NEW h, NEW g, NEW f, NEW N \in Nat, NEW T, Leads(T, h, g), Walks(f, g, T, N),
         NEW i \in 0 .. N, NEW j \in 0 .. N, i < j, f[i] = f[j]
  PROVE  \E k \in i .. j - 1 : f[k] = h
<1> SUFFICES ASSUME \A k \in i .. j - 1 : f[k] # h PROVE FALSE
  OBVIOUS
<1> DEFINE X == {f[k] : k \in i .. j - 1}
<1>1. X \subseteq T \ {h}
  <2>1. \A k \in i .. j - 1 : k \in 0 .. N
    OBVIOUS
  <2> QED
    BY <2>1 DEF Walks
<1>2. ASSUME NEW t \in X PROVE g[t] \in X
  <2>1. PICK k \in i .. j - 1 : t = f[k]
    OBVIOUS
  <2>2. k \in 0 .. N - 1 /\ g[t] = f[k + 1]
    BY <2>1 DEF Walks
  <2>3. CASE k + 1 = j
    <3>1. i \in i .. j - 1
      OBVIOUS
    <3> QED
      BY <2>2, <2>3, <3>1
  <2>4. CASE k + 1 # j
    <3>1. k + 1 \in i .. j - 1
      BY <2>4
    <3> QED
      BY <2>2, <3>1
  <2> QED
    BY <2>3, <2>4
<1>3. f[i] \in X
  <2>1. i \in i .. j - 1
    OBVIOUS
  <2> QED
    BY <2>1
<1> QED
  BY <1>1, <1>2, <1>3 DEF Leads

(* By the pigeonhole principle f comes back.                               *)
LEMMA Circles ==
  ASSUME NEW h, NEW g, NEW f, NEW N \in Nat \ {0}, NEW T \in SUBSET (1 .. N), h \in T,
         Keeps(T, g), Leads(T, h, g), Follows(f, h, g, N)
  PROVE  \E n \in 1 .. N : Cycle(f, h, n, N)
<1>0. N \in Nat /\ NULL \notin T
  BY DEF NULL
<1>w. f[0] = h /\ Walks(f, g, T, N)
  BY <1>0, Stays
<1>1. /\ f[0] = h /\ \A k \in 0 .. N : f[k] \in T
      /\ \A k \in 0 .. N - 1 : f[k + 1] = g[f[k]]
  BY <1>w DEF Walks
<1>2. ASSUME NEW i \in 0 .. N, NEW j \in 0 .. N, i < j, f[i] = f[j]
      PROVE  \E k \in i .. j - 1 : f[k] = h
  BY <1>0, <1>w, <1>2, NoLoop
<1>3. \E k \in 1 .. N : f[k] = h
  <2> SUFFICES ASSUME \A k \in 1 .. N : f[k] # h PROVE FALSE
    OBVIOUS
  <2> DEFINE R == (1 .. N) \ {h}
  <2>1. IsFiniteSet(1 .. N) /\ Cardinality(1 .. N) = N
    BY FS_Interval
  <2>2. IsFiniteSet(R) /\ Cardinality(R) < Cardinality(1 .. N)
    <3>1. IsFiniteSet(R) /\ Cardinality(R) = Cardinality(1 .. N) - 1
      BY <2>1, FS_RemoveElement
    <3> QED
      BY <2>1, <3>1
  <2>3. PICK e : e = [k \in 1 .. N |-> f[k]]
    OBVIOUS
  <2>4. e \in [1 .. N -> R]
    <3>0. \A k \in 1 .. N : k \in 0 .. N
      OBVIOUS
    <3>1. \A k \in 1 .. N : f[k] \in R
      BY <1>1, <3>0
    <3> QED
      BY <2>3, <3>1
  <2>5. PICK i \in 1 .. N, j \in 1 .. N : i # j /\ e[i] = e[j]
    BY <2>1, <2>2, <2>4, FS_PigeonHole
  <2>6. f[i] = f[j] /\ f[j] = f[i]
    BY <2>3, <2>5
  <2>7. CASE i < j
    <3>1. \E k \in i .. j - 1 : f[k] = h
      BY <1>2, <2>6, <2>7
    <3> QED
      BY <3>1
  <2>8. CASE j < i
    <3>1. \E k \in j .. i - 1 : f[k] = h
      BY <1>2, <2>6, <2>8
    <3> QED
      BY <3>1
  <2> QED
    BY <2>5, <2>7, <2>8
<1>4. PICK n \in 1 .. N : f[n] = h /\ \A k \in 1 .. N : f[k] = h => n <= k
  <2> DEFINE B == {k \in 1 .. N : f[k] = h}
  <2>1. B # {} /\ B \subseteq Nat
    BY <1>3
  <2>2. PICK n \in B : \A k \in B : n <= k
    BY <2>1, Smallest
  <2> QED
    BY <2>2
<1>5. ASSUME NEW i \in 0 .. n - 1, NEW j \in 0 .. n - 1, i < j PROVE f[i] # f[j]
  <2> SUFFICES ASSUME f[i] = f[j] PROVE FALSE
    OBVIOUS
  <2>1. CASE i = 0
    BY <1>1, <1>4, <1>5, <2>1
  <2>2. CASE i # 0
    <3>1. PICK k \in i .. j - 1 : f[k] = h
      BY <1>2, <1>5
    <3>2. k \in 1 .. N /\ ~(n <= k)
      BY <2>2, <3>1
    <3> QED
      BY <1>4, <3>1, <3>2
  <2> QED
    BY <2>1, <2>2
<1>6. \A i, j \in 0 .. n - 1 : f[i] = f[j] => i = j
  <2> SUFFICES ASSUME NEW i \in 0 .. n - 1, NEW j \in 0 .. n - 1, f[i] = f[j] PROVE i = j
    OBVIOUS
  <2>1. ~(i < j)
    BY <1>5
  <2>2. ~(j < i)
    BY <1>5
  <2> QED
    BY <2>1, <2>2
<1>7. ASSUME NEW k \in 0 .. N PROVE \E m \in 0 .. n - 1 : f[k] = f[m]
  <2> DEFINE Bad == {l \in 0 .. N : ~\E m \in 0 .. n - 1 : f[l] = f[m]}
  <2> SUFFICES ASSUME Bad # {} PROVE FALSE
    OBVIOUS
  <2>1. PICK l \in Bad : \A o \in Bad : l <= o
    <3>1. Bad \subseteq Nat
      OBVIOUS
    <3> QED
      BY <3>1, Smallest
  <2>2. l # 0
    <3>1. 0 \in 0 .. n - 1
      OBVIOUS
    <3> QED
      BY <2>1, <3>1
  <2>3. l - 1 \in 0 .. N /\ l - 1 \in 0 .. N - 1 /\ (l - 1) + 1 = l /\ ~(l <= l - 1)
    BY <2>2
  <2>4. PICK m \in 0 .. n - 1 : f[l - 1] = f[m]
    BY <2>1, <2>3
  <2>5. f[l] = g[f[l - 1]] /\ m \in 0 .. N - 1 /\ f[m + 1] = g[f[m]]
    BY <1>1, <2>3
  <2>6. CASE m + 1 = n
    <3>1. f[l] = f[0] /\ 0 \in 0 .. n - 1
      BY <1>1, <1>4, <2>4, <2>5, <2>6
    <3> QED
      BY <2>1, <3>1
  <2>7. CASE m + 1 # n
    <3>1. f[l] = f[m + 1] /\ m + 1 \in 0 .. n - 1
      BY <2>4, <2>5, <2>7
    <3> QED
      BY <2>1, <3>1
  <2> QED
    BY <2>6, <2>7
<1>8. {f[k] : k \in 0 .. N} = {f[k] : k \in 0 .. n - 1}
  <2>1. \A k \in 0 .. n - 1 : k \in 0 .. N
    OBVIOUS
  <2> QED
    BY <1>7, <2>1
<1>9. Cycle(f, h, n, N)
  BY <1>4, <1>6, <1>8 DEF Cycle
<1> QED
  BY <1>9

-----------------------------------------------------------------------------
(***************************************************************************)
(* The run list is a ring.                                                 *)
(***************************************************************************)
Linking(a) == apc[a] \in {"walk", "link"}

Headed == run_head = IF body[Boot] = "init" THEN NULL ELSE Boot

(* A PCB about to be linked points back to the head.                       *)
Returning == \A a \in Acts : Linking(a) => next[anew[a]] = run_head

(* From every thread next leads to the head, and the CPU goes where next   *)
(* led when the switch began.                                              *)
Reaching == Leads(Threads, run_head, next)
Turn     == irq[sp] \in {"save", "load"} => cur_proc = next[sp]

(* Until insertions overlap next also leads from the head to every thread: *)
(* a set that has the head and is closed under next has them all.          *)
Spans(T, h, g) == \A X \in SUBSET T : (h \in X /\ \A t \in X : g[t] \in X) => X = T
InTurn ==
  /\ body[Boot] # "init" => Spans(Threads, run_head, next)
  /\ \A a \in Acts : apc[a] = "link" => next[aproc[a]] = run_head
  /\ \A a, b \in Acts : Linking(a) /\ Linking(b) => a = b

RInv == Headed /\ Returning /\ Reaching /\ Turn /\ (~raced => InTurn)

(* Steps that leave the list alone.                                        *)
Same == /\ Threads' = Threads /\ UNCHANGED run_head
        /\ (body'[Boot] = "init") <=> (body[Boot] = "init")
        /\ \A t \in Threads : next'[t] = next[t]

(* They keep where next leads.                                             *)
LEMMA SameLeads ==
  ASSUME IInv, Same
  PROVE  /\ Reaching => Reaching'
         /\ Spans(Threads, run_head, next) => Spans(Threads, run_head, next)'
BY DEF Same, Reaching, Leads, Spans

(* They keep RInv if no activation begins or ends a walk.                  *)
LEMMA Calm ==
  ASSUME IInv, RInv, Same, UNCHANGED raced, Turn',
         \A a \in Acts : Linking(a)' => /\ Linking(a) /\ anew'[a] = anew[a]
                                        /\ next'[anew[a]] = next[anew[a]],
         \A a \in Acts : apc'[a] = "link" => apc[a] = "link" /\ aproc'[a] = aproc[a]
  PROVE  RInv'
<1>1. Headed'
  BY DEF RInv, Headed, Same
<1>2. Returning'
  BY DEF RInv, Returning, Same
<1>3. Reaching'
  BY SameLeads DEF RInv
<1>4. ASSUME ~raced' PROVE InTurn'
  <2>1. InTurn
    BY <1>4 DEF RInv
  <2>2. \A a \in Acts : apc[a] = "link" => aproc[a] \in Threads
    BY DEF IInv, Inserting
  <2>3. \A a \in Acts : apc'[a] = "link" => next'[aproc'[a]] = run_head'
    BY <2>1, <2>2 DEF InTurn, Same
  <2>4. \A a, b \in Acts : Linking(a)' /\ Linking(b)' => a = b
    BY <2>1 DEF InTurn
  <2> QED
    BY <2>1, <2>3, <2>4, SameLeads DEF InTurn, Same
<1> QED
  BY <1>1, <1>2, <1>3, <1>4 DEF RInv

(* Power-on.                                                               *)
LEMMA InitRing == Init => RInv
<1> SUFFICES ASSUME Init PROVE RInv
  OBVIOUS
<1>1. Threads = {} /\ body[Boot] = "init"
  BY BootIsAProc DEF Init, Threads
<1>2. Headed /\ Returning /\ InTurn
  BY <1>1 DEF Init, Headed, Returning, InTurn, Linking
<1>3. Reaching
  BY <1>1 DEF Reaching, Leads
<1>4. Turn
  BY BootIsAProc DEF Init, Turn
<1> QED
  BY <1>2, <1>3, <1>4 DEF RInv

(* init_proc_schedule makes a ring of one.                                 *)
LEMMA Ring_init ==
  ASSUME IInv, IInv', RInv, init_proc_schedule
  PROVE  RInv' /\ run_head' = Boot /\ Threads' = {Boot} /\ UNCHANGED <<sp, raced>>
<1>1. /\ Boot \in Procs /\ body \in [Procs -> {"init", "sti", "hlt", "free", "new", "fn", "exit"}]
      /\ next \in [Procs -> Procs \cup {NULL}] /\ body[Boot] = "init"
      /\ \A p \in Procs \ {Boot} : body[p] = "free"
      /\ sp = Boot /\ irq[Boot] = "none" /\ \A a \in Acts : apc[a] = "idle"
  BY BootIsAProc DEF IInv, TypeOK, Booting, init_proc_schedule
<1>2. /\ run_head' = Boot /\ next' = [next EXCEPT ![Boot] = Boot]
      /\ body' = [body EXCEPT ![Boot] = "sti"] /\ UNCHANGED <<sp, irq, apc, raced>>
  BY DEF init_proc_schedule, cpu, acts
<1>3. Threads' = {Boot} /\ next'[Boot] = Boot /\ body'[Boot] = "sti"
  BY <1>1, <1>2 DEF Threads
<1>4. Headed' /\ Returning' /\ Turn'
  BY <1>1, <1>2, <1>3 DEF Headed, Returning, Turn, Linking
<1>5. Reaching'
  BY <1>2, <1>3 DEF Reaching, Leads
<1>6. InTurn'
  BY <1>1, <1>2, <1>3 DEF InTurn, Spans, Linking
<1> QED
  BY <1>2, <1>3, <1>4, <1>5, <1>6 DEF RInv

(* Steps of the interrupt path, and of the boot and thread code.           *)
LEMMA Ring_path ==
  ASSUME IInv, IInv', RInv,
         BootSti \/ Irq0 \/ irq_handler \/ timer_callback \/ switch_save \/ switch_load
           \/ Iret \/ thread_exit
  PROVE  RInv' /\ Same /\ UNCHANGED raced /\ (UNCHANGED sp \/ sp' = next[sp])
<1>b. Boot \in Procs
  BY BootIsAProc
<1>1. UNCHANGED <<run_head, next, apc, anew, aproc, raced>>
  BY DEF BootSti, Irq0, irq_handler, timer_callback, switch_save, switch_load, Iret,
         thread_exit, cpu, pcbs, acts
<1>2. Threads' = Threads /\ ((body'[Boot] = "init") <=> (body[Boot] = "init"))
  <2>1. CASE BootSti
    BY <1>b, <2>1 DEF BootSti, IInv, TypeOK, Threads
  <2>2. CASE thread_exit
    BY <1>b, <2>2 DEF thread_exit, IInv, TypeOK, Booting, Threads
  <2>3. CASE Irq0 \/ irq_handler \/ timer_callback \/ switch_save \/ switch_load \/ Iret
    <3>1. UNCHANGED body
      BY <2>3 DEF Irq0, irq_handler, timer_callback, switch_save, switch_load, Iret
    <3> QED
      BY <3>1 DEF Threads
  <2> QED
    BY <2>1, <2>2, <2>3
<1>3. Same
  BY <1>1, <1>2 DEF Same
<1>t. sp \in Procs /\ irq \in [Procs -> {"none", "eoi", "callback", "save", "load", "iret"}]
  BY DEF IInv, TypeOK
<1>4. Turn' /\ (UNCHANGED sp \/ sp' = next[sp])
  <2>1. CASE BootSti
    BY <2>1 DEF BootSti, pcbs, RInv, Turn
  <2>2. CASE thread_exit
    BY <2>2 DEF thread_exit, cpu, pcbs, RInv, Turn
  <2>3. CASE Irq0 \/ irq_handler \/ Iret
    BY <1>t, <2>3 DEF Irq0, irq_handler, Iret, pcbs, Turn
  <2>4. CASE timer_callback
    <3>1. cur_proc = sp
      BY <1>b, <2>4 DEF timer_callback, IInv, Booting, Switching
    <3> QED
      BY <1>t, <2>4, <3>1 DEF timer_callback, cpu, Turn
  <2>5. CASE switch_save
    BY <1>t, <2>5 DEF switch_save, cpu, RInv, Turn
  <2>6. CASE switch_load
    <3>1. swp[sp].next = cur_proc /\ cur_proc # sp /\ cur_proc = next[sp]
      BY <2>6 DEF switch_load, IInv, Switching, RInv, Turn
    <3>2. Resumable(cur_proc) /\ cur_proc \in Procs
      <4>1. body[Boot] = "hlt"
        BY <2>6 DEF switch_load, IInv, Booting
      <4> QED
        BY <3>1, <4>1 DEF IInv, Closed, Waiting, Threads
    <3>3. sp' = cur_proc /\ irq'[cur_proc] = irq[cur_proc]
      BY <1>t, <2>6, <3>1, <3>2 DEF switch_load, Resumable
    <3>4. irq[cur_proc] \in {"iret", "none"}
      BY <3>2 DEF Resumable
    <3> QED
      BY <3>1, <3>3, <3>4 DEF Turn
  <2> QED
    BY <2>1, <2>2, <2>3, <2>4, <2>5, <2>6
<1>5. \A a \in Acts : Linking(a)' => /\ Linking(a) /\ anew'[a] = anew[a]
                                     /\ next'[anew[a]] = next[anew[a]]
  BY <1>1 DEF Linking
<1>6. \A a \in Acts : apc'[a] = "link" => apc[a] = "link" /\ aproc'[a] = aproc[a]
  BY <1>1
<1> QED
  BY <1>1, <1>3, <1>4, <1>5, <1>6, Calm

TestStep(a) ==
  \/ Irq1(a) \/ Irq1Eoi(a) \/ testProcess(a) \/ testMalloc(a) \/ Talks(a) \/ Irq1Iret(a)
  \/ it_pid_load(a) \/ it_pid_store(a)

(* Steps of a test outside the list, and of the first part of init_thread, *)
(* which writes to a PCB that is not on the list.                          *)
LEMMA Ring_test ==
  ASSUME IInv, IInv', RInv, NEW a \in Acts,
         TestStep(a)
  PROVE  RInv' /\ Same /\ UNCHANGED <<sp, raced>>
<1>1. UNCHANGED <<run_head, next, anew, aproc, body, irq, cur_proc, sp, raced>>
  BY TalkStep DEF TestStep, Irq1, Irq1Eoi, testProcess, testMalloc, it_pid_load,
     it_pid_store, Irq1Iret, cpu, pcbs, stk
<1>2. Same /\ Turn'
  BY <1>1 DEF Same, Threads, RInv, Turn
<1>3. /\ \A b \in Acts : b # a => apc'[b] = apc[b]
      /\ apc'[a] \notin {"walk", "link"}
  <2>1. apc \in [Acts -> Stages]
    BY DEF IInv, TypeOK
  <2>2. CASE Talks(a)
    BY <2>1, <2>2, TalkStep
  <2> QED
    BY <2>1, <2>2 DEF TestStep, Irq1, Irq1Eoi, testProcess, testMalloc, it_pid_load,
       it_pid_store, Irq1Iret
<1>4. \A b \in Acts : Linking(b)' => /\ Linking(b) /\ anew'[b] = anew[b]
                                     /\ next'[anew[b]] = next[anew[b]]
  BY <1>1, <1>3 DEF Linking
<1>5. \A b \in Acts : apc'[b] = "link" => apc[b] = "link" /\ aproc'[b] = aproc[b]
  BY <1>1, <1>3
<1> QED
  BY <1>1, <1>2, <1>4, <1>5, Calm

(* kmalloc gives a PCB that nobody holds.                                  *)
LEMMA Ring_memset ==
  ASSUME IInv, IInv', RInv, NEW a \in Acts, it_memset(a), ~ruined'
  PROVE  RInv' /\ Same /\ UNCHANGED <<sp, raced>>
<1>t. /\ apc \in [Acts -> Stages]
      /\ anew \in [Acts -> Procs \cup {NULL}] /\ nproc \in Procs
      /\ body \in [Procs -> {"init", "sti", "hlt", "free", "new", "fn", "exit"}]
      /\ next \in [Procs -> Procs \cup {NULL}] /\ Boot \in Procs
  BY BootIsAProc DEF IInv, TypeOK
<1>1. PICK n \in Procs : n = nproc + 1 /\ body[n] = "free"
  <2>1. nproc + 1 \in Procs /\ nproc + 1 > nproc
    BY Memset
  <2> QED
    BY <2>1 DEF IInv, Fresh
<1>2. /\ next' = [next EXCEPT ![n] = NULL] /\ body' = [body EXCEPT ![n] = "new"]
      /\ anew' = [anew EXCEPT ![a] = n] /\ apc' = [apc EXCEPT ![a] = "pid_load"]
      /\ UNCHANGED <<run_head, aproc, irq, cur_proc, sp, raced>>
  BY <1>1, Memset DEF it_memset, cpu
<1>3. Same
  <2>1. n # Boot
    BY <1>1 DEF IInv, Booting
  <2> QED
    BY <1>t, <1>1, <1>2, <2>1 DEF Same, Threads
<1>4. Turn'
  BY <1>t, <1>2 DEF it_memset, Running, Turn
<1>5. ASSUME NEW b \in Acts, Linking(b)'
      PROVE  Linking(b) /\ anew'[b] = anew[b] /\ next'[anew[b]] = next[anew[b]]
  <2>1. b # a
    BY <1>t, <1>2, <1>5 DEF Linking
  <2>2. Linking(b) /\ anew'[b] = anew[b]
    BY <1>t, <1>2, <1>5, <2>1 DEF Linking
  <2>3. body[anew[b]] = "new" /\ anew[b] \in Procs
    BY <2>2 DEF IInv, Inserting, Building, Linking
  <2> QED
    BY <1>t, <1>1, <1>2, <2>2, <2>3
<1>6. \A b \in Acts : apc'[b] = "link" => apc[b] = "link" /\ aproc'[b] = aproc[b]
  BY <1>t, <1>2
<1> QED
  BY <1>2, <1>3, <1>4, <1>5, <1>6, Calm

(* The new PCB points to the head; whoever else is linking then makes the  *)
(* insertions overlap.                                                     *)
LEMMA Ring_context ==
  ASSUME IInv, IInv', RInv, NEW a \in Acts, it_context(a)
  PROVE  RInv' /\ Same /\ UNCHANGED sp /\ (raced => raced')
<1>t. /\ apc \in [Acts -> Stages]
      /\ next \in [Procs -> Procs \cup {NULL}]
  BY BootIsAProc DEF IInv, TypeOK
<1>1. PICK n \in Procs : n = anew[a] /\ body[n] = "new"
  BY DEF it_context, IInv, Inserting, Building
<1>2. /\ next' = [next EXCEPT ![n] = run_head] /\ apc' = [apc EXCEPT ![a] = "walk"]
      /\ raced' = (raced \/ \E b \in Acts \ {a} : apc[b] \in {"walk", "link"})
      /\ UNCHANGED <<run_head, anew, body, irq, cur_proc, sp>>
      /\ \A b \in Acts \ {a} : aproc'[b] = aproc[b]
  BY <1>1 DEF it_context, cpu, stk, IInv, TypeOK
<1>3. Same
  BY <1>t, <1>1, <1>2 DEF Same, Threads
<1>4. Headed' /\ Turn' /\ Reaching'
  <2>1. Turn'
    BY <1>2 DEF it_context, Running, Turn
  <2> QED
    BY <1>3, <2>1, SameLeads DEF RInv, Headed, Same
<1>5. Returning'
  <2> SUFFICES ASSUME NEW b \in Acts, Linking(b)' PROVE next'[anew'[b]] = run_head'
    BY DEF Returning
  <2>1. CASE b = a
    BY <1>t, <1>1, <1>2, <2>1
  <2>2. CASE b # a
    <3>1. Linking(b) /\ Building(b) /\ Building(a) /\ anew[b] \in Procs
      BY <1>t, <1>2, <2>2 DEF Linking, Building, it_context, IInv, Inserting
    <3>2. anew[b] # n
      BY <1>1, <2>2, <3>1 DEF IInv, Inserting
    <3> QED
      BY <1>t, <1>2, <3>1, <3>2 DEF RInv, Returning
  <2> QED
    BY <2>1, <2>2
<1>6. ASSUME ~raced' PROVE InTurn'
  <2>1. InTurn /\ \A b \in Acts \ {a} : ~Linking(b)
    BY <1>2, <1>6 DEF RInv, Linking
  <2>2. \A b \in Acts : Linking(b)' => b = a
    BY <1>t, <1>2, <2>1 DEF Linking
  <2>3. apc'[a] = "walk"
    BY <1>t, <1>2
  <2>4. \A b \in Acts : apc'[b] # "link"
    BY <2>2, <2>3 DEF Linking
  <2> QED
    BY <1>3, <2>1, <2>2, <2>4, SameLeads DEF InTurn, Same
<1> QED
  BY <1>2, <1>3, <1>4, <1>5, <1>6 DEF RInv

(* The walk ends at a thread whose next is the head.                       *)
LEMMA Ring_walk ==
  ASSUME IInv, IInv', RInv, NEW a \in Acts, it_walk(a)
  PROVE  RInv' /\ Same /\ UNCHANGED <<sp, raced>>
<1>t. /\ apc \in [Acts -> Stages]
      /\ aproc \in [Acts -> Procs \cup {NULL}]
  BY DEF IInv, TypeOK
<1>1. /\ apc[a] = "walk" /\ UNCHANGED <<run_head, next, anew, body, irq, cur_proc, sp, raced>>
      /\ IF next[aproc[a]] # run_head
         THEN aproc' = [aproc EXCEPT ![a] = next[aproc[a]]] /\ UNCHANGED apc
         ELSE apc' = [apc EXCEPT ![a] = "link"] /\ UNCHANGED aproc
  BY DEF it_walk, cpu, pcbs, stk
<1>2. \A b \in Acts : Linking(b)' => Linking(b)
  BY <1>t, <1>1 DEF Linking
<1>3. Same /\ Headed' /\ Turn' /\ Returning' /\ Reaching'
  BY <1>1, <1>2 DEF Same, Threads, RInv, Headed, Turn, Returning, Reaching
<1>4. ASSUME ~raced' PROVE InTurn'
  <2>1. InTurn
    BY <1>1, <1>4 DEF RInv
  <2>2. \A b \in Acts : apc'[b] = "link" => next[aproc'[b]] = run_head
    <3> SUFFICES ASSUME NEW b \in Acts, apc'[b] = "link" PROVE next[aproc'[b]] = run_head
      OBVIOUS
    <3>1. CASE b = a
      BY <1>t, <1>1, <3>1
    <3>2. CASE b # a
      BY <1>t, <1>1, <2>1, <3>2 DEF InTurn
    <3> QED
      BY <3>1, <3>2
  <2> QED
    BY <1>1, <1>2, <1>3, <2>1, <2>2 DEF InTurn, Same
<1> QED
  BY <1>1, <1>3, <1>4 DEF RInv

(* The new PCB is linked behind a thread, and leads back to the head: all  *)
(* others still lead there; if insertions have not overlapped, that thread *)
(* was the last and none is passed over.                                   *)
LEMMA Ring_link ==
  ASSUME IInv, IInv', RInv, NEW a \in Acts, it_link(a)
  PROVE  /\ RInv' /\ UNCHANGED <<sp, raced, run_head>> /\ body[Boot] # "init"
         /\ anew[a] \in Procs \ Threads /\ aproc[a] \in Threads
         /\ Threads' = Threads \cup {anew[a]}
         /\ next'[anew[a]] = run_head /\ next'[aproc[a]] = anew[a]
         /\ \A t \in Threads \ {aproc[a]} : next'[t] = next[t]
         /\ ~raced => next[aproc[a]] = run_head
<1>t. /\ apc \in [Acts -> Stages]
      /\ body \in [Procs -> {"init", "sti", "hlt", "free", "new", "fn", "exit"}]
      /\ next \in [Procs -> Procs \cup {NULL}] /\ Boot \in Procs
  BY BootIsAProc DEF IInv, TypeOK
<1>0. apc[a] = "link" /\ Linking(a) /\ Building(a)
  BY DEF it_link, Linking, Building
<1>1. PICK n \in Procs : n = anew[a] /\ body[n] = "new"
  BY <1>0 DEF IInv, Inserting
<1>2. PICK q \in Procs : q = aproc[a] /\ q \in Threads
  BY <1>0 DEF IInv, Inserting, Threads
<1>3. body[Boot] # "init" /\ n # Boot /\ n \notin Threads /\ n # q /\ run_head \in Threads
      /\ \A t \in Threads : next[t] \in Threads
  <2>1. body[Boot] # "init" /\ n # Boot
    BY <1>0, <1>1 DEF IInv, Booting
  <2> QED
    BY <1>1, <1>2, <2>1 DEF IInv, Closed, Threads
<1>4. /\ next' = [next EXCEPT ![q] = n] /\ body' = [body EXCEPT ![n] = "fn"]
      /\ \A b \in Acts \ {a} : apc'[b] = apc[b]
      /\ apc'[a] \notin {"walk", "link"}
      /\ UNCHANGED <<run_head, anew, aproc, irq, cur_proc, sp, raced>>
  BY <1>t, <1>1, <1>2 DEF it_link, cpu
<1>5. Threads' = Threads \cup {n} /\ ((body'[Boot] = "init") <=> (body[Boot] = "init"))
  BY <1>t, <1>1, <1>3, <1>4 DEF Threads
<1>6. next[n] = run_head
  BY <1>0, <1>1 DEF RInv, Returning
<1>7. next'[n] = run_head /\ next'[q] = n /\ \A t \in Threads \ {q} : next'[t] = next[t]
  BY <1>t, <1>3, <1>4, <1>6 DEF Threads
<1>8. \A b \in Acts : Linking(b)' => b # a /\ Linking(b)
  BY <1>4 DEF Linking
<1>9. Headed' /\ Turn'
  <2>1. irq[sp] = "none"
    BY DEF it_link, Running
  <2> QED
    BY <1>4, <1>5, <2>1 DEF RInv, Headed, Turn
<1>10. Returning'
  <2> SUFFICES ASSUME NEW b \in Acts, Linking(b)' PROVE next'[anew[b]] = run_head
    BY <1>4 DEF Returning
  <2>1. Linking(b) /\ anew[b] \in Procs /\ body[anew[b]] = "new" /\ next[anew[b]] = run_head
    BY <1>8 DEF IInv, Inserting, Building, Linking, RInv, Returning
  <2>2. anew[b] # q
    BY <1>2, <2>1 DEF Threads
  <2> QED
    BY <1>t, <1>4, <2>1, <2>2
<1>11. Reaching'
  <2> SUFFICES ASSUME NEW X \in SUBSET (Threads' \ {run_head}), \A t \in X : next'[t] \in X
               PROVE  X = {}
    BY <1>4 DEF Reaching, Leads
  <2>1. n \notin X
    BY <1>7
  <2>2. q \notin X
    BY <1>7, <2>1
  <2>3. X \in SUBSET (Threads \ {run_head}) /\ \A t \in X : next[t] \in X
    BY <1>5, <1>7, <2>1, <2>2
  <2> QED
    BY <2>3 DEF RInv, Reaching, Leads
<1>12. ~raced => next[q] = run_head
  BY <1>0, <1>2 DEF RInv, InTurn
<1>13. ASSUME ~raced' PROVE InTurn'
  <2>1. InTurn /\ next[q] = run_head
    BY <1>4, <1>12, <1>13 DEF RInv
  <2>2. \A b \in Acts : ~Linking(b)'
    BY <1>0, <1>8, <2>1 DEF InTurn
  <2>3. \A b \in Acts : apc'[b] # "link"
    BY <2>2 DEF Linking
  <2>4. Spans(Threads, run_head, next)'
    <3> SUFFICES ASSUME NEW X \in SUBSET Threads', run_head \in X, \A t \in X : next'[t] \in X
                 PROVE  X = Threads'
      BY <1>4 DEF Spans
    <3> DEFINE Y == X \ {n}
    <3>1. Y \in SUBSET Threads /\ run_head \in Y
      BY <1>3, <1>5
    <3>2. ASSUME NEW t \in Y PROVE next[t] \in Y
      <4>1. CASE t = q
        BY <2>1, <3>1, <4>1
      <4>2. CASE t # q
        BY <1>3, <1>7, <3>1, <4>2
      <4> QED
        BY <4>1, <4>2
    <3>3. Y = Threads
      BY <1>3, <2>1, <3>1, <3>2 DEF InTurn, Spans
    <3>4. n \in X
      BY <1>2, <1>7, <3>3
    <3> QED
      BY <1>5, <3>3, <3>4
  <2> QED
    BY <2>2, <2>3, <2>4 DEF InTurn
<1> QED
  BY <1>1, <1>2, <1>3, <1>4, <1>5, <1>7, <1>9, <1>10, <1>11, <1>12, <1>13 DEF RInv

(* What each step does to the list.                                        *)
LEMMA Ring_next ==
  ASSUME IInv, IInv', RInv, Next, ~ruined, ~ruined'
  PROVE  RInv' /\ (raced => raced')
<1>1. CASE init_proc_schedule
  BY <1>1, Ring_init
<1>2. CASE BootSti \/ Irq0 \/ irq_handler \/ timer_callback \/ switch_save \/ switch_load
             \/ Iret \/ thread_exit
  BY <1>2, Ring_path
<1>3. ASSUME NEW a \in Acts, TestStep(a)
      PROVE  RInv' /\ (raced => raced')
  BY <1>3, Ring_test
<1>4. ASSUME NEW a \in Acts, it_memset(a) \/ it_context(a) \/ it_walk(a) \/ it_link(a)
      PROVE  RInv' /\ (raced => raced')
  <2>1. CASE it_memset(a)
    BY <2>1, Ring_memset
  <2>2. CASE it_context(a)
    BY <2>2, Ring_context
  <2>3. CASE it_walk(a)
    BY <2>3, Ring_walk
  <2>4. CASE it_link(a)
    BY <2>4, Ring_link
  <2> QED
    BY <1>4, <2>1, <2>2, <2>3, <2>4
<1>5. \A a \in Acts : ~heap_stray(a)
  BY DEF heap_stray
<1> QED
  BY <1>1, <1>2, <1>3, <1>4, <1>5 DEF Next, Code, Handler, init_thread, TestStep, Talks, Ruined

Good == Inv /\ (~ruined => RInv)

(* Good is inductive: the list is a ring as long as no PCB in use has been *)
(* overwritten.                                                            *)
THEOREM RingInvariance == Spec => []Good
<1>1. Init => Good
  BY InitInv, InitRing DEF Good, Inv, Rest, IInv, Init
<1>2. Good /\ [Next]_vars => Good'
  <2> SUFFICES ASSUME Good, [Next]_vars PROVE Good'
    OBVIOUS
  <2>1. Inv'
    BY NextInv DEF Good
  <2>2. CASE Next /\ ~ruined
    BY <2>1, <2>2, Ring_next DEF Good, Inv
  <2>3. CASE UNCHANGED vars
    <3> SUFFICES ASSUME ~ruined' PROVE RInv'
      BY <2>1 DEF Good
    <3>1. UNCHANGED <<run_head, next, body, apc, anew, aproc, raced, irq, sp, cur_proc, ruined>>
      BY <2>3 DEF vars, cpu, pcbs, stk, acts
    <3>0. IInv /\ RInv
      BY <3>1 DEF Good, Inv
    <3>2. Same /\ Turn'
      BY <3>0, <3>1 DEF Same, Threads, RInv, Turn
    <3>3. \A a \in Acts : Linking(a)' => /\ Linking(a) /\ anew'[a] = anew[a]
                                         /\ next'[anew[a]] = next[anew[a]]
      BY <3>1 DEF Linking
    <3>4. \A a \in Acts : apc'[a] = "link" => apc[a] = "link" /\ aproc'[a] = aproc[a]
      BY <3>1
    <3> QED
      BY <3>0, <3>1, <3>2, <3>3, <3>4, Calm
  <2>4. CASE Next /\ ruined
    BY <2>1, <2>3, <2>4, StaysRuined DEF Good
  <2> QED
    BY <2>2, <2>3, <2>4
<1> QED
  BY <1>1, <1>2, PTL DEF Spec

(* The ring, once there is one: its size, and that it holds every thread   *)
(* unless insertions have overlapped.                                      *)
Size == Cardinality(Ring)

RingOK ==
  /\ Size \in 1 .. MaxProc /\ Cycle(Orbit, run_head, Size, MaxProc)
  /\ run_head \in Threads /\ Threads \subseteq 1 .. MaxProc
  /\ Orbit[0] = run_head /\ Walks(Orbit, next, Threads, MaxProc)
  /\ Ring = {Orbit[k] : k \in 0 .. Size - 1}
  /\ ~raced => Ring = Threads

(* It follows from the invariants.                                         *)
LEMMA RingFacts == IInv /\ RInv /\ body[Boot] # "init" => RingOK
<1> SUFFICES ASSUME IInv, RInv, body[Boot] # "init" PROVE RingOK
  OBVIOUS
<1>1. /\ run_head \in Threads /\ Keeps(Threads, next) /\ Leads(Threads, run_head, next)
      /\ Threads \in SUBSET (1 .. MaxProc) /\ NULL \notin Threads
  BY DEF IInv, Closed, Keeps, RInv, Reaching, Threads, Procs, NULL
<1>2. MaxProc \in Nat \ {0} /\ MaxProc \in Nat
  BY ProcAssumption
<1>3. Follows(Orbit, run_head, next, MaxProc)
  BY OrbitFollows
<1>4. Orbit[0] = run_head /\ Walks(Orbit, next, Threads, MaxProc)
  BY <1>1, <1>2, <1>3, Stays
<1>5. PICK n \in 1 .. MaxProc : Cycle(Orbit, run_head, n, MaxProc)
  BY <1>1, <1>2, <1>3, Circles
<1>6. Ring = {Orbit[k] : k \in 0 .. n - 1}
  BY <1>5 DEF Cycle, Ring
<1>7. Size = n
  <2>1. PICK e : e = [k \in 0 .. n - 1 |-> Orbit[k]]
    OBVIOUS
  <2>2. e \in [0 .. n - 1 -> Ring]
    BY <1>6, <2>1
  <2>3. \A i, j \in 0 .. n - 1 : e[i] = e[j] => i = j
    BY <1>5, <2>1 DEF Cycle
  <2>4. \A t \in Ring : \E k \in 0 .. n - 1 : e[k] = t
    BY <1>6, <2>1
  <2>5. e \in Bijection(0 .. n - 1, Ring)
    BY <2>2, <2>3, <2>4 DEF Bijection, Injection, Surjection, IsInjective
  <2>6. ExistsBijection(0 .. n - 1, Ring)
    BY <2>5 DEF ExistsBijection
  <2>7. IsFiniteSet(0 .. n - 1) /\ Cardinality(0 .. n - 1) = n
    BY <1>2, FS_Interval
  <2> QED
    BY <2>6, <2>7, FS_Bijection DEF Size
<1>8. ASSUME ~raced PROVE Ring = Threads
  <2>1. Spans(Threads, run_head, next)
    BY <1>8 DEF RInv, InTurn
  <2>2. Ring \in SUBSET Threads /\ run_head \in Ring
    <3>1. 0 \in 0 .. MaxProc
      BY <1>2
    <3> QED
      BY <1>4, <3>1 DEF Ring, Walks
  <2>3. ASSUME NEW t \in Ring PROVE next[t] \in Ring
    <3>1. PICK k \in 0 .. n - 1 : t = Orbit[k]
      BY <1>6
    <3>2. k \in 0 .. MaxProc - 1 /\ k + 1 \in 0 .. MaxProc /\ next[t] = Orbit[k + 1]
      BY <1>2, <1>4, <3>1 DEF Walks
    <3> QED
      BY <3>2 DEF Ring
  <2> QED
    BY <2>1, <2>2, <2>3 DEF Spans
<1> QED
  BY <1>1, <1>4, <1>5, <1>6, <1>7, <1>8 DEF RingOK

(* The run list is a ring of finished threads whenever an interrupt can    *)
(* see it, although insertions are half done or overlap (process.c:47-53): *)
(* from run_head next comes back to run_head, until kmalloc or kfree       *)
(* overwrite a PCB in use.                                                 *)
THEOREM RingSafety == Spec => []RingClosed
<1>1. Good => RingClosed
  <2> SUFFICES ASSUME IInv, RInv, Up
               PROVE  Ring \subseteq Threads /\ \E k \in 1 .. MaxProc : Orbit[k] = run_head
    BY DEF RingClosed, Good, Inv
  <2>1. RingOK
    BY RingFacts DEF Up
  <2> QED
    BY <2>1 DEF RingOK, Cycle, Walks, Ring
<1> QED
  BY RingInvariance, <1>1, PTL

(* Only overlapping insertions, or a PCB in use that kmalloc or kfree have *)
(* overwritten, lose a thread: until then every thread that init_thread    *)
(* has linked is on the ring (process.c:47-53).                            *)
THEOREM NoneLost == Spec => [](~raced /\ ~ruined => NoThreadLost)
<1>1. Good => (~raced /\ ~ruined => NoThreadLost)
  <2> SUFFICES ASSUME IInv, RInv, ~raced PROVE Created \subseteq Ring
    BY DEF NoThreadLost, Good, Inv
  <2>1. CASE body[Boot] = "init"
    BY <2>1 DEF IInv, Booting, Created
  <2>2. CASE body[Boot] # "init"
    <3>1. Ring = Threads
      BY <2>2, RingFacts DEF RingOK
    <3> QED
      BY <3>1 DEF Created, Threads
  <2> QED
    BY <2>1, <2>2
<1> QED
  BY RingInvariance, <1>1, PTL

-----------------------------------------------------------------------------
(***************************************************************************)
(* Process implements Scheduler.                                           *)
(***************************************************************************)
(* Two walks agree as long as they have followed the same pointers.        *)
LEMMA Agree ==
  ASSUME NEW h, NEW g, NEW e, NEW f, NEW d, NEW N \in Nat, NEW m \in 0 .. N,
         Follows(f, h, g, N), Follows(d, h, e, N), \A k \in 0 .. m - 1 : e[f[k]] = g[f[k]]
  PROVE  \A k \in 0 .. m : d[k] = f[k]
<1> DEFINE Bad == {k \in 0 .. m : d[k] # f[k]}
<1> SUFFICES ASSUME Bad # {} PROVE FALSE
  OBVIOUS
<1>1. PICK k \in Bad : \A l \in Bad : k <= l
  <2>1. Bad \subseteq Nat
    OBVIOUS
  <2> QED
    BY <2>1, Smallest
<1>2. k \in 0 .. N
  BY <1>1
<1>3. /\ f[k] = IF k = 0 THEN h ELSE IF f[k - 1] = NULL THEN NULL ELSE g[f[k - 1]]
      /\ d[k] = IF k = 0 THEN h ELSE IF d[k - 1] = NULL THEN NULL ELSE e[d[k - 1]]
  BY <1>2 DEF Follows
<1>4. k # 0
  BY <1>1, <1>3
<1>5. k - 1 \in 0 .. m /\ k - 1 \in 0 .. m - 1 /\ ~(k <= k - 1)
  BY <1>1, <1>4
<1>6. d[k - 1] = f[k - 1]
  BY <1>1, <1>5
<1> QED
  BY <1>1, <1>3, <1>4, <1>5, <1>6

(* A step that leaves the list alone leaves the order alone.               *)
LEMMA SameOrder ==
  ASSUME IInv, RInv, Same
  PROVE  UNCHANGED RingOrder
<1>1. CASE body[Boot] = "init"
  <2>1. run_head = NULL /\ run_head' = NULL
    BY <1>1 DEF RInv, Headed, Same
  <2> QED
    BY <2>1 DEF RingOrder
<1>2. CASE body[Boot] # "init"
  <2>1. RingOK
    BY <1>2, RingFacts
  <2>2. Follows(Orbit, run_head, next, MaxProc) /\ Follows(Orbit', run_head', next', MaxProc)
    <3>1. Follows(Orbit, run_head, next, MaxProc)
      BY OrbitFollows
    <3>2. Follows(Orbit, run_head, next, MaxProc)'
      BY OrbitFollows, PTL
    <3> QED
      BY <3>1, <3>2
  <2>3. MaxProc \in Nat /\ MaxProc \in 0 .. MaxProc
    BY ProcAssumption
  <2>4. \A k \in 0 .. MaxProc - 1 : next'[Orbit[k]] = next[Orbit[k]]
    <3>1. \A k \in 0 .. MaxProc - 1 : k \in 0 .. MaxProc
      BY <2>3
    <3>2. \A k \in 0 .. MaxProc - 1 : Orbit[k] \in Threads
      BY <2>1, <3>1 DEF RingOK, Walks
    <3> QED
      BY <3>2 DEF Same
  <2>5. run_head' = run_head
    BY DEF Same
  <2>6. \A k \in 0 .. MaxProc : Orbit'[k] = Orbit[k]
    BY <2>2, <2>3, <2>4, <2>5, Agree
  <2>7. Ring' = Ring
    BY <2>6 DEF Ring
  <2>8. \A k \in 1 .. Cardinality(Ring) : k - 1 \in 0 .. MaxProc
    BY <2>1, <2>3 DEF RingOK, Size
  <2> QED
    BY <2>5, <2>6, <2>7, <2>8 DEF RingOrder
<1> QED
  BY <1>1, <1>2

(* Nor does one that leaves the pointers alone.                            *)
LEMMA SameOrbit == UNCHANGED <<run_head, next>> => UNCHANGED Orbit
  BY DEF Orbit

(* The order, as long as there are threads.                                *)
LEMMA Order == RingOK => /\ RingOrder = [k \in 1 .. Size |-> Orbit[k - 1]]
                         /\ Len(RingOrder) = Size /\ Size \in Nat
<1> SUFFICES ASSUME RingOK PROVE /\ RingOrder = [k \in 1 .. Size |-> Orbit[k - 1]]
                                 /\ Len(RingOrder) = Size /\ Size \in Nat
  OBVIOUS
<1>1. run_head # NULL /\ Size \in Nat
  BY DEF RingOK, NULL
<1>2. RingOrder = [k \in 1 .. Size |-> Orbit[k - 1]]
  BY <1>1 DEF RingOrder, Size
<1> QED
  BY <1>1, <1>2

(* The CPU goes to the successor.                                          *)
LEMMA Switches ==
  ASSUME IInv, RInv, ~raced, body[Boot] # "init", sp' = next[sp], UNCHANGED RingOrder
  PROVE  S!Switch
<1>1. RingOK /\ sp \in Threads
  BY RingFacts DEF IInv, Closed
<1>2. PICK n \in 1 .. MaxProc : n = Size
  BY <1>1 DEF RingOK
<1>3. /\ RingOrder = [k \in 1 .. n |-> Orbit[k - 1]] /\ Len(RingOrder) = n
  BY <1>1, <1>2, Order
<1>4. PICK i \in 0 .. n - 1 : sp = Orbit[i]
  BY <1>1, <1>2 DEF RingOK
<1>5. Orbit[i + 1] = next[sp] /\ Orbit[0] = run_head /\ Orbit[n] = run_head
  <2>1. i \in 0 .. MaxProc - 1
    BY <1>2, <1>4, ProcAssumption
  <2> QED
    BY <1>1, <1>2, <1>4, <2>1 DEF RingOK, Walks, Cycle
<1>6. i + 1 \in 1 .. n /\ RingOrder[i + 1] = sp
  BY <1>3, <1>4
<1>7. sp' = RingOrder[((i + 1) % n) + 1]
  <2>1. CASE i + 1 = n
    <3>0. n \in Nat \ {0} /\ n % n = 0 /\ 1 \in 1 .. n
      BY <1>2, ProcAssumption
    <3>1. (i + 1) % n = 0 /\ RingOrder[1] = Orbit[0]
      <4>1. RingOrder[1] = Orbit[1 - 1]
        BY <1>3, <3>0
      <4>2. (i + 1) % n = 0
        BY <2>1, <3>0
      <4> QED
        BY <4>1, <4>2
    <3> QED
      BY <1>5, <2>1, <3>1
  <2>2. CASE i + 1 # n
    <3>1. (i + 1) % n = i + 1 /\ (i + 1) + 1 \in 1 .. n
      BY <1>2, <1>4, <2>2, ProcAssumption
    <3>2. RingOrder[(i + 1) + 1] = Orbit[i + 1]
      BY <1>3, <3>1
    <3> QED
      BY <1>5, <3>1, <3>2
  <2> QED
    BY <2>1, <2>2
<1> QED
  BY <1>3, <1>6, <1>7 DEF S!Switch

(* A new thread comes last.                                                *)
LEMMA Creates ==
  ASSUME IInv, IInv', RInv, NEW a \in Acts, it_link(a), ~raced
  PROVE  S!Create
<1>1. /\ RInv' /\ UNCHANGED <<sp, raced, run_head>> /\ body[Boot] # "init"
      /\ anew[a] \in Procs \ Threads /\ aproc[a] \in Threads
      /\ Threads' = Threads \cup {anew[a]}
      /\ next'[anew[a]] = run_head /\ next'[aproc[a]] = anew[a]
      /\ \A t \in Threads \ {aproc[a]} : next'[t] = next[t]
      /\ next[aproc[a]] = run_head
  BY Ring_link
<1>2. body'[Boot] # "init"
  BY <1>1, BootIsAProc DEF it_link, IInv, TypeOK
<1>3. RingOK /\ RingOK'
  <2>1. RingOK
    BY <1>1, RingFacts
  <2>2. (IInv /\ RInv /\ body[Boot] # "init" => RingOK)'
    BY RingFacts, PTL
  <2> QED
    BY <1>1, <1>2, <2>1, <2>2
<1>4. PICK n \in 1 .. MaxProc : n = Size
  BY <1>3 DEF RingOK
<1>5. PICK x : x = anew[a]
  OBVIOUS
<1>6. PICK q : q = aproc[a]
  OBVIOUS
<1>k. MaxProc \in Nat \ {0} /\ n \in Nat
  BY <1>4, ProcAssumption
<1>7. Size' = n + 1
  <2>1. Ring = Threads /\ Ring' = Threads \cup {x} /\ x \notin Threads
    BY <1>1, <1>3, <1>5 DEF RingOK
  <2>2. IsFiniteSet(Threads)
    <3>1. IsFiniteSet(1 .. MaxProc)
      BY <1>k, FS_Interval
    <3> QED
      BY <1>3, <3>1, FS_Subset DEF RingOK
  <2>3. Cardinality(Threads \cup {x}) = Cardinality(Threads) + 1
    BY <2>1, <2>2, FS_AddElement
  <2> QED
    BY <1>4, <2>1, <2>3 DEF Size
<1>8. n + 1 \in 1 .. MaxProc
  BY <1>3, <1>7 DEF RingOK
<1>9. /\ Orbit[0] = run_head /\ Orbit[n] = run_head
      /\ \A k \in 0 .. n - 1 : Orbit[k + 1] = next[Orbit[k]] /\ Orbit[k] \in Threads
      /\ \A i, j \in 0 .. n - 1 : Orbit[i] = Orbit[j] => i = j
      /\ Threads = {Orbit[k] : k \in 0 .. n - 1}
  <2>1. \A k \in 0 .. n - 1 : k \in 0 .. MaxProc - 1 /\ k \in 0 .. MaxProc
    BY <1>4, <1>k
  <2> QED
    BY <1>3, <1>4, <2>1 DEF RingOK, Walks, Cycle
<1>10. q = Orbit[n - 1]
  <2>1. PICK i \in 0 .. n - 1 : q = Orbit[i]
    BY <1>1, <1>6, <1>9
  <2>2. Orbit[i + 1] = Orbit[0]
    BY <1>1, <1>6, <1>9, <2>1
  <2>3. i + 1 \notin 0 .. n - 1
    <3>1. 0 \in 0 .. n - 1 /\ i + 1 # 0
      BY <1>4, <1>k
    <3> QED
      BY <1>9, <2>2, <3>1
  <2>4. i = n - 1
    BY <1>k, <2>3
  <2> QED
    BY <2>1, <2>4
<1>11. \A k \in 0 .. n - 1 : Orbit'[k] = Orbit[k]
  <2>1. Follows(Orbit, run_head, next, MaxProc)
    BY OrbitFollows
  <2>2. Follows(Orbit, run_head, next, MaxProc)'
    BY OrbitFollows, PTL
  <2>3. Follows(Orbit', run_head, next', MaxProc)
    BY <1>1, <2>2
  <2>4. \A k \in 0 .. (n - 1) - 1 : next'[Orbit[k]] = next[Orbit[k]]
    <3> SUFFICES ASSUME NEW k \in 0 .. (n - 1) - 1 PROVE next'[Orbit[k]] = next[Orbit[k]]
      OBVIOUS
    <3>1. k \in 0 .. n - 1 /\ n - 1 \in 0 .. n - 1 /\ k # n - 1
      BY <1>k, <1>4
    <3>2. Orbit[k] \in Threads /\ Orbit[k] # q
      BY <1>9, <1>10, <3>1
    <3> QED
      BY <1>1, <1>6, <3>2
  <2>5. MaxProc \in Nat /\ n - 1 \in 0 .. MaxProc
    BY <1>k, <1>4
  <2> QED
    BY <2>1, <2>3, <2>4, <2>5, Agree
<1>12. Orbit'[n] = x
  <2>1. n - 1 \in 0 .. MaxProc - 1 /\ n - 1 \in 0 .. n - 1 /\ (n - 1) + 1 = n
    BY <1>k, <1>4
  <2>2. Orbit'[(n - 1) + 1] = next'[Orbit'[n - 1]]
    BY <1>3, <2>1 DEF RingOK, Walks
  <2> QED
    BY <1>1, <1>5, <1>6, <1>10, <1>11, <2>1, <2>2
<1>13. RingOrder = [k \in 1 .. n |-> Orbit[k - 1]] /\ Len(RingOrder) = n
  BY <1>3, <1>4, Order
<1>14. RingOrder' = [k \in 1 .. n + 1 |-> Orbit'[k - 1]] /\ Len(RingOrder') = n + 1
  <2>1. (RingOK => /\ RingOrder = [k \in 1 .. Size |-> Orbit[k - 1]]
                   /\ Len(RingOrder) = Size /\ Size \in Nat)'
    BY Order, PTL
  <2> QED
    BY <1>3, <1>7, <2>1
<1>15. \A k \in 1 .. n : RingOrder'[k] = RingOrder[k] /\ RingOrder[k] \in Threads
  <2> SUFFICES ASSUME NEW k \in 1 .. n PROVE RingOrder'[k] = RingOrder[k] /\ RingOrder[k] \in Threads
    OBVIOUS
  <2>1. k - 1 \in 0 .. n - 1 /\ k \in 1 .. n + 1
    BY <1>k
  <2> QED
    BY <1>9, <1>11, <1>13, <1>14, <2>1
<1>16. RingOrder'[n + 1] = x
  <2>1. n + 1 \in 1 .. n + 1 /\ (n + 1) - 1 = n
    BY <1>k
  <2> QED
    BY <1>12, <1>14, <2>1
<1>17. SubSeq(RingOrder', 1, (n + 1) - 1) = RingOrder
  <2>1. (n + 1) - 1 = n
    BY <1>k
  <2>2. SubSeq(RingOrder', 1, n) = [k \in 1 .. n |-> RingOrder'[k]]
    BY <1>k, <1>14
  <2>3. RingOrder = [k \in 1 .. n |-> RingOrder[k]]
    BY <1>13
  <2> QED
    BY <1>15, <2>1, <2>2, <2>3
<1>18. \A k \in 1 .. (n + 1) - 1 : RingOrder'[k] # RingOrder'[n + 1]
  <2>1. (n + 1) - 1 = n
    BY <1>k
  <2> QED
    BY <1>1, <1>5, <1>15, <1>16, <2>1
<1> QED
  BY <1>1, <1>13, <1>14, <1>17, <1>18 DEF S!Create

(* The boot thread is the first.                                           *)
LEMMA CreatesFirst ==
  ASSUME IInv, IInv', RInv, init_proc_schedule
  PROVE  S!Create
<1>1. RInv' /\ run_head' = Boot /\ Threads' = {Boot} /\ UNCHANGED <<sp, raced>>
  BY Ring_init
<1>2. run_head = NULL /\ body'[Boot] # "init"
  BY BootIsAProc DEF RInv, Headed, init_proc_schedule, IInv, TypeOK
<1>3. RingOK'
  <2>1. (IInv /\ RInv /\ body[Boot] # "init" => RingOK)'
    BY RingFacts, PTL
  <2> QED
    BY <1>1, <1>2, <2>1
<1>4. RingOrder = <<>> /\ Len(RingOrder) = 0
  BY <1>2 DEF RingOrder
<1>5. Size' = 1
  <2>1. PICK n : n = Size'
    OBVIOUS
  <2>2. n \in 1 .. MaxProc /\ MaxProc \in Nat
    BY <1>3, <2>1, ProcAssumption DEF RingOK
  <2>3. \A i, j \in 0 .. n - 1 : Orbit'[i] = Orbit'[j] => i = j
    BY <1>3, <2>1 DEF RingOK, Cycle
  <2>4. \A i \in 0 .. MaxProc : Orbit'[i] = Boot
    BY <1>1, <1>3 DEF RingOK, Walks
  <2>5. CASE n > 1
    <3>1. 0 \in 0 .. n - 1 /\ 1 \in 0 .. n - 1 /\ 0 \in 0 .. MaxProc /\ 1 \in 0 .. MaxProc
      BY <2>2, <2>5
    <3> QED
      BY <2>3, <2>4, <3>1
  <2> QED
    BY <2>1, <2>2, <2>5
<1>6. Len(RingOrder') = 1
  <2>1. (RingOK => /\ RingOrder = [k \in 1 .. Size |-> Orbit[k - 1]]
                   /\ Len(RingOrder) = Size /\ Size \in Nat)'
    BY Order, PTL
  <2> QED
    BY <1>3, <1>5, <2>1
<1>7. SubSeq(RingOrder', 1, (0 + 1) - 1) = <<>>
  OBVIOUS
<1>8. \A k \in 1 .. (0 + 1) - 1 : RingOrder'[k] # RingOrder'[0 + 1]
  OBVIOUS
<1> QED
  BY <1>1, <1>4, <1>6, <1>7, <1>8 DEF S!Create

(* Process implements Scheduler (process.c:47-70): until two insertions    *)
(* overlap, or kmalloc or kfree overwrite a PCB in use, the CPU goes from  *)
(* each thread to its successor in the order of creation, a new thread     *)
(* comes last, and none is passed over.                                    *)
THEOREM Refinement == Spec => TakesTurns
<1>1. Init => S!Init
  BY DEF Init, S!Init, RingOrder
<1>2. Good /\ Good' /\ [Next]_vars => [S!Next]_<<RingOrder, sp, raced \/ ruined>>
  <2> SUFFICES ASSUME Good, Good', [Next]_vars
               PROVE  [S!Next]_<<RingOrder, sp, raced \/ ruined>>
    OBVIOUS
  <2>0. raced \in BOOLEAN /\ raced' \in BOOLEAN
    BY DEF Good, Inv, Rest, TypeOK
  <2>1. CASE UNCHANGED vars
    <3>1. UNCHANGED <<run_head, next, Ring, Orbit, sp, raced, ruined>>
      BY <2>1, SameOrbit DEF vars, cpu, pcbs, acts, Ring
    <3>2. RingOrder' = RingOrder
      BY <3>1 DEF RingOrder
    <3>3. (raced \/ ruined)' = (raced \/ ruined)
      BY <3>1
    <3> QED
      BY <3>1, <3>2, <3>3
  <2>2. CASE Next /\ ~ruined
    <3>0. (raced \/ ruined)' => S!Next
      BY DEF S!Next
    <3> SUFFICES ASSUME ~raced', ~ruined'
                 PROVE  S!Next \/ UNCHANGED <<RingOrder, sp, raced>>
      BY <2>2, <3>0
    <3>1. IInv /\ RInv /\ IInv' /\ ~raced
      BY <2>2, Ring_next DEF Good, Inv
    <3> SUFFICES S!Create \/ S!Switch \/ UNCHANGED <<RingOrder, sp, raced>>
      BY <2>2, <3>1 DEF S!Next
    <3>2. CASE init_proc_schedule
      BY <3>1, <3>2, CreatesFirst
    <3>3. CASE BootSti \/ Irq0 \/ irq_handler \/ timer_callback \/ switch_save \/ switch_load
                 \/ Iret \/ thread_exit
      <4>1. Same /\ UNCHANGED raced /\ (UNCHANGED sp \/ sp' = next[sp])
        BY <3>1, <3>3, Ring_path
      <4>2. UNCHANGED RingOrder
        BY <3>1, <4>1, SameOrder
      <4>3. UNCHANGED sp \/ body[Boot] # "init"
        BY <3>1, <3>3, BootIsAProc DEF IInv, Booting, BootSti, Irq0, irq_handler, timer_callback,
           switch_save, switch_load, Iret, thread_exit, cpu
      <4>4. CASE UNCHANGED sp
        BY <4>1, <4>2, <4>4
      <4>5. CASE sp' = next[sp] /\ body[Boot] # "init"
        BY <3>1, <4>2, <4>5, Switches
      <4> QED
        BY <4>1, <4>3, <4>4, <4>5
    <3>4. ASSUME NEW a \in Acts, TestStep(a)
          PROVE  UNCHANGED <<RingOrder, sp, raced>>
      <4>1. Same /\ UNCHANGED <<sp, raced>>
        BY <3>1, <3>4, Ring_test
      <4> QED
        BY <3>1, <4>1, SameOrder
    <3>5. ASSUME NEW a \in Acts, it_memset(a) \/ it_context(a) \/ it_walk(a)
          PROVE  UNCHANGED <<RingOrder, sp, raced>>
      <4>1. Same /\ UNCHANGED <<sp, raced>>
        <5>1. CASE it_memset(a)
          BY <3>1, <5>1, Ring_memset
        <5>2. CASE it_context(a)
          BY <3>1, <5>2, <2>0, Ring_context
        <5>3. CASE it_walk(a)
          BY <3>1, <5>3, Ring_walk
        <5> QED
          BY <3>5, <5>1, <5>2, <5>3
      <4> QED
        BY <3>1, <4>1, SameOrder
    <3>6. ASSUME NEW a \in Acts, it_link(a) PROVE S!Create
      BY <3>1, <3>6, Creates
    <3> QED
      BY <2>2, <3>2, <3>3, <3>4, <3>5, <3>6 DEF Next, Code, Handler, init_thread,
         TestStep, Talks, Ruined, heap_stray
  <2>3. CASE Next /\ ruined
    BY <2>1, <2>3, StaysRuined DEF Good
  <2> QED
    BY <2>1, <2>2, <2>3
<1>3. Spec => []Good
  BY RingInvariance
<1> QED
  BY <1>1, <1>2, <1>3, PTL DEF Spec, TakesTurns, S!Spec

-----------------------------------------------------------------------------
(***************************************************************************)
(* The numbers of threads.                                                 *)
(***************************************************************************)
HasPid(p) == p \in Threads \/ \E a \in Acts : apc[a] \in {"context", "walk", "link"} /\ anew[a] = p

(* Pids handed out are below cur_pid, which only one call has loaded.      *)
Numbered ==
  /\ \A p \in Procs : HasPid(p) => pid[p] < cur_pid
  /\ \A p, q \in Procs : HasPid(p) /\ HasPid(q) /\ pid[p] = pid[q] => p = q
  /\ \A a \in Acts : apc[a] = "pid_store" => apid[a] = cur_pid
  /\ \A a, b \in Acts : apc[a] = "pid_store" /\ apc[b] = "pid_store" => a = b

(* A step that gives no pid, and makes no PCB a thread that had none.      *)
LEMMA NoPid ==
  ASSUME Numbered, UNCHANGED <<pid, cur_pid>>,
         \A p \in Procs : HasPid(p)' => HasPid(p),
         \A a \in Acts : apc'[a] = "pid_store" => apc[a] = "pid_store" /\ apid'[a] = apid[a]
  PROVE  Numbered'
BY DEF Numbered

(* Every step keeps them in order, unless two calls have loaded cur_pid.   *)
LEMMA NumberedStep ==
  ASSUME IInv, IInv', Numbered, Next, ~ruined, ~ruined',
         \A a, b \in Acts : apc'[a] = "pid_store" /\ apc'[b] = "pid_store" => a = b
  PROVE  Numbered'
<1>t. /\ apc \in [Acts -> Stages]
      /\ body \in [Procs -> {"init", "sti", "hlt", "free", "new", "fn", "exit"}]
      /\ anew \in [Acts -> Procs \cup {NULL}] /\ apid \in [Acts -> Nat]
      /\ pid \in [Procs -> Nat] /\ cur_pid \in Nat /\ Boot \in Procs
  BY BootIsAProc DEF IInv, TypeOK
<1>1. CASE init_proc_schedule
  <2>1. \A p \in Procs : ~HasPid(p)
    BY <1>1 DEF init_proc_schedule, IInv, Booting, HasPid, Threads
  <2>2. \A p \in Procs : HasPid(p)' => p = Boot
    BY <1>1, <1>t DEF init_proc_schedule, IInv, Booting, HasPid, Threads, acts
  <2>3. pid'[Boot] = cur_pid /\ cur_pid' = cur_pid + 1 /\ \A a \in Acts : apc'[a] = "idle"
    BY <1>1, <1>t DEF init_proc_schedule, IInv, Booting, acts
  <2> QED
    BY <1>t, <2>2, <2>3 DEF Numbered
<1>2. CASE BootSti \/ Irq0 \/ irq_handler \/ timer_callback \/ switch_save \/ switch_load
             \/ Iret \/ thread_exit
  <2>1. UNCHANGED <<pid, cur_pid, apc, anew, apid>>
    BY <1>2 DEF BootSti, Irq0, irq_handler, timer_callback, switch_save, switch_load, Iret,
         thread_exit, cpu, pcbs, acts
  <2>2. \A p \in Procs : body'[p] \in {"sti", "hlt", "fn", "exit"} => body[p] \in {"sti", "hlt", "fn", "exit"}
    BY <1>2, <1>t DEF BootSti, Irq0, irq_handler, timer_callback, switch_save, switch_load, Iret,
         thread_exit, IInv, TypeOK
  <2>3. \A p \in Procs : HasPid(p)' => HasPid(p)
    BY <2>1, <2>2 DEF HasPid, Threads
  <2> QED
    BY <2>1, <2>3, NoPid
<1>3. ASSUME NEW a \in Acts,
             \/ Irq1(a) \/ Irq1Eoi(a) \/ testProcess(a) \/ testMalloc(a) \/ Talks(a)
             \/ Irq1Iret(a)
      PROVE  Numbered'
  <2>1. UNCHANGED <<pid, cur_pid, apid, anew, body>>
    BY <1>3, TalkStep DEF Irq1, Irq1Eoi, testProcess, testMalloc, Irq1Iret, pcbs, stk
  <2>2. /\ \A b \in Acts : b # a => apc'[b] = apc[b]
        /\ apc'[a] \notin {"pid_store", "context", "walk", "link"}
    <3>1. CASE Talks(a)
      BY <1>t, <3>1, TalkStep
    <3> QED
      BY <1>3, <1>t, <3>1 DEF Irq1, Irq1Eoi, testProcess, testMalloc, Irq1Iret
  <2>4. \A p \in Procs : HasPid(p)' => HasPid(p)
    BY <2>1, <2>2 DEF HasPid, Threads
  <2> QED
    BY <2>1, <2>2, <2>4, NoPid
<1>7. ASSUME NEW a \in Acts, it_memset(a) PROVE Numbered'
  <2>0. PICK n \in Procs : n = nproc + 1 /\ body[n] = "free"
    <3>1. nproc + 1 \in Procs /\ nproc + 1 > nproc
      BY <1>7, Memset
    <3> QED
      BY <3>1 DEF IInv, Fresh
  <2>1. /\ anew' = [anew EXCEPT ![a] = n] /\ pid' = [pid EXCEPT ![n] = 0]
        /\ body' = [body EXCEPT ![n] = "new"] /\ apc' = [apc EXCEPT ![a] = "pid_load"]
        /\ UNCHANGED <<cur_pid, apid>>
    BY <1>7, <2>0, Memset DEF it_memset
  <2>2. ASSUME NEW p \in Procs, HasPid(p)' PROVE p # n /\ HasPid(p)
    <3>1. CASE p \in Threads'
      BY <1>t, <2>0, <2>1, <3>1 DEF Threads, HasPid
    <3>2. CASE \E b \in Acts : apc'[b] \in {"context", "walk", "link"} /\ anew'[b] = p
      <4>1. PICK b \in Acts : apc'[b] \in {"context", "walk", "link"} /\ anew'[b] = p
        BY <3>2
      <4>2. b # a /\ apc[b] \in {"context", "walk", "link"} /\ anew[b] = p
        BY <1>t, <2>1, <4>1
      <4>3. body[p] = "new"
        BY <4>2 DEF IInv, Inserting, Building
      <4> QED
        BY <2>0, <4>2, <4>3 DEF HasPid
    <3> QED
      BY <2>2, <3>1, <3>2 DEF HasPid
  <2>3. \A p \in Procs : HasPid(p)' => pid'[p] = pid[p]
    BY <1>t, <2>1, <2>2
  <2>4. \A b \in Acts : apc'[b] = "pid_store" => apc[b] = "pid_store"
    BY <1>t, <2>1
  <2> QED
    BY <2>1, <2>2, <2>3, <2>4 DEF Numbered
<1>4. ASSUME NEW a \in Acts, it_context(a) \/ it_walk(a) \/ it_link(a)
      PROVE  Numbered'
  <2>1. UNCHANGED <<pid, cur_pid, apid, anew>>
    BY <1>4 DEF it_context, it_walk, it_link, pcbs
  <2>2. /\ \A b \in Acts : b # a => apc'[b] = apc[b]
        /\ apc[a] \in {"context", "walk", "link"} /\ apc'[a] # "pid_store"
    BY <1>4, <1>t DEF it_context, it_walk, it_link
  <2>3. \A p \in Procs : body'[p] \in {"sti", "hlt", "fn", "exit"} =>
                           body[p] \in {"sti", "hlt", "fn", "exit"} \/ p = anew[a]
    BY <1>4, <1>t DEF it_context, it_walk, it_link, stk
  <2>4. \A p \in Procs : HasPid(p)' => HasPid(p)
    BY <2>1, <2>2, <2>3 DEF HasPid, Threads
  <2> QED
    BY <2>1, <2>2, <2>4, NoPid
<1>5. ASSUME NEW a \in Acts, it_pid_load(a) PROVE Numbered'
  <2>1. /\ UNCHANGED <<pid, cur_pid, body, anew>> /\ apid' = [apid EXCEPT ![a] = cur_pid]
        /\ apc' = [apc EXCEPT ![a] = "pid_store"]
    BY <1>5 DEF it_pid_load, pcbs, stk
  <2>2. \A p \in Procs : HasPid(p)' => HasPid(p)
    BY <1>t, <2>1 DEF HasPid, Threads
  <2>3. \A b \in Acts : apc'[b] = "pid_store" => apid'[b] = cur_pid'
    BY <1>t, <2>1 DEF Numbered
  <2> QED
    BY <2>1, <2>2, <2>3 DEF Numbered
<1>6. ASSUME NEW a \in Acts, it_pid_store(a) PROVE Numbered'
  <2>1. PICK x \in Procs : x = anew[a] /\ body[x] = "new" /\ Building(a)
    BY <1>6 DEF it_pid_store, IInv, Inserting, Building
  <2>2. /\ apc[a] = "pid_store" /\ apid[a] = cur_pid /\ cur_pid' = cur_pid + 1
        /\ pid' = [pid EXCEPT ![x] = cur_pid] /\ apc' = [apc EXCEPT ![a] = "context"]
        /\ UNCHANGED <<body, anew, apid>>
    BY <1>6, <2>1 DEF it_pid_store, stk, Numbered
  <2>3. ASSUME NEW p \in Procs, HasPid(p)', p # x
        PROVE  HasPid(p) /\ pid'[p] = pid[p] /\ pid[p] < cur_pid /\ pid[p] \in Nat
    <3>1. HasPid(p)
      BY <1>t, <2>1, <2>2, <2>3 DEF HasPid, Threads
    <3> QED
      BY <1>t, <2>2, <2>3, <3>1 DEF Numbered
  <2>4. pid'[x] = cur_pid
    BY <1>t, <2>2
  <2>5. ASSUME NEW p \in Procs, HasPid(p)' PROVE pid'[p] < cur_pid'
    BY <1>t, <2>2, <2>3, <2>4, <2>5
  <2>6. ASSUME NEW p \in Procs, NEW q \in Procs, HasPid(p)', HasPid(q)', pid'[p] = pid'[q]
        PROVE  p = q
    <3>1. CASE p = x /\ q # x
      BY <1>t, <2>3, <2>4, <2>6, <3>1
    <3>2. CASE q = x /\ p # x
      BY <1>t, <2>3, <2>4, <2>6, <3>2
    <3>3. CASE p # x /\ q # x
      BY <2>3, <2>6, <3>3 DEF Numbered
    <3> QED
      BY <3>1, <3>2, <3>3
  <2>7. \A b \in Acts : apc'[b] # "pid_store"
    BY <1>t, <2>2 DEF Numbered
  <2> QED
    BY <2>5, <2>6, <2>7 DEF Numbered
<1> QED
  BY <1>1, <1>2, <1>3, <1>4, <1>5, <1>6, <1>7 DEF Next, Code, Handler, init_thread, Talks,
     Ruined, heap_stray

(* No two threads have the same pid (process.c:36), unless two calls of    *)
(* init_thread have loaded cur_pid before either stored it, or a PCB in    *)
(* use has been overwritten.                                               *)
THEOREM PidSafety == SpecR => []PidsUnique
<1> DEFINE PInv == Inv /\ pidRaced \in BOOLEAN /\ (~pidRaced /\ ~ruined => Numbered)
<1>1. InitR => PInv
  <2> SUFFICES ASSUME InitR PROVE PInv
    OBVIOUS
  <2>1. \A p \in Procs : ~HasPid(p)
    BY BootIsAProc DEF InitR, Init, HasPid, Threads
  <2>2. \A a \in Acts : apc[a] = "idle"
    BY DEF InitR, Init
  <2>3. Inv
    BY InitInv DEF InitR, Init, Inv, Rest, IInv
  <2> QED
    BY <2>1, <2>2, <2>3 DEF InitR, Numbered
<1>2. PInv /\ [NextR]_varsR => PInv'
  <2> SUFFICES ASSUME PInv, [NextR]_varsR PROVE PInv'
    OBVIOUS
  <2>i. Inv'
    BY NextInv DEF NextR, varsR
  <2>s. CASE UNCHANGED vars /\ (pidRaced => pidRaced') /\ pidRaced' \in BOOLEAN
    <3>2. UNCHANGED <<pid, cur_pid, body, apc, anew, apid, ruined>>
      BY <2>s DEF vars, cpu, pcbs, stk, acts
    <3>3. Numbered => Numbered'
      BY <3>2 DEF Numbered, HasPid, Threads
    <3> QED
      BY <2>i, <2>s, <3>2, <3>3
  <2>1. CASE NextR
    <3>2. pidRaced' \in BOOLEAN /\ (pidRaced => pidRaced') /\ Next
      BY <2>1 DEF NextR
    <3>4. CASE ruined
      BY <2>s, <3>2, <3>4, StaysRuined
    <3>3. ASSUME ~ruined, ~pidRaced', ~ruined' PROVE Numbered'
      <4>1. Numbered /\ IInv /\ IInv'
        BY <2>i, <3>2, <3>3 DEF Inv
      <4>2. \A a, b \in Acts : apc'[a] = "pid_store" /\ apc'[b] = "pid_store" => a = b
        BY <2>1, <3>3 DEF NextR
      <4> QED
        BY <3>2, <3>3, <4>1, <4>2, NumberedStep
    <3> QED
      BY <2>i, <3>2, <3>3, <3>4
  <2>2. CASE UNCHANGED varsR
    <3>1. UNCHANGED vars /\ UNCHANGED pidRaced
      BY <2>2 DEF varsR
    <3> QED
      BY <2>s, <3>1
  <2> QED
    BY <2>1, <2>2
<1>3. PInv => PidsUnique
  <2>1. \A p \in Threads : p \in Procs /\ HasPid(p)
    BY DEF HasPid, Threads
  <2> QED
    BY <2>1 DEF PidsUnique, Numbered
<1> HIDE DEF PInv
<1> QED
  BY <1>1, <1>2, <1>3, PTL DEF SpecR
=============================================================================
