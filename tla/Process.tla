------------------------------ MODULE Process ------------------------------
(***************************************************************************)
(* Kernel threads of OceanOS: the circular run list of process.c, the      *)
(* context switch of proc_s.s, the IRQ0 path of trap_s.s and trap.c that   *)
(* preempts a thread, and the two tests of test.c that a key runs inside   *)
(* the keyboard interrupt, with interrupts enabled again: testProcess (F2) *)
(* creates threads, testMalloc (F1) calls kmalloc and kfree as the user    *)
(* asks it to.                                                             *)
(*                                                                         *)
(* One CPU.  `sp' is the PCB whose stack the CPU runs on; PCB and stack    *)
(* are one kmalloc'd block (process.c:30), so a PCB also names its stack.  *)
(* What lies on that stack is, from the bottom: the thread body (`body'),  *)
(* the keyboard activations nested on it (`kbd', newest first), and at     *)
(* most one timer interrupt (`irq').  Only the topmost of them can step,   *)
(* and only while its stack is the one the CPU is on.                      *)
(*                                                                         *)
(* kmalloc is not reentrant (memlib.c:10-45, module Heap) and is called    *)
(* with interrupts on.  Once two calls have overlapped (`spoilt') a call   *)
(* may return the block of a PCB in use, or write a block header into one. *)
(* So may kfree, which takes bytes far below a block for its header        *)
(* (memlib.c:62, run heap_free).  A state after that has happened          *)
(* (`ruined') is not followed any further.                                 *)
(***************************************************************************)
EXTENDS Integers, Sequences

CONSTANTS
  Acts,      \* the F1 and F2 presses of a run: each runs its test once
  PerTest,   \* threads one testProcess creates (3 in test.c:123-125)
  MaxProc    \* bound: PCBs kmalloc can hand out, the boot PCB included

ASSUME ProcAssumption == /\ PerTest \in Nat \ {0}
                         /\ MaxProc \in Nat \ {0}

NULL  == 0
Procs == 1 .. MaxProc
Boot  == 1                    \* the PCB at the base of kern_stack

VARIABLES
  cur_proc, run_head, cur_pid,   \* the globals of process.c
  next, pid, ctx,                \* fields of each PCB
  nproc,                         \* PCBs allocated so far
  sp, iflag, inService,          \* CPU stack, interrupt flag, 8259A ISR bits
  body, kbd, irq, swp,           \* what is on each stack
  apc, anew, aproc, apid, made,  \* locals of each activation of a test
  raced,                         \* history: two insertions have overlapped
  spoilt,                        \* history: kmalloc's headers may be wrong
  ruined                         \* history: and a PCB in use has been overwritten

cpu   == <<sp, iflag, inService>>
pcbs  == <<cur_proc, run_head, cur_pid, next, pid, ctx, nproc>>
stk   == <<body, kbd, irq, swp>>
hist  == <<raced, spoilt, ruined>>
acts  == <<apc, anew, aproc, apid, made, hist>>
vars  == <<cpu, pcbs, stk, acts>>

(* struct context_info, reduced to the stack esp points into and eflags.IF *)
Context == [esp : Procs \cup {NULL}, iflag : BOOLEAN]

-----------------------------------------------------------------------------
(* Power-on: interrupts are off (boot.s:52) and no PCB exists.             *)
Init ==
  /\ cur_proc = NULL /\ run_head = NULL /\ cur_pid = 0
  /\ next = [p \in Procs |-> NULL]
  /\ pid  = [p \in Procs |-> 0]
  /\ ctx  = [p \in Procs |-> [esp |-> NULL, iflag |-> FALSE]]
  /\ nproc = 1
  /\ sp = Boot /\ iflag = FALSE /\ inService = {}
  /\ body = [p \in Procs |-> IF p = Boot THEN "init" ELSE "free"]
  /\ kbd  = [p \in Procs |-> <<>>]
  /\ irq  = [p \in Procs |-> "none"]
  /\ swp  = [p \in Procs |-> [prev |-> NULL, next |-> NULL]]
  /\ apc  = [a \in Acts |-> "idle"]
  /\ anew = [a \in Acts |-> NULL]
  /\ aproc = [a \in Acts |-> NULL]
  /\ apid = [a \in Acts |-> 0]
  /\ made = [a \in Acts |-> 0]
  /\ raced = FALSE /\ spoilt = FALSE /\ ruined = FALSE

(* Mutant of init_proc_schedule: cur_pid-- for cur_pid++.                  *)
init_proc_schedule_dec ==
  /\ body[Boot] = "init"
  /\ cur_proc' = Boot /\ run_head' = Boot
  /\ pid' = [pid EXCEPT ![Boot] = cur_pid]
  /\ cur_pid' = cur_pid - 1
  /\ next' = [next EXCEPT ![Boot] = Boot]
  /\ body' = [body EXCEPT ![Boot] = "sti"]
  /\ UNCHANGED <<cpu, ctx, nproc, kbd, irq, swp, acts>>

(* The boot code runs alone: init_timer has registered timer_callback and  *)
(* the run list is made before interrupts are switched on.                 *)
init_proc_schedule ==
  /\ body[Boot] = "init"
  /\ cur_proc' = Boot /\ run_head' = Boot
  /\ pid' = [pid EXCEPT ![Boot] = cur_pid]
  /\ cur_pid' = cur_pid + 1
  /\ next' = [next EXCEPT ![Boot] = Boot]
  /\ body' = [body EXCEPT ![Boot] = "sti"]
  /\ UNCHANGED <<cpu, ctx, nproc, kbd, irq, swp, acts>>

(* sti() in _init; afterwards the boot thread only halts and is woken.     *)
BootSti ==
  /\ body[Boot] = "sti"
  /\ iflag' = TRUE
  /\ body' = [body EXCEPT ![Boot] = "hlt"]
  /\ UNCHANGED <<sp, inService, pcbs, kbd, irq, swp, acts>>

-----------------------------------------------------------------------------
(* Mutant of Irq0: a trap gate and no cli, so IF stays set.                *)
Irq0_trap_gate ==
  /\ ~ruined /\ iflag /\ 0 \notin inService
  /\ inService' = inService \cup {0}
  /\ irq' = [irq EXCEPT ![sp] = "eoi"]
  /\ UNCHANGED <<sp, iflag, pcbs, body, kbd, swp, acts>>

(* IRQ0: the timer.  The gate and the stub's cli clear IF; irq_handler     *)
(* acknowledges the 8259A BEFORE it calls the handler.                     *)
Irq0 ==
  /\ ~ruined /\ iflag /\ 0 \notin inService
  /\ iflag' = FALSE
  /\ inService' = inService \cup {0}
  /\ irq' = [irq EXCEPT ![sp] = "eoi"]
  /\ UNCHANGED <<sp, pcbs, body, kbd, swp, acts>>

(* A non-specific EOI clears the in-service bit of highest priority.       *)
EOI(s) == IF 0 \in s THEN s \ {0} ELSE s \ {1}

irq_handler ==
  /\ ~ruined /\ irq[sp] = "eoi"
  /\ inService' = EOI(inService)
  /\ irq' = [irq EXCEPT ![sp] = "callback"]
  /\ UNCHANGED <<sp, iflag, pcbs, body, kbd, swp, acts>>


(* timer_callback -> schedule -> change_proc: cur_proc is moved on before  *)
(* the registers are; a ring of one is left alone.                         *)
timer_callback ==
  /\ ~ruined /\ irq[sp] = "callback"
  /\ LET proc == next[cur_proc] IN
       IF cur_proc # NULL /\ cur_proc # proc
       THEN /\ swp' = [swp EXCEPT ![sp] = [prev |-> cur_proc, next |-> proc]]
            /\ cur_proc' = proc
            /\ irq' = [irq EXCEPT ![sp] = "save"]
       ELSE /\ irq' = [irq EXCEPT ![sp] = "iret"]
            /\ UNCHANGED <<cur_proc, swp>>
  /\ UNCHANGED <<cpu, run_head, cur_pid, next, pid, ctx, nproc, body, kbd, acts>>

(* switch_to, first half: esp and eflags into prev->context.               *)
switch_save ==
  /\ ~ruined /\ irq[sp] = "save"
  /\ ctx' = [ctx EXCEPT ![swp[sp].prev] = [esp |-> sp, iflag |-> iflag]]
  /\ irq' = [irq EXCEPT ![sp] = "load"]
  /\ UNCHANGED <<cpu, cur_proc, run_head, cur_pid, next, pid, nproc,
                 body, kbd, swp, acts>>

(* switch_to, second half: esp and eflags from next->context, then ret.    *)
(* What is left behind on the old stack is the way back out of the         *)
(* interrupt.                                                              *)
switch_load ==
  /\ ~ruined /\ irq[sp] = "load"
  /\ LET c == ctx[swp[sp].next] IN
       /\ sp' = c.esp
       /\ iflag' = c.iflag
  /\ irq' = [irq EXCEPT ![sp] = "iret"]
  /\ UNCHANGED <<inService, pcbs, body, kbd, swp, acts>>

(* iret of irq_common_stub: only code with IF set was interrupted.         *)
Iret ==
  /\ ~ruined /\ irq[sp] = "iret"
  /\ iflag' = TRUE
  /\ irq' = [irq EXCEPT ![sp] = "none"]
  /\ UNCHANGED <<sp, inService, pcbs, body, kbd, swp, acts>>

-----------------------------------------------------------------------------
(* IRQ1 with the scan code of F1 or F2: keyboard_handler -> func -> the    *)
(* test, on whatever stack is running.                                     *)
Irq1(a) ==
  /\ ~ruined /\ iflag /\ inService = {}
  /\ apc[a] = "idle"
  /\ iflag' = FALSE
  /\ inService' = {1}
  /\ kbd' = [kbd EXCEPT ![sp] = <<a>> \o @]
  /\ apc' = [apc EXCEPT ![a] = "eoi"]
  /\ UNCHANGED <<sp, pcbs, body, irq, swp, anew, aproc, apid, made, hist>>

(* Activation a is what the CPU executes.                                  *)
Running(a) ==
  ~ruined /\ kbd[sp] # <<>> /\ Head(kbd[sp]) = a /\ irq[sp] = "none"

Irq1Eoi(a) ==
  /\ Running(a) /\ apc[a] = "eoi"
  /\ inService' = EOI(inService)
  /\ \E test \in {"sti", "cli"} : apc' = [apc EXCEPT ![a] = test]
  /\ UNCHANGED <<sp, iflag, pcbs, stk, anew, aproc, apid, made, hist>>

(* cli; init_timer(5); sti: from here the handler itself can be            *)
(* interrupted and preempted.                                              *)
testProcess(a) ==
  /\ Running(a) /\ apc[a] = "cli"
  /\ iflag' = TRUE
  /\ apc' = [apc EXCEPT ![a] = "scanf"]
  /\ UNCHANGED <<sp, inService, pcbs, stk, anew, aproc, apid, made, hist>>

(* testMalloc begins with sti: it can be preempted like testProcess.       *)
testMalloc(a) ==
  /\ Running(a) /\ apc[a] = "sti"
  /\ iflag' = TRUE
  /\ apc' = [apc EXCEPT ![a] = "line"]
  /\ UNCHANGED <<sp, inService, pcbs, stk, anew, aproc, apid, made, hist>>

(* scanf returns once the user has typed what it asks for: the three lines *)
(* of testProcess, or a command of testMalloc with its number.             *)
Answers(l) == IF l = "scanf" THEN {"kmalloc"} ELSE {"malloc", "free", "return"}

scanf(a) ==
  /\ Running(a) /\ apc[a] \in {"scanf", "line"}
  /\ \E l \in Answers(apc[a]) : apc' = [apc EXCEPT ![a] = l]
  /\ UNCHANGED <<cpu, pcbs, stk, anew, aproc, apid, made, hist>>

-----------------------------------------------------------------------------
(* kmalloc and kfree, each from its call to its return.                    *)
InKmalloc(a) == apc[a] \in {"in_thread", "in_test"}
InHeap(a) == InKmalloc(a) \/ apc[a] = "in_free"

kmalloc(a) ==
  /\ Running(a) /\ apc[a] \in {"kmalloc", "malloc"}
  /\ spoilt' = (spoilt \/ \E b \in Acts : InKmalloc(b))
  /\ apc' = [apc EXCEPT ![a] = IF @ = "kmalloc" THEN "in_thread" ELSE "in_test"]
  /\ UNCHANGED <<cpu, pcbs, stk, anew, aproc, apid, made, raced, ruined>>

kfree(a) ==
  /\ Running(a) /\ apc[a] = "free"
  /\ spoilt' = TRUE
  /\ apc' = [apc EXCEPT ![a] = "in_free"]
  /\ UNCHANGED <<cpu, pcbs, stk, anew, aproc, apid, made, raced, ruined>>

(* A header written where there is none: into a PCB in use.                *)
heap_stray(a) ==
  /\ Running(a) /\ InHeap(a) /\ spoilt
  /\ ruined' = TRUE
  /\ UNCHANGED <<cpu, pcbs, stk, apc, anew, aproc, apid, made, raced, spoilt>>

(* testMalloc prints the address and asks for the next command.            *)
heap_ret(a) ==
  /\ Running(a) /\ apc[a] \in {"in_test", "in_free"}
  /\ apc' = [apc EXCEPT ![a] = "line"]
  /\ UNCHANGED <<cpu, pcbs, stk, anew, aproc, apid, made, hist>>

-----------------------------------------------------------------------------
(* init_thread, one action per access to shared state.                     *)

(* The PCBs whose block a call of kmalloc may return: one never handed out *)
(* and, once the headers are spoilt, any that is in use.                   *)
Blocks == {p \in Procs : p = nproc + 1 \/ (spoilt /\ p \in 2 .. nproc)}

(* kmalloc(STACK_SIZE) returns; memset clears the PCB it returned.         *)
it_memset(a) ==
  /\ Running(a) /\ apc[a] = "in_thread"
  /\ \E p \in Blocks :
       /\ nproc' = IF p > nproc THEN p ELSE nproc
       /\ ruined' = (p <= nproc)
       /\ anew' = [anew EXCEPT ![a] = p]
       /\ next' = [next EXCEPT ![p] = NULL]
       /\ pid' = [pid EXCEPT ![p] = 0]
       /\ ctx' = [ctx EXCEPT ![p] = [esp |-> NULL, iflag |-> FALSE]]
       /\ body' = [body EXCEPT ![p] = IF p > nproc THEN "new" ELSE @]
  /\ apc' = [apc EXCEPT ![a] = "pid_load"]
  /\ UNCHANGED <<cpu, cur_proc, run_head, cur_pid, kbd, irq, swp,
                 aproc, apid, made, raced, spoilt>>

(* new_proc->pid = cur_pid++ is a load and a store.                        *)
it_pid_load(a) ==
  /\ Running(a) /\ apc[a] = "pid_load"
  /\ apid' = [apid EXCEPT ![a] = cur_pid]
  /\ apc' = [apc EXCEPT ![a] = "pid_store"]
  /\ UNCHANGED <<cpu, pcbs, stk, anew, aproc, made, hist>>

(* Mutant of it_pid_store: cur_pid is not incremented.                     *)
it_pid_store_keep(a) ==
  /\ Running(a) /\ apc[a] = "pid_store"
  /\ pid' = [pid EXCEPT ![anew[a]] = apid[a]]
  /\ apc' = [apc EXCEPT ![a] = "context"]
  /\ UNCHANGED <<cpu, cur_proc, run_head, cur_pid, next, ctx, nproc, stk,
                 anew, aproc, apid, made, hist>>

it_pid_store(a) ==
  /\ Running(a) /\ apc[a] = "pid_store"
  /\ cur_pid' = apid[a] + 1
  /\ pid' = [pid EXCEPT ![anew[a]] = apid[a]]
  /\ apc' = [apc EXCEPT ![a] = "context"]
  /\ UNCHANGED <<cpu, cur_proc, run_head, next, ctx, nproc, stk,
                 anew, aproc, apid, made, hist>>

(* Mutants of it_context: eflags or next is left at zero.                  *)
it_context_eflags(a) ==
  /\ Running(a) /\ apc[a] = "context"
  /\ ctx' = [ctx EXCEPT ![anew[a]] = [esp |-> anew[a], iflag |-> FALSE]]
  /\ next' = [next EXCEPT ![anew[a]] = run_head]
  /\ aproc' = [aproc EXCEPT ![a] = run_head]
  /\ apc' = [apc EXCEPT ![a] = "walk"]
  /\ raced' = (raced \/ \E b \in Acts \ {a} : apc[b] \in {"walk", "link"})
  /\ UNCHANGED <<cpu, cur_proc, run_head, cur_pid, pid, nproc, stk,
                 anew, apid, made, spoilt, ruined>>

it_context_no_next(a) ==
  /\ Running(a) /\ apc[a] = "context"
  /\ ctx' = [ctx EXCEPT ![anew[a]] = [esp |-> anew[a], iflag |-> TRUE]]
  /\ aproc' = [aproc EXCEPT ![a] = run_head]
  /\ apc' = [apc EXCEPT ![a] = "walk"]
  /\ raced' = (raced \/ \E b \in Acts \ {a} : apc[b] \in {"walk", "link"})
  /\ UNCHANGED <<cpu, cur_proc, run_head, cur_pid, next, pid, nproc, stk,
                 anew, apid, made, spoilt, ruined>>

(* fn, thread_exit and arg go on the new stack; eflags = 0x200 sets IF.    *)
it_context(a) ==
  /\ Running(a) /\ apc[a] = "context"
  /\ ctx' = [ctx EXCEPT ![anew[a]] = [esp |-> anew[a], iflag |-> TRUE]]
  /\ next' = [next EXCEPT ![anew[a]] = run_head]
  /\ aproc' = [aproc EXCEPT ![a] = run_head]
  /\ apc' = [apc EXCEPT ![a] = "walk"]
  /\ raced' = (raced \/ \E b \in Acts \ {a} : apc[b] \in {"walk", "link"})
  /\ UNCHANGED <<cpu, cur_proc, run_head, cur_pid, pid, nproc, stk,
                 anew, apid, made, spoilt, ruined>>

(* Mutant of it_walk: the new PCB goes in behind run_head, not at the end. *)
it_walk_skip(a) ==
  /\ Running(a) /\ apc[a] = "walk"
  /\ apc' = [apc EXCEPT ![a] = "link"]
  /\ UNCHANGED <<cpu, pcbs, stk, anew, aproc, apid, made, hist>>

(* while (proc->next != run_head) proc = proc->next                        *)
it_walk(a) ==
  /\ Running(a) /\ apc[a] = "walk"
  /\ IF next[aproc[a]] # run_head
     THEN /\ aproc' = [aproc EXCEPT ![a] = next[aproc[a]]]
          /\ UNCHANGED apc
     ELSE /\ apc' = [apc EXCEPT ![a] = "link"]
          /\ UNCHANGED aproc
  /\ UNCHANGED <<cpu, pcbs, stk, anew, apid, made, hist>>

(* proc->next = new_proc; init_thread returns to testProcess.              *)
it_link(a) ==
  /\ Running(a) /\ apc[a] = "link"
  /\ next' = [next EXCEPT ![aproc[a]] = anew[a]]
  /\ body' = [body EXCEPT ![anew[a]] = "fn"]
  /\ made' = [made EXCEPT ![a] = @ + 1]
  /\ apc' = [apc EXCEPT ![a] = IF made[a] + 1 < PerTest THEN "kmalloc"
                                                        ELSE "return"]
  /\ UNCHANGED <<cpu, cur_proc, run_head, cur_pid, pid, ctx, nproc,
                 kbd, irq, swp, anew, aproc, apid, hist>>

(* The test, keyboard_handler and irq_handler return; iret.                *)
Irq1Iret(a) ==
  /\ Running(a) /\ apc[a] = "return"
  /\ kbd' = [kbd EXCEPT ![sp] = Tail(@)]
  /\ iflag' = TRUE
  /\ apc' = [apc EXCEPT ![a] = "done"]
  /\ UNCHANGED <<sp, inService, pcbs, body, irq, swp, anew, aproc, apid, made, hist>>

init_thread(a) ==
  \/ it_memset(a) \/ it_pid_load(a) \/ it_pid_store(a)
  \/ it_context(a) \/ it_walk(a) \/ it_link(a)

(* fn returns into thread_exit, which spins for ever: the PCB stays on the *)
(* run list and keeps its turn.                                            *)
thread_exit ==
  /\ ~ruined /\ body[sp] = "fn" /\ kbd[sp] = <<>> /\ irq[sp] = "none"
  /\ body' = [body EXCEPT ![sp] = "exit"]
  /\ UNCHANGED <<cpu, pcbs, kbd, irq, swp, acts>>

-----------------------------------------------------------------------------
(* Code that runs with interrupts off: nothing but itself can delay it.    *)
Handler ==
  \/ init_proc_schedule \/ BootSti
  \/ irq_handler \/ timer_callback \/ switch_save \/ switch_load \/ Iret
  \/ \E a \in Acts : Irq1Eoi(a) \/ testProcess(a) \/ testMalloc(a)

Code ==
  \/ thread_exit
  \/ \E a \in Acts : \/ Irq1(a) \/ scanf(a) \/ init_thread(a) \/ Irq1Iret(a)
                     \/ kmalloc(a) \/ kfree(a) \/ heap_stray(a) \/ heap_ret(a)

(* A PCB in use has been overwritten: the system is not followed further.  *)
Ruined == ruined /\ UNCHANGED vars

Next == Irq0 \/ Handler \/ Code \/ Ruined

Spec == Init /\ [][Next]_vars

(* The CPU keeps executing, and the timer keeps ticking: a tick that       *)
(* arrives while IF is clear stays pending in the 8259A.                   *)
Fairness == WF_vars(Handler) /\ WF_vars(Irq0)
-----------------------------------------------------------------------------
(***************************************************************************)
(* Properties.                                                             *)
(***************************************************************************)
(* Where an activation of a test can be.                                   *)
Stages == {"idle", "eoi", "cli", "sti", "scanf", "line", "malloc", "free", "kmalloc",
           "in_thread", "in_test", "in_free", "pid_load", "pid_store", "context",
           "walk", "link", "return", "done"}

TypeOK ==
  /\ cur_proc \in Procs \cup {NULL} /\ run_head \in Procs \cup {NULL}
  /\ cur_pid \in Nat
  /\ next \in [Procs -> Procs \cup {NULL}]
  /\ pid \in [Procs -> Nat]
  /\ ctx \in [Procs -> Context]
  /\ nproc \in Procs
  /\ sp \in Procs /\ iflag \in BOOLEAN /\ inService \in SUBSET {0, 1}
  /\ body \in [Procs -> {"init", "sti", "hlt", "free", "new", "fn", "exit"}]
  /\ kbd \in [Procs -> Seq(Acts)]
  /\ irq \in [Procs -> {"none", "eoi", "callback", "save", "load", "iret"}]
  /\ swp \in [Procs -> [prev : Procs \cup {NULL}, next : Procs \cup {NULL}]]
  /\ apc \in [Acts -> Stages]
  /\ anew \in [Acts -> Procs \cup {NULL}]
  /\ aproc \in [Acts -> Procs \cup {NULL}]
  /\ apid \in [Acts -> Nat]
  /\ made \in [Acts -> Nat]
  /\ raced \in BOOLEAN /\ spoilt \in BOOLEAN /\ ruined \in BOOLEAN

(* The PCBs met by following next from run_head.                           *)
Orbit[k \in 0 .. MaxProc] ==
  IF k = 0 THEN run_head
  ELSE IF Orbit[k - 1] = NULL THEN NULL ELSE next[Orbit[k - 1]]

Ring == {Orbit[k] : k \in 0 .. MaxProc}

Up == body[Boot] = "hlt"

(* The finished threads: boot, and every one init_thread has linked.       *)
Created == {p \in Procs : body[p] \in {"fn", "exit"}}
Threads == {p \in Procs : body[p] \in {"sti", "hlt", "fn", "exit"}}

(* Whenever an interrupt can be taken the CPU is on the stack of cur_proc, *)
(* outside the interrupt path and with every interrupt acknowledged:       *)
(* change_proc (process.c:61) assigns cur_proc before switch_to has moved  *)
(* esp, and no interrupt sees that window.                                 *)
OnOwnStack == iflag => (sp = cur_proc /\ irq[sp] = "none" /\ inService = {})

(* The run list is a ring of finished threads in every state a timer       *)
(* interrupt can see: from run_head, next comes back to run_head and never *)
(* meets NULL or a half-built PCB, even while init_thread calls            *)
(* (process.c:47-53) are half done or overlap; until kmalloc or kfree      *)
(* overwrite a PCB that is in use.                                         *)
RingClosed == (Up /\ ~ruined) =>
  /\ Ring \subseteq Threads
  /\ \E k \in 1 .. MaxProc : Orbit[k] = run_head

(* Every thread other than the one the CPU is on can be switched to: the   *)
(* esp that switch_to will load points into its own stack, and it resumes  *)
(* either in the interrupt path with interrupts off or, never run, in fn   *)
(* with interrupts on; until kmalloc or kfree overwrite a PCB in use.      *)
Resumable(p) ==
  /\ ctx[p].esp = p
  /\ \/ irq[p] = "iret" /\ ~ctx[p].iflag
     \/ irq[p] = "none" /\ ctx[p].iflag /\ body[p] = "fn" /\ kbd[p] = <<>>

OthersResumable == (Up /\ ~ruined) => \A p \in Threads \ {sp} : Resumable(p)

(* A thread that init_thread has linked stays on the ring, exited or not:  *)
(* process.c has no operation that takes a PCB off it.                     *)
NoThreadLost == Created \subseteq Ring

=============================================================================
