-------------------------------- MODULE Trap --------------------------------
(***************************************************************************)
(* Interrupt and exception entry and exit: the segments init_gdt sets up   *)
(* (gdt.c), the gates init_trap installs (trap.c), the stubs of trap_s.s,  *)
(* the frame they build for the C handlers (register_t, trap.h:21-26) and  *)
(* the two 8259A controllers.                                              *)
(*                                                                         *)
(* `stack' is the interrupted stack, top first.  A word is [k, n]: what it *)
(* is and, for the three words of an interrupt frame, which context it     *)
(* returns to (0 for the code outside any handler).  `acts' are the        *)
(* activations of handlers, newest first: the head is what the CPU runs.   *)
(***************************************************************************)
EXTENDS Naturals, Sequences

CONSTANTS
  Exceptions,  \* vectors below 32 that the CPU raises in this run
  Irqs,        \* vectors 32 .. 47 that the controllers raise in this run
  MaxDepth     \* bound: nested activations

ASSUME TrapAssumption ==
  /\ Exceptions \subseteq 0 .. 31 /\ Irqs \subseteq 32 .. 47 /\ MaxDepth \in Nat

Vectors == 0 .. 255

VARIABLES
  gdt,                    \* gdtr.limit, and the access byte of each descriptor
  limit, idt, handlers,   \* idtr.limit, vectors with a gate, C handlers
  iflag, stack, acts,     \* the CPU
  master, slave,          \* in-service bits of the 8259As
  resumed                 \* what the last iret returned to, and should have

pic  == <<master, slave>>
tabs == <<gdt, limit, idt, handlers>>
vars == <<tabs, iflag, stack, acts, pic, resumed>>

(* The processor pushes an error code for these (trap.h:55-61, and 17).    *)
PushesError(v) == v \in {8, 10, 11, 12, 13, 14, 17}

Init ==
  /\ gdt = [limit |-> 0, access |-> <<>>]
  /\ limit = 0 /\ idt = {} /\ handlers = [v \in Vectors |-> "none"]
  /\ iflag = FALSE /\ stack = <<>> /\ acts = <<>>
  /\ master = {} /\ slave = {}
  /\ resumed = [to |-> 0, from |-> 0]

(* init_gdt: a null descriptor and flat segments, which differ in their    *)
(* access byte.  The limit counts sizeof(gdtr_t) = 6 bytes for each of the *)
(* descriptors of 8.                                                       *)
init_gdt ==
  /\ gdt.limit = 0
  /\ gdt' = [limit |-> 6 * 5 - 1,
             access |-> [d \in 0 .. 4 |-> <<0, 154, 146, 250, 242>>[d + 1]]]
  /\ UNCHANGED <<limit, idt, handlers, iflag, stack, acts, pic, resumed>>

(* A selector can be loaded if its descriptor is present and inside gdt.   *)
Loadable(selector) ==
  LET d == selector \div 8 IN
  /\ d \in DOMAIN gdt.access /\ 8 * d + 7 <= gdt.limit /\ gdt.access[d] >= 128

(* Mutant of Limit: the number of gates, not their bytes.                  *)
Limit_count == 256 - 1

Limit == 6 * 256 - 1

Gates == 0 .. 47 \cup {255}

(* init_trap: the gates.  limit counts descriptors of sizeof(idtr_t) = 6   *)
(* bytes, where a gate has 8.  Then the handlers that init_vmm, init_timer *)
(* and init_keyboard register, and sti.                                    *)
init_trap ==
  /\ gdt.limit # 0 /\ limit = 0
  /\ limit' = Limit
  /\ idt' = Gates
  /\ UNCHANGED <<gdt, handlers, iflag, stack, acts, pic, resumed>>

register_interrupt_handler ==
  /\ limit # 0 /\ handlers[33] = "none"
  /\ handlers' = [handlers EXCEPT ![14] = "page_fault", ![32] = "timer_callback",
                                  ![33] = "keyboard_handler"]
  /\ iflag' = TRUE
  /\ UNCHANGED <<gdt, limit, idt, stack, acts, pic, resumed>>

-----------------------------------------------------------------------------
Ready   == handlers[33] # "none"
Depth   == Len(acts)
At(l)   == Depth > 0 /\ acts[1].pc = l
Goto(l) == acts' = [acts EXCEPT ![1].pc = l]

(* C code is executing: the kernel's, or the body of a handler.            *)
InC == Ready /\ (Depth = 0 \/ At("body"))

(* The processor's part of an entry through interrupt gate v (flags 0x8E,  *)
(* selector 0x08).                                                         *)
Enter(v) ==
  /\ v \in idt /\ 8 * v + 7 <= limit /\ Loadable(8) /\ Depth < MaxDepth
  /\ stack' = (IF PushesError(v) THEN <<[k |-> "error", n |-> v]>> ELSE <<>>)
              \o <<[k |-> "eip", n |-> Depth], [k |-> "cs", n |-> Depth],
                   [k |-> "eflags", n |-> IF iflag THEN 1 ELSE 0]>> \o stack
  /\ acts' = <<[v |-> v, pc |-> "stub", hd |-> "none"]>> \o acts
  /\ iflag' = FALSE

exception(v) ==
  /\ InC /\ Enter(v)
  /\ UNCHANGED <<tabs, pic, resumed>>

(* A controller raises v if nothing of its priority or above is in         *)
(* service; the slave hangs off line 2 of the master.  A request withdrawn *)
(* before it is acknowledged arrives as line 7 without an in-service bit.  *)
Line(v) == IF v >= 40 THEN 2 ELSE v - 32

irq(v) ==
  /\ InC /\ iflag
  /\ \A l \in master : Line(v) < l
  /\ v >= 40 => \A l \in slave : v - 40 < l
  /\ Enter(v)
  /\ \/ /\ master' = master \cup {Line(v)}
        /\ slave' = IF v >= 40 THEN slave \cup {v - 40} ELSE slave
     \/ /\ v = 39 /\ UNCHANGED pic
     \/ /\ v = 47 /\ master' = master \cup {2} /\ UNCHANGED slave
  /\ UNCHANGED <<tabs, resumed>>

(* Mutant of Pushed: the number is pushed first.                           *)
Pushed_swapped == <<[k |-> "regs", n |-> Depth - 1], [k |-> "err_code", n |-> 0],
                    [k |-> "int_no", n |-> acts[1].v]>>

(* The stub: every vector pushes a zero for the error code, its number and *)
(* the registers, and loads the kernel's data segment.                     *)
Pushed == <<[k |-> "regs", n |-> Depth - 1], [k |-> "int_no", n |-> acts[1].v],
            [k |-> "err_code", n |-> 0]>>

stub ==
  /\ At("stub") /\ Loadable(16)
  /\ stack' = Pushed \o stack
  /\ Goto("handler")
  /\ UNCHANGED <<tabs, iflag, pic, resumed>>

(* The fields of register_t, by their place above the saved registers.     *)
int_no == stack[2].n
eip    == stack[4]

(* A non-specific EOI clears the bit of highest priority.                  *)
EOI(s) == IF s = {} THEN s ELSE s \ {CHOOSE l \in s : \A m \in s : l <= m}

(* isr_handler and irq_handler: the latter acknowledges first, the slave   *)
(* only for vectors from 40 on.                                            *)
Dispatch ==
  IF handlers[int_no] # "none"
  THEN acts' = [acts EXCEPT ![1].pc = "body", ![1].hd = handlers[int_no]]
  ELSE Goto("exit")

isr_handler ==
  /\ At("handler") /\ acts[1].v < 32
  /\ Dispatch
  /\ UNCHANGED <<tabs, iflag, stack, pic, resumed>>

(* Mutant of OnSlave: > 40 for >= 40.                                      *)
OnSlave_gt(v) == v > 40

OnSlave(v) == v >= 40

irq_handler ==
  /\ At("handler") /\ acts[1].v >= 32
  /\ slave' = IF OnSlave(int_no) THEN EOI(slave) ELSE slave
  /\ master' = EOI(master)
  /\ Dispatch
  /\ UNCHANGED <<tabs, iflag, stack, resumed>>

(* F1 and F2 run a test inside keyboard_handler, which enables interrupts. *)
sti ==
  /\ At("body") /\ acts[1].hd = "keyboard_handler" /\ ~iflag
  /\ iflag' = TRUE
  /\ UNCHANGED <<tabs, stack, acts, pic, resumed>>

(* The handler returns; page_fault never does.                             *)
return ==
  /\ At("body") /\ acts[1].hd # "page_fault"
  /\ Goto("exit")
  /\ UNCHANGED <<tabs, iflag, stack, pic, resumed>>

(* Mutant of Discard: add esp, 4 leaves the error code on the stack.       *)
Discard_short == 2

(* The end of the stub: popa, add esp 8, and iret, which takes the next    *)
(* three words for eip, cs and eflags.                                     *)
Discard == 3

iret ==
  LET frame == SubSeq(stack, Discard + 1, Len(stack))
  IN /\ At("exit")
     /\ resumed' = [to |-> IF frame[1].k = "eip" THEN frame[1].n ELSE MaxDepth + 1,
                    from |-> Depth]
     /\ iflag' = (frame[3].n = 1)
     /\ stack' = SubSeq(frame, 4, Len(frame))
     /\ acts' = Tail(acts)
     /\ UNCHANGED <<tabs, pic>>

(* What the processor and the stubs do, and what C code does next.         *)
Machine ==
  \/ init_gdt \/ init_trap \/ register_interrupt_handler
  \/ \E v \in Exceptions : exception(v)
  \/ \E v \in Irqs : irq(v)
  \/ stub \/ isr_handler \/ irq_handler \/ iret

Body == sti \/ return

Next == Machine \/ Body

Spec == Init /\ [][Next]_vars
-----------------------------------------------------------------------------
(***************************************************************************)
(* Properties.                                                             *)
(***************************************************************************)
Word == [k : {"eip", "cs", "eflags", "error", "err_code", "int_no", "regs"}, n : Nat]

TypeOK ==
  /\ DOMAIN gdt = {"limit", "access"} /\ limit \in Nat /\ idt \subseteq Vectors
  /\ handlers \in [Vectors -> {"none", "page_fault", "timer_callback",
                               "keyboard_handler"}]
  /\ iflag \in BOOLEAN /\ stack \in Seq(Word)
  /\ acts \in Seq([v : Vectors, pc : {"stub", "handler", "body", "exit"},
                   hd : {"none", "page_fault", "timer_callback", "keyboard_handler"}])
  /\ master \subseteq 0 .. 7 /\ slave \subseteq 0 .. 7
  /\ resumed \in [to : Nat, from : Nat]

(* No interrupt is raised that the tables cannot deliver: what the         *)
(* processor and the controllers raise has a gate inside the limit, which  *)
(* counts 6 bytes a gate (trap.c:40) and so leaves out the one of 255, and *)
(* the segments of the kernel are inside that of the GDT (gdt.c:14), which *)
(* leaves out those of a user.                                             *)
Deliverable == limit # 0 =>
  /\ \A v \in 0 .. 47 : v \in idt /\ 8 * v + 7 <= limit
  /\ Loadable(8) /\ Loadable(16)

(* What a handler finds in its register_t is about the interrupt it serves *)
(* (trap.h:24-25): its number, and the place it interrupted.               *)
RegsRight == At("handler") =>
  int_no = acts[1].v /\ eip = [k |-> "eip", n |-> Depth - 1]

(* iret returns to the context that was interrupted, however deep handlers *)
(* nest, and gives back the whole of the frame: with no handler active the *)
(* stack is what it was.                                                   *)
ResumeExact ==
  /\ resumed.from # 0 => resumed.to = resumed.from - 1
  /\ Depth = 0 => stack = <<>>

(* Whenever interrupts are enabled no interrupt is left in service at      *)
(* either controller, so no line is blocked for good: every path through   *)
(* irq_handler acknowledges before C code can enable interrupts, spurious  *)
(* requests included.                                                      *)
Drained == iflag => master = {} /\ slave = {}
=============================================================================
