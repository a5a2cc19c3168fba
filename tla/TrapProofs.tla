----------------------------- MODULE TrapProofs -----------------------------
(***************************************************************************)
(* Proofs about Trap, for any vectors that are raised and any depth of     *)
(* nesting, and about File, which is composed with it, for any size of the *)
(* table and any names.                                                    *)
(***************************************************************************)
EXTENDS File, SequenceTheorems, FiniteSetTheorems, TLAPS

Act == [v : Vectors, pc : {"stub", "handler", "body", "exit"},
        hd : {"none", "page_fault", "timer_callback", "keyboard_handler"}]

(* The tables are empty, or as init_gdt and init_trap leave them.          *)
Tables ==
  /\ gdt.limit # 0 => /\ gdt.limit = 29 /\ DOMAIN gdt.access = 0 .. 4
                      /\ gdt.access[1] = 154 /\ gdt.access[2] = 146
  /\ limit # 0 => limit = Limit /\ idt = Gates /\ gdt.limit # 0
  /\ Depth # 0 => Ready

(* Handlers that were interrupted are in their bodies.                     *)
Older == \A i \in 2 .. Depth : acts[i].pc = "body"

(* A controller has an interrupt in service only until irq_handler has     *)
(* acknowledged it, which comes before the body.                           *)
Unserved == (At("stub") \/ At("handler")) /\ acts[1].v >= 32
Serving ==
  /\ ~Unserved => master = {} /\ slave = {}
  /\ At("stub") \/ At("handler") => ~iflag
  /\ Unserved => /\ master \subseteq {Line(acts[1].v)}
                 /\ slave \subseteq IF acts[1].v >= 40 THEN {acts[1].v - 40} ELSE {}

(* The number that the stub has pushed.                                    *)
Numbered == At("handler") => stack # <<>> /\ int_no = acts[1].v

(* No activation has fewer words on the stack than its iret takes.         *)
Deep == Len(stack) >= 6 * Depth - (IF At("stub") THEN 3 ELSE 0)

IInv == TypeOK /\ Tables /\ Older /\ Serving /\ Numbered /\ Deep

(* Where no vector pushes an error code, the stack is made of six words    *)
(* for each activation, three of them while it is in the stub; the one     *)
(* that says where it returns to is the third from below.                  *)
NoErrors == \A v \in Exceptions \cup Irqs : ~PushesError(v)
Under(b) == stack[Len(stack) + 1 - b]
Frames ==
  /\ Len(stack) = 6 * Depth - (IF At("stub") THEN 3 ELSE 0)
  /\ \A d \in 1 .. Depth : Under(6 * (d - 1) + 3) = [k |-> "eip", n |-> d - 1]

FInv == Frames /\ ResumeExact

-----------------------------------------------------------------------------
(* A change of the running activation.                                     *)
LEMMA TopChange ==
  ASSUME acts \in Seq(Act), Depth > 0, NEW l \in {"stub", "handler", "body", "exit"},
         NEW h \in {"none", "page_fault", "timer_callback", "keyboard_handler"},
         \/ acts' = [acts EXCEPT ![1].pc = l]
         \/ acts' = [acts EXCEPT ![1].pc = l, ![1].hd = h]
  PROVE  /\ acts' \in Seq(Act) /\ Depth' = Depth
         /\ acts'[1].pc = l /\ acts'[1].v = acts[1].v
         /\ \A i \in 2 .. Depth : acts'[i] = acts[i]
<1>1. acts[1] \in Act /\ Depth \in Nat /\ 1 \in 1 .. Depth /\ DOMAIN acts = 1 .. Depth
  BY DEF Depth
<1>2. CASE acts' = [acts EXCEPT ![1].pc = l]
  <2>1. [acts[1] EXCEPT !.pc = l] \in Act
    BY <1>1 DEF Act
  <2>2. acts' = [acts EXCEPT ![1] = [acts[1] EXCEPT !.pc = l]]
    BY <1>2
  <2> QED
    BY <1>1, <2>1, <2>2 DEF Depth, Act
<1>3. CASE acts' = [acts EXCEPT ![1].pc = l, ![1].hd = h]
  <2>1. [acts[1] EXCEPT !.pc = l, !.hd = h] \in Act
    BY <1>1 DEF Act
  <2>2. acts' = [acts EXCEPT ![1] = [acts[1] EXCEPT !.pc = l, !.hd = h]]
    BY <1>1, <1>3
  <2> QED
    BY <1>1, <2>1, <2>2 DEF Depth, Act
<1> QED
  BY <1>2, <1>3

(* A sequence put on top of another, counted from below.                   *)
LEMMA PushUnder ==
  ASSUME NEW T, NEW s \in Seq(T), NEW m \in Seq(T)
  PROVE  /\ m \o s \in Seq(T) /\ Len(m \o s) = Len(m) + Len(s)
         /\ \A i \in 1 .. Len(m) : (m \o s)[i] = m[i]
         /\ \A b \in 1 .. Len(s) : (m \o s)[Len(m \o s) + 1 - b] = s[Len(s) + 1 - b]
<1>1. /\ m \o s \in Seq(T) /\ Len(m \o s) = Len(m) + Len(s) /\ Len(m) \in Nat /\ Len(s) \in Nat
      /\ \A i \in 1 .. Len(m) : (m \o s)[i] = m[i]
  OBVIOUS
<1>2. \A i \in 1 .. Len(s) : (m \o s)[Len(m) + i] = s[i]
  OBVIOUS
<1>3. ASSUME NEW b \in 1 .. Len(s) PROVE (m \o s)[Len(m \o s) + 1 - b] = s[Len(s) + 1 - b]
  <2>1. PICK i \in 1 .. Len(s) : i = Len(s) + 1 - b
    BY <1>1
  <2>2. Len(m \o s) + 1 - b = Len(m) + i
    BY <1>1, <2>1
  <2> QED
    BY <1>2, <2>1, <2>2
<1> QED
  BY <1>1, <1>3

(* A sequence without its first c elements, counted from below.            *)
LEMMA PopUnder ==
  ASSUME NEW T, NEW s \in Seq(T), NEW c \in 0 .. Len(s)
  PROVE  LET r == SubSeq(s, c + 1, Len(s)) IN
         /\ r \in Seq(T) /\ Len(r) = Len(s) - c
         /\ \A i \in 1 .. Len(s) - c : r[i] = s[i + c]
         /\ \A b \in 1 .. Len(s) - c : r[Len(r) + 1 - b] = s[Len(s) + 1 - b]
<1> DEFINE r == SubSeq(s, c + 1, Len(s))
<1>1. Len(s) \in Nat /\ c \in Nat
  OBVIOUS
<1>2. r \in Seq(T)
  <2>1. \A i \in (c + 1) .. Len(s) : s[i] \in T
    BY <1>1
  <2> QED
    BY <1>1, <2>1, SubSeqProperties
<1>3. Len(r) = Len(s) - c
  BY <1>1
<1>4. \A i \in 1 .. Len(s) - c : r[i] = s[i + c]
  BY <1>1
<1> HIDE DEF r
<1>5. ASSUME NEW b \in 1 .. Len(s) - c PROVE r[Len(r) + 1 - b] = s[Len(s) + 1 - b]
  <2>1. PICK i \in 1 .. Len(s) - c : i = Len(s) - c + 1 - b
    <3>1. Len(s) - c + 1 - b \in 1 .. Len(s) - c
      BY <1>1
    <3> QED
      BY <3>1
  <2>2. Len(r) + 1 - b = i /\ Len(s) + 1 - b = i + c
    BY <1>1, <1>3, <2>1
  <2> QED
    BY <1>4, <2>2
<1> QED
  BY <1>2, <1>3, <1>4, <1>5 DEF r

-----------------------------------------------------------------------------
(* The tables are filled before the first handler runs.                    *)
LEMMA BootStep ==
  ASSUME IInv, init_gdt \/ init_trap \/ register_interrupt_handler
  PROVE  IInv'
<1> USE DEF tabs, pic
<1>t. TypeOK /\ Tables /\ Older /\ Serving /\ Numbered /\ Deep /\ Depth \in Nat
  BY DEF IInv, TypeOK, Depth
<1>a. UNCHANGED <<stack, acts, master, slave, resumed>>
  BY DEF init_gdt, init_trap, register_interrupt_handler
<1>0. ~Ready' => Depth = 0
  BY <1>t DEF Tables, Ready, init_gdt, init_trap, register_interrupt_handler
<1>1. CASE init_gdt
  <2>1. UNCHANGED <<limit, idt, handlers, iflag>> /\ limit = 0
    BY <1>1, <1>t DEF init_gdt, Tables
  <2>2. gdt' = [limit |-> 6 * 5 - 1,
                access |-> [d \in 0 .. 4 |-> <<0, 154, 146, 250, 242>>[d + 1]]]
    BY <1>1 DEF init_gdt
  <2>3. DOMAIN gdt' = {"limit", "access"} /\ gdt'.limit = 29 /\ DOMAIN gdt'.access = 0 .. 4
        /\ gdt'.access[1] = 154 /\ gdt'.access[2] = 146
    BY <2>2
  <2>4. TypeOK' /\ Tables'
    BY <1>t, <1>a, <1>0, <2>1, <2>3 DEF TypeOK, Tables, Depth, Ready
  <2> QED
    BY <1>t, <1>a, <2>1, <2>4 DEF IInv, Older, Serving, Unserved, Numbered, Deep, At, Depth, int_no
<1>2. CASE init_trap
  <2>1. UNCHANGED <<gdt, handlers, iflag>> /\ limit' = Limit /\ idt' = Gates /\ gdt.limit # 0
    BY <1>2 DEF init_trap
  <2>2. Limit \in Nat /\ Gates \subseteq Vectors
    BY DEF Limit, Gates, Vectors
  <2>3. TypeOK' /\ Tables'
    BY <1>t, <1>a, <1>0, <2>1, <2>2 DEF TypeOK, Tables, Depth, Ready
  <2> QED
    BY <1>t, <1>a, <2>1, <2>3 DEF IInv, Older, Serving, Unserved, Numbered, Deep, At, Depth, int_no
<1>3. CASE register_interrupt_handler
  <2>1. /\ UNCHANGED <<gdt, limit, idt>> /\ iflag' = TRUE /\ handlers[33] = "none"
        /\ handlers' = [handlers EXCEPT ![14] = "page_fault", ![32] = "timer_callback",
                                        ![33] = "keyboard_handler"]
    BY <1>3 DEF register_interrupt_handler
  <2>2. Depth = 0
    BY <1>t, <2>1 DEF Tables, Ready
  <2>3. handlers' \in [Vectors -> {"none", "page_fault", "timer_callback", "keyboard_handler"}]
    BY <1>t, <2>1 DEF TypeOK
  <2>4. TypeOK' /\ Tables'
    BY <1>t, <1>a, <2>1, <2>2, <2>3 DEF TypeOK, Tables, Depth
  <2>5. Older' /\ Serving' /\ Numbered' /\ Deep'
    BY <1>t, <1>a, <2>2 DEF Older, Serving, Unserved, Numbered, Deep, At, Depth
  <2> QED
    BY <2>4, <2>5 DEF IInv
<1> QED
  BY <1>1, <1>2, <1>3

(* What an entry leaves: a new activation on top, in its stub.             *)
LEMMA EnterFacts ==
  ASSUME IInv, InC, NEW v \in Vectors, Enter(v)
  PROVE  /\ acts' \in Seq(Act) /\ Depth' = Depth + 1 /\ Depth \in Nat
         /\ acts'[1].v = v /\ acts'[1].pc = "stub" /\ Older' /\ Deep'
         /\ stack' \in Seq(Word) /\ iflag' = FALSE
         /\ master = {} /\ slave = {}
<1>t. /\ acts \in Seq(Act) /\ stack \in Seq(Word) /\ iflag \in BOOLEAN /\ Depth \in Nat
      /\ Older /\ Serving /\ Deep
  BY DEF IInv, TypeOK, Act, Depth
<1> DEFINE a == [v |-> v, pc |-> "stub", hd |-> "none"]
           e == IF PushesError(v) THEN <<[k |-> "error", n |-> v]>> ELSE <<>>
           w == <<[k |-> "eip", n |-> Depth], [k |-> "cs", n |-> Depth],
                  [k |-> "eflags", n |-> IF iflag THEN 1 ELSE 0]>>
<1>1. stack' = e \o w \o stack /\ acts' = <<a>> \o acts /\ iflag' = FALSE
  BY DEF Enter
<1>2. a \in Act /\ a.v = v /\ a.pc = "stub" /\ <<a>> \in Seq(Act) /\ Len(<<a>>) = 1 /\ <<a>>[1] = a
  BY DEF Act
<1>3. v \in Nat
  BY DEF Vectors
<1>4. e \in Seq(Word) /\ w \in Seq(Word)
  <2>1. /\ [k |-> "error", n |-> v] \in Word /\ [k |-> "eip", n |-> Depth] \in Word
        /\ [k |-> "cs", n |-> Depth] \in Word
        /\ [k |-> "eflags", n |-> IF iflag THEN 1 ELSE 0] \in Word
    BY <1>t, <1>3 DEF Word
  <2> QED
    BY <2>1
<1>l. Len(w) = 3
  OBVIOUS
<1> HIDE DEF a, e, w
<1>5. stack' \in Seq(Word) /\ Len(stack') >= 3 + Len(stack)
  <2>1. e \o w \in Seq(Word) /\ Len(e \o w) = Len(e) + Len(w) /\ Len(e) \in Nat
    BY <1>4
  <2>2. stack' \in Seq(Word) /\ Len(stack') = Len(e \o w) + Len(stack) /\ Len(stack) \in Nat
    BY <1>t, <1>1, <2>1
  <2> QED
    BY <1>l, <2>1, <2>2
<1>6. acts' \in Seq(Act) /\ Len(acts') = Len(acts) + 1 /\ acts'[1] = a
      /\ \A i \in 1 .. Len(acts) : acts'[i + 1] = acts[i]
  BY <1>t, <1>1, <1>2
<1>7. Depth = 0 \/ acts[1].pc = "body"
  BY DEF InC, At
<1>8. Older'
  <2> SUFFICES ASSUME NEW i \in 2 .. Len(acts) + 1 PROVE acts'[i].pc = "body"
    BY <1>6 DEF Older, Depth
  <2>1. PICK j \in 1 .. Len(acts) : i = j + 1
    <3>1. i - 1 \in 1 .. Len(acts) /\ i = (i - 1) + 1
      BY <1>t DEF Depth
    <3> QED
      BY <3>1
  <2>2. acts'[i] = acts[j]
    BY <1>6, <2>1
  <2>3. CASE j = 1
    BY <1>t, <1>7, <2>2, <2>3 DEF Depth
  <2>4. CASE j # 1
    BY <1>t, <2>2, <2>4 DEF Older, Depth
  <2> QED
    BY <2>3, <2>4
<1>9. master = {} /\ slave = {}
  BY <1>t, <1>7 DEF Serving, Unserved, At
<1>10. Deep'
  <2>1. Len(stack) >= 6 * Depth
    BY <1>t, <1>7 DEF Deep, At
  <2>2. Depth' = Depth + 1 /\ At("stub")'
    BY <1>t, <1>2, <1>6 DEF Depth, At
  <2>3. Len(stack) \in Nat /\ Len(stack') \in Nat
    BY <1>t, <1>5
  <2> QED
    BY <1>t, <1>5, <2>1, <2>2, <2>3 DEF Deep
<1> QED
  BY <1>t, <1>1, <1>2, <1>5, <1>6, <1>8, <1>9, <1>10 DEF Depth

(* An exception leaves the controllers alone.                              *)
LEMMA ExceptionStep ==
  ASSUME IInv, NEW v \in Exceptions, exception(v)
  PROVE  IInv'
<1>v. v \in Vectors /\ ~(v >= 32)
  BY TrapAssumption DEF Vectors
<1>1. InC /\ Enter(v) /\ UNCHANGED <<gdt, limit, idt, handlers, master, slave, resumed>>
  BY DEF exception, tabs, pic
<1>2. /\ acts' \in Seq(Act) /\ Depth' = Depth + 1 /\ Depth \in Nat
      /\ acts'[1].v = v /\ acts'[1].pc = "stub" /\ Older' /\ Deep'
      /\ stack' \in Seq(Word) /\ iflag' = FALSE /\ master = {} /\ slave = {}
  BY <1>v, <1>1, EnterFacts
<1>3. TypeOK'
  BY <1>1, <1>2 DEF IInv, TypeOK, Act
<1>4. Tables'
  BY <1>1, <1>2 DEF IInv, Tables, InC, Ready
<1>5. Serving'
  BY <1>v, <1>1, <1>2 DEF Serving, Unserved
<1>6. Numbered'
  BY <1>2 DEF Numbered, At
<1> QED
  BY <1>2, <1>3, <1>4, <1>5, <1>6 DEF IInv

(* An interrupt puts at most its own line in service.                      *)
LEMMA IrqStep ==
  ASSUME IInv, NEW v \in Irqs, irq(v)
  PROVE  IInv'
<1>v. v \in Vectors /\ v \in 32 .. 47
  BY TrapAssumption DEF Vectors
<1>1. /\ InC /\ Enter(v) /\ UNCHANGED <<gdt, limit, idt, handlers, resumed>>
      /\ \/ /\ master' = master \cup {Line(v)}
            /\ slave' = IF v >= 40 THEN slave \cup {v - 40} ELSE slave
         \/ v = 39 /\ UNCHANGED <<master, slave>>
         \/ v = 47 /\ master' = master \cup {2} /\ UNCHANGED slave
  BY DEF irq, tabs, pic
<1>2. /\ acts' \in Seq(Act) /\ Depth' = Depth + 1 /\ Depth \in Nat
      /\ acts'[1].v = v /\ acts'[1].pc = "stub" /\ Older' /\ Deep'
      /\ stack' \in Seq(Word) /\ iflag' = FALSE /\ master = {} /\ slave = {}
  BY <1>v, <1>1, EnterFacts
<1>3. Line(v) \in 0 .. 7 /\ (v = 47 => Line(v) = 2) /\ (v >= 40 => v - 40 \in 0 .. 7)
  BY <1>v DEF Line
<1>4. master' \subseteq {Line(v)} /\ slave' \subseteq IF v >= 40 THEN {v - 40} ELSE {}
  BY <1>1, <1>2, <1>3
<1>5. TypeOK'
  <2>1. master' \subseteq 0 .. 7 /\ slave' \subseteq 0 .. 7
    BY <1>3, <1>4
  <2> QED
    BY <1>1, <1>2, <2>1 DEF IInv, TypeOK, Act
<1>6. Tables'
  BY <1>1, <1>2 DEF IInv, Tables, InC, Ready
<1>7. Serving'
  <2>1. v >= 32 /\ Unserved'
    BY <1>v, <1>2 DEF Unserved, At
  <2> QED
    BY <1>2, <1>4, <2>1 DEF Serving
<1>8. Numbered'
  BY <1>2 DEF Numbered, At
<1> QED
  BY <1>2, <1>5, <1>6, <1>7, <1>8 DEF IInv

(* The stub pushes the number of the activation it serves.                 *)
LEMMA StubStep ==
  ASSUME IInv, stub
  PROVE  IInv' /\ stack' = Pushed \o stack /\ Pushed \in Seq(Word) /\ Len(Pushed) = 3
         /\ Depth' = Depth /\ At("stub") /\ At("handler")'
<1>t. acts \in Seq(Act) /\ stack \in Seq(Word) /\ Depth \in Nat
  BY DEF IInv, TypeOK, Act, Depth
<1>1. /\ At("stub") /\ Depth > 0 /\ stack' = Pushed \o stack
      /\ acts' = [acts EXCEPT ![1].pc = "handler"]
      /\ UNCHANGED <<gdt, limit, idt, handlers, iflag, master, slave, resumed>>
  BY DEF stub, At, Goto, tabs, pic
<1>2. /\ acts' \in Seq(Act) /\ Depth' = Depth /\ acts'[1].pc = "handler"
      /\ acts'[1].v = acts[1].v /\ \A i \in 2 .. Depth : acts'[i] = acts[i]
  BY <1>t, <1>1, TopChange
<1>3. acts[1].v \in Nat /\ Depth - 1 \in Nat
  <2>1. acts[1] \in Act
    BY <1>t, <1>1 DEF Depth
  <2>2. acts[1].v \in Vectors
    BY <2>1 DEF Act
  <2>3. Vectors \subseteq Nat
    BY DEF Vectors
  <2> QED
    BY <1>t, <1>1, <2>2, <2>3
<1>4. Pushed \in Seq(Word) /\ Len(Pushed) = 3 /\ Pushed[2].n = acts[1].v
  BY <1>3 DEF Pushed, Word
<1>5. stack' \in Seq(Word) /\ Len(stack') = 3 + Len(stack) /\ stack'[2] = Pushed[2]
  <2>1. 2 \in 1 .. Len(Pushed)
    BY <1>4
  <2>2. /\ Pushed \o stack \in Seq(Word) /\ Len(Pushed \o stack) = Len(Pushed) + Len(stack)
        /\ \A i \in 1 .. Len(Pushed) : (Pushed \o stack)[i] = Pushed[i]
    <3>1. PICK m \in Seq(Word) : m = Pushed
      BY <1>4
    <3> QED
      BY <1>t, <3>1, PushUnder
  <2> QED
    BY <1>1, <1>4, <2>1, <2>2
<1>6. TypeOK'
  BY <1>1, <1>2, <1>5 DEF IInv, TypeOK, Act
<1>7. Tables' /\ Older'
  BY <1>1, <1>2 DEF IInv, Tables, Ready, Older
<1>8. Serving'
  BY <1>1, <1>2 DEF IInv, Serving, Unserved, At
<1>9. Numbered'
  <2>1. stack' # <<>>
    BY <1>t, <1>5
  <2> QED
    BY <1>2, <1>4, <1>5, <2>1 DEF Numbered, int_no
<1>10. Deep' /\ At("handler")'
  <2>1. Len(stack) >= 6 * Depth - 3 /\ Len(stack) \in Nat
    BY <1>t, <1>1 DEF IInv, Deep
  <2>2. At("handler")' /\ ~At("stub")'
    BY <1>1, <1>2 DEF At
  <2> QED
    BY <1>t, <1>2, <1>5, <2>1, <2>2 DEF Deep
<1> QED
  BY <1>1, <1>2, <1>4, <1>6, <1>7, <1>8, <1>9, <1>10 DEF IInv

(* A step of the handler's C code, which moves the running activation on.  *)
LEMMA MoveStep ==
  ASSUME IInv, NEW l \in {"body", "exit"},
         NEW h \in {"none", "page_fault", "timer_callback", "keyboard_handler"},
         Depth > 0, ~At("stub"),
                    \/ acts' = [acts EXCEPT ![1].pc = l]
                    \/ acts' = [acts EXCEPT ![1].pc = l, ![1].hd = h],
         UNCHANGED <<gdt, limit, idt, handlers, iflag, stack, resumed>>,
         master' = {}, slave' = {}
  PROVE  IInv' /\ Depth' = Depth /\ ~At("stub")' /\ ~At("handler")'
<1>t. acts \in Seq(Act)
  BY DEF IInv, TypeOK, Act
<1>2. /\ acts' \in Seq(Act) /\ Depth' = Depth /\ acts'[1].pc = l
      /\ acts'[1].v = acts[1].v /\ \A i \in 2 .. Depth : acts'[i] = acts[i]
  BY <1>t, TopChange
<1>3. TypeOK'
  BY <1>2 DEF IInv, TypeOK, Act
<1>4. Tables' /\ Older'
  BY <1>2 DEF IInv, Tables, Ready, Older
<1>5. ~At("stub")' /\ ~At("handler")'
  BY <1>2 DEF At
<1>6. Serving' /\ Numbered'
  BY <1>5 DEF Serving, Unserved, Numbered
<1>7. Deep'
  BY <1>2, <1>5 DEF IInv, Deep
<1> QED
  BY <1>2, <1>3, <1>4, <1>5, <1>6, <1>7 DEF IInv

(* What isr_handler and irq_handler do with the frame.                     *)
LEMMA HandlerStep ==
  ASSUME IInv, isr_handler \/ irq_handler
  PROVE  IInv' /\ Depth' = Depth /\ At("handler") /\ ~At("stub")' /\ ~At("handler")'
         /\ UNCHANGED <<stack, resumed>>
<1>1. /\ At("handler") /\ ~At("stub") /\ Depth > 0 /\ Dispatch
      /\ UNCHANGED <<gdt, limit, idt, handlers, iflag, stack, resumed>>
  BY DEF isr_handler, irq_handler, At, tabs, pic
<1>2. int_no = acts[1].v /\ Serving /\ acts[1].v \in Vectors
  <2>1. acts \in Seq(Act) /\ acts # <<>>
    BY <1>1 DEF IInv, TypeOK, Act, Depth
  <2>2. acts[1] \in Act
    BY <2>1
  <2> QED
    BY <1>1, <2>2 DEF IInv, Numbered, Act
<1>3. handlers[int_no] \in {"none", "page_fault", "timer_callback", "keyboard_handler"}
  BY <1>2 DEF IInv, TypeOK
<1>4. CASE isr_handler
  <2>1. master' = {} /\ slave' = {}
    <3>1. UNCHANGED <<master, slave>> /\ ~(acts[1].v >= 32)
      <4>1. acts[1].v < 32 /\ acts[1].v \in Nat
        BY <1>2, <1>4 DEF isr_handler, Vectors
      <4> QED
        BY <1>4, <4>1 DEF isr_handler, pic
    <3> QED
      BY <1>2, <3>1 DEF Serving, Unserved
  <2> QED
    BY <1>1, <1>3, <2>1, MoveStep DEF Dispatch, Goto
<1>5. CASE irq_handler
  <2>1. /\ slave' = (IF OnSlave(int_no) THEN EOI(slave) ELSE slave) /\ master' = EOI(master)
        /\ acts[1].v >= 32
    BY <1>5 DEF irq_handler
  <2>2. ASSUME NEW x, NEW S, S \subseteq {x}, x \in Nat PROVE EOI(S) = {}
    <3>1. CASE S = {}
      BY <3>1 DEF EOI
    <3>2. CASE S = {x}
      <4>1. \A l : (l \in S /\ \A m \in S : l <= m) <=> l = x
        BY <2>2, <3>2
      <4>2. (CHOOSE l \in S : \A m \in S : l <= m) = x
        BY <4>1
      <4> QED
        BY <3>2, <4>2 DEF EOI
    <3> QED
      BY <2>2, <3>1, <3>2
  <2>3. /\ master \subseteq {Line(acts[1].v)}
        /\ slave \subseteq IF acts[1].v >= 40 THEN {acts[1].v - 40} ELSE {}
    BY <1>1, <1>2, <2>1 DEF Serving, Unserved
  <2>4. acts[1].v \in Nat
    BY <1>2 DEF Vectors
  <2>5. master' = {}
    <3>1. Line(acts[1].v) \in Nat
      BY <2>1, <2>4 DEF Line
    <3> QED
      BY <2>1, <2>2, <2>3, <3>1
  <2>6. slave' = {}
    <3>1. CASE acts[1].v >= 40
      <4>1. acts[1].v - 40 \in Nat /\ slave \subseteq {acts[1].v - 40}
        BY <2>3, <2>4, <3>1
      <4> QED
        BY <1>2, <2>1, <2>2, <3>1, <4>1 DEF OnSlave
    <3>2. CASE ~(acts[1].v >= 40)
      BY <1>2, <2>1, <2>3, <3>2 DEF OnSlave
    <3> QED
      BY <3>1, <3>2
  <2> QED
    BY <1>1, <1>3, <2>5, <2>6, MoveStep DEF Dispatch, Goto
<1> QED
  BY <1>4, <1>5, <1>1

(* C code in a handler: interrupts on, and the return.                     *)
LEMMA BodyStep ==
  ASSUME IInv, Body
  PROVE  IInv' /\ Depth' = Depth /\ At("body") /\ ~At("stub")' /\ ~At("handler")'
         /\ UNCHANGED <<stack, resumed>>
<1>0. At("body") /\ Depth > 0 /\ ~At("stub") /\ ~At("handler") /\ master = {} /\ slave = {}
  <2>1. At("body")
    BY DEF Body, sti, return
  <2> QED
    BY <2>1 DEF IInv, Serving, Unserved, At
<1>1. CASE sti
  <2>1. iflag' = TRUE /\ UNCHANGED <<gdt, limit, idt, handlers, stack, acts, master, slave, resumed>>
    BY <1>1 DEF sti, tabs, pic
  <2>2. TypeOK' /\ Tables' /\ Older' /\ Depth' = Depth
    BY <2>1 DEF IInv, TypeOK, Tables, Ready, Older, Depth
  <2>3. ~At("stub")' /\ ~At("handler")'
    BY <1>0, <2>1 DEF At, Depth
  <2>4. Serving' /\ Numbered' /\ Deep'
    BY <1>0, <2>1, <2>2, <2>3 DEF IInv, Serving, Unserved, Numbered, Deep
  <2> QED
    BY <1>0, <2>1, <2>2, <2>3, <2>4 DEF IInv
<1>2. CASE return
  <2>1. /\ acts' = [acts EXCEPT ![1].pc = "exit"]
        /\ UNCHANGED <<gdt, limit, idt, handlers, iflag, stack, master, slave, resumed>>
    BY <1>2 DEF return, Goto, tabs, pic
  <2> QED
    BY <1>0, <2>1, MoveStep
<1> QED
  BY <1>1, <1>2 DEF Body

(* The end of the stub uncovers a handler that is in its body, or none.    *)
LEMMA IretStep ==
  ASSUME IInv, iret
  PROVE  /\ IInv' /\ Depth' = Depth - 1 /\ Depth > 0 /\ Depth \in Nat
         /\ ~At("stub") /\ ~At("stub")' /\ ~At("handler")'
         /\ stack' \in Seq(Word) /\ Len(stack) >= 6 /\ Len(stack') = Len(stack) - 6
         /\ resumed' = [to |-> IF stack[4].k = "eip" THEN stack[4].n ELSE MaxDepth + 1,
                        from |-> Depth]
         /\ \A b \in 1 .. Len(stack) - 6 : stack'[Len(stack') + 1 - b] = stack[Len(stack) + 1 - b]
         /\ iflag' = (stack[6].n = 1) /\ (Depth' > 0 => acts'[1].pc = "body")
<1>1. /\ At("exit") /\ Depth > 0 /\ acts' = Tail(acts) /\ iflag' \in BOOLEAN
      /\ UNCHANGED <<gdt, limit, idt, handlers, master, slave>>
  BY DEF iret, At, tabs, pic
<1>t. acts \in Seq(Act) /\ acts # <<>> /\ Depth \in Nat
  BY <1>1 DEF IInv, TypeOK, Act, Depth
<1>2. /\ acts' \in Seq(Act) /\ Len(acts') = Len(acts) - 1
      /\ \A i \in 1 .. Len(acts) - 1 : acts'[i] = acts[i + 1]
  BY <1>1, <1>t
<1>3. ASSUME NEW i \in 1 .. Len(acts) - 1 PROVE acts'[i].pc = "body"
  <2>1. i + 1 \in 2 .. Depth
    BY <1>t DEF Depth
  <2> QED
    BY <1>2, <2>1 DEF IInv, Older
<1>4. Older' /\ ~At("stub")' /\ ~At("handler")' /\ (Depth' > 0 => acts'[1].pc = "body")
  <2>1. Older'
    BY <1>t, <1>2, <1>3 DEF Older, Depth
  <2>2. Depth' > 0 => acts'[1].pc = "body"
    BY <1>t, <1>2, <1>3 DEF Depth
  <2> QED
    BY <2>1, <2>2 DEF At
<1>5. ~At("stub") /\ ~At("handler") /\ master = {} /\ slave = {}
  BY <1>1 DEF IInv, Serving, Unserved, At
<1>d. Depth' = Depth - 1 /\ Len(stack) >= 6 * Depth /\ Len(stack) >= 6 /\ Len(stack) \in Nat
      /\ stack \in Seq(Word)
  BY <1>1, <1>2, <1>5, <1>t DEF IInv, Deep, Depth, TypeOK
<1> DEFINE frame == SubSeq(stack, Discard + 1, Len(stack))
<1>f. frame \in Seq(Word) /\ Len(frame) = Len(stack) - 3
      /\ frame[1] = stack[4] /\ frame[3] = stack[6]
      /\ \A b \in 1 .. Len(stack) - 3 : frame[Len(frame) + 1 - b] = stack[Len(stack) + 1 - b]
  <2>1. 3 \in 0 .. Len(stack) /\ 1 \in 1 .. Len(stack) - 3 /\ 3 \in 1 .. Len(stack) - 3
    BY <1>d
  <2> QED
    BY <1>d, <2>1, PopUnder DEF Discard
<1>g. /\ resumed' = [to |-> IF frame[1].k = "eip" THEN frame[1].n ELSE MaxDepth + 1, from |-> Depth]
      /\ stack' = SubSeq(frame, 4, Len(frame)) /\ iflag' = (frame[3].n = 1)
  BY DEF iret
<1> HIDE DEF frame
<1>h. stack' \in Seq(Word) /\ Len(stack') = Len(frame) - 3
      /\ \A b \in 1 .. Len(frame) - 3 : stack'[Len(stack') + 1 - b] = frame[Len(frame) + 1 - b]
  <2>1. 3 \in 0 .. Len(frame) /\ 3 + 1 = 4
    BY <1>d, <1>f
  <2> QED
    BY <1>f, <1>g, <2>1, PopUnder
<1>i. /\ Len(stack') = Len(stack) - 6
      /\ \A b \in 1 .. Len(stack) - 6 : stack'[Len(stack') + 1 - b] = stack[Len(stack) + 1 - b]
  <2>1. Len(frame) - 3 = Len(stack) - 6 /\ \A b \in 1 .. Len(stack) - 6 : b \in 1 .. Len(stack) - 3
    BY <1>d, <1>f
  <2> QED
    BY <1>f, <1>h, <2>1
<1>r. resumed' \in [to : Nat, from : Nat]
  <2>1. stack[4] \in Word
    BY <1>d
  <2> QED
    BY <1>f, <1>g, <1>t, <2>1, TrapAssumption DEF Word
<1>6. TypeOK'
  BY <1>1, <1>2, <1>h, <1>r DEF IInv, TypeOK, Act
<1>7. Tables'
  BY <1>1, <1>t, <1>d DEF IInv, Tables, Ready
<1>8. Serving' /\ Numbered'
  BY <1>1, <1>4, <1>5 DEF Serving, Unserved, Numbered
<1>9. Deep'
  BY <1>t, <1>d, <1>i, <1>4 DEF Deep
<1> QED
  BY <1>1, <1>t, <1>d, <1>f, <1>g, <1>h, <1>i, <1>4, <1>5, <1>6, <1>7, <1>8, <1>9 DEF IInv

-----------------------------------------------------------------------------
(* IInv holds at first.                                                    *)
LEMMA InitInv == Init => IInv
<1> SUFFICES ASSUME Init PROVE IInv
  OBVIOUS
<1>1. Depth = 0 /\ acts = <<>> /\ stack = <<>> /\ Len(stack) = 0
  BY DEF Init, Depth
<1>2. TypeOK
  <2>1. /\ DOMAIN gdt = {"limit", "access"} /\ limit \in Nat /\ idt \subseteq Vectors
        /\ handlers \in [Vectors -> {"none", "page_fault", "timer_callback",
                                     "keyboard_handler"}]
    BY DEF Init
  <2>2. stack \in Seq(Word)
    BY <1>1
  <2>4. iflag \in BOOLEAN /\ master \subseteq 0 .. 7 /\ slave \subseteq 0 .. 7
    BY DEF Init
  <2>3. acts \in Seq(Act) /\ resumed \in [to : Nat, from : Nat]
    BY <1>1 DEF Init
  <2> QED
    BY <2>1, <2>2, <2>3, <2>4 DEF TypeOK, Act
<1>3. Tables
  BY <1>1 DEF Init, Tables
<1>4. Older /\ Serving /\ Numbered /\ Deep
  BY <1>1 DEF Init, Older, Serving, Unserved, Numbered, Deep, At
<1> QED
  BY <1>2, <1>3, <1>4 DEF IInv

(* Every step keeps IInv.                                                  *)
LEMMA StepInv == IInv /\ [Next]_vars => IInv'
<1> SUFFICES ASSUME IInv, [Next]_vars PROVE IInv'
  OBVIOUS
<1>1. CASE UNCHANGED vars
  BY <1>1 DEF vars, tabs, pic, IInv, TypeOK, Tables, Ready, Older, Serving, Unserved, Numbered,
     Deep, At, Depth, int_no
<1>2. CASE Next
  BY <1>2, BootStep, ExceptionStep, IrqStep, StubStep, HandlerStep, BodyStep, IretStep
  DEF Next, Machine
<1> QED
  BY <1>1, <1>2

(* IInv holds in every state.                                              *)
THEOREM Invariance == Spec => []IInv
BY InitInv, StepInv, PTL DEF Spec

(* Every vector the processor or the controllers may raise has its gate    *)
(* inside the limit of the IDT, and the kernel's segments are inside that  *)
(* of the GDT (trap.c:40, gdt.c:14).                                       *)
THEOREM DeliverySafety == Spec => []Deliverable
<1>1. IInv => Deliverable
  <2> SUFFICES ASSUME IInv, limit # 0 PROVE Deliverable
    BY DEF Deliverable
  <2>1. /\ gdt.limit = 29 /\ DOMAIN gdt.access = 0 .. 4 /\ gdt.access[1] = 154
        /\ gdt.access[2] = 146 /\ limit = Limit /\ idt = Gates
    BY DEF IInv, Tables
  <2>2. \A v \in 0 .. 47 : v \in Gates /\ 8 * v + 7 <= Limit
    BY DEF Gates, Limit
  <2>3. 8 \div 8 = 1 /\ 16 \div 8 = 2
    OBVIOUS
  <2>4. Loadable(8) /\ Loadable(16)
    BY <2>1, <2>3 DEF Loadable
  <2> QED
    BY <2>1, <2>2, <2>4 DEF Deliverable
<1> QED
  BY <1>1, Invariance, PTL

(* Interrupts are enabled only while neither controller has an interrupt   *)
(* in service: irq_handler acknowledges each one before its handler runs   *)
(* (trap.c:117-130), at any depth of nesting, and whichever are spurious.  *)
THEOREM ServiceSafety == Spec => []Drained
<1>1. IInv => Drained
  BY DEF IInv, Serving, Unserved, Drained
<1> QED
  BY <1>1, Invariance, PTL

-----------------------------------------------------------------------------
(* A step that neither pushes nor pops keeps the frames.                   *)
LEMMA SameFrames ==
  ASSUME FInv, UNCHANGED <<stack, resumed>>, Depth' = Depth, At("stub") <=> At("stub")'
  PROVE  FInv'
<1>1. Frames'
  BY DEF FInv, Frames, Under
<1>2. ResumeExact'
  BY DEF FInv, ResumeExact
<1> QED
  BY <1>1, <1>2 DEF FInv

(* An entry without an error code pushes three words.                      *)
LEMMA EnterFrames ==
  ASSUME IInv, FInv, InC, NEW v \in Vectors, ~PushesError(v), Enter(v), resumed' = resumed
  PROVE  /\ FInv' /\ Len(stack') = 6 * Depth + 3
         /\ stack'[3] = [k |-> "eflags", n |-> IF iflag THEN 1 ELSE 0]
<1>t. Depth \in Nat /\ stack \in Seq(Word) /\ iflag \in BOOLEAN /\ Len(stack) \in Nat
  BY DEF IInv, TypeOK, Depth
<1>1. Depth' = Depth + 1 /\ At("stub")'
  <2>1. Depth' = Depth + 1 /\ acts'[1].pc = "stub"
    BY EnterFacts
  <2> QED
    BY <1>t, <2>1 DEF At
<1>2. Len(stack) = 6 * Depth
  <2>1. ~At("stub")
    BY DEF InC, At
  <2> QED
    BY <1>t, <2>1 DEF FInv, Frames
<1> DEFINE w == <<[k |-> "eip", n |-> Depth], [k |-> "cs", n |-> Depth],
                  [k |-> "eflags", n |-> IF iflag THEN 1 ELSE 0]>>
<1>3. w \in Seq(Word)
  <2>1. /\ [k |-> "eip", n |-> Depth] \in Word /\ [k |-> "cs", n |-> Depth] \in Word
        /\ [k |-> "eflags", n |-> IF iflag THEN 1 ELSE 0] \in Word
    BY <1>t DEF Word
  <2> QED
    BY <2>1
<1>4. /\ Len(w) = 3 /\ w[1] = [k |-> "eip", n |-> Depth]
      /\ w[3] = [k |-> "eflags", n |-> IF iflag THEN 1 ELSE 0]
  OBVIOUS
<1>5. stack' = <<>> \o w \o stack
  BY DEF Enter
<1> HIDE DEF w
<1>6. <<>> \o w = w
  BY <1>3
<1>7. /\ Len(stack') = 3 + Len(stack) /\ stack'[1] = w[1] /\ stack'[3] = w[3]
      /\ \A b \in 1 .. Len(stack) : stack'[Len(stack') + 1 - b] = stack[Len(stack) + 1 - b]
  <2>1. stack' = w \o stack /\ 1 \in 1 .. Len(w) /\ 3 \in 1 .. Len(w)
    BY <1>4, <1>5, <1>6
  <2>2. /\ Len(w \o stack) = Len(w) + Len(stack) /\ \A i \in 1 .. Len(w) : (w \o stack)[i] = w[i]
        /\ \A b \in 1 .. Len(stack) : (w \o stack)[Len(w \o stack) + 1 - b] = stack[Len(stack) + 1 - b]
    BY <1>t, <1>3, PushUnder
  <2> QED
    BY <1>4, <2>1, <2>2
<1>8. Frames'
  <2>1. Len(stack') = 6 * Depth' - 3
    BY <1>t, <1>1, <1>2, <1>7
  <2>2. ASSUME NEW d \in 1 .. Depth + 1
        PROVE  stack'[Len(stack') + 1 - (6 * (d - 1) + 3)] = [k |-> "eip", n |-> d - 1]
    <3>1. CASE d = Depth + 1
      <4>1. Len(stack') + 1 - (6 * (d - 1) + 3) = 1 /\ d - 1 = Depth
        BY <1>t, <1>2, <1>7, <3>1
      <4> QED
        BY <1>4, <1>7, <4>1
    <3>2. CASE d # Depth + 1
      <4>1. d \in 1 .. Depth /\ 6 * (d - 1) + 3 \in 1 .. Len(stack)
        BY <1>t, <1>2, <3>2
      <4> QED
        BY <1>7, <4>1 DEF FInv, Frames, Under
    <3> QED
      BY <3>1, <3>2
  <2> QED
    BY <1>1, <2>1, <2>2 DEF Frames, Under
<1>9. ResumeExact'
  BY <1>t, <1>1 DEF FInv, ResumeExact
<1> QED
  BY <1>t, <1>2, <1>4, <1>7, <1>8, <1>9 DEF FInv

(* The stub pushes three more.                                             *)
LEMMA StubFrames ==
  ASSUME IInv, FInv, stub
  PROVE  /\ FInv'
         /\ \A b \in 1 .. Len(stack) : Under(b)' = Under(b)
<1>t. Depth \in Nat /\ stack \in Seq(Word) /\ Len(stack) \in Nat
  BY DEF IInv, TypeOK, Depth
<1>1. /\ stack' = Pushed \o stack /\ Pushed \in Seq(Word) /\ Len(Pushed) = 3
      /\ Depth' = Depth /\ At("stub") /\ At("handler")' /\ resumed' = resumed
  BY StubStep DEF stub
<1>2. PICK m \in Seq(Word) : m = Pushed
  BY <1>1
<1>3. /\ Len(stack') = 3 + Len(stack)
      /\ \A b \in 1 .. Len(stack) : stack'[Len(stack') + 1 - b] = stack[Len(stack) + 1 - b]
  <2>1. /\ Len(m \o stack) = Len(m) + Len(stack)
        /\ \A b \in 1 .. Len(stack) : (m \o stack)[Len(m \o stack) + 1 - b] = stack[Len(stack) + 1 - b]
    BY <1>t, PushUnder
  <2> QED
    BY <1>1, <1>2, <2>1
<1>4. Len(stack) = 6 * Depth - 3 /\ Depth > 0 /\ ~At("stub")'
  BY <1>1 DEF FInv, Frames, At
<1>5. Frames'
  <2>1. Len(stack') = 6 * Depth'
    BY <1>t, <1>1, <1>3, <1>4
  <2>2. ASSUME NEW d \in 1 .. Depth
        PROVE  stack'[Len(stack') + 1 - (6 * (d - 1) + 3)] = [k |-> "eip", n |-> d - 1]
    <3>1. 6 * (d - 1) + 3 \in 1 .. Len(stack)
      BY <1>t, <1>4
    <3> QED
      BY <1>3, <3>1 DEF FInv, Frames, Under
  <2> QED
    BY <1>t, <1>1, <1>4, <2>1, <2>2 DEF Frames, Under
<1>6. ResumeExact'
  BY <1>1, <1>4 DEF FInv, ResumeExact
<1> QED
  BY <1>3, <1>5, <1>6 DEF FInv, Under

(* iret finds the frame of its own activation.                             *)
LEMMA IretFrames ==
  ASSUME IInv, FInv, iret
  PROVE  FInv'
<1>1. /\ Depth' = Depth - 1 /\ Depth > 0 /\ Depth \in Nat /\ ~At("stub") /\ ~At("stub")'
      /\ stack' \in Seq(Word) /\ Len(stack') = Len(stack) - 6
      /\ resumed' = [to |-> IF stack[4].k = "eip" THEN stack[4].n ELSE MaxDepth + 1,
                     from |-> Depth]
      /\ \A b \in 1 .. Len(stack) - 6 : stack'[Len(stack') + 1 - b] = stack[Len(stack) + 1 - b]
  BY IretStep
<1>2. Len(stack) = 6 * Depth
  BY <1>1 DEF FInv, Frames
<1>3. stack[4] = [k |-> "eip", n |-> Depth - 1]
  <2>1. Depth \in 1 .. Depth /\ Len(stack) + 1 - (6 * (Depth - 1) + 3) = 4
    BY <1>1, <1>2
  <2> QED
    BY <2>1 DEF FInv, Frames, Under
<1>4. Frames'
  <2>1. Len(stack') = 6 * Depth'
    BY <1>1, <1>2
  <2>2. ASSUME NEW d \in 1 .. Depth - 1
        PROVE  stack'[Len(stack') + 1 - (6 * (d - 1) + 3)] = [k |-> "eip", n |-> d - 1]
    <3>1. d \in 1 .. Depth /\ 6 * (d - 1) + 3 \in 1 .. Len(stack) - 6
      BY <1>1, <1>2
    <3> QED
      BY <1>1, <3>1 DEF FInv, Frames, Under
  <2> QED
    BY <1>1, <2>1, <2>2 DEF Frames, Under
<1>5. ResumeExact'
  <2>1. resumed'.from = Depth /\ resumed'.to = Depth - 1
    BY <1>1, <1>3
  <2>2. Depth' = 0 => stack' = <<>>
    <3> SUFFICES ASSUME Depth' = 0 PROVE stack' = <<>>
      OBVIOUS
    <3>1. Len(stack') = 0
      BY <1>1, <1>2
    <3> QED
      BY <1>1, <3>1
  <2> QED
    BY <2>1, <2>2 DEF ResumeExact
<1> QED
  BY <1>4, <1>5 DEF FInv

(* Without error codes the frames stay in order.                           *)
LEMMA StepFrames ==
  ASSUME NoErrors
  PROVE  IInv /\ FInv /\ [Next]_vars => FInv'
<1> SUFFICES ASSUME IInv, FInv, [Next]_vars PROVE FInv'
  OBVIOUS
<1>1. CASE UNCHANGED vars
  BY <1>1, SameFrames DEF vars, At, Depth
<1>2. CASE init_gdt \/ init_trap \/ register_interrupt_handler
  <2>1. UNCHANGED <<stack, resumed, acts>>
    BY <1>2 DEF init_gdt, init_trap, register_interrupt_handler
  <2> QED
    BY <2>1, SameFrames DEF At, Depth
<1>3. ASSUME NEW v \in Exceptions, exception(v) PROVE FInv'
  <2>1. v \in Vectors /\ ~PushesError(v)
    BY TrapAssumption DEF Vectors, NoErrors
  <2> QED
    BY <1>3, <2>1, EnterFrames DEF exception
<1>4. ASSUME NEW v \in Irqs, irq(v) PROVE FInv'
  <2>1. v \in Vectors /\ ~PushesError(v)
    BY TrapAssumption DEF Vectors, NoErrors
  <2> QED
    BY <1>4, <2>1, EnterFrames DEF irq
<1>5. CASE stub
  BY <1>5, StubFrames
<1>6. CASE isr_handler \/ irq_handler
  <2>1. /\ Depth' = Depth /\ At("handler") /\ ~At("stub")' /\ UNCHANGED <<stack, resumed>>
    BY <1>6, HandlerStep
  <2>2. ~At("stub")
    BY <2>1 DEF At
  <2> QED
    BY <2>1, <2>2, SameFrames
<1>7. CASE iret
  BY <1>7, IretFrames
<1>8. CASE Body
  <2>1. /\ Depth' = Depth /\ At("body") /\ ~At("stub")' /\ UNCHANGED <<stack, resumed>>
    BY <1>8, BodyStep
  <2>2. ~At("stub")
    BY <2>1 DEF At
  <2> QED
    BY <2>1, <2>2, SameFrames
<1> QED
  BY <1>1, <1>2, <1>3, <1>4, <1>5, <1>6, <1>7, <1>8 DEF Next, Machine

(* Without error codes FInv holds in every state.                          *)
THEOREM FrameInvariance == ASSUME NoErrors PROVE Spec => []FInv
<1>1. Init => FInv
  <2> SUFFICES ASSUME Init PROVE FInv
    OBVIOUS
  <2>1. Depth = 0 /\ Len(stack) = 0 /\ stack = <<>> /\ resumed.from = 0 /\ ~At("stub")
    BY DEF Init, Depth, At
  <2>2. 1 .. Depth = {} /\ Len(stack) = 6 * Depth - 0
    BY <2>1
  <2>3. Frames
    BY <2>1, <2>2 DEF Frames
  <2> QED
    BY <2>1, <2>3 DEF FInv, ResumeExact
<1>2. IInv /\ FInv /\ [Next]_vars => FInv'
  BY StepFrames
<1> QED
  BY <1>1, <1>2, Invariance, PTL DEF Spec

(* If no vector pushes an error code, iret returns to the context that was *)
(* interrupted and leaves the stack as it was (trap_s.s:72-118), at any    *)
(* depth of nesting.                                                       *)
THEOREM ResumeSafety == ASSUME NoErrors PROVE Spec => []ResumeExact
<1>1. FInv => ResumeExact
  BY DEF FInv
<1> QED
  BY <1>1, FrameInvariance, PTL

(* If no vector pushes an error code, register_t tells a handler the       *)
(* number of the interrupt it serves and the place it interrupted          *)
(* (trap.h:21-26).                                                         *)
THEOREM RegisterSafety == ASSUME NoErrors PROVE Spec => []RegsRight
<1>1. IInv /\ FInv => RegsRight
  <2> SUFFICES ASSUME IInv, FInv, At("handler") PROVE RegsRight
    BY DEF RegsRight
  <2>t. Depth \in Nat /\ Depth > 0 /\ ~At("stub")
    BY DEF IInv, TypeOK, Depth, At
  <2>1. Len(stack) = 6 * Depth
    BY <2>t DEF FInv, Frames
  <2>2. Depth \in 1 .. Depth /\ Len(stack) + 1 - (6 * (Depth - 1) + 3) = 4
    BY <2>t, <2>1
  <2>3. stack[4] = [k |-> "eip", n |-> Depth - 1]
    BY <2>2 DEF FInv, Frames, Under
  <2> QED
    BY <2>3 DEF IInv, Numbered, RegsRight, eip
<1> QED
  BY <1>1, Invariance, FrameInvariance, PTL

-----------------------------------------------------------------------------
(***************************************************************************)
(* File.                                                                   *)
(***************************************************************************)
(* The names of entries: those of init_fs, and what callers give.          *)
Kept  == {<<"*">>, <<"/">>, <<"d", "e", "v", "/">>, <<"s", "y", "s", "/">>}
         \cup Names \cup {Append(name, "/") : name \in Names}
Entry == [type : {"F_T_DIR", "F_T_FILE"}, father : Nat, size : Nat, name : Kept]

(* A table l of n entries: fathers are entries, and the size of each       *)
(* directory is the number of entries that name it.                        *)
Sons(l, n, d) == {i \in 0 .. n - 1 : l[i].father = d}
Well(l, n) ==
  /\ l \in [0 .. n - 1 -> Entry]
  /\ \A d \in 0 .. n - 1 :
       /\ l[d].father \in 0 .. n - 1
       /\ l[d].type = "F_T_DIR" => l[d].size = Cardinality(Sons(l, n, d))

Written(l, n, e, d) == IF d = n THEN e ELSE l[d]

TableOK == file_id \in Nat /\ IF file_id = 0 THEN file_list = <<>> ELSE Well(file_list, file_id)

(* Callers give names without a slash, and C strings hold no terminator.   *)
NamesOK == \A name \in Names : \A j \in 1 .. Len(name) : name[j] # "/" /\ name[j] # "NUL"

(* So the slash at the end of a directory's name is the only one in it.    *)
Chars    == STRING \cup {"/", "d", "e", "v", "s", "y"}
Plain(s) == s \in Seq(Chars) /\ \A j \in 1 .. Len(s) : s[j] # "/" /\ s[j] # "NUL"
Ended(s) ==
  /\ s \in Seq(Chars) /\ Len(s) > 0 /\ s[Len(s)] = "/"
  /\ \A j \in 1 .. Len(s) : s[j] # "NUL" /\ (s[j] = "/" => j = Len(s))
Fit(e)      == IF e.type = "F_T_DIR" THEN Ended(e.name) ELSE Plain(e.name)
Named(l, n) == \A d \in 1 .. n - 1 : Fit(l[d])
NamedOK     == Named(file_list, file_id)

(* A call that is not over wrote an entry and is that of the running code  *)
(* or of code that was interrupted.  If interrupts were off before it they *)
(* still are, its entry is still the last one, and at most an exception    *)
(* without a handler is on top, whose iret leaves interrupts off.          *)
Off(d) ==
  /\ ~iflag /\ calls[d].own = file_id - 1
  /\ d # Depth => /\ d = Depth - 1 /\ acts[1].v \in 0 .. 31 \ {14} /\ ~At("body")
                  /\ Under(6 * d + 1).n # 1
Open(d) ==
  /\ calls[d].own \in 0 .. file_id - 1
  /\ d <= Depth /\ Ready /\ (d = Depth => InC)
  /\ ~calls[d].on => Off(d)

Call == [own : Int, on : BOOLEAN]
CallsOK ==
  /\ Depth <= MaxDepth /\ calls \in [0 .. MaxDepth -> Call]
  /\ \A v \in 0 .. 31 \ {14} : handlers[v] = "none"
  /\ \A d \in 0 .. MaxDepth : calls[d] # None => Open(d)

-----------------------------------------------------------------------------
(* What Entered changes: the new entry, and one size.                      *)
LEMMA EnteredFacts ==
  ASSUME NEW n \in Nat, NEW l, \A d \in 0 .. n - 1 : l[d] \in Entry,
         NEW e \in Entry, e.father \in 0 .. n
  PROVE  LET r == Entered(l, n, e) IN
         /\ r \in [0 .. n -> Entry]
         /\ \A d \in 0 .. n : /\ r[d].type = Written(l, n, e, d).type
                              /\ r[d].father = Written(l, n, e, d).father
                              /\ r[d].name = Written(l, n, e, d).name
                              /\ r[d].size = Written(l, n, e, d).size
                                             + IF d = e.father THEN 1 ELSE 0
<1> DEFINE r == Entered(l, n, e)
           o(d) == Written(l, n, e, d)
           w == [d \in 0 .. n |-> o(d)]
<1>1. \A d \in 0 .. n : o(d) \in Entry
  <2>1. \A d \in 0 .. n : d = n \/ d \in 0 .. n - 1
    OBVIOUS
  <2> QED
    BY <2>1 DEF Written
<1>2. r = [w EXCEPT ![e.father].size = @ + 1]
  BY DEF Entered, Written
<1>3. w \in [0 .. n -> Entry] /\ \A d \in 0 .. n : w[d] = o(d)
  BY <1>1
<1> HIDE DEF w, r, o
<1>4. r = [w EXCEPT ![e.father] = [w[e.father] EXCEPT !.size = w[e.father].size + 1]]
  BY <1>2
<1>5. ASSUME NEW d \in 0 .. n
      PROVE  /\ r[d] \in Entry /\ r[d].type = w[d].type /\ r[d].father = w[d].father
             /\ r[d].name = w[d].name /\ r[d].size = w[d].size + IF d = e.father THEN 1 ELSE 0
  <2>0. w[d] \in Entry
    BY <1>3
  <2>1. CASE d = e.father
    <3>1. r[d] = [w[d] EXCEPT !.size = w[d].size + 1]
      BY <1>3, <1>4, <2>1
    <3>2. w[d].size + 1 \in Nat
      BY <2>0 DEF Entry
    <3> QED
      BY <2>0, <2>1, <3>1, <3>2 DEF Entry
  <2>2. CASE d # e.father
    <3>1. r[d] = w[d]
      BY <1>3, <1>4, <2>2
    <3>2. w[d].size + 0 = w[d].size
      BY <2>0 DEF Entry
    <3> QED
      BY <2>0, <2>2, <3>1, <3>2
  <2> QED
    BY <2>1, <2>2
<1>6. r \in [0 .. n -> Entry]
  <2>1. DOMAIN r = 0 .. n /\ r = [d \in DOMAIN r |-> r[d]]
    BY <1>3, <1>4
  <2> QED
    BY <1>5, <2>1
<1> QED
  BY <1>3, <1>5, <1>6 DEF r, o

(* An entry of size 0 keeps the table well formed, and one with a name     *)
(* that fits keeps the names.                                              *)
LEMMA EnteredWell ==
  ASSUME NEW n \in Nat, NEW l, n # 0 => Well(l, n),
         NEW e \in Entry, e.size = 0, e.father \in 0 .. n, n # 0 => e.father # n
  PROVE  /\ Well(Entered(l, n, e), n + 1)
         /\ Named(l, n) /\ (n # 0 => Fit(e)) => Named(Entered(l, n, e), n + 1)
<1>n. n + 1 - 1 = n /\ \A d \in 0 .. n : d = n \/ (d \in 0 .. n - 1 /\ d # n /\ n # 0)
  OBVIOUS
<1>0. \A d \in 0 .. n - 1 : l[d] \in Entry
  BY DEF Well
<1> DEFINE r == Entered(l, n, e)
           o(d) == Written(l, n, e, d)
<1>1. r \in [0 .. n -> Entry]
  BY <1>0, EnteredFacts
<1>2. \A d \in 0 .. n : /\ r[d].type = Written(l, n, e, d).type
                        /\ r[d].father = Written(l, n, e, d).father
                        /\ r[d].name = Written(l, n, e, d).name
                        /\ r[d].size = Written(l, n, e, d).size
                                       + IF d = e.father THEN 1 ELSE 0
  BY <1>0, EnteredFacts
<1> HIDE DEF r
<1>3. ASSUME NEW d \in 0 .. n PROVE r[d].father \in 0 .. n
  <2>1. CASE d = n
    BY <1>2, <2>1 DEF Written
  <2>2. CASE d # n
    <3>1. d \in 0 .. n - 1 /\ l[d].father \in 0 .. n - 1
      BY <1>n, <2>2 DEF Well
    <3> QED
      BY <1>2, <2>2, <3>1 DEF Written
  <2> QED
    BY <2>1, <2>2
<1>4. ASSUME NEW d \in 0 .. n, r[d].type = "F_T_DIR"
      PROVE  r[d].size = Cardinality(Sons(r, n + 1, d))
  <2> DEFINE old == {i \in 0 .. n - 1 : l[i].father = d}
  <2>1. Sons(r, n + 1, d) = IF e.father = d THEN old \cup {n} ELSE old
    <3>1. Sons(r, n + 1, d) = {i \in 0 .. n : r[i].father = d}
      BY <1>n DEF Sons
    <3>2. \A i \in 0 .. n : r[i].father = IF i = n THEN e.father ELSE l[i].father
      BY <1>2 DEF Written
    <3>3. \A i : i \in 0 .. n <=> (i \in 0 .. n - 1 \/ i = n)
      OBVIOUS
    <3>4. n \notin 0 .. n - 1
      OBVIOUS
    <3> QED
      BY <3>1, <3>2, <3>3, <3>4
  <2>2. IsFiniteSet(old) /\ n \notin old
    <3>1. IsFiniteSet(0 .. n - 1)
      BY FS_Interval
    <3>2. old \subseteq 0 .. n - 1 /\ n \notin 0 .. n - 1
      OBVIOUS
    <3> QED
      BY <3>1, <3>2, FS_Subset
  <2>3. o(d).size = Cardinality(old)
    <3>1. CASE d = n
      <4>1. old = {}
        <5>1. \A i \in 0 .. n - 1 : l[i].father \in 0 .. n - 1
          BY <1>n DEF Well
        <5> QED
          BY <3>1, <5>1
      <4> QED
        BY <3>1, <4>1, FS_EmptySet DEF Written
    <3>2. CASE d # n
      <4>1. d \in 0 .. n - 1 /\ n # 0 /\ l[d].type = "F_T_DIR"
        BY <1>n, <1>2, <1>4, <3>2 DEF Written
      <4>2. l[d].size = Cardinality(Sons(l, n, d))
        BY <4>1 DEF Well
      <4> QED
        BY <3>2, <4>2 DEF Sons, Written
    <3> QED
      BY <3>1, <3>2
  <2>4. Cardinality(old \cup {n}) = Cardinality(old) + 1 /\ Cardinality(old) \in Nat
    BY <2>2, FS_AddElement, FS_CardinalityType
  <2> HIDE DEF old
  <2>5. r[d].size = Cardinality(old) + IF d = e.father THEN 1 ELSE 0
    BY <1>2, <2>3
  <2> QED
    BY <2>1, <2>4, <2>5
<1>5. ASSUME Named(l, n), n # 0 => Fit(e), NEW d \in 1 .. n PROVE Fit(r[d])
  <2>1. d \in 0 .. n /\ n # 0 /\ (d = n \/ (d # n /\ d \in 1 .. n - 1))
    OBVIOUS
  <2>2. Fit(Written(l, n, e, d))
    BY <1>5, <2>1 DEF Written, Named
  <2> QED
    BY <1>2, <2>1, <2>2 DEF Fit
<1>6. Well(r, n + 1)
  BY <1>n, <1>1, <1>3, <1>4 DEF Well
<1>7. Named(l, n) /\ (n # 0 => Fit(e)) => Named(r, n + 1)
  BY <1>n, <1>5 DEF Named
<1> QED
  BY <1>6, <1>7 DEF r

-----------------------------------------------------------------------------
(* fs_add_dir and fs_add_file leave the interrupt flag as they found it,   *)
(* so that every step of File is a step of Trap or none at all.            *)
LEMMA FileStep == [FileNext]_allVars => [Next]_vars
<1> SUFFICES ASSUME [FileNext]_allVars PROVE [Next]_vars
  OBVIOUS
<1>1. CASE UNCHANGED allVars
  BY <1>1 DEF allVars
<1>2. CASE Machine \/ Body
  BY <1>2 DEF Next
<1>3. CASE init_fs \/ fs_added
  BY <1>3 DEF init_fs, fs_added
<1>4. ASSUME NEW e, fs_add(e) PROVE UNCHANGED vars
  BY <1>4 DEF fs_add, Restored, vars
<1> QED
  BY <1>1, <1>2, <1>3, <1>4 DEF FileNext, fs_add_dir, fs_add_file

(* The file table, used from handlers at any depth, leaves the processor   *)
(* and the controllers to behave as Trap says (file.c:17-42).              *)
THEOREM TrapRefined == FileSpec => Spec
<1>1. FileInit => Init
  BY DEF FileInit
<1> QED
  BY <1>1, FileStep, PTL DEF FileSpec, Spec

-----------------------------------------------------------------------------
(* The entries that fs_add_dir and fs_add_file write.                      *)
LEMMA Written0 ==
  ASSUME NEW f \in Nat, NEW name \in Kept
  PROVE  /\ Dir(f, name) \in Entry /\ Dir(f, name).size = 0 /\ Dir(f, name).father = f
         /\ File(f, 0, name) \in Entry /\ File(f, 0, name).size = 0 /\ File(f, 0, name).father = f
BY DEF Dir, File, Entry

(* A caller's name, and the same with a slash.                             *)
LEMMA Spelled ==
  ASSUME NamesOK, NEW name \in Names
  PROVE  Plain(name) /\ Ended(Append(name, "/"))
<1>1. name \in Seq(STRING) /\ \A j \in 1 .. Len(name) : name[j] # "/" /\ name[j] # "NUL"
  BY FileAssumption DEF NamesOK
<1>2. name \in Seq(Chars)
  <2>1. Len(name) \in Nat /\ name \in [1 .. Len(name) -> STRING]
    BY <1>1
  <2>2. name \in [1 .. Len(name) -> Chars]
    BY <2>1 DEF Chars
  <2> QED
    BY <2>1, <2>2, SeqDef
<1>3. "/" \in Chars
  BY DEF Chars
<1>4. /\ Append(name, "/") \in Seq(Chars) /\ Len(Append(name, "/")) = Len(name) + 1
      /\ Append(name, "/")[Len(name) + 1] = "/"
      /\ \A j \in 1 .. Len(name) : Append(name, "/")[j] = name[j]
  BY <1>2, <1>3, AppendProperties
<1>5. PICK a : a = Append(name, "/")
  OBVIOUS
<1>6. Ended(a)
  <2>1. Len(name) \in Nat
    BY <1>2
  <2>2. ASSUME NEW j \in 1 .. Len(a) PROVE a[j] # "NUL" /\ (a[j] = "/" => j = Len(a))
    <3>1. j = Len(name) + 1 \/ j \in 1 .. Len(name)
      BY <1>4, <1>5, <2>1
    <3> QED
      BY <1>1, <1>4, <1>5, <3>1
  <2> QED
    BY <1>4, <1>5, <2>1, <2>2 DEF Ended
<1> QED
  BY <1>1, <1>2, <1>5, <1>6 DEF Plain

(* init_fs enters four directories, with names that fit.                   *)
LEMMA InitTable ==
  ASSUME init_fs
  PROVE  TableOK' /\ NamedOK'
<1> DEFINE e0 == Dir(0, <<"*">>)
           e1 == Dir(0, <<"/">>)
           e2 == Dir(1, <<"d", "e", "v", "/">>)
           e3 == Dir(1, <<"s", "y", "s", "/">>)
           l1 == Entered(<<>>, 0, e0)
           l2 == Entered(l1, 1, e1)
           l3 == Entered(l2, 2, e2)
           l4 == Entered(l3, 3, e3)
<1>1. file_list' = l4 /\ file_id' = 4
  BY DEF init_fs
<1>2. /\ <<"*">> \in Kept /\ <<"/">> \in Kept
      /\ <<"d", "e", "v", "/">> \in Kept /\ <<"s", "y", "s", "/">> \in Kept
  BY DEF Kept
<1>3. /\ e0 \in Entry /\ e0.size = 0 /\ e0.father = 0
      /\ e1 \in Entry /\ e1.size = 0 /\ e1.father = 0
      /\ e2 \in Entry /\ e2.size = 0 /\ e2.father = 1
      /\ e3 \in Entry /\ e3.size = 0 /\ e3.father = 1
  BY <1>2, Written0
<1>s. /\ <<"/">> \in Seq(Chars) /\ <<"d", "e", "v", "/">> \in Seq(Chars)
      /\ <<"s", "y", "s", "/">> \in Seq(Chars)
  BY DEF Chars
<1>f. Fit(e1) /\ Fit(e2) /\ Fit(e3)
  <2>1. Ended(<<"/">>)
    BY <1>s DEF Ended
  <2>2. Ended(<<"d", "e", "v", "/">>)
    BY <1>s DEF Ended
  <2>3. Ended(<<"s", "y", "s", "/">>)
    BY <1>s DEF Ended
  <2> QED
    BY <2>1, <2>2, <2>3 DEF Fit, Dir
<1> HIDE DEF e0, e1, e2, e3
<1>4. Well(l1, 1) /\ Named(l1, 1)
  <2>1. 0 \in Nat /\ e0.father \in 0 .. 0 /\ 0 + 1 = 1
    BY <1>3
  <2>2. PICK l : l = <<>>
    OBVIOUS
  <2>3. Named(l, 0)
    BY DEF Named
  <2>4. Well(Entered(l, 0, e0), 0 + 1) /\ Named(Entered(l, 0, e0), 0 + 1)
    BY <1>3, <2>1, <2>3, EnteredWell
  <2> QED
    BY <2>1, <2>2, <2>4
<1> HIDE DEF l1
<1>5. Well(l2, 2) /\ Named(l2, 2)
  <2>1. Well(l2, 1 + 1) /\ Named(l2, 1 + 1)
    BY <1>3, <1>4, <1>f, EnteredWell
  <2> HIDE DEF l2
  <2> QED
    BY <2>1
<1> HIDE DEF l2
<1>6. Well(l3, 3) /\ Named(l3, 3)
  <2>1. Well(l3, 2 + 1) /\ Named(l3, 2 + 1)
    BY <1>3, <1>5, <1>f, EnteredWell
  <2> HIDE DEF l3
  <2> QED
    BY <2>1
<1> HIDE DEF l3
<1>7. Well(l4, 3 + 1) /\ Named(l4, 3 + 1)
  BY <1>3, <1>6, <1>f, EnteredWell
<1> HIDE DEF l4
<1> QED
  BY <1>1, <1>7 DEF TableOK, NamedOK

(* A call of fs_add_dir or fs_add_file keeps the table well formed.        *)
LEMMA AddWell ==
  ASSUME TableOK, NEW father \in Dirs \ {0}, NEW name \in Names,
         fs_add_dir(father, Append(name, "/")) \/ fs_add_file(father, name)
  PROVE  TableOK'
<1>1. file_id \in Nat /\ file_id # 0 /\ Well(file_list, file_id)
  BY DEF fs_add_dir, fs_add_file, fs_add, TableOK
<1>2. father \in 0 .. file_id - 1 /\ father \in 0 .. file_id /\ father # file_id /\ father \in Nat
  <2>1. father \in DOMAIN file_list /\ DOMAIN file_list = 0 .. file_id - 1
    BY <1>1 DEF Dirs, Well
  <2> QED
    BY <1>1, <2>1
<1>3. name \in Kept /\ Append(name, "/") \in Kept
  BY DEF Kept
<1>4. PICK e \in Entry : fs_add(e) /\ e.size = 0 /\ e.father = father
  <2>1. CASE fs_add_dir(father, Append(name, "/"))
    BY <1>2, <1>3, <2>1, Written0 DEF fs_add_dir
  <2>2. CASE fs_add_file(father, name)
    BY <1>2, <1>3, <2>2, Written0 DEF fs_add_file
  <2> QED
    BY <2>1, <2>2
<1>5. CASE file_id < MAX_FILE
  <2>1. file_list' = Entered(file_list, file_id, e) /\ file_id' = file_id + 1
    BY <1>4, <1>5 DEF fs_add
  <2>2. Well(Entered(file_list, file_id, e), file_id + 1)
    BY <1>1, <1>2, <1>4, EnteredWell
  <2> QED
    BY <1>1, <2>1, <2>2 DEF TableOK
<1>6. CASE ~(file_id < MAX_FILE)
  BY <1>4, <1>6 DEF fs_add, table, TableOK
<1> QED
  BY <1>5, <1>6

(* Every step keeps the table well formed.                                 *)
LEMMA StepTable == TableOK /\ [FileNext]_allVars => TableOK'
<1> SUFFICES ASSUME TableOK, [FileNext]_allVars PROVE TableOK'
  OBVIOUS
<1>1. CASE UNCHANGED files
  BY <1>1 DEF files, table, TableOK
<1>2. CASE UNCHANGED allVars
  BY <1>2 DEF allVars, files, table, TableOK
<1>3. CASE fs_added
  BY <1>3 DEF fs_added, table, TableOK
<1> QED
  BY <1>1, <1>2, <1>3, InitTable, AddWell DEF FileNext

(* The table is well formed in every state.                                *)
THEOREM TableInvariance == FileSpec => []TableOK
<1>1. FileInit => TableOK
  BY DEF FileInit, TableOK
<1> QED
  BY <1>1, StepTable, PTL DEF FileSpec

(* The size of a directory is the number of entries that name it as their  *)
(* father (file.c:30), for any table and any nesting of the calls.         *)
THEOREM SizeSafety == FileSpec => []SizesRight
<1>1. TableOK => SizesRight
  <2> SUFFICES ASSUME TableOK, NEW d \in Dirs
               PROVE  file_list[d].size
                        = Cardinality({i \in DOMAIN file_list : file_list[i].father = d})
    BY DEF SizesRight
  <2>1. file_id # 0
    BY DEF TableOK, Dirs
  <2>2. DOMAIN file_list = 0 .. file_id - 1 /\ Well(file_list, file_id)
    BY <2>1 DEF TableOK, Well
  <2> QED
    BY <2>2 DEF Well, Sons, Dirs
<1> QED
  BY <1>1, TableInvariance, PTL

-----------------------------------------------------------------------------
(* A step outside file.c that leaves each open call open.                  *)
LEMMA Unfiled ==
  ASSUME CallsOK, UNCHANGED files, Depth' <= MaxDepth,
         \A v \in 0 .. 31 \ {14} : handlers'[v] = "none",
         \A d \in 0 .. MaxDepth : calls[d] # None => Open(d)'
  PROVE  CallsOK'
<1>1. calls' = calls
  BY DEF files
<1> QED
  BY <1>1 DEF CallsOK

(* Before the handlers are registered no call is open.                     *)
LEMMA BootCalls ==
  ASSUME IInv, CallsOK, UNCHANGED files,
         init_gdt \/ init_trap \/ register_interrupt_handler
  PROVE  CallsOK'
<1> USE DEF tabs, pic
<1>1. CASE init_gdt \/ init_trap
  <2>1. UNCHANGED <<handlers, iflag, stack, acts, calls, file_id>>
    BY <1>1 DEF init_gdt, init_trap, files, table
  <2> QED
    BY <2>1 DEF CallsOK, Open, Off, Depth, At, InC, Ready, Under
<1>2. CASE register_interrupt_handler
  <2>1. ~Ready /\ UNCHANGED <<acts, calls>> /\ handlers' = [handlers EXCEPT
          ![14] = "page_fault", ![32] = "timer_callback", ![33] = "keyboard_handler"]
    BY <1>2 DEF register_interrupt_handler, Ready, files
  <2>2. \A d \in 0 .. MaxDepth : calls[d] = None
    BY <2>1 DEF CallsOK, Open
  <2>3. \A v \in 0 .. 31 \ {14} : handlers'[v] = handlers[v]
    <3>1. handlers = [v \in Vectors |-> handlers[v]]
      BY DEF IInv, TypeOK
    <3>2. \A v \in 0 .. 31 \ {14} : v \in Vectors /\ v # 14 /\ v # 32 /\ v # 33
      BY DEF Vectors
    <3> QED
      BY <2>1, <3>1, <3>2
  <2>4. Depth' <= MaxDepth
    BY <2>1 DEF CallsOK, Depth
  <2> QED
    BY <2>2, <2>3, <2>4, Unfiled DEF CallsOK
<1> QED
  BY <1>1, <1>2

(* An entry suspends the running code: with interrupts off it can only be  *)
(* that of an exception.                                                   *)
LEMMA EnterCalls ==
  ASSUME IInv, FInv, CallsOK, InC, UNCHANGED files, handlers' = handlers, resumed' = resumed,
         NEW v \in Vectors, ~PushesError(v), Enter(v), ~iflag => v \in 0 .. 31
  PROVE  CallsOK'
<1>1. /\ Depth' = Depth + 1 /\ Depth \in Nat /\ acts'[1].v = v /\ acts'[1].pc = "stub"
      /\ iflag' = FALSE
  BY EnterFacts
<1>2. Len(stack') = 6 * Depth + 3 /\ stack'[3] = [k |-> "eflags", n |-> IF iflag THEN 1 ELSE 0]
  BY EnterFrames
<1>3. Depth' <= MaxDepth
  BY <1>1, TrapAssumption DEF Enter
<1>4. calls' = calls /\ file_id' = file_id /\ Ready'
  BY DEF files, table, InC, Ready
<1>5. ASSUME NEW d \in 0 .. MaxDepth, calls[d] # None PROVE Open(d)'
  <2>1. Open(d) /\ d <= Depth /\ d # Depth' /\ d <= Depth'
    BY <1>1, <1>5 DEF CallsOK, Open
  <2>2. ASSUME ~calls[d].on PROVE Off(d)'
    <3>1. Off(d) /\ d = Depth
      <4>1. Off(d)
        BY <2>1, <2>2 DEF Open
      <4>2. d = Depth - 1 => Depth # 0
        BY <1>1
      <4> QED
        BY <1>1, <4>1, <4>2 DEF Off, InC
    <3>2. ~iflag /\ v \in 0 .. 31 \ {14}
      BY <3>1 DEF Off, PushesError
    <3>3. Under(6 * d + 1)'.n = 0
      <4>1. Len(stack') + 1 - (6 * d + 1) = 3
        BY <1>1, <1>2, <3>1
      <4> QED
        BY <1>2, <3>2, <4>1 DEF Under
    <3>4. ~At("body")' /\ d = Depth' - 1
      BY <1>1, <3>1 DEF At
    <3> QED
      BY <1>1, <1>4, <3>1, <3>2, <3>3, <3>4 DEF Off
  <2> QED
    BY <1>4, <2>1, <2>2 DEF Open
<1> QED
  BY <1>3, <1>5, Unfiled DEF CallsOK

(* The stub pushes above the saved flags.                                  *)
LEMMA StubCalls ==
  ASSUME IInv, FInv, CallsOK, UNCHANGED files, stub
  PROVE  CallsOK'
<1>1. /\ Depth' = Depth /\ At("stub") /\ At("handler")' /\ UNCHANGED <<iflag, handlers>>
      /\ \A b \in 1 .. Len(stack) : Under(b)' = Under(b)
  BY StubStep, StubFrames DEF stub, tabs
<1>2. acts'[1].v = acts[1].v
  <2>1. acts \in Seq(Act) /\ Depth > 0 /\ acts' = [acts EXCEPT ![1].pc = "handler"]
    BY <1>1 DEF IInv, TypeOK, Act, At, stub, Goto
  <2> QED
    BY <2>1, TopChange
<1>3. calls' = calls /\ file_id' = file_id /\ (Ready <=> Ready')
  BY <1>1 DEF files, table, Ready
<1>4. ~At("body") /\ ~At("body")' /\ Depth > 0 /\ Depth \in Nat /\ Len(stack) = 6 * Depth - 3
  BY <1>1 DEF At, FInv, Frames, IInv, TypeOK, Depth
<1>5. ASSUME NEW d \in 0 .. MaxDepth, calls[d] # None PROVE Open(d)'
  <2>1. Open(d) /\ d # Depth /\ d <= Depth
    <3>1. Open(d)
      BY <1>5 DEF CallsOK
    <3> QED
      BY <1>4, <3>1 DEF Open, InC
  <2>2. Under(6 * d + 1)' = Under(6 * d + 1)
    <3>1. 6 * d + 1 \in 1 .. Len(stack)
      BY <1>4, <2>1
    <3> QED
      BY <1>1, <3>1
  <2> QED
    BY <1>1, <1>2, <1>3, <1>4, <2>1, <2>2 DEF Open, Off
<1> QED
  BY <1>1, <1>5, Unfiled DEF CallsOK

(* isr_handler finds no handler for an exception on top of an open call    *)
(* with interrupts off.                                                    *)
LEMMA HandlerCalls ==
  ASSUME IInv, FInv, CallsOK, UNCHANGED files, isr_handler \/ irq_handler
  PROVE  CallsOK'
<1>1. /\ Depth' = Depth /\ At("handler") /\ UNCHANGED <<iflag, handlers, stack>>
      /\ Dispatch /\ int_no = acts[1].v
  <2>1. Depth' = Depth /\ At("handler")
    BY HandlerStep
  <2> QED
    BY <2>1 DEF isr_handler, irq_handler, tabs, IInv, Numbered
<1>2. /\ acts'[1].v = acts[1].v
      /\ handlers[acts[1].v] = "none" => acts'[1].pc = "exit"
  <2>1. acts \in Seq(Act) /\ Depth > 0 /\ acts[1].v \in Vectors
    <3>1. acts \in Seq(Act) /\ Depth > 0
      BY <1>1 DEF IInv, TypeOK, Act, At
    <3>2. acts[1] \in Act
      BY <3>1 DEF Depth
    <3> QED
      BY <3>1, <3>2 DEF Act
  <2>2. handlers[acts[1].v] \in {"none", "page_fault", "timer_callback", "keyboard_handler"}
    BY <2>1 DEF IInv, TypeOK
  <2>3. CASE handlers[acts[1].v] = "none"
    <3>1. acts' = [acts EXCEPT ![1].pc = "exit"]
      BY <1>1, <2>3 DEF Dispatch, Goto
    <3> QED
      BY <2>1, <3>1, TopChange
  <2>4. CASE handlers[acts[1].v] # "none"
    <3>1. acts' = [acts EXCEPT ![1].pc = "body", ![1].hd = handlers[acts[1].v]]
      BY <1>1, <2>4 DEF Dispatch
    <3> QED
      BY <2>1, <2>2, <2>4, <3>1, TopChange
  <2> QED
    BY <2>3, <2>4
<1>3. calls' = calls /\ file_id' = file_id /\ (Ready <=> Ready')
  BY <1>1 DEF files, table, Ready
<1>4. ~At("body") /\ Depth > 0
  BY <1>1 DEF At
<1>5. ASSUME NEW d \in 0 .. MaxDepth, calls[d] # None PROVE Open(d)'
  <2>1. Open(d) /\ d # Depth
    <3>1. Open(d)
      BY <1>5 DEF CallsOK
    <3> QED
      BY <1>4, <3>1 DEF Open, InC
  <2>2. ASSUME ~calls[d].on PROVE Off(d)'
    <3>1. Off(d)
      BY <2>1, <2>2 DEF Open
    <3>2. acts[1].v \in 0 .. 31 \ {14}
      BY <2>1, <3>1 DEF Off
    <3>3. ~At("body")'
      BY <1>2, <3>2 DEF CallsOK, At
    <3> QED
      BY <1>1, <1>2, <1>3, <2>1, <3>1, <3>2, <3>3 DEF Off, Under
  <2> QED
    BY <1>1, <1>3, <2>1, <2>2 DEF Open
<1> QED
  BY <1>1, <1>5, Unfiled DEF CallsOK

(* The body of a handler enables interrupts or returns only when its own   *)
(* calls are over.                                                         *)
LEMMA BodyCalls ==
  ASSUME IInv, CallsOK, UNCHANGED files, Body, ~Calling
  PROVE  CallsOK'
<1>1. Depth' = Depth /\ At("body") /\ UNCHANGED <<handlers, stack>>
  BY BodyStep DEF Body, sti, return, tabs
<1>2. calls' = calls /\ file_id' = file_id /\ (Ready <=> Ready')
  BY <1>1 DEF files, table, Ready
<1>3. ASSUME NEW d \in 0 .. MaxDepth, calls[d] # None PROVE Open(d)'
  <2>1. Open(d) /\ d # Depth
    BY <1>3 DEF CallsOK, Calling
  <2>2. calls[d].on
    BY <1>1, <2>1 DEF Open, Off
  <2> QED
    BY <1>1, <1>2, <2>1, <2>2 DEF Open
<1> QED
  BY <1>1, <1>3, Unfiled DEF CallsOK

(* iret uncovers the interrupted code, with the interrupt flag it had.     *)
LEMMA IretCalls ==
  ASSUME IInv, FInv, CallsOK, UNCHANGED files, iret
  PROVE  CallsOK'
<1>1. /\ Depth' = Depth - 1 /\ Depth > 0 /\ Depth \in Nat /\ ~At("stub")
      /\ iflag' = (stack[6].n = 1) /\ (Depth' > 0 => acts'[1].pc = "body")
  BY IretStep
<1>2. handlers' = handlers /\ At("exit")
  BY DEF iret, tabs
<1>3. calls' = calls /\ file_id' = file_id /\ (Ready <=> Ready')
  BY <1>2 DEF files, table, Ready
<1>4. Len(stack) = 6 * Depth
  BY <1>1 DEF FInv, Frames
<1>5. ASSUME NEW d \in 0 .. MaxDepth, calls[d] # None PROVE Open(d)'
  <2>1. Open(d) /\ d # Depth
    <3>1. Open(d)
      BY <1>5 DEF CallsOK
    <3>2. ~InC
      BY <1>1, <1>2 DEF InC, At
    <3> QED
      BY <3>1, <3>2 DEF Open
  <2>2. d <= Depth' /\ Ready'
    BY <1>1, <1>3, <2>1 DEF Open
  <2>3. InC'
    BY <1>1, <2>2 DEF InC, At
  <2>4. ASSUME ~calls[d].on PROVE Off(d)'
    <3>1. d = Depth - 1 /\ Under(6 * d + 1).n # 1 /\ calls[d].own = file_id - 1
      BY <2>1, <2>4 DEF Open, Off
    <3>2. Len(stack) + 1 - (6 * d + 1) = 6
      BY <1>1, <1>4, <3>1
    <3>3. ~iflag'
      BY <1>1, <3>1, <3>2 DEF Under
    <3> QED
      BY <1>1, <1>3, <3>1, <3>3 DEF Off
  <2> QED
    BY <1>3, <2>1, <2>2, <2>3, <2>4 DEF Open
<1>6. Depth' <= MaxDepth
  BY <1>1, TrapAssumption DEF CallsOK
<1> QED
  BY <1>2, <1>5, <1>6, Unfiled DEF CallsOK

(* A call ends.                                                            *)
LEMMA AddedCalls ==
  ASSUME IInv, CallsOK, fs_added
  PROVE  CallsOK'
<1>1. /\ UNCHANGED <<handlers, iflag, stack, acts, file_id>> /\ InC
      /\ calls' = [calls EXCEPT ![Depth] = None]
  BY DEF fs_added, vars, tabs, table
<1>2. None \in Call /\ Depth \in Nat
  BY DEF None, Call, IInv, TypeOK, Depth
<1>3. calls' \in [0 .. MaxDepth -> Call]
  BY <1>1, <1>2 DEF CallsOK
<1>4. ASSUME NEW d \in 0 .. MaxDepth, calls'[d] # None PROVE Open(d)'
  <2>1. calls'[d] = calls[d] /\ Open(d)
    BY <1>1, <1>4 DEF CallsOK
  <2> QED
    BY <1>1, <2>1 DEF Open, Off, Depth, At, InC, Ready, Under
<1> QED
  BY <1>1, <1>3, <1>4 DEF CallsOK, Depth

(* A call begins only in running code, whose own calls are over, and never *)
(* above an open call with interrupts off.                                 *)
LEMMA AddCalls ==
  ASSUME IInv, CallsOK, TableOK, NEW e, fs_add(e)
  PROVE  CallsOK'
<1>1. UNCHANGED <<handlers, iflag, stack, acts>> /\ InC /\ ~Calling
  BY DEF fs_add, Restored, vars, tabs, table
<1>2. Depth \in 0 .. MaxDepth /\ file_id \in Nat /\ iflag \in BOOLEAN /\ Depth \in Nat
  BY TrapAssumption DEF CallsOK, TableOK, IInv, TypeOK, Depth
<1>3. CASE file_id < MAX_FILE
  <2>1. /\ file_id' = file_id + 1
        /\ calls' = [calls EXCEPT ![Depth] = [own |-> file_id, on |-> iflag]]
    BY <1>3 DEF fs_add
  <2>2. [own |-> file_id, on |-> iflag] \in Call
    BY <1>2 DEF Call
  <2>3. calls' \in [0 .. MaxDepth -> Call]
    BY <1>2, <2>1, <2>2 DEF CallsOK
  <2>4. ASSUME NEW d \in 0 .. MaxDepth, calls'[d] # None PROVE Open(d)'
    <3>1. CASE d = Depth
      <4>1. calls'[d].own = file_id /\ calls'[d].on = iflag
        BY <1>2, <2>1, <3>1 DEF CallsOK
      <4>2. Off(d)' <=> ~iflag
        BY <1>1, <1>2, <2>1, <3>1, <4>1 DEF Off, Depth
      <4>3. file_id \in 0 .. file_id' - 1 /\ d <= Depth
        BY <1>2, <2>1, <3>1
      <4> QED
        BY <1>1, <3>1, <4>1, <4>2, <4>3 DEF Open, Depth, InC, At, Ready
    <3>2. CASE d # Depth
      <4>1. calls'[d] = calls[d]
        BY <1>2, <2>1, <3>2 DEF CallsOK
      <4>2. Open(d)
        BY <2>4, <4>1 DEF CallsOK
      <4>3. calls[d].on
        <5>1. Depth = 0 => FALSE
          BY <1>2, <3>2, <4>2 DEF Open
        <5>2. At("body")
          BY <1>1, <5>1 DEF InC
        <5> QED
          BY <3>2, <4>2, <5>2 DEF Open, Off
      <4>4. calls[d].own \in 0 .. file_id' - 1 /\ d <= Depth
        BY <1>2, <2>1, <4>2 DEF Open
      <4> QED
        BY <1>1, <3>2, <4>1, <4>3, <4>4 DEF Open, Depth, InC, At, Ready
    <3> QED
      BY <3>1, <3>2
  <2> QED
    BY <1>1, <2>3, <2>4 DEF CallsOK, Depth
<1>4. CASE ~(file_id < MAX_FILE)
  <2>1. UNCHANGED <<file_id, calls>>
    BY <1>4 DEF fs_add, table
  <2> QED
    BY <1>1, <2>1 DEF CallsOK, Open, Off, Depth, At, InC, Ready, Under
<1> QED
  BY <1>3, <1>4

(* Without error codes every step keeps CallsOK.                           *)
LEMMA StepCalls ==
  ASSUME NoErrors
  PROVE  IInv /\ FInv /\ TableOK /\ CallsOK /\ [FileNext]_allVars => CallsOK'
<1> SUFFICES ASSUME IInv, FInv, TableOK, CallsOK, [FileNext]_allVars PROVE CallsOK'
  OBVIOUS
<1>1. CASE UNCHANGED allVars
  BY <1>1 DEF allVars, vars, tabs, files, table, CallsOK, Open, Off, Depth, At, InC, Ready, Under
<1>2. ASSUME Machine, UNCHANGED files PROVE CallsOK'
  <2>1. ASSUME NEW v \in Exceptions, exception(v) PROVE CallsOK'
    <3>1. v \in Vectors /\ v \in 0 .. 31 /\ ~PushesError(v)
      BY TrapAssumption DEF Vectors, NoErrors
    <3> QED
      BY <1>2, <2>1, <3>1, EnterCalls DEF exception, tabs
  <2>2. ASSUME NEW v \in Irqs, irq(v) PROVE CallsOK'
    <3>1. v \in Vectors /\ ~PushesError(v)
      BY TrapAssumption DEF Vectors, NoErrors
    <3> QED
      BY <1>2, <2>2, <3>1, EnterCalls DEF irq, tabs
  <2> QED
    BY <1>2, <2>1, <2>2, BootCalls, StubCalls, HandlerCalls, IretCalls DEF Machine
<1>3. CASE init_fs
  <2>1. ~Ready /\ UNCHANGED <<handlers, acts, calls>>
    BY <1>3 DEF init_fs, vars, tabs
  <2>2. \A d \in 0 .. MaxDepth : calls[d] = None
    BY <2>1 DEF CallsOK, Open
  <2> QED
    BY <2>1, <2>2 DEF CallsOK, Depth
<1> QED
  BY <1>1, <1>2, <1>3, BodyCalls, AddCalls, AddedCalls DEF FileNext, fs_add_dir, fs_add_file

(* Without error codes CallsOK holds in every state.                       *)
THEOREM CallInvariance == ASSUME NoErrors PROVE FileSpec => []CallsOK
<1>1. FileInit => CallsOK
  <2> SUFFICES ASSUME FileInit PROVE CallsOK
    OBVIOUS
  <2>1. Depth = 0 /\ calls = [d \in 0 .. MaxDepth |-> None] /\ None \in Call
    BY DEF FileInit, Init, Depth, None, Call
  <2>2. \A v \in 0 .. 31 \ {14} : handlers[v] = "none"
    BY DEF FileInit, Init, Vectors
  <2> QED
    BY <2>1, <2>2, TrapAssumption DEF CallsOK
<1>2. IInv /\ FInv /\ TableOK /\ CallsOK /\ [FileNext]_allVars => CallsOK'
  BY StepCalls
<1>3. FileSpec => []IInv /\ []FInv
  BY TrapRefined, Invariance, FrameInvariance, PTL
<1> QED
  BY <1>1, <1>2, <1>3, TableInvariance, PTL DEF FileSpec

(* If no vector pushes an error code, a call made with interrupts off      *)
(* returns the index of the entry it wrote, and any other call no older    *)
(* one (file.c:33-34), at any depth of nesting.                            *)
THEOREM AnswerSafety == ASSUME NoErrors PROVE FileSpec => []AnswerRight
<1> DEFINE AInv == answer \in [call : Call, got : Int] /\ AnswerRight
<1>1. FileInit => AInv
  BY DEF FileInit, None, Call, AnswerRight
<1>2. IInv /\ TableOK /\ CallsOK /\ AInv /\ [FileNext]_allVars => AInv'
  <2> SUFFICES ASSUME IInv, TableOK, CallsOK, AInv, [FileNext]_allVars PROVE AInv'
    OBVIOUS
  <2>t. file_id \in Nat /\ answer.got \in Int
    BY DEF TableOK
  <2>1. ASSUME answer' = answer, file_id' \in Nat, file_id' >= file_id PROVE AInv'
    BY <2>1, <2>t DEF AnswerRight
  <2>2. CASE UNCHANGED files \/ UNCHANGED allVars
    <3>1. answer' = answer /\ file_id' = file_id
      BY <2>2 DEF files, table, allVars
    <3> QED
      BY <2>1, <2>t, <3>1
  <2>3. CASE init_fs
    BY <2>1, <2>3 DEF init_fs
  <2>4. ASSUME NEW e, fs_add(e) PROVE AInv'
    <3>1. CASE file_id < MAX_FILE
      BY <2>1, <2>4, <2>t, <3>1 DEF fs_add
    <3>2. CASE ~(file_id < MAX_FILE)
      <4>1. answer' = [call |-> None, got |-> -1] /\ file_id' = file_id
        BY <2>4, <3>2 DEF fs_add, table
      <4> QED
        BY <2>t, <4>1 DEF None, Call, AnswerRight
    <3> QED
      BY <3>1, <3>2
  <2>5. CASE fs_added
    <3>1. /\ answer' = [call |-> calls[Depth], got |-> file_id - 1] /\ file_id' = file_id
          /\ calls[Depth] # None
      BY <2>5 DEF fs_added, table, Calling
    <3>2. Depth \in 0 .. MaxDepth
      BY TrapAssumption DEF CallsOK, IInv, TypeOK, Depth
    <3>3. calls[Depth] \in Call /\ Open(Depth)
      BY <3>1, <3>2 DEF CallsOK
    <3>4. /\ calls[Depth].own \in 0 .. file_id - 1
          /\ ~calls[Depth].on => calls[Depth].own = file_id - 1
      BY <3>3 DEF Open, Off
    <3> QED
      BY <2>t, <3>1, <3>3, <3>4 DEF AnswerRight
  <2> QED
    BY <2>2, <2>3, <2>4, <2>5 DEF FileNext, fs_add_dir, fs_add_file
<1>3. FileSpec => []IInv
  BY TrapRefined, Invariance, PTL
<1> QED
  BY <1>1, <1>2, <1>3, TableInvariance, CallInvariance, PTL DEF FileSpec

-----------------------------------------------------------------------------
(* Two directory names, one of which begins a path that begins with the    *)
(* other, are the same.                                                    *)
LEMMA PrefixSame ==
  ASSUME NEW s, NEW t, NEW rest, Ended(s), Ended(t), Plain(rest)
  PROVE  Same(s \o rest, t, Len(t)) <=> s = t
<1>1. /\ s \in Seq(Chars) /\ t \in Seq(Chars) /\ rest \in Seq(Chars) /\ Len(s) > 0 /\ Len(t) > 0
      /\ Len(s) \in Nat /\ Len(t) \in Nat /\ Len(rest) \in Nat
  BY DEF Ended, Plain
<1>2. PICK p : p = s \o rest
  OBVIOUS
<1>3. /\ Len(p) = Len(s) + Len(rest) /\ \A j \in 1 .. Len(s) : p[j] = s[j]
      /\ \A j \in 1 .. Len(rest) : p[Len(s) + j] = rest[j]
  BY <1>1, <1>2
<1>4. \A j \in 1 .. Len(s) : Chr(p, j) = s[j]
  BY <1>1, <1>3 DEF Chr
<1>5. ASSUME NEW j \in Nat, j > Len(s) PROVE Chr(p, j) # "/"
  <2>1. CASE j <= Len(p)
    <3>1. PICK i \in 1 .. Len(rest) : j = Len(s) + i
      <4>1. j - Len(s) \in 1 .. Len(rest) /\ j = Len(s) + (j - Len(s))
        BY <1>1, <1>3, <1>5, <2>1
      <4> QED
        BY <4>1
    <3> QED
      BY <1>3, <2>1, <3>1 DEF Chr, Plain
  <2>2. CASE ~(j <= Len(p))
    BY <2>2 DEF Chr
  <2> QED
    BY <2>1, <2>2
<1>6. ASSUME Same(p, t, Len(t)) PROVE s = t
  <2>1. \A j \in 1 .. Len(t) : Chr(p, j) = t[j]
    BY <1>1, <1>6 DEF Same, Chr
  <2>2. Len(t) \in 1 .. Len(t) /\ Len(s) \in 1 .. Len(s)
    BY <1>1
  <2>3. Chr(p, Len(t)) = "/"
    BY <2>1, <2>2 DEF Ended
  <2>4. ~(Len(t) > Len(s))
    BY <1>1, <1>5, <2>3
  <2>5. Len(t) = Len(s)
    <3>1. Len(t) \in 1 .. Len(s)
      BY <1>1, <2>4
    <3> QED
      BY <1>4, <2>3, <3>1 DEF Ended
  <2>6. \A j \in 1 .. Len(s) : s[j] = t[j]
    BY <1>4, <2>1, <2>5
  <2> QED
    BY <1>1, <2>5, <2>6, SeqEqual
<1>7. ASSUME s = t PROVE Same(p, t, Len(t))
  BY <1>1, <1>4, <1>7 DEF Same, Chr
<1> QED
  BY <1>2, <1>6, <1>7

(* Two file names that strcmp does not tell apart are the same.            *)
LEMMA CompareSame ==
  ASSUME NEW s, NEW t, Plain(s), Plain(t)
  PROVE  ~strcmp(s, t) <=> s = t
<1>1. s \in Seq(Chars) /\ t \in Seq(Chars) /\ Len(s) \in Nat /\ Len(t) \in Nat
  BY DEF Plain
<1>2. ASSUME Same(s, t, Len(s) + 1) PROVE s = t
  <2>1. \A j \in 1 .. Len(s) + 1 : Chr(s, j) = Chr(t, j)
    BY <1>2 DEF Same
  <2>2. ~(Len(t) > Len(s))
    <3> SUFFICES ASSUME Len(t) > Len(s) PROVE FALSE
      OBVIOUS
    <3>1. Len(s) + 1 \in 1 .. Len(s) + 1 /\ Len(s) + 1 \in 1 .. Len(t) /\ ~(Len(s) + 1 <= Len(s))
      BY <1>1
    <3>2. t[Len(s) + 1] = "NUL"
      BY <2>1, <3>1 DEF Chr
    <3> QED
      BY <3>1, <3>2 DEF Plain
  <2>3. ~(Len(t) < Len(s))
    <3> SUFFICES ASSUME Len(t) < Len(s) PROVE FALSE
      OBVIOUS
    <3>1. Len(t) + 1 \in 1 .. Len(s) + 1 /\ Len(t) + 1 \in 1 .. Len(s) /\ ~(Len(t) + 1 <= Len(t))
      BY <1>1
    <3>2. s[Len(t) + 1] = "NUL"
      BY <2>1, <3>1 DEF Chr
    <3> QED
      BY <3>1, <3>2 DEF Plain
  <2>4. Len(s) = Len(t)
    BY <1>1, <2>2, <2>3
  <2>5. \A j \in 1 .. Len(s) : s[j] = t[j]
    BY <1>1, <2>1, <2>4 DEF Chr
  <2> QED
    BY <1>1, <2>4, <2>5, SeqEqual
<1>3. ASSUME s = t PROVE Same(s, t, Len(s) + 1)
  BY <1>3 DEF Same
<1> QED
  BY <1>2, <1>3 DEF strcmp

(* The first match.                                                        *)
LEMMA FirstIs ==
  ASSUME NEW S \in SUBSET Nat, NEW i \in S, \A j \in S : i <= j
  PROVE  FirstMatch(S) = i
<1>1. \E m \in S : \A j \in S : m <= j
  OBVIOUS
<1>2. PICK m : m = CHOOSE n \in S : \A j \in S : n <= j
  OBVIOUS
<1>3. m \in S /\ \A j \in S : m <= j
  BY <1>1, <1>2
<1>4. m = i
  BY <1>3
<1> QED
  BY <1>2, <1>4 DEF FirstMatch

(* The names that callers give fit.                                        *)
LEMMA AddNamed ==
  ASSUME NamesOK, TableOK, NamedOK, NEW father \in Dirs \ {0}, NEW name \in Names,
         fs_add_dir(father, Append(name, "/")) \/ fs_add_file(father, name)
  PROVE  NamedOK'
<1>1. file_id \in Nat /\ file_id # 0 /\ Well(file_list, file_id)
  BY DEF fs_add_dir, fs_add_file, fs_add, TableOK
<1>2. father \in 0 .. file_id /\ father # file_id /\ father \in Nat
  <2>1. father \in DOMAIN file_list /\ DOMAIN file_list = 0 .. file_id - 1
    BY <1>1 DEF Dirs, Well
  <2> QED
    BY <1>1, <2>1
<1>3. name \in Kept /\ Append(name, "/") \in Kept
  BY DEF Kept
<1>4. PICK e \in Entry : fs_add(e) /\ e.size = 0 /\ e.father = father /\ Fit(e)
  <2>1. CASE fs_add_dir(father, Append(name, "/"))
    <3>1. Fit(Dir(father, Append(name, "/")))
      BY Spelled DEF Fit, Dir
    <3> QED
      BY <1>2, <1>3, <2>1, <3>1, Written0 DEF fs_add_dir
  <2>2. CASE fs_add_file(father, name)
    <3>1. Fit(File(father, 0, name))
      BY Spelled DEF Fit, File
    <3> QED
      BY <1>2, <1>3, <2>2, <3>1, Written0 DEF fs_add_file
  <2> QED
    BY <2>1, <2>2
<1>5. CASE file_id < MAX_FILE
  <2>1. file_list' = Entered(file_list, file_id, e) /\ file_id' = file_id + 1
    BY <1>4, <1>5 DEF fs_add
  <2>2. Named(Entered(file_list, file_id, e), file_id + 1)
    BY <1>1, <1>2, <1>4, EnteredWell DEF NamedOK
  <2> QED
    BY <2>1, <2>2 DEF NamedOK
<1>6. CASE ~(file_id < MAX_FILE)
  BY <1>4, <1>6 DEF fs_add, table, NamedOK
<1> QED
  BY <1>5, <1>6

(* With such names, each entry without an older namesake is the first one  *)
(* that matches its path.                                                  *)
LEMMA Resolves ==
  ASSUME NamesOK
  PROVE  TableOK /\ NamedOK => PathsResolve
<1> SUFFICES ASSUME TableOK, NamedOK, NEW i \in DOMAIN file_list \ {0}, ~Shadowed(i)
             PROVE  LET e == file_list[i] IN
                    IF e.type = "F_T_DIR"
                    THEN \A rest \in {<<>>} \cup Names :
                           fs_match_dir(e.father, e.name \o rest) = i
                    ELSE fs_match_file(e.father, e.name) = i
  BY DEF PathsResolve
<1>1. file_id # 0
  BY DEF TableOK
<1>2. Well(file_list, file_id) /\ file_id \in Nat /\ DOMAIN file_list = 0 .. file_id - 1
  BY <1>1 DEF TableOK, Well
<1>3. i \in 1 .. file_id - 1
  BY <1>2
<1>4. \A j \in 1 .. file_id - 1 : Fit(file_list[j])
  BY DEF NamedOK, Named
<1>5. file_list[i].type \in {"F_T_DIR", "F_T_FILE"}
  BY <1>2 DEF Well, Entry
<1> DEFINE e == file_list[i]
           found(type) == {j \in Siblings(type, e.father) : file_list[j].name = e.name}
<1>6. FirstMatch(found(e.type)) = i
  <2>1. i \in found(e.type)
    BY <1>3 DEF Siblings
  <2>2. found(e.type) \in SUBSET Nat
    BY DEF Siblings
  <2>3. ASSUME NEW j \in found(e.type) PROVE i <= j
    <3>1. /\ j \in 1 .. file_id - 1 /\ file_list[j].type = e.type
          /\ file_list[j].father = e.father /\ file_list[j].name = e.name
      BY <2>3 DEF Siblings
    <3>2. j \notin 1 .. i - 1
      BY <3>1 DEF Shadowed
    <3> QED
      BY <1>2, <1>3, <3>1, <3>2
  <2> HIDE DEF found
  <2> QED
    BY <2>1, <2>2, <2>3, FirstIs
<1>7. CASE e.type = "F_T_DIR"
  <2> SUFFICES ASSUME NEW rest \in {<<>>} \cup Names
               PROVE  fs_match_dir(e.father, e.name \o rest) = i
    BY <1>7
  <2>1. Plain(rest)
    <3>1. Plain(<<>>)
      BY DEF Plain
    <3> QED
      BY <3>1, Spelled
  <2>2. ASSUME NEW j \in Siblings("F_T_DIR", e.father)
        PROVE  ~strncmp(e.name \o rest, file_list[j].name, Len(file_list[j].name))
                 <=> file_list[j].name = e.name
    <3>1. Ended(e.name) /\ Ended(file_list[j].name)
      <4>1. j \in 1 .. file_id - 1 /\ file_list[j].type = "F_T_DIR"
        BY <2>2 DEF Siblings
      <4> QED
        BY <1>3, <1>4, <1>7, <4>1 DEF Fit
    <3>2. PICK s : s = e.name
      OBVIOUS
    <3>3. PICK t : t = file_list[j].name
      OBVIOUS
    <3>4. Same(s \o rest, t, Len(t)) <=> s = t
      BY <2>1, <3>1, <3>2, <3>3, PrefixSame
    <3> QED
      BY <3>2, <3>3, <3>4 DEF strncmp
  <2>3. fs_match_dir(e.father, e.name \o rest) = FirstMatch(found("F_T_DIR"))
    <3>1. {j \in Siblings("F_T_DIR", e.father) :
             ~strncmp(e.name \o rest, file_list[j].name, Len(file_list[j].name))}
            = found("F_T_DIR")
      BY <2>2
    <3> QED
      BY <3>1 DEF fs_match_dir
  <2> QED
    BY <1>6, <1>7, <2>3
<1>8. CASE e.type = "F_T_FILE"
  <2>1. ASSUME NEW j \in Siblings("F_T_FILE", e.father)
        PROVE  ~strcmp(e.name, file_list[j].name) <=> file_list[j].name = e.name
    <3>1. j \in 1 .. file_id - 1 /\ file_list[j].type = "F_T_FILE"
      BY <2>1 DEF Siblings
    <3>2. Plain(e.name) /\ Plain(file_list[j].name)
      BY <1>3, <1>4, <1>8, <3>1 DEF Fit
    <3> QED
      BY <3>2, CompareSame
  <2>2. fs_match_file(e.father, e.name) = FirstMatch(found("F_T_FILE"))
    <3>1. {j \in Siblings("F_T_FILE", e.father) : ~strcmp(e.name, file_list[j].name)}
            = found("F_T_FILE")
      BY <2>1
    <3> QED
      BY <3>1 DEF fs_match_file
  <2> QED
    BY <1>6, <1>8, <2>2
<1> QED
  BY <1>5, <1>7, <1>8

(* If names hold no slash, every entry is found by its path unless an      *)
(* older sibling of its kind has its name (file.c:81-110), whatever names  *)
(* begin with one another.                                                 *)
THEOREM PathSafety == ASSUME NamesOK PROVE FileSpec => []PathsResolve
<1>1. FileInit => NamedOK
  BY DEF FileInit, NamedOK, Named
<1>2. TableOK /\ NamedOK /\ [FileNext]_allVars => NamedOK'
  <2> SUFFICES ASSUME TableOK, NamedOK, [FileNext]_allVars PROVE NamedOK'
    OBVIOUS
  <2>1. CASE UNCHANGED files \/ UNCHANGED allVars
    BY <2>1 DEF allVars, files, table, NamedOK
  <2>2. CASE fs_added
    BY <2>2 DEF fs_added, table, NamedOK
  <2> QED
    BY <2>1, <2>2, InitTable, AddNamed DEF FileNext
<1>3. TableOK /\ NamedOK => PathsResolve
  BY Resolves
<1> QED
  BY <1>1, <1>2, <1>3, TableInvariance, PTL DEF FileSpec
=============================================================================
