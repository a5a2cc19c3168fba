-------------------------------- MODULE Timer --------------------------------
(***************************************************************************)
(* Ticks and sleep: timer_callback, init_timer, getTicks and sleep of      *)
(* trap.c, with the round robin of process.c that gives each thread one    *)
(* tick at a time.                                                         *)
(*                                                                         *)
(* sleep polls: a sleeping thread looks at `ticks' only while it has the   *)
(* CPU.  F1 and F2 run a test on top of whatever thread they interrupt,    *)
(* which stays buried until the user has typed the test's lines; F2's      *)
(* init_timer moreover sets the tick count back to zero under every        *)
(* sleeper.  The threads testProcess adds are the subject of Process; here *)
(* the run list has N of them throughout.                                  *)
(***************************************************************************)
EXTENDS Naturals, FiniteSets

CONSTANTS
  N,          \* threads on the run list
  Naps,       \* arguments of sleep (sleep(0) returns at once)
  Freqs,      \* arguments of init_timer
  TickMod,    \* 2^32, the range of ticks
  MaxPresses  \* bound: presses of F1 and F2

ASSUME TimerAssumption ==
  /\ N \in Nat \ {0} /\ Naps \subseteq Nat \ {0} /\ Freqs \subseteq Nat \ {0}
  /\ MaxPresses \in Nat /\ TickMod \in Nat \ {0}
  /\ \A t \in Naps : t + N <= TickMod

Threads == 1 .. N
PitHz   == 1193180
PitMod  == 65536       \* the divisor goes out as two bytes

VARIABLES
  ticks, divisor,         \* ticks, the PIT's divisor
  cur, looked,            \* thread on the CPU; it has run since the tick
  st, nap,                \* locals of sleep; nap = 0: not asleep
  buried,                 \* tests on top of each thread
  slept, disturbed,       \* history: ticks slept, until init_timer disturbs it
  delayed,                \* history: a test came on top of the sleeper
  woke,                   \* history: the last sleep that returned
  presses

pit     == <<divisor, presses>>
sleeper == <<st, nap, slept, disturbed, delayed, woke>>
vars    == <<ticks, pit, cur, looked, buried, sleeper>>

None == [nap |-> 0, slept |-> 0, disturbed |-> FALSE, delayed |-> FALSE]

(* init_timer(200) of the boot code; the run list is full.                 *)
Init ==
  /\ ticks = 0 /\ divisor = (PitHz \div 200) % PitMod
  /\ cur = 1 /\ looked = FALSE
  /\ st = [i \in Threads |-> 0] /\ nap = [i \in Threads |-> 0]
  /\ buried = [i \in Threads |-> 0]
  /\ slept = [i \in Threads |-> 0]
  /\ disturbed = [i \in Threads |-> FALSE] /\ delayed = [i \in Threads |-> FALSE]
  /\ woke = None /\ presses = 0

(* The history of ticks slept stops at TickMod, past every allowed value.  *)
Counted(i) == IF nap[i] = 0 \/ disturbed[i] THEN 0
              ELSE IF slept[i] < TickMod THEN slept[i] + 1 ELSE TickMod

(* Mutant of Ticked: the count saturates.                                  *)
Ticked_saturates == IF ticks = TickMod - 1 THEN ticks ELSE ticks + 1

Ticked == (ticks + 1) % TickMod

(* IRQ0: one more tick, and the next thread of the ring.  A tick is longer *)
(* than an iteration of sleep's loop, so the thread it preempts has looked.*)
timer_callback ==
  /\ looked
  /\ ticks' = Ticked
  /\ cur' = (cur % N) + 1
  /\ looked' = FALSE
  /\ slept' = [i \in Threads |-> Counted(i)]
  /\ UNCHANGED <<pit, buried, st, nap, disturbed, delayed, woke>>

(* A key that comes on top of the running thread: keyboard_handler, func   *)
(* and a test that enables interrupts again and waits in scanf.            *)
Bury ==
  /\ presses < MaxPresses
  /\ presses' = presses + 1
  /\ buried' = [buried EXCEPT ![cur] = @ + 1]
  /\ delayed' = [delayed EXCEPT ![cur] = nap[cur] # 0]

(* F2: testProcess begins with init_timer, interrupts off.                 *)
init_timer(f) ==
  /\ Bury
  /\ ticks' = 0
  /\ divisor' = (PitHz \div f) % PitMod
  /\ disturbed' = [i \in Threads |-> nap[i] # 0]
  /\ UNCHANGED <<cur, looked, st, nap, slept, woke>>

(* F1 leaves the timer alone.                                              *)
testMalloc ==
  /\ Bury
  /\ UNCHANGED <<ticks, divisor, cur, looked, st, nap, slept, disturbed, woke>>

(* scanf polls for the user's lines; once they are in, the test and the    *)
(* keyboard interrupt return.                                              *)
scanf ==
  /\ buried[cur] # 0 /\ ~looked
  /\ looked' = TRUE
  /\ UNCHANGED <<ticks, pit, cur, buried, sleeper>>

test_returns ==
  /\ buried[cur] # 0
  /\ buried' = [buried EXCEPT ![cur] = @ - 1]
  /\ UNCHANGED <<ticks, pit, cur, looked, sleeper>>

(* The running thread calls sleep, or does something else.                 *)
sleep(t) ==
  /\ buried[cur] = 0 /\ nap[cur] = 0
  /\ st' = [st EXCEPT ![cur] = ticks]
  /\ nap' = [nap EXCEPT ![cur] = t]
  /\ slept' = [slept EXCEPT ![cur] = 0]
  /\ disturbed' = [disturbed EXCEPT ![cur] = FALSE]
  /\ delayed' = [delayed EXCEPT ![cur] = FALSE]
  /\ UNCHANGED <<ticks, pit, cur, looked, buried, woke>>

Work ==
  /\ buried[cur] = 0 /\ nap[cur] = 0 /\ ~looked
  /\ looked' = TRUE
  /\ UNCHANGED <<ticks, pit, cur, buried, sleeper>>

(* Mutant of Elapsed: while (ticks < st + t), a deadline that may wrap.     *)
Elapsed_deadline(i) == IF ticks < (st[i] + nap[i]) % TickMod THEN 0 ELSE nap[i]

(* while (ticks - st < t): an unsigned difference, although st is an int.  *)
Elapsed(i) == (ticks + TickMod - st[i]) % TickMod

poll ==
  /\ buried[cur] = 0 /\ nap[cur] # 0
  /\ looked' = TRUE
  /\ IF Elapsed(cur) < nap[cur]
     THEN UNCHANGED <<nap, woke>>
     ELSE /\ nap' = [nap EXCEPT ![cur] = 0]
          /\ woke' = [nap |-> nap[cur], slept |-> slept[cur],
                      disturbed |-> disturbed[cur], delayed |-> delayed[cur]]
  /\ UNCHANGED <<ticks, pit, cur, st, buried, slept, disturbed, delayed>>

Next == \/ timer_callback \/ Work \/ poll \/ scanf \/ testMalloc \/ test_returns
        \/ \E f \in Freqs : init_timer(f)
        \/ \E t \in Naps : sleep(t)

Spec == Init /\ [][Next]_vars

(* The PIT keeps ticking and the CPU keeps executing.                      *)
FairSpec == Spec /\ WF_vars(timer_callback) /\ WF_vars(Work \/ poll \/ scanf)
-----------------------------------------------------------------------------
(***************************************************************************)
(* Properties.                                                             *)
(***************************************************************************)
TypeOK ==
  /\ ticks \in 0 .. TickMod - 1 /\ divisor \in 0 .. PitMod - 1
  /\ cur \in Threads /\ looked \in BOOLEAN
  /\ st \in [Threads -> 0 .. TickMod - 1] /\ nap \in [Threads -> Nat]
  /\ buried \in [Threads -> Nat]
  /\ slept \in [Threads -> Nat] /\ disturbed \in [Threads -> BOOLEAN]
  /\ delayed \in [Threads -> BOOLEAN]
  /\ woke \in [nap : Nat, slept : Nat, disturbed : BOOLEAN, delayed : BOOLEAN]
  /\ presses \in Nat

(* sleep(t) (trap.c:158-161) lasts at least t ticks, across the wrap of    *)
(* the tick count and however long a test lies on top of the sleeper, and  *)
(* less than one round of the run list longer if none did; unless          *)
(* init_timer ran meanwhile.                                               *)
OnTime == ~woke.disturbed =>
  /\ woke.slept >= woke.nap
  /\ woke.delayed \/ woke.slept < woke.nap + N

(* Every sleep ends, even one whose tick count was set back or that a test *)
(* of F1 or F2 kept from looking at it for more than the whole range of    *)
(* the count, unless a test stays on top of the sleeper for ever.          *)
SleepEnds == \A i \in Threads :
               []<>(buried[i] = 0) => (nap[i] # 0 ~> nap[i] = 0)
=============================================================================
