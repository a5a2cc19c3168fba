----------------------------- MODULE TimerProofs -----------------------------
(***************************************************************************)
(* Proofs about Timer, for any number of threads, any arguments of sleep   *)
(* and any range of the tick count.                                        *)
(***************************************************************************)
EXTENDS Timer, Integers, TLAPS

(* A sleep that init_timer has not disturbed.                              *)
Sound(i) == nap[i] # 0 /\ ~disturbed[i]

(* The ticks since thread i last had the CPU; N when it is about to look.  *)
Away(i) == IF cur = i THEN (IF looked THEN 0 ELSE N)
           ELSE IF cur > i THEN cur - i ELSE cur + N - i

(* The distance from st to ticks, across the wrap.                         *)
Dist(i) == IF ticks >= st[i] THEN ticks - st[i] ELSE ticks + TickMod - st[i]

(* The ticks slept are at least that distance: more of them only if a test *)
(* kept the sleeper from looking for a whole range of the count ...        *)
Asleep == \A i \in Threads : Sound(i) => slept[i] >= Dist(i)

(* ... and if none did, they are that distance, and the sleeper was still  *)
(* short of its time when it last looked.                                  *)
Prompt(i) == Sound(i) /\ ~delayed[i]

Looking == \A i \in Threads : Prompt(i) =>
  /\ buried[i] = 0
  /\ slept[i] = Dist(i)
  /\ slept[i] <= nap[i] - 1 + Away(i)

IInv == /\ TypeOK /\ (\A i \in Threads : nap[i] \in Naps \cup {0})
        /\ Asleep /\ Looking /\ OnTime

-----------------------------------------------------------------------------
(* Arithmetic of a wrapping counter.                                       *)
LEMMA ModFacts ==
  ASSUME NEW n \in Nat \ {0}, NEW a \in 0 .. n - 1
  PROVE  /\ a % n = a /\ (a + n) % n = a
         /\ (a + 1) % n = IF a = n - 1 THEN 0 ELSE a + 1
<1>1. a % n = a
  OBVIOUS
<1>2. (a + n) % n = a
  OBVIOUS
<1>3. CASE a = n - 1
  <2>1. (a + 1) % n = n % n
    BY <1>3
  <2>2. n % n = 0
    OBVIOUS
  <2> QED
    BY <1>1, <1>2, <1>3, <2>1, <2>2
<1>4. CASE a # n - 1
  BY <1>1, <1>2, <1>4
<1> QED
  BY <1>3, <1>4

(* The divisor that init_timer writes fits in two bytes.                   *)
LEMMA DivisorFits ==
  ASSUME NEW f \in Nat \ {0}
  PROVE  (PitHz \div f) % PitMod \in 0 .. PitMod - 1
<1>1. PitHz \in Nat /\ f \in Nat /\ f > 0
  BY DEF PitHz
<1>2. PitHz \div f \in Int
  BY <1>1
<1>3. PICK d \in Int : d = PitHz \div f
  BY <1>2
<1>4. \A m \in Nat \ {0} : d % m \in 0 .. m - 1
  OBVIOUS
<1>5. PitMod \in Nat \ {0}
  BY DEF PitMod
<1> QED
  BY <1>3, <1>4, <1>5

(* The sleeper's distance from st is what sleep's loop computes.           *)
LEMMA ElapsedFacts ==
  ASSUME IInv, NEW i \in Threads, Sound(i)
  PROVE  Elapsed(i) = Dist(i) /\ Dist(i) \in 0 .. TickMod - 1
<1>1. ticks \in 0 .. TickMod - 1 /\ st[i] \in 0 .. TickMod - 1 /\ TickMod \in Nat \ {0}
  BY TimerAssumption DEF IInv, TypeOK
<1>2. CASE ticks >= st[i]
  <2>1. PICK a \in 0 .. TickMod - 1 : a = ticks - st[i]
    BY <1>1, <1>2
  <2>2. ticks + TickMod - st[i] = a + TickMod
    BY <1>1, <2>1
  <2> QED
    BY <1>1, <1>2, <2>1, <2>2, ModFacts DEF Elapsed, Dist
<1>3. CASE ~(ticks >= st[i])
  <2>1. PICK a \in 0 .. TickMod - 1 : a = ticks + TickMod - st[i]
    BY <1>1, <1>3
  <2> QED
    BY <1>1, <1>3, <2>1, ModFacts DEF Elapsed, Dist
<1> QED
  BY <1>2, <1>3

-----------------------------------------------------------------------------
(* The state at first: nobody sleeps.                                      *)
LEMMA InitInv == Init => IInv
<1> SUFFICES ASSUME Init PROVE IInv
  OBVIOUS
<1>1. TypeOK
  <2>1. 0 \in 0 .. TickMod - 1 /\ 1 \in Threads
    BY TimerAssumption DEF Threads
  <2>2. (PitHz \div 200) % PitMod \in 0 .. PitMod - 1
    BY DivisorFits
  <2>3. woke \in [nap : Nat, slept : Nat, disturbed : BOOLEAN, delayed : BOOLEAN]
    BY DEF Init, None
  <2> QED
    BY <2>1, <2>2, <2>3 DEF Init, TypeOK
<1>2. (\A i \in Threads : nap[i] \in Naps \cup {0}) /\ Asleep /\ Looking
  BY DEF Init, Asleep, Looking, Prompt, Sound
<1>3. OnTime
  BY TimerAssumption DEF Init, OnTime, None
<1> QED
  BY <1>1, <1>2, <1>3 DEF IInv

(* A tick takes the CPU from a sleeper that has looked, and brings the     *)
(* others one thread nearer to it.                                         *)
LEMMA TickStep ==
  ASSUME IInv, timer_callback
  PROVE  IInv'
<1>t. TypeOK /\ Asleep /\ Looking /\ N \in Nat \ {0} /\ TickMod \in Nat \ {0}
  BY TimerAssumption DEF IInv
<1>1. /\ looked /\ ticks' = (ticks + 1) % TickMod /\ cur' = (cur % N) + 1 /\ looked' = FALSE
      /\ slept' = [i \in Threads |-> Counted(i)]
      /\ UNCHANGED <<divisor, presses, buried, st, nap, disturbed, delayed, woke>>
  BY DEF timer_callback, pit, Ticked
<1>2. ticks' = (IF ticks = TickMod - 1 THEN 0 ELSE ticks + 1) /\ ticks' \in 0 .. TickMod - 1
  <2>1. ticks \in 0 .. TickMod - 1
    BY <1>t DEF TypeOK
  <2>2. ticks' = IF ticks = TickMod - 1 THEN 0 ELSE ticks + 1
    BY <1>t, <1>1, <2>1, ModFacts
  <2> QED
    BY <1>t, <2>1, <2>2
<1>3. cur \in 1 .. N /\ cur' = (IF cur = N THEN 1 ELSE cur + 1) /\ cur' \in 1 .. N
  <2>1. cur \in 1 .. N
    BY <1>t DEF TypeOK, Threads
  <2>2. cur % N = IF cur = N THEN 0 ELSE cur
    <3>1. CASE cur = N
      <4>1. N % N = 0
        BY <1>t
      <4> QED
        BY <3>1, <4>1
    <3>2. CASE cur # N
      BY <1>t, <2>1, <3>2
    <3> QED
      BY <3>1, <3>2
  <2>3. cur' = IF cur = N THEN 1 ELSE cur + 1
    BY <1>1, <2>1, <2>2
  <2> QED
    BY <1>t, <2>1, <2>3
<1>4. \A i \in Threads : Counted(i) \in Nat
  BY <1>t DEF TypeOK, Counted
<1>5. TypeOK'
  BY <1>t, <1>1, <1>2, <1>3, <1>4 DEF TypeOK, Threads
<1>a. Asleep'
  <2> SUFFICES ASSUME NEW i \in Threads, Sound(i)' PROVE (slept[i] >= Dist(i))'
    BY DEF Asleep
  <2>1. Sound(i) /\ st'[i] = st[i] /\ slept[i] >= Dist(i)
    BY <1>t, <1>1 DEF Sound, Asleep
  <2>2. slept[i] \in Nat /\ st[i] \in 0 .. TickMod - 1 /\ ticks \in 0 .. TickMod - 1
    BY <1>t DEF TypeOK
  <2>3. slept'[i] = IF slept[i] < TickMod THEN slept[i] + 1 ELSE TickMod
    BY <1>1, <2>1 DEF Counted, Sound
  <2> QED
    BY <1>t, <1>2, <2>1, <2>2, <2>3 DEF Dist
<1>6. Looking'
  <2> SUFFICES ASSUME NEW i \in Threads, Prompt(i)'
               PROVE  /\ (buried[i] = 0)'
                      /\ slept[i]' = Dist(i)'
                      /\ slept[i]' <= nap[i]' - 1 + Away(i)'
    BY DEF Looking
  <2>1. Sound(i) /\ buried[i] = 0 /\ slept[i] <= nap[i] - 1 + Away(i) /\ st'[i] = st[i]
        /\ slept[i] = Dist(i)
    BY <1>t, <1>1 DEF Prompt, Sound, Looking
  <2>2. /\ slept[i] \in Nat /\ nap[i] \in Nat \ {0} /\ nap[i] + N <= TickMod
        /\ i \in 1 .. N /\ st[i] \in 0 .. TickMod - 1 /\ ticks \in 0 .. TickMod - 1
    BY <2>1, TimerAssumption DEF IInv, TypeOK, Threads, Sound
  <2>3. Away(i)' = Away(i) + 1 /\ Away(i)' <= N /\ Away(i) \in Nat
    BY <1>t, <1>1, <1>3, <2>2 DEF Away
  <2>4. slept[i] + 1 < TickMod
    BY <1>t, <2>1, <2>2, <2>3
  <2>5. slept'[i] = slept[i] + 1
    <3>1. slept[i] < TickMod
      BY <1>t, <2>2, <2>4
    <3>2. Counted(i) = slept[i] + 1
      BY <2>1, <3>1 DEF Counted, Sound
    <3> QED
      BY <1>1, <3>2
  <2>6. slept'[i] = Dist(i)'
    BY <1>t, <1>2, <2>1, <2>2, <2>4, <2>5 DEF Dist
  <2>7. slept'[i] <= nap[i] - 1 + Away(i)'
    BY <1>t, <2>1, <2>2, <2>3, <2>5
  <2> QED
    BY <1>1, <2>1, <2>6, <2>7
<1>7. OnTime' /\ \A i \in Threads : nap'[i] \in Naps \cup {0}
  BY <1>1 DEF OnTime, IInv
<1> QED
  BY <1>5, <1>a, <1>6, <1>7 DEF IInv

(* What a key that buries the running thread changes.                      *)
LEMMA Buried ==
  ASSUME TypeOK, Bury
  PROVE  /\ buried' \in [Threads -> Nat] /\ delayed' \in [Threads -> BOOLEAN]
         /\ presses' \in Nat
<1>1. buried' \in [Threads -> Nat] /\ presses' \in Nat
  BY DEF TypeOK, Bury
<1>2. (nap[cur] # 0) \in BOOLEAN /\ delayed \in [Threads -> BOOLEAN]
  BY DEF TypeOK
<1>3. delayed' \in [Threads -> BOOLEAN]
  BY <1>2, Zenon DEF Bury
<1> QED
  BY <1>1, <1>3

(* init_timer disturbs every sleep.                                        *)
LEMMA ResetStep ==
  ASSUME IInv, NEW f \in Freqs, init_timer(f)
  PROVE  IInv'
<1>1. /\ ticks' = 0 /\ divisor' = (PitHz \div f) % PitMod
      /\ disturbed' = [i \in Threads |-> nap[i] # 0]
      /\ UNCHANGED <<cur, looked, st, nap, slept, woke>>
  BY DEF init_timer
<1>2. 0 \in 0 .. TickMod - 1 /\ divisor' \in 0 .. PitMod - 1
  BY <1>1, DivisorFits, TimerAssumption
<1>3. /\ buried' \in [Threads -> Nat] /\ delayed' \in [Threads -> BOOLEAN]
      /\ presses' \in Nat
  BY Buried DEF init_timer, IInv
<1>4. TypeOK'
  BY <1>1, <1>2, <1>3 DEF IInv, TypeOK
<1>5. Asleep' /\ Looking'
  BY <1>1 DEF Asleep, Looking, Prompt, Sound
<1>6. OnTime' /\ \A i \in Threads : nap'[i] \in Naps \cup {0}
  BY <1>1 DEF OnTime, IInv
<1> QED
  BY <1>4, <1>5, <1>6 DEF IInv

(* A test of F1 on top of a sleeper delays it.                             *)
LEMMA TestStep ==
  ASSUME IInv, testMalloc
  PROVE  IInv'
<1>1. /\ buried' = [buried EXCEPT ![cur] = @ + 1]
      /\ delayed' = [delayed EXCEPT ![cur] = nap[cur] # 0]
      /\ UNCHANGED <<ticks, divisor, cur, looked, st, nap, slept, disturbed, woke>>
  BY DEF testMalloc, Bury
<1>2. /\ buried' \in [Threads -> Nat] /\ delayed' \in [Threads -> BOOLEAN]
      /\ presses' \in Nat
  BY Buried DEF testMalloc, IInv
<1>3. TypeOK' /\ OnTime' /\ \A i \in Threads : nap'[i] \in Naps \cup {0}
  BY <1>1, <1>2 DEF IInv, TypeOK, OnTime
<1>4. \A i \in Threads : Sound(i)' = Sound(i) /\ Dist(i)' = Dist(i) /\ Away(i)' = Away(i)
  BY <1>1 DEF Sound, Dist, Away
<1>5. Asleep'
  BY <1>1, <1>4 DEF IInv, Asleep
<1>6. Looking'
  <2> SUFFICES ASSUME NEW i \in Threads, Prompt(i)'
               PROVE  /\ buried'[i] = 0
                      /\ slept'[i] = Dist(i)'
                      /\ slept'[i] <= nap'[i] - 1 + Away(i)'
    BY DEF Looking
  <2>1. i # cur /\ delayed'[i] = delayed[i] /\ buried'[i] = buried[i]
    <3>1. Sound(i) /\ ~delayed'[i] /\ nap[i] # 0
      BY <1>4 DEF Prompt, Sound
    <3>2. i # cur
      BY <1>1, <3>1 DEF IInv, TypeOK
    <3> QED
      BY <1>1, <3>2 DEF IInv, TypeOK
  <2>2. Prompt(i)
    BY <1>4, <2>1 DEF Prompt
  <2> QED
    BY <1>1, <1>4, <2>1, <2>2 DEF IInv, Looking
<1> QED
  BY <1>3, <1>5, <1>6 DEF IInv

(* A thread that falls asleep has slept for no tick.                       *)
LEMMA SleepStep ==
  ASSUME IInv, NEW t \in Naps, sleep(t)
  PROVE  IInv'
<1>1. /\ buried[cur] = 0 /\ nap[cur] = 0
      /\ st' = [st EXCEPT ![cur] = ticks] /\ nap' = [nap EXCEPT ![cur] = t]
      /\ slept' = [slept EXCEPT ![cur] = 0] /\ disturbed' = [disturbed EXCEPT ![cur] = FALSE]
      /\ delayed' = [delayed EXCEPT ![cur] = FALSE]
      /\ UNCHANGED <<ticks, divisor, presses, cur, looked, buried, woke>>
  BY DEF sleep, pit
<1>t. /\ TypeOK /\ t \in Nat \ {0} /\ N \in Nat \ {0} /\ cur \in Threads
      /\ ticks \in 0 .. TickMod - 1 /\ TickMod \in Nat
  BY TimerAssumption DEF IInv, TypeOK
<1>2. TypeOK'
  BY <1>1, <1>t DEF TypeOK
<1>a. Asleep'
  <2> SUFFICES ASSUME NEW i \in Threads, Sound(i)' PROVE slept'[i] >= Dist(i)'
    BY DEF Asleep
  <2>1. CASE i = cur
    <3>1. slept'[i] = 0 /\ st'[i] = ticks /\ ticks' = ticks
      BY <1>1, <1>t, <2>1 DEF TypeOK
    <3> QED
      BY <1>t, <3>1 DEF Dist
  <2>2. CASE i # cur
    <3>1. /\ slept'[i] = slept[i] /\ nap'[i] = nap[i] /\ disturbed'[i] = disturbed[i]
          /\ Dist(i)' = Dist(i)
      BY <1>1, <1>t, <2>2 DEF TypeOK, Dist
    <3> QED
      BY <3>1 DEF IInv, Asleep, Sound
  <2> QED
    BY <2>1, <2>2
<1>3. Looking'
  <2> SUFFICES ASSUME NEW i \in Threads, Prompt(i)'
               PROVE  /\ buried'[i] = 0
                      /\ slept'[i] = Dist(i)'
                      /\ slept'[i] <= nap'[i] - 1 + Away(i)'
    BY DEF Looking
  <2>1. CASE i = cur
    <3>1. buried'[i] = 0 /\ slept'[i] = 0 /\ st'[i] = ticks /\ nap'[i] = t /\ ticks' = ticks
      BY <1>1, <1>t, <2>1 DEF TypeOK
    <3>2. Away(i)' \in Nat
      BY <1>1, <1>t, <2>1 DEF Away
    <3>3. Dist(i)' = 0
      BY <1>t, <3>1 DEF Dist
    <3> QED
      BY <1>t, <3>1, <3>2, <3>3
  <2>2. CASE i # cur
    <3>1. /\ slept'[i] = slept[i] /\ st'[i] = st[i] /\ nap'[i] = nap[i] /\ ticks' = ticks
          /\ disturbed'[i] = disturbed[i] /\ buried'[i] = buried[i] /\ Away(i)' = Away(i)
          /\ Dist(i)' = Dist(i) /\ delayed'[i] = delayed[i]
      BY <1>1, <1>t, <2>2 DEF TypeOK, Away, Dist
    <3>2. Prompt(i)
      BY <3>1 DEF Prompt, Sound
    <3> QED
      BY <3>1, <3>2 DEF IInv, Looking
  <2> QED
    BY <2>1, <2>2
<1>4. OnTime' /\ \A i \in Threads : nap'[i] \in Naps \cup {0}
  BY <1>1, <1>t DEF OnTime, IInv, TypeOK
<1> QED
  BY <1>2, <1>a, <1>3, <1>4 DEF IInv

(* Code that looks, or returns from a test, changes no sleep.              *)
LEMMA LookStep ==
  ASSUME IInv, UNCHANGED <<ticks, pit, cur, sleeper>>, buried' \in [Threads -> Nat],
         looked' \in BOOLEAN, looked' # looked => ~Prompt(cur),
         \A i \in Threads : buried[i] = 0 => buried'[i] = 0
  PROVE  IInv'
<1>1. UNCHANGED <<ticks, divisor, presses, cur, st, nap, slept, disturbed, delayed, woke>>
  BY DEF pit, sleeper
<1>2. TypeOK' /\ OnTime' /\ \A i \in Threads : nap'[i] \in Naps \cup {0}
  BY <1>1 DEF IInv, TypeOK, OnTime
<1>3. ASSUME NEW i \in Threads, Prompt(i) PROVE Away(i)' = Away(i) /\ Dist(i)' = Dist(i)
  BY <1>1, <1>3 DEF Away, Prompt, Sound, Dist
<1>4. Asleep'
  BY <1>1 DEF Asleep, Sound, Dist, IInv
<1>5. Looking'
  BY <1>1, <1>3 DEF Looking, Prompt, Sound, IInv
<1> QED
  BY <1>2, <1>4, <1>5 DEF IInv

(* A sleeper that looks goes on only while it is short of its time.        *)
LEMMA PollStep ==
  ASSUME IInv, poll
  PROVE  IInv'
<1>1. /\ nap[cur] # 0 /\ looked' = TRUE
      /\ UNCHANGED <<ticks, divisor, presses, cur, st, buried, slept, disturbed, delayed>>
  BY DEF poll, pit
<1>t. TypeOK /\ cur \in Threads /\ N \in Nat \ {0} /\ cur \in 1 .. N /\ nap[cur] \in Nat
      /\ slept[cur] \in Nat
  BY TimerAssumption DEF IInv, TypeOK, Threads
<1>2. CASE Elapsed(cur) < nap[cur] /\ UNCHANGED <<nap, woke>>
  <2>1. TypeOK' /\ OnTime' /\ \A i \in Threads : nap'[i] \in Naps \cup {0}
    BY <1>1, <1>2 DEF IInv, TypeOK, OnTime
  <2>a. Asleep'
    BY <1>1, <1>2 DEF Asleep, IInv, Sound, Dist
  <2>2. Looking'
    <3> SUFFICES ASSUME NEW i \in Threads, Prompt(i) PROVE slept[i] <= nap[i] - 1 + Away(i)'
      BY <1>1, <1>2 DEF Looking, IInv, Prompt, Sound, Dist
    <3>1. CASE i # cur
      <4>1. Away(i)' = Away(i)
        BY <1>1, <3>1 DEF Away
      <4> QED
        BY <4>1 DEF IInv, Looking
    <3>2. CASE i = cur
      <4>1. slept[i] < nap[i] /\ Away(i)' = 0
        BY <1>1, <1>2, <3>2, ElapsedFacts DEF Away, IInv, Looking, Prompt
      <4> QED
        BY <1>t, <3>2, <4>1
    <3> QED
      BY <3>1, <3>2
  <2> QED
    BY <2>1, <2>a, <2>2 DEF IInv
<1>3. CASE /\ ~(Elapsed(cur) < nap[cur]) /\ nap' = [nap EXCEPT ![cur] = 0]
           /\ woke' = [nap |-> nap[cur], slept |-> slept[cur], disturbed |-> disturbed[cur],
                        delayed |-> delayed[cur]]
  <2>1. TypeOK'
    <3>1. woke' \in [nap : Nat, slept : Nat, disturbed : BOOLEAN, delayed : BOOLEAN]
      BY <1>3, <1>t DEF TypeOK
    <3> QED
      BY <1>1, <1>3, <1>t, <3>1 DEF TypeOK
  <2>2. \A i \in Threads : nap'[i] \in Naps \cup {0}
    BY <1>3, <1>t DEF IInv, TypeOK
  <2>a. Asleep'
    <3> SUFFICES ASSUME NEW i \in Threads, Sound(i)' PROVE slept'[i] >= Dist(i)'
      BY DEF Asleep
    <3>1. Sound(i)
      BY <1>1, <1>3, <1>t DEF Sound, TypeOK
    <3> QED
      BY <1>1, <3>1 DEF IInv, Asleep, Dist
  <2>3. Looking'
    <3> SUFFICES ASSUME NEW i \in Threads, Prompt(i)'
                 PROVE  /\ buried'[i] = 0
                        /\ slept'[i] = Dist(i)'
                        /\ slept'[i] <= nap'[i] - 1 + Away(i)'
      BY DEF Looking
    <3>1. i # cur /\ Prompt(i) /\ nap'[i] = nap[i]
      BY <1>1, <1>3, <1>t DEF Prompt, Sound, TypeOK
    <3>2. Away(i)' = Away(i) /\ Dist(i)' = Dist(i)
      BY <1>1, <3>1 DEF Away, Dist
    <3> QED
      BY <1>1, <3>1, <3>2 DEF IInv, Looking
  <2>4. OnTime'
    <3> SUFFICES ASSUME ~disturbed[cur]
                 PROVE  slept[cur] >= nap[cur] /\ (delayed[cur] \/ slept[cur] < nap[cur] + N)
      BY <1>3 DEF OnTime
    <3>1. Sound(cur)
      BY <1>1 DEF Sound
    <3>2. slept[cur] >= Dist(cur) /\ ~(Dist(cur) < nap[cur]) /\ Dist(cur) \in Int
      BY <1>3, <1>t, <3>1, ElapsedFacts, TimerAssumption DEF IInv, Asleep
    <3>3. slept[cur] >= nap[cur]
      BY <1>t, <3>2
    <3>4. ASSUME ~delayed[cur] PROVE slept[cur] < nap[cur] + N
      <4>1. Away(cur) <= N /\ Away(cur) \in Nat /\ slept[cur] <= nap[cur] - 1 + Away(cur)
        BY <1>t, <3>1, <3>4 DEF Away, IInv, Looking, Prompt
      <4> QED
        BY <1>t, <4>1
    <3> QED
      BY <3>3, <3>4
  <2> QED
    BY <2>1, <2>2, <2>a, <2>3, <2>4 DEF IInv
<1> QED
  BY <1>2, <1>3 DEF poll

(* Every step keeps IInv.                                                  *)
LEMMA StepInv == IInv /\ [Next]_vars => IInv'
<1> SUFFICES ASSUME IInv, [Next]_vars PROVE IInv'
  OBVIOUS
<1>t. TypeOK /\ cur \in Threads /\ buried \in [Threads -> Nat] /\ looked \in BOOLEAN
  BY DEF IInv, TypeOK
<1>1. CASE UNCHANGED vars
  BY <1>1, <1>t, LookStep DEF vars
<1>2. CASE timer_callback
  BY <1>2, TickStep
<1>3. CASE Work
  BY <1>3, <1>t, LookStep DEF Work, Prompt, Sound
<1>4. CASE poll
  BY <1>4, PollStep
<1>5. CASE scanf
  <2>1. ~Prompt(cur)
    BY <1>5, <1>t DEF scanf, IInv, Looking
  <2> QED
    BY <1>5, <1>t, <2>1, LookStep DEF scanf
<1>9. CASE testMalloc
  BY <1>9, TestStep
<1>6. CASE test_returns
  <2>1. buried' \in [Threads -> Nat]
    BY <1>6, <1>t DEF test_returns
  <2>2. \A i \in Threads : buried[i] = 0 => buried'[i] = 0
    BY <1>6, <1>t DEF test_returns
  <2> QED
    BY <1>6, <1>t, <2>1, <2>2, LookStep DEF test_returns
<1>7. ASSUME NEW f \in Freqs, init_timer(f) PROVE IInv'
  BY <1>7, ResetStep
<1>8. ASSUME NEW t \in Naps, sleep(t) PROVE IInv'
  BY <1>8, SleepStep
<1> QED
  BY <1>1, <1>2, <1>3, <1>4, <1>5, <1>6, <1>7, <1>8, <1>9 DEF Next

(* IInv holds in every state.                                              *)
THEOREM Invariance == Spec => []IInv
BY InitInv, StepInv, PTL DEF Spec

(* sleep(t) (trap.c:158-161) lasts at least t ticks, however long a test   *)
(* of F1 or F2 keeps the sleeper from looking, and less than one round of  *)
(* the run list more if none does; for any number of threads, any t that   *)
(* leaves a round of the count free and wherever the count wraps, unless   *)
(* init_timer ran.                                                         *)
THEOREM SleepSafety == Spec => []OnTime
<1>1. IInv => OnTime
  BY DEF IInv
<1> QED
  BY <1>1, Invariance, PTL
=============================================================================
