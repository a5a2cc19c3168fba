--------------------------- MODULE MonitorProofs ---------------------------
(***************************************************************************)
(* Proofs about Monitor, for any number of writers, any messages that fit  *)
(* the static buffers, and any size of the screen.                         *)
(***************************************************************************)
EXTENDS Monitor, WellFoundedInduction, TLAPS

(* Places in monitor_putc_color before its move_cursor, and in             *)
(* monitor_clear.                                                          *)
OwesX  == {"wrap", "zero"}
OwesY  == {"wrap", "zero", "row", "down", "scroll", "shift", "last"}
Placing == {"putc", "back", "column", "cell", "next", "store", "line", "feed"} \cup OwesY
Homing == {"home", "top"}
Labels == {"idle", "format", "write", "cursor"} \cup Placing \cup Homing

Typed ==
  /\ DOMAIN buff = Fns /\ \A f \in Fns : DOMAIN buff[f] = Slots
  /\ cursor_x \in Nat /\ cursor_y \in Nat /\ reg \in [Writers -> Int]
  /\ pc \in [Writers -> Labels]
  /\ DOMAIN fn = Writers /\ DOMAIN text = Writers /\ DOMAIN ch = Writers
  /\ k \in [Writers -> Nat]
  /\ \A w \in Writers :
       /\ pc[w] \in {"format", "write"} \cup Placing
            \/ (pc[w] = "cursor" /\ fn[w] # "monitor_clear") => fn[w] \in Fns
       /\ pc[w] \in Homing => fn[w] = "monitor_clear"

(* The last byte of a static buffer is never written: texts are shorter.   *)
Terminated ==
  /\ \A f \in Fns : buff[f][BufSize - 1] = NUL
  /\ \A w \in Writers : pc[w] = "format" =>
       /\ Len(text[w]) \in 0 .. BufSize - 1 /\ k[w] <= Len(text[w])

(* A column or a row that is not on the screen is owed by a writer that    *)
(* will still test it.                                                     *)
Owed ==
  /\ cursor_x >= COLS => \E w \in Writers : pc[w] \in OwesX
  /\ cursor_y >= ROWS => \E w \in Writers : pc[w] \in OwesY

IInv == Typed /\ Terminated /\ ReadsInside /\ Owed

-----------------------------------------------------------------------------
(* Rows and columns.                                                       *)
LEMMA Rows ==
  /\ COLS \in Nat \ {0} /\ ROWS \in Nat \ {0} /\ TAB \in Nat \ {0} /\ BufSize \in Nat \ {0}
  /\ ByteMod \in Nat \ {0} /\ COLS < ByteMod /\ ROWS < ByteMod
  /\ Slots = 0 .. BufSize - 1 /\ Size = ROWS * COLS
BY MonitorAssumption DEF Slots, Size

(* What fits a byte is stored as it is.                                    *)
LEMMA Bytes ==
  /\ \A v \in Int : v % ByteMod \in Nat
  /\ \A v \in 0 .. ByteMod - 1 : v % ByteMod = v
  /\ \A v \in 0 .. COLS : v % ByteMod = v
  /\ \A v \in 0 .. ROWS : v % ByteMod = v
<1>1. PICK b \in Nat \ {0} : b = ByteMod
  BY Rows
<1>2. \A v \in Int : v % b \in Nat
  OBVIOUS
<1>3. \A v \in 0 .. b - 1 : v % b = v
  OBVIOUS
<1> QED
  BY <1>1, <1>2, <1>3, Rows

(* n rows and one more.                                                    *)
LEMMA Times ==
  ASSUME NEW c \in Nat
  PROVE  /\ \A n \in Nat : n * c \in Nat /\ (n + 1) * c = n * c + c
         /\ \A m, n \in Nat : m <= n => m * c <= n * c
<1>1. \A n \in Nat : n * c \in Nat /\ (n + 1) * c = n * c + c
  OBVIOUS
<1>2. ASSUME NEW m \in Nat, NEW n \in Nat, m <= n PROVE m * c <= n * c
  <2>1. PICK d \in Nat : n = m + d
    BY <1>2
  <2>2. (m + d) * c = m * c + d * c /\ d * c \in Nat /\ m * c \in Nat
    OBVIOUS
  <2> QED
    BY <2>1, <2>2
<1> QED
  BY <1>1, <1>2

(* The writer w goes on to l.                                              *)
LEMMA Moves ==
  ASSUME Typed, NEW w \in Writers, NEW l \in Labels, pc' = [pc EXCEPT ![w] = l]
  PROVE  /\ pc' \in [Writers -> Labels] /\ pc'[w] = l
         /\ \A v \in Writers \ {w} : pc'[v] = pc[v]
<1>1. pc \in [Writers -> Labels]
  BY DEF Typed
<1> QED
  BY <1>1

-----------------------------------------------------------------------------
(* What the steps keep.                                                    *)
USE DEF At, Goto, cursor, screen

(* Only a writer that is done with its test of x leaves OwesX, and only    *)
(* one that is done with its test of y leaves OwesY.                       *)
LEMMA Owed_step ==
  ASSUME Typed, Owed, NEW w \in Writers, NEW l \in Labels, NEW m \in Labels,
         pc[w] = l, pc' = [pc EXCEPT ![w] = m], cursor_x' \in Nat, cursor_y' \in Nat,
         cursor_x' < COLS \/ m \in OwesX \/ (cursor_x' = cursor_x /\ l \notin OwesX),
         cursor_y' < ROWS \/ m \in OwesY \/ (cursor_y' = cursor_y /\ l \notin OwesY)
  PROVE  Owed'
<1>0. COLS \in Nat /\ ROWS \in Nat
  BY Rows
<1>1. pc'[w] = m /\ \A v \in Writers \ {w} : pc'[v] = pc[v]
  BY Moves
<1>2. ASSUME cursor_x' >= COLS PROVE \E v \in Writers : pc'[v] \in OwesX
  <2>1. CASE m \in OwesX
    BY <1>1, <2>1
  <2>2. CASE m \notin OwesX
    <3>1. cursor_x' = cursor_x /\ l \notin OwesX
      BY <1>0, <1>2, <2>2
    <3>2. PICK v \in Writers : pc[v] \in OwesX
      BY <1>2, <3>1 DEF Owed
    <3> QED
      BY <1>1, <3>1, <3>2
  <2> QED
    BY <2>1, <2>2
<1>3. ASSUME cursor_y' >= ROWS PROVE \E v \in Writers : pc'[v] \in OwesY
  <2>1. CASE m \in OwesY
    BY <1>1, <2>1
  <2>2. CASE m \notin OwesY
    <3>1. cursor_y' = cursor_y /\ l \notin OwesY
      BY <1>0, <1>3, <2>2
    <3>2. PICK v \in Writers : pc[v] \in OwesY
      BY <1>3, <3>1 DEF Owed
    <3> QED
      BY <1>1, <3>1, <3>2
  <2> QED
    BY <2>1, <2>2
<1> QED
  BY <1>2, <1>3 DEF Owed

(* A step of w that leaves the buffers, and nobody else's place, alone.    *)
LEMMA Keeps_caller ==
  ASSUME IInv, NEW w \in Writers, NEW l \in Labels \ {"format"}, pc' = [pc EXCEPT ![w] = l],
         buff' = buff, cursor_x' \in Nat, cursor_y' \in Nat, reg' \in [Writers -> Int],
         DOMAIN fn' = Writers, DOMAIN text' = Writers, DOMAIN ch' = Writers,
         k' \in [Writers -> Nat], k'[w] \in Slots,
         \A v \in Writers \ {w} : fn'[v] = fn[v] /\ text'[v] = text[v] /\ k'[v] = k[v],
         l \in {"write"} \cup Placing \/ (l = "cursor" /\ fn'[w] # "monitor_clear") => fn'[w] \in Fns,
         l \in Homing => fn'[w] = "monitor_clear"
  PROVE  Typed' /\ Terminated' /\ ReadsInside'
<1>0. Typed /\ Terminated /\ ReadsInside
  BY DEF IInv
<1>1. pc' \in [Writers -> Labels] /\ pc'[w] = l /\ \A v \in Writers \ {w} : pc'[v] = pc[v]
  BY <1>0, Moves
<1>2. Typed'
  <2>0. \A v \in Writers : pc'[v] \in Homing => fn'[v] = "monitor_clear"
    BY <1>0, <1>1 DEF Typed
  <2>1. \A v \in Writers :
          pc'[v] \in {"format", "write"} \cup Placing
            \/ (pc'[v] = "cursor" /\ fn'[v] # "monitor_clear") => fn'[v] \in Fns
    <3> SUFFICES ASSUME NEW v \in Writers,
                        pc'[v] \in {"format", "write"} \cup Placing
                          \/ (pc'[v] = "cursor" /\ fn'[v] # "monitor_clear")
                 PROVE  fn'[v] \in Fns
      OBVIOUS
    <3>1. CASE v = w
      BY <1>1, <3>1
    <3>2. CASE v # w
      BY <1>0, <1>1, <3>2 DEF Typed
    <3> QED
      BY <3>1, <3>2
  <2> QED
    BY <1>0, <1>1, <2>0, <2>1 DEF Typed
<1>3. Terminated'
  BY <1>0, <1>1 DEF Terminated
<1>4. ReadsInside'
  BY <1>0 DEF ReadsInside
<1> QED
  BY <1>2, <1>3, <1>4

(* A call begins: printf and printf_color with a text that fits.           *)
LEMMA Keeps_printf ==
  ASSUME IInv, NEW w \in Writers, NEW m \in Messages, printf(w, m)
  PROVE  IInv'
<1>0. Typed /\ Owed /\ Terminated /\ ReadsInside
  BY DEF IInv
<1>1. /\ pc[w] = "idle" /\ pc' = [pc EXCEPT ![w] = "format"]
      /\ fn' = [fn EXCEPT ![w] = m.fn] /\ text' = [text EXCEPT ![w] = vsprintf(m.format)]
      /\ k' = [k EXCEPT ![w] = 0] /\ UNCHANGED <<buff, cursor_x, cursor_y, ch, reg>>
  BY DEF printf
<1>2. m.fn \in Fns /\ Len(vsprintf(m.format)) \in 0 .. BufSize - 1
  BY MonitorAssumption, Rows DEF Texts
<1>3. /\ pc' \in [Writers -> Labels] /\ pc'[w] = "format" /\ \A v \in Writers \ {w} : pc'[v] = pc[v]
  BY <1>0, <1>1, Moves DEF Labels
<1>4. /\ fn'[w] = m.fn /\ text'[w] = vsprintf(m.format) /\ k'[w] = 0 /\ k' \in [Writers -> Nat]
      /\ \A v \in Writers \ {w} : fn'[v] = fn[v] /\ text'[v] = text[v] /\ k'[v] = k[v]
      /\ DOMAIN fn' = Writers /\ DOMAIN text' = Writers
  BY <1>0, <1>1 DEF Typed
<1>5. Typed'
  BY <1>0, <1>1, <1>2, <1>3, <1>4 DEF Typed, Homing
<1>6. Terminated'
  BY <1>0, <1>1, <1>2, <1>3, <1>4 DEF Terminated
<1>7. ReadsInside'
  BY <1>0, <1>4, Rows DEF ReadsInside
<1>8. Owed'
  <2>1. "idle" \notin OwesX /\ "idle" \notin OwesY /\ {"idle", "format"} \subseteq Labels
    BY DEF OwesX, OwesY, Labels
  <2>2. cursor_x \in Nat /\ cursor_y \in Nat
    BY <1>0 DEF Typed
  <2> QED
    BY <1>0, <1>1, <2>1, <2>2, Owed_step
<1> QED
  BY <1>5, <1>6, <1>7, <1>8 DEF IInv

(* vsprintf stores a character, never in the last byte, or the terminator. *)
LEMMA Keeps_format ==
  ASSUME IInv, NEW w \in Writers, format(w)
  PROVE  IInv'
<1>0. Typed /\ Owed /\ Terminated /\ ReadsInside
  BY DEF IInv
<1>1. pc[w] = "format" /\ UNCHANGED <<cursor_x, cursor_y, fn, text, ch, reg>>
  BY DEF format
<1>2. fn[w] \in Fns /\ k[w] \in Slots /\ Len(text[w]) \in 0 .. BufSize - 1 /\ k[w] <= Len(text[w])
  BY <1>0, <1>1 DEF Typed, ReadsInside, Terminated
<1>3. PICK c : /\ buff' = [buff EXCEPT ![fn[w]][k[w]] = c]
               /\ k[w] = BufSize - 1 => c = NUL
  <2>1. k[w] = BufSize - 1 => ~(k[w] < Len(text[w]))
    BY <1>2, Rows
  <2> QED
    BY <2>1 DEF format
<1>4. /\ DOMAIN buff' = Fns /\ \A f \in Fns : DOMAIN buff'[f] = Slots
      /\ \A f \in Fns : buff'[f][BufSize - 1] = NUL
  <2>1. ASSUME NEW f \in Fns PROVE DOMAIN buff'[f] = Slots /\ buff'[f][BufSize - 1] = NUL
    <3>1. DOMAIN buff[f] = Slots /\ buff[f][BufSize - 1] = NUL /\ BufSize - 1 \in Slots /\ DOMAIN buff = Fns
      BY <1>0, Rows DEF Typed, Terminated
    <3>2. CASE f = fn[w]
      <4>1. buff'[f] = [buff[f] EXCEPT ![k[w]] = c]
        BY <1>2, <1>3, <3>1, <3>2
      <4> QED
        BY <1>2, <1>3, <3>1, <4>1
    <3>3. CASE f # fn[w]
      BY <1>2, <1>3, <3>1, <3>3
    <3> QED
      BY <3>2, <3>3
  <2> QED
    BY <1>0, <1>3, <2>1 DEF Typed
<1>5. CASE k[w] < Len(text[w])
  <2>1. k' = [k EXCEPT ![w] = @ + 1] /\ pc' = pc
    BY <1>5 DEF format
  <2>2. PICK n \in Nat : n = k[w] + 1 /\ n \in Slots /\ n <= Len(text[w])
    BY <1>2, <1>5, Rows
  <2>3. k' \in [Writers -> Nat] /\ k'[w] = n /\ \A v \in Writers \ {w} : k'[v] = k[v]
    BY <1>0, <2>1, <2>2 DEF Typed
  <2>4. Typed'
    BY <1>0, <1>1, <1>4, <2>1, <2>3 DEF Typed
  <2>5. Terminated'
    BY <1>0, <1>1, <1>4, <2>1, <2>2, <2>3 DEF Terminated
  <2>6. ReadsInside'
    BY <1>0, <2>2, <2>3 DEF ReadsInside
  <2>7. Owed'
    BY <1>0, <1>1, <2>1 DEF Owed
  <2> QED
    BY <2>4, <2>5, <2>6, <2>7 DEF IInv
<1>6. CASE ~(k[w] < Len(text[w]))
  <2>1. k' = [k EXCEPT ![w] = 0] /\ pc' = [pc EXCEPT ![w] = "write"]
    BY <1>6 DEF format
  <2>2. k' \in [Writers -> Nat] /\ k'[w] = 0 /\ \A v \in Writers \ {w} : k'[v] = k[v]
    BY <1>0, <2>1 DEF Typed
  <2>3. pc' \in [Writers -> Labels] /\ pc'[w] = "write" /\ \A v \in Writers \ {w} : pc'[v] = pc[v]
    BY <1>0, <2>1, Moves DEF Labels
  <2>4. Typed'
    BY <1>0, <1>1, <1>2, <1>4, <2>2, <2>3 DEF Typed, Homing
  <2>5. Terminated'
    BY <1>0, <1>1, <1>4, <2>2, <2>3 DEF Terminated
  <2>6. ReadsInside'
    BY <1>0, <2>2, Rows DEF ReadsInside
  <2>7. Owed'
    <3>1. "format" \notin OwesX /\ "format" \notin OwesY /\ {"format", "write"} \subseteq Labels
      BY DEF OwesX, OwesY, Labels
    <3>2. cursor_x \in Nat /\ cursor_y \in Nat
      BY <1>0 DEF Typed
    <3> QED
      BY <1>0, <1>1, <2>1, <3>1, <3>2, Owed_step
  <2> QED
    BY <2>4, <2>5, <2>6, <2>7 DEF IInv
<1> QED
  BY <1>5, <1>6

(* monitor_write: a character that is not the terminator is not in the     *)
(* last byte, so there is one behind it.                                   *)
LEMMA Keeps_write ==
  ASSUME IInv, NEW w \in Writers, monitor_write(w)
  PROVE  IInv'
<1>0. Typed /\ Owed /\ Terminated /\ ReadsInside
  BY DEF IInv
<1>1. pc[w] = "write" /\ UNCHANGED <<buff, cursor_x, cursor_y, reg>>
  BY DEF monitor_write
<1>2. /\ fn[w] \in Fns /\ k[w] \in Slots /\ buff[fn[w]][BufSize - 1] = NUL
      /\ DOMAIN fn = Writers /\ DOMAIN text = Writers /\ DOMAIN ch = Writers
      /\ k \in [Writers -> Nat] /\ reg \in [Writers -> Int]
      /\ cursor_x \in Nat /\ cursor_y \in Nat
  BY <1>0, <1>1 DEF Typed, ReadsInside, Terminated
<1>3. PICK c : c = buff[fn[w]][k[w]]
  OBVIOUS
<1>4. /\ {"write", "idle", "putc"} \subseteq Labels /\ {"idle", "putc"} \subseteq Labels \ {"format"}
      /\ "write" \notin OwesX /\ "write" \notin OwesY /\ "idle" \notin Placing
      /\ "idle" \notin Homing /\ "putc" \notin Homing
  BY DEF Labels, OwesX, OwesY, Placing, Homing
<1>5. CASE c = NUL
  <2>1. /\ pc' = [pc EXCEPT ![w] = "idle"] /\ fn' = [fn EXCEPT ![w] = "none"]
        /\ text' = [text EXCEPT ![w] = <<>>] /\ k' = [k EXCEPT ![w] = 0] /\ ch' = ch
    BY <1>3, <1>5 DEF monitor_write
  <2>2. /\ DOMAIN fn' = Writers /\ DOMAIN text' = Writers /\ k' \in [Writers -> Nat] /\ k'[w] \in Slots
        /\ \A v \in Writers \ {w} : fn'[v] = fn[v] /\ text'[v] = text[v] /\ k'[v] = k[v]
    BY <1>2, <2>1, Rows
  <2>3. Typed' /\ Terminated' /\ ReadsInside'
    BY <1>1, <1>2, <1>4, <2>1, <2>2, Keeps_caller
  <2>4. Owed'
    BY <1>0, <1>1, <1>2, <1>4, <2>1, Owed_step
  <2> QED
    BY <2>3, <2>4 DEF IInv
<1>6. CASE c # NUL
  <2>1. /\ ch' = [ch EXCEPT ![w] = c] /\ k' = [k EXCEPT ![w] = @ + 1] /\ pc' = [pc EXCEPT ![w] = "putc"]
        /\ fn' = fn /\ text' = text
    BY <1>3, <1>6 DEF monitor_write
  <2>2. k[w] # BufSize - 1
    BY <1>2, <1>3, <1>6
  <2>3. PICK n \in Slots : n = k[w] + 1 /\ n \in Nat
    <3>1. PICK i \in 0 .. BufSize - 1 : i = k[w] /\ i # BufSize - 1
      BY <1>2, <2>2 DEF Slots
    <3>2. i + 1 \in 0 .. BufSize - 1 /\ i + 1 \in Nat
      BY <3>1, Rows
    <3> QED
      BY <3>1, <3>2 DEF Slots
  <2>4. k' \in [Writers -> Nat] /\ k'[w] = n /\ \A v \in Writers \ {w} : k'[v] = k[v]
    BY <1>2, <2>1, <2>3
  <2>5. Typed' /\ Terminated' /\ ReadsInside'
    BY <1>1, <1>2, <1>4, <2>1, <2>3, <2>4, Keeps_caller
  <2>6. Owed'
    BY <1>0, <1>1, <1>2, <1>4, <2>1, Owed_step
  <2> QED
    BY <2>5, <2>6 DEF IInv
<1> QED
  BY <1>5, <1>6

(* An access may take a writer from l to m.                                *)
Follows(l, m) ==
  (l \in Placing /\ m \in Placing \cup {"cursor"}) \/ (l \in Homing /\ m \in {"top", "cursor"})

(* It may, if it leaves nothing owed behind.                               *)
LEMMA Keeps_access ==
  ASSUME IInv, NEW w \in Writers, NEW l, NEW m, Follows(l, m),
         pc[w] = l, pc' = [pc EXCEPT ![w] = m], UNCHANGED <<buff, fn, text, k, ch>>,
         reg' \in [Writers -> Int], cursor_x' \in Nat, cursor_y' \in Nat,
         cursor_x' < COLS \/ m \in OwesX \/ (cursor_x' = cursor_x /\ l \notin OwesX),
         cursor_y' < ROWS \/ m \in OwesY \/ (cursor_y' = cursor_y /\ l \notin OwesY)
  PROVE  IInv'
<1>0. Typed /\ Owed /\ ReadsInside
  BY DEF IInv
<1>1. l \in Labels /\ m \in Labels /\ m \in Labels \ {"format"}
  BY DEF Follows, Labels, Placing, OwesY, Homing
<1>2. /\ DOMAIN fn = Writers /\ DOMAIN text = Writers /\ DOMAIN ch = Writers
      /\ k \in [Writers -> Nat] /\ k[w] \in Slots
  BY <1>0 DEF Typed, ReadsInside
<1>3. /\ m \in {"write"} \cup Placing \/ (m = "cursor" /\ fn[w] # "monitor_clear") => fn[w] \in Fns
      /\ m \in Homing => fn[w] = "monitor_clear"
  <2>1. (l \in Placing => fn[w] \in Fns) /\ (l \in Homing => fn[w] = "monitor_clear")
    BY <1>0 DEF Typed
  <2>2. /\ "cursor" \notin Placing /\ "top" \notin Placing /\ "write" \notin Placing
        /\ \A x \in Placing \cup {"cursor"} : x \notin Homing
    BY DEF Placing, OwesY, Homing
  <2> QED
    BY <2>1, <2>2 DEF Follows
<1>4. Typed' /\ Terminated' /\ ReadsInside'
  BY <1>1, <1>2, <1>3, Keeps_caller
<1>5. Owed'
  BY <1>0, <1>1, Owed_step
<1> QED
  BY <1>4, <1>5 DEF IInv

(* A load.                                                                 *)
LEMMA Keeps_load ==
  ASSUME IInv, NEW w \in Writers, NEW l, NEW v \in Int, NEW m, Follows(l, m), Load(w, l, v, m),
         l \in OwesX => m \in OwesX, l \in OwesY => m \in OwesY
  PROVE  IInv'
<1>1. cursor_x \in Nat /\ cursor_y \in Nat /\ reg \in [Writers -> Int]
  BY DEF IInv, Typed
<1>2. /\ pc[w] = l /\ pc' = [pc EXCEPT ![w] = m] /\ UNCHANGED <<buff, fn, text, k, ch>>
      /\ cursor_x' = cursor_x /\ cursor_y' = cursor_y /\ reg' \in [Writers -> Int]
  BY <1>1 DEF Load
<1> QED
  BY <1>1, <1>2, Keeps_access

(* A store to cursor_x.                                                    *)
LEMMA Keeps_x ==
  ASSUME IInv, NEW w \in Writers, NEW l, NEW v \in Int, NEW m, Follows(l, m), StoreX(w, l, v, m),
         v = 0 \/ m \in OwesX, l \in OwesY => m \in OwesY
  PROVE  IInv'
<1>1. cursor_x \in Nat /\ cursor_y \in Nat /\ reg \in [Writers -> Int]
  BY DEF IInv, Typed
<1>2. /\ pc[w] = l /\ pc' = [pc EXCEPT ![w] = m] /\ UNCHANGED <<buff, fn, text, k, ch>>
      /\ cursor_x' = v % ByteMod /\ cursor_y' = cursor_y /\ reg' \in [Writers -> Int]
  BY <1>1 DEF StoreX
<1>3. v % ByteMod \in Nat /\ (v = 0 => v % ByteMod < COLS)
  BY Bytes, Rows
<1> QED
  BY <1>1, <1>2, <1>3, Keeps_access

(* A store to cursor_y.                                                    *)
LEMMA Keeps_y ==
  ASSUME IInv, NEW w \in Writers, NEW l, NEW v \in Int, NEW m, Follows(l, m), StoreY(w, l, v, m),
         v \in 0 .. ROWS - 1 \/ m \in OwesY, l \in OwesX => m \in OwesX
  PROVE  IInv'
<1>1. cursor_x \in Nat /\ cursor_y \in Nat /\ reg \in [Writers -> Int]
  BY DEF IInv, Typed
<1>2. /\ pc[w] = l /\ pc' = [pc EXCEPT ![w] = m] /\ UNCHANGED <<buff, fn, text, k, ch>>
      /\ cursor_y' = v % ByteMod /\ cursor_x' = cursor_x /\ reg' \in [Writers -> Int]
  BY <1>1 DEF StoreY
<1>3. v % ByteMod \in Nat /\ (v \in 0 .. ROWS - 1 => v % ByteMod < ROWS)
  BY Bytes, Rows
<1> QED
  BY <1>1, <1>2, <1>3, Keeps_access

(* Moving the cursor, and storing a character.                             *)
LEMMA Keeps_place ==
  ASSUME IInv, NEW w \in Writers,
         backspace(w) \/ tabulator(w) \/ carriage_return(w) \/ line_feed(w) \/ printable(w) \/ advance(w)
  PROVE  IInv'
<1>0. Typed
  BY DEF IInv
<1>1. cursor_x \in Nat /\ cursor_y \in Nat /\ reg \in [Writers -> Int] /\ reg[w] \in Int
  BY <1>0 DEF Typed
<1>2. /\ \A l \in Placing : \A m \in Placing : Follows(l, m)
      /\ {"putc", "back", "column", "cell", "next", "store", "line", "feed", "wrap"} \subseteq Placing
      /\ \A l \in {"putc", "back", "column", "cell", "next", "store", "line", "feed"} :
           l \notin OwesX /\ l \notin OwesY
      /\ "wrap" \in OwesX /\ "wrap" \in OwesY
  BY DEF Follows, Placing, OwesX, OwesY
<1>3. /\ cursor_x - 1 \in Int /\ cursor_x + 1 \in Int /\ cursor_y + 1 \in Int /\ 0 \in Int
      /\ reg[w] + cursor_x \in Int /\ cursor_y * COLS \in Int
      /\ (cursor_x \div TAB + 1) * TAB \in Int
  <2>1. COLS \in Int /\ cursor_x \div TAB \in Int /\ TAB \in Int
    BY <1>1, Rows
  <2> QED
    BY <1>1, <2>1
<1>4. CASE backspace(w)
  <2>1. CASE Load(w, "back", cursor_x - 1, "store")
    BY <1>2, <1>3, <2>1, Keeps_load
  <2>2. CASE ~Load(w, "back", cursor_x - 1, "store")
    <3>1. /\ pc[w] = "putc" /\ UNCHANGED <<buff, fn, text, k, ch, reg, cursor_x, cursor_y>>
          /\ pc' = [pc EXCEPT ![w] = IF cursor_x # 0 THEN "back" ELSE "wrap"]
      BY <1>4, <2>2 DEF backspace, Test
    <3>2. PICK m \in {"back", "wrap"} : pc' = [pc EXCEPT ![w] = m]
      BY <3>1
    <3> QED
      BY <1>1, <1>2, <3>1, <3>2, Keeps_access
  <2> QED
    BY <2>1, <2>2
<1>5. CASE tabulator(w)
  BY <1>2, <1>3, <1>5, Keeps_load DEF tabulator
<1>6. CASE carriage_return(w)
  BY <1>2, <1>3, <1>6, Keeps_x DEF carriage_return
<1>7. CASE line_feed(w)
  <2>1. CASE StoreX(w, "putc", 0, "line")
    BY <1>2, <1>3, <2>1, Keeps_x
  <2>2. CASE Load(w, "line", cursor_y + 1, "feed")
    BY <1>2, <1>3, <2>2, Keeps_load
  <2>3. CASE StoreY(w, "feed", reg[w], "wrap")
    BY <1>1, <1>2, <2>3, Keeps_y
  <2> QED
    BY <1>7, <2>1, <2>2, <2>3 DEF line_feed
<1>8. CASE printable(w)
  <2>1. CASE Load(w, "putc", cursor_y * COLS, "column")
    BY <1>2, <1>3, <2>1, Keeps_load
  <2>2. CASE Load(w, "column", reg[w] + cursor_x, "cell")
    BY <1>2, <1>3, <2>2, Keeps_load
  <2>3. CASE cell(w)
    <3>1. /\ pc[w] = "cell" /\ UNCHANGED <<buff, fn, text, k, ch, reg, cursor_x, cursor_y>>
          /\ pc' = [pc EXCEPT ![w] = "next"]
      BY <2>3 DEF cell
    <3> QED
      BY <1>1, <1>2, <3>1, Keeps_access
  <2>4. CASE Load(w, "next", cursor_x + 1, "store")
    BY <1>2, <1>3, <2>4, Keeps_load
  <2> QED
    BY <1>8, <2>1, <2>2, <2>3, <2>4 DEF printable
<1>9. CASE advance(w)
  BY <1>1, <1>2, <1>9, Keeps_x DEF advance
<1> QED
  BY <1>4, <1>5, <1>6, <1>7, <1>8, <1>9

(* Wrapping, scrolling, and going home.                                    *)
LEMMA Keeps_wrap ==
  ASSUME IInv, NEW w \in Writers, wrap(w) \/ screen_scroll(w) \/ monitor_home(w)
  PROVE  IInv'
<1>0. Typed
  BY DEF IInv
<1>1. cursor_x \in Nat /\ cursor_y \in Nat /\ reg \in [Writers -> Int] /\ reg[w] \in Int
  BY <1>0 DEF Typed
<1>2. /\ \A l \in Placing : \A m \in Placing : Follows(l, m)
      /\ \A l \in Placing : Follows(l, "cursor")
      /\ Follows("home", "top") /\ Follows("top", "cursor")
      /\ {"wrap", "zero", "row", "down", "scroll", "shift", "last"} \subseteq Placing
  BY DEF Follows, Placing, OwesY, Homing
<1>3. /\ \A l \in {"row", "down", "scroll", "shift", "last", "home", "top"} : l \notin OwesX
      /\ "wrap" \in OwesX /\ "zero" \in OwesX
      /\ \A l \in {"wrap", "zero", "row", "down", "scroll", "shift", "last"} : l \in OwesY
      /\ "home" \notin OwesY
  BY DEF OwesX, OwesY
<1>4. cursor_y + 1 \in Int /\ 0 \in Int /\ LastRow \in Int /\ LastRow \in 0 .. ROWS - 1 /\ 0 \in 0 .. ROWS - 1
  BY <1>1, Rows DEF LastRow
<1>5. CASE wrap(w)
  <2>1. CASE Test(w, "wrap", cursor_x >= COLS, "zero", "scroll")
    <3>1. /\ pc[w] = "wrap" /\ UNCHANGED <<buff, fn, text, k, ch, reg, cursor_x, cursor_y>>
          /\ pc' = [pc EXCEPT ![w] = IF cursor_x >= COLS THEN "zero" ELSE "scroll"]
      BY <2>1 DEF Test
    <3>2. CASE cursor_x >= COLS
      BY <1>1, <1>2, <1>3, <3>1, <3>2, Keeps_access
    <3>3. CASE ~(cursor_x >= COLS)
      <4>1. cursor_x' < COLS
        BY <1>1, <3>1, <3>3, Rows
      <4> QED
        BY <1>1, <1>2, <1>3, <3>1, <3>3, <4>1, Keeps_access
    <3> QED
      BY <3>2, <3>3
  <2>2. CASE StoreX(w, "zero", 0, "row")
    BY <1>2, <1>3, <1>4, <2>2, Keeps_x
  <2>3. CASE Load(w, "row", cursor_y + 1, "down")
    BY <1>2, <1>3, <1>4, <2>3, Keeps_load
  <2>4. CASE StoreY(w, "down", reg[w], "scroll")
    BY <1>1, <1>2, <1>3, <2>4, Keeps_y
  <2> QED
    BY <1>5, <2>1, <2>2, <2>3, <2>4 DEF wrap
<1>6. CASE screen_scroll(w)
  <2>1. CASE Test(w, "scroll", Below, "shift", "cursor")
    <3>1. /\ pc[w] = "scroll" /\ UNCHANGED <<buff, fn, text, k, ch, reg, cursor_x, cursor_y>>
          /\ pc' = [pc EXCEPT ![w] = IF Below THEN "shift" ELSE "cursor"]
      BY <2>1 DEF Test
    <3>2. CASE Below
      BY <1>1, <1>2, <1>3, <3>1, <3>2, Keeps_access
    <3>3. CASE ~Below
      <4>1. cursor_y' < ROWS
        BY <1>1, <3>1, <3>3, Rows DEF Below
      <4> QED
        BY <1>1, <1>2, <1>3, <3>1, <3>3, <4>1, Keeps_access
    <3> QED
      BY <3>2, <3>3
  <2>2. CASE shift(w)
    <3>1. /\ pc[w] = "shift" /\ UNCHANGED <<buff, fn, text, k, ch, reg, cursor_x, cursor_y>>
          /\ pc' = [pc EXCEPT ![w] = "last"]
      BY <2>2 DEF shift
    <3> QED
      BY <1>1, <1>2, <1>3, <3>1, Keeps_access
  <2>3. CASE StoreY(w, "last", LastRow, "cursor")
    BY <1>2, <1>3, <1>4, <2>3, Keeps_y
  <2> QED
    BY <1>6, <2>1, <2>2, <2>3 DEF screen_scroll
<1>7. CASE monitor_home(w)
  <2>1. CASE StoreX(w, "home", 0, "top")
    BY <1>2, <1>3, <1>4, <2>1, Keeps_x
  <2>2. CASE StoreY(w, "top", 0, "cursor")
    BY <1>2, <1>3, <1>4, <2>2, Keeps_y
  <2> QED
    BY <1>7, <2>1, <2>2 DEF monitor_home
<1> QED
  BY <1>5, <1>6, <1>7

(* The hardware cursor, and the beginning of monitor_clear.                *)
LEMMA Keeps_rest ==
  ASSUME IInv, NEW w \in Writers, move_cursor(w) \/ monitor_clear(w)
  PROVE  IInv'
<1>0. Typed /\ Owed /\ ReadsInside
  BY DEF IInv
<1>1. /\ UNCHANGED <<buff, text, k, ch, reg, cursor_x, cursor_y>>
  BY DEF move_cursor, monitor_clear
<1>2. /\ DOMAIN text = Writers /\ DOMAIN fn = Writers /\ DOMAIN ch = Writers
      /\ k \in [Writers -> Nat] /\ k[w] \in Slots /\ reg \in [Writers -> Int]
      /\ cursor_x \in Nat /\ cursor_y \in Nat
      /\ pc[w] = "cursor" /\ fn[w] # "monitor_clear" => fn[w] \in Fns
  BY <1>0 DEF Typed, ReadsInside
<1>3. /\ {"idle", "home", "write", "cursor"} \subseteq Labels /\ {"idle", "home", "write"} \subseteq Labels \ {"format"}
      /\ \A l \in {"idle", "cursor"} : l \notin OwesX /\ l \notin OwesY
      /\ "idle" \notin Placing /\ "home" \notin Placing /\ "idle" \notin Homing /\ "write" \notin Homing
  BY DEF Labels, OwesX, OwesY, Placing, Homing
<1>4. CASE move_cursor(w) /\ fn[w] = "monitor_clear"
  <2>1. /\ pc' = [pc EXCEPT ![w] = "idle"] /\ fn' = [fn EXCEPT ![w] = "none"] /\ pc[w] = "cursor"
    BY <1>4 DEF move_cursor
  <2>2. DOMAIN fn' = Writers /\ \A v \in Writers \ {w} : fn'[v] = fn[v]
    BY <1>2, <2>1
  <2>3. Typed' /\ Terminated' /\ ReadsInside'
    BY <1>1, <1>2, <1>3, <2>1, <2>2, Keeps_caller
  <2>4. Owed'
    BY <1>0, <1>1, <1>2, <1>3, <2>1, Owed_step
  <2> QED
    BY <2>3, <2>4 DEF IInv
<1>5. CASE move_cursor(w) /\ fn[w] # "monitor_clear"
  <2>1. /\ pc' = [pc EXCEPT ![w] = "write"] /\ fn' = fn /\ pc[w] = "cursor"
    BY <1>5 DEF move_cursor
  <2>2. Typed' /\ Terminated' /\ ReadsInside'
    BY <1>1, <1>2, <1>3, <1>5, <2>1, Keeps_caller
  <2>3. Owed'
    BY <1>0, <1>1, <1>2, <1>3, <2>1, Owed_step
  <2> QED
    BY <2>2, <2>3 DEF IInv
<1>6. CASE monitor_clear(w)
  <2>1. pc' = [pc EXCEPT ![w] = "home"] /\ fn' = [fn EXCEPT ![w] = "monitor_clear"] /\ pc[w] = "idle"
    BY <1>6 DEF monitor_clear
  <2>2. DOMAIN fn' = Writers /\ fn'[w] = "monitor_clear" /\ \A v \in Writers \ {w} : fn'[v] = fn[v]
    BY <1>2, <2>1
  <2>3. Typed' /\ Terminated' /\ ReadsInside'
    BY <1>1, <1>2, <1>3, <2>1, <2>2, Keeps_caller
  <2>4. Owed'
    BY <1>0, <1>1, <1>2, <1>3, <2>1, Owed_step
  <2> QED
    BY <2>3, <2>4 DEF IInv
<1> QED
  BY <1>4, <1>5, <1>6

-----------------------------------------------------------------------------
(* The invariant holds at the start and after every step.                  *)
THEOREM Invariance == Spec => []IInv
<1>1. Init => IInv
  <2> SUFFICES ASSUME Init PROVE IInv
    OBVIOUS
  <2>1. /\ DOMAIN buff = Fns /\ \A f \in Fns : buff[f] = [x \in Slots |-> NUL]
        /\ cursor_x = 0 /\ cursor_y = 0
        /\ pc = [w \in Writers |-> "idle"] /\ DOMAIN fn = Writers /\ DOMAIN text = Writers
        /\ k = [w \in Writers |-> 0] /\ DOMAIN ch = Writers /\ reg = [w \in Writers |-> 0]
    BY DEF Init, Static
  <2>2. Typed
    BY <2>1 DEF Typed, Labels, Placing, OwesY, Homing
  <2>3. Terminated
    BY <2>1, Rows DEF Terminated
  <2>4. ReadsInside
    BY <2>1, Rows DEF ReadsInside
  <2>5. Owed
    BY <2>1, Rows DEF Owed
  <2> QED
    BY <2>2, <2>3, <2>4, <2>5 DEF IInv
<1>2. IInv /\ [Next]_vars => IInv'
  <2>1. ASSUME IInv, Next PROVE IInv'
    BY <2>1, Keeps_printf, Keeps_format, Keeps_write, Keeps_place, Keeps_wrap, Keeps_rest
       DEF Next, monitor_putc_color
  <2>2. ASSUME IInv, UNCHANGED vars PROVE IInv'
    BY <2>2 DEF IInv, Typed, Terminated, ReadsInside, Owed, vars, caller
  <2> QED
    BY <2>1, <2>2
<1> QED
  BY <1>1, <1>2, PTL DEF Spec

(* Whatever a writer finds in the buffer that another one is overwriting,  *)
(* it stops inside it (printf.c:8).                                        *)
THEOREM ReadSafety == Spec => []ReadsInside
<1>1. IInv => ReadsInside
  BY DEF IInv
<1> QED
  BY <1>1, Invariance, PTL

(* However calls overlap, and whatever update of the cursor gets lost,     *)
(* when all have returned the cursor is on the screen (monitor.c:66-82).   *)
THEOREM CursorSafety == Spec => []OnScreen
<1>1. IInv => OnScreen
  <2> SUFFICES ASSUME IInv, \A w \in Writers : pc[w] = "idle"
               PROVE  cursor_x < COLS /\ cursor_y < ROWS
    BY DEF OnScreen
  <2>1. "idle" \notin OwesX /\ "idle" \notin OwesY
    BY DEF OwesX, OwesY
  <2>2. ~(cursor_x >= COLS) /\ ~(cursor_y >= ROWS)
    BY <2>1 DEF IInv, Owed
  <2>3. cursor_x \in Nat /\ cursor_y \in Nat
    BY DEF IInv, Typed
  <2> QED
    BY <2>2, <2>3, Rows
<1> QED
  BY <1>1, Invariance, PTL

-----------------------------------------------------------------------------
(* Setting a text on the page: FoldLeft, one character after the other.    *)
Set(pg, t, n) == FoldLeft(Typeset, pg, SubSeq(t, 1, n))

(* g folds the first n characters of t, as MapThenFoldSet defines it.      *)
Folds(g, pg, t, n) ==
  g = [e \in SUBSET (1 .. n) |-> IF e = {} THEN pg ELSE Typeset(g[e \ {Max(e)}], t[Max(e)])]

(* A set of numbers has a smallest element.                                *)
LEMMA Smallest ==
  ASSUME NEW T, T \subseteq Nat, T # {}
  PROVE  \E x \in T : \A y \in T : x <= y
<1>1. IsWellFoundedOn(OpToRel(<, Nat), Nat)
  BY NatLessThanWellFounded
<1>2. PICK x \in T : \A y \in T : ~(<<y, x>> \in OpToRel(<, Nat))
  BY <1>1, WFMin
<1>3. \A y \in T : ~(y < x)
  BY <1>2 DEF OpToRel
<1> QED
  BY <1>3

(* The last place.                                                         *)
LEMMA MaxLast ==
  ASSUME NEW n \in Nat, NEW e, e \subseteq 1 .. n, n \in e
  PROVE  Max(e) = n
<1>1. \A y \in e : n >= y
  OBVIOUS
<1>2. PICK x : x = Max(e)
  OBVIOUS
<1>3. x \in e /\ \A y \in e : x >= y
  BY <1>1, <1>2 DEF Max
<1>4. x >= n /\ n >= x /\ x \in Nat
  BY <1>1, <1>3
<1> QED
  BY <1>2, <1>4

(* There is such a function.                                               *)
LEMMA FoldsExists ==
  ASSUME NEW pg, NEW t, NEW N \in Nat
  PROVE  \E g : Folds(g, pg, t, N)
<1> DEFINE Bad == {n \in Nat : ~\E g : Folds(g, pg, t, n)}
<1> SUFFICES ASSUME Bad # {} PROVE FALSE
  OBVIOUS
<1>1. PICK n \in Bad : \A m \in Bad : n <= m
  BY Smallest
<1>2. CASE n = 0
  <2>1. PICK g : g = [e \in SUBSET (1 .. 0) |-> pg]
    OBVIOUS
  <2>2. \A e \in SUBSET (1 .. 0) : e = {}
    OBVIOUS
  <2>3. Folds(g, pg, t, 0)
    BY <2>1, <2>2 DEF Folds
  <2> QED
    BY <1>1, <1>2, <2>3
<1>3. CASE n # 0
  <2>1. PICK m \in Nat : n = m + 1
    <3>1. n - 1 \in Nat /\ n = (n - 1) + 1
      BY <1>3
    <3> QED
      BY <3>1
  <2>2. PICK g : Folds(g, pg, t, m)
    BY <1>1, <2>1
  <2>3. PICK f : f = [e \in SUBSET (1 .. n) |-> IF n \in e THEN Typeset(g[e \ {n}], t[n]) ELSE g[e]]
    OBVIOUS
  <2>4. ASSUME NEW e \in SUBSET (1 .. n)
        PROVE  f[e] = IF e = {} THEN pg ELSE Typeset(f[e \ {Max(e)}], t[Max(e)])
    <3>1. CASE n \in e
      <4>1. Max(e) = n
        BY <1>1, <3>1, MaxLast
      <4>2. e \ {n} \in SUBSET (1 .. n) /\ n \notin e \ {n}
        OBVIOUS
      <4>3. f[e \ {n}] = g[e \ {n}] /\ f[e] = Typeset(g[e \ {n}], t[n]) /\ e # {}
        BY <2>3, <3>1, <4>2
      <4> QED
        BY <4>1, <4>3
    <3>2. CASE n \notin e
      <4>1. e \in SUBSET (1 .. m)
        BY <2>1, <3>2
      <4>2. g[e] = IF e = {} THEN pg ELSE Typeset(g[e \ {Max(e)}], t[Max(e)])
        BY <2>2, <4>1 DEF Folds
      <4>3. e \ {Max(e)} \in SUBSET (1 .. n) /\ n \notin e \ {Max(e)}
        BY <3>2
      <4>4. f[e] = g[e] /\ f[e \ {Max(e)}] = g[e \ {Max(e)}]
        BY <2>3, <3>2, <4>3
      <4> QED
        BY <4>2, <4>4
    <3> QED
      BY <3>1, <3>2
  <2>5. Folds(f, pg, t, n)
    <3>1. f = [e \in SUBSET (1 .. n) |-> f[e]]
      BY <2>3
    <3> QED
      BY <2>4, <3>1 DEF Folds
  <2> QED
    BY <1>1, <2>5
<1> QED
  BY <1>2, <1>3

(* FoldLeft is one.                                                        *)
LEMMA FoldLeftFolds ==
  ASSUME NEW pg, NEW S, NEW t \in Seq(S)
  PROVE  \E g : Folds(g, pg, t, Len(t)) /\ FoldLeft(Typeset, pg, t) = g[1 .. Len(t)]
<1>1. PICK n \in Nat : n = Len(t) /\ DOMAIN t = 1 .. n
  OBVIOUS
<1>2. \E g : g = [e \in SUBSET (DOMAIN t) |-> IF e = {} THEN pg ELSE Typeset(g[e \ {Max(e)}], t[Max(e)])]
  <2>1. PICK g : Folds(g, pg, t, n)
    BY FoldsExists
  <2>2. g = [e \in SUBSET (DOMAIN t) |-> IF e = {} THEN pg ELSE Typeset(g[e \ {Max(e)}], t[Max(e)])]
    BY <1>1, <2>1 DEF Folds
  <2> QED
    BY <2>2
<1>3. PICK h : h = CHOOSE g : g = [e \in SUBSET (DOMAIN t) |->
                       IF e = {} THEN pg ELSE Typeset(g[e \ {Max(e)}], t[Max(e)])]
  OBVIOUS
<1>4. h = [e \in SUBSET (DOMAIN t) |-> IF e = {} THEN pg ELSE Typeset(h[e \ {Max(e)}], t[Max(e)])]
  BY <1>2, <1>3
<1>5. FoldLeft(Typeset, pg, t) = h[DOMAIN t]
  BY <1>3 DEF FoldLeft, MapThenFoldSet
<1> QED
  BY <1>1, <1>4, <1>5 DEF Folds

(* What such a function says of the first places.                          *)
LEMMA FoldsStep ==
  ASSUME NEW pg, NEW t, NEW n \in Nat, NEW g, Folds(g, pg, t, n)
  PROVE  /\ g[1 .. 0] = pg
         /\ \A m \in 1 .. n : g[1 .. m] = Typeset(g[1 .. m - 1], t[m])
<1>1. \A e \in SUBSET (1 .. n) : g[e] = IF e = {} THEN pg ELSE Typeset(g[e \ {Max(e)}], t[Max(e)])
  BY DEF Folds
<1>2. 1 .. 0 = {} /\ {} \in SUBSET (1 .. n)
  OBVIOUS
<1>3. ASSUME NEW m \in 1 .. n PROVE g[1 .. m] = Typeset(g[1 .. m - 1], t[m])
  <2>1. m \in Nat /\ 1 .. m \in SUBSET (1 .. n) /\ m \in 1 .. m
    OBVIOUS
  <2>2. Max(1 .. m) = m
    BY <2>1, MaxLast
  <2>3. (1 .. m) \ {m} = 1 .. m - 1 /\ 1 .. m # {}
    BY <2>1
  <2>4. g[1 .. m] = Typeset(g[(1 .. m) \ {Max(1 .. m)}], t[Max(1 .. m)])
    BY <1>1, <2>1, <2>3
  <2> QED
    BY <2>2, <2>3, <2>4
<1> QED
  BY <1>1, <1>2, <1>3

(* The texts t and u begin with the same l characters.                     *)
Same(t, u, l) == \A i \in 1 .. l : t[i] = u[i]

(* Two that fold texts with the same beginning agree on it.                *)
LEMMA FoldsAgree ==
  ASSUME NEW pg, NEW t, NEW u, NEW n \in Nat, NEW l \in Nat, l <= n, NEW g, NEW h,
         Folds(g, pg, t, n), Folds(h, pg, u, l), Same(t, u, l)
  PROVE  \A m \in 0 .. l : g[1 .. m] = h[1 .. m]
<1>0. g[1 .. 0] = h[1 .. 0]
  <2>1. g[1 .. 0] = pg
    BY FoldsStep
  <2>2. h[1 .. 0] = pg
    BY FoldsStep
  <2> QED
    BY <2>1, <2>2
<1> DEFINE Bad == {m \in 0 .. l : g[1 .. m] # h[1 .. m]}
<1> SUFFICES ASSUME Bad # {} PROVE FALSE
  OBVIOUS
<1>1. PICK m \in Bad : \A i \in Bad : m <= i
  <2>1. Bad \subseteq Nat
    OBVIOUS
  <2> QED
    BY <2>1, Smallest
<1>2. m # 0
  BY <1>0, <1>1
<1>3. m \in 1 .. l /\ m \in 1 .. n /\ m - 1 \in 0 .. l /\ ~(m <= m - 1)
  BY <1>1, <1>2
<1>4. g[1 .. m - 1] = h[1 .. m - 1]
  BY <1>1, <1>3
<1>5. g[1 .. m] = Typeset(g[1 .. m - 1], t[m]) /\ h[1 .. m] = Typeset(h[1 .. m - 1], u[m]) /\ t[m] = u[m]
  BY <1>3, FoldsStep DEF Same
<1> QED
  BY <1>1, <1>4, <1>5

(* Set is what such a function has at the first places.                    *)
LEMMA SetFolds ==
  ASSUME NEW pg, NEW S, NEW t \in Seq(S), NEW N \in Nat, N = Len(t),
         NEW g, Folds(g, pg, t, N), NEW n \in 0 .. N
  PROVE  Set(pg, t, n) = g[1 .. n]
<1>1. PICK u : u = SubSeq(t, 1, n)
  OBVIOUS
<1>2. u \in Seq(S) /\ Len(u) = n /\ \A i \in 1 .. n : t[i] = u[i]
  BY <1>1
<1>3. PICK h : Folds(h, pg, u, n) /\ FoldLeft(Typeset, pg, u) = h[1 .. n]
  BY <1>2, FoldLeftFolds
<1>4. n \in Nat /\ n <= N /\ n \in 0 .. n
  OBVIOUS
<1>5. Same(t, u, n)
  BY <1>2 DEF Same
<1>6. \A m \in 0 .. n : g[1 .. m] = h[1 .. m]
  BY <1>3, <1>4, <1>5, FoldsAgree
<1> QED
  BY <1>1, <1>3, <1>4, <1>6 DEF Set

(* Set before the first character and after the last.                      *)
LEMMA SetFacts ==
  ASSUME NEW pg, NEW S, NEW t \in Seq(S)
  PROVE  Set(pg, t, 0) = pg /\ Set(pg, t, Len(t)) = FoldLeft(Typeset, pg, t)
<1>1. PICK N \in Nat : N = Len(t)
  OBVIOUS
<1>2. PICK g : Folds(g, pg, t, N)
  BY <1>1, FoldsExists
<1>3. Set(pg, t, 0) = g[1 .. 0]
  <2>1. 0 \in 0 .. N
    BY <1>1
  <2> QED
    BY <1>1, <1>2, <2>1, SetFolds
<1>4. g[1 .. 0] = pg
  BY <1>1, <1>2, FoldsStep
<1>5. SubSeq(t, 1, N) = t
  BY <1>1
<1>6. Set(pg, t, N) = FoldLeft(Typeset, pg, t)
  BY <1>5 DEF Set
<1> QED
  BY <1>1, <1>3, <1>4, <1>6

(* Set after the next character.                                           *)
LEMMA SetNext ==
  ASSUME NEW pg, NEW S, NEW t \in Seq(S), NEW n \in 0 .. Len(t) - 1
  PROVE  Set(pg, t, n + 1) = Typeset(Set(pg, t, n), t[n + 1])
<1>1. PICK N \in Nat : N = Len(t)
  OBVIOUS
<1>2. PICK g : Folds(g, pg, t, N)
  BY <1>1, FoldsExists
<1>3. PICK m : m = n + 1
  OBVIOUS
<1>4. n \in 0 .. N /\ m \in 0 .. N /\ m \in 1 .. N /\ m - 1 = n
  BY <1>1, <1>3
<1>5. Set(pg, t, n) = g[1 .. n]
  BY <1>1, <1>2, <1>4, SetFolds
<1>6. Set(pg, t, m) = g[1 .. m]
  BY <1>1, <1>2, <1>4, SetFolds
<1>7. g[1 .. m] = Typeset(g[1 .. m - 1], t[m])
  BY <1>1, <1>2, <1>4, FoldsStep
<1> QED
  BY <1>3, <1>4, <1>5, <1>6, <1>7

-----------------------------------------------------------------------------
(* The screen shows the page pg from its row t on; and there is nothing on *)
(* the page below.                                                         *)
CellAt(pg, y) == IF y \in DOMAIN pg.cells THEN pg.cells[y] ELSE Blank

Shows(pg, t) == \A x \in 0 .. Size - 1 : video_memory[x] = CellAt(pg, t * COLS + x)
Under(pg, t) == \A y \in DOMAIN pg.cells : y \in Nat /\ y < (t + ROWS) * COLS
Drawn(pg, t) == t \in Nat /\ DOMAIN video_memory = 0 .. Size - 1 /\ Under(pg, t) /\ Shows(pg, t)

(* The page goes on in row y and column x of the screen, or will when the  *)
(* cursor has been moved there, ...                                        *)
Spot(pg, t, y, x) == pg.pos = (t + y) * COLS + x

(* ... and the cursor is on the screen, in the last row if it has scrolled.*)
Inside(t) == cursor_x < COLS /\ cursor_y < ROWS /\ (t > 0 => cursor_y = ROWS - 1)

Rest(pg, t) == Drawn(pg, t) /\ Inside(t) /\ Spot(pg, t, cursor_y, cursor_x)

Hardware == ByteMod * crtc.hi + crtc.lo = cursorLocation

(* So it is at each place l of monitor_putc_color, with the argument c and *)
(* the register r: on the page pg, which has the character c only after    *)
(* the places Before.                                                      *)
Before == {"putc", "column", "cell"}

Stage(l, c, r, pg, t) ==
  /\ l \in {"idle", "format", "write"} => Rest(pg, t) /\ Hardware
  /\ l \in {"putc", "cursor"} => Rest(pg, t)
  /\ l = "column" => Rest(pg, t) /\ c \notin Control /\ r = cursor_y * COLS
  /\ l = "cell" => Rest(pg, t) /\ c \notin Control /\ r = cursor_y * COLS + cursor_x
  /\ l = "back" => Drawn(pg, t) /\ Inside(t) /\ cursor_x # 0 /\ Spot(pg, t, cursor_y, cursor_x - 1)
  /\ l = "next" => Drawn(pg, t) /\ Inside(t) /\ Spot(pg, t, cursor_y, cursor_x + 1)
  /\ l = "store" => Drawn(pg, t) /\ Inside(t) /\ r \in 0 .. COLS /\ Spot(pg, t, cursor_y, r)
  /\ l \in {"line", "row"} => /\ Drawn(pg, t) /\ Inside(t) /\ cursor_x = 0
                              /\ Spot(pg, t, cursor_y + 1, 0)
  /\ l \in {"feed", "down"} => /\ Drawn(pg, t) /\ Inside(t) /\ cursor_x = 0
                               /\ r = cursor_y + 1 /\ Spot(pg, t, r, 0)
  /\ l = "zero" => /\ Drawn(pg, t) /\ cursor_x = COLS /\ cursor_y < ROWS
                   /\ t > 0 => cursor_y = ROWS - 1
                   /\ Spot(pg, t, cursor_y + 1, 0)
  /\ l = "wrap" => /\ Drawn(pg, t) /\ Spot(pg, t, cursor_y, cursor_x)
                   /\ cursor_x <= COLS /\ cursor_y <= ROWS
                   /\ cursor_x = COLS => cursor_y < ROWS
                   /\ t > 0 => cursor_y >= ROWS - 1
  /\ l \in {"scroll", "shift"} => /\ Drawn(pg, t) /\ Spot(pg, t, cursor_y, cursor_x)
                                  /\ cursor_x < COLS /\ cursor_y <= ROWS
                                  /\ t > 0 => cursor_y >= ROWS - 1
                                  /\ l = "shift" => cursor_y = ROWS
  /\ l = "last" => Drawn(pg, t) /\ Spot(pg, t, ROWS - 1, cursor_x) /\ cursor_x < COLS

(* The text is in the buffer, as far as it has been formatted.             *)
Buffered(w) ==
  /\ text[w] \in Texts /\ Len(text[w]) < BufSize /\ k[w] <= Len(text[w])
  /\ \A j \in 0 .. (IF pc[w] = "format" THEN k[w] ELSE Len(text[w])) - 1 :
       buff[fn[w]][j] = text[w][j + 1]
  /\ pc[w] # "format" => buff[fn[w]][Len(text[w])] = NUL

(* How many characters of its text are on the page.                        *)
Placed(w) == IF pc[w] = "format" THEN 0 ELSE IF pc[w] \in Before THEN k[w] - 1 ELSE k[w]

(* A call that began on the page s has placed some of its text.            *)
Printing(w, s, t) ==
  /\ page = Set(s, text[w], Len(text[w])) /\ Buffered(w)
  /\ pc[w] \in Before => k[w] > 0 /\ ch[w] = text[w][k[w]]
  /\ Stage(pc[w], ch[w], reg[w], Set(s, text[w], Placed(w)), t)

Clearing(w) ==
  /\ pc[w] \in {"home", "top", "cursor"} /\ page = Empty /\ Drawn(page, 0)
  /\ pc[w] \in {"top", "cursor"} => cursor_x = 0
  /\ pc[w] = "cursor" => cursor_y = 0

Busy(w) == IF fn[w] = "monitor_clear" THEN Clearing(w) ELSE \E s, t : Printing(w, s, t)

Resting == \E t : Rest(page, t) /\ Hardware

WInv == ~overlap =>
  /\ \A v, w \in Writers : pc[v] # "idle" /\ pc[w] # "idle" => v = w
  /\ (\A w \in Writers : pc[w] = "idle") => Resting
  /\ \A w \in Writers : pc[w] # "idle" => Busy(w)

-----------------------------------------------------------------------------
(* A place on the page is a row and a column.                              *)
LEMMA Place ==
  ASSUME NEW c \in Nat \ {0}, NEW r \in Nat, NEW x \in 0 .. c - 1
  PROVE  (r * c + x) \div c = r /\ (r * c + x) % c = x
<1>1. PICK n \in Nat : n = r * c + x
  BY Times
<1>2. PICK q \in Nat, y \in 0 .. c - 1 : q = n \div c /\ y = n % c /\ n = q * c + y
  <2>1. n = c * (n \div c) + (n % c) /\ (n % c) \in 0 .. c - 1 /\ n \div c \in Nat
    OBVIOUS
  <2>2. PICK q \in Nat, y \in 0 .. c - 1 : q = n \div c /\ y = n % c
    BY <2>1
  <2> QED
    BY <2>1, <2>2
<1>3. ~(q < r)
  <2> SUFFICES ASSUME q < r PROVE FALSE
    OBVIOUS
  <2>1. (q + 1) * c <= r * c /\ (q + 1) * c = q * c + c /\ q * c \in Nat /\ r * c \in Nat
    BY <1>2, Times
  <2> QED
    BY <1>1, <1>2, <2>1
<1>4. ~(r < q)
  <2> SUFFICES ASSUME r < q PROVE FALSE
    OBVIOUS
  <2>1. (r + 1) * c <= q * c /\ (r + 1) * c = r * c + c /\ q * c \in Nat /\ r * c \in Nat
    BY <1>2, Times
  <2> QED
    BY <1>1, <1>2, <2>1
<1>5. q = r
  BY <1>2, <1>3, <1>4
<1>6. y = x
  <2>1. r * c \in Nat
    BY Times
  <2> QED
    BY <1>1, <1>2, <1>5, <2>1
<1> QED
  BY <1>1, <1>2, <1>5, <1>6

(* Tabulators of the page are tabulators of each row.                      *)
LEMMA PageTabs ==
  ASSUME NEW r \in Nat, NEW x \in 0 .. COLS - 1
  PROVE  /\ ((r * COLS + x) \div TAB + 1) * TAB = r * COLS + (x \div TAB + 1) * TAB
         /\ (x \div TAB + 1) * TAB <= COLS
<1>k. COLS \in Nat \ {0} /\ TAB \in Nat \ {0} /\ COLS % TAB = 0
  BY MonitorAssumption
<1>1. PICK d \in Nat : COLS = d * TAB
  <2>1. COLS = TAB * (COLS \div TAB) + (COLS % TAB) /\ COLS \div TAB \in Nat
    BY <1>k
  <2> QED
    BY <1>k, <2>1
<1>2. PICK q \in Nat, y \in 0 .. TAB - 1 : q = x \div TAB /\ x = q * TAB + y
  <2>1. x = TAB * (x \div TAB) + (x % TAB) /\ (x % TAB) \in 0 .. TAB - 1 /\ x \div TAB \in Nat
    BY <1>k
  <2> QED
    BY <1>k, <2>1
<1>3. r * COLS + x = (r * d + q) * TAB + y /\ r * d + q \in Nat
  BY <1>1, <1>2, <1>k
<1>4. (r * COLS + x) \div TAB = r * d + q
  <2>1. PICK e \in Nat : e = r * d + q
    BY <1>3
  <2>2. (e * TAB + y) \div TAB = e
    BY <1>k, <1>2, Place
  <2> QED
    BY <1>3, <2>1, <2>2
<1>5. (r * d + q + 1) * TAB = r * COLS + (q + 1) * TAB
  BY <1>1, <1>2, <1>k
<1>6. (q + 1) * TAB <= COLS
  <2>1. ~(d <= q)
    <3> SUFFICES ASSUME d <= q PROVE FALSE
      OBVIOUS
    <3>1. d * TAB <= q * TAB /\ q * TAB \in Nat
      BY <1>1, <1>2, <1>k, Times
    <3> QED
      BY <1>1, <1>2, <1>k, <3>1
  <2>2. q + 1 <= d /\ q + 1 \in Nat
    BY <1>1, <1>2, <2>1
  <2> QED
    BY <1>1, <1>k, <2>2, Times
<1> QED
  BY <1>2, <1>4, <1>5, <1>6

(* Where a character takes the page, in rows and columns of the screen.    *)
LEMMA Spots ==
  ASSUME NEW pg, NEW c, NEW t \in Nat, NEW x \in 0 .. COLS - 1, NEW y \in Nat, Spot(pg, t, y, x)
  PROVE  /\ c = "BS" => Spot(Typeset(pg, c), t, y, IF x # 0 THEN x - 1 ELSE 0)
         /\ c = "TAB" => /\ Spot(Typeset(pg, c), t, y, (x \div TAB + 1) * TAB)
                         /\ (x \div TAB + 1) * TAB \in 0 .. COLS
         /\ c = "CR" => Spot(Typeset(pg, c), t, y, 0)
         /\ c = "NL" => Spot(Typeset(pg, c), t, y + 1, 0)
         /\ c \notin Control => Spot(Typeset(pg, c), t, y, x + 1)
<1>k. COLS \in Nat \ {0} /\ TAB \in Nat \ {0}
  BY Rows
<1>1. PICK r \in Nat : r = t + y
  OBVIOUS
<1>2. PICK n \in Nat : n = r * COLS
  BY <1>k, Times
<1>3. pg.pos = n + x /\ (n + x) \div COLS = r /\ (n + x) % COLS = x
  <2>1. pg.pos = n + x
    BY <1>1, <1>2 DEF Spot
  <2> QED
    BY <1>1, <1>2, <1>k, <2>1, Place
<1>4. PICK q : q = Typeset(pg, c).pos
  OBVIOUS
<1>5. q = Advance(pg.pos, c)
  BY <1>4 DEF Typeset
<1>6. \A z : q = n + z => Spot(Typeset(pg, c), t, y, z)
  BY <1>1, <1>2, <1>4 DEF Spot
<1>7. ASSUME c = "BS" PROVE q = n + (IF x # 0 THEN x - 1 ELSE 0)
  <2>1. q = IF x = 0 THEN n + x ELSE n + x - 1
    BY <1>3, <1>5, <1>7 DEF Advance
  <2> QED
    BY <1>k, <2>1
<1>8. ASSUME c = "TAB" PROVE q = n + (x \div TAB + 1) * TAB /\ (x \div TAB + 1) * TAB \in 0 .. COLS
  <2>1. q = ((r * COLS + x) \div TAB + 1) * TAB
    BY <1>2, <1>3, <1>5, <1>8 DEF Advance
  <2>2. /\ ((r * COLS + x) \div TAB + 1) * TAB = r * COLS + (x \div TAB + 1) * TAB
        /\ (x \div TAB + 1) * TAB <= COLS
    BY PageTabs
  <2>3. (x \div TAB + 1) * TAB \in Nat
    <3>1. x \div TAB + 1 \in Nat
      BY <1>k
    <3> QED
      BY <1>k, <3>1, Times
  <2> QED
    BY <1>2, <1>k, <2>1, <2>2, <2>3
<1>9. ASSUME c = "CR" PROVE q = n + 0
  BY <1>2, <1>3, <1>5, <1>9 DEF Advance
<1>10. ASSUME c = "NL" PROVE Spot(Typeset(pg, c), t, y + 1, 0)
  <2>1. q = (r + 1) * COLS
    BY <1>3, <1>5, <1>10 DEF Advance
  <2>2. r + 1 = t + (y + 1) /\ (r + 1) * COLS + 0 = (r + 1) * COLS
    BY <1>1, <1>k
  <2> QED
    BY <1>4, <2>1, <2>2 DEF Spot
<1>11. ASSUME c \notin Control PROVE q = n + (x + 1)
  <2>1. q = n + x + 1
    BY <1>3, <1>5, <1>11 DEF Advance, Control
  <2> QED
    BY <1>k, <2>1
<1> QED
  BY <1>6, <1>7, <1>8, <1>9, <1>10, <1>11

(* A character is stored in the same cell of the screen and of the page.   *)
LEMMA Stage_drawn ==
  ASSUME NEW pg, NEW t \in Nat, NEW c, cursor_x \in Nat, cursor_y \in Nat,
         Rest(pg, t), c \notin Control,
         video_memory' = [x \in DOMAIN video_memory |->
                            IF x = cursor_y * COLS + cursor_x THEN c ELSE video_memory[x]]
  PROVE  Drawn(Typeset(pg, c), t)'
<1>k. COLS \in Nat \ {0} /\ ROWS \in Nat \ {0} /\ Size = ROWS * COLS /\ Size \in Nat
  BY Rows, Times
<1>0. DOMAIN video_memory = 0 .. Size - 1
  BY DEF Rest, Drawn
<1> QED
  <2>1. PICK a : a = cursor_y * COLS + cursor_x
    OBVIOUS
  <2>2. PICK q : q = pg.pos
    OBVIOUS
  <2>3. PICK n \in Nat : n = t * COLS
    BY <1>k, Times
  <2>4. a \in 0 .. Size - 1 /\ q = n + a /\ q \in Nat
    <3>1. PICK x \in Nat, y \in Nat : x = cursor_x /\ y = cursor_y /\ x < COLS /\ y + 1 <= ROWS
      BY <1>k DEF Rest, Inside
    <3>2. PICK m \in Nat : m = y * COLS /\ m + COLS <= ROWS * COLS
      <4>1. y * COLS \in Nat /\ (y + 1) * COLS = y * COLS + COLS /\ (y + 1) * COLS <= ROWS * COLS
        BY <1>k, <3>1, Times
      <4> QED
        BY <4>1
    <3>3. (t + y) * COLS = n + m
      BY <1>k, <2>3, <3>1, <3>2
    <3> QED
      BY <1>k, <2>1, <2>2, <2>3, <3>1, <3>2, <3>3 DEF Rest, Spot
  <2>5. q < (t + ROWS) * COLS
    <3>1. (t + ROWS) * COLS = n + Size
      BY <1>k, <2>3
    <3> QED
      BY <1>k, <2>3, <2>4, <3>1
  <2>6. PICK cells : cells = Typeset(pg, c).cells
    OBVIOUS
  <2>7. cells = [y \in DOMAIN pg.cells \cup {q} |-> IF y = q THEN c ELSE pg.cells[y]]
    BY <2>2, <2>6 DEF Typeset
  <2>8. video_memory' = [x \in 0 .. Size - 1 |-> IF x = a THEN c ELSE video_memory[x]]
    BY <1>0, <2>1
  <2>9. Under(Typeset(pg, c), t)'
    BY <2>4, <2>5, <2>6, <2>7 DEF Rest, Drawn, Under
  <2>10. ASSUME NEW x \in 0 .. Size - 1
         PROVE  video_memory'[x] = IF t * COLS + x \in DOMAIN cells THEN cells[t * COLS + x] ELSE Blank
    <3>1. video_memory[x] = IF n + x \in DOMAIN pg.cells THEN pg.cells[n + x] ELSE Blank
      BY <2>3 DEF Rest, Drawn, Shows, CellAt
    <3>2. n + x = q <=> x = a
      BY <1>k, <2>3, <2>4
    <3>3. video_memory'[x] = IF n + x \in DOMAIN cells THEN cells[n + x] ELSE Blank
      <4>1. CASE x = a
        BY <2>7, <2>8, <3>2, <4>1
      <4>2. CASE x # a
        BY <2>7, <2>8, <3>1, <3>2, <4>2
      <4> QED
        BY <4>1, <4>2
    <3> QED
      BY <2>3, <3>3
  <2>11. Shows(Typeset(pg, c), t)'
    BY <2>6, <2>10 DEF Shows, CellAt
  <2> QED
    BY <2>8, <2>9, <2>11 DEF Drawn

(* The screen has not changed, or not what it shows of the page.           *)
LEMMA DrawnSame ==
  ASSUME NEW pg, NEW t, NEW c, Drawn(pg, t), video_memory' = video_memory
  PROVE  Drawn(pg, t)' /\ (c \in Control => Drawn(Typeset(pg, c), t)')
<1>1. Drawn(pg, t)'
  BY DEF Drawn, Under, Shows, CellAt
<1>2. ASSUME c \in Control PROVE Drawn(Typeset(pg, c), t)'
  <2>1. PICK q : q = Typeset(pg, c)
    OBVIOUS
  <2>2. q.cells = pg.cells
    BY <1>2, <2>1 DEF Typeset
  <2> QED
    BY <1>1, <2>1, <2>2 DEF Drawn, Under, Shows, CellAt
<1> QED
  BY <1>1, <1>2

(* The writer w goes on to m, where the page is q.                         *)
Goes(w, m, c, r, q, t) == pc' = [pc EXCEPT ![w] = m] /\ (Stage(m, c, r, q, t))'

(* A Control character moves the cursor, ...                               *)
LEMMA Stage_control ==
  ASSUME Typed, NEW w \in Writers, NEW pg, NEW t, NEW c, c = ch[w], NEW r, r = reg'[w],
         pc[w] = "putc", Rest(pg, t), NEW q, q = Typeset(pg, c),
         backspace(w) \/ tabulator(w) \/ carriage_return(w) \/ line_feed(w)
  PROVE  \E m \in {"back", "wrap", "store", "line"} : Goes(w, m, c, r, q, t)
<1>k. COLS \in Nat \ {0} /\ ROWS \in Nat \ {0} /\ reg \in [Writers -> Int]
  BY Rows DEF Typed
<1>1. PICK x \in 0 .. COLS - 1, y \in 0 .. ROWS - 1 : x = cursor_x /\ y = cursor_y
  BY <1>k DEF Typed, Rest, Inside
<1>2. t \in Nat /\ Drawn(pg, t) /\ Spot(pg, t, y, x) /\ (t > 0 => y = ROWS - 1) /\ y \in Nat
  BY <1>1, <1>k DEF Rest, Drawn, Inside
<1>3. /\ c = "BS" => Spot(q, t, y, IF x # 0 THEN x - 1 ELSE 0)
      /\ c = "TAB" => Spot(q, t, y, (x \div TAB + 1) * TAB) /\ (x \div TAB + 1) * TAB \in 0 .. COLS
      /\ c = "CR" => Spot(q, t, y, 0)
      /\ c = "NL" => Spot(q, t, y + 1, 0)
  BY <1>2, Spots
<1>4. /\ UNCHANGED <<video_memory, cursor_y>> /\ c \in Control
  BY DEF backspace, tabulator, carriage_return, line_feed, Test, Load, StoreX, StoreY, Control
<1>5. Drawn(q, t)'
  BY <1>2, <1>4, DrawnSame
<1>6. 0 % ByteMod = 0
  BY Bytes, Rows
<1>7. CASE backspace(w)
  <2>1. /\ c = "BS" /\ cursor_x' = x
        /\ pc' = [pc EXCEPT ![w] = IF x # 0 THEN "back" ELSE "wrap"]
    BY <1>1, <1>7 DEF backspace, Test, Load
  <2>2. CASE x # 0
    <3>1. (Inside(t))' /\ cursor_x' # 0 /\ Spot(q, t, cursor_y, cursor_x - 1)'
      BY <1>1, <1>2, <1>3, <1>4, <1>k, <2>1, <2>2 DEF Inside, Spot
    <3>2. Stage("back", c, r, q, t)'
      BY <1>5, <3>1 DEF Stage, Before
    <3> QED
      BY <2>1, <2>2, <3>2 DEF Goes
  <2>3. CASE x = 0
    <3>1. /\ Spot(q, t, cursor_y, cursor_x)' /\ cursor_x' <= COLS /\ cursor_y' <= ROWS
          /\ cursor_x' = COLS => cursor_y' < ROWS
          /\ t > 0 => cursor_y' >= ROWS - 1
      BY <1>1, <1>2, <1>3, <1>4, <1>k, <2>1, <2>3 DEF Spot
    <3>2. Stage("wrap", c, r, q, t)'
      BY <1>5, <3>1 DEF Stage, Before
    <3> QED
      BY <2>1, <2>3, <3>2 DEF Goes
  <2> QED
    BY <2>2, <2>3
<1>8. CASE tabulator(w)
  <2>1. /\ c = "TAB" /\ cursor_x' = x /\ pc' = [pc EXCEPT ![w] = "store"]
        /\ r = (x \div TAB + 1) * TAB
    BY <1>1, <1>8, <1>k DEF tabulator, Load
  <2>2. (Inside(t))' /\ r \in 0 .. COLS /\ Spot(q, t, y, r)
    BY <1>1, <1>2, <1>3, <1>4, <1>k, <2>1 DEF Inside
  <2>3. Spot(q, t, cursor_y, r)'
    BY <1>1, <1>4, <2>2 DEF Spot
  <2>4. Stage("store", c, r, q, t)'
    BY <1>5, <2>2, <2>3 DEF Stage, Before
  <2> QED
    BY <2>1, <2>4 DEF Goes
<1>9. CASE carriage_return(w)
  <2>1. /\ c = "CR" /\ cursor_x' = 0 /\ pc' = [pc EXCEPT ![w] = "wrap"]
    BY <1>6, <1>9 DEF carriage_return, StoreX
  <2>2. /\ Spot(q, t, cursor_y, cursor_x)' /\ cursor_x' <= COLS /\ cursor_y' <= ROWS
        /\ cursor_x' = COLS => cursor_y' < ROWS
        /\ t > 0 => cursor_y' >= ROWS - 1
    BY <1>1, <1>2, <1>3, <1>4, <1>k, <2>1 DEF Spot
  <2>3. Stage("wrap", c, r, q, t)'
    BY <1>5, <2>2 DEF Stage, Before
  <2> QED
    BY <2>1, <2>3 DEF Goes
<1>10. CASE line_feed(w)
  <2>1. /\ c = "NL" /\ cursor_x' = 0 /\ pc' = [pc EXCEPT ![w] = "line"]
    BY <1>6, <1>10 DEF line_feed, StoreX, StoreY, Load
  <2>2. (Inside(t))' /\ Spot(q, t, cursor_y + 1, 0)'
    BY <1>1, <1>2, <1>3, <1>4, <1>k, <2>1 DEF Inside, Spot
  <2>3. Stage("line", c, r, q, t)'
    BY <1>5, <2>1, <2>2 DEF Stage, Before
  <2> QED
    BY <2>1, <2>3 DEF Goes
<1> QED
  BY <1>7, <1>8, <1>9, <1>10

(* ... any other is stored at the cursor, once that has been loaded, ...   *)
LEMMA Stage_printable ==
  ASSUME Typed, NEW w \in Writers, NEW pg, NEW t, NEW c, c = ch[w], NEW r, r = reg'[w],
         pc[w] \in Before, Stage(pc[w], c, reg[w], pg, t), NEW q, q = Typeset(pg, c), printable(w)
  PROVE  \/ \E m \in {"column", "cell"} : Goes(w, m, c, r, pg, t)
         \/ Goes(w, "next", c, r, q, t)
<1>k. COLS \in Nat \ {0} /\ ROWS \in Nat \ {0} /\ reg \in [Writers -> Int]
  BY Rows DEF Typed
<1>0. cursor_x \in Nat /\ cursor_y \in Nat
  BY DEF Typed
<1>1. Rest(pg, t) /\ UNCHANGED <<cursor_x, cursor_y>>
  <2>1. UNCHANGED <<cursor_x, cursor_y>>
    BY DEF printable, cell, Load
  <2> QED
    BY <2>1 DEF Stage, Before
<1>2. t \in Nat /\ Drawn(pg, t) /\ Spot(pg, t, cursor_y, cursor_x)
  BY <1>1 DEF Rest, Drawn
<1>3. CASE pc[w] = "putc"
  <2>1. /\ c \notin Control /\ video_memory' = video_memory /\ pc' = [pc EXCEPT ![w] = "column"]
        /\ r = cursor_y * COLS
    BY <1>3, <1>k DEF printable, cell, Load
  <2>2. Rest(pg, t)'
    BY <1>1, <2>1, DrawnSame DEF Rest, Inside, Spot
  <2>3. Stage("column", c, r, pg, t)'
    BY <1>1, <2>1, <2>2 DEF Stage, Before
  <2> QED
    BY <2>1, <2>3 DEF Goes
<1>4. CASE pc[w] = "column"
  <2>1. /\ video_memory' = video_memory /\ pc' = [pc EXCEPT ![w] = "cell"]
        /\ r = reg[w] + cursor_x
    BY <1>4, <1>k DEF printable, cell, Load
  <2>2. Rest(pg, t)'
    BY <1>1, <2>1, DrawnSame DEF Rest, Inside, Spot
  <2>3. c \notin Control /\ reg[w] = cursor_y * COLS
    BY <1>4 DEF Stage
  <2>4. Stage("cell", c, r, pg, t)'
    BY <1>1, <2>1, <2>2, <2>3 DEF Stage, Before
  <2> QED
    BY <2>1, <2>4 DEF Goes
<1>5. CASE pc[w] = "cell"
  <2>1. c \notin Control /\ reg[w] = cursor_y * COLS + cursor_x
    BY <1>5 DEF Stage
  <2>2. /\ pc' = [pc EXCEPT ![w] = "next"]
        /\ video_memory' = [x \in DOMAIN video_memory |->
                              IF x = cursor_y * COLS + cursor_x THEN c ELSE video_memory[x]]
    BY <1>5, <2>1 DEF printable, cell, Load
  <2>3. Drawn(q, t)'
    <3>1. Drawn(Typeset(pg, c), t)'
      BY <1>0, <1>1, <1>2, <2>1, <2>2, Stage_drawn
    <3> QED
      BY <3>1 DEF Drawn, Under, Shows, CellAt
  <2>4. Spot(q, t, cursor_y, cursor_x + 1)
    <3>1. PICK x \in 0 .. COLS - 1, y \in Nat : x = cursor_x /\ y = cursor_y
      BY <1>0, <1>1, <1>k DEF Rest, Inside
    <3>2. Spot(Typeset(pg, c), t, y, x + 1)
      BY <1>2, <2>1, <3>1, Spots
    <3> QED
      BY <3>1, <3>2
  <2>5. (Inside(t))' /\ Spot(q, t, cursor_y, cursor_x + 1)'
    BY <1>1, <2>4 DEF Rest, Inside, Spot
  <2>6. Stage("next", c, r, q, t)'
    BY <2>3, <2>5 DEF Stage, Before
  <2> QED
    BY <2>2, <2>6 DEF Goes
<1> QED
  BY <1>3, <1>4, <1>5 DEF Before

(* ... and the cursor follows.                                             *)
LEMMA Stage_advance ==
  ASSUME Typed, NEW w \in Writers, NEW pg, NEW t, NEW c, NEW r, r = reg'[w],
         pc[w] \in {"back", "next", "store", "line", "feed"}, Stage(pc[w], c, reg[w], pg, t),
         backspace(w) \/ line_feed(w) \/ printable(w) \/ advance(w)
  PROVE  \E m \in {"store", "feed", "wrap"} : Goes(w, m, c, r, pg, t)
<1>k. COLS \in Nat \ {0} /\ ROWS \in Nat \ {0} /\ reg \in [Writers -> Int]
  BY Rows DEF Typed
<1>0. cursor_x \in Nat /\ cursor_y \in Nat
  BY DEF Typed
<1>1. Drawn(pg, t) /\ Inside(t) /\ t \in Nat
  BY DEF Stage, Drawn
<1>2. PICK x \in 0 .. COLS - 1, y \in 0 .. ROWS - 1 : x = cursor_x /\ y = cursor_y /\ (t > 0 => y = ROWS - 1)
  BY <1>0, <1>1, <1>k DEF Inside
<1>3. video_memory' = video_memory
  BY DEF backspace, line_feed, printable, advance, cell, Test, Load, StoreX, StoreY
<1>4. Drawn(pg, t)'
  BY <1>1, <1>3, DrawnSame
<1>5. CASE pc[w] \in {"back", "next"}
  <2>1. /\ pc' = [pc EXCEPT ![w] = "store"] /\ cursor_x' = x /\ cursor_y' = y
        /\ r = IF pc[w] = "back" THEN x - 1 ELSE x + 1
    BY <1>2, <1>5, <1>k DEF backspace, line_feed, printable, advance, cell, Test, Load, StoreX, StoreY
  <2>2. r \in 0 .. COLS /\ Spot(pg, t, y, r)
    BY <1>2, <1>5, <1>k, <2>1 DEF Stage
  <2>3. (Inside(t))' /\ Spot(pg, t, cursor_y, r)'
    BY <1>1, <1>2, <2>1, <2>2 DEF Inside, Spot
  <2>4. Stage("store", c, r, pg, t)'
    BY <1>4, <2>2, <2>3 DEF Stage, Before
  <2> QED
    BY <2>1, <2>4 DEF Goes
<1>6. CASE pc[w] = "line"
  <2>1. /\ pc' = [pc EXCEPT ![w] = "feed"] /\ cursor_x' = x /\ cursor_y' = y /\ r = y + 1
    BY <1>2, <1>6, <1>k DEF backspace, line_feed, printable, advance, cell, Test, Load, StoreX, StoreY
  <2>2. x = 0 /\ Spot(pg, t, y + 1, 0)
    BY <1>2, <1>6 DEF Stage
  <2>3. (Inside(t))' /\ cursor_x' = 0 /\ r = cursor_y' + 1 /\ Spot(pg, t, r, 0)
    BY <1>1, <1>2, <2>1, <2>2 DEF Inside
  <2>4. Stage("feed", c, r, pg, t)'
    BY <1>4, <2>3 DEF Stage, Before, Spot
  <2> QED
    BY <2>1, <2>4 DEF Goes
<1>7. CASE pc[w] = "feed"
  <2>1. /\ pc' = [pc EXCEPT ![w] = "wrap"] /\ cursor_x' = x /\ cursor_y' = reg[w] % ByteMod
    BY <1>2, <1>7, <1>k DEF backspace, line_feed, printable, advance, cell, Test, Load, StoreX, StoreY
  <2>2. x = 0 /\ reg[w] = y + 1 /\ Spot(pg, t, reg[w], 0)
    BY <1>2, <1>7 DEF Stage
  <2>3. cursor_x' = 0 /\ cursor_y' = y + 1 /\ Spot(pg, t, cursor_y, cursor_x)'
    <3>1. y + 1 \in 0 .. ROWS
      BY <1>k
    <3>2. cursor_y' = y + 1 /\ cursor_x' = 0
      BY <2>1, <2>2, <3>1, Bytes
    <3> QED
      BY <2>2, <3>2 DEF Spot
  <2>4. Stage("wrap", c, r, pg, t)'
    <3>1. /\ cursor_x' <= COLS /\ cursor_y' <= ROWS /\ (cursor_x' = COLS => cursor_y' < ROWS)
          /\ t > 0 => cursor_y' >= ROWS - 1
      BY <1>2, <1>k, <2>3
    <3> QED
      BY <1>4, <2>3, <3>1 DEF Stage, Before
  <2> QED
    BY <2>1, <2>4 DEF Goes
<1>8. CASE pc[w] = "store"
  <2>1. /\ pc' = [pc EXCEPT ![w] = "wrap"] /\ cursor_x' = reg[w] % ByteMod /\ cursor_y' = y
    BY <1>2, <1>8, <1>k DEF backspace, line_feed, printable, advance, cell, Test, Load, StoreX, StoreY
  <2>2. reg[w] \in 0 .. COLS /\ Spot(pg, t, y, reg[w])
    BY <1>2, <1>8 DEF Stage
  <2>3. cursor_x' = reg[w] /\ Spot(pg, t, cursor_y, cursor_x)'
    <3>1. cursor_x' = reg[w]
      BY <2>1, <2>2, Bytes
    <3> QED
      BY <2>1, <2>2, <3>1 DEF Spot
  <2>4. Stage("wrap", c, r, pg, t)'
    <3>1. /\ cursor_x' <= COLS /\ cursor_y' <= ROWS /\ (cursor_x' = COLS => cursor_y' < ROWS)
          /\ t > 0 => cursor_y' >= ROWS - 1
      BY <1>2, <1>k, <2>1, <2>2, <2>3
    <3> QED
      BY <1>4, <2>3, <3>1 DEF Stage, Before
  <2> QED
    BY <2>1, <2>4 DEF Goes
<1> QED
  BY <1>5, <1>6, <1>7, <1>8

(* Wrapping: a full row ends, and the page goes on below it.               *)
LEMMA Stage_wrap ==
  ASSUME Typed, NEW w \in Writers, NEW pg, NEW t, NEW c, NEW r, r = reg'[w],
         pc[w] \in {"wrap", "zero", "row", "down"}, Stage(pc[w], c, reg[w], pg, t), wrap(w)
  PROVE  \E m \in {"zero", "row", "down", "scroll"} : Goes(w, m, c, r, pg, t)
<1>k. COLS \in Nat \ {0} /\ ROWS \in Nat \ {0} /\ reg \in [Writers -> Int] /\ 0 % ByteMod = 0
  BY Rows, Bytes DEF Typed
<1>0. cursor_x \in Nat /\ cursor_y \in Nat
  BY DEF Typed
<1>1. Drawn(pg, t) /\ t \in Nat
  BY DEF Stage, Drawn
<1>2. video_memory' = video_memory
  BY DEF wrap, Test, Load, StoreX, StoreY
<1>3. Drawn(pg, t)'
  BY <1>1, <1>2, DrawnSame
<1>4. CASE pc[w] = "wrap"
  <2>1. /\ pc' = [pc EXCEPT ![w] = IF cursor_x >= COLS THEN "zero" ELSE "scroll"]
        /\ cursor_x' = cursor_x /\ cursor_y' = cursor_y
    BY <1>4 DEF wrap, Test, Load, StoreX, StoreY
  <2>2. /\ Spot(pg, t, cursor_y, cursor_x) /\ cursor_x <= COLS /\ cursor_y <= ROWS
        /\ cursor_x = COLS => cursor_y < ROWS
        /\ t > 0 => cursor_y >= ROWS - 1
    BY <1>4 DEF Stage
  <2>3. CASE cursor_x >= COLS
    <3>1. PICK y \in 0 .. ROWS - 1 : y = cursor_y
      BY <1>0, <1>k, <2>2, <2>3
    <3>2. cursor_x = COLS /\ (t > 0 => y = ROWS - 1)
      BY <1>0, <1>k, <2>2, <2>3, <3>1
    <3>3. Spot(pg, t, y + 1, 0)
      <4>1. PICK d \in Nat : d = COLS
        BY <1>k
      <4>2. (t + y) * d + d = (t + (y + 1)) * d + 0
        BY <1>1, <1>k, <3>1
      <4> QED
        BY <2>2, <3>1, <3>2, <4>1, <4>2 DEF Spot
    <3>4. Stage("zero", c, r, pg, t)'
      <4>1. /\ cursor_x' = COLS /\ cursor_y' < ROWS /\ (t > 0 => cursor_y' = ROWS - 1)
            /\ Spot(pg, t, cursor_y + 1, 0)'
        BY <1>k, <2>1, <3>1, <3>2, <3>3 DEF Spot
      <4> QED
        BY <1>3, <4>1 DEF Stage, Before
    <3> QED
      BY <2>1, <2>3, <3>4 DEF Goes
  <2>4. CASE ~(cursor_x >= COLS)
    <3>1. /\ Spot(pg, t, cursor_y, cursor_x)' /\ cursor_x' < COLS /\ cursor_y' <= ROWS
          /\ t > 0 => cursor_y' >= ROWS - 1
      BY <1>0, <1>k, <2>1, <2>2, <2>4 DEF Spot
    <3>2. Stage("scroll", c, r, pg, t)'
      BY <1>3, <3>1 DEF Stage, Before
    <3> QED
      BY <2>1, <2>4, <3>2 DEF Goes
  <2> QED
    BY <2>3, <2>4
<1>5. CASE pc[w] = "zero"
  <2>1. pc' = [pc EXCEPT ![w] = "row"] /\ cursor_x' = 0 /\ cursor_y' = cursor_y
    BY <1>5, <1>k DEF wrap, Test, Load, StoreX, StoreY
  <2>2. cursor_y < ROWS /\ (t > 0 => cursor_y = ROWS - 1) /\ Spot(pg, t, cursor_y + 1, 0)
    BY <1>5 DEF Stage
  <2>3. (Inside(t))' /\ Spot(pg, t, cursor_y + 1, 0)'
    BY <1>k, <2>1, <2>2 DEF Inside, Spot
  <2>4. Stage("row", c, r, pg, t)'
    BY <1>3, <2>1, <2>3 DEF Stage, Before
  <2> QED
    BY <2>1, <2>4 DEF Goes
<1>6. CASE pc[w] = "row"
  <2>1. /\ pc' = [pc EXCEPT ![w] = "down"] /\ cursor_x' = cursor_x /\ cursor_y' = cursor_y
        /\ r = cursor_y + 1
    BY <1>6, <1>k DEF wrap, Test, Load, StoreX, StoreY
  <2>2. Inside(t) /\ cursor_x = 0 /\ Spot(pg, t, cursor_y + 1, 0)
    BY <1>6 DEF Stage
  <2>3. (Inside(t))' /\ cursor_x' = 0 /\ r = cursor_y' + 1 /\ Spot(pg, t, r, 0)
    BY <2>1, <2>2 DEF Inside
  <2>4. Stage("down", c, r, pg, t)'
    BY <1>3, <2>3 DEF Stage, Before, Spot
  <2> QED
    BY <2>1, <2>4 DEF Goes
<1>7. CASE pc[w] = "down"
  <2>1. /\ pc' = [pc EXCEPT ![w] = "scroll"] /\ cursor_x' = cursor_x /\ cursor_y' = reg[w] % ByteMod
    BY <1>7, <1>k DEF wrap, Test, Load, StoreX, StoreY
  <2>2. Inside(t) /\ cursor_x = 0 /\ reg[w] = cursor_y + 1 /\ Spot(pg, t, reg[w], 0)
    BY <1>7 DEF Stage
  <2>3. PICK y \in 0 .. ROWS - 1 : y = cursor_y /\ (t > 0 => y = ROWS - 1)
    BY <1>0, <1>k, <2>2 DEF Inside
  <2>4. cursor_x' = 0 /\ cursor_y' = y + 1
    <3>1. y + 1 \in 0 .. ROWS
      BY <1>k
    <3> QED
      BY <2>1, <2>2, <2>3, <3>1, Bytes
  <2>5. /\ Spot(pg, t, cursor_y, cursor_x)' /\ cursor_x' < COLS /\ cursor_y' <= ROWS
        /\ t > 0 => cursor_y' >= ROWS - 1
    BY <1>k, <2>2, <2>3, <2>4 DEF Spot
  <2>6. Stage("scroll", c, r, pg, t)'
    BY <1>3, <2>5 DEF Stage, Before
  <2> QED
    BY <2>1, <2>6 DEF Goes
<1> QED
  BY <1>4, <1>5, <1>6, <1>7

(* The screen moves up a row: there is nothing yet on the page in the row  *)
(* that appears.                                                           *)
LEMMA Stage_shift ==
  ASSUME NEW pg, NEW t, Drawn(pg, t), video_memory' = Shifted
  PROVE  Drawn(pg, t + 1)'
<1>1. Drawn(pg, t) /\ t \in Nat
  BY DEF Drawn
<1>2. video_memory' = Shifted
  OBVIOUS
<1>k. COLS \in Nat \ {0} /\ ROWS \in Nat \ {0} /\ Size = ROWS * COLS /\ Size \in Nat
  BY Rows, Times
<1> QED
  <2>2. PICK n \in Nat, d \in Nat : n = t * COLS /\ d = COLS
    BY <1>1, <1>k, Times
  <2>3. (t + 1) * COLS = n + d /\ (t + ROWS) * COLS = n + Size /\ ((t + 1) + ROWS) * COLS = n + Size + d
    BY <1>1, <1>k, <2>2
  <2>4. Under(pg, t + 1)'
    <3>1. \A y \in DOMAIN pg.cells : y \in Nat /\ y < n + Size
      BY <1>1, <2>3 DEF Drawn, Under
    <3>2. \A y \in DOMAIN pg.cells : y \in Nat /\ y < n + Size + d
      BY <1>k, <2>2, <3>1
    <3> QED
      BY <2>3, <3>2 DEF Under
  <2>5. DOMAIN video_memory = 0 .. Size - 1
    BY <1>1 DEF Drawn
  <2>6. video_memory' = [x \in 0 .. Size - 1 |-> IF x < Size - d THEN video_memory[x + d] ELSE Blank]
    BY <1>2, <2>2, <2>5 DEF Shifted
  <2>7. ASSUME NEW x \in 0 .. Size - 1 PROVE video_memory'[x] = CellAt(pg, (n + d) + x)
    <3>1. CASE x < Size - d
      <4>1. x + d \in 0 .. Size - 1 /\ n + (x + d) = (n + d) + x
        BY <1>k, <2>2, <3>1
      <4>2. video_memory[x + d] = CellAt(pg, n + (x + d))
        BY <1>1, <2>2, <4>1 DEF Drawn, Shows
      <4>3. video_memory'[x] = video_memory[x + d]
        BY <2>6, <3>1
      <4> QED
        BY <4>1, <4>2, <4>3
    <3>2. CASE ~(x < Size - d)
      <4>1. PICK y \in Nat : y = (n + d) + x /\ ~(y < n + Size)
        BY <1>k, <2>2, <3>2
      <4>2. y \notin DOMAIN pg.cells
        BY <1>1, <2>3, <4>1 DEF Drawn, Under
      <4>3. video_memory'[x] = Blank
        BY <2>6, <3>2
      <4> QED
        BY <4>1, <4>2, <4>3 DEF CellAt
    <3> QED
      BY <3>1, <3>2
  <2>8. Shows(pg, t + 1)'
    BY <2>3, <2>7 DEF Shows, CellAt
  <2> QED
    BY <1>1, <2>4, <2>6, <2>8 DEF Drawn

(* It does if the cursor is below the screen, and the cursor follows.      *)
LEMMA Stage_scroll ==
  ASSUME Typed, NEW w \in Writers, NEW pg, NEW t, NEW c, NEW r, r = reg'[w],
         pc[w] \in {"scroll", "shift", "last"}, Stage(pc[w], c, reg[w], pg, t), screen_scroll(w)
  PROVE  \/ \E m \in {"shift", "cursor"} : Goes(w, m, c, r, pg, t)
         \/ Goes(w, "last", c, r, pg, t + 1)
<1>k. COLS \in Nat \ {0} /\ ROWS \in Nat \ {0}
  BY Rows
<1>0. cursor_x \in Nat /\ cursor_y \in Nat
  BY DEF Typed
<1>1. Drawn(pg, t) /\ t \in Nat
  BY DEF Stage, Drawn
<1>2. CASE pc[w] = "scroll"
  <2>1. /\ pc' = [pc EXCEPT ![w] = IF Below THEN "shift" ELSE "cursor"]
        /\ cursor_x' = cursor_x /\ cursor_y' = cursor_y /\ video_memory' = video_memory
    BY <1>2 DEF screen_scroll, shift, Test, StoreY
  <2>2. /\ Spot(pg, t, cursor_y, cursor_x) /\ cursor_x < COLS /\ cursor_y <= ROWS
        /\ t > 0 => cursor_y >= ROWS - 1
    BY <1>2 DEF Stage
  <2>3. Drawn(pg, t)' /\ Spot(pg, t, cursor_y, cursor_x)'
    BY <1>1, <2>1, <2>2, DrawnSame DEF Spot
  <2>4. CASE Below
    <3>1. cursor_y' = ROWS /\ cursor_x' < COLS /\ cursor_y' <= ROWS /\ (t > 0 => cursor_y' >= ROWS - 1)
      BY <1>0, <1>k, <2>1, <2>2, <2>4 DEF Below
    <3>2. Stage("shift", c, r, pg, t)'
      BY <2>3, <3>1 DEF Stage, Before
    <3> QED
      BY <2>1, <2>4, <3>2 DEF Goes
  <2>5. CASE ~Below
    <3>1. (Inside(t))'
      BY <1>0, <1>k, <2>1, <2>2, <2>5 DEF Below, Inside
    <3>2. Stage("cursor", c, r, pg, t)'
      BY <2>3, <3>1 DEF Stage, Before, Rest
    <3> QED
      BY <2>1, <2>5, <3>2 DEF Goes
  <2> QED
    BY <2>4, <2>5
<1>3. CASE pc[w] = "shift"
  <2>1. /\ pc' = [pc EXCEPT ![w] = "last"] /\ video_memory' = Shifted
        /\ cursor_x' = cursor_x /\ cursor_y' = cursor_y
    BY <1>3 DEF screen_scroll, shift, Test, StoreY
  <2>2. Spot(pg, t, cursor_y, cursor_x) /\ cursor_x < COLS /\ cursor_y = ROWS
    BY <1>3 DEF Stage
  <2>3. PICK u : u = t + 1
    OBVIOUS
  <2>4. Drawn(pg, u)'
    <3>1. Drawn(pg, t + 1)'
      BY <1>1, <2>1, Stage_shift
    <3> QED
      BY <2>3, <3>1 DEF Drawn, Under, Shows, CellAt
  <2>5. Spot(pg, u, ROWS - 1, cursor_x)'
    <3>1. u + (ROWS - 1) = t + ROWS
      BY <1>1, <1>k, <2>3
    <3> QED
      BY <2>1, <2>2, <3>1 DEF Spot
  <2>6. (Stage("last", c, r, pg, u))'
    BY <2>1, <2>2, <2>4, <2>5 DEF Stage, Before
  <2>7. Goes(w, "last", c, r, pg, u)
    BY <2>1, <2>6 DEF Goes
  <2> QED
    BY <2>3, <2>7
<1>4. CASE pc[w] = "last"
  <2>1. /\ pc' = [pc EXCEPT ![w] = "cursor"] /\ video_memory' = video_memory
        /\ cursor_x' = cursor_x /\ cursor_y' = LastRow % ByteMod
    BY <1>4 DEF screen_scroll, shift, Test, StoreY
  <2>2. Spot(pg, t, ROWS - 1, cursor_x) /\ cursor_x < COLS
    BY <1>4 DEF Stage
  <2>3. cursor_y' = ROWS - 1
    <3>1. ROWS - 1 \in 0 .. ROWS
      BY <1>k
    <3> QED
      BY <2>1, <3>1, Bytes DEF LastRow
  <2>4. (Inside(t))' /\ Spot(pg, t, cursor_y, cursor_x)'
    BY <1>k, <2>1, <2>2, <2>3 DEF Inside, Spot
  <2>5. Drawn(pg, t)'
    BY <1>1, <2>1, DrawnSame
  <2>6. Stage("cursor", c, r, pg, t)'
    BY <2>4, <2>5 DEF Stage, Before, Rest
  <2> QED
    BY <2>1, <2>6 DEF Goes
<1> QED
  BY <1>2, <1>3, <1>4

(* The hardware cursor follows, too: its two bytes hold its place.         *)
LEMMA Stage_cursor ==
  ASSUME Typed, NEW pg, NEW t, NEW w \in Writers, Rest(pg, t), move_cursor(w)
  PROVE  Rest(pg, t)' /\ Hardware'
<1>k. PICK b \in Nat \ {0} : b = ByteMod /\ COLS \in Nat \ {0} /\ ROWS \in Nat \ {0} /\ ROWS * COLS <= b * b
  BY Rows, MonitorAssumption
<1>0. cursor_x \in Nat /\ cursor_y \in Nat
  BY DEF Typed
<1>1. UNCHANGED <<cursor_x, cursor_y, video_memory>>
  BY DEF move_cursor
<1>2. Rest(pg, t)'
  BY <1>1, DrawnSame DEF Rest, Inside, Spot
<1>3. PICK a \in Nat : a = cursorLocation /\ a < b * b
  <2>1. PICK x \in Nat, y \in Nat : x = cursor_x /\ y = cursor_y /\ x < COLS /\ y + 1 <= ROWS
    BY <1>0, <1>k DEF Rest, Inside
  <2>2. y * COLS \in Nat /\ (y + 1) * COLS = y * COLS + COLS /\ (y + 1) * COLS <= ROWS * COLS
    BY <1>k, <2>1, Times
  <2>3. PICK m \in Nat, z \in Nat, d \in Nat, e \in Nat : m = y * COLS /\ z = ROWS * COLS /\ d = COLS /\ e = b * b
    BY <1>k, <2>2, Times
  <2>4. m + d <= z /\ z <= e /\ x < d
    BY <1>k, <2>1, <2>2, <2>3
  <2>5. m + x < e /\ m + x \in Nat
    BY <2>4
  <2>6. m + x = cursorLocation
    BY <2>1, <2>3 DEF cursorLocation
  <2> QED
    BY <2>3, <2>5, <2>6
<1>4. crtc' = [hi |-> (a \div b) % b, lo |-> a % b]
  BY <1>3, <1>k DEF move_cursor
<1>5. PICK q \in Nat, z \in 0 .. b - 1 : q = a \div b /\ z = a % b /\ a = q * b + z
  <2>1. a = b * (a \div b) + (a % b) /\ (a % b) \in 0 .. b - 1 /\ a \div b \in Nat
    OBVIOUS
  <2>2. PICK q \in Nat, z \in 0 .. b - 1 : q = a \div b /\ z = a % b
    BY <2>1
  <2> QED
    BY <2>1, <2>2
<1>6. q % b = q
  <2>1. ~(b <= q)
    <3> SUFFICES ASSUME b <= q PROVE FALSE
      OBVIOUS
    <3>1. b * b <= q * b /\ q * b \in Nat /\ b * b \in Nat
      BY Times
    <3> QED
      BY <1>3, <1>5, <3>1
  <2>2. q \in 0 .. b - 1
    BY <2>1
  <2> QED
    BY <2>2
<1>7. Hardware'
  <2>1. cursorLocation' = a
    BY <1>1, <1>3 DEF cursorLocation
  <2>2. crtc'.hi = q /\ crtc'.lo = z
    BY <1>4, <1>5, <1>6
  <2>3. b * q + z = a
    BY <1>5
  <2> QED
    BY <1>k, <2>1, <2>2, <2>3 DEF Hardware
<1> QED
  BY <1>2, <1>7

-----------------------------------------------------------------------------
(* While no calls have overlapped, the others are idle.                    *)
LEMMA Sole ==
  ASSUME WInv, ~overlap, NEW w \in Writers, pc[w] # "idle"
  PROVE  Busy(w) /\ \A v \in Writers \ {w} : pc[v] = "idle"
BY DEF WInv

(* A step of the only call there is.                                       *)
LEMMA Goes_on ==
  ASSUME Typed, NEW w \in Writers, NEW l \in Labels, pc' = [pc EXCEPT ![w] = l],
         \A v \in Writers \ {w} : pc[v] = "idle",
         l = "idle" => Resting', l # "idle" => Busy(w)'
  PROVE  WInv'
<1>1. pc'[w] = l /\ \A v \in Writers \ {w} : pc'[v] = "idle"
  BY Moves
<1>2. \A u, v \in Writers : pc'[u] # "idle" /\ pc'[v] # "idle" => u = v
  BY <1>1
<1>3. (\A v \in Writers : pc'[v] = "idle") => Resting'
  BY <1>1
<1>4. \A v \in Writers : pc'[v] # "idle" => Busy(v)'
  BY <1>1
<1> QED
  BY <1>2, <1>3, <1>4 DEF WInv

(* The screen stays as it is.                                              *)
LEMMA RestSame ==
  ASSUME NEW pg, NEW t, Rest(pg, t), UNCHANGED <<video_memory, cursor_x, cursor_y, crtc>>
  PROVE  Rest(pg, t)' /\ (Hardware => Hardware')
BY DrawnSame DEF Rest, Drawn, Inside, Spot, Hardware, cursorLocation

(* The page all of which is on the screen.                                 *)
LEMMA RestPage ==
  ASSUME NEW pg, NEW t, pg = page', Rest(pg, t)', Hardware'
  PROVE  Resting'
BY DEF Resting, Rest, Drawn, Under, Shows, CellAt, Inside, Spot, Hardware, cursorLocation

(* The page that is being set.                                             *)
LEMMA Prints ==
  ASSUME NEW w \in Writers, NEW s, NEW t, NEW pg, NEW l, NEW c, NEW r,
         pc'[w] = l, ch'[w] = c, reg'[w] = r, fn'[w] # "monitor_clear",
         page' = Set(s, text'[w], Len(text'[w])), Buffered(w)', (Stage(l, c, r, pg, t))',
         l \in Before => k'[w] > 0 /\ c = text'[w][k'[w]],
         pg = Set(s, text'[w], IF l = "format" THEN 0 ELSE IF l \in Before THEN k'[w] - 1 ELSE k'[w])
  PROVE  Busy(w)'
<1>1. (Stage(pc[w], ch[w], reg[w], Set(s, text[w], Placed(w)), t))'
  <2>1. pg = Set(s, text'[w], Placed(w)')
    BY DEF Placed
  <2>2. PICK n : n = Placed(w)'
    OBVIOUS
  <2> QED
    BY <2>1, <2>2 DEF Stage, Rest, Drawn, Under, Shows, CellAt, Inside, Spot, Hardware, cursorLocation
<1>2. Printing(w, s, t)'
  BY <1>1 DEF Printing
<1> QED
  BY <1>2 DEF Busy

(* printf begins on the page that is there.                                *)
LEMMA Window_printf ==
  ASSUME IInv, WInv, NEW w \in Writers, NEW m \in Messages, printf(w, m)
  PROVE  WInv'
<1>0. Typed
  BY DEF IInv
<1>1. SUFFICES ASSUME ~overlap' PROVE WInv'
  BY DEF WInv
<1>2. ~overlap /\ \A v \in Writers : pc[v] = "idle"
  BY Zenon, <1>1 DEF printf, Begins
<1>3. PICK t : Rest(page, t) /\ Hardware
  BY <1>2 DEF WInv, Resting
<1>4. PICK s : s = page
  OBVIOUS
<1>5. PICK x : x = vsprintf(m.format)
  OBVIOUS
<1>6. x \in Texts /\ Len(x) < BufSize /\ m.fn \in Fns
  BY <1>5, MonitorAssumption
<1>7. /\ pc' = [pc EXCEPT ![w] = "format"] /\ fn' = [fn EXCEPT ![w] = m.fn]
      /\ text' = [text EXCEPT ![w] = x] /\ k' = [k EXCEPT ![w] = 0]
      /\ page' = FoldLeft(Typeset, page, text'[w])
      /\ UNCHANGED <<video_memory, cursor_x, cursor_y, crtc>>
  BY <1>5 DEF printf
<1>8. "format" \in Labels /\ "format" \notin Before
  BY DEF Labels, Before
<1>9. pc'[w] = "format" /\ text'[w] = x /\ k'[w] = 0 /\ fn'[w] = m.fn
  BY <1>0, <1>7 DEF Typed
<1>10. page' = Set(s, x, Len(x)) /\ Set(s, x, 0) = s
  <2>1. page' = FoldLeft(Typeset, s, x)
    BY <1>4, <1>7, <1>9
  <2> QED
    BY <1>6, <2>1, SetFacts DEF Texts
<1>11. Buffered(w)'
  <2>1. Len(x) \in Nat /\ 0 .. 0 - 1 = {}
    BY <1>6 DEF Texts
  <2> QED
    BY <1>6, <1>9, <2>1 DEF Buffered
<1>12. PICK c, r : c = ch'[w] /\ r = reg'[w]
  OBVIOUS
<1>13. (Stage("format", c, r, s, t))'
  <2>1. Rest(s, t)' /\ Hardware'
    BY <1>3, <1>4, <1>7, RestSame
  <2> QED
    BY <2>1 DEF Stage, Before
<1>14. fn'[w] # "monitor_clear"
  BY <1>6, <1>9 DEF Fns
<1>15. Busy(w)'
  BY <1>8, <1>9, <1>10, <1>11, <1>12, <1>13, <1>14, Prints
<1> QED
  BY <1>0, <1>2, <1>7, <1>8, <1>15, Goes_on

(* vsprintf fills the buffer.                                              *)
LEMMA Window_format ==
  ASSUME IInv, WInv, NEW w \in Writers, format(w)
  PROVE  WInv'
<1>0. Typed /\ ReadsInside
  BY DEF IInv
<1>1. /\ pc[w] = "format"
      /\ UNCHANGED <<video_memory, cursor_x, cursor_y, crtc, fn, text, ch, reg, page, overlap>>
  BY DEF format
<1>2. SUFFICES ASSUME ~overlap PROVE WInv'
  BY <1>1 DEF WInv
<1>3. Busy(w) /\ \A v \in Writers \ {w} : pc[v] = "idle"
  BY <1>1, <1>2, Sole
<1>4. fn[w] \in Fns /\ fn[w] # "monitor_clear" /\ k[w] \in Slots /\ k[w] \in Nat
  BY <1>0, <1>1 DEF Typed, Fns, ReadsInside
<1>5. PICK s, t : Printing(w, s, t)
  BY <1>3, <1>4 DEF Busy
<1>6. PICK x \in Texts : x = text[w] /\ Len(x) < BufSize
  BY <1>5 DEF Printing, Buffered
<1>7. PICK n \in Nat : n = k[w] /\ n <= Len(x) /\ \A j \in 0 .. n - 1 : buff[fn[w]][j] = x[j + 1]
  BY <1>1, <1>4, <1>5, <1>6 DEF Printing, Buffered
<1>8. page' = Set(s, x, Len(x)) /\ Rest(s, t) /\ Hardware /\ Set(s, x, 0) = s
  <2>1. Set(s, x, 0) = s
    BY SetFacts DEF Texts
  <2>2. page = Set(s, x, Len(x)) /\ Stage("format", ch[w], reg[w], s, t)
    <3>1. Placed(w) = 0
      BY <1>1 DEF Placed
    <3> QED
      BY <1>1, <1>5, <1>6, <2>1, <3>1 DEF Printing
  <2> QED
    BY <1>1, <2>1, <2>2 DEF Stage
<1>s. PICK c0, r0 : c0 = ch'[w] /\ r0 = reg'[w]
  OBVIOUS
<1>r. (Stage("format", c0, r0, s, t))' /\ (Stage("write", c0, r0, s, t))'
  <2>1. Rest(s, t)' /\ Hardware'
    BY <1>1, <1>8, RestSame
  <2> QED
    BY <2>1 DEF Stage, Before
<1>b. "format" \notin Before /\ "write" \notin Before
  BY DEF Before
<1>9. Len(x) \in Nat
  BY DEF Texts
<1>10. PICK c : /\ buff' = [buff EXCEPT ![fn[w]][n] = c]
                /\ c = IF n < Len(x) THEN x[n + 1] ELSE NUL
  BY <1>6, <1>7 DEF format
<1>11. buff'[fn[w]][n] = c /\ \A j \in 0 .. n - 1 : buff'[fn[w]][j] = x[j + 1]
  <2>1. DOMAIN buff = Fns /\ DOMAIN buff[fn[w]] = Slots
    BY <1>0, <1>4 DEF Typed
  <2>2. buff'[fn[w]] = [buff[fn[w]] EXCEPT ![n] = c]
    BY <1>4, <1>10, <2>1
  <2>3. \A j \in 0 .. n - 1 : j \in Slots /\ j # n
    BY <1>4, <1>7, Rows
  <2> QED
    BY <1>4, <1>7, <2>1, <2>2, <2>3
<1>12. CASE n < Len(x)
  <2>1. pc' = pc /\ k'[w] = n + 1
    BY <1>0, <1>6, <1>7, <1>12 DEF format, Typed
  <2>3. \A j \in 0 .. (n + 1) - 1 : buff'[fn[w]][j] = x[j + 1]
    BY <1>10, <1>11, <1>12
  <2>4. Buffered(w)'
    <3>1. text'[w] = x /\ pc'[w] = "format" /\ fn'[w] = fn[w] /\ n + 1 <= Len(x)
      BY <1>1, <1>6, <1>9, <1>12, <2>1
    <3> QED
      BY <1>6, <2>1, <2>3, <3>1 DEF Buffered
  <2>5. Busy(w)'
    BY <1>1, <1>4, <1>6, <1>8, <1>s, <1>r, <1>b, <2>1, <2>4, Prints
  <2>6. pc' = [pc EXCEPT ![w] = "format"] /\ "format" \in Labels
    BY <1>0, <1>1, <2>1 DEF Typed, Labels
  <2> QED
    BY <1>0, <1>3, <2>5, <2>6, Goes_on
<1>13. CASE ~(n < Len(x))
  <2>1. n = Len(x) /\ c = NUL
    BY <1>7, <1>9, <1>10, <1>13
  <2>2. pc' = [pc EXCEPT ![w] = "write"] /\ k'[w] = 0 /\ pc'[w] = "write" /\ "write" \in Labels
    BY <1>0, <1>6, <1>7, <1>13 DEF format, Typed, Labels
  <2>4. Buffered(w)'
    <3>1. text'[w] = x /\ fn'[w] = fn[w] /\ 0 <= Len(x)
      BY <1>1, <1>6, <1>9
    <3> QED
      BY <1>6, <1>11, <2>1, <2>2, <3>1 DEF Buffered
  <2>5. Busy(w)'
    BY <1>1, <1>4, <1>6, <1>8, <1>s, <1>r, <1>b, <2>2, <2>4, Prints
  <2> QED
    BY <1>0, <1>3, <2>2, <2>5, Goes_on
<1> QED
  BY <1>12, <1>13

(* What monitor_write finds in the buffer is the text.                     *)
LEMMA Window_write ==
  ASSUME IInv, WInv, NEW w \in Writers, monitor_write(w)
  PROVE  WInv'
<1>0. Typed /\ ReadsInside
  BY DEF IInv
<1>1. pc[w] = "write" /\ UNCHANGED <<buff, video_memory, cursor_x, cursor_y, crtc, reg, page, overlap>>
  BY DEF monitor_write
<1>2. SUFFICES ASSUME ~overlap PROVE WInv'
  BY <1>1 DEF WInv
<1>3. Busy(w) /\ \A v \in Writers \ {w} : pc[v] = "idle"
  BY <1>1, <1>2, Sole
<1>4. fn[w] # "monitor_clear" /\ k[w] \in Nat /\ cursor_x \in Nat /\ cursor_y \in Nat
  BY <1>0, <1>1 DEF Typed, Fns
<1>5. PICK s, t : Printing(w, s, t)
  BY <1>3, <1>4 DEF Busy
<1>6. PICK x \in Texts : x = text[w] /\ Len(x) < BufSize
  BY <1>5 DEF Printing, Buffered
<1>7. PICK n \in Nat : n = k[w] /\ n <= Len(x)
  BY <1>4, <1>5, <1>6 DEF Printing, Buffered
<1>8. buff[fn[w]][Len(x)] = NUL /\ \A j \in 0 .. Len(x) - 1 : buff[fn[w]][j] = x[j + 1]
  BY <1>1, <1>5, <1>6 DEF Printing, Buffered
<1>9. PICK pg : pg = Set(s, x, n)
  OBVIOUS
<1>10. page = Set(s, x, Len(x)) /\ Rest(pg, t)' /\ Hardware'
  <2>1. Placed(w) = n
    BY <1>1, <1>7 DEF Placed, Before
  <2>2. page = Set(s, x, Len(x)) /\ Stage("write", ch[w], reg[w], pg, t)
    BY <1>1, <1>5, <1>6, <1>9, <2>1 DEF Printing
  <2>3. Rest(pg, t) /\ Hardware
    BY <2>2 DEF Stage
  <2> QED
    BY <1>1, <2>2, <2>3, RestSame
<1>11. Len(x) \in Nat /\ \A j \in 1 .. Len(x) : x[j] # NUL
  BY DEF Texts
<1>12. PICK c : c = buff[fn[w]][n]
  OBVIOUS
<1>13. CASE c = NUL
  <2>1. n = Len(x)
    <3> SUFFICES ASSUME n # Len(x) PROVE FALSE
      OBVIOUS
    <3>1. n \in 0 .. Len(x) - 1 /\ n + 1 \in 1 .. Len(x)
      BY <1>7, <1>11
    <3> QED
      BY <1>8, <1>11, <1>12, <1>13, <3>1
  <2>2. pc' = [pc EXCEPT ![w] = "idle"]
    BY <1>7, <1>12, <1>13 DEF monitor_write
  <2>3. pg = page'
    BY <1>1, <1>9, <1>10, <2>1
  <2>4. Resting'
    BY <1>10, <2>3, RestPage
  <2> QED
    BY <1>0, <1>3, <2>2, <2>4, Goes_on DEF Labels
<1>14. CASE c # NUL
  <2>1. n \in 0 .. Len(x) - 1
    BY <1>7, <1>8, <1>11, <1>12, <1>14
  <2>2. c = x[n + 1]
    BY <1>8, <1>12, <2>1
  <2>3. /\ pc' = [pc EXCEPT ![w] = "putc"] /\ ch' = [ch EXCEPT ![w] = c] /\ k' = [k EXCEPT ![w] = @ + 1]
        /\ fn' = fn /\ text' = text
    BY <1>7, <1>12, <1>14 DEF monitor_write
  <2>4. pc'[w] = "putc" /\ ch'[w] = c /\ k'[w] = n + 1 /\ "putc" \in Labels /\ "putc" \in Before
    BY <1>0, <1>7, <2>3 DEF Typed, Labels, Placing, Before
  <2>5. PICK r : r = reg'[w]
    OBVIOUS
  <2>6. (Stage("putc", c, r, pg, t))'
    BY <1>10 DEF Stage
  <2>7. Buffered(w)'
    <3>1. n + 1 <= Len(x)
      BY <1>11, <2>1
    <3> QED
      BY <1>1, <1>6, <1>8, <2>3, <2>4, <3>1 DEF Buffered
  <2>8. k'[w] > 0 /\ c = text'[w][k'[w]] /\ pg = Set(s, text'[w], k'[w] - 1)
    <3>1. text'[w] = x
      BY <1>6, <2>3
    <3>2. k'[w] > 0 /\ k'[w] - 1 = n
      BY <1>7, <2>4
    <3>3. c = text'[w][k'[w]]
      BY <2>2, <2>4, <3>1
    <3>4. pg = Set(s, text'[w], k'[w] - 1)
      BY <1>9, <3>1, <3>2
    <3> QED
      BY <3>2, <3>3, <3>4
  <2>9. Busy(w)'
    <3>1. page' = Set(s, text'[w], Len(text'[w]))
      BY <1>1, <1>6, <1>10, <2>3
    <3>2. pg = Set(s, text'[w], IF "putc" = "format" THEN 0
                                ELSE IF "putc" \in Before THEN k'[w] - 1 ELSE k'[w])
      BY <2>4, <2>8
    <3>3. fn'[w] # "monitor_clear" /\ reg'[w] = r
      BY <1>4, <2>3, <2>5
    <3> QED
      BY <2>4, <2>6, <2>7, <2>8, <3>1, <3>2, <3>3, Prints
  <2> QED
    BY <1>0, <1>3, <2>3, <2>4, <2>9, Goes_on
<1> QED
  BY <1>13, <1>14

(* The steps of monitor_putc_color before move_cursor.                     *)
LEMMA Window_place ==
  ASSUME IInv, WInv, NEW w \in Writers, pc[w] \in Placing, monitor_putc_color(w), ~move_cursor(w)
  PROVE  WInv'
<1>0. Typed
  BY DEF IInv
<1>1. UNCHANGED <<buff, text, k, fn, ch, page, overlap>>
  BY DEF monitor_putc_color, backspace, tabulator, carriage_return, line_feed, printable, cell, advance,
         wrap, screen_scroll, shift, Test, Load, StoreX, StoreY
<1>2. SUFFICES ASSUME ~overlap PROVE WInv'
  BY <1>1 DEF WInv
<1>3. /\ \A l \in Placing : l \in Labels /\ l # "idle" /\ l # "format"
      /\ "cursor" \in Labels /\ "cursor" \notin Before
  BY DEF Placing, OwesY, Labels, Before
<1>4. Busy(w) /\ \A v \in Writers \ {w} : pc[v] = "idle"
  BY <1>2, <1>3, Sole
<1>5. fn[w] # "monitor_clear" /\ k[w] \in Nat
  BY <1>0 DEF Typed, Fns
<1>6. PICK s, t : Printing(w, s, t)
  BY <1>4, <1>5 DEF Busy
<1>7. PICK x \in Texts : x = text[w]
  BY <1>6 DEF Printing, Buffered
<1>8. PICK n \in Nat : n = k[w] /\ n <= Len(x)
  BY <1>5, <1>6, <1>7 DEF Printing, Buffered
<1>9. PICK c : c = ch[w]
  OBVIOUS
<1>10. PICK r : r = reg'[w]
  OBVIOUS
<1>11. page = Set(s, x, Len(x)) /\ Buffered(w)
  BY <1>6, <1>7 DEF Printing
<1>12. PICK pg : pg = Set(s, x, IF pc[w] \in Before THEN n - 1 ELSE n)
  OBVIOUS
<1>13. Stage(pc[w], c, reg[w], pg, t)
  <2>1. Placed(w) = IF pc[w] \in Before THEN n - 1 ELSE n
    BY <1>3, <1>8 DEF Placed
  <2> QED
    BY <1>6, <1>7, <1>9, <1>12, <2>1 DEF Printing
<1>14. PICK q : q = IF pc[w] \in Before THEN Typeset(pg, c) ELSE pg
  OBVIOUS
<1>15. pc[w] \in Before => n > 0 /\ c = x[n]
  BY <1>6, <1>7, <1>8, <1>9 DEF Printing
<1>16. q = Set(s, x, n)
  <2>1. CASE pc[w] \in Before
    <3>1. PICK i \in 0 .. Len(x) - 1 : n = i + 1
      <4>1. Len(x) \in Nat /\ n - 1 \in 0 .. Len(x) - 1 /\ n = (n - 1) + 1
        BY <1>8, <1>15, <2>1 DEF Texts
      <4> QED
        BY <4>1
    <3>2. Set(s, x, i + 1) = Typeset(Set(s, x, i), x[i + 1])
      <4>1. x \in Seq(STRING \ {NUL})
        BY DEF Texts
      <4> QED
        BY <4>1, SetNext
    <3>3. i = n - 1
      BY <3>1
    <3>4. pg = Set(s, x, i)
      BY <1>12, <2>1, <3>3
    <3> QED
      BY <1>14, <1>15, <2>1, <3>1, <3>2, <3>4
  <2>2. CASE pc[w] \notin Before
    BY <1>12, <1>14, <2>2
  <2> QED
    BY <2>1, <2>2
<1>17. SUFFICES ASSUME NEW m \in Placing \cup {"cursor"}, NEW v, NEW u, Goes(w, m, c, r, v, u),
                       v = IF m \in Before THEN pg ELSE q, m \in Before => pc[w] \in Before
                PROVE  WInv'
  <2>1. CASE pc[w] = "putc" /\ (backspace(w) \/ tabulator(w) \/ carriage_return(w) \/ line_feed(w))
    <3>1. Rest(pg, t) /\ q = Typeset(pg, c)
      BY <1>13, <1>14, <2>1 DEF Stage, Before
    <3>2. PICK m \in {"back", "wrap", "store", "line"} : Goes(w, m, c, r, q, t)
      BY <1>0, <1>9, <1>10, <2>1, <3>1, Stage_control
    <3>3. m \in Placing /\ m \notin Before
      BY DEF Placing, OwesY, Before
    <3> QED
      BY <1>17, <3>2, <3>3
  <2>2. CASE pc[w] \in Before /\ printable(w)
    <3>1. q = Typeset(pg, c)
      BY <1>14, <2>2
    <3>2. \/ \E m \in {"column", "cell"} : Goes(w, m, c, r, pg, t)
          \/ Goes(w, "next", c, r, q, t)
      BY <1>0, <1>9, <1>10, <1>13, <2>2, <3>1, Stage_printable
    <3>3. {"column", "cell"} \subseteq Placing \cap Before /\ "next" \in Placing /\ "next" \notin Before
      BY DEF Placing, Before
    <3> QED
      BY <1>17, <2>2, <3>2, <3>3
  <2>3. CASE /\ pc[w] \in {"back", "next", "store", "line", "feed"}
             /\ backspace(w) \/ line_feed(w) \/ printable(w) \/ advance(w)
    <3>1. q = pg
      BY <1>14, <2>3 DEF Before
    <3>2. PICK m \in {"store", "feed", "wrap"} : Goes(w, m, c, r, pg, t)
      BY <1>0, <1>10, <1>13, <2>3, Stage_advance
    <3>3. m \in Placing /\ m \notin Before
      BY DEF Placing, OwesY, Before
    <3> QED
      BY <1>17, <3>1, <3>2, <3>3
  <2>4. CASE pc[w] \in {"wrap", "zero", "row", "down"} /\ wrap(w)
    <3>1. q = pg
      BY <1>14, <2>4 DEF Before
    <3>2. PICK m \in {"zero", "row", "down", "scroll"} : Goes(w, m, c, r, pg, t)
      BY <1>0, <1>10, <1>13, <2>4, Stage_wrap
    <3>3. m \in Placing /\ m \notin Before
      BY DEF Placing, OwesY, Before
    <3> QED
      BY <1>17, <3>1, <3>2, <3>3
  <2>5. CASE pc[w] \in {"scroll", "shift", "last"} /\ screen_scroll(w)
    <3>1. q = pg
      BY <1>14, <2>5 DEF Before
    <3>2. \/ \E m \in {"shift", "cursor"} : Goes(w, m, c, r, pg, t)
          \/ Goes(w, "last", c, r, pg, t + 1)
      BY <1>0, <1>10, <1>13, <2>5, Stage_scroll
    <3>3. {"shift", "last"} \subseteq Placing /\ "shift" \notin Before /\ "last" \notin Before
      BY DEF Placing, OwesY, Before
    <3> QED
      BY <1>3, <1>17, <3>1, <3>2, <3>3
  <2>6. \/ pc[w] = "putc" /\ (backspace(w) \/ tabulator(w) \/ carriage_return(w) \/ line_feed(w))
        \/ pc[w] \in Before /\ printable(w)
        \/ /\ pc[w] \in {"back", "next", "store", "line", "feed"}
           /\ backspace(w) \/ line_feed(w) \/ printable(w) \/ advance(w)
        \/ pc[w] \in {"wrap", "zero", "row", "down"} /\ wrap(w)
        \/ pc[w] \in {"scroll", "shift", "last"} /\ screen_scroll(w)
    <3>1. backspace(w) => pc[w] \in {"putc", "back"}
      BY DEF backspace, Test, Load
    <3>2. tabulator(w) \/ carriage_return(w) => pc[w] = "putc"
      BY DEF tabulator, carriage_return, Load, StoreX
    <3>3. line_feed(w) => pc[w] \in {"putc", "line", "feed"}
      BY DEF line_feed, StoreX, Load, StoreY
    <3>4. printable(w) => pc[w] \in Before \cup {"next"}
      BY DEF printable, Load, cell, Before
    <3>5. advance(w) => pc[w] = "store"
      BY DEF advance, StoreX
    <3>6. wrap(w) => pc[w] \in {"wrap", "zero", "row", "down"}
      BY DEF wrap, Test, Load, StoreX, StoreY
    <3>7. screen_scroll(w) => pc[w] \in {"scroll", "shift", "last"}
      BY DEF screen_scroll, shift, Test, StoreY
    <3> QED
      BY <3>1, <3>2, <3>3, <3>4, <3>5, <3>6, <3>7 DEF monitor_putc_color
  <2> QED
    BY <2>1, <2>2, <2>3, <2>4, <2>5, <2>6
<1>18. pc' = [pc EXCEPT ![w] = m] /\ (Stage(m, c, r, v, u))' /\ m \in Labels /\ m # "format" /\ m # "idle"
  BY <1>3, <1>17 DEF Goes
<1>19. pc'[w] = m
  BY <1>0, <1>18 DEF Typed
<1>20. Buffered(w)'
  BY <1>1, <1>3, <1>11, <1>18, <1>19 DEF Buffered
<1>21. v = Set(s, x, IF m \in Before THEN n - 1 ELSE n)
  BY <1>12, <1>16, <1>17
<1>22. m \in Before => n > 0 /\ c = x[n]
  BY <1>15, <1>17
<1>23. Busy(w)'
  BY <1>1, <1>5, <1>7, <1>8, <1>9, <1>10, <1>11, <1>18, <1>19, <1>20, <1>21, <1>22, Prints
<1> QED
  BY <1>0, <1>4, <1>18, <1>23, Goes_on

(* move_cursor, at the end of monitor_putc_color or of monitor_clear.      *)
LEMMA Window_cursor ==
  ASSUME IInv, WInv, NEW w \in Writers, move_cursor(w)
  PROVE  WInv'
<1>0. Typed
  BY DEF IInv
<1>1. pc[w] = "cursor" /\ UNCHANGED <<buff, text, k, ch, reg, page, overlap>>
  BY DEF move_cursor
<1>2. SUFFICES ASSUME ~overlap PROVE WInv'
  BY <1>1 DEF WInv
<1>3. Busy(w) /\ \A v \in Writers \ {w} : pc[v] = "idle"
  BY <1>1, <1>2, Sole
<1>4. CASE fn[w] = "monitor_clear"
  <2>1. page = Empty /\ Drawn(page, 0) /\ cursor_x = 0 /\ cursor_y = 0
    BY <1>1, <1>3, <1>4 DEF Busy, Clearing
  <2>2. PICK pg : pg = page
    OBVIOUS
  <2>3. Rest(pg, 0)
    <3>1. pg.pos = 0 /\ 0 = (0 + 0) * COLS + 0 /\ 0 < COLS /\ 0 < ROWS
      BY <2>1, <2>2, Rows DEF Empty
    <3> QED
      BY <2>1, <2>2, <3>1 DEF Rest, Inside, Spot
  <2>4. Rest(pg, 0)' /\ Hardware'
    BY <1>0, <2>3, Stage_cursor
  <2>5. pg = page'
    BY <1>1, <2>2
  <2>6. Resting'
    BY <2>4, <2>5, RestPage
  <2>7. pc' = [pc EXCEPT ![w] = "idle"] /\ "idle" \in Labels
    BY <1>4 DEF move_cursor, Labels
  <2> QED
    BY <1>0, <1>3, <2>6, <2>7, Goes_on
<1>5. CASE fn[w] # "monitor_clear"
  <2>1. PICK s, t : Printing(w, s, t)
    BY <1>3, <1>5 DEF Busy
  <2>2. PICK pg : pg = Set(s, text[w], k[w])
    OBVIOUS
  <2>3. Rest(pg, t) /\ page = Set(s, text[w], Len(text[w])) /\ Buffered(w)
    <3>1. Placed(w) = k[w]
      BY <1>1 DEF Placed, Before
    <3>2. Stage("cursor", ch[w], reg[w], pg, t)
      BY <1>1, <2>1, <2>2, <3>1 DEF Printing
    <3> QED
      BY <2>1, <3>2 DEF Printing, Stage
  <2>4. Rest(pg, t)' /\ Hardware'
    BY <1>0, <2>3, Stage_cursor
  <2>5. PICK c, r : c = ch'[w] /\ r = reg'[w]
    OBVIOUS
  <2>6. (Stage("write", c, r, pg, t))'
    BY <2>4 DEF Stage, Before
  <2>7. /\ fn' = fn /\ pc' = [pc EXCEPT ![w] = "write"] /\ "write" \in Labels /\ "write" \notin Before
    BY <1>5 DEF move_cursor, Labels, Before
  <2>8. pc'[w] = "write"
    BY <1>0, <2>7 DEF Typed
  <2>9. Buffered(w)'
    BY <1>1, <2>3, <2>7, <2>8 DEF Buffered
  <2>10. Busy(w)'
    BY <1>1, <1>5, <2>2, <2>3, <2>5, <2>6, <2>7, <2>8, <2>9, Prints
  <2> QED
    BY <1>0, <1>3, <2>7, <2>10, Goes_on
<1> QED
  BY <1>4, <1>5

(* monitor_clear empties the page with the screen, and the cursor goes     *)
(* home.                                                                   *)
LEMMA Window_clear ==
  ASSUME IInv, WInv, NEW w \in Writers, monitor_clear(w) \/ monitor_home(w)
  PROVE  WInv'
<1>0. Typed
  BY DEF IInv
<1>1. SUFFICES ASSUME ~overlap' PROVE WInv'
  BY DEF WInv
<1>2. CASE monitor_clear(w)
  <2>1. ~overlap /\ \A v \in Writers : pc[v] = "idle"
    BY Zenon, <1>1, <1>2 DEF monitor_clear, Begins
  <2>2. /\ pc' = [pc EXCEPT ![w] = "home"] /\ fn' = [fn EXCEPT ![w] = "monitor_clear"]
        /\ video_memory' = Cleared /\ page' = Empty
    BY <1>2 DEF monitor_clear
  <2>3. pc'[w] = "home" /\ fn'[w] = "monitor_clear" /\ "home" \in Labels
    BY <1>0, <2>2 DEF Typed, Labels, Homing
  <2>4. (Drawn(page, 0))'
    <3>1. DOMAIN page'.cells = {}
      BY <2>2 DEF Empty
    <3>2. DOMAIN video_memory' = 0 .. Size - 1 /\ \A x \in 0 .. Size - 1 : video_memory'[x] = Blank
      BY <2>2 DEF Cleared
    <3> QED
      BY <3>1, <3>2 DEF Drawn, Under, Shows, CellAt
  <2>5. Busy(w)'
    BY <2>2, <2>3, <2>4 DEF Busy, Clearing
  <2> QED
    BY <1>0, <2>1, <2>2, <2>3, <2>5, Goes_on
<1>3. CASE monitor_home(w)
  <2>0. 0 % ByteMod = 0
    BY Bytes, Rows
  <2>1. /\ pc[w] \in Homing /\ UNCHANGED <<video_memory, fn, page, overlap>>
        /\ \/ pc[w] = "home" /\ pc' = [pc EXCEPT ![w] = "top"] /\ cursor_x' = 0
           \/ /\ pc[w] = "top" /\ pc' = [pc EXCEPT ![w] = "cursor"] /\ cursor_x' = cursor_x
              /\ cursor_y' = 0
    BY <1>3, <2>0 DEF monitor_home, StoreX, StoreY, Homing
  <2>2. Busy(w) /\ (\A v \in Writers \ {w} : pc[v] = "idle") /\ fn[w] = "monitor_clear"
    BY <1>0, <1>1, <2>1, Sole DEF Typed, Homing
  <2>3. page = Empty /\ Drawn(page, 0) /\ (pc[w] = "top" => cursor_x = 0)
    BY <2>2 DEF Busy, Clearing
  <2>4. PICK l \in {"top", "cursor"} : pc' = [pc EXCEPT ![w] = l]
    BY <2>1
  <2>5. l \in Labels /\ pc'[w] = l
    BY <1>0, <2>4 DEF Typed, Labels, Homing
  <2>6. (Drawn(page, 0))'
    BY <2>1, <2>3 DEF Drawn, Under, Shows, CellAt
  <2>7. cursor_x' = 0 /\ (l = "cursor" => cursor_y' = 0)
    <3>1. pc[w] = "home" => l = "top"
      BY <1>0, <2>1, <2>5 DEF Typed, Labels, Homing
    <3> QED
      BY <2>1, <2>3, <3>1
  <2>8. Busy(w)'
    BY <2>1, <2>2, <2>3, <2>5, <2>6, <2>7 DEF Busy, Clearing
  <2> QED
    BY <1>0, <2>2, <2>4, <2>5, <2>8, Goes_on
<1> QED
  BY <1>2, <1>3

(* The places of the steps of monitor_putc_color.                          *)
LEMMA PutcPlaces ==
  ASSUME NEW w \in Writers, monitor_putc_color(w)
  PROVE  pc[w] \in Placing \/ move_cursor(w)
BY DEF monitor_putc_color, backspace, tabulator, carriage_return, line_feed, printable, cell, advance,
       wrap, screen_scroll, shift, Test, Load, StoreX, StoreY, Placing, OwesY

(* The screen follows the page through every call that nobody overlaps.    *)
THEOREM PageInvariance == Spec => []WInv
<1>1. Init => WInv
  <2> SUFFICES ASSUME Init PROVE WInv
    OBVIOUS
  <2>1. /\ video_memory = Cleared /\ cursor_x = 0 /\ cursor_y = 0 /\ page = Empty
        /\ crtc = [hi |-> 0, lo |-> 0] /\ pc = [w \in Writers |-> "idle"]
    BY DEF Init
  <2>2. COLS \in Nat \ {0} /\ ROWS \in Nat \ {0}
    BY Rows
  <2>3. Drawn(page, 0)
    <3>1. DOMAIN page.cells = {}
      BY <2>1 DEF Empty
    <3>2. DOMAIN video_memory = 0 .. Size - 1 /\ \A x \in 0 .. Size - 1 : video_memory[x] = Blank
      BY <2>1 DEF Cleared
    <3> QED
      BY <3>1, <3>2 DEF Drawn, Under, Shows, CellAt
  <2>4. page.pos = 0 /\ 0 = (0 + 0) * COLS + 0 /\ 0 < COLS /\ 0 < ROWS /\ ByteMod * 0 + 0 = 0 * COLS + 0
    BY <2>1, <2>2, Rows DEF Empty
  <2>5. Rest(page, 0) /\ Hardware
    BY <2>1, <2>3, <2>4 DEF Rest, Inside, Spot, Hardware, cursorLocation
  <2>6. Resting
    BY <2>5 DEF Resting
  <2>7. \A w \in Writers : pc[w] = "idle"
    BY <2>1
  <2> QED
    BY <2>6, <2>7 DEF WInv
<1>2. IInv /\ WInv /\ [Next]_vars => WInv'
  <2>1. ASSUME IInv, WInv, Next PROVE WInv'
    BY <2>1, Window_printf, Window_format, Window_write, Window_clear,
       Window_place, Window_cursor, PutcPlaces DEF Next
  <2>2. ASSUME WInv, UNCHANGED vars PROVE WInv'
    <3>1. UNCHANGED <<buff, video_memory, cursor_x, cursor_y, crtc, pc, fn, text, k, ch, reg, page, overlap>>
      BY <2>2 DEF vars, screen, cursor, caller
    <3>2. ASSUME NEW l, NEW c, NEW r, NEW pg, NEW t, Stage(l, c, r, pg, t)
          PROVE  (Stage(l, c, r, pg, t))'
      BY <3>1, <3>2, DrawnSame DEF Stage, Rest, Inside, Spot, Hardware, cursorLocation
    <3>3. ASSUME NEW w \in Writers, Busy(w) PROVE Busy(w)'
      <4>1. CASE fn[w] = "monitor_clear"
        BY <3>1, <3>3, <4>1 DEF Busy, Clearing, Drawn, Under, Shows, CellAt
      <4>2. CASE fn[w] # "monitor_clear"
        <5>1. PICK s, t : Printing(w, s, t)
          BY <3>3, <4>2 DEF Busy
        <5>2. PICK l, c, r, pg : l = pc[w] /\ c = ch[w] /\ r = reg[w] /\ pg = Set(s, text[w], Placed(w))
          OBVIOUS
        <5>3. /\ page = Set(s, text[w], Len(text[w])) /\ Stage(l, c, r, pg, t)
              /\ l \in Before => k[w] > 0 /\ c = text[w][k[w]]
          BY <5>1, <5>2 DEF Printing
        <5>4. Buffered(w)'
          BY <3>1, <5>1 DEF Printing, Buffered
        <5>5. (Stage(l, c, r, pg, t))'
          BY <3>2, <5>3
        <5>6. /\ pc'[w] = l /\ ch'[w] = c /\ reg'[w] = r /\ fn'[w] # "monitor_clear"
              /\ page' = Set(s, text'[w], Len(text'[w]))
              /\ l \in Before => k'[w] > 0 /\ c = text'[w][k'[w]]
          BY <3>1, <4>2, <5>2, <5>3
        <5>7. pg = Set(s, text'[w], IF l = "format" THEN 0 ELSE IF l \in Before THEN k'[w] - 1 ELSE k'[w])
          BY <3>1, <5>2 DEF Placed
        <5> QED
          BY <5>4, <5>5, <5>6, <5>7, Prints
      <4> QED
        BY <4>1, <4>2
    <3>4. Resting => Resting'
      BY <3>1 DEF Resting, Rest, Drawn, Under, Shows, CellAt, Inside, Spot, Hardware, cursorLocation
    <3> QED
      BY <2>2, <3>1, <3>3, <3>4 DEF WInv
  <2> QED
    BY <2>1, <2>2
<1> QED
  BY <1>1, <1>2, Invariance, PTL DEF Spec

(* After each call, as long as none overlap, the screen shows the last     *)
(* rows of everything printed since monitor_clear, and the hardware cursor *)
(* is where the next character will appear (monitor.c:23-88).              *)
THEOREM WindowSafety == Spec => []Window
<1>1. IInv /\ WInv => Window
  <2> SUFFICES ASSUME IInv, WInv, Quiet
               PROVE  /\ \A x \in 0 .. Size - 1 :
                            LET y == Top * COLS + x IN
                            video_memory[x] = IF y \in DOMAIN page.cells THEN page.cells[y] ELSE Blank
                      /\ cursor_y = page.pos \div COLS - Top /\ cursor_x = page.pos % COLS
                      /\ ByteMod * crtc.hi + crtc.lo = page.pos - Top * COLS
    BY DEF Window
  <2>1. Resting
    BY DEF Quiet, WInv
  <2>2. PICK t : Rest(page, t) /\ Hardware
    BY <2>1 DEF Resting
  <2>3. COLS \in Nat \ {0} /\ ROWS \in Nat \ {0} /\ t \in Nat
    BY <2>2, Rows DEF Rest, Drawn
  <2>4. PICK x \in 0 .. COLS - 1, y \in 0 .. ROWS - 1 : x = cursor_x /\ y = cursor_y
    BY <2>2, <2>3 DEF IInv, Typed, Rest, Inside
  <2>5. page.pos = (t + y) * COLS + x /\ (t > 0 => y = ROWS - 1)
    BY <2>2, <2>4 DEF Rest, Inside, Spot
  <2>6. page.pos \div COLS = t + y /\ page.pos % COLS = x
    <3>1. PICK r \in Nat : r = t + y
      BY <2>3, <2>4
    <3>2. (r * COLS + x) \div COLS = r /\ (r * COLS + x) % COLS = x
      BY <2>3, <2>4, Place
    <3> QED
      BY <2>5, <3>1, <3>2
  <2>7. Top = t
    BY <2>3, <2>4, <2>5, <2>6 DEF Top, Larger
  <2>8. cursor_y = page.pos \div COLS - Top /\ cursor_x = page.pos % COLS
    BY <2>3, <2>4, <2>6, <2>7
  <2>9. ByteMod * crtc.hi + crtc.lo = page.pos - Top * COLS
    <3>1. PICK m \in Nat, n \in Nat : m = y * COLS /\ n = t * COLS /\ (t + y) * COLS = n + m
      BY <2>3, <2>4
    <3>2. ByteMod * crtc.hi + crtc.lo = m + x
      BY <2>2, <2>4, <3>1 DEF Hardware, cursorLocation
    <3>3. m + x = (n + m) + x - n
      BY <2>3, <2>4, <3>1
    <3> QED
      BY <2>5, <2>7, <3>1, <3>2, <3>3
  <2>10. \A i \in 0 .. Size - 1 : video_memory[i] = CellAt(page, Top * COLS + i)
    BY <2>2, <2>7 DEF Rest, Drawn, Shows
  <2> QED
    BY <2>8, <2>9, <2>10 DEF CellAt
<1> QED
  BY <1>1, Invariance, PageInvariance, PTL
=============================================================================
