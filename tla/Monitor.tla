------------------------------- MODULE Monitor -------------------------------
(***************************************************************************)
(* Console output: printf and printf_color of printf.c, which format into  *)
(* a static buffer each and write it out, and monitor.c, which keeps the   *)
(* cursor, scrolls the screen and moves the hardware cursor.               *)
(*                                                                         *)
(* Threads, tests and the echo of the keyboard handler (keyboard.c:219)    *)
(* all print, with no lock.  The compiler is run without optimization: it  *)
(* loads and stores a static variable wherever the source names it, with a *)
(* register in between.  Each of these accesses is a step of its own, to   *)
(* the static buffers, a cell of the screen, cursor_x and cursor_y; only   *)
(* the loops over the whole screen and move_cursor are one step.  Colours  *)
(* are left out, and characters are printable or one of the four Control   *)
(* characters.                                                             *)
(***************************************************************************)
EXTENDS Format

CONSTANTS
  Writers,     \* contexts that may be printing at the same time
  Messages,    \* calls: [fn |-> "printf" or "printf_color", format |-> ...]
  COLS, ROWS,  \* 80 and 25
  TAB,         \* 8
  ByteMod,     \* 256: cursor_x and cursor_y are bytes
  BufSize,     \* 1024, the size of a static buffer
  MaxCalls     \* bound: calls of printf, printf_color and monitor_clear

NUL   == "NUL"
Fns   == {"printf", "printf_color"}
Texts == Seq(STRING \ {NUL})

(* The hardware cursor has two bytes.  A text, a C string without its      *)
(* terminator, fits the buffer with it.                                    *)
ASSUME MonitorAssumption ==
  /\ {COLS, ROWS, TAB, ByteMod, BufSize} \subseteq Nat \ {0} /\ MaxCalls \in Nat
  /\ COLS % TAB = 0 /\ COLS < ByteMod /\ ROWS < ByteMod
  /\ ROWS * COLS <= ByteMod * ByteMod
  /\ \A m \in Messages : m.fn \in Fns /\ vsprintf(m.format) \in Texts
                          /\ Len(vsprintf(m.format)) < BufSize

Blank   == " "
Control == {"BS", "TAB", "CR", "NL"}
Slots   == 0 .. BufSize - 1
Size    == ROWS * COLS

VARIABLES
  buff,                      \* the two static buffers
  video_memory, cursor_x, cursor_y,
  crtc,                      \* registers 14 and 15: the hardware cursor
  pc, fn, text, k,           \* each writer: its call, its text, its place in it
  ch, reg,                   \* the argument of monitor_putc_color; a register
  page,                      \* history: the same text on an endless page
  calls, overlap             \* calls so far; history: two have overlapped

cursor == <<cursor_x, cursor_y>>
screen == <<video_memory, cursor, crtc>>
caller == <<pc, fn, text, k, ch, reg>>
vars   == <<buff, screen, caller, page, calls, overlap>>

Cleared == [x \in 0 .. Size - 1 |-> Blank]
Empty   == [cells |-> [x \in {} |-> Blank], pos |-> 0]

(* Mutant of Static: buffers that kmalloc gave once, shared as these are,  *)
(* hold what was there.                                                    *)
Static_kmalloc == "?"

Static == NUL

(* After the monitor_clear of the boot code; static buffers start as zero. *)
Init ==
  /\ buff = [f \in Fns |-> [x \in Slots |-> Static]]
  /\ video_memory = Cleared /\ cursor_x = 0 /\ cursor_y = 0
  /\ crtc = [hi |-> 0, lo |-> 0]
  /\ pc = [w \in Writers |-> "idle"] /\ fn = [w \in Writers |-> "none"]
  /\ text = [w \in Writers |-> <<>>] /\ k = [w \in Writers |-> 0]
  /\ ch = [w \in Writers |-> NUL] /\ reg = [w \in Writers |-> 0]
  /\ page = Empty /\ calls = 0 /\ overlap = FALSE

At(w, l)   == pc[w] = l
Goto(w, l) == pc' = [pc EXCEPT ![w] = l]

Begins == /\ calls < MaxCalls /\ calls' = calls + 1
          /\ overlap' = (overlap \/ \E v \in Writers : pc[v] # "idle")

-----------------------------------------------------------------------------
(* One access of the writer w, from its place l to m: a test of the        *)
(* cursor, a load into the register, and a store of a byte to cursor_x or  *)
(* cursor_y.  What the register holds after a store is not used again: it  *)
(* is cleared, so that it tells no states apart.                           *)
Test(w, l, b, m, n) ==
  /\ At(w, l) /\ Goto(w, IF b THEN m ELSE n)
  /\ UNCHANGED <<buff, screen, fn, text, k, ch, reg, page, calls, overlap>>

Load(w, l, v, m) ==
  /\ At(w, l) /\ reg' = [reg EXCEPT ![w] = v] /\ Goto(w, m)
  /\ UNCHANGED <<buff, screen, fn, text, k, ch, page, calls, overlap>>

StoreX(w, l, v, m) ==
  /\ At(w, l) /\ cursor_x' = v % ByteMod /\ Goto(w, m)
  /\ reg' = [reg EXCEPT ![w] = 0]
  /\ UNCHANGED <<buff, video_memory, cursor_y, crtc, fn, text, k, ch, page, calls, overlap>>

StoreY(w, l, v, m) ==
  /\ At(w, l) /\ cursor_y' = v % ByteMod /\ Goto(w, m)
  /\ reg' = [reg EXCEPT ![w] = 0]
  /\ UNCHANGED <<buff, video_memory, cursor_x, crtc, fn, text, k, ch, page, calls, overlap>>

(* monitor_putc_color moves the cursor, one case for each Control          *)
(* character, ...                                                          *)
backspace(w) ==
  \/ ch[w] = "BS" /\ Test(w, "putc", cursor_x # 0, "back", "wrap")
  \/ Load(w, "back", cursor_x - 1, "store")

tabulator(w) == ch[w] = "TAB" /\ Load(w, "putc", (cursor_x \div TAB + 1) * TAB, "store")

carriage_return(w) == ch[w] = "CR" /\ StoreX(w, "putc", 0, "wrap")

line_feed(w) ==
  \/ ch[w] = "NL" /\ StoreX(w, "putc", 0, "line")
  \/ Load(w, "line", cursor_y + 1, "feed")
  \/ StoreY(w, "feed", reg[w], "wrap")

(* ... or stores a character at the cursor, on the screen or below it.     *)
cell(w) ==
  /\ At(w, "cell") /\ Goto(w, "next")
  /\ video_memory' = [x \in DOMAIN video_memory |->
                        IF x = reg[w] THEN ch[w] ELSE video_memory[x]]
  /\ UNCHANGED <<buff, cursor, crtc, fn, text, k, ch, reg, page, calls, overlap>>

printable(w) ==
  \/ ch[w] \notin Control /\ Load(w, "putc", cursor_y * COLS, "column")
  \/ Load(w, "column", reg[w] + cursor_x, "cell")
  \/ cell(w)
  \/ Load(w, "next", cursor_x + 1, "store")

advance(w) == StoreX(w, "store", reg[w], "wrap")

(* It wraps the line, ...                                                  *)
wrap(w) ==
  \/ Test(w, "wrap", cursor_x >= COLS, "zero", "scroll")
  \/ StoreX(w, "zero", 0, "row")
  \/ Load(w, "row", cursor_y + 1, "down")
  \/ StoreY(w, "down", reg[w], "scroll")

(* Mutant of Below: > 25 for >= 25.                                        *)
Below_gt == cursor_y > ROWS

Below == cursor_y >= ROWS

(* Mutant of Shifted: the last row keeps its text.                         *)
Shifted_copy == [x \in DOMAIN video_memory |->
                   video_memory[IF x < Size - COLS THEN x + COLS ELSE x]]

Shifted == [x \in DOMAIN video_memory |->
              IF x < Size - COLS THEN video_memory[x + COLS] ELSE Blank]

LastRow == ROWS - 1

shift(w) ==
  /\ At(w, "shift") /\ Goto(w, "last")
  /\ video_memory' = Shifted
  /\ UNCHANGED <<buff, cursor, crtc, fn, text, k, ch, reg, page, calls, overlap>>

(* ... moves the rows up one if the cursor is below them, ...              *)
screen_scroll(w) ==
  \/ Test(w, "scroll", Below, "shift", "cursor")
  \/ shift(w)
  \/ StoreY(w, "last", LastRow, "cursor")

cursorLocation == cursor_y * COLS + cursor_x

(* ... and moves the hardware cursor.                                      *)
move_cursor(w) ==
  /\ At(w, "cursor")
  /\ crtc' = [hi |-> (cursorLocation \div ByteMod) % ByteMod, lo |-> cursorLocation % ByteMod]
  /\ Goto(w, IF fn[w] = "monitor_clear" THEN "idle" ELSE "write")
  /\ fn' = IF fn[w] = "monitor_clear" THEN [fn EXCEPT ![w] = "none"] ELSE fn
  /\ UNCHANGED <<buff, video_memory, cursor, text, k, ch, reg, page, calls, overlap>>

monitor_putc_color(w) ==
  \/ backspace(w) \/ tabulator(w) \/ carriage_return(w) \/ line_feed(w)
  \/ printable(w) \/ advance(w)
  \/ wrap(w) \/ screen_scroll(w) \/ move_cursor(w)

(* Called by the tests before they print: the screen, then the cursor.     *)
monitor_clear(w) ==
  /\ At(w, "idle") /\ Begins
  /\ video_memory' = Cleared
  /\ page' = Empty
  /\ fn' = [fn EXCEPT ![w] = "monitor_clear"] /\ Goto(w, "home")
  /\ UNCHANGED <<buff, cursor, crtc, text, k, ch, reg>>

monitor_home(w) == StoreX(w, "home", 0, "top") \/ StoreY(w, "top", 0, "cursor")

-----------------------------------------------------------------------------
(* The endless page: where a character goes if nothing wraps or scrolls.   *)
Advance(pos, c) ==
  CASE c = "BS"  -> IF pos % COLS = 0 THEN pos ELSE pos - 1
    [] c = "TAB" -> (pos \div TAB + 1) * TAB
    [] c = "CR"  -> (pos \div COLS) * COLS
    [] c = "NL"  -> (pos \div COLS + 1) * COLS
    [] OTHER     -> pos + 1

Typeset(pg, c) ==
  [cells |-> IF c \in Control THEN pg.cells
             ELSE [x \in DOMAIN pg.cells \cup {pg.pos} |->
                     IF x = pg.pos THEN c ELSE pg.cells[x]],
   pos   |-> Advance(pg.pos, c)]

(* printf and printf_color: vsprintf stores one character after the other  *)
(* in the function's buffer ...                                            *)
printf(w, m) ==
  /\ At(w, "idle") /\ Begins
  /\ fn' = [fn EXCEPT ![w] = m.fn]
  /\ text' = [text EXCEPT ![w] = vsprintf(m.format)]
  /\ page' = FoldLeft(Typeset, page, text'[w])
  /\ k' = [k EXCEPT ![w] = 0]
  /\ Goto(w, "format")
  /\ UNCHANGED <<buff, screen, ch, reg>>

(* ... and then the terminator.                                            *)
format(w) ==
  /\ At(w, "format")
  /\ buff' = [buff EXCEPT ![fn[w]][k[w]] =
                IF k[w] < Len(text[w]) THEN text[w][k[w] + 1] ELSE NUL]
  /\ IF k[w] < Len(text[w])
     THEN k' = [k EXCEPT ![w] = @ + 1] /\ UNCHANGED pc
     ELSE k' = [k EXCEPT ![w] = 0] /\ Goto(w, "write")
  /\ UNCHANGED <<screen, fn, text, ch, reg, page, calls, overlap>>

(* monitor_write and monitor_write_color: the buffer, up to a terminator.  *)
monitor_write(w) ==
  /\ At(w, "write")
  /\ LET c == buff[fn[w]][k[w]] IN
     IF c = NUL
     THEN /\ Goto(w, "idle") /\ fn' = [fn EXCEPT ![w] = "none"]
          /\ text' = [text EXCEPT ![w] = <<>>] /\ k' = [k EXCEPT ![w] = 0]
          /\ UNCHANGED ch
     ELSE /\ ch' = [ch EXCEPT ![w] = c] /\ k' = [k EXCEPT ![w] = @ + 1] /\ Goto(w, "putc")
          /\ UNCHANGED <<fn, text>>
  /\ UNCHANGED <<buff, screen, reg, page, calls, overlap>>

Next == \E w \in Writers :
  \/ \E m \in Messages : printf(w, m)
  \/ format(w) \/ monitor_write(w) \/ monitor_putc_color(w)
  \/ monitor_clear(w) \/ monitor_home(w)

Spec == Init /\ [][Next]_vars
-----------------------------------------------------------------------------
(***************************************************************************)
(* Properties.                                                             *)
(***************************************************************************)
Quiet == ~overlap /\ \A w \in Writers : pc[w] = "idle"
Top   == Larger(0, page.pos \div COLS - (ROWS - 1))

(* The screen is a window on an endless page: as long as no two calls      *)
(* overlap, after each call it shows the last ROWS rows, up to the         *)
(* cursor's, of everything printed since monitor_clear, whatever wrapped   *)
(* or scrolled on the way (monitor.c:23-88), and the hardware cursor is    *)
(* where the next character will appear.                                   *)
Window == Quiet =>
  /\ \A x \in 0 .. Size - 1 :
       LET y == Top * COLS + x IN
       video_memory[x] = IF y \in DOMAIN page.cells THEN page.cells[y] ELSE Blank
  /\ cursor_y = page.pos \div COLS - Top /\ cursor_x = page.pos % COLS
  /\ ByteMod * crtc.hi + crtc.lo = page.pos - Top * COLS

(* However the loads and stores of overlapping calls mix, and whatever     *)
(* update of the cursor gets lost (monitor.c:66-82), each call wraps the   *)
(* line it has filled and scrolls away the row it has opened itself: when  *)
(* all have returned the cursor is on the screen, so that the next         *)
(* character is stored in video_memory's own cells.                        *)
OnScreen == (\A w \in Writers : pc[w] = "idle") => cursor_x < COLS /\ cursor_y < ROWS

(* However calls overlap, and whatever one finds in the buffer another is  *)
(* overwriting (printf.c:8), it stops at a terminator inside the buffer:   *)
(* behind the longest text so far no store has been made.                  *)
ReadsInside == \A w \in Writers : k[w] \in Slots
=============================================================================
