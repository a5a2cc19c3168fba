------------------------------ MODULE Keyboard ------------------------------
(***************************************************************************)
(* The keyboard driver: keyboard_handler of keyboard.c, the functions its  *)
(* table key_tab dispatches to, and the keyboard that feeds it.            *)
(*                                                                         *)
(* `mode' and `leds' are sets of the bits that are set.  The keyboard puts *)
(* the scan codes of a key event on the queue q; IRQ1 delivers them one at *)
(* a time.  The handler runs with interrupts off and is one action, except *)
(* for F1 and F2: their tests enable interrupts, so scan codes are handled *)
(* while the older handler is still inside func, and it clears e0 only     *)
(* when the test is over.                                                  *)
(***************************************************************************)
EXTENDS Naturals, Sequences, FiniteSets

CONSTANTS
  Keys,      \* keys pressed in a run
  Tests,     \* bound: tests (F1, F2) that may be running at the same time
  MaxDown,   \* bound: keys held at the same time
  MaxQueue   \* bound: no key event while more codes than this are queued

E0 == 224
E1 == 225
ACK == 250      \* the keyboard's answer to a byte sent to it

(* The bit of mode that keyboard.c:8-12 gives each key.                    *)
Bit == [LShift |-> 1, RShift |-> 2, LCtrl |-> 4, RCtrl |-> 8,
        LAlt |-> 16, RAlt |-> 32, Caps |-> 128]

Code == [LShift |-> 42, RShift |-> 54, LCtrl |-> 29, RCtrl |-> 29,
         LAlt |-> 56, RAlt |-> 56, Caps |-> 58, Num |-> 69, Scroll |-> 70,
         Digit |-> 3, Enter |-> 28, Letter |-> 30, Space |-> 57,
         Del |-> 83, F2 |-> 60]

ASSUME KeyAssumption ==
  /\ MaxDown \in Nat /\ MaxQueue \in Nat
  /\ IsFiniteSet(Keys) /\ Keys \subseteq (DOMAIN Code) \cup {"Pause"}

VARIABLES
  mode, leds, e0,     \* the static variables of keyboard.c
  tests,              \* what each running test waits for
  q, down, rep,       \* keyboard: codes to deliver, keys down, key repeating
  held, capsOn, numOn,\* history: keys and locks, as the codes handled say
  out,                \* history: the character the last code gave; 0: none, or '\0'
  torn,               \* history: a key's codes were not taken as one sequence
  reset               \* outb(0x64, 0xFE) has rebooted the machine

driver   == <<mode, leds, e0>>
keyboard == <<q, down, rep>>
history  == <<held, capsOn, numOn, out, torn>>
vars     == <<driver, tests, keyboard, history, reset>>

(* init_kbd, before interrupts are enabled; its ACKs are still to come.    *)
Init ==
  /\ mode = {} /\ leds = {2} /\ e0 = 0
  /\ tests = [t \in Tests |-> "idle"]
  /\ q = <<[code |-> ACK, ev |-> "none", key |-> "none"], [code |-> ACK, ev |-> "none", key |-> "none"]>>
  /\ down = {} /\ rep = "none"
  /\ held = {} /\ capsOn = FALSE /\ numOn = TRUE
  /\ out = 0
  /\ reset = FALSE /\ torn = FALSE

-----------------------------------------------------------------------------
(* The keyboard.  The last code of an event carries the event.             *)
Right(k) == k \in {"RCtrl", "RAlt"}
Last(c, ev, k) == [code |-> c, ev |-> ev, key |-> k]
Pre(c)   == [code |-> c, ev |-> "none", key |-> "none"]

Make(k)  == CASE k = "Pause" -> <<Pre(E1), Pre(29), Pre(69),
                                  Pre(E1), Pre(29 + 128), Pre(69 + 128)>>
              [] Right(k) -> <<Pre(E0), Last(Code[k], "make", k)>>
              [] OTHER    -> <<Last(Code[k], "make", k)>>
Break(k) == IF Right(k) THEN <<Pre(E0), Last(Code[k] + 128, "break", k)>>
            ELSE <<Last(Code[k] + 128, "break", k)>>

Idle     == {t \in Tests : tests[t] = "idle"}
CanSend  == ~reset /\ Len(q) <= MaxQueue

(* One more test must fit.                                                 *)
Fits(k) == k = "F2" => Idle # {} /\ \A i \in DOMAIN q : q[i].key # "F2"

Press(k) ==
  /\ CanSend /\ k \notin down /\ Cardinality(down) < MaxDown /\ Fits(k)
  /\ q' = q \o Make(k)
  /\ IF k = "Pause" THEN UNCHANGED <<down, rep>>     \* it has no break code
     ELSE down' = down \cup {k} /\ rep' = k
  /\ UNCHANGED <<driver, tests, history, reset>>

(* The key that went down last repeats, the lock and function keys too.    *)
Repeat ==
  /\ CanSend /\ rep # "none" /\ Fits(rep)
  /\ q' = q \o Make(rep)
  /\ UNCHANGED <<driver, tests, down, rep, history, reset>>

Release(k) ==
  /\ CanSend /\ k \in down
  /\ q' = q \o Break(k)
  /\ down' = down \ {k} /\ rep' = IF rep = k THEN "none" ELSE rep
  /\ UNCHANGED <<driver, tests, history, reset>>

-----------------------------------------------------------------------------
(* inb(0x60): the code that arrives is one of S.                           *)
Scan(S) == ~reset /\ q # <<>> /\ Head(q).code \in S

(* What the user has done, once the code is handled.                       *)
Happens(ch) ==
  LET h == Head(q) IN
  /\ held' = CASE h.ev = "make"  -> held \cup {h.key}
               [] h.ev = "break" -> held \ {h.key}
               [] OTHER          -> held
  /\ capsOn' = (capsOn # (h.ev = "make" /\ h.key = "Caps" /\ "Caps" \notin held))
  /\ numOn'  = (numOn # (h.ev = "make" /\ h.key = "Num"))
  /\ out' = ch
  /\ torn' = (torn \/ h.code = E1)   \* Pause: two more codes, e0 lasts for one
  /\ UNCHANGED <<down, rep>>

(* The end of keyboard_handler, for every code but the two prefixes.       *)
Done(ch) == e0' = 0 /\ q' = Tail(q) /\ Happens(ch)

(* A handler that only changes mode.                                       *)
Sets(S, m) == /\ Scan(S) /\ mode' = m /\ Done(0)
              /\ UNCHANGED <<leds, tests, reset>>

(* setleds(): two bytes to the keyboard, each of which it acknowledges     *)
(* with a byte that IRQ1 delivers like a scan code.                        *)
Setleds(l) == /\ leds' = l /\ e0' = 0 /\ Happens(0)
              /\ q' = Tail(q) \o <<Pre(ACK), Pre(ACK)>>
              /\ UNCHANGED <<tests, reset>>

prefix ==
  /\ Scan({E0, E1})
  /\ e0' = IF Head(q).code = E0 THEN 1 ELSE 2
  /\ q' = Tail(q) /\ Happens(0)
  /\ UNCHANGED <<mode, leds, tests, reset>>

alt      == Sets({56},       mode \cup {IF e0 # 0 THEN 32 ELSE 16})
unalt    == Sets({56 + 128}, mode \ {IF e0 # 0 THEN 32 ELSE 16})
ctrl     == Sets({29},       mode \cup {IF e0 # 0 THEN 8 ELSE 4})
unctrl   == Sets({29 + 128}, mode \ {IF e0 # 0 THEN 8 ELSE 4})
lshift   == Sets({42},       mode \cup {1})
unlshift == Sets({42 + 128}, mode \ {1})
rshift   == Sets({54},       mode \cup {2})

(* Mutant of unrshift: the mask of unlshift.                               *)
unrshift_mask == Sets({54 + 128}, mode \ {1})

unrshift == Sets({54 + 128}, mode \ {2})
uncaps   == Sets({58 + 128}, mode \ {128})

Flip(S, b) == IF b \in S THEN S \ {b} ELSE S \cup {b}

(* Mutant of caps: a repeated make code toggles again.                     *)
caps_repeat ==
  /\ Scan({58}) /\ mode' = Flip(mode, 64) \cup {128} /\ Setleds(Flip(leds, 4))

caps ==
  \/ /\ 128 \notin mode
     /\ Scan({58}) /\ mode' = Flip(mode, 64) \cup {128} /\ Setleds(Flip(leds, 4))
  \/ 128 \in mode /\ Sets({58}, mode)

screen_scroll == Scan({70}) /\ Setleds(Flip(leds, 1)) /\ UNCHANGED mode
num           == Scan({69}) /\ Setleds(Flip(leds, 2)) /\ UNCHANGED mode

(* Mutant of cursor: either alt or ctrl is enough for a reboot.            *)
cursor_or ==
  /\ Scan({83})
  /\ reset' = (mode \cap {4, 16} # {})
  /\ Done(0)
  /\ UNCHANGED <<mode, leds, tests>>

(* Del: with left ctrl and left alt down the machine is reset.  What the   *)
(* cursor keys compute is thrown away.                                     *)
cursor ==
  /\ Scan({83})
  /\ reset' = ({4, 16} \subseteq mode)
  /\ Done(0)
  /\ UNCHANGED <<mode, leds, tests>>

none ==
  /\ Scan({ACK} \cup {Code[k] + 128 : k \in {"Num", "Scroll", "Digit", "Enter",
                                             "Letter", "Space", "Del", "F2"}})
  /\ Done(0)
  /\ UNCHANGED <<mode, leds, tests, reset>>

-----------------------------------------------------------------------------
(* The columns of key_map, shift_map and alt_map for the keys of the model *)
key_map   == [Digit |-> 50, Enter |-> 10, Letter |-> 97, Space |-> 32]
shift_map == [Digit |-> 64, Enter |-> 10, Letter |-> 65, Space |-> 0]
alt_map   == [Digit |-> 64, Enter |-> 10, Letter |-> 0,  Space |-> 0]

KeyOf(c) == CHOOSE k \in DOMAIN key_map : Code[k] = c

(* do_self: the character of a key under a mode, 0 for none (uint8_t).     *)
IsCapital(ch) == 65 <= ch /\ ch <= 90
IsSmall(ch) == 97 <= ch /\ ch <= 122

(* Mutant of Cased: caps lock turns every letter into a capital.           *)
Cased_always(m, ch) == IF m \cap {4, 8, 64} # {} /\ IsSmall(ch) THEN ch - 32 ELSE ch

(* Letters change case under ctrl or caps lock.                            *)
Cased(m, ch) ==
  IF m \cap {4, 8, 64} = {} THEN ch
  ELSE IF 64 \in m /\ m \cap {1, 2} # {}
  THEN IF IsCapital(ch) THEN ch + 32 ELSE ch
  ELSE IF IsSmall(ch) THEN ch - 32 ELSE ch

(* Mutant of Char: the character is not cut to a byte.                      *)
Char_wide(m, k) ==
  LET map == IF 32 \in m THEN alt_map
             ELSE IF m \cap {1, 2} # {} THEN shift_map ELSE key_map
      ch  == Cased(m, map[k])
  IN IF map[k] = 0 THEN 0 ELSE IF m \cap {4, 8} # {} THEN ch + 256 - 64 ELSE ch

Char(m, k) ==
  LET map == IF 32 \in m THEN alt_map
             ELSE IF m \cap {1, 2} # {} THEN shift_map ELSE key_map
      ch  == Cased(m, map[k])
      ch2 == IF m \cap {4, 8} # {} THEN (ch + 256 - 64) % 256 ELSE ch
  IN IF map[k] = 0 THEN 0
     ELSE IF 16 \in m /\ ch2 < 128 THEN ch2 + 128 ELSE ch2

(* The character goes to the buffer; a newline lets a waiting test go on.  *)
do_self ==
  /\ Scan({3, 28, 30, 57})
  /\ LET ch == Char(mode, KeyOf(Head(q).code)) IN
     /\ Done(ch)
     /\ tests' = [t \in Tests |-> IF tests[t] = "waiting" /\ ch = 10
                                  THEN "answered" ELSE tests[t]]
  /\ UNCHANGED <<mode, leds, reset>>

(* F2 (F1 is alike): the test runs inside func, with interrupts enabled;   *)
(* keyboard_handler clears e0 when it has returned.                        *)
func(t) ==
  /\ Scan({60}) /\ tests[t] = "idle"
  /\ tests' = [tests EXCEPT ![t] = "waiting"]
  /\ q' = Tail(q) /\ Happens(0)
  /\ UNCHANGED <<driver, reset>>

func_returns(t) ==
  /\ ~reset /\ tests[t] = "answered"
  /\ tests' = [tests EXCEPT ![t] = "idle"]
  /\ e0' = 0 /\ torn' = (torn \/ e0 # 0) /\ out' = 0
  /\ UNCHANGED <<mode, leds, keyboard, held, capsOn, numOn, reset>>

keyboard_handler ==
  \/ prefix \/ alt \/ unalt \/ ctrl \/ unctrl \/ lshift \/ unlshift
  \/ rshift \/ unrshift \/ caps \/ uncaps \/ screen_scroll \/ num
  \/ cursor \/ none \/ do_self
  \/ \E t \in Tests : func(t) \/ func_returns(t)

Next == \/ Repeat \/ keyboard_handler
        \/ \E k \in Keys : Press(k) \/ Release(k)

Spec == Init /\ [][Next]_vars
-----------------------------------------------------------------------------
(***************************************************************************)
(* Properties.                                                             *)
(***************************************************************************)
TypeOK ==
  /\ mode \subseteq {1, 2, 4, 8, 16, 32, 64, 128} /\ leds \subseteq {1, 2, 4}
  /\ e0 \in 0 .. 2 /\ tests \in [Tests -> {"idle", "waiting", "answered"}]
  /\ down \subseteq Keys /\ rep \in Keys \cup {"none"}
  /\ held \subseteq Keys /\ {capsOn, numOn, reset, torn} \subseteq BOOLEAN
  /\ out \in 0 .. 255

(* mode is "the state of the special keys" (keyboard.c:8-12): after every  *)
(* scan code each bit says whether its key is held, left and right apart,  *)
(* whatever order keys go down and up in and however they repeat, as long  *)
(* as no test returns between a prefix and its code.                       *)
ModeTracks == ~torn => \A k \in DOMAIN Bit : Bit[k] \in mode <=> k \in held

(* Caps lock changes once for each time the key goes down, however long it *)
(* is held (keyboard.c:290-298), and the light always agrees with the      *)
(* state used for characters.  Num lock has no such bit                    *)
(* (keyboard.c:313-317): its light changes with each make code of its key, *)
(* the repeats of a held key included, and with no other code, as long as  *)
(* Pause, whose codes after 0xE1 (keyboard.c:19-20) end like it, is left   *)
(* alone.                                                                  *)
LocksInStep ==
  /\ (64 \in mode <=> capsOn) /\ (4 \in leds <=> capsOn)
  /\ ~torn => (2 \in leds <=> numOn)

(* A letter is a capital exactly if one of shift and caps lock is on, and  *)
(* the control code with ctrl (unless both are on); caps lock leaves the   *)
(* key 2 alone, of which ctrl makes '2' - 0x40, in a byte, and with shift  *)
(* '@' - 0x40, the character '\0' (keyboard.c:174-223).                    *)
Typed(k) == q # <<>> /\ q' = Tail(q) /\ Head(q).ev = "make" /\ Head(q).key = k

CharRight ==
  [][LET shift == held \cap {"LShift", "RShift"} # {}
         ctl   == held \cap {"LCtrl", "RCtrl"} # {}
         plain == ~torn /\ held \cap {"LAlt", "RAlt"} = {}
     IN /\ plain /\ ~ctl /\ Typed("Letter") =>
             out' = IF shift # capsOn THEN 65 ELSE 97
        /\ plain /\ ctl /\ Typed("Letter") /\ ~(shift /\ capsOn) => out' = 1
        /\ plain /\ ~ctl /\ Typed("Digit") => out' = IF shift THEN 64 ELSE 50
        /\ plain /\ ctl /\ Typed("Digit") => out' = IF shift THEN 0 ELSE 242]_vars

(* The machine reboots only while the user holds left ctrl and left alt.   *)
RebootAsked == [][reset' => torn \/ {"LCtrl", "LAlt"} \subseteq held]_vars
=============================================================================
