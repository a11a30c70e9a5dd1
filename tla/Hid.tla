--------------------------------- MODULE Hid ----------------------------------
(***************************************************************************)
(* The keyboard and mouse ports: lib/cpu24/hid.h.  The person at the       *)
(* machine acts at any time and the windowing library queues what happens. *)
(* The program sees it in the ports at 0x480000, and only INT_WAIT brings  *)
(* it there: hid_events() empties the queue into the ports while further   *)
(* events arrive.  Programs read the ports and do not write them.          *)
(***************************************************************************)
EXTENDS Integers, Sequences, FiniteSets, FiniteSetsExt

CONSTANTS
  MAX_KEYS,    \* the key slots, 6
  Scancodes,   \* the keys of the keyboard
  Buttons,     \* the buttons of the mouse
  Points,      \* bound: the positions of the mouse
  QueueMax     \* bound: the events that wait; the library's limit is 65535

ASSUME SlotsAssumption == MAX_KEYS \in Nat \ {0} /\ QueueMax \in Nat
ASSUME InputAssumption == /\ \A k \in Scancodes : k \in Nat /\ 0 < k /\ k < 65536
                          /\ \A b \in Buttons : b \in Nat /\ 0 < b /\ b < 256

VARIABLES
  held, down,  \* the keys and buttons that are down
  queue,       \* the events that wait, oldest first
  slot,        \* mem[HID_ADDR + 5 ...]: the key slots, bytes
  flags,       \* mem[HID_ADDR + 4]: wheel in bits 6 and 7, buttons in 0 to 4
  mouse,       \* mem[HID_ADDR ... + 3]: the position
  where,       \* "program", "hid_events", or "quit" when the window is closed
  full,        \* history: a key press has found no free slot
  turned       \* history: the last turn of the wheel in this call

ports == <<slot, flags, mouse>>
vars  == <<held, down, queue, ports, where, full, turned>>

Slots == 1 .. MAX_KEYS
Byte == 0 .. 255
Events == [type : {"key"}, id : Scancodes, on : BOOLEAN, repeat : BOOLEAN]
          \cup [type : {"button"}, id : Buttons, on : BOOLEAN]
          \cup [type : {"motion"}, to : Points]
          \cup [type : {"wheel"}, dir : {"up", "down", "none"}]
          \cup [type : {"quit"}]

-----------------------------------------------------------------------------
(* The person and the library. *)

Happens(e) == /\ where # "quit"
              /\ Len(queue) < QueueMax
              /\ queue' = Append(queue, e)
              /\ UNCHANGED <<ports, where, full, turned>>

KeyEvent(k, on, again) == [type |-> "key", id |-> k, on |-> on, repeat |-> again]

PressKey == \E k \in Scancodes \ held :
  held' = held \cup {k} /\ Happens(KeyEvent(k, TRUE, FALSE)) /\ down' = down
ReleaseKey == \E k \in held :
  held' = held \ {k} /\ Happens(KeyEvent(k, FALSE, FALSE)) /\ down' = down
\* A key that stays down repeats.
RepeatKey == \E k \in held :
  Happens(KeyEvent(k, TRUE, TRUE)) /\ UNCHANGED <<held, down>>
ClickButton == \E b \in Buttons :
  /\ down' = IF b \in down THEN down \ {b} ELSE down \cup {b}
  /\ Happens([type |-> "button", id |-> b, on |-> b \in down'])
  /\ held' = held
MoveMouse == \E q \in Points :
  Happens([type |-> "motion", to |-> q]) /\ UNCHANGED <<held, down>>
TurnWheel == \E w \in {"up", "down", "none"} :
  Happens([type |-> "wheel", dir |-> w]) /\ UNCHANGED <<held, down>>
CloseWindow == Happens([type |-> "quit"]) /\ UNCHANGED <<held, down>>

Person == \/ PressKey \/ ReleaseKey \/ RepeatKey \/ ClickButton \/ MoveMouse
          \/ TurnWheel \/ CloseWindow

-----------------------------------------------------------------------------
(* hid_events(). *)

\* scroll_mouse: y >= 0 sets bit 7, less sets bit 6, the buttons stay.
WheelBits(w) == IF w = "none" THEN 0 ELSE IF w = "up" THEN 128 ELSE 64
\* Wrong on purpose: the wheel bits are not cleared first.
scroll_mouse_unmasked(w) == flags' = flags + WheelBits(w)
scroll_mouse(w) == flags' = (flags % 32) + WheelBits(w)

FlagBit(f, b) == (f \div 2 ^ (b - 1)) % 2 = 1

\* Wrong on purpose: any button has a bit.
mouse_btn_wide(b, on) ==
  flags' = IF FlagBit(flags, b) = on THEN flags
           ELSE IF on THEN flags + 2 ^ (b - 1) ELSE flags - 2 ^ (b - 1)

\* mouse_btn: buttons above the fifth are not supported.
mouse_btn(b, on) ==
  flags' = IF b > 5 \/ FlagBit(flags, b) = on THEN flags
           ELSE IF on THEN flags + 2 ^ (b - 1) ELSE flags - 2 ^ (b - 1)

\* kbd_btn: a press takes the first free slot, which keeps the low byte of
\* the scancode, or is dropped; a release frees the first slot that equals
\* the whole scancode.
With(v) == {j \in Slots : slot[j] = v}
\* Wrong on purpose: a release looks at the first slot only.
kbd_btn_first_only(k, on) ==
  LET found == IF on THEN With(0) ELSE With(k) \cap {1} IN
  IF found = {} THEN slot' = slot
  ELSE slot' = [slot EXCEPT ![Min(found)] = IF on THEN k % 256 ELSE 0]

kbd_btn(k, on) ==
  LET found == With(IF on THEN 0 ELSE k) IN
  IF found = {} THEN slot' = slot
  ELSE slot' = [slot EXCEPT ![Min(found)] = IF on THEN k % 256 ELSE 0]

Enter ==
  /\ where = "program"
  /\ scroll_mouse("none")
  /\ turned' = "none"
  /\ where' = "hid_events"
  /\ UNCHANGED <<held, down, queue, slot, mouse, full>>

Return ==
  /\ where = "hid_events" /\ queue = << >>
  /\ where' = "program"
  /\ UNCHANGED <<held, down, queue, ports, full, turned>>

Take(e) == /\ where = "hid_events" /\ queue # << >>
           /\ e = Head(queue)
           /\ queue' = Tail(queue)
           /\ UNCHANGED <<held, down>>

\* Wrong on purpose: a repeated press is taken for a press.
TakeKey_repeating(e) ==
  /\ Take(e) /\ e.type = "key"
  /\ kbd_btn(e.id, e.on)
  /\ full' = (full \/ (e.on /\ With(0) = {}))
  /\ UNCHANGED <<flags, mouse, where, turned>>

TakeKey(e) ==
  /\ Take(e) /\ e.type = "key"
  /\ IF e.repeat THEN slot' = slot ELSE kbd_btn(e.id, e.on)
  /\ full' = (full \/ (~e.repeat /\ e.on /\ With(0) = {}))
  /\ UNCHANGED <<flags, mouse, where, turned>>

TakeMouse(e) ==
  /\ Take(e)
  /\ \/ /\ e.type = "button" /\ mouse_btn(e.id, e.on)
        /\ UNCHANGED <<mouse, turned>>
     \/ /\ e.type = "wheel" /\ scroll_mouse(e.dir)
        /\ turned' = e.dir /\ mouse' = mouse
     \/ /\ e.type = "motion" /\ mouse' = e.to
        /\ UNCHANGED <<flags, turned>>
  /\ UNCHANGED <<slot, where, full>>

\* The call ends at once, and what is left in the queue is never seen.
TakeQuit(e) ==
  /\ Take(e) /\ e.type = "quit"
  /\ where' = "quit"
  /\ UNCHANGED <<ports, full, turned>>

TakeEvent == queue # << >> /\ LET e == Head(queue)
                              IN  TakeKey(e) \/ TakeMouse(e) \/ TakeQuit(e)

hid_events == Enter \/ TakeEvent \/ Return

-----------------------------------------------------------------------------
Init ==
  /\ held = {} /\ down = {} /\ queue = << >>
  /\ slot = [j \in Slots |-> 0] /\ flags = 0 /\ mouse \in Points
  /\ where = "program" /\ full = FALSE /\ turned = "none"

Next == Person \/ hid_events

\* The program comes back to INT_WAIT again and again, and a call goes on.
Spec == Init /\ [][Next]_vars /\ WF_vars(hid_events)

-----------------------------------------------------------------------------
Shown == {slot[j] : j \in Slots} \ {0}

\* The program looks at the ports when everything that happened is in them.
UpToDate == where = "program" /\ queue = << >>

TypeOK ==
  /\ held \subseteq Scancodes /\ down \subseteq Buttons
  /\ queue \in Seq(Events) /\ Len(queue) <= QueueMax
  /\ slot \in [Slots -> Byte] /\ flags \in Byte /\ mouse \in Points
  /\ where \in {"program", "hid_events", "quit"}
  /\ full \in BOOLEAN /\ turned \in {"up", "down", "none"}

(* With scancodes that fit a byte the slots hold each key once, no key that *)
(* is up, and every key that is down as long as no press found the slots   *)
(* full: presses and releases find their slots again in any order.         *)
SlotsShowKeys ==
  /\ \A j, k \in Slots : slot[j] = slot[k] /\ slot[j] # 0 => j = k
  /\ UpToDate => Shown \subseteq held
  /\ UpToDate /\ ~full => Shown = held

(* The byte the wheel and the buttons share: neither disturbs the other,   *)
(* and a turn of the wheel is seen in one call only.                       *)
FlagsShowMouse ==
  /\ flags \div 32 = WheelBits(turned) \div 32
  /\ UpToDate => \A b \in Buttons : b <= 5 => (FlagBit(flags, b) <=> b \in down)

(* A key that was let go leaves the slots, unless the machine stops or it   *)
(* is pressed again, however fast the person types.                        *)
ReleasedKeyLeaves ==
  \A k \in Scancodes :
    k \notin held ~> (k \notin Shown \/ k \in held \/ where = "quit")
=============================================================================
