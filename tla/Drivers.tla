------------------------------ MODULE Drivers -------------------------------
(***************************************************************************)
(* The PS/2 drivers: scancodes into characters (drivers/keyboard.c) and    *)
(* three-byte packets into pointer movements (drivers/mouse.c).  The tty   *)
(* ring behind the keyboard is the InputRing this module extends.  A       *)
(* behaviour is about one of three things, picked by Init, because they do *)
(* not influence each other: the keyboard up to the ring, the ring with    *)
(* any characters and a reader, the mouse.                                 *)
(*                                                                         *)
(* The devices themselves are external: a person presses, holds and lets   *)
(* go of keys, a mouse is moved.  What they send waits in `wire' for the   *)
(* interrupt handler, which takes one byte each time.  A byte on the wire  *)
(* is a record: what the driver can see of it, and what was meant by it.   *)
(***************************************************************************)
EXTENDS InputRing, FiniteSets

CONSTANTS Keys,       \* the keys of this keyboard, a subset of AllKeys
          Moves,      \* the movements of this mouse: records of dx and dy
          WireCap,    \* bound: a device waits while so many bytes are unread
          MaxDown,    \* bound: keys held at once
          Width, Height  \* the framebuffer

AllKeys == {"lshift", "rshift", "caps", "letter", "digit", "arrow"}

ASSUME DriversAssumption == /\ Keys \subseteq AllKeys
                            /\ Item = {"a", "A", "1", "!"}
                            /\ Moves \subseteq [dx : -256..255, dy : -256..255]  \* nine bits
                            /\ Width \in Nat \ {0} /\ Height \in Nat \ {0}

VARIABLES device,  \* "keyboard", "tty" or "mouse"
          wire,    \* bytes sent and not yet read
          down,    \* history: keys held down
          caps,    \* history: caps lock as its presses mean it
          sure,    \* history: no two shift keys held at once, no held caps lock
          g_shift, g_caps, g_e0, g_tty_input_enabled,
          g_packet,  \* the bytes collected, g_packet_i = its length
          g_x, g_y,
          synced   \* history: 3 when a whole quiet packet came after the last loss

ringVars == <<q, r, w, last>>
kbdVars == <<down, caps, sure, g_shift, g_caps, g_e0, g_tty_input_enabled>>
mouseVars == <<g_packet, g_x, g_y, synced>>
dvars == <<ringVars, device, wire, kbdVars, mouseVars>>

Shifts == {"lshift", "rshift"}

DInit == /\ Init
         /\ device \in {"keyboard", "tty", "mouse"}
         /\ wire = << >>
         /\ down = {} /\ caps = FALSE /\ sure = TRUE
         /\ g_shift = FALSE /\ g_caps = FALSE /\ g_e0 = FALSE /\ g_tty_input_enabled = TRUE
         /\ g_packet = << >> /\ g_x = Width \div 2 /\ g_y = Height \div 2 /\ synced = 3

Send(bytes) == /\ Len(wire) < WireCap
               /\ wire' = wire \o bytes

-----------------------------------------------------------------------------
(* The keyboard and who types on it (external).                            *)

\* The character a key stands for with these modifiers, "none" if it has none.
Meant(k, shift, lock) == CASE k = "letter" -> IF shift # lock THEN "A" ELSE "a"
                           [] k = "digit" -> IF shift THEN "!" ELSE "1"
                           [] OTHER -> "none"

E0 == [sc |-> "e0", released |-> FALSE, meant |-> "none"]

Code(k, up) == [sc |-> k, released |-> up,
                meant |-> CASE up \/ k \notin {"letter", "digit"} -> "none"
                            [] ~up /\ k \in {"letter", "digit"} /\ ~sure' -> "any"
                            [] OTHER -> Meant(k, down' \cap Shifts # {}, caps')]

\* Extended keys send a prefix; with a shift key held, also the codes that take
\* the shift back for this key (the keyboard does so for the arrow block).
Codes(k, up) == CASE k # "arrow" -> <<Code(k, up)>>
                  [] k = "arrow" /\ "lshift" \in down /\ ~up -> <<E0, Code("lshift", TRUE), E0, Code(k, up)>>
                  [] OTHER -> <<E0, Code(k, up)>>

press(k) == /\ device = "keyboard"
            /\ k \notin down /\ Cardinality(down) < MaxDown
            /\ down' = down \cup {k}
            /\ caps' = (caps # (k = "caps"))
            /\ sure' = (sure /\ ~(Shifts \subseteq down'))
            /\ Send(Codes(k, FALSE))
            /\ UNCHANGED <<ringVars, device, g_shift, g_caps, g_e0, g_tty_input_enabled, mouseVars>>

\* A key held down repeats its code.
repeat(k) == /\ device = "keyboard"
             /\ k \in down
             /\ sure' = (sure /\ k # "caps")
             /\ UNCHANGED <<down, caps>>
             /\ Send(Codes(k, FALSE))
             /\ UNCHANGED <<ringVars, device, g_shift, g_caps, g_e0, g_tty_input_enabled, mouseVars>>

\* With both shift keys up again, shifted characters mean what they say.
release(k) == /\ device = "keyboard"
              /\ k \in down
              /\ down' = down \ {k}
              /\ sure' = (sure \/ (k \in Shifts /\ down' \cap Shifts = {} /\ caps = g_caps /\ wire = << >>))
              /\ UNCHANGED caps
              /\ Send(Codes(k, TRUE))
              /\ UNCHANGED <<ringVars, device, g_shift, g_caps, g_e0, g_tty_input_enabled, mouseVars>>

-----------------------------------------------------------------------------
(* drivers/keyboard.c                                                      *)

\* translate_key: letters by caps xor shift, the others by shift_char.
translate_key(code) == CASE code = "letter" -> IF g_caps # g_shift THEN "A" ELSE "a"
                         [] code = "digit" -> IF g_shift THEN "!" ELSE "1"
                         [] OTHER -> "none"

\* ttyq_push, unless the window manager has taken the keyboard; the event for
\* /dev/kbd goes into a ring of the same kind.
Emit(ch) == IF ch # "none" /\ g_tty_input_enabled THEN push(ch) ELSE UNCHANGED ringVars

\* Plausible bugs, used to test the properties.
HandlerIgnoresPrefix ==
    /\ device = "keyboard"
    /\ wire # << >>
    /\ wire' = Tail(wire)
    /\ LET b == Head(wire)
       IN  /\ g_shift' = IF b.sc \in Shifts THEN ~b.released ELSE g_shift
           /\ g_caps' = IF b.sc = "caps" /\ ~b.released THEN ~g_caps ELSE g_caps
           /\ IF b.released THEN UNCHANGED ringVars ELSE Emit(translate_key(b.sc))
    /\ UNCHANGED <<device, down, caps, sure, g_e0, g_tty_input_enabled, mouseVars>>

\* The interrupt handler.  A prefix is remembered and the code after it ignored;
\* either shift key sets or clears the one flag; other releases are ignored.
keyboard_handler ==
    /\ device = "keyboard"
    /\ wire # << >>
    /\ wire' = Tail(wire)
    /\ LET b == Head(wire)
       IN  \/ /\ b.sc = "e0"
              /\ g_e0' = TRUE
              /\ UNCHANGED <<ringVars, g_shift, g_caps>>
           \/ /\ b.sc # "e0" /\ g_e0
              /\ g_e0' = FALSE
              /\ UNCHANGED <<ringVars, g_shift, g_caps>>
           \/ /\ b.sc \in Shifts /\ ~g_e0
              /\ g_shift' = ~b.released
              /\ UNCHANGED <<ringVars, g_caps, g_e0>>
           \/ /\ b.sc = "caps" /\ ~b.released /\ ~g_e0
              /\ g_caps' = ~g_caps
              /\ UNCHANGED <<ringVars, g_shift, g_e0>>
           \/ /\ b.sc \notin Shifts \cup {"e0", "caps"} /\ ~b.released /\ ~g_e0
              /\ Emit(translate_key(b.sc))
              /\ UNCHANGED <<g_shift, g_caps, g_e0>>
           \/ /\ b.sc \notin Shifts \cup {"e0"} /\ b.released /\ ~g_e0
              /\ UNCHANGED <<ringVars, g_shift, g_caps, g_e0>>
    /\ UNCHANGED <<device, down, caps, sure, g_tty_input_enabled, mouseVars>>

\* syscall_set_kbd_mode: 0 gives the keyboard to the tty, 1 takes it away.
syscall_set_kbd_mode(mode) ==
    /\ device = "keyboard"
    /\ g_tty_input_enabled' = (mode = 0)
    /\ UNCHANGED <<ringVars, device, wire, down, caps, sure, g_shift, g_caps, g_e0, mouseVars>>

\* The ring: characters arrive, a program reads them.
tty == /\ device = "tty"
       /\ Next
       /\ UNCHANGED <<device, wire, kbdVars, mouseVars>>

-----------------------------------------------------------------------------
(* The mouse (external) and drivers/mouse.c.                               *)

\* v & mask, for a mask of one bit.
Bit(v, mask) == (v \div mask) % 2 = 1

\* A report of the movement m: flags with the signs and the always-set bit, and
\* the low eight bits of each movement.
mouse_report(m) ==
    /\ device = "mouse"
    /\ LET flags == 8 + (IF m.dx < 0 THEN 16 ELSE 0) + (IF m.dy < 0 THEN 32 ELSE 0)
           byte(v, p) == [v |-> v, pos |-> p, move |-> m]
       IN  Send(<<byte(flags, 1), byte(m.dx % 256, 2), byte(m.dy % 256, 3)>>)
    /\ UNCHANGED <<ringVars, device, kbdVars, mouseVars>>

\* The controller overruns and a byte is gone.
byte_lost == /\ device = "mouse"
             /\ wire # << >>
             /\ wire' = Tail(wire)
             /\ synced' = 0
             /\ UNCHANGED <<ringVars, device, kbdVars, g_packet, g_x, g_y>>

\* The byte as int8_t when the flag says negative, as uint8_t when not.
Delta(v, negative) == IF negative /\ v >= 128 THEN v - 256 ELSE v

Clamp(v, size) == CASE v < 0 -> 0 [] v >= size -> size - 1 [] OTHER -> v

\* mouse_apply_packet: dropped without the always-set bit or with an overflow.
mouse_apply_packet(p) ==
    LET flags == p[1]
    IN  \/ /\ Bit(flags, 8) /\ ~Bit(flags, 64) /\ ~Bit(flags, 128)
           /\ g_x' = Clamp(g_x + Delta(p[2], Bit(flags, 16)), Width)
           /\ g_y' = Clamp(g_y - Delta(p[3], Bit(flags, 32)), Height)
        \/ /\ ~Bit(flags, 8) \/ Bit(flags, 64) \/ Bit(flags, 128)
           /\ UNCHANGED <<g_x, g_y>>

\* A packet is quiet if no movement byte can be taken for a header.
Quiet(b) == b.pos = 1 \/ ~Bit(b.v, 8)

Progress(b) == CASE synced = 3 -> 3
                 [] synced # 3 /\ b.pos = 1 -> 1
                 [] synced # 3 /\ b.pos # 1 /\ b.pos = synced + 1 /\ Quiet(b) -> synced + 1
                 [] OTHER -> 0

\* A plausible bug, used to test the properties.
HandlerNeverResyncs ==
    /\ device = "mouse"
    /\ wire # << >>
    /\ wire' = Tail(wire)
    /\ synced' = Progress(Head(wire))
    /\ IF Len(g_packet) = 2
       THEN g_packet' = << >> /\ mouse_apply_packet(Append(g_packet, Head(wire).v))
       ELSE g_packet' = Append(g_packet, Head(wire).v) /\ UNCHANGED <<g_x, g_y>>
    /\ UNCHANGED <<ringVars, device, kbdVars>>

\* The interrupt handler.  "Hard resync": no packet starts with a byte that
\* lacks the always-set bit.
mouse_handler ==
    /\ device = "mouse"
    /\ wire # << >>
    /\ wire' = Tail(wire)
    /\ synced' = Progress(Head(wire))
    /\ LET b == Head(wire)
       IN  \/ /\ g_packet = << >> /\ ~Bit(b.v, 8)
              /\ UNCHANGED <<g_packet, g_x, g_y>>
           \/ /\ g_packet # << >> \/ Bit(b.v, 8)
              /\ Len(g_packet) < 2
              /\ g_packet' = Append(g_packet, b.v)
              /\ UNCHANGED <<g_x, g_y>>
           \/ /\ Len(g_packet) = 2
              /\ g_packet' = << >>
              /\ mouse_apply_packet(Append(g_packet, b.v))
    /\ UNCHANGED <<ringVars, device, kbdVars>>

DNext == \/ \E k \in Keys : press(k) \/ repeat(k) \/ release(k)
         \/ keyboard_handler
         \/ \E mode \in {0, 1} : syscall_set_kbd_mode(mode)
         \/ tty
         \/ \E m \in Moves : mouse_report(m)
         \/ byte_lost
         \/ mouse_handler

DSpec == DInit /\ [][DNext]_dvars

-----------------------------------------------------------------------------

\* Characters reach the tty as they were typed: whatever keys are pressed, held
\* and let go of while earlier codes still wait, with prefixed keys and their
\* fake shift codes in between, a character is upper case or shifted exactly
\* when its key went down with shift or caps lock on.  (Not once both shift
\* keys were held together, or caps lock was held until it repeated.)
CharsAsTyped ==
    [][keyboard_handler /\ w' # w => Head(wire).meant \in {"any", q'[w]}]_dvars

\* The pointer makes the movement the mouse reported and stays on the screen:
\* bytes are never combined across packets, not even after bytes were lost,
\* once a packet without header-like movement bytes has gone by.  (Movements
\* below -128 are decoded as positive and are left out.)
PointerFollows ==
    [][mouse_handler /\ synced = 3 /\ Head(wire).pos = 3 /\ Head(wire).move.dx >= -128
                     /\ Head(wire).move.dy >= -128
         => /\ g_x' = Clamp(g_x + Head(wire).move.dx, Width)
            /\ g_y' = Clamp(g_y - Head(wire).move.dy, Height)]_dvars
=============================================================================
