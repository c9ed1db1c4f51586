----------------------------- MODULE InputRing ------------------------------
(***************************************************************************)
(* The ring buffer that the kernel uses four times with the same code: the *)
(* keyboard events of dev_kbd.c, the mouse events of dev_mouse.c, the tty  *)
(* characters of drivers/keyboard.c (ttyq_push, ttyq_pop) and the captured *)
(* stdout of syscall.c.  One slot stays empty so that r = w means empty; a *)
(* push into a full ring moves r past the oldest item.                     *)
(*                                                                         *)
(* Producers run in interrupt handlers (keyboard, mouse) or system calls,  *)
(* consumers in system calls; each runs with interrupts off, so pushes and *)
(* reads are whole steps.                                                  *)
(***************************************************************************)
EXTENDS Integers, Sequences

CONSTANTS Item,
          LEN,       \* KBDQ_LEN, MOUSEQ_CAP, TTYQ_LEN or sizeof(buf)
          MaxRead,   \* bound: items asked for in one read
          Blank      \* what an unused slot holds

ASSUME RingAssumption == /\ LEN \in Nat /\ LEN >= 2
                         /\ MaxRead \in Nat \ {0}

VARIABLES q,     \* the slots
          r, w,  \* next slot to read, next slot to write
          last   \* what the last read returned

vars == <<q, r, w, last>>

Slots == 0..(LEN - 1)

Init == /\ q = [i \in Slots |-> Blank]
        /\ r = 0
        /\ w = 0
        /\ last = << >>

\* The slot after i.
Succ(i) == (i + 1) % LEN

\* Plausible bugs, used to test the properties.
PushDropsNothing(e) == /\ q' = [q EXCEPT ![w] = e]
                       /\ w' = Succ(w)
                       /\ UNCHANGED <<r, last>>

\* dev_kbd_push_event, dev_mouse_push_event, ttyq_push, syscall_putchar.
push(e) == /\ r' = IF Succ(w) = r THEN Succ(r) ELSE r
           /\ q' = [q EXCEPT ![w] = e]
           /\ w' = Succ(w)
           /\ UNCHANGED last

\* Items between r and w.
Used == IF w >= r THEN w - r ELSE LEN - (r - w)

\* The slot i places after r.
At(i) == IF r + i < LEN THEN r + i ELSE r + i - LEN

\* dev_kbd_read and dev_mouse0_read take one event; keyboard_read,
\* ttydev_read_line and syscall_readstdout loop until n items or r = w.
read(n) == LET m == IF n <= Used THEN n ELSE Used
           IN  /\ last' = [i \in 1..m |-> q[At(i - 1)]]
               /\ r' = At(m)
               /\ UNCHANGED <<q, w>>

Next == \/ \E e \in Item : push(e)
        \/ \E n \in 1..MaxRead : read(n)

Spec == Init /\ [][Next]_vars

-----------------------------------------------------------------------------

\* The types of the ring: the indices never leave the buffer.
TypeOK == /\ q \in [Slots -> Item \cup {Blank}]
          /\ r \in Slots
          /\ w \in Slots
          /\ last \in Seq(Item)

\* The unread items, oldest first.
Content == [i \in 1..Used |-> q[At(i - 1)]]

LQ == INSTANCE LossyQueue WITH items <- Content, Cap <- LEN - 1

\* Through any number of wrap-arounds the ring is a queue that keeps the
\* newest LEN - 1 items in order: r = w is never a full ring, and no read
\* returns a stale or unwritten slot.
ImplementsLossyQueue == LQ!Spec
=============================================================================
