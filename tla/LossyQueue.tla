----------------------------- MODULE LossyQueue -----------------------------
(***************************************************************************)
(* What the kernel's input queues promise: a first-in first-out queue of   *)
(* at most Cap items that, when full, forgets its oldest item to make room *)
(* for a new one ("drop oldest", dev_kbd.c and dev_mouse.c).               *)
(***************************************************************************)
EXTENDS Integers, Sequences

CONSTANTS Item,   \* events or characters
          Cap,    \* how many items the queue keeps
          MaxRead \* bound: items asked for in one read

VARIABLES items,  \* the queue, oldest first
          last    \* what the last read returned

lqVars == <<items, last>>

Init == items = << >> /\ last = << >>

Keep(s) == IF Len(s) > Cap THEN Tail(s) ELSE s

Push(e) == /\ items' = Keep(Append(items, e))
           /\ UNCHANGED last

\* Up to n items, oldest first; none when the queue is empty.
Read(n) == LET m == IF n <= Len(items) THEN n ELSE Len(items)
           IN  /\ last' = SubSeq(items, 1, m)
               /\ items' = SubSeq(items, m + 1, Len(items))

Next == \/ \E e \in Item : Push(e)
        \/ \E n \in 1..MaxRead : Read(n)

Spec == Init /\ [][Next]_lqVars
=============================================================================
