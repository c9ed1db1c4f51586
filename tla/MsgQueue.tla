------------------------------ MODULE MsgQueue ------------------------------
(***************************************************************************)
(* What an endpoint of /dev/wm promises: whole messages, in the order they *)
(* were sent, within a budget of bytes; when a new message does not fit,   *)
(* the oldest ones are dropped, as few as possible.                        *)
(***************************************************************************)
EXTENDS Integers, Sequences

CONSTANTS Msg,        \* messages: records with a field len, their payload
          HDR,        \* bytes of the header in front of each message
          Budget,     \* bytes the queue can hold
          Size,       \* sizes of the buffers readers pass
          None        \* read returned nothing

VARIABLES items, last

mqVars == <<items, last>>

Total(m) == HDR + m.len

Bytes(s) == LET sum[k \in 0..Len(s)] == IF k = 0 THEN 0 ELSE sum[k - 1] + Total(s[k])
            IN  sum[Len(s)]

Init == items = << >> /\ last = None

\* The longest suffix that leaves room for m.
Fits(k, m) == Bytes(SubSeq(items, k + 1, Len(items))) + Total(m) <= Budget

Enqueue(m) == \E k \in 0..Len(items) :
                 /\ Fits(k, m)
                 /\ \A j \in 0..(k - 1) : ~Fits(j, m)
                 /\ items' = Append(SubSeq(items, k + 1, Len(items)), m)
                 /\ UNCHANGED last

\* The oldest message if the reader's buffer can take it.
Dequeue(size) == \/ /\ items # << >>
                    /\ Total(Head(items)) <= size
                    /\ last' = Head(items)
                    /\ items' = Tail(items)
                 \/ /\ items # << >> => Total(Head(items)) > size
                    /\ last' = None
                    /\ UNCHANGED items

Next == \/ \E m \in Msg : Enqueue(m)
        \/ \E size \in Size : Dequeue(size)

Spec == Init /\ [][Next]_mqVars
=============================================================================
