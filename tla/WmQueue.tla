------------------------------ MODULE WmQueue -------------------------------
(***************************************************************************)
(* One endpoint of /dev/wm as it is stored (kernel/src/fs/dev/dev_wm.c): a *)
(* ring of bytes holding messages back to back, each a header followed by  *)
(* its payload, wrapping around the end of the buffer anywhere.  A byte is *)
(* modelled as <<message, index>>; the length a peeked header yields is    *)
(* that of the message its first byte belongs to.                          *)
(*                                                                         *)
(* enqueue_msg and dev_wm_read run under irq_save, so each is one step.    *)
(***************************************************************************)
EXTENDS Integers, Sequences, FiniteSets

CONSTANTS Msg, HDR, Size, None,
          WMQ_BYTES,       \* bytes of the ring
          WM_MAX_PAYLOAD   \* longest payload

ASSUME WmQueueAssumption == /\ WMQ_BYTES \in Nat /\ WM_MAX_PAYLOAD \in Nat
                            /\ \A m \in Msg : m.len \in 0..WM_MAX_PAYLOAD
                            /\ HDR \in Nat \ {0}
                            /\ HDR + WM_MAX_PAYLOAD < WMQ_BYTES
                            /\ Size \subseteq Nat

VARIABLES q, r, w, last

qvars == <<q, r, w, last>>

QInit == /\ q = [i \in 0..(WMQ_BYTES - 1) |-> None]
         /\ r = 0
         /\ w = 0
         /\ last = None

Total(m) == HDR + m.len

Used(from) == IF w >= from THEN w - from ELSE WMQ_BYTES - (from - w)

\* A plausible bug, used to test the properties.
FreeToTheBrim(from) == WMQ_BYTES - Used(from)

\* keep 1 byte empty to distinguish full/empty
q_free(from) == (WMQ_BYTES - 1) - Used(from)

\* Plausible bugs, used to test the properties.
WrapShort(m) == IF Total(m) <= WMQ_BYTES - w THEN (w + Total(m)) % WMQ_BYTES
                ELSE Total(m) - (WMQ_BYTES - w) - 1

\* Where q_write leaves w after header and payload.
AfterWrite(m) == (w + Total(m)) % WMQ_BYTES

\* The message whose header starts at byte i.
At(i) == q[i][1]

\* At most this many messages are ever queued.
MaxMsgs == WMQ_BYTES \div HDR

\* r after j of the oldest messages are dropped (or as many as there are).
Dropped == LET Drop(i) == IF Used(i) < HDR THEN i ELSE (i + Total(At(i))) % WMQ_BYTES
               d[j \in 0..MaxMsgs] == IF j = 0 THEN r ELSE Drop(d[j - 1])
           IN  d

\* The bytes of m written from w on, wrapping.
Written(m) == [i \in DOMAIN q |->
                  LET k == (i - w) % WMQ_BYTES
                  IN  IF k < Total(m) THEN <<m, k>> ELSE q[i]]

\* Drop oldest messages until there is room, then append.
enqueue_msg(m) ==
    \E j \in 0..MaxMsgs :
        /\ q_free(Dropped[j]) >= Total(m)
        /\ \A i \in 0..(j - 1) : q_free(Dropped[i]) < Total(m)
        /\ r' = Dropped[j]
        /\ q' = Written(m)
        /\ w' = AfterWrite(m)
        /\ UNCHANGED last

\* dev_wm_read on the endpoint: the oldest message leaves the ring.  A message
\* longer than the buffer stays queued and the read fails.
dequeue_msg(size) ==
    \/ /\ Used(r) # 0
       /\ Total(At(r)) <= size
       /\ last' = At(r)
       /\ r' = (r + Total(At(r))) % WMQ_BYTES
       /\ UNCHANGED <<q, w>>
    \/ /\ Used(r) # 0 => Total(At(r)) > size
       /\ last' = None
       /\ UNCHANGED <<q, r, w>>

QNext == \/ \E m \in Msg : enqueue_msg(m)
         \/ \E size \in Size : dequeue_msg(size)

QSpec == QInit /\ [][QNext]_qvars

-----------------------------------------------------------------------------

\* Messages between r and w.
Count == CHOOSE n \in 0..MaxMsgs : Dropped[n] = w /\ \A i \in 0..(n - 1) : Dropped[i] # w

\* Framing: from r to w the ring holds whole messages back to back and nothing
\* else, so a header is always read where a header was written, whatever was
\* dropped and wherever the ring wrapped; the "corrupt; reset queue" branch is
\* never needed.
Framed == /\ \E n \in 0..MaxMsgs : Dropped[n] = w
          /\ \A i \in 0..(Count - 1) :
                \A k \in 0..(Total(At(Dropped[i])) - 1) :
                    q[(Dropped[i] + k) % WMQ_BYTES] = <<At(Dropped[i]), k>>

MQ == INSTANCE MsgQueue WITH items <- [i \in 1..Count |-> At(Dropped[i - 1])],
                             Budget <- WMQ_BYTES - 1

\* The byte ring delivers whole messages in order and drops only the oldest,
\* no more of them than needed.
ImplementsMsgQueue == MQ!Spec
=============================================================================
