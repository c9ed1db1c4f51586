---------------------------- MODULE DevWm_proofs ----------------------------
(***************************************************************************)
(* Proofs about /dev/wm, from the bytes of an endpoint's ring up to the    *)
(* programs that open the desktop over it.                                 *)
(*                                                                         *)
(* The ring (WmQueue), for every size of the ring and of the header, every *)
(* set of messages that fit and every size of the readers' buffers: the    *)
(* bytes from r to w are whole messages, and the ring implements the       *)
(* message queue MsgQueue.  The argument counts bytes back from w.  The    *)
(* messages s are stored with U[i] bytes left behind the i-th, so message  *)
(* i starts U[i - 1] bytes before w, wherever the ring wraps:              *)
(* Framing(s, U, q, r, w).                                                 *)
(*                                                                         *)
(* The device (DevWm), for any number of processes, endpoints and queued   *)
(* messages.  The inductive invariant adds to the three invariants that a  *)
(* free slot has no messages and that all slots are free until there is a  *)
(* server: the first writer finds room, and whoever takes a slot later     *)
(* takes an empty queue with it.                                           *)
(*                                                                         *)
(* The session (Startup), for every size of the table and of the queues    *)
(* and every number of polls.  The inductive invariant follows the one     *)
(* request that is under way: it waits for the window manager, is with it, *)
(* is answered, or its answer found no endpoint.                           *)
(***************************************************************************)
EXTENDS WmQueue, Startup, FiniteSetTheorems, WellFoundedInduction, TLAPS

(* The byte ring of an endpoint.                                           *)

\* The place u bytes before b, and how many bytes before b the place i is.
Back(b, u) == IF b >= u THEN b - u ELSE b - u + WMQ_BYTES
Behind(b, i) == IF b >= i THEN b - i ELSE WMQ_BYTES - (i - b)

\* The ring B between a and b holds the messages s, U[i] bytes of which follow
\* the i-th.
Framing(s, U, B, a, b) ==
    /\ s \in Seq(Msg)
    /\ U \in [0..Len(s) -> 0..(WMQ_BYTES - 1)]
    /\ U[Len(s)] = 0
    /\ \A i \in 1..Len(s) : U[i - 1] = U[i] + Total(s[i])
    /\ b \in 0..(WMQ_BYTES - 1)
    /\ a = Back(b, U[0])
    /\ DOMAIN B = 0..(WMQ_BYTES - 1)
    /\ \A i \in 1..Len(s) : \A k \in 0..(Total(s[i]) - 1) : B[Back(b, U[i - 1] - k)] = <<s[i], k>>

\* The header of m is at x.
StartsAt(m, B, x) == B[x] = <<m, 0>>

\* The inductive invariant.
QueueInv == \E s, U : Framing(s, U, q, r, w)

\* Dropped, Count and the abstract queue as functions of the ring.
DropFrom(B, b, i) == IF Behind(b, i) < HDR THEN i ELSE (i + Total(B[i][1])) % WMQ_BYTES
DroppedOf(B, a, b) == LET d[j \in 0..MaxMsgs] == IF j = 0 THEN a ELSE DropFrom(B, b, d[j - 1])
                      IN  d
CountOf(B, a, b) == CHOOSE n \in 0..MaxMsgs : /\ DroppedOf(B, a, b)[n] = b
                                              /\ \A i \in 0..(n - 1) : DroppedOf(B, a, b)[i] # b
ItemsOf(B, a, b) == [i \in 1..CountOf(B, a, b) |-> B[DroppedOf(B, a, b)[i - 1]][1]]

\* The abstract queue.
Items == [i \in 1..Count |-> At(Dropped[i - 1])]

\* The bytes of the first k messages of t.
SumTo(t) == LET sum[k \in 0..Len(t)] == IF k = 0 THEN 0 ELSE sum[k - 1] + Total(t[k])
            IN  sum

-----------------------------------------------------------------------------

\* A message with its header fits into an empty ring.
LEMMA TotalType ==
    ASSUME NEW m \in Msg
    PROVE  Total(m) \in Nat /\ Total(m) >= HDR /\ Total(m) < WMQ_BYTES
  BY WmQueueAssumption DEF Total

\* The mapping to the abstract queue depends on the ring alone.
LEMMA ItemsAreItemsOf ==
    /\ Dropped = DroppedOf(q, r, w) /\ Dropped' = DroppedOf(q', r', w')
    /\ Count = CountOf(q, r, w) /\ Count' = CountOf(q', r', w')
    /\ Items = ItemsOf(q, r, w) /\ Items' = ItemsOf(q', r', w')
<1>1. Dropped = DroppedOf(q, r, w) /\ Dropped' = DroppedOf(q', r', w')
  BY DEF Dropped, DroppedOf, DropFrom, Used, Behind, At
<1>2. Count = CountOf(q, r, w) /\ Count' = CountOf(q', r', w')
  BY <1>1 DEF Count, CountOf
<1> QED BY <1>1, <1>2 DEF Items, ItemsOf, At

\* Wrapping around the end of the ring.
LEMMA WrapMod ==
    ASSUME NEW a \in Int, 0 - WMQ_BYTES < a, a < WMQ_BYTES + WMQ_BYTES
    PROVE  a % WMQ_BYTES = IF a < 0 THEN a + WMQ_BYTES
                           ELSE IF a < WMQ_BYTES THEN a ELSE a - WMQ_BYTES
<1> DEFINE N == WMQ_BYTES
           d == a \div N
           m == a % N
           x == N * d
<1>0. N \in Nat /\ N > 0
  BY WmQueueAssumption
<1> HIDE DEF N
<1>1. d \in Int /\ m \in 0..(N - 1) /\ a = x + m
  BY <1>0
<1>2. /\ d >= 2 => x >= N + N
      /\ d <= -2 => x <= 0 - (N + N)
      /\ d = 1 => x = N
      /\ d = 0 => x = 0
      /\ d = -1 => x = 0 - N
      /\ x \in Int
  <2> HIDE DEF d
  <2> QED BY <1>0, <1>1
<1>3. d >= 2 \/ d <= -2 \/ d = 1 \/ d = 0 \/ d = -1
  <2> HIDE DEF d
  <2> QED BY <1>1
<1> HIDE DEF d, m, x
<1>4. m = IF a < 0 THEN a + N ELSE IF a < N THEN a ELSE a - N
  BY <1>0, <1>1, <1>2, <1>3 DEF N
<1> QED BY <1>4 DEF m, N

\* Going back from a place of the ring ends in the ring.
LEMMA BackType ==
    ASSUME NEW b \in 0..(WMQ_BYTES - 1), NEW u \in 0..(WMQ_BYTES - 1)
    PROVE  /\ Back(b, u) \in 0..(WMQ_BYTES - 1)
           /\ Behind(b, Back(b, u)) = u
           /\ Back(b, u) = b <=> u = 0
  BY WmQueueAssumption DEF Back, Behind

\* Going on by t bytes from u bytes before b.
LEMMA BackAdd ==
    ASSUME NEW b \in 0..(WMQ_BYTES - 1), NEW u \in 0..(WMQ_BYTES - 1), NEW t \in 0..u
    PROVE  (Back(b, u) + t) % WMQ_BYTES = Back(b, u - t)
<1> DEFINE a == Back(b, u) + t
<1>1. a \in Int /\ 0 - WMQ_BYTES < a /\ a < WMQ_BYTES + WMQ_BYTES
  BY WmQueueAssumption DEF Back
<1>2. a % WMQ_BYTES = IF a < 0 THEN a + WMQ_BYTES
                      ELSE IF a < WMQ_BYTES THEN a ELSE a - WMQ_BYTES
  <2> HIDE DEF a
  <2> QED BY <1>1, WrapMod
<1> QED BY <1>2, WmQueueAssumption DEF Back

\* The t bytes written from b on, seen from where w ends up, c: a byte that was u
\* before b is u + t before c, and the k-th byte written is t - k before c.
Shifted(b, t, c) ==
    /\ c \in 0..(WMQ_BYTES - 1)
    /\ \A u \in 0..(WMQ_BYTES - 1 - t) : Back(c, u + t) = Back(b, u)
    /\ \A k \in 0..(t - 1) : /\ Back(c, t - k) \in 0..(WMQ_BYTES - 1)
                             /\ (Back(c, t - k) - b) % WMQ_BYTES = k

\* Where w ends up, seen from the new w and from the old one.
LEMMA BackShift ==
    ASSUME NEW b \in 0..(WMQ_BYTES - 1), NEW t \in 0..(WMQ_BYTES - 1),
           NEW c, c = (b + t) % WMQ_BYTES
    PROVE  Shifted(b, t, c)
<1>1. c = IF b + t < WMQ_BYTES THEN b + t ELSE b + t - WMQ_BYTES
  <2> DEFINE a == b + t
  <2>1. a \in Int /\ 0 - WMQ_BYTES < a /\ a < WMQ_BYTES + WMQ_BYTES /\ ~(a < 0)
    BY WmQueueAssumption
  <2> HIDE DEF a
  <2>2. a % WMQ_BYTES = IF a < WMQ_BYTES THEN a ELSE a - WMQ_BYTES
    BY <2>1, WrapMod
  <2>3. c = a % WMQ_BYTES
    BY DEF a
  <2>4. (a < WMQ_BYTES => c = a) /\ (~(a < WMQ_BYTES) => c = a - WMQ_BYTES)
    BY <2>2, <2>3
  <2> QED BY <2>4, WmQueueAssumption DEF a
<1>2. c \in 0..(WMQ_BYTES - 1)
  BY <1>1, WmQueueAssumption
<1>3. \A u \in 0..(WMQ_BYTES - 1 - t) : Back(c, u + t) = Back(b, u)
  BY <1>1, WmQueueAssumption DEF Back
<1>4. ASSUME NEW k \in 0..(t - 1)
      PROVE  Back(c, t - k) \in 0..(WMQ_BYTES - 1) /\ (Back(c, t - k) - b) % WMQ_BYTES = k
  <2> DEFINE e == Back(c, t - k)
             a == e - b
  <2>1. e \in 0..(WMQ_BYTES - 1) /\ (e = b + k \/ e = b + k - WMQ_BYTES)
    BY <1>1, WmQueueAssumption DEF Back
  <2> HIDE DEF e
  <2>2. a \in Int /\ 0 - WMQ_BYTES < a /\ a < WMQ_BYTES + WMQ_BYTES
    BY <2>1, WmQueueAssumption
  <2> HIDE DEF a
  <2>3. a % WMQ_BYTES = IF a < 0 THEN a + WMQ_BYTES
                        ELSE IF a < WMQ_BYTES THEN a ELSE a - WMQ_BYTES
    BY <2>2, WrapMod
  <2>4. a % WMQ_BYTES = k
    BY <2>1, <2>3, WmQueueAssumption DEF a
  <2> QED BY <2>1, <2>4 DEF a, e
<1> QED BY <1>2, <1>3, <1>4 DEF Shifted

\* The byte u bytes before b lies beyond the WMQ_BYTES - u bytes from b on.
LEMMA BackDistance ==
    ASSUME NEW b \in 0..(WMQ_BYTES - 1), NEW u \in 1..(WMQ_BYTES - 1)
    PROVE  (Back(b, u) - b) % WMQ_BYTES = WMQ_BYTES - u
<1> DEFINE a == Back(b, u) - b
<1>1. a \in Int /\ 0 - WMQ_BYTES < a /\ a < WMQ_BYTES + WMQ_BYTES
  BY WmQueueAssumption DEF Back
<1>2. a % WMQ_BYTES = IF a < 0 THEN a + WMQ_BYTES
                      ELSE IF a < WMQ_BYTES THEN a ELSE a - WMQ_BYTES
  <2> HIDE DEF a
  <2> QED BY <1>1, WrapMod
<1> QED BY <1>2, WmQueueAssumption DEF Back

-----------------------------------------------------------------------------

\* Every nonempty set of naturals has a least element.
LEMMA LeastElement ==
    ASSUME NEW T \in SUBSET Nat, T # {}
    PROVE  \E x \in T : \A y \in T : x <= y
<1> DEFINE R == {ss \in Nat \X Nat : ss[1] < ss[2]}
<1>1. IsWellFoundedOn(R, Nat)
  BY NatLessThanWellFounded, Zenon DEF OpToRel
<1>2. \A a, b \in Nat : a < b => <<a, b>> \in R
  OBVIOUS
<1> HIDE DEF R
<1>3. PICK x \in T : \A y \in T : ~(<<y, x>> \in R)
  BY <1>1, WFMin, Zenon
<1>4. ASSUME NEW y \in T PROVE x <= y
  <2>1. ~(y < x)
    BY <1>2, <1>3, Zenon
  <2> QED BY <2>1
<1> QED BY <1>4

\* The most messages a ring holds is a number.
LEMMA MaxMsgsType == MaxMsgs \in Nat
  BY WmQueueAssumption DEF MaxMsgs

\* The recursive definition of Dropped has a solution.
LEMMA DroppedDef ==
    ASSUME NEW B, NEW a, NEW b
    PROVE  /\ DroppedOf(B, a, b)[0] = a
           /\ \A j \in 1..MaxMsgs : DroppedOf(B, a, b)[j] = DropFrom(B, b, DroppedOf(B, a, b)[j - 1])
<1> DEFINE Solves(g, n) == g = [k \in 0..n |-> IF k = 0 THEN a ELSE DropFrom(B, b, g[k - 1])]
           S == {n \in Nat : ~ \E g : Solves(g, n)}
<1>1. S = {}
  <2> SUFFICES ASSUME S # {} PROVE FALSE
    OBVIOUS
  <2>1. PICK n \in S : \A y \in S : n <= y
    <3>1. S \in SUBSET Nat
      OBVIOUS
    <3> HIDE DEF S
    <3> QED BY <3>1, LeastElement
  <2>2. n # 0
    <3>1. Solves([k \in 0..0 |-> a], 0)
      OBVIOUS
    <3> QED BY <3>1
  <2>3. PICK g : Solves(g, n - 1)
    <3>1. n \in Nat /\ n - 1 \in Nat /\ ~(n <= n - 1)
      BY <2>1, <2>2
    <3>2. n - 1 \notin S
      BY <2>1, <3>1
    <3> HIDE DEF Solves
    <3> QED BY <3>1, <3>2
  <2> DEFINE f == [k \in 0..n |-> IF k = n THEN DropFrom(B, b, g[n - 1]) ELSE g[k]]
  <2>4. Solves(f, n)
    <3>1. ASSUME NEW k \in 0..n
          PROVE  f[k] = IF k = 0 THEN a ELSE DropFrom(B, b, f[k - 1])
      BY <2>2, <2>3
    <3> QED BY <3>1
  <2> HIDE DEF f, Solves
  <2> QED BY <2>4
<1>2. PICK g : Solves(g, MaxMsgs)
  BY <1>1, MaxMsgsType
<1>3. Solves(DroppedOf(B, a, b), MaxMsgs)
  BY <1>2 DEF DroppedOf
<1> HIDE DEF S
<1>4. \A k \in 0..MaxMsgs : DroppedOf(B, a, b)[k] =
                               IF k = 0 THEN a ELSE DropFrom(B, b, DroppedOf(B, a, b)[k - 1])
  BY <1>3
<1> QED BY <1>4, MaxMsgsType

\* The recursive definition of Bytes has a solution.
LEMMA SumDef ==
    ASSUME NEW t, Len(t) \in Nat
    PROVE  /\ SumTo(t)[0] = 0
           /\ \A k \in 1..Len(t) : SumTo(t)[k] = SumTo(t)[k - 1] + Total(t[k])
<1> DEFINE Solves(g, n) == g = [k \in 0..n |-> IF k = 0 THEN 0 ELSE g[k - 1] + Total(t[k])]
           S == {n \in Nat : ~ \E g : Solves(g, n)}
<1>1. S = {}
  <2> SUFFICES ASSUME S # {} PROVE FALSE
    OBVIOUS
  <2>1. PICK n \in S : \A y \in S : n <= y
    <3>1. S \in SUBSET Nat
      OBVIOUS
    <3> HIDE DEF S
    <3> QED BY <3>1, LeastElement
  <2>2. n # 0
    <3>1. Solves([k \in 0..0 |-> 0], 0)
      OBVIOUS
    <3> QED BY <3>1
  <2>3. PICK g : Solves(g, n - 1)
    <3>1. n \in Nat /\ n - 1 \in Nat /\ ~(n <= n - 1)
      BY <2>1, <2>2
    <3>2. n - 1 \notin S
      BY <2>1, <3>1
    <3> HIDE DEF Solves
    <3> QED BY <3>1, <3>2
  <2> DEFINE f == [k \in 0..n |-> IF k = n THEN g[n - 1] + Total(t[n]) ELSE g[k]]
  <2>4. Solves(f, n)
    <3>1. ASSUME NEW k \in 0..n
          PROVE  f[k] = IF k = 0 THEN 0 ELSE f[k - 1] + Total(t[k])
      BY <2>2, <2>3
    <3> QED BY <3>1
  <2> HIDE DEF f, Solves
  <2> QED BY <2>4
<1>2. PICK g : Solves(g, Len(t))
  BY <1>1
<1>3. Solves(SumTo(t), Len(t))
  BY <1>2 DEF SumTo
<1> HIDE DEF S
<1>4. \A k \in 0..Len(t) : SumTo(t)[k] = IF k = 0 THEN 0 ELSE SumTo(t)[k - 1] + Total(t[k])
  BY <1>3
<1> QED BY <1>4

\* The parts of Framing.
LEMMA FramingParts ==
    ASSUME NEW s, NEW U, NEW B, NEW a, NEW b, Framing(s, U, B, a, b)
    PROVE  /\ s \in Seq(Msg) /\ Len(s) \in Nat
           /\ b \in 0..(WMQ_BYTES - 1) /\ a = Back(b, U[0])
           /\ DOMAIN B = 0..(WMQ_BYTES - 1)
           /\ U[Len(s)] = 0
           /\ \A i \in 0..Len(s) : U[i] \in 0..(WMQ_BYTES - 1)
           /\ \A i \in 1..Len(s) : /\ s[i] \in Msg
                                   /\ Total(s[i]) \in Nat /\ Total(s[i]) >= HDR
                                   /\ Total(s[i]) < WMQ_BYTES
                                   /\ U[i - 1] = U[i] + Total(s[i])
                                   /\ StartsAt(s[i], B, Back(b, U[i - 1]))
<1>1. /\ s \in Seq(Msg) /\ Len(s) \in Nat /\ U \in [0..Len(s) -> 0..(WMQ_BYTES - 1)]
      /\ \A i \in 1..Len(s) : s[i] \in Msg
  BY DEF Framing
<1>2. ASSUME NEW i \in 1..Len(s)
      PROVE  /\ Total(s[i]) \in Nat /\ Total(s[i]) >= HDR /\ Total(s[i]) < WMQ_BYTES
             /\ StartsAt(s[i], B, Back(b, U[i - 1]))
  <2>1. Total(s[i]) \in Nat /\ Total(s[i]) >= HDR /\ Total(s[i]) < WMQ_BYTES
    BY <1>1, TotalType
  <2>2. 0 \in 0..(Total(s[i]) - 1)
    BY <2>1, WmQueueAssumption
  <2>3. U[i - 1] - 0 = U[i - 1]
    <3>1. i - 1 \in 0..Len(s)
      BY <1>1
    <3>2. U[i - 1] \in 0..(WMQ_BYTES - 1)
      BY <1>1, <3>1
    <3> QED BY <3>2, WmQueueAssumption
  <2>4. B[Back(b, U[i - 1] - 0)] = <<s[i], 0>>
    BY <2>2 DEF Framing
  <2> QED BY <2>1, <2>3, <2>4 DEF StartsAt
<1> QED BY <1>1, <1>2 DEF Framing

\* There is room for at most MaxMsgs messages.
LEMMA FewMessages ==
    ASSUME NEW s, NEW U, NEW B, NEW a, NEW b, Framing(s, U, B, a, b)
    PROVE  Len(s) <= MaxMsgs
<1> DEFINE n == Len(s)
           Good(i) == HDR * i + U[i] <= U[0]
           S == {i \in 0..n : ~Good(i)}
<1>0. /\ n \in Nat /\ HDR \in Nat /\ HDR > 0 /\ WMQ_BYTES \in Nat
      /\ \A i \in 0..n : U[i] \in Nat
      /\ U[n] = 0 /\ U[0] \in 0..(WMQ_BYTES - 1)
  BY FramingParts, WmQueueAssumption
<1>1. S = {}
  <2> SUFFICES ASSUME S # {} PROVE FALSE
    OBVIOUS
  <2>1. PICK i \in S : \A y \in S : i <= y
    <3>1. S \in SUBSET Nat
      OBVIOUS
    <3> HIDE DEF S
    <3> QED BY <3>1, LeastElement
  <2>2. i # 0
    BY <1>0, <2>1
  <2> DEFINE j == i - 1
  <2>3. j \in 0..n /\ i = j + 1 /\ i \in 1..n /\ j < i
    BY <1>0, <2>1, <2>2
  <2>4. U[j] = U[i] + Total(s[i]) /\ Total(s[i]) \in Nat /\ Total(s[i]) >= HDR
    BY <2>3, FramingParts
  <2> HIDE DEF j
  <2>5. Good(j)
    BY <2>1, <2>3
  <2> DEFINE x == HDR * j
  <2>6. x \in Nat /\ HDR * i = x + HDR /\ x + U[j] <= U[0]
    BY <1>0, <2>3, <2>5
  <2> DEFINE y == HDR * i
             v == U[i]
             T == Total(s[i])
  <2>7. v \in Nat /\ T \in Nat /\ T >= HDR /\ y = x + HDR /\ x + (v + T) <= U[0] /\ U[0] \in Nat
    BY <1>0, <2>3, <2>4, <2>6
  <2> HIDE DEF x, y, v, T
  <2>8. y + v <= U[0]
    BY <1>0, <2>6, <2>7
  <2>9. Good(i)
    BY <2>8 DEF y, v
  <2> QED BY <2>1, <2>9
<1>2. HDR * n <= WMQ_BYTES - 1
  <2>1. n \in 0..n
    BY <1>0
  <2>2. Good(n)
    BY <1>1, <2>1
  <2>3. HDR * n \in Int
    BY <1>0
  <2> QED BY <1>0, <2>2, <2>3
<1> DEFINE d == WMQ_BYTES \div HDR
           m == WMQ_BYTES % HDR
<1>3. d \in Nat /\ m \in 0..(HDR - 1) /\ WMQ_BYTES = HDR * d + m
  BY <1>0
<1> HIDE DEF d, m, n
<1>4. n <= d
  <2> SUFFICES ASSUME n >= d + 1 PROVE FALSE
    BY <1>0, <1>3
  <2>1. HDR * n >= HDR * (d + 1)
    BY <1>0, <1>3
  <2>2. HDR * (d + 1) = HDR * d + HDR
    BY <1>0, <1>3
  <2> DEFINE x == HDR * d
             y == HDR * n
  <2>3. x \in Int /\ y \in Int
    BY <1>0, <1>3
  <2>4. y >= x + HDR /\ y <= WMQ_BYTES - 1 /\ WMQ_BYTES = x + m
    BY <1>2, <1>3, <2>1, <2>2
  <2> HIDE DEF x, y
  <2> QED BY <1>0, <1>3, <2>3, <2>4
<1> QED BY <1>4 DEF MaxMsgs, d, n

\* Dropping the oldest messages one by one visits their headers and ends at b.
LEMMA DropsAre ==
    ASSUME NEW s, NEW U, NEW B, NEW a, NEW b, Framing(s, U, B, a, b)
    PROVE  \A j \in 0..Len(s) : DroppedOf(B, a, b)[j] = Back(b, U[j])
<1> DEFINE n == Len(s)
           D == DroppedOf(B, a, b)
           S == {j \in 0..n : D[j] # Back(b, U[j])}
<1>0. /\ s \in Seq(Msg) /\ n \in Nat /\ n <= MaxMsgs /\ MaxMsgs \in Nat
      /\ b \in 0..(WMQ_BYTES - 1) /\ a = Back(b, U[0])
      /\ \A i \in 0..n : U[i] \in 0..(WMQ_BYTES - 1)
      /\ \A i \in 1..n : /\ Total(s[i]) \in Nat /\ Total(s[i]) >= HDR
                         /\ U[i - 1] = U[i] + Total(s[i])
                         /\ StartsAt(s[i], B, Back(b, U[i - 1]))
  <2>1. n <= MaxMsgs /\ MaxMsgs \in Nat
    BY FewMessages, MaxMsgsType
  <2> QED BY <2>1, FramingParts
<1>1. /\ D[0] = a
      /\ \A j \in 1..MaxMsgs : D[j] = DropFrom(B, b, D[j - 1])
  BY DroppedDef
<1> HIDE DEF D
<1> SUFFICES ASSUME S # {} PROVE FALSE
  BY DEF D
<1>2. PICK j \in S : \A y \in S : j <= y
  <2>1. S \in SUBSET Nat
    OBVIOUS
  <2> HIDE DEF S
  <2> QED BY <2>1, LeastElement
<1>3. j # 0
  BY <1>0, <1>1, <1>2
<1> DEFINE i == j - 1
           u == U[i]
           t == Total(s[j])
<1>4. i \in 0..n /\ j \in 1..n /\ j \in 1..MaxMsgs /\ i < j
  BY <1>0, <1>2, <1>3
<1>5. D[i] = Back(b, u)
  BY <1>2, <1>4
<1>6. /\ t \in Nat /\ t >= HDR /\ u = U[j] + t /\ u \in 0..(WMQ_BYTES - 1)
      /\ U[j] \in 0..(WMQ_BYTES - 1) /\ B[Back(b, u)][1] = s[j]
  <2>1. /\ t \in Nat /\ t >= HDR /\ u = U[j] + t /\ u \in 0..(WMQ_BYTES - 1)
        /\ U[j] \in 0..(WMQ_BYTES - 1) /\ StartsAt(s[j], B, Back(b, u))
    BY <1>0, <1>4
  <2>2. B[Back(b, u)][1] = s[j]
    <3> HIDE DEF u
    <3> QED BY <2>1 DEF StartsAt
  <2> QED BY <2>1, <2>2
<1>7. D[j] = DropFrom(B, b, Back(b, u))
  BY <1>1, <1>4, <1>5
<1> HIDE DEF i, u
<1>8. Behind(b, Back(b, u)) = u
  BY <1>0, <1>6, BackType
<1>9. ~(u < HDR) /\ t \in 0..u /\ u - t = U[j]
  BY <1>6, WmQueueAssumption
<1>10. D[j] = (Back(b, u) + t) % WMQ_BYTES
  BY <1>6, <1>7, <1>8, <1>9 DEF DropFrom
<1>11. (Back(b, u) + t) % WMQ_BYTES = Back(b, u - t)
  <2> HIDE DEF t
  <2> QED BY <1>0, <1>6, <1>9, BackAdd
<1> QED BY <1>2, <1>9, <1>10, <1>11

\* What is read off a framed ring: its messages.
LEMMA ItemsAre ==
    ASSUME NEW s, NEW U, NEW B, NEW a, NEW b, Framing(s, U, B, a, b)
    PROVE  CountOf(B, a, b) = Len(s) /\ ItemsOf(B, a, b) = s
<1> DEFINE n == Len(s)
           D == DroppedOf(B, a, b)
<1>0. /\ s \in Seq(Msg) /\ n \in Nat /\ n <= MaxMsgs /\ MaxMsgs \in Nat
      /\ b \in 0..(WMQ_BYTES - 1) /\ U[n] = 0
      /\ \A i \in 0..n : U[i] \in 0..(WMQ_BYTES - 1)
      /\ \A i \in 1..n : /\ Total(s[i]) \in Nat /\ Total(s[i]) >= HDR
                         /\ U[i - 1] = U[i] + Total(s[i])
                         /\ StartsAt(s[i], B, Back(b, U[i - 1]))
  <2>1. n <= MaxMsgs /\ MaxMsgs \in Nat
    BY FewMessages, MaxMsgsType
  <2> QED BY <2>1, FramingParts
<1>1. \A j \in 0..n : D[j] = Back(b, U[j])
  BY DropsAre
<1> HIDE DEF D
<1>2. D[n] = b
  <2>1. n \in 0..n /\ 0 \in 0..(WMQ_BYTES - 1)
    BY <1>0, WmQueueAssumption
  <2>2. Back(b, 0) = b
    BY <1>0, <2>1, BackType
  <2> QED BY <1>0, <1>1, <2>1, <2>2
<1>3. ASSUME NEW i \in 0..(n - 1) PROVE D[i] # b
  <2> DEFINE j == i + 1
  <2>1. i \in 0..n /\ j \in 1..n /\ j - 1 = i /\ j \in 0..n
    BY <1>0
  <2> HIDE DEF j
  <2>2. U[i] = U[j] + Total(s[j]) /\ U[j] \in 0..(WMQ_BYTES - 1) /\ Total(s[j]) \in Nat /\ Total(s[j]) >= HDR
    BY <1>0, <2>1
  <2>3. U[i] # 0 /\ U[i] \in 0..(WMQ_BYTES - 1)
    BY <1>0, <2>1, <2>2, WmQueueAssumption
  <2> DEFINE u == U[i]
  <2>4. u \in 0..(WMQ_BYTES - 1) /\ u # 0 /\ D[i] = Back(b, u)
    BY <1>1, <2>1, <2>3
  <2> HIDE DEF u
  <2>5. Back(b, u) # b
    BY <1>0, <2>4, BackType
  <2> QED BY <2>4, <2>5
<1>4. CountOf(B, a, b) = n
  <2> DEFINE First(k) == D[k] = b /\ \A i \in 0..(k - 1) : D[i] # b
  <2>1. n \in 0..MaxMsgs /\ First(n)
    BY <1>0, <1>2, <1>3
  <2>2. ASSUME NEW k \in 0..MaxMsgs, First(k) PROVE k = n
    <3>1. ~(k < n)
      BY <1>0, <1>3, <2>2
    <3>2. ~(n < k)
      BY <1>0, <1>2, <2>2
    <3> QED BY <1>0, <3>1, <3>2
  <2>3. CountOf(B, a, b) = CHOOSE k \in 0..MaxMsgs : First(k)
    BY DEF CountOf, D
  <2> HIDE DEF First, n
  <2> QED BY <2>1, <2>2, <2>3
<1>5. ASSUME NEW i \in 1..n PROVE B[D[i - 1]][1] = s[i]
  <2>1. i - 1 \in 0..n
    BY <1>0
  <2>2. StartsAt(s[i], B, D[i - 1])
    BY <1>0, <1>1, <2>1
  <2> QED BY <2>2 DEF StartsAt
<1>6. ItemsOf(B, a, b) = [i \in 1..n |-> B[D[i - 1]][1]]
  BY <1>4 DEF ItemsOf, D
<1>7. s = [i \in 1..n |-> s[i]]
  BY <1>0
<1> QED BY <1>4, <1>5, <1>6, <1>7

\* The bytes of the messages behind the k-th.
LEMMA BytesBehind ==
    ASSUME NEW s, NEW U, NEW B, NEW a, NEW b, Framing(s, U, B, a, b), NEW k \in 0..Len(s)
    PROVE  MQ!Bytes(SubSeq(s, k + 1, Len(s))) = U[k]
<1> DEFINE n == Len(s)
           t == SubSeq(s, k + 1, n)
           m == n - k
           S == {j \in 0..m : SumTo(t)[j] # U[k] - U[k + j]}
<1>0. /\ s \in Seq(Msg) /\ n \in Nat /\ U[n] = 0
      /\ \A i \in 0..n : U[i] \in 0..(WMQ_BYTES - 1)
      /\ \A i \in 1..n : /\ Total(s[i]) \in Nat
                         /\ U[i - 1] = U[i] + Total(s[i])
  BY FramingParts
<1>1. m \in Nat /\ Len(t) = m /\ \A j \in 1..m : t[j] = s[k + j]
  BY <1>0
<1>2. /\ SumTo(t)[0] = 0
      /\ \A j \in 1..m : SumTo(t)[j] = SumTo(t)[j - 1] + Total(t[j])
  BY <1>1, SumDef
<1> HIDE DEF t
<1>3. S = {}
  <2> SUFFICES ASSUME S # {} PROVE FALSE
    OBVIOUS
  <2>1. PICK j \in S : \A y \in S : j <= y
    <3>1. S \in SUBSET Nat
      OBVIOUS
    <3> HIDE DEF S
    <3> QED BY <3>1, LeastElement
  <2>2. j # 0
    <3>1. U[k] \in Int /\ k + 0 = k
      BY <1>0, WmQueueAssumption
    <3> QED BY <1>2, <2>1, <3>1
  <2> DEFINE i == j - 1
             g == k + j
             h == k + i
  <2>3. i \in 0..m /\ j \in 1..m /\ i < j /\ g \in 1..n /\ h \in 0..n /\ g - 1 = h /\ g \in 0..n
    BY <1>0, <1>1, <2>1, <2>2
  <2>4. SumTo(t)[i] = U[k] - U[h]
    BY <2>1, <2>3
  <2>5. SumTo(t)[j] = SumTo(t)[i] + Total(s[g])
    BY <1>1, <1>2, <2>3
  <2> HIDE DEF i, g, h
  <2>6. U[h] = U[g] + Total(s[g]) /\ Total(s[g]) \in Int /\ U[g] \in Int /\ U[k] \in Int
    BY <1>0, <2>3, WmQueueAssumption
  <2>7. SumTo(t)[j] = U[k] - U[g]
    <3> DEFINE x == U[k]
               y == U[g]
               z == Total(s[g])
    <3>1. x \in Int /\ y \in Int /\ z \in Int /\ SumTo(t)[j] = (x - (y + z)) + z
      BY <2>4, <2>5, <2>6
    <3> HIDE DEF x, y, z
    <3>2. SumTo(t)[j] = x - y
      BY <3>1
    <3> QED BY <3>2 DEF x, y
  <2> QED BY <2>1, <2>7 DEF g
<1>4. SumTo(t)[m] = U[k]
  <2>1. m \in 0..m /\ k + m = n /\ U[k] \in Int
    BY <1>0, <1>1, WmQueueAssumption
  <2>2. SumTo(t)[m] = U[k] - U[k + m]
    BY <1>3, <2>1
  <2> QED BY <1>0, <2>1, <2>2
<1>5. MQ!Bytes(t) = SumTo(t)[Len(t)]
  BY DEF MQ!Bytes, SumTo, MQ!Total, Total
<1> QED BY <1>1, <1>4, <1>5 DEF t

-----------------------------------------------------------------------------

\* Taking the oldest message out.
LEMMA FramingTail ==
    ASSUME NEW s, NEW U, NEW B, NEW a, NEW b, Framing(s, U, B, a, b), s # << >>
    PROVE  \E V : Framing(Tail(s), V, B, (a + Total(B[a][1])) % WMQ_BYTES, b)
<1> DEFINE n == Len(s)
           t == Tail(s)
           V == [i \in 0..(n - 1) |-> U[i + 1]]
<1>0. /\ s \in Seq(Msg) /\ n \in Nat /\ U[n] = 0
      /\ b \in 0..(WMQ_BYTES - 1) /\ a = Back(b, U[0])
      /\ DOMAIN B = 0..(WMQ_BYTES - 1)
      /\ \A i \in 0..n : U[i] \in 0..(WMQ_BYTES - 1)
      /\ \A i \in 1..n : /\ Total(s[i]) \in Nat
                         /\ U[i - 1] = U[i] + Total(s[i])
                         /\ StartsAt(s[i], B, Back(b, U[i - 1]))
  BY FramingParts
<1>1. n > 0 /\ t \in Seq(Msg) /\ Len(t) = n - 1 /\ \A i \in 1..(n - 1) : t[i] = s[i + 1]
  BY <1>0
<1>2. (a + Total(B[a][1])) % WMQ_BYTES = Back(b, V[0])
  <2>1. 1 \in 1..n /\ 1 - 1 = 0 /\ 0 \in 0..n /\ 1 \in 0..n /\ 0 \in 0..(n - 1)
    BY <1>0, <1>1
  <2> DEFINE T == Total(s[1])
             u == U[0]
  <2>2. /\ u = U[1] + T /\ T \in Nat /\ u \in 0..(WMQ_BYTES - 1) /\ U[1] \in 0..(WMQ_BYTES - 1)
        /\ B[a][1] = s[1] /\ V[0] = U[1]
    <3>1. StartsAt(s[1], B, a)
      BY <1>0, <2>1
    <3> QED BY <1>0, <2>1, <3>1 DEF StartsAt
  <2> HIDE DEF u, V
  <2>3. T \in 0..u /\ u - T = U[1]
    BY <2>2, WmQueueAssumption
  <2>4. (a + Total(B[a][1])) % WMQ_BYTES = (Back(b, u) + T) % WMQ_BYTES
    BY <1>0, <2>2 DEF u
  <2>5. (Back(b, u) + T) % WMQ_BYTES = Back(b, u - T)
    <3> HIDE DEF T
    <3> QED BY <1>0, <2>2, <2>3, BackAdd
  <2> QED BY <2>2, <2>3, <2>4, <2>5
<1>3. V \in [0..Len(t) -> 0..(WMQ_BYTES - 1)] /\ V[Len(t)] = 0
  <2>1. \A i \in 0..(n - 1) : i + 1 \in 0..n
    BY <1>0, <1>1
  <2>2. n - 1 \in 0..(n - 1) /\ (n - 1) + 1 = n
    BY <1>0, <1>1
  <2> QED BY <1>0, <1>1, <2>1, <2>2
<1>4. ASSUME NEW i \in 1..Len(t)
      PROVE  /\ V[i - 1] = V[i] + Total(t[i])
             /\ \A k \in 0..(Total(t[i]) - 1) : B[Back(b, V[i - 1] - k)] = <<t[i], k>>
  <2> DEFINE j == i + 1
  <2>1. /\ j \in 1..n /\ i \in 1..(n - 1) /\ i \in 0..(n - 1) /\ i - 1 \in 0..(n - 1)
        /\ (i - 1) + 1 = i /\ j - 1 = i
    BY <1>0, <1>1
  <2>2. V[i - 1] = U[i] /\ V[i] = U[j] /\ t[i] = s[j]
    BY <1>1, <2>1
  <2> HIDE DEF j, V, t
  <2>3. U[i] = U[j] + Total(s[j])
    BY <1>0, <2>1
  <2>4. \A k \in 0..(Total(s[j]) - 1) : B[Back(b, U[j - 1] - k)] = <<s[j], k>>
    BY <2>1 DEF Framing
  <2> QED BY <2>1, <2>2, <2>3, <2>4
<1>5. Framing(t, V, B, (a + Total(B[a][1])) % WMQ_BYTES, b)
  <2> HIDE DEF t, V
  <2> QED BY <1>0, <1>1, <1>2, <1>3, <1>4 DEF Framing
<1> QED BY <1>5

\* The bytes of m written from b on.
WrittenTo(m, B, b) == [i \in DOMAIN B |-> LET k == (i - b) % WMQ_BYTES
                                          IN  IF k < Total(m) THEN <<m, k>> ELSE B[i]]

\* Dropping the j oldest messages and appending m, when it fits.
LEMMA FramingAppend ==
    ASSUME NEW s, NEW U, NEW B, NEW a, NEW b, Framing(s, U, B, a, b),
           NEW j \in 0..Len(s), NEW m \in Msg, U[j] + Total(m) <= WMQ_BYTES - 1
    PROVE  \E V : Framing(Append(SubSeq(s, j + 1, Len(s)), m), V, WrittenTo(m, B, b),
                          Back(b, U[j]), (b + Total(m)) % WMQ_BYTES)
<1> DEFINE N == WMQ_BYTES
           n == Len(s)
           T == Total(m)
           c == (b + T) % N
           l == n - j
           z == SubSeq(s, j + 1, n)
           t == Append(z, m)
           V == [i \in 0..(l + 1) |-> IF i = l + 1 THEN 0 ELSE U[j + i] + T]
           X == WrittenTo(m, B, b)
<1>0. /\ s \in Seq(Msg) /\ n \in Nat /\ U[n] = 0
      /\ b \in 0..(N - 1)
      /\ DOMAIN B = 0..(N - 1)
      /\ \A i \in 0..n : U[i] \in 0..(N - 1)
      /\ \A i \in 1..n : /\ Total(s[i]) \in Nat
                         /\ U[i - 1] = U[i] + Total(s[i])
  BY FramingParts
<1>T. T \in Nat /\ T < N /\ T >= HDR /\ N \in Nat /\ HDR \in Nat /\ HDR > 0
  BY TotalType, WmQueueAssumption
<1>1. /\ l \in Nat /\ z \in Seq(Msg) /\ Len(z) = l
      /\ \A i \in 1..l : z[i] = s[j + i]
  BY <1>0
<1>2. /\ t \in Seq(Msg) /\ Len(t) = l + 1 /\ t[l + 1] = m
      /\ \A i \in 1..l : t[i] = s[j + i]
  <2> HIDE DEF z
  <2> QED BY <1>1
<1> HIDE DEF z, t, T
\* The offsets only go down, so every message that stays fits below the budget.
<1>3. \A i \in 0..l : U[j + i] \in Nat /\ U[j + i] + T <= N - 1
  <2> DEFINE S == {i \in 0..l : ~(U[j + i] <= U[j])}
  <2>1. S = {}
    <3> SUFFICES ASSUME S # {} PROVE FALSE
      OBVIOUS
    <3>1. PICK i \in S : \A y \in S : i <= y
      <4>1. S \in SUBSET Nat
        OBVIOUS
      <4> HIDE DEF S
      <4> QED BY <4>1, LeastElement
    <3>2. i # 0
      <4>1. j + 0 = j /\ U[j] \in Int
        BY <1>0, <1>T
      <4> QED BY <3>1, <4>1
    <3> DEFINE h == i - 1
               g == j + i
    <3>3. h \in 0..l /\ h < i /\ g \in 1..n /\ g \in 0..n /\ g - 1 = j + h /\ g - 1 \in 0..n
      BY <1>0, <1>1, <3>1, <3>2
    <3>4. U[g - 1] <= U[j]
      <4>1. h \notin S
        BY <3>1, <3>3
      <4> QED BY <3>3, <4>1
    <3> HIDE DEF h, g
    <3>5. /\ U[g - 1] = U[g] + Total(s[g]) /\ Total(s[g]) \in Nat /\ U[g] \in Nat
          /\ U[g - 1] \in Nat /\ U[j] \in Nat
      BY <1>0, <1>T, <3>3
    <3>6. U[g] <= U[j]
      BY <3>4, <3>5
    <3> QED BY <3>1, <3>6 DEF g
  <2> SUFFICES ASSUME NEW i \in 0..l PROVE U[j + i] \in Nat /\ U[j + i] + T <= N - 1
    OBVIOUS
  <2>2. j + i \in 0..n /\ j \in 0..n
    BY <1>0, <1>1
  <2>3. U[j + i] \in Nat /\ U[j] \in Nat
    BY <1>0, <1>T, <2>2
  <2>4. U[j + i] <= U[j]
    BY <2>1
  <2>5. U[j] + T <= N - 1
    BY DEF T
  <2> QED BY <1>T, <2>3, <2>4, <2>5
<1>4. V \in [0..Len(t) -> 0..(N - 1)] /\ V[Len(t)] = 0
  <2>1. ASSUME NEW i \in 0..(l + 1) PROVE V[i] \in 0..(N - 1)
    <3>1. CASE i = l + 1
      BY <1>T, <3>1
    <3>2. CASE i # l + 1
      <4>1. i \in 0..l
        BY <1>1, <3>2
      <4>2. V[i] = U[j + i] + T /\ U[j + i] \in Nat /\ U[j + i] + T <= N - 1
        BY <1>3, <3>2, <4>1
      <4> HIDE DEF V
      <4> QED BY <1>T, <4>2
    <3> QED BY <3>1, <3>2
  <2>2. l + 1 \in 0..(l + 1)
    BY <1>1
  <2> QED BY <1>2, <2>1, <2>2
<1>5. /\ \A i \in 0..l : V[i] = U[j + i] + T
      /\ V[l + 1] = 0 /\ V[l] = T
  <2>1. \A i \in 0..l : i \in 0..(l + 1) /\ i # l + 1
    BY <1>1
  <2>2. l + 1 \in 0..(l + 1) /\ l \in 0..l /\ j + l = n
    BY <1>0, <1>1
  <2>3. \A i \in 0..l : V[i] = U[j + i] + T
    BY <2>1
  <2>4. V[l] = U[n] + T
    BY <2>2, <2>3
  <2>5. V[l + 1] = 0
    BY <2>2
  <2> HIDE DEF V
  <2>6. V[l] = T
    BY <1>0, <1>T, <2>4
  <2> QED BY <2>3, <2>5, <2>6
<1> HIDE DEF V
<1>6. /\ c \in 0..(N - 1)
      /\ \A u \in 0..(N - 1 - T) : Back(c, u + T) = Back(b, u)
      /\ \A k \in 0..(T - 1) : /\ Back(c, T - k) \in 0..(N - 1)
                               /\ (Back(c, T - k) - b) % N = k
  <2>1. T \in 0..(N - 1)
    BY <1>T
  <2>2. c = (b + T) % WMQ_BYTES
    OBVIOUS
  <2> HIDE DEF c
  <2>3. b \in 0..(WMQ_BYTES - 1) /\ T \in 0..(WMQ_BYTES - 1)
    BY <1>0, <2>1
  <2>4. Shifted(b, T, c)
    BY ONLY <2>2, <2>3, BackShift
  <2> QED BY <2>4 DEF Shifted
<1> HIDE DEF c
<1>7. Back(b, U[j]) = Back(c, V[0])
  <2>1. 0 \in 0..l /\ j + 0 = j
    BY <1>0, <1>1
  <2>2. V[0] = U[j] + T /\ U[j] \in Nat /\ U[j] + T <= N - 1
    BY <1>3, <1>5, <2>1
  <2>3. U[j] \in 0..(N - 1 - T)
    BY <1>T, <2>2
  <2> QED BY <1>6, <2>2, <2>3
<1>8. DOMAIN X = 0..(N - 1)
  BY <1>0 DEF WrittenTo
<1>x. \A i \in 0..(N - 1) : X[i] = IF (i - b) % N < T THEN <<m, (i - b) % N>> ELSE B[i]
  BY <1>0 DEF WrittenTo, T
<1> HIDE DEF X
<1>9. ASSUME NEW i \in 1..l
      PROVE  /\ V[i - 1] = V[i] + Total(t[i])
             /\ \A k \in 0..(Total(t[i]) - 1) : X[Back(c, V[i - 1] - k)] = <<t[i], k>>
  <2> DEFINE g == j + i
             h == i - 1
             y == Total(s[g])
  <2>1. g \in 1..n /\ g \in 0..n /\ h \in 0..l /\ i \in 0..l /\ g - 1 = j + h /\ t[i] = s[g]
    BY <1>0, <1>1, <1>2
  <2>2. /\ V[h] = U[g - 1] + T /\ V[i] = U[g] + T /\ U[g - 1] = U[g] + y /\ y \in Nat
        /\ U[g] \in Nat /\ U[g - 1] \in Nat /\ U[g - 1] + T <= N - 1
    BY <1>0, <1>3, <1>5, <2>1
  <2>3. \A k \in 0..(y - 1) : B[Back(b, U[g - 1] - k)] = <<s[g], k>>
    BY <2>1 DEF Framing
  <2> HIDE DEF g, y
  <2>4. V[h] = V[i] + y
    BY <1>T, <2>2
  <2>5. ASSUME NEW k \in 0..(y - 1) PROVE X[Back(c, V[h] - k)] = <<s[g], k>>
    <3> DEFINE u == U[g - 1] - k
               e == Back(b, u)
    <3>1. u \in 1..(N - 1) /\ u \in 0..(N - 1 - T) /\ V[h] - k = u + T /\ u \in 0..(N - 1) /\ N - u > T
      <4> DEFINE x == U[g - 1]
                 v == U[g]
      <4>1. x = v + y /\ y \in Nat /\ v \in Nat /\ x \in Nat /\ x + T <= N - 1 /\ V[h] = x + T /\ u = x - k
        BY <2>2
      <4>2. k \in Nat /\ k <= y - 1
        BY <2>2
      <4> HIDE DEF x, v, u, N, h
      <4>3. u \in Int /\ u >= 1 /\ u + T <= N - 1
        BY <1>T, <4>1, <4>2
      <4> QED BY <1>T, <4>1, <4>2, <4>3
    <3>2. B[e] = <<s[g], k>>
      BY <2>3
    <3> HIDE DEF u
    <3>3. Back(c, V[h] - k) = e
      BY <1>6, <3>1
    <3>4. (e - b) % N = N - u /\ e \in 0..(N - 1)
      BY <1>0, <3>1, BackDistance, BackType
    <3> HIDE DEF e
    <3>5. ~((e - b) % N < T)
      BY <1>T, <3>1, <3>4
    <3>6. X[e] = B[e]
      BY <1>x, <3>4, <3>5
    <3> QED BY <3>2, <3>3, <3>6
  <2> QED BY <2>1, <2>4, <2>5 DEF y
<1>10. /\ V[l] = V[l + 1] + Total(m)
       /\ \A k \in 0..(Total(m) - 1) : X[Back(c, V[l] - k)] = <<m, k>>
  <2>1. ASSUME NEW k \in 0..(T - 1) PROVE X[Back(c, T - k)] = <<m, k>>
    <3> DEFINE e == Back(c, T - k)
    <3>1. e \in 0..(N - 1) /\ (e - b) % N = k /\ k < T
      BY <1>6, <1>T
    <3> HIDE DEF e
    <3>2. X[e] = <<m, k>>
      BY <1>x, <3>1
    <3> QED BY <3>2 DEF e
  <2> QED BY <1>5, <1>T, <2>1 DEF T
<1>11. ASSUME NEW i \in 1..Len(t)
       PROVE  /\ V[i - 1] = V[i] + Total(t[i])
              /\ \A k \in 0..(Total(t[i]) - 1) : X[Back(c, V[i - 1] - k)] = <<t[i], k>>
  <2>1. CASE i = l + 1
    <3>1. i - 1 = l /\ t[i] = m
      BY <1>1, <1>2, <2>1
    <3> QED BY <1>10, <2>1, <3>1
  <2>2. CASE i # l + 1
    <3>1. i \in 1..l
      BY <1>1, <1>2, <2>2
    <3> QED BY <1>9, <3>1
  <2> QED BY <2>1, <2>2
<1>12. Framing(t, V, X, Back(b, U[j]), c)
  BY <1>2, <1>4, <1>6, <1>7, <1>8, <1>11 DEF Framing
<1> QED BY <1>12 DEF t, z, X, c, T

-----------------------------------------------------------------------------

\* What a framed ring looks like from outside.
LEMMA QueueFacts ==
    ASSUME NEW s, NEW U, Framing(s, U, q, r, w)
    PROVE  /\ Items = s
           /\ s \in Seq(Msg) /\ Len(s) \in Nat /\ Len(s) <= MaxMsgs /\ MaxMsgs \in Nat
           /\ Used(r) = U[0]
           /\ \A j \in 0..Len(s) : /\ Dropped[j] = Back(w, U[j])
                                   /\ U[j] \in 0..(WMQ_BYTES - 1)
                                   /\ q_free(Dropped[j]) = (WMQ_BYTES - 1) - U[j]
           /\ U[Len(s)] = 0
<1>0. /\ s \in Seq(Msg) /\ Len(s) \in Nat /\ w \in 0..(WMQ_BYTES - 1) /\ r = Back(w, U[0])
      /\ U[Len(s)] = 0
      /\ \A i \in 0..Len(s) : U[i] \in 0..(WMQ_BYTES - 1)
  BY FramingParts
<1>1. Len(s) <= MaxMsgs /\ MaxMsgs \in Nat
  BY FewMessages, MaxMsgsType
<1>2. Items = s
  BY ItemsAre, ItemsAreItemsOf
<1>3. \A j \in 0..Len(s) : Dropped[j] = Back(w, U[j])
  BY DropsAre, ItemsAreItemsOf
<1>4. ASSUME NEW u \in 0..(WMQ_BYTES - 1) PROVE Used(Back(w, u)) = u
  <2>1. Behind(w, Back(w, u)) = u
    BY <1>0, BackType
  <2> QED BY <2>1 DEF Behind, Used
<1>5. Used(r) = U[0]
  <2>1. 0 \in 0..Len(s)
    BY <1>0
  <2> QED BY <1>0, <1>4, <2>1
<1>6. \A j \in 0..Len(s) : q_free(Dropped[j]) = (WMQ_BYTES - 1) - U[j]
  BY <1>0, <1>3, <1>4 DEF q_free
<1> QED BY <1>0, <1>1, <1>2, <1>3, <1>5, <1>6

\* The ring after a step, when it is framed again.
LEMMA NewQueue ==
    ASSUME NEW s, NEW V, Framing(s, V, q', r', w')
    PROVE  QueueInv' /\ Items' = s
<1>1. Items' = s
  BY ItemsAre, ItemsAreItemsOf
<1> QED BY <1>1 DEF QueueInv

\* A write is an enqueue on the abstract queue.
LEMMA EnqueueStep ==
    ASSUME QueueInv, NEW m \in Msg, enqueue_msg(m)
    PROVE  QueueInv' /\ MQ!Enqueue(m)
<1>1. PICK s, U : Framing(s, U, q, r, w)
  BY DEF QueueInv
<1> DEFINE n == Len(s)
           T == Total(m)
<1>2. /\ Items = s
      /\ s \in Seq(Msg) /\ n \in Nat /\ n <= MaxMsgs /\ MaxMsgs \in Nat
      /\ \A j \in 0..n : /\ Dropped[j] = Back(w, U[j])
                         /\ U[j] \in 0..(WMQ_BYTES - 1)
                         /\ q_free(Dropped[j]) = (WMQ_BYTES - 1) - U[j]
      /\ U[n] = 0
  BY <1>1, QueueFacts
<1>T. T \in Nat /\ T < WMQ_BYTES /\ WMQ_BYTES \in Nat
  BY TotalType, WmQueueAssumption
<1>3. PICK j \in 0..MaxMsgs :
        /\ q_free(Dropped[j]) >= T
        /\ \A i \in 0..(j - 1) : q_free(Dropped[i]) < T
        /\ r' = Dropped[j]
        /\ q' = Written(m)
        /\ w' = AfterWrite(m)
        /\ UNCHANGED last
  BY DEF enqueue_msg
<1>4. j \in 0..n
  <2> SUFFICES ASSUME n < j PROVE FALSE
    BY <1>2
  <2>1. n \in 0..(j - 1) /\ n \in 0..n
    BY <1>2
  <2>2. q_free(Dropped[n]) < T /\ q_free(Dropped[n]) = (WMQ_BYTES - 1) - 0
    BY <1>2, <1>3, <2>1
  <2> QED BY <1>T, <2>2
<1>5. U[j] + T <= WMQ_BYTES - 1
  <2>1. q_free(Dropped[j]) = (WMQ_BYTES - 1) - U[j] /\ U[j] \in Nat
    BY <1>2, <1>4, <1>T
  <2>2. (WMQ_BYTES - 1) - U[j] >= T
    BY <1>3, <2>1
  <2> QED BY <1>T, <2>1, <2>2
<1> DEFINE t == Append(SubSeq(s, j + 1, n), m)
<1>6. PICK V : Framing(t, V, WrittenTo(m, q, w), Back(w, U[j]), (w + T) % WMQ_BYTES)
  BY <1>1, <1>4, <1>5, FramingAppend
<1>7. q' = WrittenTo(m, q, w) /\ r' = Back(w, U[j]) /\ w' = (w + T) % WMQ_BYTES
  BY <1>2, <1>3, <1>4 DEF Written, WrittenTo, AfterWrite
<1>8. QueueInv' /\ Items' = t
  <2> HIDE DEF t
  <2> QED BY <1>6, <1>7, NewQueue
<1>9. ASSUME NEW k \in 0..n PROVE MQ!Bytes(SubSeq(s, k + 1, n)) = U[k]
  BY <1>1, BytesBehind
<1>10. \A k \in 0..n : MQ!Fits(k, m) <=> U[k] + T <= WMQ_BYTES - 1
  BY <1>2, <1>9 DEF MQ!Fits, Items, MQ!Total, Total
<1>11. ASSUME NEW i \in 0..(j - 1) PROVE ~MQ!Fits(i, m)
  <2>1. i \in 0..n
    BY <1>2, <1>4
  <2>2. U[i] \in Nat /\ (WMQ_BYTES - 1) - U[i] < T
    BY <1>2, <1>3, <1>T, <2>1
  <2>3. ~(U[i] + T <= WMQ_BYTES - 1)
    BY <1>T, <2>2
  <2> QED BY <1>10, <2>1, <2>3
<1>12. MQ!Fits(j, m)
  BY <1>4, <1>5, <1>10
<1>13. \E k \in 0..Len(Items) : /\ MQ!Fits(k, m)
                                /\ \A i \in 0..(k - 1) : ~MQ!Fits(i, m)
                                /\ Items' = Append(SubSeq(Items, k + 1, Len(Items)), m)
                                /\ UNCHANGED last
  BY <1>2, <1>3, <1>4, <1>8, <1>11, <1>12
<1> QED BY <1>8, <1>13 DEF MQ!Enqueue, Items

\* A read is a dequeue on the abstract queue.
LEMMA DequeueStep ==
    ASSUME QueueInv, NEW size \in Size, dequeue_msg(size)
    PROVE  QueueInv' /\ MQ!Dequeue(size)
<1>1. PICK s, U : Framing(s, U, q, r, w)
  BY DEF QueueInv
<1>2. Items = s /\ s \in Seq(Msg) /\ Len(s) \in Nat /\ Used(r) = U[0] /\ U[Len(s)] = 0
  BY <1>1, QueueFacts
<1>3. s # << >> => At(r) = Head(s) /\ Used(r) # 0
  <2> SUFFICES ASSUME s # << >> PROVE At(r) = Head(s) /\ Used(r) # 0
    OBVIOUS
  <2>1. 1 \in 1..Len(s) /\ Head(s) = s[1] /\ 1 - 1 = 0 /\ 1 \in 0..Len(s)
    BY <1>2
  <2>2. /\ StartsAt(s[1], q, r) /\ U[0] = U[1] + Total(s[1])
        /\ Total(s[1]) \in Nat /\ Total(s[1]) >= HDR /\ U[1] \in 0..(WMQ_BYTES - 1)
    BY <1>1, <2>1, FramingParts
  <2>3. U[0] # 0
    BY <2>2, WmQueueAssumption
  <2> QED BY <1>2, <2>1, <2>2, <2>3 DEF StartsAt, At
<1>4. s = << >> => Used(r) = 0
  BY <1>2
<1>t. s # << >> => Total(At(r)) \in Nat
  <2> SUFFICES ASSUME s # << >> PROVE Total(Head(s)) \in Nat
    BY <1>3
  <2>1. Head(s) \in Msg
    BY <1>2
  <2> QED BY <2>1, TotalType
<1>5. CASE Used(r) # 0 /\ Total(At(r)) <= size
  <2>0. s # << >> /\ ~(Total(At(r)) > size)
    BY <1>4, <1>5, <1>t, WmQueueAssumption
  <2>1. s # << >> /\ last' = At(r) /\ r' = (r + Total(At(r))) % WMQ_BYTES /\ UNCHANGED <<q, w>>
    BY <1>5, <2>0 DEF dequeue_msg
  <2>2. PICK V : Framing(Tail(s), V, q, (r + Total(q[r][1])) % WMQ_BYTES, w)
    BY <1>1, <2>1, FramingTail
  <2>3. QueueInv' /\ Items' = Tail(s)
    BY <2>1, <2>2, NewQueue DEF At
  <2>4. Items # << >> /\ Total(Head(Items)) <= size /\ last' = Head(Items) /\ Items' = Tail(Items)
    BY <1>2, <1>3, <1>5, <2>1, <2>3
  <2> QED BY <2>3, <2>4 DEF MQ!Dequeue, Items, MQ!Total, Total
<1>6. CASE ~(Used(r) # 0 /\ Total(At(r)) <= size)
  <2>1. (Used(r) # 0 => Total(At(r)) > size) /\ last' = None /\ UNCHANGED <<q, r, w>>
    BY <1>6 DEF dequeue_msg
  <2>2. QueueInv' /\ Items' = s
    BY <1>1, <2>1, NewQueue
  <2>3. (Items # << >> => Total(Head(Items)) > size) /\ last' = None /\ Items' = Items
    BY <1>2, <1>3, <2>1, <2>2
  <2> QED BY <2>2, <2>3 DEF MQ!Dequeue, Items, MQ!Total, Total
<1> QED BY <1>5, <1>6

\* Every step keeps the framing and is a step of the message queue.
LEMMA QueueStep ==
    ASSUME QueueInv, [QNext]_qvars
    PROVE  QueueInv' /\ [MQ!Next]_(MQ!mqVars)
<1>1. CASE \E m \in Msg : enqueue_msg(m)
  BY <1>1, EnqueueStep DEF MQ!Next
<1>2. CASE \E size \in Size : dequeue_msg(size)
  BY <1>2, DequeueStep DEF MQ!Next
<1>3. CASE UNCHANGED qvars
  <2>1. PICK s, U : Framing(s, U, q, r, w)
    BY DEF QueueInv
  <2>2. QueueInv' /\ Items' = s
    BY <1>3, <2>1, NewQueue DEF qvars
  <2>3. Items = s
    BY <2>1, QueueFacts
  <2> QED BY <1>3, <2>2, <2>3 DEF qvars, MQ!mqVars, Items
<1> QED BY <1>1, <1>2, <1>3 DEF QNext

\* The empty ring holds no message.
LEMMA QueueStart ==
    ASSUME QInit
    PROVE  QueueInv /\ MQ!Init
<1> DEFINE U == [i \in 0..0 |-> 0]
<1>1. Framing(<< >>, U, q, r, w)
  <2>1. << >> \in Seq(Msg) /\ Len(<< >>) = 0
    OBVIOUS
  <2>2. U \in [0..0 -> 0..(WMQ_BYTES - 1)] /\ U[0] = 0 /\ 0 \in 0..(WMQ_BYTES - 1)
    BY WmQueueAssumption
  <2>3. r = 0 /\ w = 0 /\ DOMAIN q = 0..(WMQ_BYTES - 1) /\ Back(0, 0) = 0
    BY DEF QInit, Back
  <2> HIDE DEF U
  <2> QED BY <2>1, <2>2, <2>3 DEF Framing
<1> HIDE DEF U
<1>2. Items = << >>
  BY <1>1, QueueFacts
<1> QED BY <1>1, <1>2 DEF QueueInv, MQ!Init, QInit, Items

\* The inductive invariant holds throughout.
LEMMA QueueInvariant == QSpec => []QueueInv
<1>1. QInit => QueueInv
  BY QueueStart
<1>2. QueueInv /\ [QNext]_qvars => QueueInv'
  BY QueueStep
<1> QED BY <1>1, <1>2, PTL DEF QSpec

\* Framing: for every ring size, header size and set of messages, the bytes
\* between r and w are whole messages back to back, wherever the ring wrapped
\* and whatever enqueue_msg dropped; its "corrupt; reset queue" is never needed.
THEOREM MessagesStayFramed == QSpec => []Framed
<1>1. QueueInv => Framed
  <2> SUFFICES ASSUME QueueInv PROVE Framed
    OBVIOUS
  <2>1. PICK s, U : Framing(s, U, q, r, w)
    BY DEF QueueInv
  <2> DEFINE n == Len(s)
  <2>2. /\ s \in Seq(Msg) /\ n \in Nat /\ n <= MaxMsgs /\ MaxMsgs \in Nat
        /\ \A j \in 0..n : /\ Dropped[j] = Back(w, U[j])
                           /\ U[j] \in 0..(WMQ_BYTES - 1)
        /\ U[n] = 0
    BY <2>1, QueueFacts
  <2>3. Count = n
    BY <2>1, ItemsAre, ItemsAreItemsOf
  <2>4. w \in 0..(WMQ_BYTES - 1) /\ 0 \in 0..(WMQ_BYTES - 1)
    BY <2>1, FramingParts, WmQueueAssumption
  <2>5. n \in 0..MaxMsgs /\ Dropped[n] = w
    <3>1. n \in 0..n /\ n \in 0..MaxMsgs
      BY <2>2
    <3>2. Back(w, 0) = w
      BY <2>4, BackType
    <3> QED BY <2>2, <3>1, <3>2
  <2>6. ASSUME NEW i \in 0..(n - 1)
        PROVE  \A k \in 0..(Total(At(Dropped[i])) - 1) :
                  q[(Dropped[i] + k) % WMQ_BYTES] = <<At(Dropped[i]), k>>
    <3> DEFINE g == i + 1
               u == U[i]
               m == s[g]
    <3>1. i \in 0..n /\ g \in 1..n /\ g - 1 = i /\ g \in 0..n
      BY <2>2
    <3> HIDE DEF g
    <3>2. /\ StartsAt(s[g], q, Back(w, u)) /\ u = U[g] + Total(m) /\ Total(m) \in Nat
          /\ U[g] \in 0..(WMQ_BYTES - 1) /\ u \in 0..(WMQ_BYTES - 1)
      BY <2>1, <3>1, FramingParts
    <3>3. Dropped[i] = Back(w, u) /\ At(Dropped[i]) = m
      <4>1. Dropped[i] = Back(w, u)
        BY <2>2, <3>1
      <4> HIDE DEF u
      <4> QED BY <3>2, <4>1 DEF StartsAt, At
    <3>4. \A k \in 0..(Total(m) - 1) : q[Back(w, u - k)] = <<m, k>>
      BY <2>1, <3>1 DEF Framing
    <3> HIDE DEF u, m
    <3>5. ASSUME NEW k \in 0..(Total(m) - 1)
          PROVE  q[(Back(w, u) + k) % WMQ_BYTES] = <<m, k>>
      <4>1. k \in 0..u
        BY <3>2, WmQueueAssumption
      <4>2. (Back(w, u) + k) % WMQ_BYTES = Back(w, u - k)
        BY <2>4, <3>2, <4>1, BackAdd
      <4> QED BY <3>4, <4>2
    <3> QED BY <3>3, <3>5
  <2> QED BY <2>3, <2>5, <2>6 DEF Framed
<1> QED BY <1>1, QueueInvariant, PTL

\* The byte ring of an endpoint is the message queue: whole messages in order,
\* the oldest dropped for a new one and no more of them than needed, a read
\* returns the oldest or leaves it.
THEOREM RingIsMsgQueue == QSpec => ImplementsMsgQueue
<1>1. QInit => MQ!Init
  BY QueueStart
<1>2. QueueInv /\ [QNext]_qvars => [MQ!Next]_(MQ!mqVars)
  BY QueueStep
<1> QED BY <1>1, <1>2, QueueInvariant, PTL DEF QSpec, ImplementsMsgQueue, MQ!Spec

-----------------------------------------------------------------------------
(* Endpoints, the server and routing.                                      *)

\* What a queue holds.
Message == [src : Pid, type : Type]

\* A free slot has no messages waiting in it.
FreeIsEmpty == \A i \in Slots : g_eps[i] = Nobody => queues[i] = << >>

\* Nobody has an endpoint before the first write.
NoServerNoEps == g_server_pid = Nobody => \A i \in Slots : g_eps[i] = Nobody

DevWmInv == /\ TypeOK /\ OneEndpoint /\ ClientsIsolated /\ ServerReachable
            /\ FreeIsEmpty /\ NoServerNoEps

\* find_ep finds an endpoint of pid, if there is one.
LEMMA FindEp ==
    ASSUME NEW eps, NEW pid, HasEp(eps, pid)
    PROVE  find_ep(eps, pid) \in Slots /\ eps[find_ep(eps, pid)] = pid
<1> DEFINE T == {i \in Slots : eps[i] = pid}
<1>1. T \in SUBSET Nat /\ T # {}
  BY DevWmAssumption DEF HasEp, Slots
<1> HIDE DEF T
<1>2. PICK i \in T : \A j \in T : i <= j
  BY <1>1, LeastElement
<1>3. i \in Slots /\ eps[i] = pid /\ \A j \in 1..(i - 1) : eps[j] # pid
  BY <1>2, DevWmAssumption DEF T, Slots
<1> QED BY <1>3 DEF find_ep

\* What ensure_ep does to the table: nothing, or it gives one free slot to a
\* process that has none.
LEMMA EnsureEp ==
    ASSUME NEW eps \in [Slots -> Pid \cup {Nobody}], NEW pid \in Pid
    PROVE  LET new == ensure_ep(eps, pid)
           IN  /\ new \in [Slots -> Pid \cup {Nobody}]
               /\ \A i \in Slots : new[i] = eps[i] \/ (eps[i] = Nobody /\ new[i] = pid)
               /\ \A i, j \in Slots : new[i] # eps[i] /\ new[j] = pid => i = j
               /\ HasEp(eps, Nobody) => HasEp(new, pid)
<1>1. CASE HasEp(eps, pid) \/ ~HasEp(eps, Nobody)
  BY <1>1 DEF ensure_ep, HasEp
<1>2. CASE ~HasEp(eps, pid) /\ HasEp(eps, Nobody)
  <2> DEFINE s == find_ep(eps, Nobody)
  <2>1. s \in Slots /\ eps[s] = Nobody
    BY <1>2, FindEp
  <2>2. ensure_ep(eps, pid) = [eps EXCEPT ![s] = pid]
    BY <1>2 DEF ensure_ep
  <2>3. \A i \in Slots : eps[i] # pid
    BY <1>2 DEF HasEp
  <2> HIDE DEF s
  <2> QED BY <2>1, <2>2, <2>3 DEF HasEp
<1> QED BY <1>1, <1>2

\* The queue after a message is one of the old messages and the new one.
LEMMA EnqueuedLemma ==
    ASSUME NEW S, NEW s \in Seq(S), NEW m \in S, Len(s) <= Cap
    PROVE  /\ Enqueued(s, m) \in Seq(S)
           /\ Len(Enqueued(s, m)) <= Cap
           /\ \A k \in DOMAIN Enqueued(s, m) :
                 Enqueued(s, m)[k] = m \/ \E l \in DOMAIN s : Enqueued(s, m)[k] = s[l]
<1>1. CASE Len(s) < Cap
  BY <1>1, DevWmAssumption DEF Enqueued
<1>2. CASE Len(s) = Cap
  <2>1. s # << >>
    BY <1>2, DevWmAssumption
  <2>2. Tail(s) \in Seq(S) /\ Len(Tail(s)) = Len(s) - 1
        /\ \A k \in 1..(Len(s) - 1) : Tail(s)[k] = s[k + 1]
    BY <2>1
  <2>3. Enqueued(s, m) = Append(Tail(s), m)
    BY <1>2, DevWmAssumption DEF Enqueued
  <2> DEFINE e == Append(Tail(s), m)
  <2>4. e \in Seq(S) /\ Len(e) = Len(s) /\ e[Len(s)] = m
        /\ \A k \in 1..(Len(s) - 1) : e[k] = s[k + 1]
    BY <2>1, <2>2
  <2> HIDE DEF e
  <2>5. \A k \in 1..Len(s) : e[k] = m \/ \E l \in 1..Len(s) : e[k] = s[l]
    BY <2>4
  <2> QED BY <1>2, <2>3, <2>4, <2>5 DEF e
<1> QED BY <1>1, <1>2, DevWmAssumption

\* Giving processes endpoints keeps the table sound: nobody gets a second one
\* and nobody loses one.
EpsSound(eps) == /\ eps \in [Slots -> Pid \cup {Nobody}]
                 /\ \A i, j \in Slots : eps[i] # Nobody /\ eps[i] = eps[j] => i = j

Grown(eps, new) == \A i \in Slots : new[i] = eps[i] \/ eps[i] = Nobody

\* ensure_ep fills at most one free slot and keeps endpoints unique.
LEMMA EnsureSound ==
    ASSUME NEW eps, EpsSound(eps), NEW pid \in Pid
    PROVE  EpsSound(ensure_ep(eps, pid)) /\ Grown(eps, ensure_ep(eps, pid))
<1> DEFINE new == ensure_ep(eps, pid)
<1>0. eps \in [Slots -> Pid \cup {Nobody}]
  BY DEF EpsSound
<1>1. /\ new \in [Slots -> Pid \cup {Nobody}]
      /\ \A i \in Slots : new[i] = eps[i] \/ (eps[i] = Nobody /\ new[i] = pid)
      /\ \A i, j \in Slots : new[i] # eps[i] /\ new[j] = pid => i = j
  BY <1>0, EnsureEp
<1> HIDE DEF new
<1>2. EpsSound(new) /\ Grown(eps, new)
  BY <1>1 DEF EpsSound, Grown
<1> QED BY <1>2 DEF new

\* dev_wm_write keeps the invariant.
LEMMA WriteStep ==
    ASSUME DevWmInv, NEW src \in Pid, NEW to \in Pid \cup {Nobody}, NEW type \in Type,
           dev_wm_write(src, to, type)
    PROVE  DevWmInv'
<1> DEFINE server == IF g_server_pid = Nobody THEN src ELSE g_server_pid
           dst == IF to = Nobody THEN server ELSE to
           eps1 == ensure_ep(g_eps, src)
           eps2 == IF MaySend(src, dst, server) THEN ensure_ep(eps1, dst) ELSE eps1
           msg == [src |-> src, type |-> type]
           slot == find_ep(eps2, dst)
           sent == MaySend(src, dst, server) /\ HasEp(eps2, dst)
<1>0. /\ g_eps \in [Slots -> Pid \cup {Nobody}]
      /\ queues \in [Slots -> Seq(Message)]
      /\ \A i \in Slots : Len(queues[i]) <= Cap
      /\ g_server_pid \in Pid \cup {Nobody}
      /\ Nobody \notin Pid
  BY DevWmAssumption DEF DevWmInv, TypeOK, Message
<1>1. /\ g_server_pid' = server
      /\ g_eps' = eps2
      /\ queues' = IF sent THEN [queues EXCEPT ![slot] = Enqueued(@, msg)] ELSE queues
  BY DEF dev_wm_write
<1>2. server \in Pid /\ dst \in Pid /\ msg \in Message
  BY <1>0 DEF Message
<1> HIDE DEF server, dst
<1>3. EpsSound(eps1) /\ Grown(g_eps, eps1)
  <2>1. EpsSound(g_eps)
    BY <1>0 DEF DevWmInv, OneEndpoint, EpsSound
  <2> QED BY <2>1, EnsureSound
<1>4. EpsSound(eps2) /\ Grown(eps1, eps2)
  BY <1>2, <1>3, EnsureSound DEF Grown
<1>5. \A i \in Slots : eps2[i] = g_eps[i] \/ g_eps[i] = Nobody
  BY <1>3, <1>4 DEF Grown
<1>6. HasEp(eps2, server)
  <2>1. CASE g_server_pid = Nobody
    <3>1. HasEp(g_eps, Nobody) /\ server = src
      BY <2>1, DevWmAssumption DEF DevWmInv, NoServerNoEps, HasEp, Slots, server
    <3>2. HasEp(eps1, src)
      BY <1>0, <3>1, EnsureEp
    <3> QED BY <1>0, <3>1, <3>2, <1>4 DEF HasEp, Grown
  <2>2. CASE g_server_pid # Nobody
    <3>1. server = g_server_pid /\ HasEp(g_eps, server)
      BY <2>2 DEF server, DevWmInv, ServerReachable
    <3> QED BY <1>0, <1>2, <1>5, <3>1 DEF HasEp
  <2> QED BY <2>1, <2>2
<1> HIDE DEF eps1, eps2, msg
<1>7. sent => slot \in Slots /\ eps2[slot] = dst
  BY FindEp
<1>8. ASSUME NEW i \in Slots
      PROVE  /\ queues'[i] \in Seq(Message)
             /\ Len(queues'[i]) <= Cap
             /\ \A k \in DOMAIN queues'[i] :
                   \/ \E l \in DOMAIN queues[i] : queues'[i][k] = queues[i][l]
                   \/ queues'[i][k] = msg /\ i = slot /\ sent
  <2>1. CASE sent /\ i = slot
    <3>1. queues'[i] = Enqueued(queues[i], msg)
      BY <1>0, <1>1, <1>7, <2>1
    <3>2. queues[i] \in Seq(Message) /\ Len(queues[i]) <= Cap
      BY <1>0
    <3>3. /\ Enqueued(queues[i], msg) \in Seq(Message)
          /\ Len(Enqueued(queues[i], msg)) <= Cap
          /\ \A k \in DOMAIN Enqueued(queues[i], msg) :
                \/ Enqueued(queues[i], msg)[k] = msg
                \/ \E l \in DOMAIN queues[i] : Enqueued(queues[i], msg)[k] = queues[i][l]
      BY <1>2, <3>2, EnqueuedLemma
    <3> QED BY <2>1, <3>1, <3>3
  <2>2. CASE ~(sent /\ i = slot)
    <3>1. queues'[i] = queues[i]
      BY <1>0, <1>1, <1>7, <2>2
    <3> QED BY <1>0, <3>1
  <2> QED BY <2>1, <2>2
<1>9. TypeOK'
  <2>1. queues' \in [Slots -> Seq(Message)]
    BY <1>0, <1>1, <1>2, <1>7, EnqueuedLemma
  <2> QED BY <1>1, <1>2, <1>4, <1>8, <2>1 DEF TypeOK, EpsSound, Message
<1>10. OneEndpoint'
  BY <1>1, <1>4 DEF OneEndpoint, EpsSound
<1>11. ServerReachable'
  BY <1>1, <1>6 DEF ServerReachable
<1>12. NoServerNoEps'
  BY <1>0, <1>1, <1>2 DEF NoServerNoEps
<1>13. FreeIsEmpty'
  <2> SUFFICES ASSUME NEW i \in Slots, g_eps'[i] = Nobody PROVE queues'[i] = << >>
    BY DEF FreeIsEmpty
  <2>1. g_eps[i] = Nobody
    BY <1>1, <1>5
  <2>2. ~(sent /\ i = slot)
    BY <1>0, <1>1, <1>2, <1>7
  <2> QED BY <1>0, <1>1, <1>7, <2>1, <2>2 DEF DevWmInv, FreeIsEmpty
<1>14. ClientsIsolated'
  <2> SUFFICES ASSUME NEW i \in Slots, eps2[i] # server, NEW k \in DOMAIN queues'[i]
               PROVE  queues'[i][k].src = server
    BY <1>1 DEF ClientsIsolated
  <2>1. CASE queues'[i][k] = msg /\ i = slot /\ sent
    <3>1. src = server
      BY <1>7, <2>1 DEF MaySend
    <3> QED BY <2>1, <3>1 DEF msg
  <2>2. CASE \E l \in DOMAIN queues[i] : queues'[i][k] = queues[i][l]
    <3>1. g_eps[i] # Nobody
      BY <2>2 DEF DevWmInv, FreeIsEmpty
    <3>2. g_server_pid # Nobody /\ server = g_server_pid
      BY <3>1 DEF DevWmInv, NoServerNoEps, server
    <3>3. g_eps[i] # g_server_pid
      BY <1>5, <3>1, <3>2
    <3> QED BY <2>2, <3>2, <3>3 DEF DevWmInv, ClientsIsolated
  <2> QED BY <1>8, <2>1, <2>2
<1> QED BY <1>9, <1>10, <1>11, <1>12, <1>13, <1>14 DEF DevWmInv

\* What is left of a queue when its first message is taken.
LEMMA TailLemma ==
    ASSUME NEW S, NEW s \in Seq(S), s # << >>
    PROVE  /\ Tail(s) \in Seq(S)
           /\ Len(Tail(s)) = Len(s) - 1
           /\ \A k \in DOMAIN Tail(s) : k + 1 \in DOMAIN s /\ Tail(s)[k] = s[k + 1]
  OBVIOUS

\* dev_wm_read keeps the invariant: it only shortens a queue.
LEMMA ReadStep ==
    ASSUME DevWmInv, NEW pid \in Pid, dev_wm_read(pid)
    PROVE  DevWmInv'
<1> DEFINE slot == find_ep(g_eps, pid)
<1>0. /\ queues \in [Slots -> Seq(Message)]
      /\ \A i \in Slots : Len(queues[i]) <= Cap
  BY DEF DevWmInv, TypeOK, Message
<1>1. /\ slot \in Slots /\ g_eps[slot] = pid /\ queues[slot] # << >>
      /\ queues' = [queues EXCEPT ![slot] = Tail(@)]
      /\ g_eps' = g_eps /\ g_server_pid' = g_server_pid
  BY FindEp DEF dev_wm_read
<1> HIDE DEF slot
<1>2. /\ Tail(queues[slot]) \in Seq(Message)
      /\ Len(Tail(queues[slot])) = Len(queues[slot]) - 1
      /\ \A k \in DOMAIN Tail(queues[slot]) : /\ k + 1 \in DOMAIN queues[slot]
                                              /\ Tail(queues[slot])[k] = queues[slot][k + 1]
  <2>1. queues[slot] \in Seq(Message)
    BY <1>0, <1>1
  <2> QED BY <1>1, <2>1, TailLemma
<1>3. TypeOK'
  <2>1. queues' \in [Slots -> Seq(Message)]
    BY <1>0, <1>1, <1>2
  <2>2. \A i \in Slots : Len(queues'[i]) <= Cap
    <3> SUFFICES ASSUME NEW i \in Slots PROVE Len(queues'[i]) <= Cap
      OBVIOUS
    <3>1. Len(queues[i]) \in Nat /\ Len(queues[i]) <= Cap
      BY <1>0
    <3>2. queues'[i] = IF i = slot THEN Tail(queues[slot]) ELSE queues[i]
      BY <1>0, <1>1
    <3> QED BY <1>2, <3>1, <3>2, DevWmAssumption
  <2> QED BY <1>1, <2>1, <2>2 DEF DevWmInv, TypeOK, Message
<1>4. ClientsIsolated'
  <2> SUFFICES ASSUME NEW i \in Slots, g_eps[i] # g_server_pid, NEW k \in DOMAIN queues'[i]
               PROVE  queues'[i][k].src = g_server_pid
    BY <1>1 DEF ClientsIsolated
  <2>1. \E l \in DOMAIN queues[i] : queues'[i][k] = queues[i][l]
    BY <1>0, <1>1, <1>2
  <2> QED BY <2>1 DEF DevWmInv, ClientsIsolated
<1>5. FreeIsEmpty'
  BY <1>0, <1>1, DevWmAssumption DEF DevWmInv, FreeIsEmpty
<1>6. OneEndpoint' /\ ServerReachable' /\ NoServerNoEps'
  BY <1>1 DEF DevWmInv, OneEndpoint, ServerReachable, NoServerNoEps, HasEp
<1> QED BY <1>3, <1>4, <1>5, <1>6 DEF DevWmInv

\* The device starts with free slots only.
LEMMA InitDevWm ==
    ASSUME Init
    PROVE  DevWmInv
<1>1. /\ \A i \in Slots : g_eps[i] = Nobody /\ queues[i] = << >>
      /\ g_server_pid = Nobody
  BY DEF Init
<1>2. TypeOK
  BY DevWmAssumption DEF Init, TypeOK
<1> QED BY <1>1, <1>2 DEF DevWmInv, OneEndpoint, ClientsIsolated, ServerReachable,
                          FreeIsEmpty, NoServerNoEps

\* The inductive invariant holds throughout.
LEMMA DevWmInvariant == Spec => []DevWmInv
<1>1. Init => DevWmInv
  BY InitDevWm
<1>2. DevWmInv /\ [Next]_vars => DevWmInv'
  <2> SUFFICES ASSUME DevWmInv, [Next]_vars PROVE DevWmInv'
    OBVIOUS
  <2>1. ASSUME NEW src \in Pid, NEW to \in Pid \cup {Nobody}, NEW type \in Type,
               dev_wm_write(src, to, type)
        PROVE  DevWmInv'
    BY <2>1, WriteStep
  <2>2. ASSUME NEW pid \in Pid, dev_wm_read(pid) PROVE DevWmInv'
    BY <2>2, ReadStep
  <2>3. CASE UNCHANGED vars
    BY <2>3 DEF vars, DevWmInv, TypeOK, OneEndpoint, ClientsIsolated, ServerReachable,
                FreeIsEmpty, NoServerNoEps, HasEp
  <2> QED BY <2>1, <2>2, <2>3 DEF Next
<1> QED BY <1>1, <1>2, PTL DEF Spec

\* However many processes register, as sender or as destination and in whatever
\* order, none ever has two endpoints (ensure_ep).
THEOREM EndpointsUnique == Spec => []OneEndpoint
<1>1. DevWmInv => OneEndpoint
  BY DEF DevWmInv
<1> QED BY <1>1, DevWmInvariant, PTL

\* What waits at a client's endpoint was sent by the server, for any number of
\* clients and any order of first writes (dev_wm_write's routing rule).
THEOREM OnlyServerReachesClients == Spec => []ClientsIsolated
<1>1. DevWmInv => ClientsIsolated
  BY DEF DevWmInv
<1> QED BY <1>1, DevWmInvariant, PTL

\* The server has an endpoint from its election on, for every size of the
\* endpoint table (dev_wm_write elects and registers in one call).
THEOREM ServerKeepsEndpoint == Spec => []ServerReachable
<1>1. DevWmInv => ServerReachable
  BY DEF DevWmInv
<1> QED BY <1>1, DevWmInvariant, PTL

-----------------------------------------------------------------------------
(* The start of the desktop.                                               *)

\* The messages that wait for p.
Waiting(p) == IF HasEp(g_eps, p) THEN queues[find_ep(g_eps, p)] ELSE << >>

NoneOf(s, ty) == \A k \in DOMAIN s : s[k].type # ty
AtMostOne(s, ty) == \A k, l \in DOMAIN s : s[k].type = ty /\ s[l].type = ty => k = l

\* Where a program may be.
Label == {"exec_wm", "exec_bg", "waitpid", "unborn", "hello", "loop", "reply",
          "create", "poll", "close", "exit", "up", "gone"}

PcOK == /\ pc \in [Pid -> Label]
        /\ pc[StartWm] \in {"exec_wm", "exec_bg", "waitpid"}
        /\ pc[Wm] \in {"unborn", "hello", "loop", "reply"}
        /\ pc[Bg] \in {"unborn", "create", "poll", "close", "exit", "up", "gone"}
        /\ pc[StartWm] = "exec_wm" => pc[Wm] = "unborn"
        /\ pc[StartWm] # "waitpid" => pc[Bg] = "unborn"
        /\ opened \in 0..2 /\ windows \in Int

\* The background still asks for windows or has them.
Asking == pc[Bg] \in {"unborn", "create", "poll", "up"}

\* A request is in one place: waiting for the window manager, with it, answered
\* or lost on the way back.
OneRequest ==
    /\ AtMostOne(Waiting(Wm), "create") /\ AtMostOne(Waiting(Bg), "create_reply")
    /\ NoneOf(Waiting(Wm), "close")
    /\ windows - opened \in 0..1
    /\ NoneOf(Waiting(Wm), "create") \/ (/\ pc[Wm] # "reply" /\ windows = opened
                                         /\ NoneOf(Waiting(Bg), "create_reply"))
    /\ pc[Wm] = "reply" => windows = opened + 1 /\ NoneOf(Waiting(Bg), "create_reply")
    /\ NoneOf(Waiting(Bg), "create_reply") \/ windows = opened + 1

\* Between two requests nothing is under way.
Settled == /\ NoneOf(Waiting(Wm), "create") /\ NoneOf(Waiting(Bg), "create_reply")
           /\ pc[Wm] # "reply" /\ windows = opened

StartupInv == /\ DevWmInv /\ PcOK
              /\ Asking => OneRequest
              /\ pc[Bg] \in {"unborn", "create", "up"} => Settled
              /\ pc[Bg] = "unborn" => opened = 0
              /\ pc[Bg] \in {"create", "poll"} => opened \in 0..1
              /\ pc[Bg] = "up" => opened = 2

\* In a sound table the endpoint of p is the slot that has its pid.
LEMMA EndpointIs ==
    ASSUME NEW eps, EpsSound(eps), NEW p \in Pid, NEW i \in Slots, eps[i] = p
    PROVE  HasEp(eps, p) /\ find_ep(eps, p) = i
<1>1. HasEp(eps, p)
  BY DEF HasEp
<1>2. find_ep(eps, p) \in Slots /\ eps[find_ep(eps, p)] = p
  BY <1>1, FindEp
<1>3. p # Nobody
  BY DevWmAssumption
<1> QED BY <1>1, <1>2, <1>3 DEF EpsSound

\* A write changes the messages of at most one process, its destination.
LEMMA WaitingAfterWrite ==
    ASSUME DevWmInv, NEW src \in Pid, NEW to \in Pid \cup {Nobody}, NEW type \in Type,
           dev_wm_write(src, to, type), NEW p \in Pid
    PROVE  LET server == IF g_server_pid = Nobody THEN src ELSE g_server_pid
               dst == IF to = Nobody THEN server ELSE to
           IN  \/ Waiting(p)' = Waiting(p)
               \/ p = dst /\ Waiting(p)' = Enqueued(Waiting(p), [src |-> src, type |-> type])
<1> DEFINE server == IF g_server_pid = Nobody THEN src ELSE g_server_pid
           dst == IF to = Nobody THEN server ELSE to
           eps1 == ensure_ep(g_eps, src)
           eps2 == IF MaySend(src, dst, server) THEN ensure_ep(eps1, dst) ELSE eps1
           msg == [src |-> src, type |-> type]
           slot == find_ep(eps2, dst)
           sent == MaySend(src, dst, server) /\ HasEp(eps2, dst)
<1>0. /\ queues \in [Slots -> Seq(Message)]
      /\ g_server_pid \in Pid \cup {Nobody}
      /\ EpsSound(g_eps)
  BY DEF DevWmInv, TypeOK, Message, OneEndpoint, EpsSound
<1>1. /\ g_eps' = eps2
      /\ queues' = IF sent THEN [queues EXCEPT ![slot] = Enqueued(@, msg)] ELSE queues
  BY DEF dev_wm_write
<1>2. dst \in Pid
  BY <1>0
<1> HIDE DEF server, dst
<1>3. EpsSound(eps1) /\ Grown(g_eps, eps1)
  BY <1>0, EnsureSound
<1>4. EpsSound(eps2) /\ Grown(eps1, eps2)
  BY <1>2, <1>3, EnsureSound DEF Grown
<1>5. \A i \in Slots : eps2[i] = g_eps[i] \/ g_eps[i] = Nobody
  BY <1>3, <1>4 DEF Grown
<1> HIDE DEF eps1, eps2, msg
<1>6. sent => slot \in Slots /\ eps2[slot] = dst
  BY FindEp
<1>7. ASSUME NEW i \in Slots, eps2[i] = p
      PROVE  queues'[i] = queues[i] \/ (p = dst /\ queues'[i] = Enqueued(queues[i], msg))
  BY <1>0, <1>1, <1>6, <1>7
<1>8. CASE HasEp(g_eps, p)
  <2>1. PICK i \in Slots : g_eps[i] = p
    BY <1>8 DEF HasEp
  <2>2. eps2[i] = p
    BY <1>5, <2>1, DevWmAssumption
  <2>3. Waiting(p) = queues[i] /\ Waiting(p)' = queues'[i]
    BY <1>0, <1>1, <1>4, <2>1, <2>2, EndpointIs DEF Waiting
  <2> QED BY <1>7, <2>2, <2>3 DEF dst, server, msg
<1>9. CASE ~HasEp(g_eps, p) /\ HasEp(eps2, p)
  <2>1. PICK i \in Slots : eps2[i] = p
    BY <1>9 DEF HasEp
  <2>2. g_eps[i] = Nobody
    BY <1>5, <1>9, <2>1 DEF HasEp
  <2>3. queues[i] = << >>
    BY <2>2 DEF DevWmInv, FreeIsEmpty
  <2>4. Waiting(p) = queues[i]
    BY <1>9, <2>3 DEF Waiting
  <2>5. Waiting(p)' = queues'[i]
    BY <1>1, <1>4, <2>1, EndpointIs DEF Waiting
  <2> QED BY <1>7, <2>1, <2>4, <2>5 DEF dst, server, msg
<1>10. CASE ~HasEp(g_eps, p) /\ ~HasEp(eps2, p)
  BY <1>1, <1>10 DEF Waiting
<1> QED BY <1>8, <1>9, <1>10

\* A read takes the first message of the reader and no other.
LEMMA WaitingAfterRead ==
    ASSUME DevWmInv, NEW pid \in Pid, dev_wm_read(pid), NEW p \in Pid
    PROVE  /\ Waiting(pid) # << >>
           /\ NextMsg(pid) = Head(Waiting(pid))
           /\ Waiting(p)' = IF p = pid THEN Tail(Waiting(p)) ELSE Waiting(p)
<1> DEFINE slot == find_ep(g_eps, pid)
<1>0. /\ queues \in [Slots -> Seq(Message)]
      /\ EpsSound(g_eps)
  BY DEF DevWmInv, TypeOK, Message, OneEndpoint, EpsSound
<1>1. /\ slot \in Slots /\ g_eps[slot] = pid /\ queues[slot] # << >>
      /\ queues' = [queues EXCEPT ![slot] = Tail(@)]
      /\ g_eps' = g_eps
      /\ HasEp(g_eps, pid)
  BY FindEp DEF dev_wm_read
<1>2. Waiting(pid) = queues[slot] /\ NextMsg(pid) = Head(queues[slot])
  BY <1>0, <1>1 DEF Waiting, NextMsg
<1> HIDE DEF slot
<1>3. CASE HasEp(g_eps, p)
  <2>1. PICK i \in Slots : g_eps[i] = p
    BY <1>3 DEF HasEp
  <2>2. Waiting(p) = queues[i] /\ Waiting(p)' = queues'[i]
    BY <1>0, <1>1, <2>1, EndpointIs DEF Waiting
  <2>3. i = slot <=> p = pid
    BY <1>0, <1>1, <2>1, DevWmAssumption DEF EpsSound
  <2> QED BY <1>0, <1>1, <1>2, <2>2, <2>3
<1>4. CASE ~HasEp(g_eps, p)
  BY <1>1, <1>2, <1>4 DEF Waiting
<1> QED BY <1>3, <1>4

\* What a new message does to what waits.
LEMMA EnqueuedTypes ==
    ASSUME NEW s \in Seq(Message), Len(s) <= Cap, NEW m \in Message, NEW ty
    PROVE  /\ NoneOf(s, ty) /\ m.type # ty => NoneOf(Enqueued(s, m), ty)
           /\ NoneOf(s, ty) => AtMostOne(Enqueued(s, m), ty)
           /\ AtMostOne(s, ty) /\ m.type # ty => AtMostOne(Enqueued(s, m), ty)
<1>1. ASSUME NEW t \in Seq(Message)
      PROVE  /\ NoneOf(t, ty) /\ m.type # ty => NoneOf(Append(t, m), ty)
             /\ NoneOf(t, ty) => AtMostOne(Append(t, m), ty)
             /\ AtMostOne(t, ty) /\ m.type # ty => AtMostOne(Append(t, m), ty)
  BY DEF NoneOf, AtMostOne
<1>2. CASE Len(s) < Cap
  BY <1>1, <1>2 DEF Enqueued
<1>3. CASE ~(Len(s) < Cap)
  <2>1. s # << >>
    BY <1>3, DevWmAssumption
  <2>2. /\ Tail(s) \in Seq(Message)
        /\ \A k \in DOMAIN Tail(s) : k + 1 \in DOMAIN s /\ Tail(s)[k] = s[k + 1]
    BY <2>1, TailLemma
  <2>3. /\ NoneOf(s, ty) => NoneOf(Tail(s), ty)
        /\ AtMostOne(s, ty) => AtMostOne(Tail(s), ty)
    BY <2>2 DEF NoneOf, AtMostOne
  <2> QED BY <1>1, <1>3, <2>2, <2>3 DEF Enqueued
<1> QED BY <1>2, <1>3

\* What taking the first message does to what waits.
LEMMA TailTypes ==
    ASSUME NEW s \in Seq(Message), s # << >>, NEW ty
    PROVE  /\ NoneOf(s, ty) => NoneOf(Tail(s), ty) /\ Head(s).type # ty
           /\ AtMostOne(s, ty) => AtMostOne(Tail(s), ty)
           /\ AtMostOne(s, ty) /\ Head(s).type = ty => NoneOf(Tail(s), ty)
<1>1. /\ Tail(s) \in Seq(Message)
      /\ \A k \in DOMAIN Tail(s) : k + 1 \in DOMAIN s /\ Tail(s)[k] = s[k + 1] /\ k + 1 # 1
      /\ 1 \in DOMAIN s /\ Head(s) = s[1]
  BY TailLemma
<1> HIDE DEF NoneOf, AtMostOne
<1>2. /\ NoneOf(s, ty) => NoneOf(Tail(s), ty) /\ Head(s).type # ty
      /\ AtMostOne(s, ty) => AtMostOne(Tail(s), ty)
  BY <1>1 DEF NoneOf, AtMostOne
<1>3. AtMostOne(s, ty) /\ Head(s).type = ty => NoneOf(Tail(s), ty)
  BY <1>1 DEF NoneOf, AtMostOne
<1> QED BY <1>2, <1>3

\* The messages are typed and fit.
LEMMA WaitingType ==
    ASSUME DevWmInv, NEW p \in Pid
    PROVE  Waiting(p) \in Seq(Message) /\ Len(Waiting(p)) <= Cap
<1>1. /\ queues \in [Slots -> Seq(Message)]
      /\ \A i \in Slots : Len(queues[i]) <= Cap
  BY DEF DevWmInv, TypeOK, Message
<1>2. CASE HasEp(g_eps, p)
  BY <1>1, <1>2, FindEp DEF Waiting
<1>3. CASE ~HasEp(g_eps, p)
  BY <1>3, DevWmAssumption DEF Waiting
<1> QED BY <1>2, <1>3

\* Where the programs are, who they are.
LEMMA Programs ==
    /\ StartWm \in Pid /\ Wm \in Pid /\ Bg \in Pid
    /\ StartWm # Wm /\ StartWm # Bg /\ Wm # Bg
    /\ "nop" \in Type /\ "create" \in Type /\ "close" \in Type /\ "create_reply" \in Type
  BY StartupAssumption

\* Nothing of the device or the session changes.
LEMMA SessionKept ==
    ASSUME StartupInv, UNCHANGED <<dev, pc, opened, windows>>
    PROVE  StartupInv'
<1>1. DevWmInv' /\ Waiting(Wm)' = Waiting(Wm) /\ Waiting(Bg)' = Waiting(Bg)
  BY DEF StartupInv, dev, DevWmInv, TypeOK, OneEndpoint, ClientsIsolated, ServerReachable,
         FreeIsEmpty, NoServerNoEps, HasEp, Waiting
<1> QED BY <1>1 DEF StartupInv, PcOK, Asking, OneRequest, Settled, NoneOf, AtMostOne

\* startwm starts the two programs, each before it has done anything.
LEMMA ExecStep ==
    ASSUME StartupInv, startwm_exec
    PROVE  StartupInv'
<1>1. DevWmInv' /\ Waiting(Wm)' = Waiting(Wm) /\ Waiting(Bg)' = Waiting(Bg)
  BY DEF startwm_exec, StartupInv, dev, DevWmInv, TypeOK, OneEndpoint, ClientsIsolated,
         ServerReachable, FreeIsEmpty, NoServerNoEps, HasEp, Waiting
<1>2. opened' = opened /\ windows' = windows
  BY DEF startwm_exec
<1>3. PcOK
  BY DEF StartupInv
<1>4. CASE pc[StartWm] = "exec_wm"
  <2>1. /\ pc' = [pc EXCEPT ![StartWm] = "exec_bg", ![Wm] = "hello"]
        /\ pc[Wm] = "unborn" /\ pc[Bg] = "unborn"
    BY <1>3, <1>4 DEF startwm_exec, PcOK
  <2>2. PcOK' /\ pc'[Wm] = "hello" /\ pc'[Bg] = "unborn"
    BY <1>2, <1>3, <2>1, Programs DEF PcOK, Label
  <2> QED BY <1>1, <1>2, <2>1, <2>2 DEF StartupInv, Asking, OneRequest, Settled, NoneOf, AtMostOne
<1>5. CASE pc[StartWm] = "exec_bg"
  <2>1. /\ pc' = [pc EXCEPT ![StartWm] = "waitpid", ![Bg] = "create"]
        /\ pc[Bg] = "unborn"
    BY <1>3, <1>5 DEF startwm_exec, PcOK
  <2>2. PcOK' /\ pc'[Wm] = pc[Wm] /\ pc'[Bg] = "create"
    BY <1>2, <1>3, <2>1, Programs DEF PcOK, Label
  <2> QED BY <1>1, <1>2, <2>1, <2>2 DEF StartupInv, Asking, OneRequest, Settled, NoneOf, AtMostOne
<1> QED BY <1>4, <1>5 DEF startwm_exec

\* Which program sends what: the effect of a message of type ty to dst on
\* what the session is about.
LEMMA WriteTypes ==
    ASSUME StartupInv, NEW src \in Pid, NEW to \in Pid \cup {Nobody}, NEW ty \in Type,
           dev_wm_write(src, to, ty), NEW p \in Pid, NEW k \in Type
    PROVE  /\ NoneOf(Waiting(p), k) /\ ty # k => NoneOf(Waiting(p), k)'
           /\ NoneOf(Waiting(p), k) => AtMostOne(Waiting(p), k)'
           /\ AtMostOne(Waiting(p), k) /\ ty # k => AtMostOne(Waiting(p), k)'
           /\ NoneOf(Waiting(p), k) /\ to # p /\ to \in Pid => NoneOf(Waiting(p), k)'
           /\ AtMostOne(Waiting(p), k) /\ to # p /\ to \in Pid => AtMostOne(Waiting(p), k)'
<1> DEFINE m == [src |-> src, type |-> ty]
<1>1. DevWmInv
  BY DEF StartupInv
<1>2. /\ \/ Waiting(p)' = Waiting(p)
         \/ Waiting(p)' = Enqueued(Waiting(p), m)
      /\ to # p /\ to \in Pid => Waiting(p)' = Waiting(p)
  BY <1>1, WaitingAfterWrite, DevWmAssumption
<1>3. m \in Message /\ m.type = ty /\ Waiting(p) \in Seq(Message) /\ Len(Waiting(p)) <= Cap
  BY <1>1, WaitingType DEF Message
<1> HIDE DEF m
<1>4. /\ NoneOf(Waiting(p), k) /\ ty # k => NoneOf(Enqueued(Waiting(p), m), k)
      /\ NoneOf(Waiting(p), k) => AtMostOne(Enqueued(Waiting(p), m), k)
      /\ AtMostOne(Waiting(p), k) /\ ty # k => AtMostOne(Enqueued(Waiting(p), m), k)
  BY <1>3, EnqueuedTypes
<1>5. NoneOf(Waiting(p), k) => AtMostOne(Waiting(p), k)
  BY DEF NoneOf, AtMostOne
<1>6. /\ NoneOf(Waiting(p), k)' <=> NoneOf(Waiting(p)', k)
      /\ AtMostOne(Waiting(p), k)' <=> AtMostOne(Waiting(p)', k)
  BY DEF NoneOf, AtMostOne
<1> QED BY <1>2, <1>4, <1>5, <1>6

\* The window manager's first write is no request.
LEMMA HelloStep ==
    ASSUME StartupInv, wm_hello
    PROVE  StartupInv'
<1>1. /\ DevWmInv /\ PcOK /\ pc[Wm] = "hello"
      /\ pc' = [pc EXCEPT ![Wm] = "loop"] /\ opened' = opened /\ windows' = windows
      /\ dev_wm_write(Wm, Nobody, "nop")
  BY DEF wm_hello, Goto, StartupInv
<1>2. DevWmInv'
  BY <1>1, Programs, WriteStep
<1>3. PcOK' /\ pc'[Bg] = pc[Bg] /\ pc'[Wm] = "loop"
  BY <1>1, Programs DEF PcOK, Label
<1>4. ASSUME NEW p \in Pid, NEW k \in Type, k # "nop"
      PROVE  /\ NoneOf(Waiting(p), k) => NoneOf(Waiting(p), k)'
             /\ AtMostOne(Waiting(p), k) => AtMostOne(Waiting(p), k)'
  BY <1>1, <1>4, WriteTypes, Programs
<1>5. /\ NoneOf(Waiting(Wm), "create") => NoneOf(Waiting(Wm), "create")'
      /\ AtMostOne(Waiting(Wm), "create") => AtMostOne(Waiting(Wm), "create")'
      /\ NoneOf(Waiting(Wm), "close") => NoneOf(Waiting(Wm), "close")'
      /\ NoneOf(Waiting(Bg), "create_reply") => NoneOf(Waiting(Bg), "create_reply")'
      /\ AtMostOne(Waiting(Bg), "create_reply") => AtMostOne(Waiting(Bg), "create_reply")'
  BY <1>4, Programs
<1> QED BY <1>1, <1>2, <1>3, <1>5 DEF StartupInv, Asking, OneRequest, Settled

\* What a read does to what waits.
LEMMA ReadTypes ==
    ASSUME StartupInv, NEW pid \in Pid, dev_wm_read(pid), NEW p \in Pid, NEW k \in Type
    PROVE  /\ NoneOf(Waiting(p), k) => NoneOf(Waiting(p), k)'
           /\ AtMostOne(Waiting(p), k) => AtMostOne(Waiting(p), k)'
           /\ NoneOf(Waiting(pid), k) => NextMsg(pid).type # k
           /\ AtMostOne(Waiting(pid), k) /\ NextMsg(pid).type = k => NoneOf(Waiting(pid), k)'
<1>1. DevWmInv
  BY DEF StartupInv
<1>2. /\ Waiting(pid) # << >>
      /\ NextMsg(pid) = Head(Waiting(pid))
      /\ Waiting(p)' = IF p = pid THEN Tail(Waiting(p)) ELSE Waiting(p)
      /\ Waiting(pid)' = Tail(Waiting(pid))
  BY <1>1, WaitingAfterRead
<1>3. Waiting(p) \in Seq(Message) /\ Waiting(pid) \in Seq(Message)
  BY <1>1, WaitingType
<1>4. /\ NoneOf(Waiting(pid), k) => NoneOf(Tail(Waiting(pid)), k) /\ Head(Waiting(pid)).type # k
      /\ AtMostOne(Waiting(pid), k) => AtMostOne(Tail(Waiting(pid)), k)
      /\ AtMostOne(Waiting(pid), k) /\ Head(Waiting(pid)).type = k => NoneOf(Tail(Waiting(pid)), k)
  BY <1>2, <1>3, TailTypes
<1>5. /\ NoneOf(Waiting(p), k)' <=> NoneOf(Waiting(p)', k)
      /\ AtMostOne(Waiting(p), k)' <=> AtMostOne(Waiting(p)', k)
      /\ NoneOf(Waiting(pid), k)' <=> NoneOf(Waiting(pid)', k)
  BY DEF NoneOf, AtMostOne
<1> QED BY <1>2, <1>4, <1>5

\* The window manager takes a message.
LEMMA ReceiveStep ==
    ASSUME StartupInv, wm_receive
    PROVE  StartupInv'
<1> DEFINE ty == NextMsg(Wm).type
<1>1. /\ DevWmInv /\ PcOK /\ pc[Wm] = "loop" /\ opened' = opened
      /\ windows' = CASE ty = "create" -> windows + 1
                      [] ty = "close" -> windows - 1
                      [] OTHER -> windows
      /\ IF ty = "create" THEN pc' = [pc EXCEPT ![Wm] = "reply"] ELSE pc' = pc
      /\ dev_wm_read(Wm)
  BY DEF wm_receive, Goto, StartupInv
<1>2. DevWmInv'
  BY <1>1, Programs, ReadStep
<1>3. PcOK' /\ pc'[Bg] = pc[Bg] /\ pc'[Wm] = IF ty = "create" THEN "reply" ELSE "loop"
  BY <1>1, Programs DEF PcOK, Label
<1>4. /\ NoneOf(Waiting(Wm), "create") => NoneOf(Waiting(Wm), "create")' /\ ty # "create"
      /\ AtMostOne(Waiting(Wm), "create") => AtMostOne(Waiting(Wm), "create")'
      /\ AtMostOne(Waiting(Wm), "create") /\ ty = "create" => NoneOf(Waiting(Wm), "create")'
  BY <1>1, ReadTypes, Programs
<1>5. NoneOf(Waiting(Wm), "close") => NoneOf(Waiting(Wm), "close")' /\ ty # "close"
  BY <1>1, ReadTypes, Programs
<1>6. /\ NoneOf(Waiting(Bg), "create_reply") => NoneOf(Waiting(Bg), "create_reply")'
      /\ AtMostOne(Waiting(Bg), "create_reply") => AtMostOne(Waiting(Bg), "create_reply")'
  BY <1>1, ReadTypes, Programs
<1> HIDE DEF ty
<1>7. CASE ty = "create"
  <2>1. windows' = windows + 1 /\ windows \in Int /\ opened \in Int
    BY <1>1, <1>7 DEF PcOK
  <2> QED BY <1>1, <1>2, <1>3, <1>4, <1>5, <1>6, <1>7, <2>1 DEF StartupInv, Asking, OneRequest, Settled
<1>8. CASE ty # "create"
  <2>1. Asking => windows' = windows
    BY <1>1, <1>5, <1>8 DEF StartupInv, OneRequest
  <2> QED BY <1>1, <1>2, <1>3, <1>4, <1>5, <1>6, <1>8, <2>1 DEF StartupInv, Asking, OneRequest, Settled
<1> QED BY <1>7, <1>8

\* The window manager answers, if the background has an endpoint.
LEMMA ReplyStep ==
    ASSUME StartupInv, wm_reply
    PROVE  StartupInv'
<1>1. /\ DevWmInv /\ PcOK /\ pc[Wm] = "reply"
      /\ pc' = [pc EXCEPT ![Wm] = "loop"] /\ opened' = opened /\ windows' = windows
      /\ dev_wm_write(Wm, Bg, "create_reply")
  BY DEF wm_reply, Goto, StartupInv
<1>2. DevWmInv'
  BY <1>1, Programs, WriteStep
<1>3. PcOK' /\ pc'[Bg] = pc[Bg] /\ pc'[Wm] = "loop"
  BY <1>1, Programs DEF PcOK, Label
<1>4. /\ NoneOf(Waiting(Wm), "create") => NoneOf(Waiting(Wm), "create")'
      /\ AtMostOne(Waiting(Wm), "create") => AtMostOne(Waiting(Wm), "create")'
  BY <1>1, WriteTypes, Programs
<1>5. NoneOf(Waiting(Wm), "close") => NoneOf(Waiting(Wm), "close")'
  BY <1>1, WriteTypes, Programs
<1>6. NoneOf(Waiting(Bg), "create_reply") => AtMostOne(Waiting(Bg), "create_reply")'
  BY <1>1, WriteTypes, Programs
<1> QED BY <1>1, <1>2, <1>3, <1>4, <1>5, <1>6 DEF StartupInv, Asking, OneRequest, Settled

\* The background asks for a window.
LEMMA CreateStep ==
    ASSUME StartupInv, bg_create
    PROVE  StartupInv'
<1>1. /\ DevWmInv /\ PcOK /\ pc[Bg] = "create"
      /\ pc' = [pc EXCEPT ![Bg] = "poll"] /\ opened' = opened /\ windows' = windows
      /\ dev_wm_write(Bg, Nobody, "create")
  BY DEF bg_create, Goto, StartupInv
<1>2. DevWmInv'
  BY <1>1, Programs, WriteStep
<1>3. PcOK' /\ pc'[Wm] = pc[Wm] /\ pc'[Bg] = "poll"
  BY <1>1, Programs DEF PcOK, Label
<1>4. NoneOf(Waiting(Wm), "create") => AtMostOne(Waiting(Wm), "create")'
  BY <1>1, WriteTypes, Programs
<1>5. NoneOf(Waiting(Wm), "close") => NoneOf(Waiting(Wm), "close")'
  BY <1>1, WriteTypes, Programs
<1>6. /\ NoneOf(Waiting(Bg), "create_reply") => NoneOf(Waiting(Bg), "create_reply")'
      /\ AtMostOne(Waiting(Bg), "create_reply") => AtMostOne(Waiting(Bg), "create_reply")'
  BY <1>1, WriteTypes, Programs
<1> QED BY <1>1, <1>2, <1>3, <1>4, <1>5, <1>6 DEF StartupInv, Asking, OneRequest, Settled

\* A poll that reads a message: the answer, or something else.
LEMMA PollStep ==
    ASSUME StartupInv, bg_poll_message
    PROVE  StartupInv'
<1>1. /\ DevWmInv /\ PcOK /\ pc[Bg] = "poll" /\ windows' = windows /\ dev_wm_read(Bg)
      /\ OneRequest /\ opened \in 0..1
  BY DEF bg_poll_message, StartupInv, Asking
<1>2. DevWmInv'
  BY <1>1, Programs, ReadStep
<1>4. /\ NoneOf(Waiting(Wm), "create") => NoneOf(Waiting(Wm), "create")'
      /\ AtMostOne(Waiting(Wm), "create") => AtMostOne(Waiting(Wm), "create")'
  BY <1>1, ReadTypes, Programs
<1>5. NoneOf(Waiting(Wm), "close") => NoneOf(Waiting(Wm), "close")'
  BY <1>1, ReadTypes, Programs
<1>6. /\ NoneOf(Waiting(Bg), "create_reply") => /\ NoneOf(Waiting(Bg), "create_reply")'
                                                /\ NextMsg(Bg).type # "create_reply"
      /\ AtMostOne(Waiting(Bg), "create_reply") => AtMostOne(Waiting(Bg), "create_reply")'
      /\ AtMostOne(Waiting(Bg), "create_reply") /\ NextMsg(Bg).type = "create_reply"
            => NoneOf(Waiting(Bg), "create_reply")'
  BY <1>1, ReadTypes, Programs
<1>7. CASE IsReply(NextMsg(Bg))
  <2>1. /\ opened' = opened + 1
        /\ pc' = [pc EXCEPT ![Bg] = IF opened = 0 THEN "create" ELSE "up"]
    BY <1>7 DEF bg_poll_message, Goto
  <2>2. PcOK' /\ pc'[Wm] = pc[Wm] /\ pc'[Bg] = IF opened = 0 THEN "create" ELSE "up"
    BY <1>1, <2>1, Programs DEF PcOK, Label
  <2>3. NextMsg(Bg).type = "create_reply"
    BY <1>7 DEF IsReply
  <2>4. windows = opened + 1 /\ pc[Wm] # "reply" /\ NoneOf(Waiting(Wm), "create")
    BY <1>1, <1>6, <2>3 DEF OneRequest, PcOK
  <2> QED BY <1>1, <1>2, <1>4, <1>5, <1>6, <2>1, <2>2, <2>3, <2>4
          DEF StartupInv, Asking, OneRequest, Settled
<1>8. CASE ~IsReply(NextMsg(Bg))
  <2>1. pc' = pc /\ opened' = opened
    BY <1>8 DEF bg_poll_message
  <2>2. PcOK'
    BY <1>1, <2>1 DEF PcOK
  <2> QED BY <1>1, <1>2, <1>4, <1>5, <1>6, <2>1, <2>2
          DEF StartupInv, Asking, OneRequest, Settled
<1> QED BY <1>7, <1>8

\* The background gives up; from then on nothing is promised.
LEMMA GiveUpStep ==
    ASSUME StartupInv, bg_timeout \/ bg_close \/ bg_exit
    PROVE  StartupInv'
<1>1. /\ DevWmInv /\ PcOK /\ pc[Bg] \in {"poll", "close", "exit"} /\ windows' = windows
      /\ opened' \in {opened, 0}
      /\ \/ UNCHANGED dev
         \/ dev_wm_write(Bg, Nobody, "close")
      /\ \E l \in {"close", "exit", "gone"} : pc' = [pc EXCEPT ![Bg] = l]
  BY DEF bg_timeout, bg_close, bg_exit, Goto, StartupInv
<1>2. DevWmInv'
  <2>1. CASE UNCHANGED dev
    BY <1>1, <2>1 DEF dev, DevWmInv, TypeOK, OneEndpoint, ClientsIsolated, ServerReachable,
                FreeIsEmpty, NoServerNoEps, HasEp
  <2>2. CASE dev_wm_write(Bg, Nobody, "close")
    BY <1>1, <2>2, Programs, WriteStep
  <2> QED BY <1>1, <2>1, <2>2
<1>3. PcOK' /\ pc'[Bg] \in {"close", "exit", "gone"}
  BY <1>1, Programs DEF PcOK, Label
<1> QED BY <1>1, <1>2, <1>3 DEF StartupInv, Asking

\* The inductive invariant of the session.
LEMMA StartupInvariant == SSpec => []StartupInv
<1>1. SInit => StartupInv
  <2> SUFFICES ASSUME SInit PROVE StartupInv
    OBVIOUS
  <2>1. DevWmInv
    BY InitDevWm DEF SInit
  <2>2. Waiting(Wm) = << >> /\ Waiting(Bg) = << >>
    <3>1. \A i \in Slots : g_eps[i] = Nobody
      BY DEF SInit, Init
    <3> QED BY <3>1, Programs, DevWmAssumption DEF Waiting, HasEp
  <2>3. PcOK /\ pc[Bg] = "unborn" /\ pc[Wm] = "unborn" /\ opened = 0 /\ windows = 0
    BY Programs DEF SInit, PcOK, Label
  <2>4. \A ty : /\ NoneOf(Waiting(Wm), ty) /\ NoneOf(Waiting(Bg), ty)
                /\ AtMostOne(Waiting(Wm), ty) /\ AtMostOne(Waiting(Bg), ty)
    BY <2>2 DEF NoneOf, AtMostOne
  <2> QED BY <2>1, <2>3, <2>4 DEF StartupInv, Asking, OneRequest, Settled
<1>2. StartupInv /\ [SNext]_svars => StartupInv'
  <2> SUFFICES ASSUME StartupInv, [SNext]_svars PROVE StartupInv'
    OBVIOUS
  <2>1. CASE proc_timer_callback \/ startwm_waitpid \/ wm_idle \/ bg_poll_empty \/ bg_idle
    BY <2>1, SessionKept DEF proc_timer_callback, startwm_waitpid, wm_idle, bg_poll_empty, bg_idle
  <2>2. CASE startwm_exec
    BY <2>2, ExecStep
  <2>3. CASE wm_hello
    BY <2>3, HelloStep
  <2>4. CASE wm_receive
    BY <2>4, ReceiveStep
  <2>5. CASE wm_reply
    BY <2>5, ReplyStep
  <2>6. CASE bg_create
    BY <2>6, CreateStep
  <2>7. CASE bg_poll_message
    BY <2>7, PollStep
  <2>8. CASE bg_timeout \/ bg_close \/ bg_exit
    BY <2>8, GiveUpStep
  <2>9. CASE UNCHANGED svars
    BY <2>9, SessionKept DEF svars, dev
  <2> QED BY <2>1, <2>2, <2>3, <2>4, <2>5, <2>6, <2>7, <2>8, <2>9 DEF SNext
<1> QED BY <1>1, <1>2, PTL DEF SSpec

\* open_window returns to the background only windows the window manager holds,
\* and at most one window is unknown to it, for every size of the endpoint table
\* and of the queues, every number of polls and every interleaving of the three
\* programs (wm_open_window_ipc, wm.c's main loop, dev_wm.c).
THEOREM WindowsExist == SSpec => []WindowsAgree
<1>1. StartupInv => WindowsAgree
  BY DEF StartupInv, Asking, OneRequest, Settled, WindowsAgree
<1> QED BY <1>1, StartupInvariant, PTL
=============================================================================
