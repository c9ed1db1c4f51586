-------------------------- MODULE SchedRobin_proofs -------------------------
(***************************************************************************)
(* Proofs about the linked ring of sched_robin.c, for any number of        *)
(* processes and any longest sleep: it stays one closed ring through every *)
(* relinking, and each completed pass of sched_robin_next is one           *)
(* sched_next of the run queue RoundRobin describes.                       *)
(*                                                                         *)
(* The argument: RingAt(s, h, nx) says that the pointers nx, entered at h, *)
(* spell out the sequence s.  It determines what Ring computes (RingIs),   *)
(* and each operation on pointers takes a ring that spells s to one that   *)
(* spells the sequence RoundRobin has for the same operation.              *)
(***************************************************************************)
EXTENDS SchedRobin, FiniteSetTheorems, WellFoundedInduction, TLAPS

\* The ticks the abstract queue sees: those of the pass under way given back.
Ticks == [x \in Proc |-> IF x \in Passed THEN sleep_ticks[x] + 1 ELSE sleep_ticks[x]]

RRP == INSTANCE RoundRobin_proofs WITH queue <- Ring, sleep_ticks <- Ticks

Injective(s) == \A i, j \in 1..Len(s) : s[i] = s[j] => i = j

\* What follows s[i] on the ring.
Succ(s, i) == IF i < Len(s) THEN s[i + 1] ELSE s[1]

\* The processes linked by the pointers nx.
NodesOf(nx) == {x \in Proc : nx[x] # NONE}

\* Following nx from h spells s, closes, and leaves nobody out.
RingAt(s, h, nx) == /\ s \in Seq(Proc)
                    /\ Injective(s)
                    /\ NodesOf(nx) = {s[i] : i \in 1..Len(s)}
                    /\ h = IF s = << >> THEN NONE ELSE s[1]
                    /\ \A i \in 1..Len(s) : nx[s[i]] = Succ(s, i)

\* Walk and Ring as functions of the pointers.
WalkOf(h, nx) == LET w[k \in 1..Cardinality(Proc)] == IF k = 1 THEN h ELSE nx[w[k - 1]]
                 IN  w
RingOf(h, nx) == [k \in 1..Cardinality(NodesOf(nx)) |-> WalkOf(h, nx)[k]]

\* The cursor stands on the c-th node and the sleepers it passed lost a tick.
CursorAt(c) == /\ p = Ring[c]
               /\ \A k \in 2..c : sleep_ticks[Ring[k]] < MaxSleep

\* The inductive invariant.
RingInv == /\ next \in [Proc -> Proc \cup {NONE}]
           /\ sleep_ticks \in [Proc -> 0..MaxSleep]
           /\ added \subseteq Proc
           /\ RingAt(Ring, processes, next)
           /\ Nodes \subseteq added
           /\ elected # NONE => processes # NONE /\ elected = processes
           /\ p # NONE => \E c \in 1..Len(Ring) : CursorAt(c)

-----------------------------------------------------------------------------

\* Every nonempty set of naturals has a least element.
LEMMA LeastElement ==
    ASSUME NEW T \in SUBSET Nat, T # {}
    PROVE  \E x \in T : \A y \in T : x <= y
<1> DEFINE R == {ss \in Nat \X Nat : ss[1] < ss[2]}
<1>1. IsWellFoundedOn(R, Nat)
  BY NatLessThanWellFounded, Zenon DEF OpToRel
<1>2. \A a, b \in Nat : a < b => <<a, b>> \in R
  OBVIOUS
<1> HIDE DEF R
<1>3. PICK x \in T : \A y \in T : ~(<<y, x>> \in R)
  BY <1>1, WFMin, Zenon
<1>4. ASSUME NEW y \in T PROVE x <= y
  <2>1. ~(y < x)
    BY <1>2, <1>3, Zenon
  <2> QED BY <2>1
<1> QED BY <1>4

\* The recursive definition of Walk has a solution.
LEMMA WalkDef ==
    ASSUME NEW h, NEW nx
    PROVE  \A k \in 1..Cardinality(Proc) :
              WalkOf(h, nx)[k] = IF k = 1 THEN h ELSE nx[WalkOf(h, nx)[k - 1]]
<1> DEFINE N == Cardinality(Proc)
           Solves(g, n) == g = [k \in 1..n |-> IF k = 1 THEN h ELSE nx[g[k - 1]]]
           S == {n \in Nat : ~ \E g : Solves(g, n)}
<1>0. N \in Nat
  BY ProcAssumption, FS_CardinalityType
<1> HIDE DEF N
<1>1. S = {}
  <2> SUFFICES ASSUME S # {} PROVE FALSE
    OBVIOUS
  <2>1. PICK n \in S : \A y \in S : n <= y
    <3>1. S \in SUBSET Nat
      OBVIOUS
    <3> HIDE DEF S
    <3> QED BY <3>1, LeastElement
  <2>2. n # 0
    <3>1. Solves([k \in 1..0 |-> h], 0)
      OBVIOUS
    <3> QED BY <3>1
  <2>3. PICK g : Solves(g, n - 1)
    <3>1. n \in Nat /\ n - 1 \in Nat /\ ~(n <= n - 1)
      BY <2>1, <2>2
    <3>2. n - 1 \notin S
      BY <2>1, <3>1
    <3> HIDE DEF Solves
    <3> QED BY <3>1, <3>2
  <2> DEFINE f == [k \in 1..n |-> IF k = n THEN IF n = 1 THEN h ELSE nx[g[n - 1]] ELSE g[k]]
  <2>4. Solves(f, n)
    <3>1. ASSUME NEW k \in 1..n
          PROVE  f[k] = IF k = 1 THEN h ELSE nx[f[k - 1]]
      <4>1. CASE k = n
        <5>1. n # 1 => n - 1 \in 1..n /\ n - 1 # n
          BY <2>1, <2>2
        <5> QED BY <4>1, <5>1
      <4>2. CASE k # n
        <5>1. k \in 1..(n - 1) /\ (k # 1 => k - 1 \in 1..(n - 1) /\ k - 1 # n /\ k - 1 \in 1..n)
          BY <2>1, <4>2
        <5>2. g[k] = IF k = 1 THEN h ELSE nx[g[k - 1]]
          BY <2>3, <5>1
        <5> QED BY <4>2, <5>1, <5>2
      <4> QED BY <4>1, <4>2
    <3> QED BY <3>1
  <2> HIDE DEF f, Solves
  <2> QED BY <2>4
<1>2. PICK g : Solves(g, N)
  BY <1>0, <1>1
<1>3. Solves(WalkOf(h, nx), N)
  BY <1>2 DEF WalkOf, N
<1> HIDE DEF S
<1> QED BY <1>0, <1>3 DEF N

\* A closed ring that spells s is read off as s.
LEMMA RingIs ==
    ASSUME NEW h, NEW nx, NEW s, RingAt(s, h, nx)
    PROVE  RingOf(h, nx) = s
<1>0. /\ s \in Seq(Proc) /\ Injective(s) /\ Len(s) \in Nat
      /\ NodesOf(nx) = {s[i] : i \in 1..Len(s)}
      /\ h = IF s = << >> THEN NONE ELSE s[1]
      /\ \A i \in 1..Len(s) : nx[s[i]] = Succ(s, i)
  BY DEF RingAt
<1> DEFINE M == NodesOf(nx)
           n == Len(s)
           w == WalkOf(h, nx)
<1>1. Cardinality(M) = n
  <2>1. s \in Bijection(1..n, M)
    BY <1>0 DEF Bijection, Injection, Surjection, IsInjective, Injective
  <2>2. ExistsBijection(1..n, M)
    BY <2>1 DEF ExistsBijection
  <2> HIDE DEF M, n
  <2> QED BY <1>0, <2>2, FS_CountingElements DEF n
<1>2. Cardinality(Proc) \in Nat /\ n <= Cardinality(Proc)
  <2>1. M \in SUBSET Proc
    BY DEF NodesOf
  <2> HIDE DEF M
  <2>2. Cardinality(M) <= Cardinality(Proc)
    BY <2>1, ProcAssumption, FS_Subset
  <2> QED BY <1>1, <2>2, ProcAssumption, FS_CardinalityType
<1>3. \A k \in 1..n : w[k] = IF k = 1 THEN h ELSE nx[w[k - 1]]
  BY <1>0, <1>2, WalkDef
<1> HIDE DEF w
<1>4. \A k \in 1..n : w[k] = s[k]
  <2> DEFINE S == {k \in 1..n : w[k] # s[k]}
  <2> SUFFICES ASSUME S # {} PROVE FALSE
    OBVIOUS
  <2>1. PICK k \in S : \A y \in S : k <= y
    <3>1. S \in SUBSET Nat
      OBVIOUS
    <3> HIDE DEF S
    <3> QED BY <3>1, LeastElement
  <2>2. k # 1
    BY <1>0, <1>3, <2>1
  <2>3. k - 1 \in 1..n /\ w[k - 1] = s[k - 1]
    BY <1>0, <2>1, <2>2
  <2>4. nx[s[k - 1]] = s[k]
    BY <1>0, <2>1, <2>3 DEF Succ
  <2> QED BY <1>3, <2>1, <2>2, <2>3, <2>4
<1> HIDE DEF M
<1>5. RingOf(h, nx) = [k \in 1..n |-> w[k]]
  BY <1>1 DEF RingOf, M, w
<1>6. s = [k \in 1..n |-> s[k]]
  BY <1>0
<1> QED BY <1>4, <1>5, <1>6

\* The ring of this state and of the next one, as functions of the pointers.
LEMMA RingIsRingOf ==
    /\ Ring = RingOf(processes, next)
    /\ Ring' = RingOf(processes', next')
    /\ Nodes = NodesOf(next)
    /\ Nodes' = NodesOf(next')
  BY DEF Ring, RingOf, Walk, WalkOf, Nodes, NodesOf

-----------------------------------------------------------------------------

\* The operations of the abstract queue under both instances.
LEMMA SameQueueOps ==
    /\ \A q : RR!Members(q) = RRP!Members(q)
    /\ \A q, x : RR!InsertNext(q, x) = RRP!InsertNext(q, x)
    /\ \A q, j : RR!RemoveAt(q, j) = RRP!RemoveAt(q, j)
    /\ \A q : RR!Rotate(q) = RRP!Rotate(q)
    /\ \A q, k : RR!MoveToHead(q, k) = RRP!MoveToHead(q, k)
  BY DEF RR!Members, RRP!Members, RR!InsertNext, RRP!InsertNext, RR!RemoveAt, RRP!RemoveAt,
         RR!Rotate, RRP!Rotate, RR!MoveToHead, RRP!MoveToHead

\* What is left to show of a new ring: its pointers follow m and nobody else is
\* linked.
LEMMA MakeRing ==
    ASSUME NEW m \in Seq(Proc), NEW h, NEW nn, Injective(m),
           h = IF m = << >> THEN NONE ELSE m[1],
           \A i \in 1..Len(m) : nn[m[i]] = Succ(m, i),
           \A x \in Proc : (\A i \in 1..Len(m) : m[i] # x) => nn[x] = NONE
    PROVE  RingAt(m, h, nn)
<1>1. \A i \in 1..Len(m) : m[i] \in Proc /\ Succ(m, i) \in Proc
  BY DEF Succ
<1>2. NodesOf(nn) = {m[i] : i \in 1..Len(m)}
  BY <1>1, RRAssumption DEF NodesOf
<1> QED BY <1>2 DEF RingAt

\* The parts of RingAt the operations below start from.
LEMMA RingParts ==
    ASSUME NEW s, NEW h, NEW nx, RingAt(s, h, nx)
    PROVE  /\ s \in Seq(Proc) /\ Len(s) \in Nat
           /\ \A i \in 1..Len(s) : s[i] \in Proc
           /\ Injective(s)
           /\ \A i, j \in 1..Len(s) : s[i] = s[j] => i = j
           /\ s # << >> => h = s[1] /\ Len(s) > 0
           /\ (s = << >>) <=> (h = NONE)
           /\ \A i \in 1..Len(s) : nx[s[i]] = Succ(s, i)
           /\ \A x \in Proc : (\A i \in 1..Len(s) : s[i] # x) => nx[x] = NONE
           /\ \A x \in Proc : nx[x] = NONE => \A i \in 1..Len(s) : s[i] # x
           /\ RRP!Members(s) = {s[i] : i \in 1..Len(s)}
<1>1. /\ s \in Seq(Proc) /\ Len(s) \in Nat /\ DOMAIN s = 1..Len(s)
      /\ \A i \in 1..Len(s) : s[i] \in Proc
  BY DEF RingAt
<1>2. s # << >> => h = s[1] /\ Len(s) > 0
  BY <1>1 DEF RingAt
<1>3. (s = << >>) <=> (h = NONE)
  <2>1. s # << >> => s[1] \in Proc
    BY <1>1, <1>2
  <2> QED BY <1>2, <2>1, RRAssumption DEF RingAt
<1>4. NodesOf(nx) = {s[i] : i \in 1..Len(s)}
  BY DEF RingAt
<1> QED BY <1>1, <1>2, <1>3, <1>4 DEF RingAt, Injective, NodesOf, RRP!Members

\* sched_robin_add on an empty ring.
LEMMA AddFirst ==
    ASSUME NEW s, NEW h, NEW nx \in [Proc -> Proc \cup {NONE}], RingAt(s, h, nx),
           NEW x \in Proc, s = << >>
    PROVE  RingAt(RRP!InsertNext(s, x), x, [nx EXCEPT ![x] = x])
<1> DEFINE m == RRP!InsertNext(s, x)
           nn == [nx EXCEPT ![x] = x]
<1>0. \A y \in Proc : nx[y] = NONE
  BY RingParts
<1>1. m = <<x>>
  <2>1. m = [i \in 1..1 |-> x]
    BY DEF RRP!InsertNext
  <2> QED BY <2>1
<1> HIDE DEF m
<1>2. m \in Seq(Proc) /\ Injective(m) /\ Len(m) = 1 /\ m # << >> /\ m[1] = x
  BY <1>1 DEF Injective
<1>3. \A i \in 1..Len(m) : nn[m[i]] = Succ(m, i)
  BY <1>2 DEF Succ
<1>4. \A y \in Proc : (\A i \in 1..Len(m) : m[i] # y) => nn[y] = NONE
  BY <1>0, <1>2
<1> QED BY <1>2, <1>3, <1>4, MakeRing DEF m

\* sched_robin_add behind the head of a ring.
LEMMA AddBehind ==
    ASSUME NEW s, NEW h, NEW nx \in [Proc -> Proc \cup {NONE}], RingAt(s, h, nx),
           NEW x \in Proc, nx[x] = NONE, s # << >>
    PROVE  RingAt(RRP!InsertNext(s, x), h, [nx EXCEPT ![h] = x, ![x] = nx[h]])
<1> DEFINE m == RRP!InsertNext(s, x)
           nn == [nx EXCEPT ![h] = x, ![x] = nx[h]]
           n == Len(s)
<1>0. /\ s \in Seq(Proc) /\ n \in Nat /\ n > 0 /\ h = s[1]
      /\ \A i \in 1..n : s[i] \in Proc
      /\ \A i, j \in 1..n : s[i] = s[j] => i = j
      /\ \A i \in 1..n : nx[s[i]] = Succ(s, i)
      /\ \A y \in Proc : (\A i \in 1..n : s[i] # y) => nx[y] = NONE
      /\ \A i \in 1..n : s[i] # x
      /\ RRP!Members(s) = {s[i] : i \in 1..n}
  BY RingParts
<1>1. /\ m \in Seq(Proc) /\ Len(m) = n + 1
      /\ \A i, j \in 1..(n + 1) : m[i] = m[j] => i = j
      /\ RRP!Members(m) = RRP!Members(s) \cup {x}
  <2>1. x \notin RRP!Members(s)
    BY <1>0
  <2> QED BY <1>0, <2>1, RRP!InsertNextLemma, RRAssumption
<1>2. /\ m[1] = s[1] /\ m[2] = x
      /\ \A i \in 3..(n + 1) : m[i] = s[i - 1]
  BY <1>0 DEF RRP!InsertNext
<1> HIDE DEF m
<1>3. /\ nn[h] = x /\ nn[x] = nx[h]
      /\ \A y \in Proc : y # h /\ y # x => nn[y] = nx[y]
  <2>1. h \in Proc /\ h # x
    BY <1>0
  <2> QED BY <2>1
<1> HIDE DEF nn
<1>4. ASSUME NEW i \in 1..(n + 1) PROVE nn[m[i]] = Succ(m, i)
  <2>1. CASE i = 1
    BY <1>0, <1>1, <1>2, <1>3, <2>1 DEF Succ
  <2>2. CASE i = 2
    <3>1. nn[m[2]] = Succ(s, 1)
      BY <1>0, <1>2, <1>3
    <3>2. CASE n = 1
      BY <1>0, <1>1, <1>2, <2>2, <3>1, <3>2 DEF Succ
    <3>3. CASE n > 1
      <4>1. m[3] = s[2]
        BY <1>0, <1>2, <3>3
      <4> QED BY <1>0, <1>1, <2>2, <3>1, <3>3, <4>1 DEF Succ
    <3>4. n = 1 \/ n > 1
      <4>1. n \in Nat /\ n > 0
        BY <1>0
      <4> HIDE DEF n
      <4> QED BY <4>1
    <3> QED BY <3>2, <3>3, <3>4
  <2>3. CASE i > 2
    <3> DEFINE j == i - 1
    <3>0. j \in 2..n /\ i = j + 1 /\ m[i] = s[j]
      BY <1>0, <1>2, <2>3
    <3> HIDE DEF j
    <3>1. s[j] # h /\ s[j] # x /\ s[j] \in Proc
      BY <1>0, <3>0
    <3>2. nn[m[i]] = Succ(s, j)
      BY <1>0, <1>3, <3>0, <3>1
    <3>3. CASE j = n
      <4>1. Succ(s, j) = s[1]
        BY <1>0, <3>3 DEF Succ
      <4>2. Succ(m, i) = m[1]
        BY <1>0, <1>1, <3>0, <3>3 DEF Succ
      <4> QED BY <1>2, <3>2, <4>1, <4>2
    <3>4. CASE j < n
      <4>1. i + 1 \in 3..(n + 1) /\ m[i + 1] = s[j + 1]
        BY <1>0, <1>2, <3>0, <3>4
      <4> QED BY <1>0, <1>1, <3>0, <3>2, <3>4, <4>1 DEF Succ
    <3> QED BY <3>0, <3>3, <3>4
  <2> QED BY <2>1, <2>2, <2>3
<1>5. ASSUME NEW y \in Proc, \A i \in 1..Len(m) : m[i] # y PROVE nn[y] = NONE
  <2>1. DOMAIN m = 1..Len(m) /\ y \notin RRP!Members(m)
    BY <1>1, <1>5 DEF RRP!Members
  <2>2. \A i \in 1..n : s[i] # y
    BY <1>0, <1>1, <2>1
  <2>3. y # x /\ y # h
    BY <1>0, <1>1, <2>1, <2>2
  <2> QED BY <1>0, <1>3, <2>2, <2>3
<1>6. m # << >> /\ h = m[1] /\ Injective(m)
  BY <1>0, <1>1, <1>2 DEF Injective
<1> QED BY <1>1, <1>4, <1>5, <1>6, MakeRing DEF m, nn

\* sched_robin_exit of the head: its predecessor, the last node, takes its place.
LEMMA RemoveHead ==
    ASSUME NEW s, NEW h, NEW nx \in [Proc -> Proc \cup {NONE}], RingAt(s, h, nx),
           Len(s) > 1
    PROVE  RingAt(RRP!RemoveAt(s, 1), s[Len(s)],
                  [nx EXCEPT ![s[Len(s)]] = nx[s[1]], ![s[1]] = NONE])
<1> DEFINE m == RRP!RemoveAt(s, 1)
           n == Len(s)
           l == s[n]
           nn == [nx EXCEPT ![l] = nx[s[1]], ![s[1]] = NONE]
<1>0. /\ s \in Seq(Proc) /\ n \in Nat /\ n > 1
      /\ \A i \in 1..n : s[i] \in Proc
      /\ \A i, j \in 1..n : s[i] = s[j] => i = j
      /\ \A i \in 1..n : nx[s[i]] = Succ(s, i)
      /\ \A y \in Proc : (\A i \in 1..n : s[i] # y) => nx[y] = NONE
      /\ RRP!Members(s) = {s[i] : i \in 1..n}
  BY RingParts
<1>1. /\ m \in Seq(Proc) /\ Len(m) = n - 1
      /\ \A i, j \in 1..(n - 1) : m[i] = m[j] => i = j
      /\ RRP!Members(m) = RRP!Members(s) \ {s[1]}
  <2>1. 1 \in 1..Len(s)
    BY <1>0
  <2> QED BY <1>0, <2>1, RRP!RemoveAtLemma, RRAssumption
<1>2. m[1] = l /\ \A i \in 2..(n - 1) : m[i] = s[i]
  BY <1>0 DEF RRP!RemoveAt
<1> HIDE DEF m
<1>3. /\ nn[s[1]] = NONE /\ nn[l] = s[2] /\ l # s[1] /\ l \in Proc
      /\ \A y \in Proc : y # l /\ y # s[1] => nn[y] = nx[y]
  <2>1. s[1] \in Proc /\ l \in Proc /\ l # s[1] /\ nx[s[1]] = s[2]
    BY <1>0 DEF Succ
  <2> QED BY <2>1
<1> HIDE DEF nn
<1>4. ASSUME NEW i \in 1..(n - 1) PROVE nn[m[i]] = Succ(m, i)
  <2>1. CASE i = 1
    <3>1. CASE n = 2
      BY <1>0, <1>1, <1>2, <1>3, <2>1, <3>1 DEF Succ
    <3>2. CASE n > 2
      <4>1. m[2] = s[2]
        BY <1>0, <1>2, <3>2
      <4> QED BY <1>0, <1>1, <1>2, <1>3, <2>1, <3>2, <4>1 DEF Succ
    <3> QED BY <1>0, <3>1, <3>2
  <2>2. CASE i > 1
    <3>0. i \in 2..(n - 1) /\ m[i] = s[i] /\ s[i] \in Proc /\ s[i] # s[1] /\ s[i] # l
      BY <1>0, <1>2, <2>2
    <3>1. nn[m[i]] = s[i + 1]
      BY <1>0, <1>3, <3>0 DEF Succ
    <3>2. CASE i = n - 1
      BY <1>0, <1>1, <1>2, <3>1, <3>2 DEF Succ
    <3>3. CASE i < n - 1
      <4>1. m[i + 1] = s[i + 1]
        BY <1>0, <1>2, <3>0, <3>3
      <4> QED BY <1>0, <1>1, <3>0, <3>1, <3>3, <4>1 DEF Succ
    <3> QED BY <1>0, <3>0, <3>2, <3>3
  <2> QED BY <2>1, <2>2
<1>5. ASSUME NEW y \in Proc, \A i \in 1..Len(m) : m[i] # y PROVE nn[y] = NONE
  <2>1. DOMAIN m = 1..Len(m) /\ y \notin RRP!Members(m)
    BY <1>1, <1>5 DEF RRP!Members
  <2>2. CASE y = s[1]
    BY <1>3, <2>2
  <2>3. CASE y # s[1]
    <3>1. \A i \in 1..n : s[i] # y
      BY <1>0, <1>1, <2>1, <2>3
    <3>2. y # l
      BY <1>0, <3>1
    <3> QED BY <1>0, <1>3, <2>3, <3>1, <3>2
  <2> QED BY <2>2, <2>3
<1>6. m # << >> /\ l = m[1] /\ Injective(m)
  BY <1>0, <1>1, <1>2 DEF Injective
<1> QED BY <1>1, <1>4, <1>5, <1>6, MakeRing DEF m, nn

\* Moving the head on by one rotates the ring.
LEMMA RotateRing ==
    ASSUME NEW s, NEW h, NEW nx, RingAt(s, h, nx), s # << >>
    PROVE  RingAt(RRP!Rotate(s), nx[h], nx)
<1> DEFINE m == RRP!Rotate(s)
           n == Len(s)
<1>0. /\ s \in Seq(Proc) /\ n \in Nat /\ n > 0 /\ h = s[1]
      /\ \A i \in 1..n : s[i] \in Proc
      /\ \A i, j \in 1..n : s[i] = s[j] => i = j
      /\ \A i \in 1..n : nx[s[i]] = Succ(s, i)
      /\ \A y \in Proc : (\A i \in 1..n : s[i] # y) => nx[y] = NONE
      /\ RRP!Members(s) = {s[i] : i \in 1..n}
  BY RingParts
<1>1. /\ m \in Seq(Proc) /\ Len(m) = n
      /\ \A i, j \in 1..n : m[i] = m[j] => i = j
      /\ RRP!Members(m) = RRP!Members(s)
  BY <1>0, RRP!RotateLemma, RRAssumption
<1>2. \A i \in 1..n : m[i] = Succ(s, i)
  BY <1>0 DEF RRP!Rotate, Succ
<1> HIDE DEF m
<1>3. ASSUME NEW i \in 1..n PROVE nx[m[i]] = Succ(m, i)
  <2>1. CASE i < n
    <3>1. i + 1 \in 1..n /\ m[i] = s[i + 1] /\ m[i + 1] = Succ(s, i + 1)
      BY <1>0, <1>2, <2>1 DEF Succ
    <3> QED BY <1>0, <1>1, <2>1, <3>1 DEF Succ
  <2>2. CASE i = n
    <3>1. 1 \in 1..n /\ m[i] = s[1] /\ m[1] = Succ(s, 1)
      BY <1>0, <1>2, <2>2 DEF Succ
    <3> QED BY <1>0, <1>1, <2>2, <3>1 DEF Succ
  <2> QED BY <1>0, <2>1, <2>2
<1>4. ASSUME NEW y \in Proc, \A i \in 1..Len(m) : m[i] # y PROVE nx[y] = NONE
  <2>1. DOMAIN m = 1..Len(m) /\ y \notin RRP!Members(m)
    BY <1>1, <1>4 DEF RRP!Members
  <2> QED BY <1>0, <1>1, <2>1
<1>5. m # << >> /\ nx[h] = m[1] /\ Injective(m)
  BY <1>0, <1>1, <1>2 DEF Injective
<1> QED BY <1>1, <1>3, <1>4, <1>5, MakeRing DEF m

\* Electing the next in line is a rotation.
LEMMA MoveSecond ==
    ASSUME NEW s \in Seq(Proc), Len(s) > 1
    PROVE  RRP!MoveToHead(s, 2) = RRP!Rotate(s)
<1>1. ASSUME NEW i \in 1..Len(s) PROVE RRP!MoveToHead(s, 2)[i] = RRP!Rotate(s)[i]
  <2>1. CASE i = 1
    BY <2>1 DEF RRP!MoveToHead, RRP!Rotate
  <2>2. CASE i > 1 /\ i < Len(s)
    BY <2>2 DEF RRP!MoveToHead, RRP!Rotate
  <2>3. CASE i = Len(s)
    BY <2>3 DEF RRP!MoveToHead, RRP!Rotate
  <2> QED BY <2>1, <2>2, <2>3
<1>2. /\ DOMAIN RRP!MoveToHead(s, 2) = 1..Len(s) /\ DOMAIN RRP!Rotate(s) = 1..Len(s)
      /\ RRP!MoveToHead(s, 2) = [i \in 1..Len(s) |-> RRP!MoveToHead(s, 2)[i]]
      /\ RRP!Rotate(s) = [i \in 1..Len(s) |-> RRP!Rotate(s)[i]]
  BY DEF RRP!MoveToHead, RRP!Rotate
<1> QED BY <1>1, <1>2

\* Relink takes s[k], behind the cursor on s[k - 1], out of its place, puts it
\* behind the head and makes it the head: three pointers change.
LEMMA RelinkRing ==
    ASSUME NEW s, NEW h, NEW nx \in [Proc -> Proc \cup {NONE}], RingAt(s, h, nx),
           NEW k \in 3..Len(s)
    PROVE  RingAt(RRP!MoveToHead(s, k), s[k],
                  [nx EXCEPT ![s[k - 1]] = nx[s[k]], ![s[k]] = nx[s[1]], ![s[1]] = s[k]])
<1> DEFINE m == RRP!MoveToHead(s, k)
           n == Len(s)
           c == k - 1
           nn == [nx EXCEPT ![s[c]] = nx[s[k]], ![s[k]] = nx[s[1]], ![s[1]] = s[k]]
<1>0. /\ s \in Seq(Proc) /\ n \in Nat /\ n > 2
      /\ \A i \in 1..n : s[i] \in Proc
      /\ \A i, j \in 1..n : s[i] = s[j] => i = j
      /\ \A i \in 1..n : nx[s[i]] = Succ(s, i)
      /\ \A y \in Proc : (\A i \in 1..n : s[i] # y) => nx[y] = NONE
      /\ RRP!Members(s) = {s[i] : i \in 1..n}
  BY RingParts
<1>k. k \in 3..n /\ c \in 2..n /\ k = c + 1 /\ c < n /\ k \in 2..n
  BY <1>0
<1>1. /\ m \in Seq(Proc) /\ Len(m) = n
      /\ \A i, j \in 1..n : m[i] = m[j] => i = j
      /\ RRP!Members(m) = RRP!Members(s)
  BY <1>0, <1>k, RRP!MoveToHeadLemma, RRAssumption
<1>2. /\ m[1] = s[k]
      /\ \A i \in 2..c : m[i] = s[i]
      /\ \A i \in k..(n - 1) : m[i] = s[i + 1]
      /\ m[n] = s[1]
  <2>1. \A i \in 1..n : m[i] = CASE i = 1 -> s[k]
                                 [] i > 1 /\ i < k -> s[i]
                                 [] i >= k /\ i > 1 /\ i < n -> s[i + 1]
                                 [] OTHER -> s[1]
    BY DEF RRP!MoveToHead
  <2> HIDE DEF m, c
  <2>2. m[1] = s[k]
    BY <1>0, <2>1
  <2>3. ASSUME NEW i \in 2..c PROVE m[i] = s[i]
    <3>1. i \in 1..n /\ i # 1 /\ i > 1 /\ i < k
      BY <1>0, <1>k
    <3> QED BY <2>1, <3>1
  <2>4. ASSUME NEW i \in k..(n - 1) PROVE m[i] = s[i + 1]
    <3>1. i \in 1..n /\ i # 1 /\ i > 1 /\ ~(i < k) /\ i >= k /\ i < n
      BY <1>0, <1>k
    <3> QED BY <2>1, <3>1
  <2>5. m[n] = s[1]
    <3>1. n \in 1..n /\ n # 1 /\ ~(n < k) /\ ~(n < n)
      BY <1>0, <1>k
    <3> QED BY <2>1, <3>1
  <2> QED BY <2>2, <2>3, <2>4, <2>5
<1> HIDE DEF m
<1>3. /\ nn[s[1]] = s[k] /\ nn[s[k]] = s[2] /\ nn[s[c]] = Succ(s, k)
      /\ \A y \in Proc : y # s[1] /\ y # s[k] /\ y # s[c] => nn[y] = nx[y]
  <2> HIDE DEF c
  <2>1. /\ s[1] \in Proc /\ s[k] \in Proc /\ s[c] \in Proc
        /\ s[1] # s[k] /\ s[1] # s[c] /\ s[k] # s[c]
    BY <1>0, <1>k
  <2>2. nx[s[1]] = s[2] /\ nx[s[k]] = Succ(s, k)
    <3>1. 1 \in 1..n /\ k \in 1..n
      BY <1>0, <1>k
    <3> QED BY <1>0, <3>1 DEF Succ
  <2> QED BY <2>1, <2>2
<1> HIDE DEF nn, c
<1>4. ASSUME NEW i \in 1..n PROVE nn[m[i]] = Succ(m, i)
  <2>1. CASE i = 1
    <3>1. m[2] = s[2]
      BY <1>2, <1>k
    <3> QED BY <1>0, <1>1, <1>2, <1>3, <2>1, <3>1 DEF Succ
  <2>2. CASE i \in 2..c /\ i < c
    <3>1. /\ m[i] = s[i] /\ m[i + 1] = s[i + 1] /\ i + 1 \in 2..c
          /\ s[i] \in Proc /\ s[i] # s[1] /\ s[i] # s[k] /\ s[i] # s[c]
      BY <1>0, <1>2, <1>k, <2>2
    <3>2. nx[s[i]] = s[i + 1]
      BY <1>0, <1>k, <2>2 DEF Succ
    <3>3. Succ(m, i) = m[i + 1]
      BY <1>0, <1>1, <1>k, <2>2 DEF Succ
    <3> QED BY <1>3, <3>1, <3>2, <3>3
  <2>3. CASE i = c
    <3>1. m[i] = s[c] /\ nn[m[i]] = Succ(s, k)
      BY <1>2, <1>3, <1>k, <2>3
    <3>2. Succ(m, i) = m[k]
      BY <1>0, <1>1, <1>k, <2>3 DEF Succ
    <3>3. m[k] = Succ(s, k)
      <4>1. CASE k < n
        BY <1>0, <1>2, <1>k, <4>1 DEF Succ
      <4>2. CASE k = n
        BY <1>0, <1>2, <1>k, <4>2 DEF Succ
      <4> QED BY <1>k, <4>1, <4>2
    <3> QED BY <3>1, <3>2, <3>3
  <2>4. CASE i \in k..(n - 1)
    <3>1. /\ m[i] = s[i + 1] /\ i + 1 \in 1..n /\ s[i + 1] \in Proc
          /\ s[i + 1] # s[1] /\ s[i + 1] # s[k] /\ s[i + 1] # s[c]
      BY <1>0, <1>2, <1>k, <2>4
    <3>2. nn[m[i]] = Succ(s, i + 1)
      BY <1>0, <1>3, <3>1
    <3>3. Succ(m, i) = m[i + 1]
      BY <1>0, <1>1, <1>k, <2>4 DEF Succ
    <3>4. m[i + 1] = Succ(s, i + 1)
      <4>1. CASE i + 1 < n
        <5>1. i + 1 \in k..(n - 1)
          BY <1>0, <1>k, <2>4, <4>1
        <5> QED BY <1>2, <4>1, <5>1 DEF Succ
      <4>2. CASE i + 1 = n
        <5>1. Succ(s, n) = s[1]
          BY <1>0 DEF Succ
        <5> QED BY <1>2, <4>2, <5>1
      <4> QED BY <3>1, <4>1, <4>2
    <3> QED BY <3>2, <3>3, <3>4
  <2>5. CASE i = n
    BY <1>0, <1>1, <1>2, <1>3, <2>5 DEF Succ
  <2>6. i = 1 \/ (i \in 2..c /\ i < c) \/ i = c \/ i \in k..(n - 1) \/ i = n
    BY <1>0, <1>k
  <2> QED BY <2>1, <2>2, <2>3, <2>4, <2>5, <2>6
<1>5. ASSUME NEW y \in Proc, \A i \in 1..Len(m) : m[i] # y PROVE nn[y] = NONE
  <2>1. DOMAIN m = 1..Len(m) /\ y \notin RRP!Members(m)
    BY <1>1, <1>5 DEF RRP!Members
  <2>2. \A i \in 1..n : s[i] # y
    BY <1>0, <1>1, <2>1
  <2>3. y # s[1] /\ y # s[k] /\ y # s[c]
    BY <1>0, <1>k, <2>2
  <2> QED BY <1>0, <1>3, <2>2, <2>3
<1>6. m # << >> /\ s[k] = m[1] /\ Injective(m)
  BY <1>0, <1>1, <1>2 DEF Injective
<1> QED BY <1>1, <1>4, <1>5, <1>6, MakeRing DEF m, nn, c

-----------------------------------------------------------------------------

\* Passed and Ticks as functions of the ring, the cursor and the ticks.
PassedOf(s, q) == IF q = NONE THEN {}
                  ELSE LET c == CHOOSE k \in DOMAIN s : s[k] = q IN {s[k] : k \in 2..c}
TicksOf(P, t) == [x \in Proc |-> IF x \in P THEN t[x] + 1 ELSE t[x]]

\* The ticks as the abstract queue sees them, as a function of the ring.
LEMMA TicksAreTicksOf ==
    /\ Passed = PassedOf(Ring, p) /\ Passed' = PassedOf(Ring', p')
    /\ Ticks = TicksOf(PassedOf(Ring, p), sleep_ticks)
    /\ Ticks' = TicksOf(PassedOf(Ring', p'), sleep_ticks')
  BY DEF Passed, PassedOf, Ticks, TicksOf

\* Outside the loop no tick is to be given back.
LEMMA NoCursor ==
    ASSUME NEW s, NEW t, t = [x \in Proc |-> t[x]]
    PROVE  TicksOf(PassedOf(s, NONE), t) = t
<1>1. PassedOf(s, NONE) = {}
  BY DEF PassedOf
<1>2. TicksOf({}, t) = [x \in Proc |-> t[x]]
  BY DEF TicksOf
<1> QED BY <1>1, <1>2

\* With the cursor on s[c], the sleepers at 2..c have been passed.
LEMMA PassedTo ==
    ASSUME NEW s \in Seq(Proc), Injective(s), NEW c \in 1..Len(s)
    PROVE  PassedOf(s, s[c]) = {s[k] : k \in 2..c}
<1>1. s[c] # NONE /\ DOMAIN s = 1..Len(s) /\ c \in DOMAIN s
  BY RRAssumption
<1>2. (CHOOSE k \in DOMAIN s : s[k] = s[c]) = c
  BY <1>1 DEF Injective
<1> QED BY <1>1, <1>2 DEF PassedOf

\* A change of the pointers that leaves a ring spelling m.
LEMMA NewRing ==
    ASSUME NEW m, RingAt(m, processes', next')
    PROVE  Ring' = m /\ RingAt(Ring', processes', next')
<1>1. Ring' = RingOf(processes', next')
  BY RingIsRingOf
<1>2. RingOf(processes', next') = m
  BY RingIs
<1> QED BY <1>1, <1>2

\* A step that leaves head and pointers alone leaves the ring.
LEMMA SameRing ==
    ASSUME UNCHANGED <<processes, next>>
    PROVE  Ring' = Ring /\ Nodes' = Nodes
  BY RingIsRingOf

\* The invariant is preserved when the new ring spells m and the rest is right.
LEMMA KeepsInv ==
    ASSUME NEW m, RingAt(m, processes', next'),
           next' \in [Proc -> Proc \cup {NONE}],
           sleep_ticks' \in [Proc -> 0..MaxSleep],
           added' \subseteq Proc,
           RRP!Members(m) \subseteq added',
           elected' # NONE => processes' # NONE /\ elected' = processes',
           p' # NONE => \E c \in 1..Len(m) : /\ p' = m[c]
                                             /\ \A k \in 2..c : sleep_ticks'[m[k]] < MaxSleep
    PROVE  RingInv' /\ Ring' = m
<1>1. Ring' = m /\ RingAt(Ring', processes', next')
  BY NewRing
<1>2. Nodes' \subseteq added'
  <2>1. Nodes' = NodesOf(next')
    BY RingIsRingOf
  <2>2. NodesOf(next') = {m[i] : i \in 1..Len(m)} /\ DOMAIN m = 1..Len(m)
    BY DEF RingAt
  <2> QED BY <2>1, <2>2 DEF RRP!Members
<1> QED BY <1>1, <1>2 DEF RingInv, CursorAt

\* Every queued process has been added.
LEMMA QueuedAdded ==
    ASSUME RingInv
    PROVE  RRP!Members(Ring) \subseteq added
<1>1. RRP!Members(Ring) = {Ring[i] : i \in 1..Len(Ring)}
  BY RingParts DEF RingInv
<1>2. Nodes = {Ring[i] : i \in 1..Len(Ring)}
  BY RingIsRingOf DEF RingInv, RingAt
<1> QED BY <1>1, <1>2 DEF RingInv

\* sched_robin_add adds to the abstract queue.
LEMMA AddStep ==
    ASSUME RingInv, NEW x \in Proc, sched_robin_add(x)
    PROVE  RingInv' /\ RRP!sched_add(x)
<1> DEFINE s == Ring
           m == RRP!InsertNext(s, x)
<1>0. /\ RingAt(s, processes, next) /\ next \in [Proc -> Proc \cup {NONE}]
      /\ sleep_ticks \in [Proc -> 0..MaxSleep] /\ added \subseteq Proc
      /\ elected # NONE => processes # NONE /\ elected = processes
  BY DEF RingInv
<1>1. /\ p = NONE /\ p' = NONE /\ x \notin added /\ added' = added \cup {x}
      /\ UNCHANGED <<sleep_ticks, elected>> /\ (added = {} \/ elected # NONE)
  BY DEF sched_robin_add
<1>2. RRP!Members(s) \subseteq added
  BY QueuedAdded
<1>3. next[x] = NONE
  <2>1. x \notin RRP!Members(s)
    BY <1>1, <1>2
  <2> QED BY <1>0, <2>1, RingParts
<1>4. /\ RingAt(m, processes', next')
      /\ next' \in [Proc -> Proc \cup {NONE}]
      /\ elected' # NONE => processes' # NONE /\ elected' = processes'
  <2>1. CASE processes = NONE
    <3>1. s = << >>
      BY <1>0, <2>1, RingParts
    <3>2. next' = [next EXCEPT ![x] = x] /\ processes' = x
      BY <2>1 DEF sched_robin_add
    <3>3. RingAt(m, x, [next EXCEPT ![x] = x])
      BY <1>0, <3>1, AddFirst
    <3> QED BY <1>0, <1>1, <2>1, <3>2, <3>3
  <2>2. CASE processes # NONE
    <3>1. s # << >>
      BY <1>0, <2>2, RingParts
    <3>2. next' = [next EXCEPT ![processes] = x, ![x] = next[processes]] /\ processes' = processes
      BY <2>2 DEF sched_robin_add
    <3>3. RingAt(m, processes, [next EXCEPT ![processes] = x, ![x] = next[processes]])
      BY <1>0, <1>3, <3>1, AddBehind
    <3>4. next[processes] \in Proc \cup {NONE}
      <4>1. processes \in Proc
        BY <1>0, <3>1, RingParts
      <4> QED BY <1>0, <4>1
    <3> QED BY <1>0, <1>1, <3>2, <3>3, <3>4
  <2> QED BY <2>1, <2>2
<1>5. RRP!Members(m) = RRP!Members(s) \cup {x}
  <2>1. /\ s \in Seq(Proc) /\ x \notin RRP!Members(s)
        /\ \A i, j \in 1..Len(s) : s[i] = s[j] => i = j
    BY <1>0, <1>1, <1>2, RingParts
  <2> HIDE DEF s
  <2> QED BY <2>1, RRP!InsertNextLemma, RRAssumption
<1>6. RingInv' /\ Ring' = m
  <2>1. added' \subseteq Proc /\ RRP!Members(m) \subseteq added'
    BY <1>0, <1>1, <1>2, <1>5
  <2>2. sleep_ticks' \in [Proc -> 0..MaxSleep]
    BY <1>0, <1>1
  <2> HIDE DEF m
  <2> QED BY <1>1, <1>4, <2>1, <2>2, KeepsInv
<1>7. Ticks' = Ticks
  BY <1>0, <1>1, NoCursor, TicksAreTicksOf
<1> QED BY <1>1, <1>6, <1>7 DEF RRP!sched_add

\* sched_robin_exit removes from the abstract queue.
LEMMA ExitStep ==
    ASSUME RingInv, NEW x \in Proc, sched_robin_exit(x)
    PROVE  RingInv' /\ RRP!sched_exit
<1> DEFINE s == Ring
           n == Len(s)
           m == RRP!RemoveAt(s, 1)
<1>0. /\ RingAt(s, processes, next) /\ next \in [Proc -> Proc \cup {NONE}]
      /\ sleep_ticks \in [Proc -> 0..MaxSleep] /\ added \subseteq Proc
      /\ elected # NONE => processes # NONE /\ elected = processes
  BY DEF RingInv
<1>1. /\ p = NONE /\ p' = NONE /\ x = elected /\ elected # NONE /\ elected' = NONE
      /\ UNCHANGED <<sleep_ticks, added>>
  BY DEF sched_robin_exit
<1>2. /\ s \in Seq(Proc) /\ n \in Nat /\ n > 0 /\ processes = s[1] /\ x = s[1]
      /\ \A i \in 1..n : s[i] \in Proc
      /\ \A i, j \in 1..n : s[i] = s[j] => i = j
      /\ \A i \in 1..n : next[s[i]] = Succ(s, i)
      /\ \A y \in Proc : (\A i \in 1..n : s[i] # y) => next[y] = NONE
      /\ \A y \in Proc : next[y] # NONE => \E i \in 1..n : s[i] = y
      /\ RRP!Members(s) = {s[i] : i \in 1..n}
  BY <1>0, <1>1, RingParts
<1>3. 1 \in 1..n /\ n \in 1..n /\ next[processes] = Succ(s, 1)
  BY <1>2
<1>4. /\ m \in Seq(Proc) /\ Len(m) = n - 1
      /\ RRP!Members(m) = RRP!Members(s) \ {s[1]}
  <2> HIDE DEF s
  <2> QED BY <1>2, <1>3, RRP!RemoveAtLemma, RRAssumption
<1>5. RingAt(m, processes', next') /\ next' \in [Proc -> Proc \cup {NONE}]
  <2>1. CASE n = 1
    <3>1. Succ(s, 1) = s[1]
      BY <2>1 DEF Succ
    <3>2. next' = [next EXCEPT ![s[1]] = NONE] /\ processes' = NONE
      BY <1>2, <1>3, <3>1 DEF sched_robin_exit
    <3>3. m = << >> /\ Injective(m)
      BY <1>4, <2>1 DEF Injective
    <3>4. \A y \in Proc : next'[y] = NONE
      BY <1>0, <1>2, <2>1, <3>2
    <3> HIDE DEF m, s
    <3>5. RingAt(m, processes', next')
      <4>1. Len(m) = 0
        BY <3>3
      <4>2. \A i \in 1..Len(m) : next'[m[i]] = Succ(m, i)
        BY <4>1
      <4>3. processes' = IF m = << >> THEN NONE ELSE m[1]
        BY <3>2, <3>3
      <4> QED BY <1>4, <3>3, <3>4, <4>2, <4>3, MakeRing
    <3> QED BY <1>0, <3>2, <3>5
  <2>2. CASE n > 1
    <3>1. Succ(s, 1) = s[2] /\ s[2] # s[1]
      BY <1>2, <2>2 DEF Succ
    <3>2. Predecessor(x) = s[n]
      <4>1. s[n] \in Nodes /\ next[s[n]] = x
        <5>1. Succ(s, n) = s[1] /\ s[n] \in Proc /\ s[1] \in Proc
          BY <1>2 DEF Succ
        <5> QED BY <1>2, <1>3, <5>1, RRAssumption DEF Nodes
      <4>2. ASSUME NEW y \in Nodes, next[y] = x PROVE y = s[n]
        <5>1. PICK i \in 1..n : s[i] = y
          BY <1>2 DEF Nodes
        <5>2. Succ(s, i) = s[1]
          BY <1>2, <4>2, <5>1
        <5>3. CASE i < n
          <6>1. i + 1 \in 1..n /\ i + 1 # 1 /\ s[i + 1] = s[1]
            BY <1>2, <5>2, <5>3 DEF Succ
          <6> QED BY <1>2, <1>3, <6>1
        <5> QED BY <5>1, <5>3
      <4> HIDE DEF s
      <4> QED BY <4>1, <4>2 DEF Predecessor
    <3>3. next' = [next EXCEPT ![s[n]] = next[s[1]], ![s[1]] = NONE] /\ processes' = s[n]
      BY <1>2, <1>3, <3>1, <3>2 DEF sched_robin_exit
    <3>4. RingAt(m, s[n], [next EXCEPT ![s[n]] = next[s[1]], ![s[1]] = NONE])
      BY <1>0, <2>2, RemoveHead
    <3>5. next[s[1]] \in Proc \cup {NONE}
      BY <1>0, <1>2, <1>3
    <3> HIDE DEF m, s
    <3> QED BY <1>0, <3>3, <3>4, <3>5
  <2>3. n = 1 \/ n > 1
    <3>1. n \in Nat /\ n > 0
      BY <1>2
    <3> HIDE DEF n
    <3> QED BY <3>1
  <2> QED BY <2>1, <2>2, <2>3
<1>6. RRP!Members(s) \subseteq added
  BY QueuedAdded
<1>7. RingInv' /\ Ring' = m
  <2>1. added' \subseteq Proc /\ RRP!Members(m) \subseteq added'
    BY <1>0, <1>1, <1>4, <1>6
  <2>2. sleep_ticks' \in [Proc -> 0..MaxSleep]
    BY <1>0, <1>1
  <2> HIDE DEF m
  <2> QED BY <1>1, <1>5, <2>1, <2>2, KeepsInv
<1>8. Ticks' = Ticks
  BY <1>0, <1>1, NoCursor, TicksAreTicksOf
<1>9. 1 \in DOMAIN Ring /\ Ring[1] = elected
  BY <1>1, <1>2, <1>3
<1> HIDE DEF s
<1> QED BY <1>1, <1>7, <1>8, <1>9 DEF RRP!sched_exit, s

\* Going to sleep is the same on both.
LEMMA SetSleepStep ==
    ASSUME RingInv, NEW k \in 1..MaxSleep, set_sleep(k)
    PROVE  RingInv' /\ RRP!set_sleep(k)
<1>0. /\ RingAt(Ring, processes, next) /\ next \in [Proc -> Proc \cup {NONE}]
      /\ sleep_ticks \in [Proc -> 0..MaxSleep] /\ added \subseteq Proc
      /\ elected # NONE => processes # NONE /\ elected = processes
  BY DEF RingInv
<1>1. /\ p = NONE /\ p' = NONE /\ elected # NONE
      /\ sleep_ticks' = [sleep_ticks EXCEPT ![elected] = k]
      /\ UNCHANGED <<processes, next, elected, added>>
  BY DEF set_sleep
<1>2. Ring' = Ring
  BY <1>1, SameRing
<1>3. k \in 0..MaxSleep /\ sleep_ticks' \in [Proc -> 0..MaxSleep]
  <2>1. k \in 0..MaxSleep
    BY RRAssumption
  <2> QED BY <1>0, <1>1, <2>1
<1>4. RRP!Members(Ring) \subseteq added
  BY QueuedAdded
<1>5. RingInv'
  BY <1>0, <1>1, <1>3, <1>4, KeepsInv
<1>6. Ticks = sleep_ticks /\ Ticks' = sleep_ticks'
  BY <1>0, <1>1, <1>3, NoCursor, TicksAreTicksOf
<1> QED BY <1>1, <1>2, <1>5, <1>6 DEF RRP!set_sleep

\* Entering sched_robin_next is not seen by the abstract queue.
LEMMA EnterStep ==
    ASSUME RingInv, sched_robin_next_enter
    PROVE  RingInv' /\ UNCHANGED RRP!rrVars /\ ~PassDone
<1>0. /\ RingAt(Ring, processes, next) /\ next \in [Proc -> Proc \cup {NONE}]
      /\ sleep_ticks \in [Proc -> 0..MaxSleep] /\ added \subseteq Proc
      /\ elected # NONE => processes # NONE /\ elected = processes
  BY DEF RingInv
<1>1. /\ p = NONE /\ p' = processes /\ processes # NONE
      /\ UNCHANGED <<processes, next, sleep_ticks, elected, added>>
  BY DEF sched_robin_next_enter
<1>2. Ring' = Ring
  BY <1>1, SameRing
<1>3. Ring \in Seq(Proc) /\ Injective(Ring) /\ 1 \in 1..Len(Ring) /\ p' = Ring[1]
  BY <1>0, <1>1, RingParts
<1>4. RRP!Members(Ring) \subseteq added
  BY QueuedAdded
<1>5. RingInv'
  <2>1. \E c \in 1..Len(Ring) : /\ p' = Ring[c]
                                /\ \A k \in 2..c : sleep_ticks'[Ring[k]] < MaxSleep
    <3>1. \A k \in 2..1 : sleep_ticks'[Ring[k]] < MaxSleep
      OBVIOUS
    <3> QED BY <1>3, <3>1
  <2> QED BY <1>0, <1>1, <1>4, <2>1, KeepsInv
<1>6. Ticks = sleep_ticks
  BY <1>0, <1>1, NoCursor, TicksAreTicksOf
<1>7. Ticks' = sleep_ticks
  <2>1. PassedOf(Ring, Ring[1]) = {Ring[k] : k \in 2..1}
    BY <1>3, PassedTo
  <2>2. PassedOf(Ring', p') = {}
    BY <1>2, <1>3, <2>1
  <2>3. TicksOf({}, sleep_ticks) = sleep_ticks
    BY <1>0 DEF TicksOf
  <2> QED BY <1>1, <2>2, <2>3, TicksAreTicksOf
<1> QED BY <1>1, <1>2, <1>5, <1>6, <1>7 DEF RRP!rrVars, PassDone

\* The state of the loop: the cursor, what it passed, and the ticks the abstract
\* queue sees.
LEMMA CursorFacts ==
    ASSUME RingInv, p # NONE
    PROVE  \E c \in 1..Len(Ring) :
              /\ p = Ring[c]
              /\ next[p] = Succ(Ring, c)
              /\ \A k \in 2..c : sleep_ticks[Ring[k]] < MaxSleep
              /\ Passed = {Ring[k] : k \in 2..c}
              /\ Ticks \in [Proc -> 0..MaxSleep]
              /\ \A x \in Proc : Ticks[x] = IF \E k \in 2..c : Ring[k] = x
                                            THEN sleep_ticks[x] + 1 ELSE sleep_ticks[x]
<1>0. /\ RingAt(Ring, processes, next) /\ sleep_ticks \in [Proc -> 0..MaxSleep]
  BY DEF RingInv
<1>1. /\ Ring \in Seq(Proc) /\ Len(Ring) \in Nat /\ Injective(Ring)
      /\ \A i \in 1..Len(Ring) : Ring[i] \in Proc
      /\ \A i \in 1..Len(Ring) : next[Ring[i]] = Succ(Ring, i)
  BY <1>0, RingParts
<1>2. PICK c \in 1..Len(Ring) : p = Ring[c] /\ \A k \in 2..c : sleep_ticks[Ring[k]] < MaxSleep
  BY DEF RingInv, CursorAt
<1>3. Passed = {Ring[k] : k \in 2..c}
  BY <1>1, <1>2, PassedTo, TicksAreTicksOf
<1>4. ASSUME NEW x \in Proc
      PROVE  /\ Ticks[x] = IF \E k \in 2..c : Ring[k] = x THEN sleep_ticks[x] + 1 ELSE sleep_ticks[x]
             /\ Ticks[x] \in 0..MaxSleep
  <2>1. x \in Passed <=> \E k \in 2..c : Ring[k] = x
    BY <1>3
  <2>2. Ticks[x] = IF x \in Passed THEN sleep_ticks[x] + 1 ELSE sleep_ticks[x]
    BY DEF Ticks
  <2>3. sleep_ticks[x] \in 0..MaxSleep /\ (x \in Passed => sleep_ticks[x] < MaxSleep)
    BY <1>0, <1>2, <2>1
  <2> QED BY <2>1, <2>2, <2>3, RRAssumption
<1>5. Ticks \in [Proc -> 0..MaxSleep]
  BY <1>4 DEF Ticks
<1> QED BY <1>1, <1>2, <1>3, <1>4, <1>5

\* In the loop or not, the ticks the abstract queue sees are in range.
LEMMA AbstractInv ==
    ASSUME RingInv
    PROVE  RRP!RRInv
<1>1. /\ Ring \in Seq(Proc) /\ RRP!Members(Ring) = {Ring[i] : i \in 1..Len(Ring)}
      /\ \A i, j \in 1..Len(Ring) : Ring[i] = Ring[j] => i = j
      /\ (Ring = << >>) <=> (processes = NONE)
      /\ Ring # << >> => processes = Ring[1] /\ processes \in Proc
  BY RingParts DEF RingInv
<1>2. Ticks \in [Proc -> 0..MaxSleep]
  <2>1. CASE p = NONE
    BY <2>1, NoCursor, TicksAreTicksOf DEF RingInv
  <2>2. CASE p # NONE
    BY <2>2, CursorFacts
  <2> QED BY <2>1, <2>2
<1>3. RRP!Members(Ring) \subseteq added /\ added \subseteq Proc
  BY QueuedAdded DEF RingInv
<1>4. elected \in Proc \cup {NONE} /\ (elected # NONE => Ring # << >> /\ elected = Ring[1])
  BY <1>1 DEF RingInv
<1> QED BY <1>1, <1>2, <1>3, <1>4 DEF RRP!RRInv, RRP!TypeOK, RRP!RingSound

\* Finishing a pass takes the ticks of the passed sleepers for good.
LEMMA TicksTaken ==
    ASSUME NEW s, NEW c \in Nat, NEW t \in [Proc -> 0..MaxSleep], NEW T \in [Proc -> 0..MaxSleep],
           \A x \in Proc : T[x] = IF \E k \in 2..c : s[k] = x THEN t[x] + 1 ELSE t[x]
    PROVE  RRP!Pass(s, T, 2..c) = t
<1>1. ASSUME NEW x \in Proc PROVE RRP!Pass(s, T, 2..c)[x] = t[x]
  <2>1. t[x] \in Int
    BY RRAssumption
  <2>2. RRP!Pass(s, T, 2..c)[x] = IF \E i \in 2..c : s[i] = x THEN T[x] - 1 ELSE T[x]
    BY DEF RRP!Pass
  <2> QED BY <2>1, <2>2
<1>2. RRP!Pass(s, T, 2..c) = [x \in Proc |-> RRP!Pass(s, T, 2..c)[x]]
  BY DEF RRP!Pass
<1> QED BY <1>1, <1>2

\* The loop passes a sleeper: the abstract queue does not move until the cursor
\* is back at the head, then everybody slept and the queue rotates.
LEMMA SleeperStep ==
    ASSUME RingInv, scan_sleeper
    PROVE  /\ RingInv'
           /\ RRP!Members(Ring') = RRP!Members(Ring)
           /\ IF PassDone THEN RRP!sched_next ELSE UNCHANGED RRP!rrVars
<1> DEFINE s == Ring
           n == Len(s)
           t == sleep_ticks
<1>0. /\ RingAt(s, processes, next) /\ next \in [Proc -> Proc \cup {NONE}]
      /\ t \in [Proc -> 0..MaxSleep] /\ added \subseteq Proc
      /\ elected # NONE => processes # NONE /\ elected = processes
  BY DEF RingInv
<1>1. /\ p # NONE /\ t[next[p]] > 0 /\ UNCHANGED <<next, added>>
      /\ t' = [t EXCEPT ![next[p]] = @ - 1]
  BY DEF scan_sleeper
<1>2. PICK c \in 1..n :
              /\ p = s[c]
              /\ next[p] = Succ(s, c)
              /\ \A k \in 2..c : t[s[k]] < MaxSleep
              /\ Passed = {s[k] : k \in 2..c}
              /\ Ticks \in [Proc -> 0..MaxSleep]
              /\ \A x \in Proc : Ticks[x] = IF \E k \in 2..c : s[k] = x THEN t[x] + 1 ELSE t[x]
  BY <1>1, CursorFacts
<1>3. /\ s \in Seq(Proc) /\ n \in Nat /\ n > 0 /\ processes = s[1] /\ s # << >> /\ Injective(s)
      /\ \A i \in 1..n : s[i] \in Proc
      /\ \A i, j \in 1..n : s[i] = s[j] => i = j
      /\ processes # NONE
  BY <1>0, <1>2, RingParts
<1>4. Succ(s, c) \in Proc /\ 1 \in 1..n
  BY <1>2, <1>3 DEF Succ
<1>5. t' \in [Proc -> 0..MaxSleep]
  <2>1. t[next[p]] - 1 \in 0..MaxSleep
    BY <1>0, <1>1, <1>2, <1>4, RRAssumption
  <2> QED BY <1>0, <1>1, <2>1
<1>6. RRP!Members(s) \subseteq added
  BY QueuedAdded
<1>7. CASE next[p] # processes
  <2> DEFINE d == c + 1
  <2>1. c < n /\ d \in 1..n /\ next[p] = s[d] /\ d > c
    BY <1>2, <1>3, <1>7 DEF Succ
  <2> HIDE DEF d
  <2>2. p' = s[d] /\ UNCHANGED <<processes, elected>> /\ s[d] \in Proc /\ p' # NONE
    <3>1. p' = s[d] /\ UNCHANGED <<processes, elected>>
      BY <1>7, <2>1 DEF scan_sleeper
    <3>2. s[d] \in Proc
      BY <1>3, <2>1
    <3> QED BY <3>1, <3>2, RRAssumption
  <2>3. Ring' = Ring
    BY <1>1, <2>2, SameRing
  <2>4. \A k \in 2..d : t'[s[k]] < MaxSleep
    <3> SUFFICES ASSUME NEW k \in 2..d PROVE t'[s[k]] < MaxSleep
      OBVIOUS
    <3>1. k \in 1..n /\ s[k] \in Proc /\ t[s[k]] \in 0..MaxSleep
      BY <1>0, <1>3, <2>1
    <3>2. CASE k = d
      BY <1>0, <1>1, <2>1, <3>1, <3>2, RRAssumption
    <3>3. CASE k # d
      <4>1. k \in 2..c
        BY <2>1, <3>3 DEF d
      <4>2. s[k] # s[d]
        BY <1>3, <2>1, <3>1, <3>3
      <4> QED BY <1>0, <1>1, <1>2, <2>1, <3>1, <4>1, <4>2
    <3> QED BY <3>2, <3>3
  <2>5. RingInv'
    <3>1. \E e \in 1..Len(s) : /\ p' = s[e]
                               /\ \A k \in 2..e : sleep_ticks'[s[k]] < MaxSleep
      BY <2>1, <2>2, <2>4
    <3> HIDE DEF s, t
    <3>2. RingAt(s, processes', next')
      BY <1>0, <1>1, <2>2
    <3> QED BY <1>0, <1>1, <1>5, <1>6, <2>2, <3>1, <3>2, KeepsInv DEF t
  <2>6. Ticks' = Ticks
    <3>1. PassedOf(s, s[d]) = {s[k] : k \in 2..d}
      <4> HIDE DEF s
      <4> QED BY <1>3, <2>1, PassedTo
    <3>2. Ticks' = TicksOf({s[k] : k \in 2..d}, t')
      BY <2>2, <2>3, <3>1, TicksAreTicksOf
    <3>3. ASSUME NEW x \in Proc PROVE Ticks'[x] = Ticks[x]
      <4>0. t[x] \in Int /\ t[x] \in 0..MaxSleep
        BY <1>0, RRAssumption
      <4>1. Ticks'[x] = IF \E k \in 2..d : s[k] = x THEN t'[x] + 1 ELSE t'[x]
        BY <3>2 DEF TicksOf
      <4>2. CASE x = s[d]
        <5>1. t'[x] = t[x] - 1
          BY <1>0, <1>1, <2>1, <4>2
        <5>2. d \in 2..d
          BY <2>1 DEF d
        <5>3. ~ \E k \in 2..c : s[k] = x
          <6> SUFFICES ASSUME NEW k \in 2..c, s[k] = s[d] PROVE FALSE
            BY <4>2
          <6>1. k \in 1..n /\ k # d
            BY <1>2, <1>3, <2>1
          <6> QED BY <1>3, <2>1, <6>1
        <5>4. Ticks[x] = t[x]
          BY <1>2, <5>3
        <5>5. Ticks'[x] = t'[x] + 1
          BY <4>1, <4>2, <5>2
        <5> QED BY <4>0, <5>1, <5>4, <5>5
      <4>3. CASE x # s[d]
        <5>1. t'[x] = t[x]
          BY <1>0, <1>1, <2>1, <4>3
        <5>2. (\E k \in 2..d : s[k] = x) <=> (\E k \in 2..c : s[k] = x)
          <6>1. \A k \in 2..d : k = d \/ k \in 2..c
            BY <1>2 DEF d
          <6>2. \A k \in 2..c : k \in 2..d
            BY <1>2, <2>1 DEF d
          <6> QED BY <4>3, <6>1, <6>2
        <5> QED BY <1>2, <4>1, <5>1, <5>2
      <4> QED BY <4>2, <4>3
    <3>4. Ticks' = [x \in Proc |-> Ticks'[x]] /\ Ticks = [x \in Proc |-> Ticks[x]]
      BY <3>2, TicksAreTicksOf DEF TicksOf
    <3> QED BY <3>3, <3>4
  <2> QED BY <1>1, <2>2, <2>3, <2>5, <2>6 DEF RRP!rrVars, PassDone
<1>8. CASE next[p] = processes
  <2>1. c = n
    <3>1. CASE c < n
      <4>1. c + 1 \in 1..n /\ c + 1 # 1 /\ s[c + 1] = s[1]
        BY <1>2, <1>3, <1>8, <3>1 DEF Succ
      <4> QED BY <1>3, <1>4, <4>1
    <3> QED BY <1>2, <1>3, <3>1
  <2>2. p' = NONE /\ processes' = next[processes] /\ elected' = processes'
    BY <1>8 DEF scan_sleeper
  <2> DEFINE m == RRP!Rotate(s)
  <2>3. RingAt(m, processes', next')
    <3> HIDE DEF s
    <3> QED BY <1>0, <1>1, <1>3, <2>2, RotateRing
  <2>4. /\ m \in Seq(Proc) /\ Len(m) = n /\ RRP!Members(m) = RRP!Members(s)
    <3> HIDE DEF s
    <3> QED BY <1>3, RRP!RotateLemma, RRAssumption
  <2>5. m # << >> /\ processes' = m[1] /\ processes' # NONE
    <3> HIDE DEF m
    <3> QED BY <1>3, <2>3, <2>4, RingParts
  <2>6. RingInv' /\ Ring' = m
    <3> HIDE DEF m
    <3> QED BY <1>0, <1>1, <1>5, <1>6, <2>2, <2>3, <2>4, <2>5, KeepsInv
  <2>7. Ticks' = t'
    BY <1>5, <2>2, NoCursor, TicksAreTicksOf
  <2>8. Ticks' = RRP!Pass(s, Ticks, 1..n)
    <3>1. ASSUME NEW x \in Proc PROVE RRP!Pass(s, Ticks, 1..n)[x] = t'[x]
      <4>0. t[x] \in Int
        BY <1>0, RRAssumption
      <4>1. RRP!Pass(s, Ticks, 1..n)[x] = IF \E i \in 1..n : s[i] = x THEN Ticks[x] - 1 ELSE Ticks[x]
        BY <1>2 DEF RRP!Pass
      <4>2. CASE x = s[1]
        <5>1. t'[x] = t[x] - 1
          BY <1>0, <1>1, <1>3, <1>8, <4>2
        <5>2. ~ \E k \in 2..c : s[k] = x
          BY <1>2, <1>3, <1>4, <4>2
        <5> QED BY <1>2, <1>4, <4>0, <4>1, <4>2, <5>1, <5>2
      <4>3. CASE x # s[1]
        <5>1. t'[x] = t[x]
          BY <1>0, <1>1, <1>3, <1>8, <4>3
        <5>2. (\E i \in 1..n : s[i] = x) <=> (\E k \in 2..c : s[k] = x)
          <6>1. \A i \in 1..n : i = 1 \/ i \in 2..c
            BY <1>3, <2>1
          <6>2. \A k \in 2..c : k \in 1..n
            BY <1>3, <2>1
          <6> QED BY <4>3, <6>1, <6>2
        <5> QED BY <1>2, <4>0, <4>1, <5>1, <5>2
      <4> QED BY <4>2, <4>3
    <3>2. RRP!Pass(s, Ticks, 1..n) = [x \in Proc |-> RRP!Pass(s, Ticks, 1..n)[x]]
      BY <1>2 DEF RRP!Pass
    <3> QED BY <1>5, <2>7, <3>1, <3>2
  <2>9. RRP!OthersAsleep(s, Ticks) /\ Ticks[s[1]] > 0
    <3>1. ASSUME NEW j \in 2..n PROVE Ticks[s[j]] > 0
      <4>1. s[j] \in Proc /\ t[s[j]] \in 0..MaxSleep /\ j \in 2..c
        BY <1>0, <1>3, <2>1
      <4>2. Ticks[s[j]] = t[s[j]] + 1
        BY <1>2, <4>1
      <4> QED BY <4>1, <4>2, RRAssumption
    <3>2. ~ \E k \in 2..c : s[k] = s[1]
      BY <1>2, <1>3, <1>4
    <3>3. Ticks[s[1]] = t[s[1]]
      BY <1>2, <1>3, <1>4, <3>2
    <3> QED BY <1>1, <1>3, <1>8, <3>1, <3>3 DEF RRP!OthersAsleep
  <2>10. RRP!NextFrom(Ring, Ticks)
    <3> HIDE DEF m
    <3> QED BY <2>6, <2>8, <2>9 DEF RRP!NextFrom, m
  <2> QED BY <1>1, <1>3, <2>2, <2>4, <2>5, <2>6, <2>10 DEF RRP!sched_next, PassDone
<1> QED BY <1>7, <1>8

\* The loop finds somebody ready: the abstract queue elects the same process.
LEMMA ReadyStep ==
    ASSUME RingInv, scan_ready
    PROVE  RingInv' /\ RRP!Members(Ring') = RRP!Members(Ring) /\ RRP!sched_next
<1> DEFINE s == Ring
           n == Len(s)
           t == sleep_ticks
<1>0. /\ RingAt(s, processes, next) /\ next \in [Proc -> Proc \cup {NONE}]
      /\ t \in [Proc -> 0..MaxSleep] /\ added \subseteq Proc
      /\ elected # NONE => processes # NONE /\ elected = processes
  BY DEF RingInv
<1>1. /\ p # NONE /\ t[next[p]] = 0 /\ UNCHANGED <<sleep_ticks, added>>
      /\ elected' = processes' /\ p' = NONE
  BY DEF scan_ready
<1>2. PICK c \in 1..n :
              /\ p = s[c]
              /\ next[p] = Succ(s, c)
              /\ Ticks \in [Proc -> 0..MaxSleep]
              /\ \A x \in Proc : Ticks[x] = IF \E k \in 2..c : s[k] = x THEN t[x] + 1 ELSE t[x]
  BY <1>1, CursorFacts
<1>3. /\ s \in Seq(Proc) /\ n \in Nat /\ n > 0 /\ processes = s[1] /\ s # << >> /\ Injective(s)
      /\ \A i \in 1..n : s[i] \in Proc
      /\ \A i, j \in 1..n : s[i] = s[j] => i = j
      /\ \A i \in 1..n : next[s[i]] = Succ(s, i)
      /\ processes # NONE
  BY <1>0, <1>2, RingParts
<1>4. RRP!Members(s) \subseteq added
  BY QueuedAdded
<1>5. Ticks' = t
  BY <1>0, <1>1, NoCursor, TicksAreTicksOf
<1>6. t = RRP!Pass(s, Ticks, 2..c)
  <2> HIDE DEF s, t
  <2> QED BY <1>0, <1>2, TicksTaken
<1>7. \A j \in 2..c : Ticks[s[j]] > 0
  <2> SUFFICES ASSUME NEW j \in 2..c PROVE Ticks[s[j]] > 0
    OBVIOUS
  <2>1. s[j] \in Proc /\ t[s[j]] \in 0..MaxSleep
    BY <1>0, <1>2, <1>3
  <2>2. Ticks[s[j]] = t[s[j]] + 1
    BY <1>2, <2>1
  <2> QED BY <2>1, <2>2, RRAssumption
\* What the three cases have in common.
<1>8. ASSUME NEW m, RingAt(m, processes', next'), next' \in [Proc -> Proc \cup {NONE}],
             m # << >>, RRP!Members(m) = RRP!Members(s),
             Ring' = m => RRP!NextFrom(Ring, Ticks)
      PROVE  RingInv' /\ RRP!Members(Ring') = RRP!Members(Ring) /\ RRP!sched_next
  <2>1. processes' = m[1] /\ processes' # NONE
    BY <1>8, RingParts
  <2>2. RingInv' /\ Ring' = m
    BY <1>0, <1>1, <1>4, <1>8, <2>1, KeepsInv
  <2> QED BY <1>1, <1>3, <1>8, <2>1, <2>2 DEF RRP!sched_next
<1>9. CASE next[p] = processes
  <2>1. c = n
    <3>1. CASE c < n
      <4>1. c + 1 \in 1..n /\ c + 1 # 1 /\ s[c + 1] = s[1] /\ 1 \in 1..n
        BY <1>2, <1>3, <1>9, <3>1 DEF Succ
      <4> QED BY <1>3, <4>1
    <3> QED BY <1>2, <1>3, <3>1
  <2>2. UNCHANGED <<processes, next>>
    BY <1>9 DEF scan_ready
  <2>3. Ticks[s[1]] = 0
    <3>1. 1 \in 1..n /\ s[1] \in Proc /\ ~ \E k \in 2..c : s[k] = s[1]
      BY <1>2, <1>3
    <3> QED BY <1>1, <1>2, <1>3, <1>9, <3>1
  <2>4. RRP!OthersAsleep(s, Ticks)
    BY <1>7, <2>1 DEF RRP!OthersAsleep
  <2>5. Ring' = s => RRP!NextFrom(Ring, Ticks)
    BY <1>5, <1>6, <2>1, <2>3, <2>4 DEF RRP!NextFrom
  <2> HIDE DEF s
  <2> QED BY <1>0, <1>3, <1>8, <2>2, <2>5
<1>10. CASE next[p] # processes
  <2> DEFINE k == c + 1
             m == RRP!MoveToHead(s, k)
  <2>1. c < n /\ k \in 2..n /\ next[p] = s[k] /\ c = k - 1
    BY <1>2, <1>3, <1>10 DEF Succ
  <2> HIDE DEF k
  <2>2. RRP!FirstReady(s, Ticks, k)
    <3>1. ~ \E j \in 2..c : s[j] = s[k]
      BY <1>2, <1>3, <2>1
    <3>2. Ticks[s[k]] = 0
      BY <1>1, <1>2, <1>3, <2>1, <3>1
    <3> QED BY <1>7, <2>1, <3>2 DEF RRP!FirstReady
  <2>3. m \in Seq(Proc) /\ Len(m) = n /\ RRP!Members(m) = RRP!Members(s)
    <3> HIDE DEF s
    <3> QED BY <1>3, <2>1, RRP!MoveToHeadLemma, RRAssumption
  <2>4. Ring' = m => RRP!NextFrom(Ring, Ticks)
    BY <1>5, <1>6, <2>1, <2>2 DEF RRP!NextFrom
  <2>5. RingAt(m, processes', next') /\ next' \in [Proc -> Proc \cup {NONE}]
    <3>1. next[processes] = s[2] /\ s[2] \in Proc
      <4>1. 1 < n /\ 1 \in 1..n /\ 2 \in 1..n
        BY <1>3, <2>1
      <4>2. Succ(s, 1) = s[2]
        BY <4>1 DEF Succ
      <4> QED BY <1>3, <4>1, <4>2
    <3>2. CASE next[p] = next[processes]
      <4>1. k = 2
        <5>1. 2 \in 1..n /\ k \in 1..n /\ s[k] = s[2]
          BY <1>3, <2>1, <3>1, <3>2
        <5> QED BY <1>3, <5>1
      <4>2. processes' = next[processes] /\ UNCHANGED next
        BY <1>10, <3>2 DEF scan_ready
      <4>3. m = RRP!Rotate(s)
        <5>1. Len(s) > 1
          BY <1>2, <2>1
        <5> HIDE DEF s
        <5> QED BY <1>3, <4>1, <5>1, MoveSecond
      <4> HIDE DEF s, m
      <4> QED BY <1>0, <1>3, <4>2, <4>3, RotateRing
    <3>3. CASE next[p] # next[processes]
      <4>1. k \in 3..n
        <5>1. k # 2
          BY <2>1, <3>1, <3>3
        <5> QED BY <1>3, <2>1, <5>1
      <4> DEFINE nn == [next EXCEPT ![s[k - 1]] = next[s[k]], ![s[k]] = next[s[1]], ![s[1]] = s[k]]
      <4>2. next' = nn
        BY <1>2, <1>3, <1>10, <2>1, <3>3 DEF scan_ready, Relink
      <4>3. processes' = s[k]
        <5>1. processes' = next'[s[1]]
          BY <1>3, <1>10, <3>3 DEF scan_ready
        <5>2. 1 \in 1..n /\ k \in 1..n /\ s[1] \in Proc /\ s[k] # s[1]
          BY <1>3, <2>1
        <5> QED BY <1>0, <4>2, <5>1, <5>2
      <4>4. RingAt(m, s[k], nn)
        BY <1>0, <4>1, RelinkRing
      <4>5. nn \in [Proc -> Proc \cup {NONE}]
        <5>1. s[k] \in Proc /\ next[s[k]] \in Proc \cup {NONE} /\ next[s[1]] \in Proc \cup {NONE}
          BY <1>0, <1>3, <2>1, <3>1
        <5> QED BY <1>0, <5>1
      <4> HIDE DEF s, m, nn
      <4> QED BY <4>2, <4>3, <4>4, <4>5
    <3> QED BY <3>2, <3>3
  <2>6. m # << >>
    <3> HIDE DEF m
    <3> QED BY <1>3, <2>3
  <2> HIDE DEF s, m
  <2> QED BY <1>8, <2>3, <2>4, <2>5, <2>6
<1> QED BY <1>9, <1>10

-----------------------------------------------------------------------------

\* Every step keeps the ring, and is a step of the abstract queue or none.
LEMMA RobinStep ==
    ASSUME RingInv, [Next]_vars
    PROVE  /\ RingInv'
           /\ RRP!Next \/ UNCHANGED RRP!rrVars
           /\ PassDone => RRP!sched_next
           /\ p # NONE => RRP!Members(Ring') = RRP!Members(Ring)
<1>1. ASSUME NEW x \in Proc, sched_robin_add(x)
      PROVE  RingInv' /\ RRP!sched_add(x) /\ p = NONE
  BY <1>1, AddStep DEF sched_robin_add
<1>2. ASSUME NEW x \in Proc, sched_robin_exit(x)
      PROVE  RingInv' /\ RRP!sched_exit /\ p = NONE
  BY <1>2, ExitStep DEF sched_robin_exit
<1>3. ASSUME sched_robin_next_enter
      PROVE  RingInv' /\ UNCHANGED RRP!rrVars /\ p = NONE
  BY <1>3, EnterStep DEF sched_robin_next_enter
<1>4. ASSUME NEW k \in 1..MaxSleep, set_sleep(k)
      PROVE  RingInv' /\ RRP!set_sleep(k) /\ p = NONE
  BY <1>4, SetSleepStep DEF set_sleep
<1>5. ASSUME UNCHANGED vars
      PROVE  RingInv' /\ UNCHANGED RRP!rrVars /\ ~PassDone /\ Ring' = Ring
  <2>1. Ring' = Ring /\ Nodes' = Nodes
    BY <1>5, SameRing DEF vars
  <2>2. Ticks' = Ticks
    BY <1>5, <2>1, TicksAreTicksOf DEF vars
  <2> QED BY <1>5, <2>1, <2>2 DEF vars, RingInv, CursorAt, RRP!rrVars, PassDone
<1>6. CASE \E x \in Proc : sched_robin_add(x) \/ sched_robin_exit(x)
  BY <1>1, <1>2, <1>6 DEF RRP!Next, PassDone
<1>7. CASE sched_robin_next
  BY <1>3, <1>7, SleeperStep, ReadyStep DEF sched_robin_next, RRP!Next, PassDone
<1>8. CASE \E k \in 1..MaxSleep : set_sleep(k)
  BY <1>4, <1>8 DEF RRP!Next, PassDone
<1>9. CASE UNCHANGED vars
  BY <1>5, <1>9
<1> QED BY <1>6, <1>7, <1>8, <1>9 DEF Next

\* The empty ring.
LEMMA RobinInit ==
    ASSUME Init
    PROVE  RingInv /\ RRP!Init
<1>1. RingAt(<< >>, processes, next)
  <2>1. << >> \in Seq(Proc) /\ Injective(<< >>) /\ Len(<< >>) = 0
    BY DEF Injective
  <2>2. \A x \in Proc : next[x] = NONE
    BY DEF Init
  <2>3. \A i \in 1..Len(<< >>) : next[<< >>[i]] = Succ(<< >>, i)
    BY <2>1
  <2> QED BY <2>1, <2>2, <2>3, MakeRing DEF Init
<1>2. Ring = << >>
  BY <1>1, RingIs, RingIsRingOf
<1>3. Nodes = {}
  BY DEF Nodes, Init
<1>4. sleep_ticks \in [Proc -> 0..MaxSleep] /\ next \in [Proc -> Proc \cup {NONE}]
  BY RRAssumption DEF Init
<1>5. Ticks = sleep_ticks
  BY <1>4, NoCursor, TicksAreTicksOf DEF Init
<1> QED BY <1>1, <1>2, <1>3, <1>4, <1>5 DEF Init, RingInv, RRP!Init

\* The inductive invariant holds throughout.
LEMMA RobinInvariant == Spec => []RingInv
<1>1. Init => RingInv
  BY RobinInit
<1>2. RingInv /\ [Next]_vars => RingInv'
  BY RobinStep
<1> QED BY <1>1, <1>2, PTL DEF Spec

\* The list of sched_robin.c is one closed ring in every state, between the
\* iterations of the loop too, for any number of processes.
THEOREM RingStaysClosed == Spec => []OneRing
<1>1. RingInv => OneRing
  <2> SUFFICES ASSUME RingInv, processes # NONE
               PROVE  /\ \A k, m \in DOMAIN Ring : Ring[k] = Ring[m] => k = m
                      /\ next[Ring[Len(Ring)]] = processes
                      /\ p # NONE => p \in {Ring[k] : k \in DOMAIN Ring}
    BY DEF OneRing
  <2>1. /\ Ring \in Seq(Proc) /\ Len(Ring) > 0 /\ Len(Ring) \in Nat /\ processes = Ring[1]
        /\ \A i, j \in 1..Len(Ring) : Ring[i] = Ring[j] => i = j
        /\ \A i \in 1..Len(Ring) : next[Ring[i]] = Succ(Ring, i)
    BY RingParts DEF RingInv
  <2>2. DOMAIN Ring = 1..Len(Ring) /\ Len(Ring) \in 1..Len(Ring)
    BY <2>1
  <2>3. next[Ring[Len(Ring)]] = processes
    BY <2>1, <2>2 DEF Succ
  <2>4. p # NONE => p \in {Ring[k] : k \in DOMAIN Ring}
    BY <2>2, CursorFacts
  <2> QED BY <2>1, <2>2, <2>3, <2>4
<1> QED BY <1>1, RobinInvariant, PTL

\* Relinking ready processes never loses a process from the list nor links a
\* new one: while sched_robin_next loops, who is linked stays the same.
THEOREM NobodyIsLost == Spec => NobodyLost
<1>1. RingInv /\ [Next]_vars => [p # NONE => RR!Members(Ring') = RR!Members(Ring)]_vars
  BY RobinStep, SameQueueOps
<1> QED BY <1>1, RobinInvariant, PTL DEF Spec, NobodyLost

\* sched_robin_next elects a process that sleeps only when every process in the
\* ring sleeps.
THEOREM SleepersComeLast == Spec => SleepersLast
<1>1. RingInv /\ [Next]_vars => [PassDone => RR!AwakeStep]_vars
  <2> SUFFICES ASSUME RingInv, [Next]_vars, PassDone PROVE RR!AwakeStep
    OBVIOUS
  <2>1. RRP!AwakeStep
    BY RobinStep, AbstractInv, RRP!AwakeLemma, RRAssumption
  <2> QED BY <2>1 DEF RRP!AwakeStep, RR!AwakeStep, RRP!Members, RR!Members, Ticks
<1> QED BY <1>1, RobinInvariant, PTL DEF Spec, SleepersLast

\* Each completed pass of sched_robin_next elects a linked process or brings it
\* closer to its turn, except the one that gives up the CPU.
THEOREM TurnsComeCloser == Spec => TurnsAdvance
<1>1. RingInv /\ [Next]_vars => [PassDone => RR!TurnStep]_vars
  <2> SUFFICES ASSUME RingInv, [Next]_vars, PassDone PROVE RR!TurnStep
    OBVIOUS
  <2>1. RRP!TurnStep
    BY RobinStep, AbstractInv, RRP!TurnLemma, RRAssumption
  <2> QED BY <2>1 DEF RRP!TurnStep, RR!TurnStep, RRP!Members, RR!Members, Ticks,
                      RRP!Turn, RR!Turn, RRP!Pos, RR!Pos
<1> QED BY <1>1, RobinInvariant, PTL DEF Spec, TurnsAdvance

\* The linked list implements the round robin queue, its fairness aside: every
\* step of sched_robin.c is a step of RoundRobin or changes nothing it can see.
THEOREM RingIsRoundRobin == Spec => RR!Init /\ [][RR!Next]_(RR!rrVars)
<1>1. Init => RR!Init
  BY RobinInit DEF RR!Init, RRP!Init, Ticks
<1>2. RingInv /\ [Next]_vars => [RR!Next]_(RR!rrVars)
  <2> SUFFICES ASSUME RingInv, [Next]_vars PROVE [RR!Next]_(RR!rrVars)
    OBVIOUS
  <2>1. RRP!Next \/ UNCHANGED RRP!rrVars
    BY RobinStep
  <2>2. UNCHANGED RRP!rrVars => UNCHANGED RR!rrVars
    BY DEF RRP!rrVars, RR!rrVars, Ticks
  <2>3. RRP!Next => RR!Next
    BY SameQueueOps
       DEF RRP!Next, RR!Next, RRP!sched_add, RR!sched_add, RRP!sched_next, RR!sched_next,
           RRP!sched_exit, RR!sched_exit, RRP!set_sleep, RR!set_sleep, RRP!NextFrom, RR!NextFrom,
           RRP!FirstReady, RR!FirstReady, RRP!OthersAsleep, RR!OthersAsleep, RRP!Pass, RR!Pass, Ticks
  <2> QED BY <2>1, <2>2, <2>3
<1> QED BY <1>1, <1>2, RobinInvariant, PTL DEF Spec
=============================================================================
