------------------------- MODULE RoundRobin_proofs --------------------------
(***************************************************************************)
(* Proofs about the run queue for any set of processes and any bound on    *)
(* sleeps.  The inductive invariant is TypeOK /\ RingSound: that a process *)
(* occurs once is needed to keep the elected process at the head, and the  *)
(* types are needed to index the queue.                                    *)
(***************************************************************************)
EXTENDS RoundRobin, TLAPS

RRInv == TypeOK /\ RingSound

\* A function on 1..n with values in S is a sequence of length n.
LEMMA FunIsSeq ==
    ASSUME NEW S, NEW n \in Nat, NEW f \in [1..n -> S]
    PROVE  f \in Seq(S) /\ Len(f) = n
  OBVIOUS

\* To show that nobody in q is missing from r, find a place in r for each.
LEMMA MembersSubset ==
    ASSUME NEW q, NEW r, \A i \in DOMAIN q : \E j \in DOMAIN r : r[j] = q[i]
    PROVE  Members(q) \subseteq Members(r)
<1> SUFFICES ASSUME NEW p \in Members(q) PROVE p \in Members(r)
  OBVIOUS
<1>1. PICK i \in DOMAIN q : p = q[i]
  BY DEF Members
<1>2. PICK j \in DOMAIN r : r[j] = q[i]
  OBVIOUS
<1> QED BY <1>1, <1>2 DEF Members

\* Relinking q[k] behind the head and rotating permutes the queue.
LEMMA MoveToHeadLemma ==
    ASSUME NEW q \in Seq(Proc), NEW k \in 2..Len(q),
           \A i, j \in 1..Len(q) : q[i] = q[j] => i = j
    PROVE  /\ MoveToHead(q, k) \in Seq(Proc)
           /\ Len(MoveToHead(q, k)) = Len(q)
           /\ MoveToHead(q, k)[1] = q[k]
           /\ \A i, j \in 1..Len(q) : MoveToHead(q, k)[i] = MoveToHead(q, k)[j] => i = j
           /\ Members(MoveToHead(q, k)) = Members(q)
<1> DEFINE m == MoveToHead(q, k)
<1>1. \A i \in 1..Len(q) : m[i] = CASE i = 1 -> q[k]
                                    [] i > 1 /\ i < k -> q[i]
                                    [] i >= k /\ i > 1 /\ i < Len(q) -> q[i + 1]
                                    [] OTHER -> q[1]
  BY DEF MoveToHead
<1>2. m \in [1..Len(q) -> Proc]
  BY DEF MoveToHead
<1>3. m \in Seq(Proc) /\ Len(m) = Len(q)
  BY <1>2, FunIsSeq
<1>4. m[1] = q[k]
  BY <1>1
<1>5. \A i, j \in 1..Len(q) : m[i] = m[j] => i = j
  BY <1>1
<1>6. Members(m) \subseteq Members(q)
  <2> SUFFICES ASSUME NEW i \in 1..Len(q) PROVE m[i] \in Members(q)
    BY <1>3 DEF Members
  <2> QED BY <1>1 DEF Members
<1>7. Members(q) \subseteq Members(m)
  <2>0. DOMAIN q = 1..Len(q) /\ DOMAIN m = 1..Len(q)
    BY <1>2
  <2> HIDE DEF m
  <2> SUFFICES ASSUME NEW i \in 1..Len(q) PROVE \E j \in 1..Len(q) : m[j] = q[i]
    BY <2>0, MembersSubset
  <2>1. CASE i = 1
    <3>1. m[Len(q)] = q[1] BY <1>1
    <3> QED BY <2>1, <3>1
  <2>2. CASE i > 1 /\ i < k
    BY <2>2, <1>1
  <2>3. CASE i = k
    BY <2>3, <1>1
  <2>4. CASE i > k
    <3> DEFINE j == i - 1
    <3>1. j \in 1..Len(q) /\ j >= k /\ j > 1 /\ j < Len(q) /\ j + 1 = i BY <2>4
    <3> HIDE DEF j
    <3>2. m[j] = q[j + 1] BY <3>1, <1>1
    <3> QED BY <3>1, <3>2
  <2> QED BY <2>1, <2>2, <2>3, <2>4
<1> QED BY <1>3, <1>4, <1>5, <1>6, <1>7

\* Moving the head on by one permutes the queue.
LEMMA RotateLemma ==
    ASSUME NEW q \in Seq(Proc), q # << >>,
           \A i, j \in 1..Len(q) : q[i] = q[j] => i = j
    PROVE  /\ Rotate(q) \in Seq(Proc)
           /\ Len(Rotate(q)) = Len(q)
           /\ \A i, j \in 1..Len(q) : Rotate(q)[i] = Rotate(q)[j] => i = j
           /\ Members(Rotate(q)) = Members(q)
<1> DEFINE m == Rotate(q)
<1>1. \A i \in 1..Len(q) : m[i] = IF i < Len(q) THEN q[i + 1] ELSE q[1]
  BY DEF Rotate
<1>2. m \in [1..Len(q) -> Proc]
  BY DEF Rotate
<1>3. m \in Seq(Proc) /\ Len(m) = Len(q)
  BY <1>2, FunIsSeq
<1>4. DOMAIN q = 1..Len(q) /\ DOMAIN m = 1..Len(q)
  BY <1>2
<1> HIDE DEF m
<1>5. \A i, j \in 1..Len(q) : m[i] = m[j] => i = j
  BY <1>1
<1>6. Members(m) \subseteq Members(q)
  <2>1. \A i \in 1..Len(q) : \E j \in 1..Len(q) : q[j] = m[i]
    BY <1>1
  <2> QED BY <1>4, <2>1, MembersSubset
<1>7. Members(q) \subseteq Members(m)
  <2> SUFFICES ASSUME NEW i \in 1..Len(q) PROVE \E j \in 1..Len(q) : m[j] = q[i]
    BY <1>4, MembersSubset
  <2>1. CASE i = 1
    <3>1. Len(q) \in 1..Len(q) /\ m[Len(q)] = q[1] BY <1>1
    <3> QED BY <2>1, <3>1
  <2>2. CASE i > 1
    <3> DEFINE j == i - 1
    <3>1. j \in 1..Len(q) /\ j < Len(q) /\ j + 1 = i BY <2>2
    <3> HIDE DEF j
    <3>2. m[j] = q[j + 1] BY <3>1, <1>1
    <3> QED BY <3>1, <3>2
  <2> QED BY <2>1, <2>2
<1> QED BY <1>3, <1>5, <1>6, <1>7 DEF m

\* Linking a new process in behind the head keeps the head and the processes
\* apart, and adds nobody else.
LEMMA InsertNextLemma ==
    ASSUME NEW q \in Seq(Proc), NEW p \in Proc, p \notin Members(q),
           \A i, j \in 1..Len(q) : q[i] = q[j] => i = j
    PROVE  /\ InsertNext(q, p) \in Seq(Proc)
           /\ Len(InsertNext(q, p)) = Len(q) + 1
           /\ q # << >> => InsertNext(q, p)[1] = q[1]
           /\ \A i, j \in 1..(Len(q) + 1) :
                 InsertNext(q, p)[i] = InsertNext(q, p)[j] => i = j
           /\ Members(InsertNext(q, p)) = Members(q) \cup {p}
<1> DEFINE m == InsertNext(q, p)
<1>1. /\ q = << >> => m[1] = p
      /\ q # << >> => m[1] = q[1] /\ m[2] = p
      /\ \A i \in 3..(Len(q) + 1) : m[i] = q[i - 1]
  BY DEF InsertNext
<1>2. m \in [1..(Len(q) + 1) -> Proc]
  BY DEF InsertNext
<1>3. m \in Seq(Proc) /\ Len(m) = Len(q) + 1
  BY <1>2, FunIsSeq
<1>4. DOMAIN q = 1..Len(q) /\ DOMAIN m = 1..(Len(q) + 1)
  BY <1>2
<1> HIDE DEF m
<1>5. \A i \in 1..Len(q) : q[i] # p
  BY <1>4 DEF Members
<1>6. \A i, j \in 1..(Len(q) + 1) : m[i] = m[j] => i = j
  <2>1. CASE q = << >>
    BY <2>1
  <2>2. CASE q # << >>
    BY <2>2, <1>1, <1>5
  <2> QED BY <2>1, <2>2
<1>7. ASSUME NEW x \in Members(m) PROVE x \in Members(q) \cup {p}
  <2>1. PICK i \in 1..(Len(q) + 1) : x = m[i]
    BY <1>4 DEF Members
  <2>2. x = p \/ \E j \in 1..Len(q) : x = q[j]
    BY <2>1, <1>1
  <2> QED BY <2>2, <1>4 DEF Members
<1>8. p \in Members(m)
  <2>1. \E i \in 1..(Len(q) + 1) : m[i] = p
    BY <1>1
  <2> QED BY <2>1, <1>4 DEF Members
<1>9. Members(q) \subseteq Members(m)
  <2> SUFFICES ASSUME NEW i \in 1..Len(q) PROVE \E j \in 1..(Len(q) + 1) : m[j] = q[i]
    BY <1>4, MembersSubset
  <2>1. CASE i = 1
    BY <2>1, <1>1
  <2>2. CASE i > 1
    <3> DEFINE j == i + 1
    <3>1. j \in 3..(Len(q) + 1) /\ j \in 1..(Len(q) + 1) /\ j - 1 = i
      BY <2>2
    <3> HIDE DEF j
    <3>2. m[j] = q[i]
      BY <3>1, <1>1
    <3> QED BY <3>1, <3>2
  <2> QED BY <2>1, <2>2
<1> QED BY <1>1, <1>3, <1>6, <1>7, <1>8, <1>9 DEF m

\* Unlinking a process leaves the others, each once.
LEMMA RemoveAtLemma ==
    ASSUME NEW q \in Seq(Proc), NEW j \in 1..Len(q),
           \A a, b \in 1..Len(q) : q[a] = q[b] => a = b
    PROVE  /\ RemoveAt(q, j) \in Seq(Proc)
           /\ Len(RemoveAt(q, j)) = Len(q) - 1
           /\ \A a, b \in 1..(Len(q) - 1) : RemoveAt(q, j)[a] = RemoveAt(q, j)[b] => a = b
           /\ Members(RemoveAt(q, j)) = Members(q) \ {q[j]}
<1> DEFINE m == RemoveAt(q, j)
<1>1. \A i \in 1..(Len(q) - 1) :
         m[i] = CASE i = 1 /\ j = 1 -> q[Len(q)]
                  [] i = 1 /\ j > 1 -> q[j - 1]
                  [] i > 1 /\ i + j - 1 <= Len(q) -> q[i + j - 1]
                  [] OTHER -> q[i + j - 1 - Len(q)]
  BY DEF RemoveAt
<1>2. m \in [1..(Len(q) - 1) -> Proc]
  BY DEF RemoveAt
<1>3. m \in Seq(Proc) /\ Len(m) = Len(q) - 1
  <2>1. Len(q) - 1 \in Nat OBVIOUS
  <2> QED BY <1>2, <2>1, FunIsSeq
<1>4. DOMAIN q = 1..Len(q) /\ DOMAIN m = 1..(Len(q) - 1)
  BY <1>2
<1> HIDE DEF m
<1> DEFINE from(i) == IF i = 1 THEN IF j = 1 THEN Len(q) ELSE j - 1
                               ELSE IF i + j - 1 <= Len(q) THEN i + j - 1
                                                           ELSE i + j - 1 - Len(q)
<1>a. \A i \in 1..(Len(q) - 1) : from(i) \in 1..Len(q) /\ m[i] = q[from(i)]
  BY <1>1
<1>b. \A a, b \in 1..(Len(q) - 1) : from(a) = from(b) => a = b
  OBVIOUS
<1>c. \A i \in 1..(Len(q) - 1) : from(i) # j
  OBVIOUS
<1>d. ASSUME NEW k \in 1..Len(q), k # j PROVE \E i \in 1..(Len(q) - 1) : from(i) = k
  <2> DEFINE i == IF k = (IF j = 1 THEN Len(q) ELSE j - 1) THEN 1
                  ELSE IF k > j THEN k - j + 1 ELSE k - j + 1 + Len(q)
  <2>1. i \in 1..(Len(q) - 1) /\ from(i) = k
    BY <1>d
  <2> HIDE DEF i, from
  <2> QED BY <2>1
<1> HIDE DEF from
<1>5. \A a, b \in 1..(Len(q) - 1) : m[a] = m[b] => a = b
  BY <1>a, <1>b
<1>6. Members(m) \subseteq Members(q) \ {q[j]}
  <2> SUFFICES ASSUME NEW x \in Members(m) PROVE x \in Members(q) \ {q[j]}
    OBVIOUS
  <2>1. PICK i \in 1..(Len(q) - 1) : x = m[i]
    BY <1>4 DEF Members
  <2>2. from(i) \in 1..Len(q) /\ from(i) # j /\ x = q[from(i)]
    BY <2>1, <1>a, <1>c
  <2> QED BY <2>2, <1>4 DEF Members
<1>7. Members(q) \ {q[j]} \subseteq Members(m)
  <2> SUFFICES ASSUME NEW x \in Members(q), x # q[j] PROVE x \in Members(m)
    OBVIOUS
  <2>1. PICK k \in 1..Len(q) : x = q[k]
    BY <1>4 DEF Members
  <2>2. PICK i \in 1..(Len(q) - 1) : from(i) = k
    BY <2>1, <1>d
  <2> QED BY <2>1, <2>2, <1>a, <1>4 DEF Members
<1> QED BY <1>3, <1>4, <1>5, <1>6, <1>7 DEF m

\* Passing over sleepers keeps every tick count within its bounds.
LEMMA PassType ==
    ASSUME NEW q \in Seq(Proc), NEW t \in [Proc -> 0..MaxSleep],
           NEW I \in SUBSET (1..Len(q)), \A i \in I : t[q[i]] > 0
    PROVE  Pass(q, t, I) \in [Proc -> 0..MaxSleep]
<1> SUFFICES ASSUME NEW p \in Proc, \E i \in I : q[i] = p
             PROVE  t[p] - 1 \in 0..MaxSleep
  BY DEF Pass
<1>1. t[p] > 0 /\ t[p] \in 0..MaxSleep
  OBVIOUS
<1> QED BY <1>1, RRAssumption

\* Electing the next process of a ring q with ticks t permutes the ring and
\* keeps the tick counts within bounds.
LEMMA NextFromLemma ==
    ASSUME NEW q \in Seq(Proc), q # << >>,
           \A i, j \in 1..Len(q) : q[i] = q[j] => i = j,
           NEW t \in [Proc -> 0..MaxSleep],
           NextFrom(q, t)
    PROVE  /\ queue' \in Seq(Proc)
           /\ Len(queue') = Len(q)
           /\ \A i, j \in 1..Len(q) : queue'[i] = queue'[j] => i = j
           /\ Members(queue') = Members(q)
           /\ sleep_ticks' \in [Proc -> 0..MaxSleep]
<1>2. CASE \E k \in 2..Len(q) : /\ FirstReady(q, t, k)
                                /\ queue' = MoveToHead(q, k)
                                /\ sleep_ticks' = Pass(q, t, 2..(k-1))
  <2>1. PICK k \in 2..Len(q) : /\ FirstReady(q, t, k)
                               /\ queue' = MoveToHead(q, k)
                               /\ sleep_ticks' = Pass(q, t, 2..(k-1))
    BY <1>2
  <2>2. sleep_ticks' \in [Proc -> 0..MaxSleep]
    <3>1. 2..(k-1) \in SUBSET (1..Len(q))
      OBVIOUS
    <3>2. \A i \in 2..(k-1) : t[q[i]] > 0
      BY <2>1 DEF FirstReady
    <3> QED BY <2>1, <3>1, <3>2, PassType
  <2>3. /\ MoveToHead(q, k) \in Seq(Proc)
        /\ Len(MoveToHead(q, k)) = Len(q)
        /\ \A i, j \in 1..Len(q) :
              MoveToHead(q, k)[i] = MoveToHead(q, k)[j] => i = j
        /\ Members(MoveToHead(q, k)) = Members(q)
    BY MoveToHeadLemma
  <2> QED BY <2>1, <2>2, <2>3
<1>3. CASE /\ OthersAsleep(q, t)
           /\ t[q[1]] = 0
           /\ queue' = q
           /\ sleep_ticks' = Pass(q, t, 2..Len(q))
  <2>1. 2..Len(q) \in SUBSET (1..Len(q))
    OBVIOUS
  <2>2. \A i \in 2..Len(q) : t[q[i]] > 0
    BY <1>3 DEF OthersAsleep
  <2> QED BY <1>3, <2>1, <2>2, PassType
<1>4. CASE /\ OthersAsleep(q, t)
           /\ t[q[1]] > 0
           /\ queue' = Rotate(q)
           /\ sleep_ticks' = Pass(q, t, 1..Len(q))
  <2>1. \A i \in 1..Len(q) : t[q[i]] > 0
    BY <1>4 DEF OthersAsleep
  <2>2. 1..Len(q) \in SUBSET (1..Len(q))
    OBVIOUS
  <2>3. sleep_ticks' \in [Proc -> 0..MaxSleep]
    BY <1>4, <2>1, <2>2, PassType
  <2> QED BY <1>4, <2>3, RotateLemma
<1> QED BY <1>2, <1>3, <1>4 DEF NextFrom

\* sched_next permutes the queue and keeps the tick counts within bounds.
LEMMA SchedNextLemma ==
    ASSUME RRInv, sched_next
    PROVE  /\ queue' \in Seq(Proc)
           /\ Len(queue') = Len(queue)
           /\ \A i, j \in 1..Len(queue) : queue'[i] = queue'[j] => i = j
           /\ Members(queue') = Members(queue)
           /\ sleep_ticks' \in [Proc -> 0..MaxSleep]
  BY NextFromLemma DEF RRInv, TypeOK, RingSound, sched_next

\* The run queue keeps its types, holds every process at most once and has the
\* running process at its head: TypeOK and RingSound hold throughout.
THEOREM QueueSound == Spec => [](TypeOK /\ RingSound)
<1>1. Init => RRInv
  BY RRAssumption DEF Init, RRInv, TypeOK, RingSound, Members
<1>2. RRInv /\ [Next]_rrVars => RRInv'
  <2> SUFFICES ASSUME RRInv, [Next]_rrVars PROVE RRInv'
    OBVIOUS
  <2> USE DEF RRInv
  <2>0. /\ queue \in Seq(Proc)
        /\ sleep_ticks \in [Proc -> 0..MaxSleep]
        /\ elected \in Proc \cup {NONE}
        /\ added \subseteq Proc
        /\ \A i, j \in 1..Len(queue) : queue[i] = queue[j] => i = j
        /\ elected # NONE => queue # << >> /\ elected = queue[1]
        /\ Members(queue) \subseteq added
    BY DEF TypeOK, RingSound
  <2>1. ASSUME NEW p \in Proc, sched_add(p) PROVE RRInv'
    <3>1. /\ queue' = InsertNext(queue, p)
          /\ added' = added \cup {p}
          /\ p \notin added
          /\ sleep_ticks' = sleep_ticks /\ elected' = elected
      BY <2>1 DEF sched_add
    <3>2. p \notin Members(queue)
      BY <2>0, <3>1
    <3>3. /\ queue' \in Seq(Proc)
          /\ Len(queue') = Len(queue) + 1
          /\ queue # << >> => queue'[1] = queue[1]
          /\ \A i, j \in 1..(Len(queue) + 1) : queue'[i] = queue'[j] => i = j
          /\ Members(queue') = Members(queue) \cup {p}
      BY <2>0, <3>1, <3>2, InsertNextLemma
    <3>4. TypeOK'
      BY <2>0, <3>1, <3>3 DEF TypeOK
    <3>5. RingSound'
      BY <2>0, <3>1, <3>3 DEF RingSound
    <3> QED BY <3>4, <3>5
  <2>2. ASSUME sched_next PROVE RRInv'
    <3>1. /\ queue' \in Seq(Proc)
          /\ Len(queue') = Len(queue)
          /\ \A i, j \in 1..Len(queue) : queue'[i] = queue'[j] => i = j
          /\ Members(queue') = Members(queue)
          /\ sleep_ticks' \in [Proc -> 0..MaxSleep]
      BY <2>2, SchedNextLemma
    <3>2. elected' = queue'[1] /\ added' = added /\ queue # << >>
      BY <2>2 DEF sched_next
    <3>3. queue' # << >> /\ queue'[1] \in Proc
      BY <2>0, <3>1, <3>2
    <3>4. TypeOK'
      BY <2>0, <3>1, <3>2, <3>3 DEF TypeOK
    <3>5. RingSound'
      BY <2>0, <3>1, <3>2, <3>3 DEF RingSound
    <3> QED BY <3>4, <3>5
  <2>3. ASSUME sched_exit PROVE RRInv'
    <3>1. PICK j \in 1..Len(queue) : queue' = RemoveAt(queue, j)
      BY <2>0, <2>3 DEF sched_exit
    <3>2. elected' = NONE /\ sleep_ticks' = sleep_ticks /\ added' = added
      BY <2>3 DEF sched_exit
    <3>3. /\ queue' \in Seq(Proc)
          /\ Len(queue') = Len(queue) - 1
          /\ \A a, b \in 1..(Len(queue) - 1) : queue'[a] = queue'[b] => a = b
          /\ Members(queue') \subseteq Members(queue)
      <4>1. /\ RemoveAt(queue, j) \in Seq(Proc)
            /\ Len(RemoveAt(queue, j)) = Len(queue) - 1
            /\ \A a, b \in 1..(Len(queue) - 1) :
                  RemoveAt(queue, j)[a] = RemoveAt(queue, j)[b] => a = b
            /\ Members(RemoveAt(queue, j)) = Members(queue) \ {queue[j]}
        BY <2>0, RemoveAtLemma
      <4> QED BY <3>1, <4>1
    <3>4. TypeOK'
      BY <2>0, <3>2, <3>3 DEF TypeOK
    <3>5. RingSound'
      BY <2>0, <3>2, <3>3 DEF RingSound
    <3> QED BY <3>4, <3>5
  <2>4. ASSUME NEW n \in 1..MaxSleep, set_sleep(n) PROVE RRInv'
    <3>1. TypeOK'
      BY <2>0, <2>4, RRAssumption DEF TypeOK, set_sleep
    <3>2. RingSound'
      BY <2>0, <2>4 DEF RingSound, set_sleep, Members
    <3> QED BY <3>1, <3>2
  <2>5. CASE UNCHANGED rrVars
    BY <2>0, <2>5 DEF rrVars, TypeOK, RingSound, Members
  <2> QED BY <2>1, <2>2, <2>3, <2>4, <2>5 DEF Next
<1> QED BY <1>1, <1>2, PTL DEF Spec, RRInv

\* sched_next never loses a process from the ring nor lets one in: whatever
\* relinking it does, the ring holds the same processes afterwards.
THEOREM RingKeepsEverybody == Spec => NobodyLost
<1>1. RRInv /\ [Next]_rrVars => [sched_next => Members(queue') = Members(queue)]_rrVars
  BY SchedNextLemma
<1> QED BY <1>1, QueueSound, PTL DEF Spec, NobodyLost, RRInv

\* sched_next elects a process that sleeps only when everybody does: the scan
\* finds a process that is ready whenever there is one.
LEMMA AwakeLemma ==
    ASSUME RRInv, sched_next
    PROVE  AwakeStep
<1> SUFFICES \/ sleep_ticks[elected'] = 0
             \/ \A p \in Members(queue) : sleep_ticks[p] > 0
  BY DEF AwakeStep
<1>0. /\ queue \in Seq(Proc) /\ queue # << >>
      /\ \A i, j \in 1..Len(queue) : queue[i] = queue[j] => i = j
      /\ NextFrom(queue, sleep_ticks) /\ elected' = queue'[1]
  BY DEF RRInv, TypeOK, RingSound, sched_next
<1>1. ASSUME NEW k \in 2..Len(queue), FirstReady(queue, sleep_ticks, k),
             queue' = MoveToHead(queue, k)
      PROVE  sleep_ticks[elected'] = 0
  <2>1. MoveToHead(queue, k)[1] = queue[k]
    BY <1>0, MoveToHeadLemma
  <2> QED BY <1>0, <1>1, <2>1 DEF FirstReady
<1>2. ASSUME OthersAsleep(queue, sleep_ticks), sleep_ticks[queue[1]] > 0
      PROVE  \A p \in Members(queue) : sleep_ticks[p] > 0
  <2>1. \A i \in 1..Len(queue) : sleep_ticks[queue[i]] > 0
    BY <1>2 DEF OthersAsleep
  <2> QED BY <1>0, <2>1 DEF Members
<1> QED BY <1>0, <1>1, <1>2 DEF NextFrom

\* A sleeping process is given the CPU only when every process in the ring
\* sleeps: sched_next finds a process that is ready whenever there is one.
THEOREM ReadyFirst == Spec => SleepersLast
<1>1. RRInv /\ [Next]_rrVars => [sched_next => AwakeStep]_rrVars
  BY AwakeLemma
<1> QED BY <1>1, QueueSound, PTL DEF Spec, SleepersLast, RRInv

\* In a queue that holds everybody once, Pos finds the place of a process.
LEMMA PosLemma ==
    ASSUME NEW q \in Seq(Proc), NEW i \in 1..Len(q),
           \A a, b \in 1..Len(q) : q[a] = q[b] => a = b
    PROVE  Pos(q, q[i]) = i
  BY DEF Pos

\* A call of sched_next elects a queued process or brings it strictly closer to
\* its turn, unless it is the one that gives up the CPU.
LEMMA TurnLemma ==
    ASSUME RRInv, sched_next
    PROVE  TurnStep
<1> DEFINE Closer(p) == \/ elected' = p
                        \/ Turn(queue', sleep_ticks', p) < Turn(queue, sleep_ticks, p)
<1> SUFFICES ASSUME NEW p \in Members(queue), p # queue[1]
             PROVE  Closer(p)
  BY DEF TurnStep
<1> DEFINE q == queue
           t == sleep_ticks
<1>0. /\ q \in Seq(Proc) /\ q # << >> /\ t \in [Proc -> 0..MaxSleep]
      /\ \A i, j \in 1..Len(q) : q[i] = q[j] => i = j
      /\ NextFrom(q, t) /\ elected' = queue'[1]
  BY DEF RRInv, TypeOK, RingSound, sched_next
<1>1. PICK i \in 2..Len(q) : p = q[i]
  BY <1>0 DEF Members
<1>2. i \in 1..Len(q) /\ Pos(q, p) = i /\ t[p] \in 0..MaxSleep
  BY <1>0, <1>1, PosLemma
<1>p. ASSUME NEW I \in SUBSET (1..Len(q))
      PROVE  Pass(q, t, I)[p] = IF i \in I THEN t[p] - 1 ELSE t[p]
  <2>1. (\E a \in I : q[a] = p) <=> i \in I
    BY <1>0, <1>1, <1>2
  <2>2. p \in DOMAIN t
    BY <1>0, <1>1
  <2> QED BY <2>1, <2>2 DEF Pass
<1>3. ASSUME NEW r \in Seq(Proc), NEW j \in 1..Len(r), r[j] = p, queue' = r,
             \A a, b \in 1..Len(r) : r[a] = r[b] => a = b,
             sleep_ticks'[p] \in Int, j + sleep_ticks'[p] < i + t[p]
      PROVE  Closer(p)
  <2>1. Pos(r, p) = j
    BY <1>3, PosLemma
  <2> QED BY <1>2, <1>3, <2>1 DEF Turn
<1>4. ASSUME NEW k \in 2..Len(q), FirstReady(q, t, k), queue' = MoveToHead(q, k),
             sleep_ticks' = Pass(q, t, 2..(k-1))
      PROVE  Closer(p)
  <2>1. /\ queue' \in Seq(Proc) /\ Len(queue') = Len(q)
        /\ queue'[1] = q[k]
        /\ \A a, b \in 1..Len(queue') : queue'[a] = queue'[b] => a = b
    <3>1. /\ MoveToHead(q, k) \in Seq(Proc) /\ Len(MoveToHead(q, k)) = Len(q)
          /\ MoveToHead(q, k)[1] = q[k]
          /\ \A a, b \in 1..Len(q) : MoveToHead(q, k)[a] = MoveToHead(q, k)[b] => a = b
      BY <1>0, MoveToHeadLemma
    <3> QED BY <1>4, <3>1
  <2>2. sleep_ticks'[p] = IF i \in 2..(k-1) THEN t[p] - 1 ELSE t[p]
    <3>1. 2..(k-1) \in SUBSET (1..Len(q))
      OBVIOUS
    <3> QED BY <1>4, <1>p, <3>1
  <2>3. CASE i = k
    BY <1>0, <1>1, <2>1, <2>3
  <2>4. CASE i < k
    <3>1. queue'[i] = p
      BY <1>0, <1>1, <1>2, <1>4, <2>4 DEF MoveToHead
    <3>2. i + sleep_ticks'[p] < i + t[p] /\ sleep_ticks'[p] \in Int
      BY <1>1, <1>2, <2>2, <2>4
    <3> QED BY <1>2, <1>3, <2>1, <3>1, <3>2
  <2>5. CASE i > k
    <3> DEFINE j == i - 1
    <3>0. j \in 1..Len(q) /\ j >= k /\ j > 1 /\ j < Len(q) /\ j + 1 = i
      BY <1>1, <2>5
    <3> HIDE DEF j
    <3>1. queue'[j] = p
      BY <1>0, <1>1, <1>4, <3>0 DEF MoveToHead
    <3>2. j + sleep_ticks'[p] < i + t[p] /\ sleep_ticks'[p] \in Int
      BY <1>1, <1>2, <2>2, <2>5, <3>0
    <3> QED BY <1>3, <2>1, <3>0, <3>1, <3>2
  <2> QED BY <2>3, <2>4, <2>5
<1>5. ASSUME queue' = q, sleep_ticks' = Pass(q, t, 2..Len(q)) PROVE Closer(p)
  <2>1. 2..Len(q) \in SUBSET (1..Len(q))
    OBVIOUS
  <2>2. sleep_ticks'[p] = t[p] - 1
    BY <1>1, <1>5, <1>p, <2>1
  <2> QED BY <1>2, <1>5, <2>2 DEF Turn
<1>6. ASSUME queue' = Rotate(q), sleep_ticks' = Pass(q, t, 1..Len(q)) PROVE Closer(p)
  <2>1. /\ queue' \in Seq(Proc) /\ Len(queue') = Len(q)
        /\ \A a, b \in 1..Len(queue') : queue'[a] = queue'[b] => a = b
    BY <1>0, <1>6, RotateLemma
  <2>2. sleep_ticks'[p] = t[p] - 1
    <3>1. 1..Len(q) \in SUBSET (1..Len(q))
      OBVIOUS
    <3> QED BY <1>2, <1>6, <1>p, <3>1
  <2> DEFINE j == i - 1
  <2>3. j \in 1..Len(q) /\ j < Len(q) /\ j + 1 = i
    BY <1>1
  <2> HIDE DEF j
  <2>4. queue'[j] = p
    BY <1>0, <1>1, <1>6, <2>3 DEF Rotate
  <2>5. j + sleep_ticks'[p] < i + t[p] /\ sleep_ticks'[p] \in Int
    BY <1>2, <2>2, <2>3
  <2> QED BY <1>3, <2>1, <2>3, <2>4, <2>5
<1> QED BY <1>0, <1>4, <1>5, <1>6 DEF NextFrom

\* Bounded waiting: a call of sched_next brings every process but the one that
\* gives up the CPU strictly closer to its turn, or elects it.
THEOREM WaitingIsBounded == Spec => TurnsAdvance
<1>1. RRInv /\ [Next]_rrVars => [sched_next => TurnStep]_rrVars
  BY TurnLemma
<1> QED BY <1>1, QueueSound, PTL DEF Spec, TurnsAdvance, RRInv
=============================================================================
