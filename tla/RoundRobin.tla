----------------------------- MODULE RoundRobin -----------------------------
(***************************************************************************)
(* What the scheduler of the kernel promises (kernel/src/sys/sched_robin.c *)
(* behind the sched_t interface of kernel/include/sys/proc.h), stated over *)
(* a run queue: queue[1] is the process the ring's head points at, the     *)
(* rest follow in ring order.  `elected' is what sched_next returned last, *)
(* that is the process proc_schedule() gave the CPU to.                    *)
(*                                                                         *)
(* Handlers run with interrupts disabled (interrupt.asm: every stub starts *)
(* with cli), so a call of the scheduler is one step.  The linked ring     *)
(* itself is SchedRobin, which implements this module.                     *)
(***************************************************************************)
EXTENDS SchedConsts, Sequences, FiniteSets

VARIABLES queue,        \* the ring, from its head
          sleep_ticks,  \* process_t.sleep_ticks
          elected,      \* return value of the last sched_next
          added         \* processes handed to sched_add so far

rrVars == <<queue, sleep_ticks, elected, added>>

\* The processes in the queue.
Members(q) == {q[i] : i \in DOMAIN q}

\* Plausible bugs, used to test the properties.
PassNobody(q, t, I) == t

(***************************************************************************)
(* sched_next scans q[2], ..., q[n], q[1] and stops at the first process   *)
(* that is not asleep.  Every sleeper it passes loses one tick.            *)
(***************************************************************************)
FirstReady(q, t, k) == /\ k \in 2..Len(q)
                       /\ t[q[k]] = 0
                       /\ \A j \in 2..(k-1) : t[q[j]] > 0

OthersAsleep(q, t) == \A j \in 2..Len(q) : t[q[j]] > 0

\* The ring once q[k] is relinked behind the head and made the head: the
\* sleepers it overtook keep their turn, the old head goes last.
MoveToHead(q, k) == [i \in 1..Len(q) |-> CASE i = 1 -> q[k]
                                           [] i > 1 /\ i < k -> q[i]
                                           [] i >= k /\ i > 1 /\ i < Len(q) -> q[i + 1]
                                           [] OTHER -> q[1]]

\* The head just moves on by one.
Rotate(q) == [i \in 1..Len(q) |-> IF i < Len(q) THEN q[i + 1] ELSE q[1]]

\* One tick less for the processes at the positions in I.
Pass(q, t, I) == [p \in DOMAIN t |-> IF \E i \in I : q[i] = p THEN t[p] - 1 ELSE t[p]]

(***************************************************************************)
(* sched_next on a queue q with ticks t.                                   *)
(***************************************************************************)
NextFrom(q, t) ==
    \/ \E k \in 2..Len(q) : /\ FirstReady(q, t, k)
                            /\ queue' = MoveToHead(q, k)
                            /\ sleep_ticks' = Pass(q, t, 2..(k-1))
    \/ /\ OthersAsleep(q, t)
       /\ t[q[1]] = 0
       /\ queue' = q
       /\ sleep_ticks' = Pass(q, t, 2..Len(q))
    \/ /\ OthersAsleep(q, t)
       /\ t[q[1]] > 0
       /\ queue' = Rotate(q)
       /\ sleep_ticks' = Pass(q, t, 1..Len(q))

\* The ring with p linked in right behind the head.
InsertNext(q, p) == [i \in 1..(Len(q) + 1) |-> CASE i = 1 /\ q = << >> -> p
                                                 [] i = 1 /\ q # << >> -> q[1]
                                                 [] i = 2 -> p
                                                 [] OTHER -> q[i - 1]]

\* The ring without q[j], as sched_exit leaves it: the predecessor of the
\* removed node becomes the head, so that the next process in turn follows it.
RemoveAt(q, j) ==
    [i \in 1..(Len(q) - 1) |-> CASE i = 1 /\ j = 1 -> q[Len(q)]
                                [] i = 1 /\ j > 1 -> q[j - 1]
                                [] i > 1 /\ i + j - 1 <= Len(q) -> q[i + j - 1]
                                [] OTHER -> q[i + j - 1 - Len(q)]]

-----------------------------------------------------------------------------

Init == /\ queue = << >>
        /\ sleep_ticks = [p \in Proc |-> 0]
        /\ elected = NONE
        /\ added = {}

\* proc_run_code hands a new process to sched_add, at boot or for the process
\* that called exec.
sched_add(p) == /\ p \notin added
                /\ added = {} \/ elected # NONE
                /\ queue' = InsertNext(queue, p)
                /\ added' = added \cup {p}
                /\ UNCHANGED <<sleep_ticks, elected>>

\* proc_schedule asks for the next process.
sched_next == /\ queue # << >>
              /\ NextFrom(queue, sleep_ticks)
              /\ elected' = queue'[1]
              /\ UNCHANGED added

\* proc_exit takes the running process out.
sched_exit == /\ elected # NONE
              /\ \E j \in DOMAIN queue : /\ queue[j] = elected
                                         /\ queue' = RemoveAt(queue, j)
              /\ elected' = NONE
              /\ UNCHANGED <<sleep_ticks, added>>

\* proc_sleep: the running process asks to be passed over n times.
set_sleep(n) == /\ elected # NONE
                /\ sleep_ticks' = [sleep_ticks EXCEPT ![elected] = n]
                /\ UNCHANGED <<queue, elected, added>>

Next == \/ \E p \in Proc : sched_add(p)
        \/ sched_next
        \/ sched_exit
        \/ \E n \in 1..MaxSleep : set_sleep(n)

\* The timer keeps interrupting user code, and each handler runs to its end.
Spec == Init /\ [][Next]_rrVars /\ WF_rrVars(sched_next)

-----------------------------------------------------------------------------

\* The types of the scheduler's state: queue is a sequence of processes, ticks
\* never go below zero (sleep_ticks is decremented only when positive).
TypeOK == /\ queue \in Seq(Proc)
          /\ sleep_ticks \in [Proc -> 0..MaxSleep]
          /\ elected \in Proc \cup {NONE}
          /\ added \subseteq Proc

\* sched_robin.c keeps one node per process: relinking a process never
\* duplicates it, and the elected process is the one at the head, from where
\* sched_exit and sched_add work.
RingSound == /\ \A i, j \in 1..Len(queue) : queue[i] = queue[j] => i = j
             /\ elected # NONE => queue # << >> /\ elected = queue[1]
             /\ Members(queue) \subseteq added

\* Where p stands in the queue.
Pos(q, p) == CHOOSE i \in DOMAIN q : q[i] = p

\* How long p may have to wait: its place in the queue plus its sleep.
Turn(q, t, p) == Pos(q, p) + t[p]

\* Every queued process but the old head is elected or closer to its turn.
TurnStep == \A p \in Members(queue) :
                p # queue[1] => \/ elected' = p
                                \/ Turn(queue', sleep_ticks', p) < Turn(queue, sleep_ticks, p)

\* Who is elected is awake, unless everybody sleeps.
AwakeStep == \/ sleep_ticks[elected'] = 0
             \/ \A p \in Members(queue) : sleep_ticks[p] > 0

\* Bounded waiting: each sched_next that elects somebody else brings every
\* queued process strictly closer to its turn, so that nobody is overtaken for
\* ever when sleepers are relinked (sched_robin.c, "We insert the next process
\* between the current one and the one previously scheduled to be switched to").
TurnsAdvance == [][sched_next => TurnStep]_rrVars

\* "Avoid switching to a sleeping process if possible" (sched_robin.c): a
\* process that still sleeps is elected only when every process sleeps.
SleepersLast == [][sched_next => AwakeStep]_rrVars

\* sched_next only reorders: nobody is lost from the ring or enters it but
\* through sched_exit and sched_add (sched_robin.c relinking in sched_next).
NobodyLost == [][sched_next => Members(queue') = Members(queue)]_rrVars
=============================================================================
