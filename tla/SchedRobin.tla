----------------------------- MODULE SchedRobin -----------------------------
(***************************************************************************)
(* The round robin scheduler as it is written (sched_robin.c): a circular  *)
(* singly linked list of nodes, a head pointer, and the relinking done by  *)
(* sched_robin_next when it skips sleeping processes.  A node wraps one    *)
(* process and is named by it; a node that is not linked has next = NONE.  *)
(*                                                                         *)
(* The do ... while loop of sched_robin_next is modelled one iteration per *)
(* step (cursor p).  Interrupts are off inside the loop (irq_save), so no  *)
(* other operation of the scheduler happens between two iterations.        *)
(*                                                                         *)
(* sched_robin_prune drops nodes whose process fails proc_valid; a process *)
(* is valid when it is added, its guards, page directory and saved stack   *)
(* are never cleared, and its struct is never freed, so pruning leaves the *)
(* ring alone and sched_robin_add never refuses.                           *)
(***************************************************************************)
EXTENDS SchedConsts, Sequences, FiniteSets

\* A process is a struct in memory: there are finitely many.
ASSUME ProcAssumption == IsFiniteSet(Proc)

VARIABLES processes,    \* sched_robin_t.processes, the head of the ring
          next,         \* proc_node_t.next
          sleep_ticks,  \* process_t.sleep_ticks
          elected,      \* what sched_robin_next returned last
          added,        \* processes handed to sched_robin_add so far
          p             \* the cursor of sched_robin_next, NONE outside it

vars == <<processes, next, sleep_ticks, elected, added, p>>

Nodes == {x \in Proc : next[x] # NONE}

\* sched_robin(): an empty ring.
Init == /\ processes = NONE
        /\ next = [x \in Proc |-> NONE]
        /\ sleep_ticks = [x \in Proc |-> 0]
        /\ elected = NONE
        /\ added = {}
        /\ p = NONE

\* Plausible bugs, used to test the properties.
RelinkForgetsGap(q) == [next EXCEPT ![q] = next[processes], ![processes] = q]
RelinkReverses(q) == [next EXCEPT ![processes] = q, ![q] = p, ![p] = next[processes],
                                  ![next[processes]] = next[q]]
ReadyOnceTicked == /\ p # NONE
                   /\ sleep_ticks[next[p]] <= 1
                   /\ next[p] = next[processes]
                   /\ processes' = next[processes]
                   /\ elected' = processes'
                   /\ p' = NONE
                   /\ UNCHANGED <<next, sleep_ticks, added>>
AllAsleepKeepsHead == /\ p # NONE
                      /\ sleep_ticks[next[p]] > 0
                      /\ sleep_ticks' = [sleep_ticks EXCEPT ![next[p]] = @ - 1]
                      /\ p' = IF next[p] = processes THEN NONE ELSE next[p]
                      /\ elected' = IF next[p] = processes THEN processes ELSE elected
                      /\ UNCHANGED <<processes, next, added>>

-----------------------------------------------------------------------------

\* The new node goes right behind the head; the first one forms the ring.
sched_robin_add(new) ==
    /\ p = NONE
    /\ new \notin added
    /\ added = {} \/ elected # NONE
    /\ \/ /\ processes = NONE
          /\ next' = [next EXCEPT ![new] = new]
          /\ processes' = new
       \/ /\ processes # NONE
          /\ next' = [next EXCEPT ![processes] = new, ![new] = next[processes]]
          /\ UNCHANGED processes
    /\ added' = added \cup {new}
    /\ UNCHANGED <<sleep_ticks, elected, p>>

\* The loop starts with its cursor on the head.
sched_robin_next_enter == /\ p = NONE
                          /\ processes # NONE
                          /\ p' = processes
                          /\ UNCHANGED <<processes, next, sleep_ticks, elected, added>>

\* The node behind the cursor sleeps: it loses a tick and is passed.  When the
\* cursor is back at the head everybody sleeps and the next in line is taken.
scan_sleeper == /\ p # NONE
                /\ sleep_ticks[next[p]] > 0
                /\ sleep_ticks' = [sleep_ticks EXCEPT ![next[p]] = @ - 1]
                /\ \/ /\ next[p] # processes
                      /\ p' = next[p]
                      /\ UNCHANGED <<processes, elected>>
                   \/ /\ next[p] = processes
                      /\ p' = NONE
                      /\ processes' = next[processes]
                      /\ elected' = processes'
                /\ UNCHANGED <<next, added>>

\* The pointers once q, found behind the cursor, sits behind the head.
Relink(q) == [next EXCEPT ![p] = next[q], ![q] = next[processes], ![processes] = q]

\* The node behind the cursor is ready: it is the head itself (nothing to
\* switch), the next in line (plain rotation), or it is relinked behind the
\* head first.
scan_ready ==
    /\ p # NONE
    /\ sleep_ticks[next[p]] = 0
    /\ \/ /\ next[p] = processes
          /\ UNCHANGED <<processes, next>>
       \/ /\ next[p] # processes
          /\ next[p] = next[processes]
          /\ processes' = next[processes]
          /\ UNCHANGED next
       \/ /\ next[p] # processes
          /\ next[p] # next[processes]
          /\ next' = Relink(next[p])
          /\ processes' = next'[processes]
    /\ elected' = processes'
    /\ p' = NONE
    /\ UNCHANGED <<sleep_ticks, added>>

\* The node whose successor is x, found by walking from the head.
Predecessor(x) == CHOOSE y \in Nodes : next[y] = x

\* A lone node is freed; otherwise the node is unlinked and its predecessor
\* becomes the head.  proc_exit always passes the running process.
sched_robin_exit(process) ==
    /\ p = NONE
    /\ process = elected
    /\ elected # NONE
    /\ \/ /\ processes = next[processes]
          /\ next' = [next EXCEPT ![processes] = NONE]
          /\ processes' = NONE
       \/ /\ processes # next[processes]
          /\ next' = [next EXCEPT ![Predecessor(process)] = next[process],
                                  ![process] = NONE]
          /\ processes' = Predecessor(process)
    /\ elected' = NONE
    /\ UNCHANGED <<sleep_ticks, added, p>>

\* proc_sleep sets the running process's ticks before it calls the scheduler.
set_sleep(n) == /\ p = NONE
                /\ elected # NONE
                /\ sleep_ticks' = [sleep_ticks EXCEPT ![elected] = n]
                /\ UNCHANGED <<processes, next, elected, added, p>>

sched_robin_next == sched_robin_next_enter \/ scan_sleeper \/ scan_ready

Next == \/ \E x \in Proc : sched_robin_add(x) \/ sched_robin_exit(x)
        \/ sched_robin_next
        \/ \E n \in 1..MaxSleep : set_sleep(n)

\* The timer keeps calling the scheduler and the loop runs to its end.
Spec == Init /\ [][Next]_vars /\ WF_vars(sched_robin_next)

-----------------------------------------------------------------------------

\* The k-th node of the ring, counted from the head.
Walk == LET w[k \in 1..Cardinality(Proc)] == IF k = 1 THEN processes ELSE next[w[k - 1]]
        IN  w

\* The ring read off from its head.
Ring == [k \in 1..Cardinality(Nodes) |-> Walk[k]]

\* The sleepers the cursor has passed in the loop that is under way.
Passed == IF p = NONE THEN {}
          ELSE LET c == CHOOSE k \in DOMAIN Ring : Ring[k] = p
               IN  {Ring[k] : k \in 2..c}

\* The list is one closed ring: following next from the head meets every
\* linked node once and comes back, in every intermediate state of the loop
\* too (sched_robin_next relinks three pointers, sched_robin_exit two).
OneRing == processes # NONE =>
              /\ \A k, m \in DOMAIN Ring : Ring[k] = Ring[m] => k = m
              /\ next[Ring[Len(Ring)]] = processes
              /\ p # NONE => p \in {Ring[k] : k \in DOMAIN Ring}

\* The ring implements the round robin queue: a whole pass of the loop is one
\* sched_next of RoundRobin, the ticks taken so far in an unfinished pass being
\* given back.
RR == INSTANCE RoundRobin WITH
          queue <- Ring,
          sleep_ticks <- [x \in Proc |-> IF x \in Passed THEN sleep_ticks[x] + 1 ELSE sleep_ticks[x]]

\* sched_robin.c behaves as the abstract round robin queue.
ImplementsRoundRobin == RR!Spec

\* The last step of a pass of the loop.
PassDone == p # NONE /\ p' = NONE

\* Bounded waiting of the linked ring: each completed sched_robin_next brings
\* every queued process that it does not elect closer to its turn, so relinking
\* a ready process in front of sleepers never overtakes anybody for ever.
TurnsAdvance == [][PassDone => RR!TurnStep]_vars

\* "Avoid switching to a sleeping process if possible": the loop elects a
\* process that sleeps only when every process in the ring sleeps.
SleepersLast == [][PassDone => RR!AwakeStep]_vars

\* The relinking of sched_robin_next neither loses a process nor invents one:
\* who is linked changes only when a process is added or exits.
NobodyLost == [][p # NONE => RR!Members(Ring') = RR!Members(Ring)]_vars
=============================================================================
