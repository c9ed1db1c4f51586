---------------------------- MODULE Kernel_proofs ---------------------------
(***************************************************************************)
(* Proofs about processes for any set of processes, any bound on sleeps    *)
(* and any number of stdout buffers.  The three invariants are inductive   *)
(* together with the types and with what holds of processes that have not  *)
(* run yet (Started): where a process resumes is known from its birth on.  *)
(* What the ring operations do comes from RoundRobin_proofs.               *)
(***************************************************************************)
EXTENDS Kernel, FiniteSetTheorems, TLAPS

RRP == INSTANCE RoundRobin_proofs WITH elected <- current,
                                       added <- {p \in Proc : status[p] # "unborn"}

\* TypeOK without the bound on reference counts, which StdoutCounted implies.
Types == /\ queue \in Seq(Proc)
         /\ sleep_ticks \in [Proc -> 0..MaxSleep]
         /\ current \in Proc \cup {NONE}
         /\ status \in [Proc -> {"unborn", "live", "dead"}]
         /\ mode \in {"boot", "user", "wait", "halted"}
         /\ saved \in [Proc -> {"fresh", "handler", "wait"}]
         /\ waiting \in [Proc -> Proc \cup {NONE}]
         /\ in_service \in BOOLEAN
         /\ stdout \in [Proc -> Out \cup {NONE}]
         /\ refcount \in [Out -> Nat]

\* Before the first jump to user mode nobody runs, and whoever has not run yet
\* will resume in user mode.
Started == /\ mode = "boot" => current = NONE
           /\ \A p \in Proc : mode = "boot" \/ status[p] = "unborn"
                                => saved[p] = "fresh" /\ waiting[p] = NONE

KernelInv == Types /\ RunQueueExact /\ StdoutCounted /\ WaitsParked /\ Started

Distinct(q) == \A i, j \in 1..Len(q) : q[i] = q[j] => i = j

-----------------------------------------------------------------------------
(* The ring operations of RoundRobin, as Kernel names them.                *)

\* Linking a new process in.
LEMMA Insert ==
    ASSUME NEW q \in Seq(Proc), Distinct(q), NEW p \in Proc, p \notin RR!Members(q)
    PROVE  /\ RR!InsertNext(q, p) \in Seq(Proc)
           /\ RR!InsertNext(q, p) # << >>
           /\ Distinct(RR!InsertNext(q, p))
           /\ q # << >> => RR!InsertNext(q, p)[1] = q[1]
           /\ RR!Members(RR!InsertNext(q, p)) = RR!Members(q) \cup {p}
<1> DEFINE m == RRP!InsertNext(q, p)
<1>1. RR!InsertNext(q, p) = m /\ RR!Members(q) = RRP!Members(q) /\ RR!Members(m) = RRP!Members(m)
  BY DEF RR!InsertNext, RRP!InsertNext, RR!Members, RRP!Members
<1>2. /\ m \in Seq(Proc) /\ Len(m) = Len(q) + 1
      /\ q # << >> => m[1] = q[1]
      /\ \A i, j \in 1..(Len(q) + 1) : m[i] = m[j] => i = j
      /\ RRP!Members(m) = RRP!Members(q) \cup {p}
  BY <1>1, RRP!InsertNextLemma, RRAssumption DEF Distinct
<1> HIDE DEF m
<1>3. m # << >> /\ Distinct(m)
  BY <1>2 DEF Distinct
<1> QED BY <1>1, <1>2, <1>3

\* Taking the head out.
LEMMA Remove ==
    ASSUME NEW q \in Seq(Proc), Distinct(q), q # << >>, current = q[1]
    PROVE  /\ ExitFrom(q) \in Seq(Proc)
           /\ Distinct(ExitFrom(q))
           /\ RR!Members(ExitFrom(q)) = RR!Members(q) \ {current}
<1>1. 1 \in 1..Len(q)
  OBVIOUS
<1>2. CASE Len(q) = 1
  <2>1. ExitFrom(q) = << >>
    BY <1>2 DEF ExitFrom
  <2>2. RR!Members(q) = {current} /\ RR!Members(<< >>) = {}
    BY <1>2 DEF RR!Members
  <2> QED BY <2>1, <2>2 DEF Distinct
<1>3. CASE Len(q) # 1
  <2> DEFINE m == RRP!RemoveAt(q, 1)
  <2>1. RRP!Pos(q, q[1]) = 1
    BY <1>1, RRP!PosLemma, RRAssumption DEF Distinct
  <2>2. RR!Pos(q, current) = 1
    BY <2>1 DEF RR!Pos, RRP!Pos
  <2>3. ExitFrom(q) = m
    BY <1>3, <2>2 DEF ExitFrom, RR!RemoveAt, RRP!RemoveAt
  <2>4. /\ m \in Seq(Proc) /\ Len(m) = Len(q) - 1
        /\ \A a, b \in 1..(Len(q) - 1) : m[a] = m[b] => a = b
        /\ RRP!Members(m) = RRP!Members(q) \ {q[1]}
    BY <1>1, RRP!RemoveAtLemma, RRAssumption DEF Distinct
  <2>5. RR!Members(q) = RRP!Members(q) /\ RR!Members(m) = RRP!Members(m)
    BY DEF RR!Members, RRP!Members
  <2> HIDE DEF m
  <2>6. Distinct(m)
    BY <2>4 DEF Distinct
  <2> QED BY <2>3, <2>4, <2>5, <2>6
<1> QED BY <1>2, <1>3

\* Electing the next process, and where that process resumes.
LEMMA Schedule ==
    ASSUME NEW q \in Seq(Proc), q # << >>, Distinct(q),
           NEW t \in [Proc -> 0..MaxSleep],
           saved \in [Proc -> {"fresh", "handler", "wait"}], current \in Proc,
           NEW where \in {"handler", "wait"}, NEW irq,
           proc_schedule(q, t, where, irq)
    PROVE  /\ queue' \in Seq(Proc) /\ queue' # << >> /\ Distinct(queue')
           /\ RR!Members(queue') = RR!Members(q)
           /\ sleep_ticks' \in [Proc -> 0..MaxSleep]
           /\ current' = queue'[1] /\ current' \in Proc
           /\ saved' \in [Proc -> {"fresh", "handler", "wait"}]
           /\ \A p \in Proc : saved'[p] = IF p = current THEN where ELSE saved[p]
           /\ mode' = IF saved'[current'] = "wait" THEN "wait" ELSE "user"
           /\ in_service' \in BOOLEAN
<1>1. /\ RR!NextFrom(q, t) /\ current' = queue'[1]
      /\ saved' = [saved EXCEPT ![current] = where]
      /\ mode' = IF saved'[queue'[1]] = "wait" THEN "wait" ELSE "user"
      /\ in_service' = (irq /\ saved'[queue'[1]] # "handler")
  BY DEF proc_schedule
<1>2. RRP!NextFrom(q, t)
  BY <1>1 DEF RR!NextFrom, RRP!NextFrom, RR!FirstReady, RRP!FirstReady, RR!OthersAsleep,
              RRP!OthersAsleep, RR!MoveToHead, RRP!MoveToHead, RR!Rotate, RRP!Rotate,
              RR!Pass, RRP!Pass
<1>3. /\ queue' \in Seq(Proc) /\ Len(queue') = Len(q)
      /\ \A i, j \in 1..Len(q) : queue'[i] = queue'[j] => i = j
      /\ RRP!Members(queue') = RRP!Members(q)
      /\ sleep_ticks' \in [Proc -> 0..MaxSleep]
  BY <1>2, RRP!NextFromLemma, RRAssumption DEF Distinct
<1>4. RR!Members(q) = RRP!Members(q) /\ RR!Members(queue') = RRP!Members(queue')
  BY DEF RR!Members, RRP!Members
<1>5. queue' # << >> /\ queue'[1] \in Proc /\ Distinct(queue')
  BY <1>3 DEF Distinct
<1>6. in_service' \in BOOLEAN
  BY <1>1, Zenon
<1> QED BY <1>1, <1>3, <1>4, <1>5, <1>6

-----------------------------------------------------------------------------
(* The steps.                                                              *)

\* The processes that point at buffer o.
Users(o) == {p \in Live : stdout[p] = o}

\* Users of a buffer are finitely many.
LEMMA UsersFinite == ASSUME NEW o PROVE IsFiniteSet(Users(o))
<1>1. Users(o) \in SUBSET Proc
  BY DEF Users, Live
<1> QED BY <1>1, KernelAssumption, FS_Subset

\* In user mode and in waitpid's loop the running process is live and at the
\* head of the ring.
LEMMA Running ==
    ASSUME KernelInv, mode \in {"user", "wait"}
    PROVE  /\ queue \in Seq(Proc) /\ queue # << >> /\ Distinct(queue)
           /\ current = queue[1] /\ current \in Proc /\ status[current] = "live"
<1>1. /\ queue \in Seq(Proc) /\ queue # << >> /\ current = queue[1]
      /\ RR!Members(queue) = Live /\ Distinct(queue)
  BY DEF KernelInv, Types, RunQueueExact, Distinct
<1>2. current \in RR!Members(queue)
  BY <1>1 DEF RR!Members
<1> QED BY <1>1, <1>2 DEF Live

\* A switch of processes keeps the invariant: the timer, yield, sleep and the
\* turns of waitpid's loop.
LEMMA SwitchStep ==
    ASSUME KernelInv, mode \in {"user", "wait"},
           NEW t \in [Proc -> 0..MaxSleep], NEW irq,
           proc_schedule(queue, t, IF mode = "wait" THEN "wait" ELSE "handler", irq),
           UNCHANGED <<status, waiting, stdout, refcount>>
    PROVE  KernelInv'
<1> DEFINE where == IF mode = "wait" THEN "wait" ELSE "handler"
<1>0. /\ queue \in Seq(Proc) /\ queue # << >> /\ Distinct(queue)
      /\ current \in Proc /\ status[current] = "live"
  BY Running
<1>1. /\ queue' \in Seq(Proc) /\ queue' # << >> /\ Distinct(queue')
      /\ RR!Members(queue') = RR!Members(queue)
      /\ sleep_ticks' \in [Proc -> 0..MaxSleep]
      /\ current' = queue'[1] /\ current' \in Proc
      /\ saved' \in [Proc -> {"fresh", "handler", "wait"}]
      /\ \A p \in Proc : saved'[p] = IF p = current THEN where ELSE saved[p]
      /\ mode' = IF saved'[current'] = "wait" THEN "wait" ELSE "user"
      /\ in_service' \in BOOLEAN
  BY <1>0, Schedule DEF KernelInv, Types
<1>2. Types'
  BY <1>1 DEF KernelInv, Types
<1>3. RunQueueExact'
  BY <1>1 DEF KernelInv, RunQueueExact, Live, Distinct
<1>4. StdoutCounted'
  BY DEF KernelInv, StdoutCounted, Live
<1>5. WaitsParked'
  <2> SUFFICES ASSUME NEW p \in Proc, status[p] = "live"
               PROVE  waiting[p] # NONE <=> saved'[p] = "wait"
    BY <1>1 DEF WaitsParked, Live
  <2>1. waiting[p] # NONE <=> \/ p = current /\ mode = "wait"
                              \/ p # current /\ saved[p] = "wait"
    BY DEF KernelInv, WaitsParked, Live
  <2> QED BY <1>1, <2>1
<1>6. Started'
  BY <1>0, <1>1 DEF KernelInv, Started
<1> QED BY <1>2, <1>3, <1>4, <1>5, <1>6 DEF KernelInv

\* The birth of a process keeps the invariant: kernel_main and exec.
LEMMA BirthStep ==
    ASSUME KernelInv, NEW p \in Proc, proc_run_code(p), in_service' \in BOOLEAN,
           mode = "boot" => queue = << >>,
           UNCHANGED <<sleep_ticks, current, mode, saved, waiting>>
    PROVE  KernelInv'
<1> DEFINE out == IF current = NONE THEN NONE ELSE stdout[current]
<1>0. /\ status[p] = "unborn"
      /\ status' = [status EXCEPT ![p] = "live"]
      /\ queue' = RR!InsertNext(queue, p)
      /\ stdout' = [stdout EXCEPT ![p] = out]
      /\ refcount' = proc_stdout_retain(refcount, out)
  BY DEF proc_run_code
<1>1. /\ queue \in Seq(Proc) /\ Distinct(queue)
      /\ current \in Proc \cup {NONE} /\ status \in [Proc -> {"unborn", "live", "dead"}]
      /\ stdout \in [Proc -> Out \cup {NONE}] /\ refcount \in [Out -> Nat]
      /\ RR!Members(queue) = Live
  BY DEF KernelInv, Types, RunQueueExact, Distinct
<1>2. Live' = Live \cup {p} /\ p \notin Live
  BY <1>0, <1>1 DEF Live
<1>3. /\ queue' \in Seq(Proc) /\ queue' # << >> /\ Distinct(queue')
      /\ queue # << >> => queue'[1] = queue[1]
      /\ RR!Members(queue') = Live \cup {p}
  BY <1>0, <1>1, <1>2, Insert
<1>4. out \in Out \cup {NONE}
  BY <1>1
<1> HIDE DEF out
<1>5. refcount' \in [Out -> Nat]
      /\ \A o \in Out : refcount'[o] = IF o = out THEN refcount[o] + 1 ELSE refcount[o]
  BY <1>0, <1>1, <1>4, KernelAssumption DEF proc_stdout_retain
<1>6. Types'
  BY <1>0, <1>1, <1>3, <1>4, <1>5 DEF KernelInv, Types
<1>7. RunQueueExact'
  <2>1. RR!Members(queue)' = Live'
    BY <1>2, <1>3
  <2>2. (mode \in {"user", "wait"} => queue # << >> /\ current = queue[1])'
    BY <1>3 DEF KernelInv, RunQueueExact
  <2> QED BY <1>3, <2>1, <2>2 DEF RunQueueExact, Distinct
<1>8. StdoutCounted'
  <2>1. ASSUME NEW o \in Out
        PROVE  refcount'[o] = Cardinality({x \in Live' : stdout'[x] = o})
    <3>1. refcount[o] = Cardinality(Users(o)) /\ IsFiniteSet(Users(o)) /\ p \notin Users(o)
      BY <1>2, UsersFinite DEF KernelInv, StdoutCounted, Users
    <3>2. {x \in Live' : stdout'[x] = o} = IF o = out THEN Users(o) \cup {p} ELSE Users(o)
      BY <1>0, <1>1, <1>2 DEF Users, Live
    <3>3. Cardinality(Users(o) \cup {p}) = Cardinality(Users(o)) + 1
      BY <3>1, FS_AddElement
    <3> QED BY <1>5, <3>1, <3>2, <3>3
  <2>2. \A x \in Proc : status'[x] # "live" => stdout'[x] = NONE
    BY <1>0, <1>1 DEF KernelInv, StdoutCounted
  <2> QED BY <2>1, <2>2 DEF StdoutCounted
<1>9. WaitsParked'
  <2> SUFFICES ASSUME NEW x \in Live'
               PROVE  waiting[x] # NONE <=> \/ x = current /\ mode = "wait"
                                            \/ x # current /\ saved[x] = "wait"
    BY DEF WaitsParked
  <2>1. CASE x \in Live
    BY <2>1 DEF KernelInv, WaitsParked
  <2>2. CASE x = p
    <3>1. waiting[p] = NONE /\ saved[p] = "fresh"
      BY <1>0 DEF KernelInv, Started
    <3>2. mode = "wait" => p # current
      BY <1>0, Running
    <3> QED BY <2>2, <3>1, <3>2
  <2> QED BY <1>2, <2>1, <2>2
<1>10. Started'
  BY <1>0, <1>1 DEF KernelInv, Started
<1> QED BY <1>6, <1>7, <1>8, <1>9, <1>10 DEF KernelInv

\* The first jump to user mode keeps the invariant.
LEMMA EnterStep ==
    ASSUME KernelInv, proc_enter_usermode
    PROVE  KernelInv'
<1>1. /\ mode = "boot" /\ queue # << >> /\ current' = queue[1] /\ mode' = "user"
      /\ UNCHANGED <<queue, sleep_ticks, status, saved, waiting, in_service, stdout, refcount>>
  BY DEF proc_enter_usermode
<1>2. queue[1] \in Proc
  BY <1>1 DEF KernelInv, Types
<1>3. Types' /\ Started'
  BY <1>1, <1>2 DEF KernelInv, Types, Started
<1>6. StdoutCounted'
  BY <1>1 DEF KernelInv, StdoutCounted, Live
<1>4. RunQueueExact'
  BY <1>1 DEF KernelInv, RunQueueExact, Live, RR!Members
<1>5. WaitsParked'
  BY <1>1 DEF KernelInv, WaitsParked, Live, Started
<1> QED BY <1>3, <1>4, <1>5, <1>6 DEF KernelInv

\* maketty keeps the invariant: the buffer was unused and gets one user.
LEMMA TtyStep ==
    ASSUME KernelInv, NEW o \in Out, syscall_maketty(o)
    PROVE  KernelInv'
<1>1. /\ mode = "user" /\ stdout[current] = NONE /\ refcount[o] = 0
      /\ refcount' = [refcount EXCEPT ![o] = 1]
      /\ stdout' = [stdout EXCEPT ![current] = o]
      /\ in_service' = FALSE
      /\ UNCHANGED <<queue, sleep_ticks, current, mode, saved, waiting, status>>
  BY DEF syscall_maketty, SyscallReturns
<1>2. current \in Proc /\ status[current] = "live"
  BY <1>1, Running
<1>3. stdout \in [Proc -> Out \cup {NONE}] /\ refcount \in [Out -> Nat]
  BY DEF KernelInv, Types
<1>4. Types'
  BY <1>1, <1>2, <1>3 DEF KernelInv, Types
<1>5. RunQueueExact' /\ WaitsParked' /\ Started'
  BY <1>1 DEF KernelInv, RunQueueExact, WaitsParked, Started, Live, RR!Members
<1>6. StdoutCounted'
  <2>1. ASSUME NEW b \in Out
        PROVE  refcount'[b] = Cardinality({x \in Live' : stdout'[x] = b})
    <3>1. refcount[b] = Cardinality(Users(b)) /\ IsFiniteSet(Users(b)) /\ current \notin Users(b)
      BY <1>1, UsersFinite, KernelAssumption DEF KernelInv, StdoutCounted, Users
    <3>2. {x \in Live' : stdout'[x] = b} = IF b = o THEN Users(b) \cup {current} ELSE Users(b)
      BY <1>1, <1>2, <1>3, KernelAssumption DEF Users, Live
    <3>3. Cardinality(Users(b) \cup {current}) = Cardinality(Users(b)) + 1
      BY <3>1, FS_AddElement
    <3>4. CASE b = o
      <4>1. {x \in Live' : stdout'[x] = b} = Users(b) \cup {current}
        BY <3>2, <3>4
      <4>2. Cardinality(Users(b)) = 0 /\ refcount'[b] = 1
        BY <1>1, <1>3, <3>1, <3>4
      <4>3. Cardinality(Users(b) \cup {current}) = 1
        BY <3>3, <4>2
      <4> QED BY <4>1, <4>2, <4>3
    <3>5. CASE b # o
      BY <1>1, <1>3, <3>1, <3>2, <3>5
    <3> QED BY <3>4, <3>5
  <2>2. \A x \in Proc : status'[x] # "live" => stdout'[x] = NONE
    BY <1>1, <1>2, <1>3 DEF KernelInv, StdoutCounted
  <2> QED BY <2>1, <2>2 DEF StdoutCounted
<1> QED BY <1>4, <1>5, <1>6 DEF KernelInv

\* exit keeps the invariant: the process leaves the ring and drops its buffer.
LEMMA ExitStep ==
    ASSUME KernelInv, proc_exit
    PROVE  KernelInv'
<1> DEFINE out == stdout[current]
           rest == ExitFrom(queue)
<1>0. /\ queue \in Seq(Proc) /\ queue # << >> /\ Distinct(queue)
      /\ current = queue[1] /\ current \in Proc /\ status[current] = "live"
  BY Running DEF proc_exit
<1>1. /\ mode = "user"
      /\ refcount' = proc_stdout_release(refcount, out)
      /\ stdout' = [stdout EXCEPT ![current] = NONE]
      /\ status' = [status EXCEPT ![current] = "dead"]
      /\ waiting' = waiting
  BY DEF proc_exit
<1>2. /\ status \in [Proc -> {"unborn", "live", "dead"}]
      /\ stdout \in [Proc -> Out \cup {NONE}] /\ refcount \in [Out -> Nat]
      /\ sleep_ticks \in [Proc -> 0..MaxSleep]
      /\ saved \in [Proc -> {"fresh", "handler", "wait"}]
      /\ RR!Members(queue) = Live
  BY DEF KernelInv, Types, RunQueueExact
<1>3. rest \in Seq(Proc) /\ Distinct(rest) /\ RR!Members(rest) = Live \ {current}
  BY <1>0, <1>2, Remove
<1>4. Live' = Live \ {current}
  BY <1>0, <1>1, <1>2 DEF Live
<1>5. \A o \in Out : refcount[o] = Cardinality(Users(o)) /\ IsFiniteSet(Users(o))
  BY UsersFinite DEF KernelInv, StdoutCounted, Users
<1>6. out \in Out => refcount[out] > 0
  <2> SUFFICES ASSUME out \in Out PROVE refcount[out] > 0
    OBVIOUS
  <2>1. current \in Users(out)
    BY <1>0 DEF Users, Live
  <2>2. Cardinality(Users(out)) # 0
    BY <1>5, <2>1, FS_EmptySet
  <2> QED BY <1>2, <1>5, <2>2
<1>7. /\ refcount' \in [Out -> Nat]
      /\ \A o \in Out : refcount'[o] = IF o = out THEN refcount[o] - 1 ELSE refcount[o]
  <2>1. CASE out = NONE
    BY <1>1, <1>2, <2>1, KernelAssumption DEF proc_stdout_release
  <2>2. CASE out \in Out
    <3>1. refcount' = [refcount EXCEPT ![out] = @ - 1]
      BY <1>1, <1>6, <2>2, KernelAssumption DEF proc_stdout_release
    <3> QED BY <1>2, <1>6, <2>2, <3>1
  <2> QED BY <1>0, <1>2, <2>1, <2>2
<1>8. StdoutCounted'
  <2>1. ASSUME NEW o \in Out
        PROVE  refcount'[o] = Cardinality({x \in Live' : stdout'[x] = o})
    <3>1. {x \in Live' : stdout'[x] = o} = IF o = out THEN Users(o) \ {current} ELSE Users(o)
      BY <1>0, <1>1, <1>2, <1>4 DEF Users, Live
    <3>2. o = out => current \in Users(o)
      BY <1>0 DEF Users, Live
    <3>3. o = out => Cardinality(Users(o) \ {current}) = Cardinality(Users(o)) - 1
      BY <1>5, <3>2, FS_RemoveElement
    <3> QED BY <1>5, <1>7, <3>1, <3>3
  <2>2. \A x \in Proc : status'[x] # "live" => stdout'[x] = NONE
    BY <1>1, <1>2 DEF KernelInv, StdoutCounted
  <2> QED BY <2>1, <2>2 DEF StdoutCounted
<1> HIDE DEF rest
<1>9. CASE rest # << >> /\ proc_schedule(rest, sleep_ticks, "handler", in_service)
  <2>1. /\ queue' \in Seq(Proc) /\ queue' # << >> /\ Distinct(queue')
        /\ RR!Members(queue') = RR!Members(rest)
        /\ sleep_ticks' \in [Proc -> 0..MaxSleep]
        /\ current' = queue'[1] /\ current' \in Proc
        /\ saved' \in [Proc -> {"fresh", "handler", "wait"}]
        /\ \A p \in Proc : saved'[p] = IF p = current THEN "handler" ELSE saved[p]
        /\ mode' = IF saved'[current'] = "wait" THEN "wait" ELSE "user"
        /\ in_service' \in BOOLEAN
    BY <1>0, <1>2, <1>3, <1>9, Schedule
  <2>2. Types'
    BY <1>1, <1>2, <1>7, <2>1 DEF KernelInv, Types
  <2>3. RunQueueExact'
    <3>1. RR!Members(queue)' = Live'
      BY <1>3, <1>4, <2>1
    <3> QED BY <2>1, <3>1 DEF RunQueueExact, Distinct
  <2>4. WaitsParked'
    <3> SUFFICES ASSUME NEW p \in Live, p # current
                 PROVE  waiting[p] # NONE <=> saved'[p] = "wait"
      BY <1>1, <1>4, <2>1 DEF WaitsParked
    <3>1. waiting[p] # NONE <=> saved[p] = "wait"
      BY DEF KernelInv, WaitsParked
    <3> QED BY <2>1, <3>1 DEF Live
  <2>5. Started'
    BY <1>0, <1>1, <1>2, <2>1 DEF KernelInv, Started
  <2> QED BY <1>8, <2>2, <2>3, <2>4, <2>5 DEF KernelInv
<1>10. CASE /\ rest = << >> /\ queue' = << >> /\ current' = NONE /\ mode' = "halted"
            /\ UNCHANGED <<sleep_ticks, saved, in_service>>
  <2>1. Types'
    BY <1>0, <1>1, <1>2, <1>7, <1>10 DEF KernelInv, Types
  <2>2. Live' = {} /\ RR!Members(<< >>) = {}
    BY <1>3, <1>4, <1>10 DEF RR!Members
  <2>3. RunQueueExact' /\ WaitsParked'
    BY <1>10, <2>2 DEF RunQueueExact, WaitsParked
  <2>4. Started'
    BY <1>0, <1>1, <1>2, <1>10 DEF KernelInv, Started
  <2> QED BY <1>8, <2>1, <2>3, <2>4 DEF KernelInv
<1> QED BY <1>9, <1>10 DEF proc_exit, rest

\* Entering waitpid's loop and leaving it keep the invariant.
LEMMA WaitStep ==
    ASSUME KernelInv, NEW q \in Proc \cup {NONE},
           \/ mode = "user" /\ mode' = "wait" /\ q # NONE
           \/ mode = "wait" /\ mode' = "user" /\ q = NONE,
           waiting' = [waiting EXCEPT ![current] = q], in_service' \in BOOLEAN,
           UNCHANGED <<queue, sleep_ticks, current, status, saved, stdout, refcount>>
    PROVE  KernelInv'
<1>1. current \in Proc /\ status[current] = "live"
  BY Running
<1>2. waiting \in [Proc -> Proc \cup {NONE}]
  BY DEF KernelInv, Types
<1>3. Types'
  BY <1>1, <1>2 DEF KernelInv, Types
<1>4. RunQueueExact'
  BY DEF KernelInv, RunQueueExact, Live, RR!Members
<1>5. StdoutCounted'
  BY DEF KernelInv, StdoutCounted, Live
<1>6. WaitsParked'
  <2> SUFFICES ASSUME NEW p \in Live
               PROVE  waiting'[p] # NONE <=> \/ p = current /\ mode' = "wait"
                                             \/ p # current /\ saved[p] = "wait"
    BY DEF WaitsParked, Live
  <2>1. CASE p = current
    BY <1>1, <1>2, <2>1
  <2>2. CASE p # current
    <3>1. waiting'[p] = waiting[p]
      BY <1>2, <2>2 DEF Live
    <3> QED BY <2>2, <3>1 DEF KernelInv, WaitsParked
  <2> QED BY <2>1, <2>2
<1>7. Started'
  BY <1>1, <1>2 DEF KernelInv, Started
<1> QED BY <1>3, <1>4, <1>5, <1>6, <1>7 DEF KernelInv

\* The inductive invariant holds throughout.
LEMMA KernelInvariant == Spec => []KernelInv
<1>1. Init => KernelInv
  <2> SUFFICES ASSUME Init PROVE KernelInv
    OBVIOUS
  <2>1. Types
    <3>1. queue \in Seq(Proc)
      BY DEF Init
    <3>2. sleep_ticks \in [Proc -> 0..MaxSleep]
      BY RRAssumption DEF Init
    <3>3. in_service \in BOOLEAN
      BY Zenon DEF Init
    <3>4. refcount \in [Out -> Nat]
      BY DEF Init
    <3> QED BY <3>1, <3>2, <3>3, <3>4, Zenon DEF Init, Types
  <2>2. Live = {} /\ RR!Members(<< >>) = {}
    BY DEF Init, Live, RR!Members
  <2>3. RunQueueExact /\ WaitsParked /\ Started
    BY <2>2 DEF Init, RunQueueExact, WaitsParked, Started
  <2>4. StdoutCounted
    <3>1. \A o \in Out : {p \in Live : stdout[p] = o} = {}
      BY <2>2
    <3> QED BY <3>1, FS_EmptySet DEF Init, StdoutCounted
  <2> QED BY <2>1, <2>3, <2>4 DEF KernelInv
<1>2. KernelInv /\ [Next]_vars => KernelInv'
  <2> SUFFICES ASSUME KernelInv, [Next]_vars PROVE KernelInv'
    OBVIOUS
  <2>t. sleep_ticks \in [Proc -> 0..MaxSleep] /\ in_service \in BOOLEAN
    BY DEF KernelInv, Types
  <2>1. ASSUME NEW p \in Proc, kernel_main(p) PROVE KernelInv'
    <3>1. in_service' \in BOOLEAN
      BY <2>1, <2>t DEF kernel_main
    <3> QED BY <2>1, <3>1, BirthStep DEF kernel_main
  <2>2. CASE proc_enter_usermode
    BY <2>2, EnterStep
  <2>3. CASE proc_timer_callback
    BY <2>3, <2>t, SwitchStep DEF proc_timer_callback
  <2>4. CASE syscall_yield
    BY <2>4, <2>t, SwitchStep DEF syscall_yield
  <2>5. ASSUME NEW n \in 0..MaxSleep, syscall_sleep(n) PROVE KernelInv'
    <3>1. [sleep_ticks EXCEPT ![current] = n] \in [Proc -> 0..MaxSleep]
      BY <2>t
    <3> QED BY <2>5, <3>1, SwitchStep DEF syscall_sleep
  <2>6. ASSUME NEW p \in Proc, syscall_exec(p) PROVE KernelInv'
    BY <2>6, BirthStep DEF syscall_exec
  <2>7. ASSUME NEW p \in Proc, syscall_waitpid(p) PROVE KernelInv'
    BY <2>7, <2>t, WaitStep, RRAssumption DEF syscall_waitpid
  <2>8. CASE syscall_plain
    <3>1. Types'
      BY <2>8 DEF syscall_plain, SyscallReturns, KernelInv, Types
    <3>2. RunQueueExact' /\ StdoutCounted' /\ WaitsParked' /\ Started'
      BY <2>8 DEF syscall_plain, SyscallReturns, KernelInv, RunQueueExact, StdoutCounted,
                  WaitsParked, Started, Live, RR!Members
    <3> QED BY <3>1, <3>2 DEF KernelInv
  <2>9. ASSUME NEW o \in Out, syscall_maketty(o) PROVE KernelInv'
    BY <2>9, TtyStep
  <2>10. CASE proc_exit
    BY <2>10, ExitStep
  <2>11. CASE waitpid_loop
    <3>1. CASE sched_exists(waiting[current])
      BY <2>11, <3>1, <2>t, SwitchStep DEF waitpid_loop
    <3>2. CASE ~sched_exists(waiting[current])
      BY <2>11, <3>2, WaitStep DEF waitpid_loop
    <3> QED BY <3>1, <3>2
  <2>12. CASE UNCHANGED vars
    <3>1. Types'
      BY <2>12 DEF vars, KernelInv, Types
    <3>2. RunQueueExact' /\ StdoutCounted' /\ WaitsParked' /\ Started'
      BY <2>12 DEF vars, KernelInv, RunQueueExact, StdoutCounted,
                   WaitsParked, Started, Live, RR!Members
    <3> QED BY <3>1, <3>2 DEF KernelInv
  <2> QED BY <2>1, <2>2, <2>3, <2>4, <2>5, <2>6, <2>7, <2>8, <2>9, <2>10, <2>11, <2>12 DEF Next
<1> QED BY <1>1, <1>2, PTL DEF Spec

\* For any number of processes: the ring holds exactly the live processes, each
\* once, and the one that runs is at its head.
THEOREM RunQueueIsLive == Spec => []RunQueueExact
<1>1. KernelInv => RunQueueExact
  BY DEF KernelInv
<1> QED BY <1>1, KernelInvariant, PTL

\* For any number of processes and buffers: a stdout buffer's reference count
\* is the number of live processes that write to it, so it is freed neither
\* early nor late (proc_stdout_retain, proc_stdout_release).
THEOREM StdoutRefsExact == Spec => []StdoutCounted
<1>1. KernelInv => StdoutCounted
  BY DEF KernelInv
<1> QED BY <1>1, KernelInvariant, PTL

\* A process resumes inside waitpid exactly while it waits for somebody, across
\* any number of switches to it and away from it.
THEOREM WaitersResumeWaiting == Spec => []WaitsParked
<1>1. KernelInv => WaitsParked
  BY DEF KernelInv
<1> QED BY <1>1, KernelInvariant, PTL

\* waitpid returns to its caller only once the process it waits for is gone.
THEOREM WaitpidWaits == Spec => WaitOutlivesChild
<1> DEFINE P == \A p \in Proc : waiting[p] # NONE /\ waiting'[p] = NONE
                                  => status[waiting[p]] # "live"
<1>1. KernelInv /\ [Next]_vars => [P]_vars
  <2> SUFFICES ASSUME KernelInv, Next, NEW p \in Proc, waiting[p] # NONE, waiting'[p] = NONE
               PROVE  status[waiting[p]] # "live"
    OBVIOUS
  <2>1. waiting \in [Proc -> Proc \cup {NONE}] /\ RR!Members(queue) = Live
    BY DEF KernelInv, Types, RunQueueExact
  <2>2. waiting' # waiting
    OBVIOUS
  <2>3. ASSUME NEW q \in Proc, syscall_waitpid(q) PROVE FALSE
    BY <2>1, <2>3, RRAssumption DEF syscall_waitpid
  <2>4. waitpid_loop
    BY <2>2, <2>3 DEF Next, kernel_main, proc_enter_usermode, proc_timer_callback, syscall_yield,
       syscall_sleep, syscall_exec, syscall_plain, SyscallReturns, syscall_maketty, proc_exit
  <2>5. ~sched_exists(waiting[current]) /\ waiting' = [waiting EXCEPT ![current] = NONE]
    BY <2>2, <2>4 DEF waitpid_loop
  <2>6. p = current
    BY <2>1, <2>5
  <2> QED BY <2>1, <2>5, <2>6 DEF sched_exists, Live
<1> QED BY <1>1, KernelInvariant, PTL DEF Spec, WaitOutlivesChild
=============================================================================
