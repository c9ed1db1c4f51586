------------------------------- MODULE Kernel -------------------------------
(***************************************************************************)
(* The life of processes (kernel/src/sys/proc.c, the scheduling system     *)
(* calls of syscall.c, the interrupt path of isr.c and interrupt.asm),     *)
(* composed with the run queue of RoundRobin.                              *)
(*                                                                         *)
(* Every interrupt and system call enters the kernel with interrupts off,  *)
(* so user code can be interrupted anywhere but a handler runs until it    *)
(* returns to user mode or switches stacks in proc_switch_process.  The    *)
(* one handler that can stay in the kernel is waitpid, which calls the     *)
(* scheduler in a loop: each turn of its loop is a step (mode "wait").     *)
(*                                                                         *)
(* A process switched away from resumes where its kernel stack was saved:  *)
(*   "fresh"    at irq_handler_end, set up by proc_run_code: straight to   *)
(*              iret, without isr_irq_handler's tail;                      *)
(*   "handler"  inside a handler called by isr_irq_handler (the timer's,   *)
(*              yield, sleep), whose tail sends the EOI before iret;       *)
(*   "wait"     inside the loop of syscall_waitpid.                        *)
(***************************************************************************)
EXTENDS SchedConsts, Sequences, FiniteSets

CONSTANTS Out        \* proc_stdout_t objects the kernel heap can hand out

ASSUME KernelAssumption == /\ NONE \notin Out
                           /\ IsFiniteSet(Proc)

VARIABLES queue, sleep_ticks,  \* the scheduler: see RoundRobin
          current,             \* current_process
          status,              \* "unborn", "live" or "dead"
          mode,                \* "boot", "user", "wait" or "halted"
          saved,               \* where saved_kernel_stack resumes the process
          waiting,             \* the pid a process in waitpid waits for
          in_service,          \* the PIC holds IRQ0 in service: no EOI sent yet
          stdout,              \* process_t.stdout
          refcount             \* proc_stdout_t.refcount, 0 when freed

vars == <<queue, sleep_ticks, current, status, mode, saved, waiting, in_service,
          stdout, refcount>>

Live == {p \in Proc : status[p] = "live"}

RR == INSTANCE RoundRobin WITH elected <- current, added <- {p \in Proc : status[p] # "unborn"}

Init == /\ queue = << >>
        /\ sleep_ticks = [p \in Proc |-> 0]
        /\ current = NONE
        /\ status = [p \in Proc |-> "unborn"]
        /\ mode = "boot"
        /\ saved = [p \in Proc |-> "fresh"]
        /\ waiting = [p \in Proc |-> NONE]
        /\ in_service = FALSE
        /\ stdout = [p \in Proc |-> NONE]
        /\ refcount = [o \in Out |-> 0]

-----------------------------------------------------------------------------
(* Helpers.                                                                *)

\* Plausible bugs, used to test the properties.
RetainForgotten(rc, o) == rc
ExitLeavesRing(q) == q
ScheduleLosesSaved(q, t, where, irq) ==
    /\ RR!NextFrom(q, t)
    /\ current' = queue'[1]
    /\ saved' = saved
    /\ mode' = IF saved[queue'[1]] = "wait" THEN "wait" ELSE "user"
    /\ in_service' = FALSE
ExistsMissesLast(q) == \E i \in 1..(Len(queue) - 1) : queue[i] = q
ExistsAlways(q) == TRUE

proc_stdout_retain(rc, o) == IF o = NONE THEN rc ELSE [rc EXCEPT ![o] = @ + 1]

proc_stdout_release(rc, o) == IF o = NONE \/ rc[o] = 0 THEN rc ELSE [rc EXCEPT ![o] = @ - 1]

\* scheduler->sched_exists.
sched_exists(q) == q \in RR!Members(queue)

\* scheduler->sched_exit(current_process) on the ring.
ExitFrom(q) == IF Len(q) = 1 THEN << >>
               ELSE RR!RemoveAt(q, RR!Pos(q, current))

\* proc_schedule with the ring q and ticks t, called by code that goes on at
\* `where' once the current process is resumed.  irq: IRQ0 was in service.
\* The tail of isr_irq_handler sends the EOI unless the resumed process is
\* fresh, or still in its waitpid loop.
proc_schedule(q, t, where, irq) ==
    /\ RR!NextFrom(q, t)
    /\ current' = queue'[1]
    /\ saved' = [saved EXCEPT ![current] = where]
    /\ LET at == saved'[queue'[1]]
       IN  /\ mode' = IF at = "wait" THEN "wait" ELSE "user"
           /\ in_service' = (irq /\ at # "handler")

\* A system call that neither schedules nor ends the process.
SyscallReturns == /\ in_service' = FALSE
                  /\ UNCHANGED <<queue, sleep_ticks, current, mode, saved, waiting>>

-----------------------------------------------------------------------------
(* Boot.                                                                   *)

\* The process struct, its kernel stack prepared to start at irq_handler_end,
\* its stdout shared with the creator's, queued behind the running process.
proc_run_code(p) ==
    /\ status[p] = "unborn"
    /\ status' = [status EXCEPT ![p] = "live"]
    /\ queue' = RR!InsertNext(queue, p)
    /\ LET out == IF current = NONE THEN NONE ELSE stdout[current]
       IN  /\ stdout' = [stdout EXCEPT ![p] = out]
           /\ refcount' = proc_stdout_retain(refcount, out)

\* kernel_main starts the first program.
kernel_main(p) == /\ mode = "boot"
                  /\ queue = << >>
                  /\ proc_run_code(p)
                  /\ UNCHANGED <<sleep_ticks, current, mode, saved, waiting, in_service>>

\* The first jump to user mode.
proc_enter_usermode == /\ mode = "boot"
                       /\ queue # << >>
                       /\ current' = queue[1]
                       /\ mode' = "user"
                       /\ UNCHANGED <<queue, sleep_ticks, status, saved, waiting, in_service, stdout, refcount>>

-----------------------------------------------------------------------------
(* Interrupts and system calls taken from user mode.                       *)

\* The timer interrupt.  The PIC does not deliver it while IRQ0 is in service.
proc_timer_callback ==
    /\ mode = "user"
    /\ ~in_service
    /\ proc_schedule(queue, sleep_ticks, "handler", TRUE)
    /\ UNCHANGED <<status, waiting, stdout, refcount>>

syscall_yield ==
    /\ mode = "user"
    /\ proc_schedule(queue, sleep_ticks, "handler", in_service)
    /\ UNCHANGED <<status, waiting, stdout, refcount>>

\* n is the number of ticks: at least one unless ms = 0.
syscall_sleep(n) ==
    /\ mode = "user"
    /\ proc_schedule(queue, [sleep_ticks EXCEPT ![current] = n], "handler", in_service)
    /\ UNCHANGED <<status, waiting, stdout, refcount>>

syscall_exec(p) == /\ mode = "user"
                   /\ proc_run_code(p)
                   /\ in_service' = FALSE
                   /\ UNCHANGED <<sleep_ticks, current, mode, saved, waiting>>

\* getpid, a failing exec, and every other call that leaves this state alone.
syscall_plain == /\ mode = "user"
                 /\ SyscallReturns
                 /\ UNCHANGED <<status, stdout, refcount>>

syscall_maketty(o) == /\ mode = "user"
                      /\ stdout[current] = NONE
                      /\ refcount[o] = 0
                      /\ refcount' = [refcount EXCEPT ![o] = 1]
                      /\ stdout' = [stdout EXCEPT ![current] = o]
                      /\ SyscallReturns
                      /\ UNCHANGED status

\* exit, or a page fault in user mode: the process leaves the ring and the
\* kernel never returns to it.  With nobody left the kernel halts.
proc_exit ==
    /\ mode = "user"
    /\ refcount' = proc_stdout_release(refcount, stdout[current])
    /\ stdout' = [stdout EXCEPT ![current] = NONE]
    /\ status' = [status EXCEPT ![current] = "dead"]
    /\ \/ /\ ExitFrom(queue) # << >>
          /\ proc_schedule(ExitFrom(queue), sleep_ticks, "handler", in_service)
       \/ /\ ExitFrom(queue) = << >>
          /\ queue' = << >>
          /\ current' = NONE
          /\ mode' = "halted"
          /\ UNCHANGED <<sleep_ticks, saved, in_service>>
    /\ UNCHANGED waiting

\* waitpid enters its loop; the loop itself is waitpid_loop.
syscall_waitpid(q) == /\ mode = "user"
                      /\ waiting' = [waiting EXCEPT ![current] = q]
                      /\ mode' = "wait"
                      /\ UNCHANGED <<queue, sleep_ticks, current, status, saved, in_service, stdout, refcount>>

\* One test of the loop: schedule while the pid exists, else return 0.
waitpid_loop ==
    /\ mode = "wait"
    /\ \/ /\ sched_exists(waiting[current])
          /\ proc_schedule(queue, sleep_ticks, "wait", in_service)
          /\ UNCHANGED waiting
       \/ /\ ~sched_exists(waiting[current])
          /\ waiting' = [waiting EXCEPT ![current] = NONE]
          /\ mode' = "user"
          /\ in_service' = FALSE
          /\ UNCHANGED <<queue, sleep_ticks, current, saved>>
    /\ UNCHANGED <<status, stdout, refcount>>

Next == \/ \E p \in Proc : kernel_main(p)
        \/ proc_enter_usermode
        \/ proc_timer_callback
        \/ syscall_yield
        \/ \E n \in 0..MaxSleep : syscall_sleep(n)
        \/ \E p \in Proc : syscall_exec(p) \/ syscall_waitpid(p)
        \/ syscall_plain
        \/ \E o \in Out : syscall_maketty(o)
        \/ proc_exit
        \/ waitpid_loop

\* The PIT raises IRQ0 for ever and the PIC latches it, so the interrupt is
\* taken if it is deliverable again and again (strong fairness); kernel code
\* runs on by itself (weak fairness).  User programs promise nothing.
Spec == /\ Init /\ [][Next]_vars
        /\ WF_vars(proc_enter_usermode)
        /\ WF_vars(waitpid_loop)
        /\ SF_vars(proc_timer_callback)

-----------------------------------------------------------------------------

\* The types of the kernel's process state.
TypeOK == /\ queue \in Seq(Proc)
          /\ sleep_ticks \in [Proc -> 0..MaxSleep]
          /\ current \in Proc \cup {NONE}
          /\ status \in [Proc -> {"unborn", "live", "dead"}]
          /\ mode \in {"boot", "user", "wait", "halted"}
          /\ saved \in [Proc -> {"fresh", "handler", "wait"}]
          /\ waiting \in [Proc -> Proc \cup {NONE}]
          /\ in_service \in BOOLEAN
          /\ stdout \in [Proc -> Out \cup {NONE}]
          /\ refcount \in [Out -> 0..Cardinality(Proc)]

\* The ring holds each process that was started and has not exited exactly
\* once, with current_process at its head whenever it runs (sched_exit and
\* sched_add rely on it): exec, exit and the relinking of sched_next together
\* lose nobody and keep no dead process, whose kernel stack would be resumed.
RunQueueExact == /\ RR!Members(queue) = Live
                 /\ \A i, j \in 1..Len(queue) : queue[i] = queue[j] => i = j
                 /\ mode \in {"user", "wait"} => queue # << >> /\ current = queue[1]

\* stdout capture buffers are shared with children: the count is the number of
\* live processes that point at the buffer, so it is freed by the last exit and
\* never while a process can still write to it.
StdoutCounted == /\ \A o \in Out : refcount[o] = Cardinality({p \in Live : stdout[p] = o})
                 /\ \A p \in Proc : status[p] # "live" => stdout[p] = NONE

\* A process is parked inside waitpid exactly while it has somebody to wait
\* for, and the kernel never returns from waitpid while that pid is queued
\* (syscall_waitpid's loop, across any number of switches).
WaitsParked == \A p \in Live :
    waiting[p] # NONE <=> \/ p = current /\ mode = "wait"
                          \/ p # current /\ saved[p] = "wait"

\* waitpid returns 0 only when the process it waits for is gone.
WaitOutlivesChild == [][\A p \in Proc : waiting[p] # NONE /\ waiting'[p] = NONE
                                          => status[waiting[p]] # "live"]_vars

\* isr.c on isr_irq_handler: "invoke isr routine and send eoi to pic".  No
\* user code runs with the timer interrupt still in service.
TimerAcknowledged == mode = "user" => ~in_service

\* As long as the PIC gets its EOIs, every live process is eventually resumed
\* or exits, whatever the other programs do (they may spin in user code, wait
\* for each other or sleep).
EveryoneRuns == []<>(~in_service) =>
    \A p \in Proc : status[p] = "live" ~> current = p \/ status[p] = "dead"

\* As long as the PIC gets its EOIs, waitpid returns once its target is dead.
WaitReturns == []<>(~in_service) =>
    \A p, q \in Proc : waiting[p] = q /\ status[q] = "dead" ~> waiting[p] = NONE
=============================================================================
