------------------------------ MODULE Startup -------------------------------
(***************************************************************************)
(* How the desktop comes up: /bin/startwm (userspace/src/startwm.c) starts *)
(* the window manager and the background program, which then talk over     *)
(* /dev/wm (DevWm), scheduled by the kernel's run queue (RoundRobin).      *)
(* Between two system calls the timer may switch processes.                *)
(*                                                                         *)
(* Of the window manager only the requests of this session are modelled;   *)
(* it finds its framebuffer and shared memory, so it does not exit, and    *)
(* startwm stays in waitpid.                                               *)
(***************************************************************************)
EXTENDS DevWm

CONSTANTS StartWm, Wm, Bg,  \* the processes
          MaxSpins          \* polls of wm_open_window_ipc (500)

ASSUME StartupAssumption == /\ Pid = {StartWm, Wm, Bg}
                            /\ StartWm # Wm /\ StartWm # Bg /\ Wm # Bg
                            /\ Type = {"nop", "create", "close", "create_reply"}
                            /\ MaxSpins \in Nat

VARIABLES queue, sleep_ticks, current,  \* the scheduler
          pc,       \* where each program is
          spins,    \* polls the background has made for this window
          opened,   \* windows open_window has returned to the background
          windows   \* windows of the background in the window manager

svars == <<g_eps, queues, g_server_pid, queue, sleep_ticks, current, pc, spins, opened, windows>>
dev == <<g_eps, queues, g_server_pid>>
sched == <<queue, sleep_ticks, current>>

MaxSleep == 5  \* the longest sleep in ticks at 100 Hz: sleep(50)

RR == INSTANCE RoundRobin WITH Proc <- Pid, NONE <- Nobody, elected <- current,
                               added <- {p \in Pid : pc[p] # "unborn"}

SInit == /\ Init
         /\ queue = <<StartWm>>
         /\ sleep_ticks = [p \in Pid |-> 0]
         /\ current = StartWm
         /\ pc = [p \in Pid |-> IF p = StartWm THEN "exec_wm" ELSE "unborn"]
         /\ spins = 0
         /\ opened = 0
         /\ windows = 0

Goto(p, label) == pc' = [pc EXCEPT ![p] = label]

\* proc_schedule with the run queue q and ticks t.
Switch(q, t) == RR!NextFrom(q, t) /\ current' = queue'[1]

\* sleep for n ticks, then the next process.  sleep(1) and sleep(5) are one tick.
Sleep(p, n) == Switch(queue, [sleep_ticks EXCEPT ![p] = n])

\* The message p would read next.
Readable(p) == HasEp(g_eps, p) /\ queues[find_ep(g_eps, p)] # << >>
NextMsg(p) == queues[find_ep(g_eps, p)][1]

\* Plausible bugs, used to test the properties.
AcceptAnyMessage(m) == TRUE
PollForgetsSpin == /\ current = Bg
                   /\ pc[Bg] = "poll"
                   /\ ~Readable(Bg)
                   /\ Sleep(Bg, 1)
                   /\ UNCHANGED <<dev, pc, spins, opened, windows>>

\* The timer interrupts user code; waitpid's loop runs in the kernel.
proc_timer_callback == /\ pc[current] # "waitpid"
                       /\ Switch(queue, sleep_ticks)
                       /\ UNCHANGED <<dev, pc, spins, opened, windows>>

-----------------------------------------------------------------------------
(* startwm                                                                 *)

\* Two exec calls; each queues the new process right behind the caller.
startwm_exec == /\ current = StartWm
                /\ \/ /\ pc[StartWm] = "exec_wm"
                      /\ queue' = RR!InsertNext(queue, Wm)
                      /\ pc' = [pc EXCEPT ![StartWm] = "exec_bg", ![Wm] = "hello"]
                   \/ /\ pc[StartWm] = "exec_bg"
                      /\ queue' = RR!InsertNext(queue, Bg)
                      /\ pc' = [pc EXCEPT ![StartWm] = "waitpid", ![Bg] = "create"]
                /\ UNCHANGED <<dev, sleep_ticks, current, spins, opened, windows>>

\* waitpid for the window manager, which stays.
startwm_waitpid == /\ current = StartWm
                   /\ pc[StartWm] = "waitpid"
                   /\ Switch(queue, sleep_ticks)
                   /\ UNCHANGED <<dev, pc, spins, opened, windows>>

-----------------------------------------------------------------------------
(* wm                                                                      *)

\* "Become /dev/wm server (first writer)."
wm_hello == /\ current = Wm
            /\ pc[Wm] = "hello"
            /\ dev_wm_write(Wm, Nobody, "nop")
            /\ Goto(Wm, "loop")
            /\ UNCHANGED <<sched, spins, opened, windows>>

\* Read a message: a CREATE gets a window, a CLOSE removes one.
wm_receive == /\ current = Wm
              /\ pc[Wm] = "loop"
              /\ Readable(Wm)
              /\ dev_wm_read(Wm)
              /\ LET type == NextMsg(Wm).type
                 IN  /\ windows' = CASE type = "create" -> windows + 1
                                     [] type = "close" -> windows - 1
                                     [] OTHER -> windows
                     /\ IF type = "create" THEN Goto(Wm, "reply") ELSE UNCHANGED pc
              /\ UNCHANGED <<sched, spins, opened>>

wm_reply == /\ current = Wm
            /\ pc[Wm] = "reply"
            /\ dev_wm_write(Wm, Bg, "create_reply")
            /\ Goto(Wm, "loop")
            /\ UNCHANGED <<sched, spins, opened, windows>>

\* Nothing to read: the end of the main loop sleeps.
wm_idle == /\ current = Wm
           /\ pc[Wm] = "loop"
           /\ ~Readable(Wm)
           /\ Sleep(Wm, 1)
           /\ UNCHANGED <<dev, pc, spins, opened, windows>>

-----------------------------------------------------------------------------
(* background: open_window twice                                           *)

\* wm_open_window_ipc sends CREATE to the server.
bg_create == /\ current = Bg
             /\ pc[Bg] = "create"
             /\ dev_wm_write(Bg, Nobody, "create")
             /\ Goto(Bg, "poll")
             /\ spins' = 0
             /\ UNCHANGED <<sched, opened, windows>>

\* A message that wm_open_window_ipc takes for its answer.  The req_id it also
\* compares always agrees here: the background gives up with the first window
\* it does not get, so no answer to an earlier request can come in.
IsReply(m) == m.type = "create_reply"

\* One poll that reads a message: the answer; a short message, which is dropped;
\* or one longer than an answer, which wm_recv drops with an error and sleeps on.
bg_poll_message ==
    /\ current = Bg
    /\ pc[Bg] = "poll"
    /\ spins < MaxSpins
    /\ Readable(Bg)
    /\ dev_wm_read(Bg)
    /\ \/ /\ IsReply(NextMsg(Bg))
          /\ opened' = opened + 1
          /\ Goto(Bg, IF opened = 0 THEN "create" ELSE "up")
          /\ UNCHANGED <<sched, spins>>
       \/ /\ ~IsReply(NextMsg(Bg))
          /\ IF NextMsg(Bg).type = "create" THEN Sleep(Bg, 1) ELSE UNCHANGED sched
          /\ spins' = spins + 1
          /\ UNCHANGED <<opened, pc>>
    /\ UNCHANGED windows

\* One poll that reads nothing sleeps.
bg_poll_empty == /\ current = Bg
                 /\ pc[Bg] = "poll"
                 /\ spins < MaxSpins
                 /\ ~Readable(Bg)
                 /\ spins' = spins + 1
                 /\ Sleep(Bg, 1)
                 /\ UNCHANGED <<dev, pc, opened, windows>>

\* Out of polls: open_window returns NULL.  "background: window manager is not
\* running"; the first window, if there, is closed, and main returns.
bg_timeout == /\ current = Bg
              /\ pc[Bg] = "poll"
              /\ spins = MaxSpins
              /\ Goto(Bg, IF opened = 1 THEN "close" ELSE "exit")
              /\ UNCHANGED <<dev, sched, spins, opened, windows>>

bg_close == /\ current = Bg
            /\ pc[Bg] = "close"
            /\ dev_wm_write(Bg, Nobody, "close")
            /\ opened' = 0
            /\ Goto(Bg, "exit")
            /\ UNCHANGED <<sched, spins, windows>>

\* proc_exit: /dev/wm is not told.
bg_exit == /\ current = Bg
           /\ pc[Bg] = "exit"
           /\ Goto(Bg, "gone")
           /\ Switch(RR!RemoveAt(queue, 1), sleep_ticks)
           /\ UNCHANGED <<dev, spins, opened, windows>>

\* The service loop: poll for events, sleep(50).
bg_idle == /\ current = Bg
           /\ pc[Bg] = "up"
           /\ Sleep(Bg, 5)
           /\ UNCHANGED <<dev, pc, spins, opened, windows>>

SNext == \/ proc_timer_callback
         \/ startwm_exec \/ startwm_waitpid
         \/ wm_hello \/ wm_receive \/ wm_reply \/ wm_idle
         \/ bg_create \/ bg_poll_message \/ bg_poll_empty \/ bg_timeout
         \/ bg_close \/ bg_exit \/ bg_idle

WmStep == wm_hello \/ wm_receive \/ wm_reply \/ wm_idle
BgStep == \/ bg_create \/ bg_poll_message \/ bg_poll_empty \/ bg_timeout
          \/ bg_close \/ bg_exit

SSpec == SInit /\ [][SNext]_svars

\* A time slice is long enough for a program that gets the CPU again and again
\* to reach its next system call; the timer and the waitpid loop always go on.
SFairSpec == /\ SSpec
             /\ WF_svars(proc_timer_callback) /\ WF_svars(startwm_waitpid)
             /\ SF_svars(startwm_exec) /\ SF_svars(WmStep) /\ SF_svars(BgStep)

-----------------------------------------------------------------------------

\* What the background was given exists: open_window returns only windows the
\* window manager holds, whatever is dropped, late or echoed in between, and at
\* most one window (of an answer not yet read) is unknown to the background.
WindowsAgree == /\ pc[Bg] \in {"create", "poll", "up"} => windows - opened \in 0..1
                /\ pc[Bg] = "up" => windows = 2

\* Whoever became the server, and however slowly the window manager answers,
\* open_window does not hang: the background is up or has given up.
BackgroundSettles == <>(pc[Bg] \in {"up", "gone"})

\* wm.c: "Become /dev/wm server (first writer)."  The window manager, and not
\* a program started after it, becomes the server.
WmIsServer == g_server_pid \in {Nobody, Wm}
=============================================================================
