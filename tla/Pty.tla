-------------------------------- MODULE Pty ---------------------------------
(***************************************************************************)
(* The line discipline of a pseudo terminal (fs/dev/dev_pty.c) as          *)
(* functions on its state: what a write to the master or to the slave      *)
(* makes of it.  The terminal settings are the ones pty_create gives every *)
(* pty (ICRNL, ONLCR, ECHO, ICANON): no program of the system changes them.*)
(* Each call runs with interrupts off and is one step of who makes it.     *)
(*                                                                         *)
(* Characters are named: "nl", "cr", "bs", "tab", "ff", "sp" and others    *)
(* that stand for themselves.                                              *)
(***************************************************************************)
EXTENDS Integers, SequencesExt

CONSTANTS PTY_BUF_CAP,   \* each FIFO holds one byte less
          PTY_LINE_CAP   \* the line buffer holds one byte less

ASSUME PtyAssumption == PTY_BUF_CAP \in Nat \ {0} /\ PTY_LINE_CAP \in Nat \ {0}

\* pty_create: master_read is data to the master, master_write data to the slave.
NewPty == [master_read |-> << >>, master_write |-> << >>, line_buf |-> << >>]

fifo_free(fifo) == PTY_BUF_CAP - Len(fifo) - 1

\* What does not fit is dropped.
fifo_write(fifo, data) == fifo \o SubSeq(data, 1, Min({Len(data), fifo_free(fifo)}))

\* A read takes at most size bytes and never waits.
Taken(fifo, size) == SubSeq(fifo, 1, Min({size, Len(fifo)}))
Left(fifo, size) == SubSeq(fifo, Min({size, Len(fifo)}) + 1, Len(fifo))

\* ONLCR: a newline goes out as carriage return and newline.
Onlcr(data) == FlattenSeq([i \in DOMAIN data |-> IF data[i] = "nl" THEN <<"cr", "nl">> ELSE <<data[i]>>])

pty_write_output(pty, data) == [pty EXCEPT !.master_read = fifo_write(@, Onlcr(data))]

pty_echo_backspace(pty) == pty_write_output(pty, <<"bs", "sp", "bs">>)

\* Plausible bugs, used to test the properties.
CommitKeepsLine(pty) == [pty EXCEPT !.master_write = fifo_write(@, Append(pty.line_buf, "nl"))]
EraseAlwaysEchoes(pty) == [pty_echo_backspace(pty) EXCEPT
                              !.line_buf = IF @ = << >> THEN @ ELSE Front(@)]

\* The line and its newline become readable, as far as they fit.
pty_commit_line(pty) == [pty EXCEPT !.master_write = fifo_write(@, Append(pty.line_buf, "nl")),
                                    !.line_buf = << >>]

\* Backspace takes back a character of the line that is not committed yet.
Erase(pty) == IF pty.line_buf = << >> THEN pty
              ELSE [pty_echo_backspace(pty) EXCEPT !.line_buf = Front(@)]

\* One character written to the master, with pty_translate_input's ICRNL.
pty_master_write(pty, ch) ==
    LET c == IF ch = "cr" THEN "nl" ELSE ch
    IN  CASE c = "bs" -> Erase(pty)
          [] c = "nl" -> pty_write_output(pty_commit_line(pty), <<c>>)
          [] c \notin {"bs", "nl"} /\ Len(pty.line_buf) < PTY_LINE_CAP - 1 ->
                pty_write_output([pty EXCEPT !.line_buf = Append(@, c)], <<c>>)
          [] OTHER -> pty

pty_master_read(pty, size) == [pty EXCEPT !.master_read = Left(@, size)]
pty_slave_read(pty, size) == [pty EXCEPT !.master_write = Left(@, size)]
pty_slave_write(pty, data) == pty_write_output(pty, data)
=============================================================================
