------------------------------ MODULE Terminal -------------------------------
(***************************************************************************)
(* From the keyboard to the commands a shell runs and back to the screen.  *)
(* In the "pty" mode the keys are events of a terminal window              *)
(* (userspace/src/terminal.c), which writes them to a pty and shows what   *)
(* it reads from it; the shell (userspace/src/shell.c) has the slave as    *)
(* its standard files.  In the "console" mode, the one the system boots    *)
(* into, the shell reads the tty ring and edits and echoes by itself.      *)
(* Which program a line starts is left open: what matters is that it       *)
(* writes to the same screen, and that the shell waits for it.             *)
(***************************************************************************)
EXTENDS Pty, Picking

CONSTANTS Key,             \* what may be typed
          Output,          \* what a program may write
          MaxKeys,         \* bound: keys typed
          MaxEvents,       \* bound: events waiting for the terminal
          TTYQ_LEN,        \* the tty ring
          SHELL_MAX_LINE,
          CHUNK,           \* bytes the terminal reads at once (256)
          MAX_COL, MAX_LINE  \* the terminal's window

\* The keyboard has neither carriage return, Enter is "nl" in both key tables,
\* nor form feed.
ASSUME TerminalAssumption == /\ Key \cap {"cr", "ff"} = {}
                             /\ TTYQ_LEN \in Nat \ {0, 1} /\ SHELL_MAX_LINE \in Nat
                             /\ CHUNK \in Nat
                             /\ MAX_COL \in Nat \ {0} /\ MAX_LINE \in Nat \ {0}

\* A program's output ends in a newline, in something that shows or in "ff".
ASSUME OutputAssumption == \A data \in Output : /\ data \in Seq(STRING) /\ data # << >>
                                                /\ Last(data) \notin {"cr", "bs", "tab"}

VARIABLES mode,   \* "pty" or "console"
          typed,  \* history: the keys typed
          events, \* the window's events: keys not yet read by the terminal
          ttyq,   \* the tty ring, as LossyQueue
          pty,
          text_buf, needs_redraw,  \* the terminal's (or the console's) text
          tpc,    \* terminal: "read", "events" or "closed"
          spc,    \* shell: "prompt", "read", "run", "wait" or "exited"
          line,   \* what shell_read_line has collected
          child,  \* the program the shell waits for is running
          ran,    \* history: the lines the shell took, each with its newline
          lost,   \* history: a buffer was full and keys were dropped
          clean,  \* history: nothing but the keys of this line was echoed
          before  \* history: the last character written before this line

shellVars == <<spc, line, child, ran>>
termVars == <<events, text_buf, needs_redraw, tpc>>
tvars == <<mode, typed, ttyq, pty, termVars, shellVars, lost, clean, before>>

TInit == /\ mode \in {"pty", "console"}
         /\ typed = << >> /\ events = << >> /\ ttyq = << >>
         /\ pty = NewPty
         /\ text_buf = << >> /\ needs_redraw = FALSE /\ tpc = "read"
         /\ spc = "prompt" /\ line = << >> /\ child = FALSE /\ ran = << >>
         /\ lost = FALSE /\ clean = TRUE /\ before = "ff"

-----------------------------------------------------------------------------
(* Screens.                                                                *)

\* terminal.c, append_output: the text after character i of the data read.
\* A carriage return is skipped only if its newline came in the same read.
AppendOne(text, data, i) ==
    CASE data[i] = "ff" -> << >>
      [] data[i] = "cr" -> IF i < Len(data) /\ data[i + 1] = "nl" THEN text ELSE Append(text, "nl")
      [] data[i] = "bs" -> IF text = << >> THEN text ELSE Front(text)
      [] data[i] = "tab" -> text \o <<"sp", "sp", "sp", "sp">>
      [] OTHER -> Append(text, data[i])

append_output(text, data) ==
    LET out[i \in 0..Len(data)] == IF i = 0 THEN text ELSE AppendOne(out[i - 1], data, i)
    IN  out[Len(data)]

\* Where the row after the one that starts at i starts (scroll_view).
scroll_view(text, i) ==
    LET lf == Min({j \in i..Len(text) : text[j] = "nl"} \cup {Len(text) + 1})
    IN  IF lf - i > MAX_COL THEN i + MAX_COL ELSE Min({lf + 1, Len(text) + 1})

\* Where the rows start, in order; behind the last one every row is empty.
Rows(text) ==
    LET start[k \in 0..Len(text)] == IF k = 0 THEN 1 ELSE scroll_view(text, start[k - 1])
    IN  start

\* The loop ends at the end of the text.
count_lines(text) == Min({k \in 0..Len(text) : Rows(text)[k] > Len(text)})

\* redraw: the rows that are left once the first ones are scrolled away.
View(text) ==
    LET rows == count_lines(text)
    IN  SubSeq(text, Rows(text)[IF rows > MAX_LINE THEN rows - MAX_LINE ELSE 0], Len(text))

\* vbe_print_char: backspace stops at the left edge.
PrintOne(text, c) ==
    CASE c = "ff" -> << >>
      [] c = "bs" -> IF text = << >> \/ Last(text) = "nl" THEN text ELSE Front(text)
      [] OTHER -> Append(text, c)

ttydev_write_line(text, data) ==
    LET out[i \in 0..Len(data)] == IF i = 0 THEN text ELSE PrintOne(out[i - 1], data[i])
    IN  out[Len(data)]

-----------------------------------------------------------------------------
(* The person at the keyboard.                                             *)

\* A key: an event of the window, or a character for the tty ring, which
\* drops its oldest one when full.
type(k) == /\ Len(typed) < MaxKeys
           /\ typed' = Append(typed, k)
           /\ \/ /\ mode = "pty"
                 /\ tpc # "closed" /\ Len(events) < MaxEvents
                 /\ events' = Append(events, k)
                 /\ UNCHANGED <<ttyq, lost>>
              \/ /\ mode = "console"
                 /\ ttyq' = IF Len(ttyq) < TTYQ_LEN - 1 THEN Append(ttyq, k) ELSE Append(Tail(ttyq), k)
                 /\ lost' = (lost \/ Len(ttyq) = TTYQ_LEN - 1)
                 /\ UNCHANGED events
           /\ UNCHANGED <<mode, pty, text_buf, needs_redraw, tpc, shellVars, clean, before>>

-----------------------------------------------------------------------------
(* terminal.c, main: read, all pending events, redraw, sleep.              *)

terminal_read ==
    /\ mode = "pty"
    /\ tpc = "read"
    /\ LET out == Taken(pty.master_read, CHUNK)
       IN  /\ text_buf' = append_output(text_buf, out)
           /\ needs_redraw' = (text_buf' # text_buf)
    /\ pty' = pty_master_read(pty, CHUNK)
    /\ tpc' = "events"
    /\ UNCHANGED <<mode, typed, events, ttyq, shellVars, lost, clean, before>>

\* An event with a key: sys_write of one character to the master.
terminal_key ==
    /\ mode = "pty"
    /\ tpc = "events"
    /\ events # << >>
    /\ events' = Tail(events)
    /\ LET k == Head(events)
           echoed == CASE k = "bs" -> IF pty.line_buf = << >> THEN 0 ELSE 3
                       [] k = "nl" -> 2
                       [] OTHER -> 1
           full == Len(pty.line_buf) = PTY_LINE_CAP - 1 /\ k \notin {"bs", "nl"}
           fits == echoed <= fifo_free(pty.master_read)
       IN  /\ pty' = pty_master_write(pty, k)
           /\ lost' = (lost \/ full \/ (k = "nl" /\ fifo_free(pty.master_write) <= Len(pty.line_buf)))
           /\ clean' = CASE k = "nl" -> fits
                         [] k = "tab" -> FALSE
                         [] OTHER -> clean /\ (fits \/ full)
           /\ before' = IF k = "nl" THEN "nl" ELSE before
    /\ UNCHANGED <<mode, typed, ttyq, text_buf, needs_redraw, tpc, shellVars>>

\* No event is left: redraw if need be, sleep, go round.
terminal_idle ==
    /\ mode = "pty"
    /\ tpc = "events"
    /\ events = << >>
    /\ needs_redraw' = FALSE
    /\ tpc' = "read"
    /\ UNCHANGED <<mode, typed, events, ttyq, pty, text_buf, shellVars, lost, clean, before>>

\* WM_EVENT_CLOSE: the terminal and its text go, the pty and the shell stay.
terminal_close ==
    /\ mode = "pty"
    /\ tpc = "events"
    /\ tpc' = "closed"
    /\ events' = << >> /\ text_buf' = << >> /\ needs_redraw' = FALSE
    /\ lost' = (lost \/ events # << >>)
    /\ UNCHANGED <<mode, typed, ttyq, pty, shellVars, clean, before>>

-----------------------------------------------------------------------------
(* What programs write (sys_write to file 1), and shell.c.                 *)

\* sys_write(1, data).
Write(data) ==
    \/ /\ mode = "pty"
       /\ pty' = pty_slave_write(pty, data)
       /\ clean' = (pty.line_buf = << >> /\ Len(Onlcr(data)) <= fifo_free(pty.master_read))
       /\ before' = Last(data)
       /\ UNCHANGED text_buf
    \/ /\ mode = "console"
       /\ text_buf' = ttydev_write_line(text_buf, data)
       /\ before' = Last(data)
       /\ UNCHANGED <<pty, clean>>

\* shell_read_line echoes only if the tty does not.
Echo(data) == /\ text_buf' = IF mode = "console" THEN ttydev_write_line(text_buf, data) ELSE text_buf
              /\ before' = IF mode = "console" /\ data = <<"nl">> THEN "nl" ELSE before

shell_prompt == /\ spc = "prompt"
                /\ Write(<<"$">>)
                /\ spc' = "read"
                /\ UNCHANGED <<mode, typed, events, ttyq, needs_redraw, tpc, line, child, ran, lost>>

\* The characters that wait for the shell's next read of file 0.
Input == IF mode = "pty" THEN pty.master_write ELSE ttyq

\* shell_read_line: one character, if there is one.  Control characters are
\* ignored, as are characters beyond the buffer.
shell_read_line ==
    /\ spc = "read"
    /\ Input # << >>
    /\ LET c == Head(Input)
       IN  \/ /\ c = "nl"
              /\ ran' = ran \o Append(line, "nl")
              /\ line' = << >>
              /\ spc' = IF line = << >> THEN "prompt" ELSE "run"
              /\ Echo(<<"nl">>)
              /\ UNCHANGED lost
           \/ /\ c = "bs"
              /\ line' = IF line = << >> THEN line ELSE Front(line)
              /\ IF line = << >> THEN UNCHANGED <<text_buf, before>> ELSE Echo(<<"bs", "sp", "bs">>)
              /\ UNCHANGED <<spc, ran, lost>>
           \/ /\ c = "tab"
              /\ UNCHANGED <<line, text_buf, before, spc, ran, lost>>
           \/ /\ c \notin {"nl", "bs", "tab"}
              /\ Len(line) + 1 < SHELL_MAX_LINE
              /\ line' = Append(line, c)
              /\ Echo(<<c>>)
              /\ UNCHANGED <<spc, ran, lost>>
           \/ /\ c \notin {"nl", "bs", "tab"}
              /\ Len(line) + 1 >= SHELL_MAX_LINE
              /\ lost' = TRUE
              /\ UNCHANGED <<line, text_buf, before, spc, ran>>
    /\ pty' = IF mode = "pty" THEN pty_slave_read(pty, 1) ELSE pty
    /\ ttyq' = IF mode = "pty" THEN ttyq ELSE Tail(ttyq)
    /\ UNCHANGED <<mode, typed, events, needs_redraw, tpc, child, clean>>

\* shell_run_builtin: cd, silent or with a message, or exit.
shell_run_builtin ==
    /\ spc = "run"
    /\ \/ /\ spc' \in {"prompt", "exited"}
          /\ UNCHANGED <<pty, text_buf, clean, before>>
       \/ /\ Write(<<"e", "nl">>)
          /\ spc' = "prompt"
    /\ UNCHANGED <<mode, typed, events, ttyq, needs_redraw, tpc, line, child, ran, lost>>

\* A plausible bug, used to test the properties.
ExecAlwaysWaits ==
    /\ spc = "run"
    /\ spc' = "wait"
    /\ child' \in BOOLEAN
    /\ UNCHANGED <<mode, typed, ttyq, pty, termVars, line, ran, lost, clean, before>>

\* shell_exec_external: the program starts, or there is none of that name.
shell_exec_external ==
    /\ spc = "run"
    /\ \/ /\ child' = TRUE
          /\ spc' = "wait"
          /\ UNCHANGED <<pty, text_buf, clean, before>>
       \/ /\ Write(<<"e", "nl">>)
          /\ spc' = "prompt"
          /\ UNCHANGED child
    /\ UNCHANGED <<mode, typed, events, ttyq, needs_redraw, tpc, line, ran, lost>>

\* The program writes something and exits; SYS_WAITPID returns.
child_exit == /\ spc = "wait" /\ child
              /\ \/ \E data \in Output : Write(data)
                 \/ UNCHANGED <<pty, text_buf, clean, before>>
              /\ child' = FALSE
              /\ spc' = "prompt"
              /\ UNCHANGED <<mode, typed, events, ttyq, needs_redraw, tpc, line, ran, lost>>

Terminal == terminal_read \/ terminal_key \/ terminal_idle
Shell == shell_prompt \/ shell_read_line \/ shell_run_builtin \/ shell_exec_external

TNext == \/ \E k \in Key : type(k)
         \/ Terminal
         \/ terminal_close
         \/ Shell
         \/ child_exit

\* The scheduler gives the terminal and the shell their turns.  The programs the
\* shell starts may run for ever.
TSpec == TInit /\ [][TNext]_tvars /\ WF_tvars(Terminal) /\ WF_tvars(Shell)

-----------------------------------------------------------------------------

\* A character of s is taken back if, somewhere after it on the same line,
\* there have been more backspaces than characters.
TakenBack(s, i) ==
    \E j \in (i + 1)..Len(s) :
        /\ \A m \in (i + 1)..j : s[m] # "nl"
        /\ 2 * Cardinality({m \in (i + 1)..j : s[m] = "bs"}) > j - i

\* What keys mean: those taken back are gone, backspaces leave nothing.
Edited(s) == Pick(s, {i \in DOMAIN s : s[i] # "bs" /\ (s[i] = "nl" \/ ~TakenBack(s, i))})

NoTabs(s) == Pick(s, {i \in DOMAIN s : s[i] # "tab"})

\* The keys that have left the queue in front of the editing program.
Read == SubSeq(typed, 1, Len(typed) - Len(IF mode = "pty" THEN events ELSE ttyq))

\* While no buffer overflowed, the lines the shell runs, followed by what is on
\* its way to it, are exactly what was typed and not taken back, in order,
\* whoever does the editing (dev_pty.c's line buffer or shell_read_line).
LinesFaithful ==
    ~lost => IF mode = "pty"
             THEN NoTabs(ran \o line \o pty.master_write \o pty.line_buf) = NoTabs(Edited(Read))
             ELSE ran \o line = Edited(NoTabs(Read))

\* What can still be edited.
Editable == IF mode = "pty" THEN pty.line_buf ELSE line

\* What the person sees.
Shown == IF mode = "pty" THEN View(text_buf) ELSE text_buf

\* The line fits below the row with what was written before it.
Fits == mode = "pty" => Len(Editable) <= MAX_COL * (MAX_LINE - 1)

\* Once the output is shown, the screen ends with the line as it would be sent,
\* right behind what was written before it: backspace neither eats the prompt
\* nor leaves erased characters, through echo, ONLCR, reads in chunks, row
\* breaks and scrolling.  (Not while a program writes into a line, after a tab
\* on it, when output was dropped, or for a line that fills the window.)
SeenIsSent ==
    clean /\ Fits /\ pty.master_read = << >> /\ ~needs_redraw /\ tpc # "closed" =>
        IF before = "ff" THEN Shown = Editable
        ELSE IsSuffix(<<before>> \o Editable, Shown)

Newlines(s) == Cardinality({i \in DOMAIN s : s[i] = "nl"})

\* Every line is eventually taken by the shell: nobody waits for ever between
\* the terminal's loop, the pty and the shell's polling and waitpid, unless a
\* buffer overflowed, the window was closed or the shell was told to exit - and
\* as long as the programs it starts come to an end.
LinesRun == []<>(~child) =>
    (Newlines(typed) > Newlines(ran)
        ~> Newlines(typed) = Newlines(ran) \/ lost \/ tpc = "closed" \/ spc = "exited")
=============================================================================
