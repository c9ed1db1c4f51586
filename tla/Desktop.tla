------------------------------ MODULE Desktop -------------------------------
(***************************************************************************)
(* The window manager (WinMgr) and its clients (libgui's open_window and   *)
(* close_window) over shared memory (Shm) and /dev/wm.  The background     *)
(* program opens its two windows first; its bar's button and the shells in *)
(* the terminals it starts are the only way to another program, and each   *)
(* of those opens one window.                                              *)
(*                                                                         *)
(* Requests wait in the window manager's endpoint, which drops the oldest  *)
(* one when it is full.  A client gives up waiting whenever it likes: 500  *)
(* polls may pass before the answer, or events push the answer out of the  *)
(* client's own endpoint.  The window manager's steps are a message or an  *)
(* input event each; a client runs between any two of its system calls.    *)
(***************************************************************************)
EXTENDS WinMgr, Shm, Sequences

CONSTANTS Bg, App, Wm,  \* the background, the other programs, the window manager
          Cap           \* bound: requests that wait at the window manager

ASSUME DesktopAssumption == /\ Process = {Bg, Wm} \cup App
                            /\ Bg \notin App /\ Wm \notin App \cup {Bg}
                            /\ Cap \in Nat \ {0}

VARIABLES pc,       \* the call each client is at
          shm,      \* win->shm_id of the window it is opening or closing
          windows,  \* the windows open_window has returned to it
          inbox,    \* requests at the window manager's endpoint
          reply     \* the CREATE_REPLY at each client's endpoint, -1 for none

client_vars == <<pc, shm, windows, inbox, reply>>
vars == <<win_vars, shm_vars, client_vars>>

Client == App \cup {Bg}

Init == /\ WinInit
        /\ ShmInit
        /\ pc = [p \in Client |-> "shm_create"]
        /\ shm = [p \in Client |-> 0]
        /\ windows = [p \in Client |-> << >>]
        /\ inbox = << >>
        /\ reply = [p \in Client |-> -1]

Goto(p, label) == pc' = [pc EXCEPT ![p] = label]

\* What p asks for next, and whether it has all it wants.
Kind(p) == IF p \in App THEN "normal" ELSE IF windows[p] = << >> THEN "background" ELSE "bar"
Wants(p) == IF p = Bg THEN 2 ELSE 1

\* A request to the window manager; a full endpoint drops its oldest message.
wm_send(m) == inbox' = Append(IF Len(inbox) < Cap THEN inbox ELSE Tail(inbox), m)

-----------------------------------------------------------------------------
(* The clients                                                             *)

\* The bar's button, or a command in a terminal, starts a program.
Started(p) == p = Bg \/ pc[Bg] = "up"

\* Out of windows and buffers the program ends.  Nothing of a process that has
\* ended is used again: not its page tables, and not its endpoint.
Done(p) == IF windows[p] = << >> THEN "gone" ELSE "close"

\* open_window, the buffer: out of objects or memory ends the program.
open_shm_create(p) ==
    /\ pc[p] = "shm_create"
    /\ Started(p)
    /\ \/ /\ shm_create
          /\ shm' = [shm EXCEPT ![p] = shm_next_id]
          /\ Goto(p, "shm_map")
       \/ /\ Goto(p, Done(p))
          /\ UNCHANGED <<shm_vars, shm>>
    /\ UNCHANGED <<win_vars, windows, inbox, reply>>

\* Map it and send CREATE: one step, as nobody else knows the object before.
open_request(p) == /\ pc[p] = "shm_map"
                   /\ shm_map(p, shm[p])
                   /\ wm_send([type |-> "create", src |-> p, kind |-> Kind(p), arg |-> shm[p]])
                   /\ Goto(p, "wait")
                   /\ UNCHANGED <<win_vars, shm, windows, reply>>

\* The answer; 0 says that there is no window.
open_reply(p) == /\ pc[p] = "wait"
                 /\ reply[p] # -1
                 /\ reply' = [reply EXCEPT ![p] = -1]
                 /\ IF reply[p] = 0
                    THEN Goto(p, "unref") /\ UNCHANGED windows
                    ELSE /\ windows' = [windows EXCEPT ![p] = Append(@, [id |-> reply[p], shm |-> shm[p]])]
                         /\ Goto(p, IF Len(windows'[p]) = Wants(p) THEN "up" ELSE "shm_create")
                 /\ UNCHANGED <<win_vars, shm_vars, shm, inbox>>

open_timeout(p) == /\ pc[p] = "wait"
                   /\ Goto(p, "unref")
                   /\ reply' = [reply EXCEPT ![p] = -1]
                   /\ UNCHANGED <<win_vars, shm_vars, shm, windows, inbox>>

\* close_window: CLOSE to the window manager, then (unref) shm_close.  A program
\* does so on its close button, the background when it gets no second window.
close_send(p) == /\ pc[p] = "close" \/ (p \in App /\ pc[p] = "up")
                 /\ LET w == windows[p][1]
                    IN  /\ wm_send([type |-> "close", src |-> p, kind |-> "none", arg |-> w.id])
                        /\ shm' = [shm EXCEPT ![p] = w.shm]
                 /\ windows' = [windows EXCEPT ![p] = Tail(@)]
                 /\ Goto(p, "unref")
                 /\ UNCHANGED <<win_vars, shm_vars, reply>>

close_unref(p) == /\ pc[p] = "unref"
                  /\ shm_close(shm[p])
                  /\ shm' = [shm EXCEPT ![p] = 0]
                  /\ Goto(p, Done(p))
                  /\ UNCHANGED <<win_vars, windows, inbox, reply>>

-----------------------------------------------------------------------------
(* The window manager                                                      *)

\* WM_MSG_CREATE: without a slot or a buffer the answer is 0.  One who has given
\* up does not read its answer.
wm_create == /\ inbox # << >>
             /\ inbox[1].type = "create"
             /\ LET m  == inbox[1]
                    ok == FreeSlots(g_wins) # {} /\ Live(m.arg)
                IN  /\ reply' = IF pc[m.src] # "wait" THEN reply
                                ELSE [reply EXCEPT ![m.src] = IF ok THEN g_next_win_id ELSE 0]
                    /\ \/ ok /\ shm_map(Wm, m.arg) /\ create_window(m.src, m.kind, m.arg)
                       \/ ~ok /\ UNCHANGED <<win_vars, shm_vars>>
             /\ inbox' = Tail(inbox)
             /\ UNCHANGED <<pc, shm, windows>>

\* WM_MSG_CLOSE: only of the sender's own window.
wm_close == /\ inbox # << >>
            /\ inbox[1].type = "close"
            /\ LET m == inbox[1]
                   mine == {i \in Used(g_wins) : g_wins[i].id = m.arg /\ g_wins[i].owner = m.src}
               IN  \/ \E i \in mine : shm_close(g_wins[i].shm) /\ close_window(m.arg)
                   \/ mine = {} /\ UNCHANGED <<win_vars, shm_vars>>
            /\ inbox' = Tail(inbox)
            /\ UNCHANGED <<pc, shm, windows, reply>>

wm_mouse == /\ \E left, moved \in BOOLEAN, under \in win_at(g_wins) : mouse_event(left, moved, under)
            /\ UNCHANGED <<shm_vars, client_vars>>

wm_kbd == (\E under \in win_at(g_wins) : kbd_event(under)) /\ UNCHANGED <<shm_vars, client_vars>>

ClientStep(p) == \/ open_shm_create(p) \/ open_request(p) \/ open_reply(p)
                 \/ open_timeout(p) \/ close_send(p) \/ close_unref(p)

Next == \/ \E p \in Client : ClientStep(p)
        \/ wm_create \/ wm_close \/ wm_mouse \/ wm_kbd

Spec == Init /\ [][Next]_vars

-----------------------------------------------------------------------------

\* The types of the window manager's and the shared memory state.
TypeOK == /\ \A i \in Used(g_wins) : g_wins[i].owner \in Client /\ g_wins[i].kind \in {"background", "bar", "normal"}
          /\ {g_focus_win, g_hover_win, g_drag_win} \subseteq 0..g_next_win_id
          /\ \A i \in Entries : shm_objs[i].id = 0 <=> shm_objs[i].refcount = 0
          /\ Len(inbox) <= Cap

\* The keyboard always has the right target: the focus is on a normal window
\* that exists, and is on none only when there is none.  wm.c's "Recover focus"
\* never has to.
FocusExact == IF g_focus_win = 0 THEN topmost_focusable_window(g_wins) = 0
              ELSE win_is_focusable(g_wins, g_focus_win)

\* What clients were told agrees with the table: the one window that was sent
\* GAINED_FOCUS without a LOST_FOCUS is the focused one, across closes too.
FocusTold == told = {g_focus_win} \ {0}

\* wm.c: "Keep WM_BACKGROUND at bottom and WM_FOREGROUND at top", through every
\* order of opening, raising and closing windows.
LayersOrdered == \A i, j \in Used(g_wins) :
    i < j => g_wins[j].kind # "background" /\ g_wins[i].kind # "bar"

\* Hovering and dragging end with the window: neither ever names a window that
\* is gone, and the window being dragged is held by the pressed button.
NoDangling == /\ {g_hover_win, g_drag_win} \ {0} \subseteq Ids(g_wins)
              /\ g_drag_win # 0 => g_left

\* A window that open_window returned is in the table, with the client's buffer
\* and as the client's own, until the client closes it: no raise, close or
\* refused request of another one loses or mixes up windows.
WindowsKept == \A p \in Client : \A k \in DOMAIN windows[p] :
    Cardinality({i \in Slots : /\ g_wins[i].id = windows[p][k].id
                               /\ g_wins[i].owner = p
                               /\ g_wins[i].shm = windows[p][k].shm}) = 1

\* The frames of a buffer are not given back while a running process has them
\* in its page tables, in whatever order the clients and the window manager
\* map and close them, give up or lose requests.
MappedAlive == \A p \in Process :
    p = Wm \/ pc[p] # "gone" => \A id \in mapped[p] : Live(id)
=============================================================================
