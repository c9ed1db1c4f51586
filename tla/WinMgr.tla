------------------------------- MODULE WinMgr -------------------------------
(***************************************************************************)
(* The window table of the window manager (userspace/src/wm.c): stacking   *)
(* order, focus, hover, dragging.  A slot's index is its depth, later      *)
(* slots are on top.                                                       *)
(*                                                                         *)
(* Positions are abstracted to what win_at finds under the cursor: any     *)
(* window that takes input, or none, as windows can be moved anywhere.     *)
(* Drawing changes nothing that is modelled.                               *)
(* Flags are kinds: "background" is WM_BACKGROUND | WM_SKIP_INPUT, "bar"   *)
(* is WM_FOREGROUND, the only combinations the programs ask for.           *)
(***************************************************************************)
EXTENDS Integers, FiniteSetsExt

CONSTANTS MAX_WINS

ASSUME WinMgrAssumption == MAX_WINS \in Nat \ {0}

VARIABLES g_wins,         \* the slots, bottom first; id 0 marks a free one
          g_next_win_id,
          g_focus_win, g_hover_win,
          g_drag_win,     \* 0 unless g_dragging
          g_left,         \* left button down in the last mouse event
          told            \* windows told GAINED_FOCUS and not LOST_FOCUS since

win_vars == <<g_wins, g_next_win_id, g_focus_win, g_hover_win, g_drag_win, g_left, told>>

Slots == 1..MAX_WINS
NoWin == [id |-> 0, owner |-> 0, kind |-> "none", shm |-> 0]

WinInit == /\ g_wins = [i \in Slots |-> NoWin]
           /\ g_next_win_id = 1
           /\ g_focus_win = 0 /\ g_hover_win = 0 /\ g_drag_win = 0
           /\ g_left = FALSE
           /\ told = {}

Used(wins) == {i \in Slots : wins[i].id # 0}
Ids(wins) == {wins[i].id : i \in Used(wins)}
FreeSlots(wins) == Slots \ Used(wins)

\* The slot of window id; ids are unique.
win_by_id(wins, id) == CHOOSE i \in Used(wins) : wins[i].id = id

\* The window of the last slot in S, 0 for none.
LastOf(wins, S) == IF S = {} THEN 0 ELSE wins[Max(S)].id

\* What may be under the cursor: a window without WM_SKIP_INPUT, or 0.
win_at(wins) == {wins[i].id : i \in {k \in Used(wins) : wins[k].kind # "background"}} \cup {0}

win_is_focusable(wins, id) == \E i \in Used(wins) : wins[i].id = id /\ wins[i].kind = "normal"

topmost_focusable_window(wins) == LastOf(wins, {i \in Used(wins) : wins[i].kind = "normal"})

\* Plausible bugs, used to test the properties.
RaiseOverBar(wins, id) ==
    LET i     == win_by_id(wins, id)
        above == (i + 1)..MAX_WINS
    IN  IF ~win_is_focusable(wins, id) \/ above = {} THEN wins
        ELSE [wins EXCEPT ![MAX_WINS] = wins[i], ![i] = wins[MAX_WINS]]
RaiseOverwrites(wins, id) ==
    LET i     == win_by_id(wins, id)
        stops == {j \in (i + 1)..MAX_WINS : wins[j].id = 0 \/ wins[j].kind = "bar"}
        j     == Min(stops)
    IN  IF ~win_is_focusable(wins, id) \/ stops = {} THEN wins
        ELSE IF wins[j].id = 0
        THEN [wins EXCEPT ![j] = wins[i], ![i] = NoWin]
        ELSE [[wins EXCEPT ![i] = NoWin] EXCEPT ![j - 1] = wins[i]]

\* Move a normal window up to the first free slot above it, or swap it with the
\* window just below the first bar above it; with neither it stays.
raise_window(wins, id) ==
    LET i     == win_by_id(wins, id)
        stops == {j \in (i + 1)..MAX_WINS : wins[j].id = 0 \/ wins[j].kind = "bar"}
        j     == Min(stops)
    IN  IF ~win_is_focusable(wins, id) \/ stops = {} THEN wins
        ELSE IF wins[j].id = 0
        THEN [wins EXCEPT ![j] = wins[i], ![i] = NoWin]
        ELSE [wins EXCEPT ![j - 1] = wins[i], ![i] = wins[j - 1]]

\* A plausible bug, used to test the properties: the old window is not told.
GainOnly(wins, new) == g_focus_win' = new /\ told' = told \cup ({new} \cap Ids(wins))

\* LOST_FOCUS to the old window and GAINED_FOCUS to the new one, if they exist.
update_focus(wins, new) ==
    /\ g_focus_win' = new
    /\ told' = IF new = g_focus_win THEN told
               ELSE (told \ ({g_focus_win} \cap Ids(wins))) \cup ({new} \cap Ids(wins))

-----------------------------------------------------------------------------

\* WM_MSG_CREATE once there is a slot and the buffer is mapped: the bar goes to
\* the last free slot, any other window to the first and is raised.
create_window(src, kind, shm) ==
    LET id   == g_next_win_id
        free == FreeSlots(g_wins)
        slot == IF kind = "bar" THEN Max(free) ELSE Min(free)
        wins == raise_window([g_wins EXCEPT ![slot] = [id |-> id, owner |-> src, kind |-> kind, shm |-> shm]], id)
    IN  /\ free # {}
        /\ g_wins' = wins
        /\ g_next_win_id' = id + 1
        /\ update_focus(wins, IF kind = "normal" THEN id ELSE g_focus_win)
        /\ UNCHANGED <<g_hover_win, g_drag_win, g_left>>

\* Plausible bugs, used to test the properties.
KeepRef(win, id) == win
NoNextFocus(wins, id) == IF g_focus_win = id THEN 0 ELSE g_focus_win

\* The hovered or dragged window, forgotten when it is the one that closes.
forget(win, id) == IF win = id THEN 0 ELSE win

\* The focus when id leaves, with the windows wins left.
next_focus(wins, id) == IF g_focus_win = id THEN topmost_focusable_window(wins) ELSE g_focus_win

\* WM_MSG_CLOSE of an existing window by its owner.  A focused window is told
\* LOST_FOCUS while it still exists; then the topmost normal window gets focus.
close_window(id) ==
    LET wins == [i \in Slots |-> IF g_wins[i].id = id THEN NoWin ELSE g_wins[i]]
    IN  /\ g_wins' = wins
        /\ update_focus(g_wins, next_focus(wins, id))
        /\ g_hover_win' = forget(g_hover_win, id)
        /\ g_drag_win' = forget(g_drag_win, id)
        /\ UNCHANGED <<g_next_win_id, g_left>>

\* The window under the cursor is the hovered one, under unless a drag has just
\* moved a window.
handle_mouse_event(wins, under, dragged) ==
    g_hover_win' \in IF dragged THEN win_at(wins) ELSE {under}

\* One mouse event: the button, whether the cursor moved, and the window under
\* it.  A press raises and focuses that window and may start a drag (in its
\* title bar); a move drags, after which another window may be under the cursor;
\* a release ends the drag.
mouse_event(left, moved, under) ==
    LET down   == left /\ ~g_left
        up     == g_left /\ ~left
        wins   == IF down THEN raise_window(g_wins, under) ELSE g_wins
        normal == win_is_focusable(wins, under)
    IN  /\ g_left' = left
        /\ g_wins' = wins
        /\ update_focus(wins, IF down /\ normal THEN under ELSE g_focus_win)
        /\ \E drag \in {g_drag_win} \cup (IF down /\ normal THEN {under} ELSE {}) :
             /\ g_drag_win' = IF up THEN 0 ELSE drag
             /\ IF moved THEN handle_mouse_event(wins, under, drag # 0 /\ left)
                ELSE UNCHANGED g_hover_win
        /\ UNCHANGED g_next_win_id

\* A key goes to the focused window.  "Recover focus: prefer window under
\* mouse, else topmost normal window" when there is none.
kbd_event(under) ==
    LET top == topmost_focusable_window(g_wins)
    IN  /\ update_focus(g_wins, IF win_is_focusable(g_wins, g_focus_win) THEN g_focus_win
                                ELSE IF win_is_focusable(g_wins, under) THEN under
                                ELSE IF top # 0 THEN top ELSE g_focus_win)
        /\ UNCHANGED <<g_wins, g_next_win_id, g_hover_win, g_drag_win, g_left>>
=============================================================================
