--------------------------- MODULE Desktop_proofs ---------------------------
(***************************************************************************)
(* Proofs about the window manager and its clients, for any number of      *)
(* programs, windows, shared memory objects and waiting requests.          *)
(*                                                                         *)
(* The inductive invariant, DesktopInv, says of the table that ids are     *)
(* unique and that the background and the bar sit in the first and in the  *)
(* last slot; of the protocol that a client has at most one CREATE on its  *)
(* way, that a CLOSE never names a window its client still uses, and that  *)
(* the background program is alone until it has both its windows; and of   *)
(* shared memory that an object's count is the number of its users: the    *)
(* client that has yet to close it, the page tables of that client, and    *)
(* the window that shows it.                                               *)
(***************************************************************************)
EXTENDS Desktop, FiniteSetTheorems, WellFoundedInduction, TLAPS

-----------------------------------------------------------------------------
(* The window table                                                        *)

\* A used slot.
Window == [id : Nat \ {0}, owner : Client, kind : {"background", "bar", "normal"}, shm : Nat]

\* Tables in which a window is found by its id, the background is at the very
\* bottom and the bar at the very top.
Distinct(w) == \A i, j \in Used(w) : w[i].id = w[j].id => i = j
Layered(w) == \A i \in Used(w) : /\ w[i].kind = "background" => i = 1
                                 /\ w[i].kind = "bar" => i = MAX_WINS
Table(w) == w \in [Slots -> Window \cup {NoWin}] /\ Distinct(w) /\ Layered(w)

\* The windows of a table, whatever their order.
Content(w) == {w[i] : i \in Used(w)}

\* The table is such a table, and new ids are new.
TableInv == /\ Table(g_wins)
            /\ g_next_win_id \in Nat \ {0}
            /\ \A r \in Content(g_wins) : r.id < g_next_win_id

\* The invariant's part that is about the table alone.
WinInv == TableInv /\ FocusExact /\ FocusTold /\ NoDangling

-----------------------------------------------------------------------------
(* The clients' protocol                                                   *)

\* A message at the window manager's endpoint.
Message == [type : {"create", "close"}, src : Client,
            kind : {"background", "bar", "normal", "none"}, arg : Nat]

\* What open_window returns.
Opened == [id : Nat \ {0}, shm : Nat]

\* The types of the clients' state.
ClientTypes == /\ pc \in [Client -> {"shm_create", "shm_map", "wait", "up", "close", "unref", "gone"}]
               /\ shm \in [Client -> Nat]
               /\ windows \in [Client -> Seq(Opened)]
               /\ inbox \in Seq(Message)
               /\ reply \in [Client -> Nat \cup {-1}]

\* How many windows a client has at which call.
Counts == /\ \A p \in App : Len(windows[p]) = (IF pc[p] = "up" THEN 1 ELSE 0) /\ pc[p] # "close"
          /\ pc[Bg] \in {"shm_create", "shm_map", "wait"} => Len(windows[Bg]) <= 1
          /\ pc[Bg] = "close" => Len(windows[Bg]) >= 1

\* A client has at most one CREATE on its way: the one it waits for, or one that
\* it has given up.
Asked(m) == LET p == m.src
            IN  /\ pc[p] \in {"wait", "close", "unref", "gone"}
                /\ pc[p] = "wait" => reply[p] = -1 /\ m.arg = shm[p] /\ m.kind = Kind(p)
                /\ m.kind \in IF p \in App THEN {"normal"} ELSE {"background", "bar"}
Requests == /\ \A k \in DOMAIN inbox : inbox[k].type = "create" => Asked(inbox[k])
            /\ \A j, k \in DOMAIN inbox : inbox[j].type = "create" /\ inbox[k].type = "create"
                                            /\ inbox[j].src = inbox[k].src => j = k

\* Until the background program has both its windows it is alone, and its
\* windows go into an empty table and above the background.
Alone == pc[Bg] # "up" =>
    /\ \A p \in App : pc[p] = "shm_create"
    /\ \A r \in Content(g_wins) : r.kind # "normal"
    /\ \A k \in DOMAIN inbox : /\ inbox[k].src = Bg
                               /\ pc[Bg] = "wait" => inbox[k].type = "create"
                               /\ inbox[k].type = "create" =>
                                    k = 1 /\ Used(g_wins) \subseteq IF inbox[k].kind = "background" THEN {} ELSE {1}
    /\ pc[Bg] \in {"shm_create", "shm_map"} =>
         inbox = << >> /\ Used(g_wins) \subseteq IF windows[Bg] = << >> THEN {} ELSE {1}
    /\ pc[Bg] = "wait" /\ reply[Bg] # -1 => inbox = << >>
    /\ pc[Bg] = "wait" /\ reply[Bg] # -1 /\ windows[Bg] = << >> => Used(g_wins) \subseteq {1}

\* The window of p with that id and buffer is in the table.
Has(p, id, buf) == \E r \in Content(g_wins) : r.id = id /\ r.owner = p /\ r.shm = buf

\* What open_window returned, or is about to return, is in the table and not
\* being closed.
KeptBy(p) == /\ \A k \in DOMAIN windows[p] : Has(p, windows[p][k].id, windows[p][k].shm)
             /\ \A k, l \in DOMAIN windows[p] : windows[p][k].id = windows[p][l].id => k = l
AnswerTo(p) == reply[p] # -1 =>
    /\ pc[p] = "wait"
    /\ reply[p] # 0 => /\ Has(p, reply[p], shm[p])
                       /\ \A k \in DOMAIN windows[p] : windows[p][k].id # reply[p]
Kept == \A p \in Client : KeptBy(p)
Answers == \A p \in Client : AnswerTo(p)
Leaving(m) == /\ m.arg \in 1..(g_next_win_id - 1)
              /\ m.arg # reply[m.src]
              /\ \A k \in DOMAIN windows[m.src] : windows[m.src][k].id # m.arg
Closing == \A k \in DOMAIN inbox : inbox[k].type = "close" => Leaving(inbox[k])

-----------------------------------------------------------------------------
(* Buffers                                                                 *)

\* The objects a client has yet to close, those in some client's page tables
\* and those of the windows in the table.
HeldBy(p) == {windows[p][k].shm : k \in DOMAIN windows[p]}
             \cup (IF pc[p] \in {"shm_map", "wait", "unref"} THEN {shm[p]} ELSE {})
Held == UNION {HeldBy(p) : p \in Client}
Mapped == UNION {mapped[p] : p \in Client}
Shown == {r.shm : r \in Content(g_wins)}

\* The object table: ids are unique and older than the next one.
ShmTypes == /\ shm_objs \in [Entries -> [id : Nat, refcount : Nat]]
            /\ shm_next_id \in Nat \ {0}
            /\ mapped \in [Process -> SUBSET (1..(shm_next_id - 1))]
            /\ \A i \in Entries : shm_objs[i].id < shm_next_id
            /\ \A i, j \in Entries : shm_objs[i].id # 0 /\ shm_objs[i].id = shm_objs[j].id => i = j

\* Every buffer a client has yet to close is its own.
OwnBy(p) == /\ HeldBy(p) \subseteq 1..(shm_next_id - 1)
            /\ \A k, l \in DOMAIN windows[p] : windows[p][k].shm = windows[p][l].shm => k = l
            /\ pc[p] \in {"shm_map", "wait", "unref"} =>
                 \A k \in DOMAIN windows[p] : windows[p][k].shm # shm[p]
            /\ pc[p] = "shm_map" => shm[p] \notin Mapped
Own == /\ \A p \in Client : OwnBy(p)
       /\ \A p, q \in Client : p # q => HeldBy(p) \cap HeldBy(q) = {}

\* A buffer is asked to be shown once, by one who maps it.
Buffers == /\ \A k \in DOMAIN inbox : inbox[k].type = "create" =>
                /\ inbox[k].arg \in Mapped \ Shown
                /\ \A j \in DOMAIN inbox : inbox[j].type = "create" /\ inbox[j].arg = inbox[k].arg => j = k
           /\ Shown \subseteq Mapped
           /\ \A r, s \in Content(g_wins) : r.shm = s.shm => r = s
           /\ mapped[Wm] \subseteq Mapped

\* The references that an object should have, and has; mapped objects exist.
One(b) == IF b THEN 1 ELSE 0
References(o) == One(o \in Held) + One(o \in Mapped) + One(o \in Shown)
RefsExact == \A i \in Entries :
    shm_objs[i].refcount = IF shm_objs[i].id = 0 THEN 0 ELSE References(shm_objs[i].id)
MappedLive == \A o \in Mapped : Live(o)

\* The inductive invariant.
DesktopInv == /\ WinInv
              /\ ClientTypes /\ Counts /\ Requests /\ Alone /\ Kept /\ Answers /\ Closing
              /\ ShmTypes /\ Own /\ Buffers /\ RefsExact /\ MappedLive
-----------------------------------------------------------------------------
(* The table's operators                                                   *)

\* A non-empty set of natural numbers has a least element.
LEMMA LeastElement ==
    ASSUME NEW T \in SUBSET Nat, T # {}
    PROVE  \E x \in T : \A y \in T : x <= y
<1> DEFINE R == {ss \in Nat \X Nat : ss[1] < ss[2]}
<1>1. IsWellFoundedOn(R, Nat)
  BY NatLessThanWellFounded, Zenon DEF OpToRel
<1>2. \A a, b \in Nat : a < b => <<a, b>> \in R
  OBVIOUS
<1> HIDE DEF R
<1>3. PICK x \in T : \A y \in T : ~(<<y, x>> \in R)
  BY <1>1, WFMin, Zenon
<1>4. ASSUME NEW y \in T PROVE x <= y
  <2>1. ~(y < x)
    BY <1>2, <1>3, Zenon
  <2> QED BY <2>1
<1> QED BY <1>4

\* Min and Max of a non-empty set of indices.
LEMMA MinMax ==
    ASSUME NEW n \in Nat, NEW T \in SUBSET (1..n), T # {}
    PROVE  /\ Min(T) \in T /\ \A y \in T : Min(T) <= y
           /\ Max(T) \in T /\ \A y \in T : Max(T) >= y
<1>1. \E x \in T : \A y \in T : x <= y
  BY LeastElement
<1>2. \E x \in T : \A y \in T : x >= y
  <2> DEFINE D == {n - x : x \in T}
  <2>1. D \in SUBSET Nat /\ D # {}
    <3>1. \A x \in T : n - x \in Nat
      OBVIOUS
    <3>2. PICK x \in T : TRUE
      OBVIOUS
    <3>3. n - x \in D
      OBVIOUS
    <3> QED BY <3>1, <3>3
  <2>2. PICK d \in D : \A e \in D : d <= e
    <3> HIDE DEF D
    <3> QED BY <2>1, LeastElement
  <2>3. PICK x \in T : d = n - x
    OBVIOUS
  <2>4. ASSUME NEW y \in T PROVE x >= y
    <3>1. n - y \in D
      OBVIOUS
    <3> QED BY <2>2, <2>3, <3>1
  <2> QED BY <2>4
<1> QED BY <1>1, <1>2 DEF Min, Max

\* A slot is free and holds NoWin, or holds a window.
LEMMA SlotKinds ==
    ASSUME NEW w, Table(w), NEW i \in Slots
    PROVE  /\ i \in Used(w) <=> w[i].id # 0
           /\ i \in Used(w) <=> w[i] \in Window
           /\ i \notin Used(w) <=> w[i] = NoWin
<1>1. w[i] \in Window \cup {NoWin}
  BY DEF Table
<1>2. NoWin.id = 0
  BY DEF NoWin
<1>3. \A r \in Window : r.id # 0
  BY DEF Window
<1> QED BY <1>1, <1>2, <1>3 DEF Used

\* The windows of a table have distinct ids.
LEMMA ContentDistinct ==
    ASSUME NEW w, Table(w)
    PROVE  /\ \A r \in Content(w) : r \in Window
           /\ \A r, s \in Content(w) : r.id = s.id => r = s
<1>1. \A r \in Content(w) : r \in Window
  BY SlotKinds DEF Content, Used
<1>2. \A r, s \in Content(w) : r.id = s.id => r = s
  BY DEF Content, Table, Distinct
<1> QED BY <1>1, <1>2

\* What the window manager asks about a table depends only on its windows.
LEMMA Questions ==
    ASSUME NEW w, Table(w)
    PROVE  /\ Ids(w) = {r.id : r \in Content(w)}
           /\ win_at(w) \subseteq Ids(w) \cup {0}
           /\ \A id : win_is_focusable(w, id) <=> \E r \in Content(w) : r.id = id /\ r.kind = "normal"
           /\ 0 \notin Ids(w)
           /\ \A id : win_is_focusable(w, id) => id \in Ids(w)
<1>1. Ids(w) = {r.id : r \in Content(w)}
  BY DEF Ids, Content
<1>2. win_at(w) \subseteq Ids(w) \cup {0}
  BY DEF win_at, Ids
<1>3. \A id : win_is_focusable(w, id) <=> \E r \in Content(w) : r.id = id /\ r.kind = "normal"
  BY DEF win_is_focusable, Content
<1>4. 0 \notin Ids(w)
  BY DEF Ids, Used
<1>5. \A id : win_is_focusable(w, id) => id \in Ids(w)
  BY DEF win_is_focusable, Ids
<1> QED BY <1>1, <1>2, <1>3, <1>4, <1>5

\* The topmost normal window is one, and is 0 only when there is none.
LEMMA Topmost ==
    ASSUME NEW w, Table(w)
    PROVE  LET t == topmost_focusable_window(w)
           IN  IF \E r \in Content(w) : r.kind = "normal" THEN win_is_focusable(w, t) /\ t # 0 ELSE t = 0
<1> DEFINE S == {i \in Used(w) : w[i].kind = "normal"}
<1>1. S = {} <=> ~\E r \in Content(w) : r.kind = "normal"
  BY DEF Content
<1>2. CASE S = {}
  BY <1>1, <1>2 DEF topmost_focusable_window, LastOf
<1>3. CASE S # {}
  <2>1. S \in SUBSET (1..MAX_WINS)
    BY DEF Used, Slots
  <2>2. Max(S) \in S
    <3> HIDE DEF S
    <3> QED BY <1>3, <2>1, MinMax, WinMgrAssumption
  <2>3. topmost_focusable_window(w) = w[Max(S)].id
    BY <1>3 DEF topmost_focusable_window, LastOf
  <2> QED BY <1>1, <1>3, <2>2, <2>3 DEF win_is_focusable, Used
<1> QED BY <1>2, <1>3

\* Swapping a normal window with what is above it, other than a bar, keeps the
\* windows, and the layers.
Swap(w, i, j) == [w EXCEPT ![j] = w[i], ![i] = w[j]]

\* Exchanging two slots as raise_window does keeps the table and its windows.
LEMMA SwapLemma ==
    ASSUME NEW w, Table(w), NEW i \in Slots, NEW j \in Slots, i <= j,
           i # j => w[i].kind = "normal" /\ w[j].kind # "bar"
    PROVE  Table(Swap(w, i, j)) /\ Content(Swap(w, i, j)) = Content(w)
<1> DEFINE v == Swap(w, i, j)
           f == [k \in Slots |-> IF k = i THEN j ELSE IF k = j THEN i ELSE k]
<1>1. f \in [Slots -> Slots] /\ \A k \in Slots : f[f[k]] = k
  OBVIOUS
<1>2. v \in [Slots -> Window \cup {NoWin}] /\ \A k \in Slots : v[k] = w[f[k]]
  BY DEF Table, Swap
<1>3. /\ \A k \in Slots : k \in Used(v) <=> f[k] \in Used(w)
      /\ \A k \in Used(v) : k \in Slots
      /\ \A k \in Used(w) : k \in Slots
  BY <1>1, <1>2 DEF Used
<1>4. Content(v) = Content(w)
  <2> HIDE DEF v, f
  <2>1. ASSUME NEW r \in Content(v) PROVE r \in Content(w)
    BY <1>1, <1>2, <1>3 DEF Content
  <2>2. ASSUME NEW r \in Content(w) PROVE r \in Content(v)
    <3>1. PICK k \in Used(w) : r = w[k]
      BY DEF Content
    <3>2. f[k] \in Used(v) /\ v[f[k]] = r
      BY <1>1, <1>2, <1>3, <3>1
    <3> QED BY <3>2 DEF Content
  <2> QED BY <2>1, <2>2
<1>5. Distinct(v)
  <2> HIDE DEF v, f
  <2> SUFFICES ASSUME NEW k \in Used(v), NEW l \in Used(v), v[k].id = v[l].id PROVE k = l
    BY DEF Distinct
  <2>1. f[k] \in Used(w) /\ f[l] \in Used(w) /\ w[f[k]].id = w[f[l]].id
    BY <1>1, <1>2, <1>3
  <2>2. f[k] = f[l]
    BY <2>1 DEF Table, Distinct
  <2> QED BY <1>1, <1>3, <2>2
<1>6. Layered(v)
  <2> SUFFICES ASSUME NEW k \in Used(v)
               PROVE  (v[k].kind = "background" => k = 1) /\ (v[k].kind = "bar" => k = MAX_WINS)
    BY DEF Layered
  <2>1. k \in Slots /\ f[k] \in Used(w) /\ v[k] = w[f[k]]
    BY <1>2, <1>3
  <2>2. (w[f[k]].kind = "background" => f[k] = 1) /\ (w[f[k]].kind = "bar" => f[k] = MAX_WINS)
    BY <2>1 DEF Table, Layered
  <2>3. CASE k # i /\ k # j
    BY <2>1, <2>2, <2>3
  <2>4. CASE k = j /\ i # j
    BY <2>1, <2>4
  <2>5. CASE k = i /\ i # j
    <3>1. w[j].kind # "background"
      BY <2>1, <2>2, <2>5, WinMgrAssumption DEF Slots
    <3> QED BY <2>1, <2>5, <3>1
  <2>6. CASE k = i /\ i = j
    BY <2>1, <2>2, <2>6
  <2> QED BY <2>3, <2>4, <2>5, <2>6
<1> QED BY <1>2, <1>4, <1>5, <1>6 DEF Table

\* raise_window keeps the windows and the layers, and does nothing when there
\* is no normal window.
LEMMA Raise ==
    ASSUME NEW w, Table(w), NEW id
    PROVE  LET v == raise_window(w, id)
           IN  /\ Table(v) /\ Content(v) = Content(w)
               /\ (\A r \in Content(w) : r.kind # "normal") => v = w
<1> DEFINE i == win_by_id(w, id)
           stops == {j \in (i + 1)..MAX_WINS : w[j].id = 0 \/ w[j].kind = "bar"}
           m == Min(stops)
<1>1. CASE ~win_is_focusable(w, id) \/ stops = {}
  BY <1>1 DEF raise_window
<1>2. CASE win_is_focusable(w, id) /\ stops # {}
  <2>1. i \in Used(w) /\ w[i].id = id /\ w[i].kind = "normal"
    <3>1. PICK k \in Used(w) : w[k].id = id /\ w[k].kind = "normal"
      BY <1>2 DEF win_is_focusable
    <3>2. i \in Used(w) /\ w[i].id = id
      BY <3>1 DEF win_by_id
    <3>3. i = k
      <4> HIDE DEF i
      <4> QED BY <3>1, <3>2 DEF Table, Distinct
    <3> QED BY <3>1, <3>3
  <2>2. i \in Slots
    BY <2>1 DEF Used
  <2>3. ~(\A r \in Content(w) : r.kind # "normal")
    BY <2>1 DEF Content
  <2>4. m \in stops /\ \A y \in stops : m <= y
    <3>1. stops \in SUBSET (1..MAX_WINS)
      BY <2>2 DEF Slots
    <3> HIDE DEF stops
    <3> QED BY <1>2, <3>1, MinMax, WinMgrAssumption
  <2>5. m \in Slots /\ i < m
    BY <2>2, <2>4, WinMgrAssumption DEF Slots
  <2> HIDE DEF i, m
  <2>6. CASE w[m].id = 0
    <3>1. w[m] = NoWin /\ w[m].kind # "bar"
      BY <2>5, <2>6, SlotKinds DEF NoWin
    <3>2. raise_window(w, id) = Swap(w, i, m)
      BY <1>2, <2>6, <3>1 DEF raise_window, Swap, i, m
    <3>3. Table(Swap(w, i, m)) /\ Content(Swap(w, i, m)) = Content(w)
      BY <2>1, <2>2, <2>5, <3>1, SwapLemma, WinMgrAssumption DEF Slots
    <3> QED BY <2>3, <3>2, <3>3
  <2>7. CASE w[m].id # 0
    <3>1. m - 1 \in Slots /\ i <= m - 1
      BY <2>2, <2>5, WinMgrAssumption DEF Slots
    <3>2. i # m - 1 => w[m - 1].kind # "bar"
      <4> SUFFICES ASSUME i # m - 1, w[m - 1].kind = "bar" PROVE FALSE
        OBVIOUS
      <4>1. m - 1 \in stops
        BY <2>2, <3>1, WinMgrAssumption DEF Slots
      <4> QED BY <2>4, <2>5, <4>1 DEF Slots
    <3>3. raise_window(w, id) = Swap(w, i, m - 1)
      BY <1>2, <2>7 DEF raise_window, Swap, i, m
    <3>4. Table(Swap(w, i, m - 1)) /\ Content(Swap(w, i, m - 1)) = Content(w)
      BY <2>1, <2>2, <3>1, <3>2, SwapLemma, WinMgrAssumption DEF Slots
    <3> QED BY <2>3, <3>3, <3>4
  <2> QED BY <2>6, <2>7
<1> QED BY <1>1, <1>2
-----------------------------------------------------------------------------
(* The steps of the window manager, on the table                           *)

\* The focus moves and both windows are told.
LEMMA UpdateFocus ==
    ASSUME FocusTold, NEW v, NEW new, update_focus(v, new), 0 \notin Ids(v),
           g_focus_win \in Ids(v) \cup {0}, new \in Ids(v) \cup {0}
    PROVE  FocusTold' /\ g_focus_win' = new
  BY DEF update_focus, FocusTold

\* The focus is right in any table that has it as a normal window, or none.
LEMMA FocusRight ==
    ASSUME NEW w, Table(w), NEW f,
           win_is_focusable(w, f) \/ (f = 0 /\ \A r \in Content(w) : r.kind # "normal")
    PROVE  IF f = 0 THEN topmost_focusable_window(w) = 0 ELSE win_is_focusable(w, f)
<1>1. win_is_focusable(w, f) => f # 0
  BY Questions
<1> QED BY <1>1, Topmost

\* What the invariant says of the focus, without the topmost window.
LEMMA FocusNow ==
    ASSUME WinInv
    PROVE  /\ Table(g_wins)
           /\ \/ win_is_focusable(g_wins, g_focus_win)
              \/ g_focus_win = 0 /\ \A r \in Content(g_wins) : r.kind # "normal"
           /\ g_focus_win \in Ids(g_wins) \cup {0}
<1>1. Table(g_wins) /\ FocusExact
  BY DEF WinInv, TableInv
<1>2. \/ win_is_focusable(g_wins, g_focus_win)
      \/ g_focus_win = 0 /\ \A r \in Content(g_wins) : r.kind # "normal"
  BY <1>1, Topmost DEF FocusExact
<1> QED BY <1>1, <1>2, Questions

\* A new window comes with a new id; it gets the focus if it is a normal one.
LEMMA CreateTable ==
    ASSUME WinInv, NEW src \in Client, NEW kind \in {"background", "bar", "normal"}, NEW buf \in Nat,
           create_window(src, kind, buf),
           kind = "background" => Used(g_wins) = {},
           kind = "bar" => Used(g_wins) \subseteq {1}
    PROVE  /\ WinInv'
           /\ Content(g_wins') = Content(g_wins)
                \cup {[id |-> g_next_win_id, owner |-> src, kind |-> kind, shm |-> buf]}
           /\ g_next_win_id' = g_next_win_id + 1
           /\ kind = "background" => Used(g_wins') = {1}
<1> DEFINE id   == g_next_win_id
           free == FreeSlots(g_wins)
           slot == IF kind = "bar" THEN Max(free) ELSE Min(free)
           new  == [id |-> id, owner |-> src, kind |-> kind, shm |-> buf]
           w    == [g_wins EXCEPT ![slot] = new]
           foc  == IF kind = "normal" THEN id ELSE g_focus_win
<1>1. /\ free # {} /\ g_wins' = raise_window(w, id) /\ g_next_win_id' = id + 1
      /\ update_focus(raise_window(w, id), foc)
      /\ UNCHANGED <<g_hover_win, g_drag_win, g_left>>
  BY DEF create_window
<1>2. /\ Table(g_wins) /\ id \in Nat \ {0} /\ \A r \in Content(g_wins) : r.id < id
      /\ \A i \in Slots : g_wins[i].id # id
  <2>1. Table(g_wins) /\ id \in Nat \ {0} /\ \A r \in Content(g_wins) : r.id < id
    BY DEF WinInv, TableInv
  <2>2. ASSUME NEW i \in Slots PROVE g_wins[i].id # id
    <3>1. CASE i \in Used(g_wins)
      <4>1. g_wins[i] \in Content(g_wins) /\ g_wins[i].id \in Nat
        BY <2>1, <3>1, SlotKinds DEF Content, Window
      <4> QED BY <2>1, <4>1
    <3>2. CASE i \notin Used(g_wins)
      BY <2>1, <3>2 DEF Used
    <3> QED BY <3>1, <3>2
  <2> QED BY <2>1, <2>2
<1>3. /\ free \in SUBSET (1..MAX_WINS)
      /\ Min(free) \in free /\ Max(free) \in free
      /\ \A y \in free : Min(free) <= y /\ Max(free) >= y
  <2>1. free \in SUBSET (1..MAX_WINS)
    BY DEF FreeSlots, Slots
  <2> HIDE DEF free
  <2> QED BY <1>1, <2>1, MinMax, WinMgrAssumption
<1>4. slot \in Slots /\ slot \notin Used(g_wins)
  BY <1>3 DEF FreeSlots
<1>5. /\ kind = "background" => slot = 1
      /\ kind = "bar" => slot = MAX_WINS
  <2>1. ASSUME kind = "background" PROVE slot = 1
    <3>1. 1 \in free
      BY <2>1, WinMgrAssumption DEF FreeSlots, Slots
    <3> QED BY <1>3, <2>1, <3>1
  <2>2. ASSUME kind = "bar" PROVE slot = MAX_WINS
    <3>1. MAX_WINS \in free
      BY <1>1, <2>2, WinMgrAssumption DEF FreeSlots, Slots
    <3> QED BY <1>3, <2>2, <3>1, WinMgrAssumption
  <2> QED BY <2>1, <2>2
<1> HIDE DEF slot, free
<1>6. new \in Window /\ new.id = id /\ new.kind = kind /\ id # 0
  BY <1>2 DEF Window
<1>7. /\ w \in [Slots -> Window \cup {NoWin}] /\ w[slot] = new
      /\ \A i \in Slots : i # slot => w[i] = g_wins[i]
  BY <1>2, <1>4, <1>6 DEF Table
<1> HIDE DEF new, w
<1>8. Used(w) = Used(g_wins) \cup {slot}
  BY <1>4, <1>6, <1>7 DEF Used
<1>9. Distinct(w)
  <2>1. Distinct(g_wins) /\ \A i \in Used(g_wins) : i \in Slots
    BY <1>2 DEF Table, Used
  <2> QED BY <1>2, <1>4, <1>6, <1>7, <1>8, <2>1 DEF Distinct
<1>10. Layered(w)
  <2>1. Layered(g_wins) /\ \A i \in Used(g_wins) : i \in Slots
    BY <1>2 DEF Table, Used
  <2> QED BY <1>4, <1>5, <1>6, <1>7, <1>8, <2>1 DEF Layered
<1>11. Table(w) /\ Content(w) = Content(g_wins) \cup {new}
  <2>1. \A i \in Used(g_wins) : i \in Slots /\ i # slot
    BY <1>4 DEF Used
  <2> QED BY <1>7, <1>8, <1>9, <1>10, <2>1 DEF Table, Content
<1>12. Table(g_wins') /\ Content(g_wins') = Content(g_wins) \cup {new}
  BY <1>1, <1>11, Raise
<1>13. FocusTold' /\ g_focus_win' = foc
  <2>1. Ids(g_wins') = {r.id : r \in Content(g_wins')} /\ 0 \notin Ids(g_wins')
    BY <1>12, Questions
  <2>2. g_focus_win \in Ids(g_wins') \cup {0}
    BY <1>2, <1>12, <2>1, FocusNow, Questions
  <2>3. foc \in Ids(g_wins') \cup {0}
    BY <1>6, <1>12, <2>1, <2>2
  <2> QED BY <1>1, <2>1, <2>2, <2>3, UpdateFocus DEF WinInv
<1>14. FocusExact'
  <2>1. \/ win_is_focusable(g_wins', foc)
        \/ foc = 0 /\ \A r \in Content(g_wins') : r.kind # "normal"
    BY <1>2, <1>6, <1>12, FocusNow, Questions
  <2> HIDE DEF foc
  <2> QED BY <1>12, <1>13, <2>1, FocusRight DEF FocusExact
<1>15. NoDangling'
  <2>1. Ids(g_wins) \subseteq Ids(g_wins')
    BY <1>2, <1>12, Questions
  <2> QED BY <1>1, <2>1 DEF WinInv, NoDangling
<1>16. TableInv'
  <2>1. \A r \in Content(g_wins) : r.id \in Nat
    BY <1>2, ContentDistinct DEF Window
  <2> QED BY <1>1, <1>2, <1>6, <1>12, <2>1 DEF TableInv
<1>17. kind = "background" => Used(g_wins') = {1}
  <2> SUFFICES ASSUME kind = "background" PROVE Used(g_wins') = {1}
    OBVIOUS
  <2>1. \A r \in Content(w) : r.kind # "normal"
    BY <1>6, <1>11 DEF Content
  <2>2. g_wins' = w
    BY <1>1, <1>11, <2>1, Raise
  <2> QED BY <1>5, <1>8, <2>2
<1> QED BY <1>1, <1>12, <1>13, <1>14, <1>15, <1>16, <1>17 DEF WinInv, new

\* Closing a window removes that window and every mention of it.
LEMMA CloseTable ==
    ASSUME WinInv, NEW s \in Used(g_wins), close_window(g_wins[s].id)
    PROVE  /\ WinInv'
           /\ Content(g_wins') = Content(g_wins) \ {g_wins[s]}
           /\ Used(g_wins') \subseteq Used(g_wins)
           /\ g_next_win_id' = g_next_win_id
<1> DEFINE id == g_wins[s].id
           w  == [i \in Slots |-> IF g_wins[i].id = id THEN NoWin ELSE g_wins[i]]
           foc == next_focus(w, id)
<1>1. /\ g_wins' = w /\ g_next_win_id' = g_next_win_id /\ g_left' = g_left
      /\ update_focus(g_wins, foc)
      /\ g_hover_win' = forget(g_hover_win, id)
      /\ g_drag_win' = forget(g_drag_win, id)
  BY DEF close_window
<1>2. Table(g_wins) /\ s \in Slots /\ id # 0
  BY DEF WinInv, TableInv, Used
<1>3. \A i \in Slots : g_wins[i].id = id <=> i = s
  <2> SUFFICES ASSUME NEW i \in Slots, g_wins[i].id = id PROVE i = s
    BY <1>2
  <2>1. i \in Used(g_wins)
    BY <1>2 DEF Used
  <2> QED BY <1>2, <2>1 DEF Table, Distinct
<1>4. w \in [Slots -> Window \cup {NoWin}] /\ w[s] = NoWin /\ \A i \in Slots : i # s => w[i] = g_wins[i]
  BY <1>2, <1>3 DEF Table
<1>5. Used(w) = Used(g_wins) \ {s}
  <2>1. w[s].id = 0
    BY <1>4 DEF NoWin
  <2> HIDE DEF w
  <2> QED BY <1>2, <1>4, <2>1 DEF Used
<1> HIDE DEF w
<1>6. \A i \in Used(w) : i \in Used(g_wins) /\ w[i] = g_wins[i]
  BY <1>4, <1>5 DEF Used
<1>7. Table(w)
  BY <1>2, <1>4, <1>6 DEF Table, Distinct, Layered
<1>8. Content(w) = Content(g_wins) \ {g_wins[s]}
  <2>1. \A i \in Used(g_wins) : i # s => g_wins[i] # g_wins[s]
    BY <1>3 DEF Used
  <2> QED BY <1>5, <1>6, <2>1 DEF Content
<1>9. Ids(w) = Ids(g_wins) \ {id}
  <2>1. \A i \in Used(g_wins) : i # s => g_wins[i].id # id
    BY <1>3 DEF Used
  <2> QED BY <1>5, <1>6, <2>1 DEF Ids
<1>10. \/ win_is_focusable(w, foc)
       \/ foc = 0 /\ \A r \in Content(w) : r.kind # "normal"
  <2>1. CASE g_focus_win = id
    <3>1. foc = topmost_focusable_window(w)
      BY <2>1 DEF next_focus
    <3> QED BY <1>7, <3>1, Topmost
  <2>2. CASE g_focus_win # id
    <3>1. foc = g_focus_win
      BY <2>2 DEF next_focus
    <3>2. g_focus_win # g_wins[s].id
      BY <2>2
    <3> QED BY <1>2, <1>7, <1>8, <3>1, <3>2, FocusNow, Questions
  <2> QED BY <2>1, <2>2
<1> HIDE DEF foc
<1>11. foc \in Ids(w) \cup {0}
  BY <1>7, <1>10, Questions
<1>12. FocusTold' /\ g_focus_win' = foc
  <2>1. 0 \notin Ids(g_wins) /\ g_focus_win \in Ids(g_wins) \cup {0} /\ foc \in Ids(g_wins) \cup {0}
    BY <1>2, <1>9, <1>11, FocusNow, Questions
  <2> QED BY <1>1, <2>1, UpdateFocus DEF WinInv
<1>13. FocusExact'
  BY <1>1, <1>7, <1>10, <1>12, FocusRight DEF FocusExact
<1>14. NoDangling'
  BY <1>1, <1>9 DEF WinInv, NoDangling, forget
<1>15. TableInv'
  BY <1>1, <1>7, <1>8 DEF WinInv, TableInv
<1> QED BY <1>1, <1>5, <1>8, <1>12, <1>13, <1>14, <1>15 DEF WinInv

\* Mouse events keep the windows, and their order while none is a normal one.
LEMMA MouseTable ==
    ASSUME WinInv, NEW left \in BOOLEAN, NEW moved \in BOOLEAN, NEW under \in win_at(g_wins),
           mouse_event(left, moved, under)
    PROVE  /\ WinInv'
           /\ Content(g_wins') = Content(g_wins)
           /\ (\A r \in Content(g_wins) : r.kind # "normal") => g_wins' = g_wins
           /\ g_next_win_id' = g_next_win_id
<1> DEFINE down == left /\ ~g_left
           w == IF down THEN raise_window(g_wins, under) ELSE g_wins
           foc == IF down /\ win_is_focusable(w, under) THEN under ELSE g_focus_win
<1>1. /\ g_left' = left /\ g_wins' = w /\ g_next_win_id' = g_next_win_id
      /\ update_focus(w, foc)
  BY DEF mouse_event
<1>2. Table(g_wins) /\ Table(w) /\ Content(w) = Content(g_wins)
      /\ ((\A r \in Content(g_wins) : r.kind # "normal") => w = g_wins)
  BY FocusNow, Raise
<1>3. PICK drag \in {g_drag_win} \cup (IF down /\ win_is_focusable(w, under) THEN {under} ELSE {}) :
        /\ g_drag_win' = IF g_left /\ ~left THEN 0 ELSE drag
        /\ IF moved THEN handle_mouse_event(w, under, drag # 0 /\ left)
           ELSE UNCHANGED g_hover_win
  BY DEF mouse_event
<1> HIDE DEF w
<1>4. Ids(w) = Ids(g_wins) /\ win_at(w) \subseteq Ids(w) \cup {0} /\ 0 \notin Ids(w)
      /\ under \in Ids(w) \cup {0}
  <2>1. /\ Ids(w) = {r.id : r \in Content(w)} /\ 0 \notin Ids(w)
        /\ win_at(w) \subseteq Ids(w) \cup {0}
    BY <1>2, Questions
  <2>2. /\ Ids(g_wins) = {r.id : r \in Content(g_wins)}
        /\ win_at(g_wins) \subseteq Ids(g_wins) \cup {0}
    BY <1>2, Questions
  <2>3. Ids(w) = Ids(g_wins)
    BY <1>2, <2>1, <2>2
  <2> QED BY <2>1, <2>2, <2>3
<1>5. \/ win_is_focusable(w, foc)
      \/ foc = 0 /\ \A r \in Content(w) : r.kind # "normal"
  BY <1>2, FocusNow, Questions
<1>6. foc \in Ids(w) \cup {0} /\ g_focus_win \in Ids(w) \cup {0}
  BY <1>4, FocusNow
<1> HIDE DEF foc
<1>7. FocusTold' /\ g_focus_win' = foc
  BY <1>1, <1>4, <1>6, UpdateFocus DEF WinInv
<1>8. FocusExact'
  BY <1>1, <1>2, <1>5, <1>7, FocusRight DEF FocusExact
<1>9. NoDangling'
  <2>1. g_hover_win \in Ids(w) \cup {0} /\ g_drag_win \in Ids(w) \cup {0} /\ (g_drag_win # 0 => g_left)
    BY <1>4 DEF WinInv, NoDangling
  <2>2. g_hover_win' \in Ids(w) \cup {0}
    BY <1>3, <1>4, <2>1 DEF handle_mouse_event
  <2>3. g_drag_win' \in Ids(w) \cup {0}
    BY <1>3, <1>4, <2>1
  <2>4. g_drag_win' # 0 => left
    <3> SUFFICES ASSUME ~left, ~g_left PROVE g_drag_win' = 0
      BY <1>3, Zenon
    <3>1. g_drag_win = 0 /\ ~down
      BY <2>1
    <3> QED BY <1>3, <3>1
  <2> QED BY <1>1, <2>2, <2>3, <2>4 DEF NoDangling
<1>10. TableInv'
  BY <1>1, <1>2 DEF WinInv, TableInv
<1> QED BY <1>1, <1>2, <1>7, <1>8, <1>9, <1>10 DEF WinInv

\* A key finds the focus where it should be: nothing changes.
LEMMA KbdTable ==
    ASSUME WinInv, NEW under \in win_at(g_wins), kbd_event(under)
    PROVE  UNCHANGED win_vars
<1>1. Table(g_wins)
  BY FocusNow
<1>2. ~win_is_focusable(g_wins, g_focus_win) =>
        /\ \A id : ~win_is_focusable(g_wins, id)
        /\ topmost_focusable_window(g_wins) = 0
  BY <1>1, FocusNow, Questions, Topmost
<1>3. update_focus(g_wins, g_focus_win) /\ UNCHANGED <<g_wins, g_next_win_id, g_hover_win, g_drag_win, g_left>>
  BY <1>2 DEF kbd_event
<1> QED BY <1>3 DEF update_focus, win_vars
-----------------------------------------------------------------------------
(* The endpoint and the objects                                            *)

\* Every message at the endpoint after a step was there before, d places later,
\* or is the last one, m.
Shifted(d) == \A k \in DOMAIN inbox' : k + d \in DOMAIN inbox /\ inbox'[k] = inbox[k + d]
ShiftedBut(d, m) == \A k \in DOMAIN inbox' : \/ k + d \in DOMAIN inbox /\ inbox'[k] = inbox[k + d]
                                             \/ k = Len(inbox') /\ inbox'[k] = m

\* Sending adds one message at the end, and may drop the first.
LEMMA Send ==
    ASSUME inbox \in Seq(Message), NEW m \in Message, wm_send(m)
    PROVE  /\ inbox' \in Seq(Message)
           /\ \E d \in {0, 1} : ShiftedBut(d, m)
           /\ inbox = << >> => \A k \in DOMAIN inbox' : k = 1 /\ inbox'[k] = m
<1>1. Cap \in Nat \ {0}
  BY DesktopAssumption
<1>2. CASE Len(inbox) < Cap
  <2>1. inbox' = Append(inbox, m)
    BY <1>2 DEF wm_send
  <2>2. inbox' \in Seq(Message) /\ (inbox = << >> => \A k \in DOMAIN inbox' : k = 1 /\ inbox'[k] = m)
    BY <2>1
  <2>3. ShiftedBut(0, m)
    BY <2>1 DEF ShiftedBut
  <2> QED BY <2>2, <2>3
<1>3. CASE ~(Len(inbox) < Cap)
  <2>1. inbox' = Append(Tail(inbox), m) /\ inbox # << >>
    BY <1>1, <1>3 DEF wm_send
  <2>2. Tail(inbox) \in Seq(Message) /\ Len(Tail(inbox)) = Len(inbox) - 1
        /\ \A k \in 1..(Len(inbox) - 1) : Tail(inbox)[k] = inbox[k + 1]
    BY <2>1
  <2>3. inbox' \in Seq(Message)
    BY <2>1, <2>2
  <2>4. ShiftedBut(1, m)
    BY <2>1, <2>2 DEF ShiftedBut
  <2> QED BY <2>1, <2>3, <2>4
<1> QED BY <1>2, <1>3

\* Reading removes the first message.
LEMMA Receive ==
    ASSUME inbox \in Seq(Message), inbox # << >>, inbox' = Tail(inbox)
    PROVE  /\ inbox' \in Seq(Message)
           /\ Shifted(1)
           /\ 1 \in DOMAIN inbox /\ inbox[1] \in Message
           /\ (\A k \in DOMAIN inbox : k = 1) => inbox' = << >>
<1>1. inbox' \in Seq(Message) /\ Len(inbox') = Len(inbox) - 1
      /\ \A k \in 1..(Len(inbox) - 1) : inbox'[k] = inbox[k + 1]
  OBVIOUS
<1>2. Shifted(1)
  BY <1>1 DEF Shifted
<1>3. 1 \in DOMAIN inbox /\ inbox[1] \in Message
  OBVIOUS
<1>4. (\A k \in DOMAIN inbox : k = 1) => inbox' = << >>
  <2> SUFFICES ASSUME \A k \in DOMAIN inbox : k = 1 PROVE inbox' = << >>
    OBVIOUS
  <2>1. Len(inbox) \in DOMAIN inbox
    OBVIOUS
  <2> QED BY <1>1, <2>1
<1> QED BY <1>1, <1>2, <1>3, <1>4

\* shm_find finds the entry of an object that exists.
LEMMA Find ==
    ASSUME ShmTypes, NEW o, \E i \in Entries : shm_objs[i].id = o
    PROVE  shm_find(o) \in Entries /\ shm_objs[shm_find(o)].id = o
<1> DEFINE T == {i \in Entries : shm_objs[i].id = o}
<1>1. T \in SUBSET (1..SHM_MAX_OBJECTS) /\ T # {}
  BY DEF Entries
<1>2. Min(T) \in T
  <2> HIDE DEF T
  <2> QED BY <1>1, MinMax, ShmAssumption
<1> QED BY <1>2 DEF shm_find

\* shm_create: a free entry becomes a new object.
LEMMA ShmCreate ==
    ASSUME ShmTypes, shm_create
    PROVE  /\ ShmTypes' /\ shm_next_id' = shm_next_id + 1 /\ mapped' = mapped
           /\ \A i \in Entries : \/ shm_objs'[i] = shm_objs[i]
                                 \/ shm_objs[i].id = 0 /\ shm_objs'[i] = [id |-> shm_next_id, refcount |-> 1]
<1> DEFINE e == shm_find(0)
           new == [id |-> shm_next_id, refcount |-> 1]
<1>1. e \in Entries /\ shm_objs[e].id = 0
  BY Find DEF shm_create, HasEntry
<1> HIDE DEF e
<1>2. /\ shm_objs' = [shm_objs EXCEPT ![e] = new]
      /\ shm_next_id' = shm_next_id + 1 /\ mapped' = mapped
  BY DEF shm_create, e
<1>3. /\ shm_objs \in [Entries -> [id : Nat, refcount : Nat]] /\ shm_next_id \in Nat \ {0}
      /\ \A i \in Entries : shm_objs[i].id < shm_next_id
      /\ \A i, j \in Entries : shm_objs[i].id # 0 /\ shm_objs[i].id = shm_objs[j].id => i = j
      /\ mapped \in [Process -> SUBSET (1..(shm_next_id - 1))]
  BY DEF ShmTypes
<1>4. new \in [id : Nat, refcount : Nat] /\ new.id = shm_next_id
  BY <1>3
<1>5. /\ shm_objs' \in [Entries -> [id : Nat, refcount : Nat]] /\ shm_objs'[e] = new
      /\ \A i \in Entries : i # e => shm_objs'[i] = shm_objs[i]
  BY <1>1, <1>2, <1>3, <1>4
<1>6. mapped' \in [Process -> SUBSET (1..(shm_next_id' - 1))]
  BY <1>2, <1>3
<1>7. \A i \in Entries : shm_objs[i].id \in Nat
  BY <1>3
<1>8. \A i \in Entries : shm_objs'[i].id < shm_next_id'
  BY <1>2, <1>3, <1>4, <1>5, <1>7
<1>9. \A i, j \in Entries : shm_objs'[i].id # 0 /\ shm_objs'[i].id = shm_objs'[j].id => i = j
  BY <1>3, <1>4, <1>5, <1>7
<1> QED BY <1>1, <1>2, <1>3, <1>5, <1>6, <1>8, <1>9 DEF ShmTypes

\* shm_map: one more reference.
LEMMA ShmMap ==
    ASSUME ShmTypes, NEW q \in Process, NEW o, shm_map(q, o)
    PROVE  /\ ShmTypes' /\ shm_next_id' = shm_next_id
           /\ mapped' = [mapped EXCEPT ![q] = @ \cup {o}]
           /\ \A i \in Entries :
                /\ shm_objs'[i].id = shm_objs[i].id
                /\ shm_objs'[i].refcount = shm_objs[i].refcount + One(shm_objs[i].id = o)
           /\ Live(o) /\ o \in 1..(shm_next_id - 1)
<1> DEFINE e == shm_find(o)
<1>1. e \in Entries /\ shm_objs[e].id = o /\ o # 0 /\ Live(o)
  BY Find DEF shm_map, Live
<1> HIDE DEF e
<1>2. /\ shm_objs' = [shm_objs EXCEPT ![e].refcount = @ + 1]
      /\ shm_next_id' = shm_next_id /\ mapped' = [mapped EXCEPT ![q] = @ \cup {o}]
  BY DEF shm_map, e
<1>3. /\ shm_objs \in [Entries -> [id : Nat, refcount : Nat]] /\ shm_next_id \in Nat \ {0}
      /\ \A i \in Entries : shm_objs[i].id < shm_next_id
      /\ \A i, j \in Entries : shm_objs[i].id # 0 /\ shm_objs[i].id = shm_objs[j].id => i = j
      /\ mapped \in [Process -> SUBSET (1..(shm_next_id - 1))]
  BY DEF ShmTypes
<1>4. /\ shm_objs' \in [Entries -> [id : Nat, refcount : Nat]]
      /\ \A i \in Entries : /\ shm_objs'[i].id = shm_objs[i].id
                            /\ i # e => shm_objs'[i].refcount = shm_objs[i].refcount
                            /\ i = e => shm_objs'[i].refcount = shm_objs[i].refcount + 1
  BY <1>1, <1>2, <1>3
<1>5. \A i \in Entries : shm_objs'[i].refcount = shm_objs[i].refcount + One(shm_objs[i].id = o)
  BY <1>1, <1>3, <1>4 DEF One
<1>6. o \in 1..(shm_next_id - 1)
  BY <1>1, <1>3
<1>7. mapped' \in [Process -> SUBSET (1..(shm_next_id' - 1))]
  BY <1>2, <1>3, <1>6
<1> QED BY <1>1, <1>2, <1>3, <1>4, <1>5, <1>6, <1>7 DEF ShmTypes

\* shm_close: one reference less, and the last one frees the entry.
LEMMA ShmClose ==
    ASSUME ShmTypes, NEW o \in Nat \ {0}, shm_close(o),
           \A i \in Entries : shm_objs[i].id = o => shm_objs[i].refcount # 0
    PROVE  /\ ShmTypes' /\ shm_next_id' = shm_next_id /\ mapped' = mapped
           /\ \A i \in Entries :
                IF shm_objs[i].id # o THEN shm_objs'[i] = shm_objs[i]
                ELSE IF shm_objs[i].refcount = 1 THEN shm_objs'[i] = FreeEntry
                ELSE /\ shm_objs'[i].id = shm_objs[i].id
                     /\ shm_objs'[i].refcount = shm_objs[i].refcount - 1
<1> DEFINE e == shm_find(o)
<1>1. /\ shm_objs \in [Entries -> [id : Nat, refcount : Nat]] /\ shm_next_id \in Nat \ {0}
      /\ \A i \in Entries : shm_objs[i].id < shm_next_id
      /\ \A i, j \in Entries : shm_objs[i].id # 0 /\ shm_objs[i].id = shm_objs[j].id => i = j
      /\ mapped \in [Process -> SUBSET (1..(shm_next_id - 1))]
      /\ shm_next_id' = shm_next_id /\ mapped' = mapped
  BY DEF ShmTypes, shm_close
<1>2. CASE ~Live(o)
  <2>1. shm_objs' = shm_objs /\ \A i \in Entries : shm_objs[i].id # o
    BY <1>2 DEF shm_close, Live
  <2> QED BY <1>1, <2>1 DEF ShmTypes
<1>3. CASE Live(o)
  <2>1. e \in Entries /\ shm_objs[e].id = o
    BY <1>3, Find DEF Live
  <2>2. \A i \in Entries : shm_objs[i].id = o <=> i = e
    BY <1>1, <2>1
  <2>3. shm_objs' = IF shm_objs[e].refcount = 1 THEN [shm_objs EXCEPT ![e] = FreeEntry]
                    ELSE [shm_objs EXCEPT ![e].refcount = @ - 1]
    BY <1>3 DEF shm_close
  <2> HIDE DEF e
  <2>4. CASE shm_objs[e].refcount = 1
    <3>1. FreeEntry \in [id : Nat, refcount : Nat] /\ FreeEntry.id = 0
      BY DEF FreeEntry
    <3>2. /\ shm_objs' \in [Entries -> [id : Nat, refcount : Nat]] /\ shm_objs'[e] = FreeEntry
          /\ \A i \in Entries : i # e => shm_objs'[i] = shm_objs[i]
      BY <1>1, <2>1, <2>3, <2>4, <3>1
    <3>3. ShmTypes'
      BY <1>1, <3>1, <3>2 DEF ShmTypes
    <3> QED BY <1>1, <2>2, <2>4, <3>2, <3>3
  <2>5. CASE shm_objs[e].refcount # 1
    <3>1. shm_objs[e].refcount - 1 \in Nat
      BY <1>1, <2>1
    <3>2. /\ shm_objs' \in [Entries -> [id : Nat, refcount : Nat]]
          /\ shm_objs'[e].id = o /\ shm_objs'[e].refcount = shm_objs[e].refcount - 1
          /\ \A i \in Entries : i # e => shm_objs'[i] = shm_objs[i]
      BY <1>1, <2>1, <2>3, <2>5, <3>1
    <3>3. ShmTypes'
      BY <1>1, <2>1, <3>2 DEF ShmTypes
    <3> QED BY <1>1, <2>1, <2>2, <2>5, <3>2, <3>3
  <2> QED BY <2>4, <2>5
<1> QED BY <1>2, <1>3

-----------------------------------------------------------------------------
(* References                                                              *)

\* A step that changes neither objects nor users.
LEMMA RefsSame ==
    ASSUME RefsExact, MappedLive, shm_objs' = shm_objs, Held' = Held, Mapped' = Mapped, Shown' = Shown
    PROVE  RefsExact' /\ MappedLive'
  BY DEF RefsExact, References, MappedLive, Live

\* A new object has one user: the client that created it.
LEMMA RefsCreate ==
    ASSUME ShmTypes, RefsExact, MappedLive, shm_create,
           Held' = Held \cup {shm_next_id}, Mapped' = Mapped, Shown' = Shown,
           shm_next_id \notin Held \cup Mapped \cup Shown
    PROVE  RefsExact' /\ MappedLive'
<1>1. \A i \in Entries : \/ shm_objs'[i] = shm_objs[i] /\ shm_objs[i].id # shm_next_id
                         \/ shm_objs[i].id = 0 /\ shm_objs'[i] = [id |-> shm_next_id, refcount |-> 1]
  BY ShmCreate DEF ShmTypes
<1>2. shm_next_id # 0
  BY DEF ShmTypes
<1>3. RefsExact'
  <2> SUFFICES ASSUME NEW i \in Entries
               PROVE  (shm_objs[i].refcount = IF shm_objs[i].id = 0 THEN 0 ELSE References(shm_objs[i].id))'
    BY DEF RefsExact
  <2>1. CASE shm_objs'[i] = shm_objs[i] /\ shm_objs[i].id # shm_next_id
    BY <2>1 DEF RefsExact, References
  <2>2. CASE shm_objs'[i] = [id |-> shm_next_id, refcount |-> 1]
    BY <1>2, <2>2 DEF References, One
  <2> QED BY <1>1, <2>1, <2>2
<1>4. MappedLive'
  BY <1>1 DEF MappedLive, Live
<1> QED BY <1>3, <1>4

\* A mapping is a new user: of a client, or of the window manager for a window.
LEMMA RefsMap ==
    ASSUME ShmTypes, RefsExact, MappedLive, NEW q \in Process, NEW o, shm_map(q, o),
           Held' = Held,
           \/ Mapped' = Mapped \cup {o} /\ o \notin Mapped /\ Shown' = Shown
           \/ Mapped' = Mapped /\ Shown' = Shown \cup {o} /\ o \notin Shown
    PROVE  RefsExact' /\ MappedLive'
<1>1. /\ \A i \in Entries :
            /\ shm_objs'[i].id = shm_objs[i].id
            /\ shm_objs'[i].refcount = shm_objs[i].refcount + One(shm_objs[i].id = o)
      /\ Live(o) /\ o # 0
  BY ShmMap DEF Live
<1>2. RefsExact'
  <2> SUFFICES ASSUME NEW i \in Entries
               PROVE  (shm_objs[i].refcount = IF shm_objs[i].id = 0 THEN 0 ELSE References(shm_objs[i].id))'
    BY DEF RefsExact
  <2>1. shm_objs[i].refcount = IF shm_objs[i].id = 0 THEN 0 ELSE References(shm_objs[i].id)
    BY DEF RefsExact
  <2> QED BY <1>1, <2>1 DEF References, One
<1>3. MappedLive'
  BY <1>1 DEF MappedLive, Live
<1> QED BY <1>2, <1>3

\* A close ends one use; what is still mapped keeps a reference.
LEMMA RefsClose ==
    ASSUME ShmTypes, RefsExact, MappedLive, NEW o \in Nat \ {0}, shm_close(o),
           Mapped' = Mapped,
           \/ Held' = Held \ {o} /\ o \in Held /\ Shown' = Shown
           \/ Held' = Held /\ o \in Shown /\ Shown' = Shown \ {o}
    PROVE  RefsExact' /\ MappedLive' /\ ShmTypes' /\ shm_next_id' = shm_next_id /\ mapped' = mapped
<1>1. \A i \in Entries : shm_objs[i].id = o => shm_objs[i].refcount # 0
  BY DEF RefsExact, References, One
<1>2. /\ ShmTypes' /\ shm_next_id' = shm_next_id /\ mapped' = mapped
      /\ \A i \in Entries :
           IF shm_objs[i].id # o THEN shm_objs'[i] = shm_objs[i]
           ELSE IF shm_objs[i].refcount = 1 THEN shm_objs'[i] = FreeEntry
           ELSE /\ shm_objs'[i].id = shm_objs[i].id
                /\ shm_objs'[i].refcount = shm_objs[i].refcount - 1
  BY <1>1, ShmClose
<1>3. FreeEntry.id = 0 /\ FreeEntry.refcount = 0
  BY DEF FreeEntry
<1>4. \A i \in Entries : shm_objs[i].refcount = IF shm_objs[i].id = 0 THEN 0 ELSE References(shm_objs[i].id)
  BY DEF RefsExact
<1>5. RefsExact'
  <2> SUFFICES ASSUME NEW i \in Entries
               PROVE  (shm_objs[i].refcount = IF shm_objs[i].id = 0 THEN 0 ELSE References(shm_objs[i].id))'
    BY DEF RefsExact
  <2>1. CASE shm_objs[i].id # o
    BY <1>2, <1>4, <2>1 DEF References, One
  <2>2. CASE shm_objs[i].id = o /\ shm_objs[i].refcount = 1
    BY <1>2, <1>3, <2>2
  <2>3. CASE shm_objs[i].id = o /\ shm_objs[i].refcount # 1
    BY <1>2, <1>4, <2>3 DEF References, One
  <2> QED BY <2>1, <2>2, <2>3
<1>6. MappedLive'
  <2> SUFFICES ASSUME NEW x \in Mapped PROVE Live(x)'
    BY DEF MappedLive
  <2>1. PICK i \in Entries : shm_objs[i].id = x /\ x # 0
    BY DEF MappedLive, Live
  <2>2. x = o => shm_objs[i].refcount # 1
    BY <1>4, <2>1 DEF References, One
  <2>3. shm_objs'[i].id = x
    BY <1>2, <2>1, <2>2
  <2> QED BY <2>1, <2>3 DEF Live
<1> QED BY <1>2, <1>5, <1>6
-----------------------------------------------------------------------------
(* The steps of the clients                                                *)

\* A client changes nothing of another one.
Frame(p) == \A q \in Client \ {p} : /\ pc'[q] = pc[q] /\ shm'[q] = shm[q]
                                    /\ windows'[q] = windows[q] /\ reply'[q] = reply[q]

\* What the clients other than p hold.
Others(p) == UNION {HeldBy(q) : q \in Client \ {p}}

\* Only what p holds can change.
LEMMA HeldSplit ==
    ASSUME NEW p \in Client, Frame(p)
    PROVE  /\ \A q \in Client \ {p} : HeldBy(q)' = HeldBy(q)
           /\ Held = HeldBy(p) \cup Others(p)
           /\ Held' = HeldBy(p)' \cup Others(p)
<1>1. \A q \in Client \ {p} : HeldBy(q)' = HeldBy(q)
  BY DEF Frame, HeldBy
<1>2. Held = HeldBy(p) \cup Others(p)
  BY DEF Held, Others
<1>3. Held' = HeldBy(p)' \cup Others(p)
  BY <1>1 DEF Held, Others
<1> QED BY <1>1, <1>2, <1>3

\* The table's part of the invariant, when nothing of it changes.
LEMMA WinSame ==
    ASSUME WinInv, UNCHANGED win_vars
    PROVE  WinInv' /\ Shown' = Shown
  BY DEF win_vars, WinInv, TableInv, FocusExact, FocusTold, NoDangling, Shown

\* What a client's step leaves alone of the others: what they wait for, have
\* and hold, as long as the table stays and no object of theirs is mapped anew.
LEMMA Undisturbed ==
    ASSUME NEW p \in Client, Frame(p), Own, NEW q \in Client \ {p}
    PROVE  /\ g_wins' = g_wins => /\ KeptBy(q) => KeptBy(q)'
                                  /\ AnswerTo(q) => AnswerTo(q)'
           /\ \A m \in Message : m.src = q => /\ Asked(m) => Asked(m)'
                                              /\ g_next_win_id' = g_next_win_id /\ Leaving(m) => Leaving(m)'
           /\ HeldBy(q)' = HeldBy(q)
           /\ /\ shm_next_id \in Nat /\ shm_next_id' \in {shm_next_id, shm_next_id + 1}
              /\ Mapped' \subseteq Mapped \cup HeldBy(p)
              => OwnBy(q)'
<1>1. pc'[q] = pc[q] /\ shm'[q] = shm[q] /\ windows'[q] = windows[q] /\ reply'[q] = reply[q]
  BY DEF Frame
<1>2. g_wins' = g_wins => (KeptBy(q) => KeptBy(q)')
  BY <1>1 DEF KeptBy, Has
<1>3. g_wins' = g_wins => (AnswerTo(q) => AnswerTo(q)')
  BY <1>1 DEF AnswerTo, Has
<1>4. \A m \in Message : m.src = q => (Asked(m) => Asked(m)')
  BY <1>1 DEF Asked, Kind
<1>5. \A m \in Message : m.src = q /\ g_next_win_id' = g_next_win_id => (Leaving(m) => Leaving(m)')
  BY <1>1 DEF Leaving
<1>6. HeldBy(q)' = HeldBy(q)
  BY <1>1 DEF HeldBy
<1>7. ASSUME shm_next_id \in Nat, shm_next_id' \in {shm_next_id, shm_next_id + 1},
             Mapped' \subseteq Mapped \cup HeldBy(p)
      PROVE  OwnBy(q)'
  <2>1. OwnBy(q) /\ HeldBy(q) \cap HeldBy(p) = {}
    BY DEF Own
  <2>2. HeldBy(q)' \subseteq 1..(shm_next_id' - 1)
    BY <1>6, <1>7, <2>1 DEF OwnBy
  <2>3. pc[q] = "shm_map" => shm[q] \notin Mapped'
    <3>1. pc[q] = "shm_map" => shm[q] \in HeldBy(q) /\ shm[q] \notin Mapped
      BY <2>1 DEF HeldBy, OwnBy
    <3> QED BY <1>7, <2>1, <3>1
  <2> QED BY <1>1, <2>1, <2>2, <2>3 DEF OwnBy
<1> QED BY <1>2, <1>3, <1>4, <1>5, <1>6, <1>7

\* The parts of the invariant that are about one client at a time, from what a
\* step makes of that client.
LEMMA OneClient ==
    ASSUME NEW p \in Client, Frame(p), Own, Kept, Answers, UNCHANGED win_vars,
           shm_next_id \in Nat, shm_next_id' \in {shm_next_id, shm_next_id + 1},
           Mapped' \subseteq Mapped \cup HeldBy(p),
           KeptBy(p)', AnswerTo(p)', OwnBy(p)',
           HeldBy(p)' \subseteq HeldBy(p) \cup {shm_next_id}
    PROVE  Kept' /\ Answers' /\ Own'
<1>1. g_wins' = g_wins
  BY DEF win_vars
<1>2. Kept'
  BY <1>1, Undisturbed DEF Kept
<1>3. Answers'
  BY <1>1, Undisturbed DEF Answers
<1>4. \A q \in Client : OwnBy(q)'
  BY Undisturbed
<1>5. ASSUME NEW q \in Client, NEW r \in Client, q # r, NEW x \in HeldBy(q)', x \in HeldBy(r)'
      PROVE  FALSE
  <2>1. \A s \in Client \ {p} : HeldBy(s)' = HeldBy(s)
    BY Undisturbed
  <2>2. \A s \in Client : shm_next_id \notin HeldBy(s)
    BY DEF Own, OwnBy
  <2>3. \A s, t \in Client : s # t => HeldBy(s) \cap HeldBy(t) = {}
    BY DEF Own
  <2>4. CASE q = p
    BY <1>5, <2>1, <2>2, <2>3, <2>4
  <2>5. CASE r = p
    BY <1>5, <2>1, <2>2, <2>3, <2>5
  <2>6. CASE q # p /\ r # p
    BY <1>5, <2>1, <2>3, <2>6
  <2> QED BY <2>4, <2>5, <2>6
<1> QED BY <1>2, <1>3, <1>4, <1>5 DEF Own

\* Messages come from clients.
LEMMA Senders ==
    ASSUME inbox \in Seq(Message)
    PROVE  /\ \A k \in DOMAIN inbox : inbox[k] \in Message /\ inbox[k].src \in Client
           /\ \A m \in Message : /\ m.src \in Client /\ m.arg \in Nat
                                /\ m.type \in {"create", "close"}
<1>1. \A m \in Message : m.src \in Client /\ m.arg \in Nat /\ m.type \in {"create", "close"}
  BY DEF Message
<1>2. \A k \in DOMAIN inbox : inbox[k] \in Message
  OBVIOUS
<1> QED BY <1>1, <1>2

\* The messages that stay at the endpoint, for a step of p that sends none.
LEMMA SameInbox ==
    ASSUME NEW p \in Client, Frame(p), Own, Requests, Closing, inbox \in Seq(Message), inbox' = inbox,
           g_next_win_id' = g_next_win_id,
           \A m \in Message : m.src = p => /\ m.type = "create" /\ Asked(m) => Asked(m)'
                                           /\ m.type = "close" /\ Leaving(m) => Leaving(m)'
    PROVE  Requests' /\ Closing'
<1>1. \A k \in DOMAIN inbox : inbox[k] \in Message /\ inbox[k].src \in Client
  BY Senders
<1>2. \A k \in DOMAIN inbox : inbox[k].type = "create" => Asked(inbox[k])'
  BY <1>1, Undisturbed DEF Requests
<1>3. \A k \in DOMAIN inbox : inbox[k].type = "close" => Leaving(inbox[k])'
  BY <1>1, Undisturbed DEF Closing
<1> QED BY <1>2, <1>3 DEF Requests, Closing

\* The same for a step that sends m.
LEMMA SentInbox ==
    ASSUME NEW p \in Client, Frame(p), Own, Requests, Closing, inbox \in Seq(Message),
           NEW m \in Message, m.src = p, wm_send(m), g_next_win_id' = g_next_win_id,
           \A n \in Message : n.src = p => /\ n.type = "create" /\ Asked(n) => Asked(n)' /\ m.type # "create"
                                           /\ n.type = "close" /\ Leaving(n) => Leaving(n)',
           m.type = "create" => Asked(m)',
           m.type = "close" => Leaving(m)'
    PROVE  Requests' /\ Closing' /\ inbox' \in Seq(Message)
<1>1. /\ \A k \in DOMAIN inbox : inbox[k] \in Message /\ inbox[k].src \in Client
      /\ m.type \in {"create", "close"}
  BY Senders
<1>2. ASSUME NEW n \in Message, NEW k \in DOMAIN inbox, n = inbox[k]
      PROVE  /\ n.type = "create" => Asked(n)' /\ (m.type = "create" => n.src # p)
             /\ n.type = "close" => Leaving(n)'
  <2>1. /\ n.type = "create" => Asked(n)
        /\ n.type = "close" => Leaving(n)
    BY <1>2 DEF Requests, Closing
  <2>2. CASE n.src = p
    BY <2>1, <2>2
  <2>3. CASE n.src # p
    <3>1. n.src \in Client \ {p}
      BY <1>1, <1>2, <2>3
    <3>2. (Asked(n) => Asked(n)') /\ (Leaving(n) => Leaving(n)')
      BY <3>1, Undisturbed
    <3> QED BY <2>1, <2>3, <3>2
  <2> QED BY <2>2, <2>3
<1>3. inbox' \in Seq(Message) /\ \E d \in {0, 1} : ShiftedBut(d, m)
  BY Send
<1>4. PICK d \in {0, 1} : ShiftedBut(d, m)
  BY <1>3
<1>5. ASSUME NEW n \in Message, NEW k \in DOMAIN inbox', n = inbox'[k]
      PROVE  (n.type = "create" => Asked(n)') /\ (n.type = "close" => Leaving(n)')
  <2>1. \/ k + d \in DOMAIN inbox /\ n = inbox[k + d]
        \/ n = m
    BY <1>4, <1>5 DEF ShiftedBut
  <2> QED BY <1>2, <2>1
<1>6. \A k \in DOMAIN inbox' : inbox'[k] \in Message
  BY <1>3
<1>7. \A j, k \in DOMAIN inbox' : inbox'[j].type = "create" /\ inbox'[k].type = "create"
                                     /\ inbox'[j].src = inbox'[k].src => j = k
  <2>1. DOMAIN inbox' = 1..Len(inbox') /\ Len(inbox') \in Nat
    BY <1>3
  <2>2. \A k \in DOMAIN inbox : inbox[k].type = "create" /\ m.type = "create" => inbox[k].src # p
    BY <1>1, <1>2
  <2>3. \A j, k \in DOMAIN inbox : inbox[j].type = "create" /\ inbox[k].type = "create"
                                    /\ inbox[j].src = inbox[k].src => j = k
    BY DEF Requests
  <2>4. \A k \in DOMAIN inbox' :
          \/ k + d \in DOMAIN inbox /\ inbox'[k] = inbox[k + d]
          \/ k = Len(inbox') /\ inbox'[k] = m
    BY <1>4 DEF ShiftedBut
  <2>5. d \in Nat /\ \A k \in DOMAIN inbox' : k \in Nat
    BY <2>1
  <2> SUFFICES ASSUME NEW j \in DOMAIN inbox', NEW k \in DOMAIN inbox', inbox'[j].type = "create",
                      inbox'[k].type = "create", inbox'[j].src = inbox'[k].src
               PROVE  j = k
    OBVIOUS
  <2>6. CASE inbox'[j] = m \/ inbox'[k] = m
    BY <2>2, <2>4, <2>6
  <2>7. CASE inbox'[j] # m /\ inbox'[k] # m
    <3>1. j + d = k + d
      BY <2>3, <2>4, <2>7
    <3> QED BY <2>5, <3>1
  <2> QED BY <2>6, <2>7
<1>8. Requests'
  BY <1>5, <1>6, <1>7 DEF Requests, Asked, Kind
<1>9. Closing'
  BY <1>5, <1>6 DEF Closing, Leaving
<1> QED BY <1>3, <1>8, <1>9

\* What a step needs of the invariant's types.
LEMMA Facts ==
    ASSUME DesktopInv
    PROVE  /\ pc \in [Client -> {"shm_create", "shm_map", "wait", "up", "close", "unref", "gone"}]
           /\ shm \in [Client -> Nat]
           /\ windows \in [Client -> Seq(Opened)]
           /\ inbox \in Seq(Message)
           /\ reply \in [Client -> Nat \cup {-1}]
           /\ Bg \in Client /\ Bg \notin App /\ Wm \notin Client /\ App \subseteq Client
           /\ Process = Client \cup {Wm}
           /\ shm_next_id \in Nat \ {0} /\ mapped \in [Process -> SUBSET (1..(shm_next_id - 1))]
           /\ Held \subseteq 1..(shm_next_id - 1) /\ Mapped \subseteq 1..(shm_next_id - 1)
           /\ Shown \subseteq Mapped
<1>1. /\ Bg \in Client /\ Bg \notin App /\ Wm \notin Client /\ App \subseteq Client
      /\ Process = Client \cup {Wm}
  BY DesktopAssumption DEF Client
<1>2. /\ pc \in [Client -> {"shm_create", "shm_map", "wait", "up", "close", "unref", "gone"}]
      /\ shm \in [Client -> Nat]
      /\ windows \in [Client -> Seq(Opened)]
      /\ inbox \in Seq(Message)
      /\ reply \in [Client -> Nat \cup {-1}]
  BY DEF DesktopInv, ClientTypes
<1>3. shm_next_id \in Nat \ {0} /\ mapped \in [Process -> SUBSET (1..(shm_next_id - 1))]
  BY DEF DesktopInv, ShmTypes
<1>4. Held \subseteq 1..(shm_next_id - 1)
  BY DEF DesktopInv, Own, OwnBy, Held
<1>5. Mapped \subseteq 1..(shm_next_id - 1)
  BY <1>1, <1>3 DEF Mapped
<1>6. Shown \subseteq Mapped
  BY DEF DesktopInv, Buffers
<1> QED BY <1>1, <1>2, <1>3, <1>4, <1>5, <1>6

\* open_window gets its buffer.
LEMMA CreateBufferStep ==
    ASSUME DesktopInv, NEW p \in Client, pc[p] = "shm_create", Started(p), shm_create,
           shm' = [shm EXCEPT ![p] = shm_next_id], pc' = [pc EXCEPT ![p] = "shm_map"],
           UNCHANGED <<win_vars, windows, inbox, reply>>
    PROVE  DesktopInv'
<1> USE Facts
<1>1. WinInv' /\ Shown' = Shown /\ g_wins' = g_wins /\ g_next_win_id' = g_next_win_id
  BY WinSame DEF DesktopInv, win_vars
<1>2. Frame(p) /\ pc'[p] = "shm_map" /\ shm'[p] = shm_next_id
  BY DEF Frame
<1>3. ClientTypes'
  BY DEF ClientTypes
<1>4. Counts'
  BY <1>2 DEF DesktopInv, Counts
<1>5. Requests' /\ Closing'
  <2>1. \A m \in Message : m.src = p => /\ Asked(m) => Asked(m)'
                                        /\ Leaving(m) => Leaving(m)'
    BY <1>1, <1>2 DEF Asked, Leaving
  <2> QED BY <1>1, <1>2, <2>1, SameInbox DEF DesktopInv
<1>6. Alone'
  <2> SUFFICES ASSUME pc'[Bg] # "up" PROVE Alone'
    BY DEF Alone
  <2>1. p = Bg /\ pc[Bg] = "shm_create"
    BY <1>2 DEF Started
  <2> QED BY <1>1, <1>2, <2>1 DEF DesktopInv, Alone
<1>8. ShmTypes' /\ shm_next_id' = shm_next_id + 1 /\ mapped' = mapped
  BY ShmCreate DEF DesktopInv
<1>9. Mapped' = Mapped
  BY <1>8 DEF Mapped
<1>10. HeldBy(p)' = HeldBy(p) \cup {shm_next_id}
  BY <1>2 DEF HeldBy
<1>11. Kept' /\ Answers' /\ Own'
  <2>1. KeptBy(p) /\ AnswerTo(p) /\ OwnBy(p)
    BY DEF DesktopInv, Kept, Answers, Own
  <2>2. KeptBy(p)'
    BY <1>1, <2>1 DEF KeptBy, Has
  <2>3. AnswerTo(p)'
    BY <2>1 DEF AnswerTo
  <2>4. \A k \in DOMAIN windows[p] : windows[p][k].shm \in HeldBy(p)
    BY DEF HeldBy
  <2>5. OwnBy(p)'
    BY <1>2, <1>8, <1>9, <1>10, <2>1, <2>4 DEF OwnBy
  <2> QED BY <1>2, <1>8, <1>9, <1>10, <2>2, <2>3, <2>5, OneClient DEF DesktopInv
<1>12. Buffers'
  BY <1>1, <1>8, <1>9 DEF DesktopInv, Buffers
<1>13. RefsExact' /\ MappedLive'
  <2>1. Held' = Held \cup {shm_next_id}
    BY <1>2, <1>10, HeldSplit
  <2> QED BY <1>1, <1>9, <2>1, RefsCreate DEF DesktopInv
<1> QED BY <1>1, <1>3, <1>4, <1>5, <1>6, <1>8, <1>11, <1>12, <1>13 DEF DesktopInv

\* The other programs run only once the background program is up.
LEMMA AppsLater ==
    ASSUME DesktopInv, NEW p \in App, pc[p] # "shm_create"
    PROVE  pc[Bg] = "up"
  BY DEF DesktopInv, Alone

\* Once it is up nothing is asked of that phase any more.
LEMMA AloneLater ==
    ASSUME NEW p \in App, Frame(p), pc[Bg] = "up"
    PROVE  Alone'
  BY DesktopAssumption DEF Alone, Frame, Client

\* open_window gets no buffer: the program closes what it has, and ends.
LEMMA NoBufferStep ==
    ASSUME DesktopInv, NEW p \in Client, pc[p] = "shm_create", Started(p),
           pc' = [pc EXCEPT ![p] = Done(p)],
           UNCHANGED <<win_vars, shm_vars, shm, windows, inbox, reply>>
    PROVE  DesktopInv'
<1> USE Facts
<1>1. WinInv' /\ Shown' = Shown /\ g_wins' = g_wins /\ g_next_win_id' = g_next_win_id
  BY WinSame DEF DesktopInv, win_vars
<1>2. /\ Frame(p) /\ pc'[p] = Done(p)
      /\ shm_objs' = shm_objs /\ shm_next_id' = shm_next_id /\ mapped' = mapped
  BY DEF Frame, shm_vars
<1>3. ClientTypes'
  BY DEF ClientTypes, Done
<1>4. Counts'
  <2>1. windows[p] = << >> <=> Len(windows[p]) = 0
    OBVIOUS
  <2> QED BY <1>2, <2>1 DEF DesktopInv, Counts, Done
<1>5. Requests' /\ Closing'
  <2>1. \A m \in Message : m.src = p => /\ Asked(m) => Asked(m)'
                                        /\ Leaving(m) => Leaving(m)'
    BY <1>1, <1>2 DEF Asked, Leaving
  <2> QED BY <1>1, <1>2, <2>1, SameInbox DEF DesktopInv
<1>6. Alone'
  <2>1. CASE p \in App
    BY <1>2, <2>1, AloneLater DEF Started
  <2>2. CASE p = Bg
    BY <1>1, <1>2, <2>2 DEF DesktopInv, Alone, Done
  <2> QED BY <2>1, <2>2 DEF Client
<1>7. ShmTypes' /\ Mapped' = Mapped
  BY <1>2 DEF DesktopInv, ShmTypes, Mapped
<1>8. HeldBy(p)' = HeldBy(p)
  BY <1>2 DEF HeldBy, Done
<1>9. Kept' /\ Answers' /\ Own'
  <2>1. KeptBy(p) /\ AnswerTo(p) /\ OwnBy(p)
    BY DEF DesktopInv, Kept, Answers, Own
  <2>2. KeptBy(p)'
    BY <1>1, <2>1 DEF KeptBy, Has
  <2>3. AnswerTo(p)'
    BY <2>1 DEF AnswerTo
  <2>4. OwnBy(p)'
    BY <1>2, <1>8, <2>1 DEF OwnBy, Done
  <2> QED BY <1>2, <1>7, <1>8, <2>2, <2>3, <2>4, OneClient DEF DesktopInv
<1>10. Buffers'
  BY <1>1, <1>2, <1>7 DEF DesktopInv, Buffers
<1>11. RefsExact' /\ MappedLive'
  <2>1. Held' = Held
    BY <1>2, <1>8, HeldSplit
  <2> QED BY <1>1, <1>2, <1>7, <2>1, RefsSame DEF DesktopInv
<1> QED BY <1>1, <1>3, <1>4, <1>5, <1>6, <1>7, <1>9, <1>10, <1>11 DEF DesktopInv

\* open_window gives up: no answer in time, or the answer 0.
LEMMA GiveUpStep ==
    ASSUME DesktopInv, NEW p \in Client, pc[p] = "wait",
           pc' = [pc EXCEPT ![p] = "unref"], reply' = [reply EXCEPT ![p] = -1],
           UNCHANGED <<win_vars, shm_vars, shm, windows, inbox>>
    PROVE  DesktopInv'
<1> USE Facts
<1>1. WinInv' /\ Shown' = Shown /\ g_wins' = g_wins /\ g_next_win_id' = g_next_win_id
  BY WinSame DEF DesktopInv, win_vars
<1>2. /\ Frame(p) /\ pc'[p] = "unref" /\ reply'[p] = -1
      /\ shm_objs' = shm_objs /\ shm_next_id' = shm_next_id /\ mapped' = mapped
  BY DEF Frame, shm_vars
<1>3. ClientTypes'
  <2>1. reply' \in [Client -> Nat \cup {-1}]
    OBVIOUS
  <2> QED BY <2>1 DEF ClientTypes
<1>4. Counts'
  BY <1>2 DEF DesktopInv, Counts
<1>5. Requests' /\ Closing'
  <2>1. \A m \in Message : m.src = p => (Asked(m) => Asked(m)')
    BY <1>2 DEF Asked
  <2>2. \A m \in Message : m.src = p => (Leaving(m) => Leaving(m)')
    BY <1>1, <1>2 DEF Leaving
  <2> QED BY <1>1, <1>2, <2>1, <2>2, SameInbox DEF DesktopInv
<1>6. Alone'
  <2>1. CASE p \in App
    BY <1>2, <2>1, AloneLater, AppsLater
  <2>2. CASE p = Bg
    BY <1>1, <1>2, <2>2 DEF DesktopInv, Alone
  <2> QED BY <2>1, <2>2 DEF Client
<1>7. ShmTypes' /\ Mapped' = Mapped
  BY <1>2 DEF DesktopInv, ShmTypes, Mapped
<1>8. HeldBy(p)' = HeldBy(p)
  BY <1>2 DEF HeldBy
<1>9. Kept' /\ Answers' /\ Own'
  <2>1. KeptBy(p) /\ AnswerTo(p) /\ OwnBy(p)
    BY DEF DesktopInv, Kept, Answers, Own
  <2>2. KeptBy(p)'
    BY <1>1, <2>1 DEF KeptBy, Has
  <2>3. AnswerTo(p)'
    BY <1>2 DEF AnswerTo
  <2>4. OwnBy(p)'
    BY <1>2, <1>8, <2>1 DEF OwnBy
  <2> QED BY <1>2, <1>7, <1>8, <2>2, <2>3, <2>4, OneClient DEF DesktopInv
<1>10. Buffers'
  BY <1>1, <1>2, <1>7 DEF DesktopInv, Buffers
<1>11. RefsExact' /\ MappedLive'
  <2>1. Held' = Held
    BY <1>2, <1>8, HeldSplit
  <2> QED BY <1>1, <1>2, <1>7, <2>1, RefsSame DEF DesktopInv
<1> QED BY <1>1, <1>3, <1>4, <1>5, <1>6, <1>7, <1>9, <1>10, <1>11 DEF DesktopInv

\* open_window returns a window.
LEMMA OpenedStep ==
    ASSUME DesktopInv, NEW p \in Client, pc[p] = "wait", reply[p] # -1, reply[p] # 0,
           open_reply(p)
    PROVE  DesktopInv'
<1> USE Facts
<1> DEFINE w == [id |-> reply[p], shm |-> shm[p]]
           n == Len(windows[p])
           lab == IF n + 1 = Wants(p) THEN "up" ELSE "shm_create"
<1>1. WinInv' /\ Shown' = Shown /\ g_wins' = g_wins /\ g_next_win_id' = g_next_win_id /\ UNCHANGED win_vars
  BY WinSame DEF DesktopInv, win_vars, open_reply
<1>2. /\ windows' = [windows EXCEPT ![p] = Append(windows[p], w)]
      /\ reply' = [reply EXCEPT ![p] = -1] /\ shm' = shm /\ inbox' = inbox
      /\ shm_objs' = shm_objs /\ shm_next_id' = shm_next_id /\ mapped' = mapped
  BY DEF open_reply, shm_vars
<1>3. w \in Opened
  BY DEF Opened
<1>4. /\ n \in Nat /\ windows'[p] \in Seq(Opened) /\ Len(windows'[p]) = n + 1
      /\ windows'[p][n + 1] = w /\ \A k \in 1..n : windows'[p][k] = windows[p][k]
      /\ DOMAIN windows'[p] = 1..(n + 1) /\ DOMAIN windows[p] = 1..n
  <2>1. windows[p] \in Seq(Opened) /\ windows'[p] = Append(windows[p], w)
    BY <1>2
  <2> HIDE DEF w
  <2> QED BY <1>3, <2>1
<1>0. \A k \in DOMAIN windows'[p] : \/ k \in DOMAIN windows[p] /\ windows'[p][k] = windows[p][k]
                                    \/ k = n + 1 /\ windows'[p][k] = w
  <2> HIDE DEF n, w
  <2> QED BY ONLY <1>4
<1>5. pc' = [pc EXCEPT ![p] = lab]
  BY <1>4 DEF open_reply, Goto
<1>6. /\ Frame(p) /\ pc'[p] = lab /\ reply'[p] = -1
  BY <1>2, <1>5 DEF Frame
<1>7. n = (IF p \in App THEN 0 ELSE n) /\ n <= 1 /\ (n = 0 <=> windows[p] = << >>)
  <2>1. n = 0 <=> windows[p] = << >>
    OBVIOUS
  <2> QED BY <1>4, <2>1 DEF DesktopInv, Counts, Client
<1> HIDE DEF w, n
<1>8. ClientTypes'
  <2>1. reply' \in [Client -> Nat \cup {-1}]
    BY <1>2
  <2>2. windows' \in [Client -> Seq(Opened)]
    BY <1>2, <1>4
  <2> QED BY <1>2, <1>5, <2>1, <2>2 DEF ClientTypes
<1>9. Counts'
  <2>1. CASE p \in App
    <3>1. pc'[p] = "up" /\ Len(windows'[p]) = 1
      BY <1>4, <1>6, <1>7, <2>1 DEF Wants
    <3> QED BY <1>6, <2>1, <3>1 DEF DesktopInv, Counts, Frame
  <2>2. CASE p = Bg
    <3>1. pc'[p] \in {"up", "shm_create"} /\ (pc'[p] = "shm_create" => Len(windows'[p]) <= 1)
      BY <1>4, <1>6, <1>7, <2>2 DEF Wants
    <3>2. \A a \in App : a # p /\ pc'[a] = pc[a] /\ windows'[a] = windows[a]
      BY <1>6, <2>2 DEF Frame, Client
    <3>3. \A a \in App : Len(windows'[a]) = (IF pc'[a] = "up" THEN 1 ELSE 0) /\ pc'[a] # "close"
      BY <3>2 DEF DesktopInv, Counts
    <3> HIDE DEF lab
    <3> QED BY ONLY <2>2, <3>1, <3>3 DEF Counts
  <2> QED BY <2>1, <2>2 DEF Client
<1>10. Requests' /\ Closing'
  <2>1. \A m \in Message : m.src = p => ~Asked(m)
    BY DEF Asked
  <2>2. \A m \in Message : m.src = p => (Leaving(m) => Leaving(m)')
    <3> SUFFICES ASSUME NEW m \in Message, m.src = p, Leaving(m) PROVE Leaving(m)'
      OBVIOUS
    <3>1. m.arg # -1
      BY DEF Leaving
    <3>2. w.id # m.arg /\ \A k \in DOMAIN windows[p] : windows[p][k].id # m.arg
      BY DEF Leaving, w
    <3>3. \A k \in DOMAIN windows'[p] : windows'[p][k].id # m.arg
      BY ONLY <1>0, <3>2
    <3> QED BY <1>1, <1>6, <3>1, <3>3 DEF Leaving
  <2> QED BY <1>1, <1>2, <1>6, <2>1, <2>2, SameInbox DEF DesktopInv
<1>11. Alone'
  <2>1. CASE p \in App
    BY <1>6, <2>1, AloneLater, AppsLater
  <2>2. CASE p = Bg
    <3> SUFFICES ASSUME pc'[Bg] # "up" PROVE Alone'
      BY DEF Alone
    <3>1. pc[Bg] = "wait" /\ pc'[Bg] = "shm_create" /\ n = 0 /\ windows[Bg] = << >>
      BY <1>4, <1>6, <1>7, <2>2 DEF Wants
    <3>2. windows'[Bg] # << >>
      BY <1>4, <2>2
    <3>3. inbox' = << >> /\ Used(g_wins') \subseteq {1} /\ \A r \in Content(g_wins') : r.kind # "normal"
      BY <1>1, <1>2, <2>2, <3>1 DEF DesktopInv, Alone
    <3>4. \A q \in App : pc'[q] = "shm_create"
      BY <1>6, <2>2, <3>1 DEF DesktopInv, Alone, Frame
    <3> QED BY <3>1, <3>2, <3>3, <3>4 DEF Alone
  <2> QED BY <2>1, <2>2 DEF Client
<1>12. ShmTypes' /\ Mapped' = Mapped
  BY <1>2 DEF DesktopInv, ShmTypes, Mapped
<1>13. HeldBy(p)' = HeldBy(p)
  <2>1. HeldBy(p)' = {windows'[p][k].shm : k \in DOMAIN windows'[p]}
    BY <1>6 DEF HeldBy
  <2>2. HeldBy(p) = {windows[p][k].shm : k \in DOMAIN windows[p]} \cup {shm[p]}
    BY DEF HeldBy
  <2>3. /\ w.shm = shm[p] /\ n + 1 \in DOMAIN windows'[p] /\ windows'[p][n + 1] = w
        /\ \A k \in DOMAIN windows[p] : k \in DOMAIN windows'[p] /\ windows'[p][k] = windows[p][k]
    BY <1>4 DEF w
  <2>4. ASSUME NEW x \in HeldBy(p)' PROVE x \in HeldBy(p)
    BY ONLY <1>0, <2>1, <2>2, <2>3, <2>4
  <2>5. ASSUME NEW x \in HeldBy(p) PROVE x \in HeldBy(p)'
    BY ONLY <2>1, <2>2, <2>3, <2>5
  <2> QED BY <2>4, <2>5
<1>14. Kept' /\ Answers' /\ Own'
  <2>1. KeptBy(p) /\ AnswerTo(p) /\ OwnBy(p)
    BY DEF DesktopInv, Kept, Answers, Own
  <2>2. /\ \E r \in Content(g_wins) : r.id = w.id /\ r.owner = p /\ r.shm = w.shm
        /\ \A k \in DOMAIN windows[p] : windows[p][k].id # w.id /\ windows[p][k].shm # w.shm
    BY <2>1 DEF AnswerTo, Has, OwnBy, w
  <2>3. KeptBy(p)'
    <3>1. \A k \in DOMAIN windows'[p] : \E r \in Content(g_wins') :
            r.id = windows'[p][k].id /\ r.owner = p /\ r.shm = windows'[p][k].shm
      BY ONLY <1>0, <1>1, <2>1, <2>2 DEF KeptBy, Has
    <3>2. \A k, l \in DOMAIN windows'[p] : windows'[p][k].id = windows'[p][l].id => k = l
      BY ONLY <1>0, <2>1, <2>2 DEF KeptBy
    <3> QED BY <3>1, <3>2 DEF KeptBy, Has
  <2>4. AnswerTo(p)'
    BY <1>6 DEF AnswerTo
  <2>5. OwnBy(p)'
    <3>1. \A k, l \in DOMAIN windows'[p] : windows'[p][k].shm = windows'[p][l].shm => k = l
      BY ONLY <1>0, <2>1, <2>2 DEF OwnBy
    <3> QED BY <1>2, <1>6, <1>13, <2>1, <3>1 DEF OwnBy
  <2> QED BY <1>1, <1>2, <1>6, <1>12, <1>13, <2>3, <2>4, <2>5, OneClient DEF DesktopInv
<1>15. Buffers'
  BY <1>1, <1>2, <1>12 DEF DesktopInv, Buffers
<1>16. RefsExact' /\ MappedLive'
  <2>1. Held' = Held
    BY <1>6, <1>13, HeldSplit
  <2> QED BY <1>1, <1>2, <1>12, <2>1, RefsSame DEF DesktopInv
<1> QED BY <1>1, <1>8, <1>9, <1>10, <1>11, <1>12, <1>14, <1>15, <1>16 DEF DesktopInv

\* Buffers of requests stay distinct when m is sent.
LEMMA BuffersSent ==
    ASSUME Buffers, inbox \in Seq(Message), NEW m \in Message, wm_send(m),
           Mapped \subseteq Mapped', g_wins' = g_wins, mapped'[Wm] \subseteq Mapped',
           m.type = "create" => m.arg \in Mapped' \ Mapped
    PROVE  Buffers'
<1>1. inbox' \in Seq(Message) /\ \E d \in {0, 1} : ShiftedBut(d, m)
  BY Send
<1>2. PICK d \in {0, 1} : ShiftedBut(d, m)
  BY <1>1
<1>3. d \in Nat /\ \A k \in DOMAIN inbox' : k \in Nat
  BY <1>1
<1>4. Shown' = Shown /\ Shown \subseteq Mapped
  BY DEF Shown, Buffers
<1>5. \A k \in DOMAIN inbox' : \/ k + d \in DOMAIN inbox /\ inbox'[k] = inbox[k + d]
                               \/ k = Len(inbox') /\ inbox'[k] = m
  BY <1>2 DEF ShiftedBut
<1>6. /\ \A k \in DOMAIN inbox : inbox[k].type = "create" => inbox[k].arg \in Mapped \ Shown
      /\ \A j, k \in DOMAIN inbox : inbox[j].type = "create" /\ inbox[k].type = "create"
                                      /\ inbox[j].arg = inbox[k].arg => j = k
  BY DEF Buffers
<1>7. \A k \in DOMAIN inbox' : inbox'[k].type = "create" => inbox'[k].arg \in Mapped' \ Shown'
  BY <1>4, <1>5, <1>6
<1>8. ASSUME NEW j \in DOMAIN inbox', NEW k \in DOMAIN inbox', inbox'[j].type = "create",
             inbox'[k].type = "create", inbox'[j].arg = inbox'[k].arg
      PROVE  j = k
  <2>1. CASE inbox'[j] = m \/ inbox'[k] = m
    BY <1>5, <1>6, <1>8, <2>1
  <2>2. CASE inbox'[j] # m /\ inbox'[k] # m
    <3>1. j + d = k + d
      BY <1>5, <1>6, <1>8, <2>2
    <3> QED BY <1>3, <3>1
  <2> QED BY <2>1, <2>2
<1>9. \A r, s \in Content(g_wins') : r.shm = s.shm => r = s
  BY DEF Buffers
<1> QED BY <1>4, <1>7, <1>8, <1>9 DEF Buffers

\* open_window maps its buffer and asks for the window.
LEMMA RequestStep ==
    ASSUME DesktopInv, NEW p \in Client, open_request(p)
    PROVE  DesktopInv'
<1> USE Facts
<1>0. [type |-> "create", src |-> p, kind |-> Kind(p), arg |-> shm[p]] \in Message
  BY DEF Message, Kind
<1>2. PICK m \in Message : m = [type |-> "create", src |-> p, kind |-> Kind(p), arg |-> shm[p]]
  BY <1>0
<1>20. m.src = p /\ m.type = "create" /\ m.arg = shm[p] /\ m.kind = Kind(p)
  BY <1>2
<1>1. /\ pc[p] = "shm_map" /\ shm_map(p, shm[p]) /\ wm_send(m) /\ pc' = [pc EXCEPT ![p] = "wait"]
      /\ shm' = shm /\ windows' = windows /\ reply' = reply /\ UNCHANGED win_vars
  BY <1>2 DEF open_request, Goto
<1>3. WinInv' /\ Shown' = Shown /\ g_wins' = g_wins /\ g_next_win_id' = g_next_win_id
  BY <1>1, WinSame DEF DesktopInv, win_vars
<1>4. /\ Frame(p) /\ pc'[p] = "wait" /\ p \in Process
  BY <1>1 DEF Frame
<1>5. /\ ShmTypes' /\ shm_next_id' = shm_next_id
      /\ mapped' = [mapped EXCEPT ![p] = @ \cup {shm[p]}]
  BY <1>1, <1>4, ShmMap DEF DesktopInv
<1>6. Mapped' = Mapped \cup {shm[p]} /\ mapped'[Wm] = mapped[Wm]
  <2>1. mapped'[p] = mapped[p] \cup {shm[p]} /\ \A q \in Process \ {p} : mapped'[q] = mapped[q]
    BY <1>4, <1>5
  <2>2. ASSUME NEW x \in Mapped' PROVE x \in Mapped \cup {shm[p]}
    BY <2>1 DEF Mapped
  <2>3. ASSUME NEW x \in Mapped PROVE x \in Mapped'
    <3>1. PICK q \in Client : x \in mapped[q]
      BY DEF Mapped
    <3>2. x \in mapped'[q]
      BY <2>1, <3>1
    <3> QED BY <3>1, <3>2 DEF Mapped
  <2>4. shm[p] \in Mapped'
    <3>1. \A q \in Client : mapped'[q] \subseteq Mapped'
      BY DEF Mapped
    <3> QED BY <2>1, <3>1
  <2> QED BY <2>1, <2>2, <2>3, <2>4
<1>7. reply[p] = -1 /\ shm[p] \notin Mapped /\ OwnBy(p) /\ KeptBy(p)
  BY <1>1 DEF DesktopInv, Answers, AnswerTo, Own, OwnBy, Kept
<1>8. Requests' /\ Closing' /\ inbox' \in Seq(Message)
  <2>1. \A n \in Message : n.src = p => ~Asked(n)
    BY <1>1 DEF Asked
  <2>2. \A n \in Message : n.src = p => (Leaving(n) => Leaving(n)')
    BY <1>1, <1>3 DEF Leaving
  <2>3. Asked(m)'
    BY <1>1, <1>20, <1>4, <1>7 DEF Asked, Kind, Client
  <2> QED BY <1>1, <1>20, <1>3, <1>4, <2>1, <2>2, <2>3, SentInbox DEF DesktopInv
<1>9. ClientTypes'
  BY <1>1, <1>8 DEF ClientTypes
<1>10. Counts'
  BY <1>1, <1>4 DEF DesktopInv, Counts, Frame
<1>11. Alone'
  <2>1. CASE p \in App
    BY <1>1, <1>4, <2>1, AloneLater, AppsLater
  <2>2. CASE p = Bg
    <3>1. /\ inbox = << >> /\ Used(g_wins) \subseteq IF windows[Bg] = << >> THEN {} ELSE {1}
          /\ \A q \in App : pc[q] = "shm_create"
          /\ \A r \in Content(g_wins) : r.kind # "normal"
      BY <1>1, <2>2 DEF DesktopInv, Alone
    <3>2. \A k \in DOMAIN inbox' : k = 1 /\ inbox'[k] = m
      BY <1>1, <1>20, <3>1, Send
    <3>3. m.kind = IF windows[Bg] = << >> THEN "background" ELSE "bar"
      BY <1>20, <2>2 DEF Kind
    <3>4. \A q \in App : pc'[q] = "shm_create"
      BY <1>4, <2>2, <3>1 DEF Frame
    <3>5. \A k \in DOMAIN inbox' : inbox'[k].src = Bg /\ inbox'[k].type = "create" /\ k = 1
            /\ Used(g_wins') \subseteq IF inbox'[k].kind = "background" THEN {} ELSE {1}
      BY <1>20, <1>3, <2>2, <3>1, <3>2, <3>3
    <3>6. pc'[Bg] = "wait" /\ reply'[Bg] = -1
      BY <1>1, <1>4, <1>7, <2>2
    <3>7. \A r \in Content(g_wins') : r.kind # "normal"
      BY <1>3, <3>1
    <3> QED BY <3>4, <3>5, <3>6, <3>7 DEF Alone
  <2> QED BY <2>1, <2>2 DEF Client
<1>12. HeldBy(p)' = HeldBy(p) /\ shm[p] \in HeldBy(p)
  BY <1>1, <1>4 DEF HeldBy
<1>13. Kept' /\ Answers' /\ Own'
  <2>1. KeptBy(p)'
    BY <1>1, <1>3, <1>7 DEF KeptBy, Has
  <2>2. AnswerTo(p)'
    BY <1>1, <1>7 DEF AnswerTo
  <2>3. OwnBy(p)'
    BY <1>1, <1>4, <1>5, <1>7, <1>12 DEF OwnBy
  <2> QED BY <1>1, <1>4, <1>5, <1>6, <1>12, <2>1, <2>2, <2>3, OneClient DEF DesktopInv
<1>14. Buffers'
  <2>1. mapped[Wm] \subseteq Mapped
    BY DEF DesktopInv, Buffers
  <2> QED BY <1>1, <1>20, <1>3, <1>6, <1>7, <2>1, BuffersSent DEF DesktopInv
<1>15. RefsExact' /\ MappedLive'
  <2>1. Held' = Held
    BY <1>4, <1>12, HeldSplit
  <2> QED BY <1>1, <1>3, <1>4, <1>6, <1>7, <2>1, RefsMap DEF DesktopInv
<1> QED BY <1>3, <1>5, <1>8, <1>9, <1>10, <1>11, <1>13, <1>14, <1>15 DEF DesktopInv

\* What is left of a client's windows without the first.
LEMMA TailFacts ==
    ASSUME NEW s \in Seq(Opened), Len(s) >= 1
    PROVE  /\ 1 \in DOMAIN s /\ s[1] \in Opened /\ Tail(s) \in Seq(Opened)
           /\ Len(Tail(s)) = Len(s) - 1
           /\ \A k \in DOMAIN Tail(s) : /\ k + 1 \in DOMAIN s /\ k + 1 # 1 /\ k \in Nat
                                        /\ Tail(s)[k] = s[k + 1]
           /\ \A k \in DOMAIN s : k # 1 => /\ k - 1 \in DOMAIN Tail(s)
                                           /\ Tail(s)[k - 1] = s[k]
<1>1. s # << >> /\ 1 \in DOMAIN s /\ s[1] \in Opened /\ Tail(s) \in Seq(Opened)
  OBVIOUS
<1>2. /\ Len(Tail(s)) = Len(s) - 1 /\ DOMAIN s = 1..Len(s) /\ DOMAIN Tail(s) = 1..(Len(s) - 1)
      /\ \A k \in 1..(Len(s) - 1) : Tail(s)[k] = s[k + 1]
  BY <1>1
<1>3. \A k \in DOMAIN Tail(s) : k + 1 \in DOMAIN s /\ k + 1 # 1 /\ k \in Nat /\ Tail(s)[k] = s[k + 1]
  BY <1>2
<1>4. ASSUME NEW k \in DOMAIN s, k # 1 PROVE k - 1 \in DOMAIN Tail(s) /\ Tail(s)[k - 1] = s[k]
  <2>1. k \in Int /\ k - 1 \in 1..(Len(s) - 1) /\ (k - 1) + 1 = k
    BY <1>2, <1>4
  <2> QED BY <1>2, <2>1
<1> QED BY <1>1, <1>2, <1>3, <1>4

\* close_window tells the window manager.
LEMMA CloseSendStep ==
    ASSUME DesktopInv, NEW p \in Client, close_send(p)
    PROVE  DesktopInv'
<1> USE Facts
<1> DEFINE w == windows[p][1]
<1>0. pc[p] = "close" \/ (p \in App /\ pc[p] = "up")
  BY DEF close_send
<1>2. Len(windows[p]) >= 1 /\ (p \in App => Len(windows[p]) = 1) /\ windows[p] \in Seq(Opened)
  <2>1. p \in App \/ p = Bg
    BY DEF Client
  <2>2. CASE p \in App
    <3>1. pc[p] = "up"
      BY <1>0, <2>2 DEF DesktopInv, Counts
    <3>2. Len(windows[p]) = 1
      BY <2>2, <3>1 DEF DesktopInv, Counts
    <3> QED BY <3>2
  <2>3. CASE p = Bg
    BY <1>0, <2>3 DEF DesktopInv, Counts
  <2> QED BY <2>1, <2>2, <2>3
<1>3. /\ 1 \in DOMAIN windows[p] /\ w \in Opened /\ Tail(windows[p]) \in Seq(Opened)
      /\ Len(Tail(windows[p])) = Len(windows[p]) - 1
      /\ \A k \in DOMAIN Tail(windows[p]) : /\ k + 1 \in DOMAIN windows[p] /\ k + 1 # 1 /\ k \in Nat
                                            /\ Tail(windows[p])[k] = windows[p][k + 1]
      /\ \A k \in DOMAIN windows[p] : k # 1 => /\ k - 1 \in DOMAIN Tail(windows[p])
                                               /\ Tail(windows[p])[k - 1] = windows[p][k]
  BY <1>2, TailFacts
<1>4. w.id \in Nat \ {0} /\ w.shm \in Nat
  BY <1>3 DEF Opened
<1>20. [type |-> "close", src |-> p, kind |-> "none", arg |-> w.id] \in Message
  BY <1>4 DEF Message
<1>21. PICK m \in Message : m = [type |-> "close", src |-> p, kind |-> "none", arg |-> w.id]
  BY <1>20
<1>5. m.src = p /\ m.type = "close" /\ m.arg = w.id
  BY <1>21
<1>1. /\ pc[p] = "close" \/ (p \in App /\ pc[p] = "up")
      /\ wm_send(m) /\ pc' = [pc EXCEPT ![p] = "unref"]
      /\ shm' = [shm EXCEPT ![p] = w.shm] /\ windows' = [windows EXCEPT ![p] = Tail(windows[p])]
      /\ reply' = reply /\ UNCHANGED win_vars
      /\ shm_objs' = shm_objs /\ shm_next_id' = shm_next_id /\ mapped' = mapped
  BY <1>21 DEF close_send, Goto, shm_vars
<1>6. WinInv' /\ Shown' = Shown /\ g_wins' = g_wins /\ g_next_win_id' = g_next_win_id
  BY <1>1, WinSame DEF DesktopInv, win_vars
<1>7. /\ Frame(p) /\ pc'[p] = "unref" /\ shm'[p] = w.shm /\ windows'[p] = Tail(windows[p])
  BY <1>1 DEF Frame
<1>8. KeptBy(p) /\ OwnBy(p) /\ reply[p] = -1
  BY <1>1 DEF DesktopInv, Answers, AnswerTo, Own, Kept
<1>9. \A k \in DOMAIN Tail(windows[p]) : Tail(windows[p])[k].id # w.id /\ Tail(windows[p])[k].shm # w.shm
  BY ONLY <1>3, <1>8 DEF KeptBy, OwnBy
<1>10. w.id \in 1..(g_next_win_id - 1)
  <2>1. \E r \in Content(g_wins) : r.id = w.id
    BY <1>3, <1>8 DEF KeptBy, Has
  <2>2. g_next_win_id \in Nat /\ w.id < g_next_win_id
    BY <2>1 DEF DesktopInv, WinInv, TableInv
  <2> QED BY <1>4, <2>2
<1>11. Requests' /\ Closing' /\ inbox' \in Seq(Message)
  <2>1. \A n \in Message : n.src = p => (Asked(n) => Asked(n)')
    BY <1>1, <1>7 DEF Asked
  <2>2. ASSUME NEW n \in Message, n.src = p, Leaving(n) PROVE Leaving(n)'
    <3>1. \A k \in DOMAIN Tail(windows[p]) : Tail(windows[p])[k].id # n.arg
      BY <1>3, <2>2 DEF Leaving
    <3> QED BY <1>1, <1>6, <1>7, <2>2, <3>1 DEF Leaving
  <2>3. Leaving(m)'
    BY <1>1, <1>4, <1>5, <1>6, <1>7, <1>8, <1>9, <1>10 DEF Leaving
  <2> QED BY <1>1, <1>5, <1>6, <1>7, <2>1, <2>2, <2>3, SentInbox DEF DesktopInv
<1>12. ClientTypes'
  <2>1. windows' \in [Client -> Seq(Opened)] /\ shm' \in [Client -> Nat]
    BY <1>1, <1>3, <1>4
  <2> QED BY <1>1, <1>11, <2>1 DEF ClientTypes
<1>13. Counts'
  <2>1. p \in App => Len(windows'[p]) = 0
    BY <1>2, <1>3, <1>7
  <2> QED BY <1>7, <2>1 DEF DesktopInv, Counts, Frame
<1>14. Alone'
  <2>1. CASE p \in App
    BY <1>1, <1>7, <2>1, AloneLater, AppsLater
  <2>2. CASE p = Bg
    <3>1. /\ \A q \in App : pc[q] = "shm_create"
          /\ \A r \in Content(g_wins) : r.kind # "normal"
          /\ \A k \in DOMAIN inbox : /\ inbox[k].src = Bg
                                     /\ inbox[k].type = "create" => k = 1 /\ Used(g_wins) \subseteq IF inbox[k].kind = "background" THEN {} ELSE {1}
      BY <1>1, <2>2 DEF DesktopInv, Alone
    <3>2. PICK d \in {0, 1} : ShiftedBut(d, m)
      BY <1>1, <1>5, Send
    <3>3. DOMAIN inbox' \subseteq Nat \ {0}
      BY <1>11
    <3>4. \A k \in DOMAIN inbox' : \/ inbox'[k] = m
                                   \/ k + d \in DOMAIN inbox /\ inbox'[k] = inbox[k + d]
      BY <3>2 DEF ShiftedBut
    <3>5. \A k \in DOMAIN inbox' : /\ inbox'[k].src = Bg
                                   /\ inbox'[k].type = "create" => k = 1 /\ Used(g_wins') \subseteq IF inbox'[k].kind = "background" THEN {} ELSE {1}
      <4> SUFFICES ASSUME NEW k \in DOMAIN inbox', inbox'[k] # m
                   PROVE  /\ inbox'[k].src = Bg
                          /\ inbox'[k].type = "create" => k = 1 /\ Used(g_wins') \subseteq IF inbox'[k].kind = "background" THEN {} ELSE {1}
        BY <1>5, <2>2
      <4>1. k + d \in DOMAIN inbox /\ inbox'[k] = inbox[k + d]
        BY <3>4
      <4>2. k + d = 1 => k = 1
        BY <3>3
      <4> QED BY <1>6, <3>1, <4>1, <4>2
    <3>6. \A q \in App : pc'[q] = "shm_create"
      BY <1>7, <2>2, <3>1 DEF Frame
    <3>7. pc'[Bg] = "unref" /\ \A r \in Content(g_wins') : r.kind # "normal"
      BY <1>6, <1>7, <2>2, <3>1
    <3> QED BY <3>5, <3>6, <3>7 DEF Alone
  <2> QED BY <2>1, <2>2 DEF Client
<1>15. Mapped' = Mapped /\ ShmTypes'
  BY <1>1 DEF DesktopInv, ShmTypes, Mapped
<1>16. HeldBy(p)' = HeldBy(p)
  <2>1. HeldBy(p) = {windows[p][k].shm : k \in DOMAIN windows[p]}
    BY <1>1 DEF HeldBy
  <2>2. HeldBy(p)' = {Tail(windows[p])[k].shm : k \in DOMAIN Tail(windows[p])} \cup {w.shm}
    BY <1>7 DEF HeldBy
  <2>3. ASSUME NEW x \in HeldBy(p) PROVE x \in HeldBy(p)'
    <3>1. PICK k \in DOMAIN windows[p] : x = windows[p][k].shm
      BY <2>1
    <3> QED BY ONLY <1>3, <2>2, <3>1
  <2>4. ASSUME NEW x \in HeldBy(p)' PROVE x \in HeldBy(p)
    BY ONLY <1>3, <2>1, <2>2, <2>4
  <2> QED BY <2>3, <2>4
<1>17. Kept' /\ Answers' /\ Own'
  <2>1. KeptBy(p)'
    <3>1. \A k \in DOMAIN Tail(windows[p]) : \E r \in Content(g_wins') :
            r.id = Tail(windows[p])[k].id /\ r.owner = p /\ r.shm = Tail(windows[p])[k].shm
      BY ONLY <1>3, <1>6, <1>8 DEF KeptBy, Has
    <3>2. \A k, l \in DOMAIN Tail(windows[p]) : Tail(windows[p])[k].id = Tail(windows[p])[l].id => k = l
      <4> SUFFICES ASSUME NEW k \in DOMAIN Tail(windows[p]), NEW l \in DOMAIN Tail(windows[p]),
                          Tail(windows[p])[k].id = Tail(windows[p])[l].id
                   PROVE  k = l
        OBVIOUS
      <4>1. k + 1 = l + 1
        BY <1>3, <1>8 DEF KeptBy
      <4> QED BY <1>3, <4>1
    <3> QED BY <1>7, <3>1, <3>2 DEF KeptBy, Has
  <2>2. AnswerTo(p)'
    BY <1>1, <1>8 DEF AnswerTo
  <2>3. OwnBy(p)'
    <3>1. \A k, l \in DOMAIN Tail(windows[p]) : Tail(windows[p])[k].shm = Tail(windows[p])[l].shm => k = l
      <4> SUFFICES ASSUME NEW k \in DOMAIN Tail(windows[p]), NEW l \in DOMAIN Tail(windows[p]),
                          Tail(windows[p])[k].shm = Tail(windows[p])[l].shm
                   PROVE  k = l
        OBVIOUS
      <4>1. k + 1 = l + 1
        BY <1>3, <1>8 DEF OwnBy
      <4> QED BY <1>3, <4>1
    <3> QED BY <1>1, <1>7, <1>8, <1>9, <1>16, <3>1 DEF OwnBy
  <2> QED BY <1>1, <1>7, <1>15, <1>16, <2>1, <2>2, <2>3, OneClient DEF DesktopInv
<1>18. Buffers'
  <2>1. mapped'[Wm] \subseteq Mapped'
    BY <1>1, <1>15 DEF DesktopInv, Buffers
  <2> QED BY <1>1, <1>5, <1>6, <1>15, <2>1, BuffersSent DEF DesktopInv
<1>19. RefsExact' /\ MappedLive'
  <2>1. Held' = Held
    BY <1>7, <1>16, HeldSplit
  <2> QED BY <1>1, <1>6, <1>15, <2>1, RefsSame DEF DesktopInv
<1> QED BY <1>6, <1>11, <1>12, <1>13, <1>14, <1>15, <1>17, <1>18, <1>19 DEF DesktopInv

\* close_window, or an open_window that failed, drops the buffer.
LEMMA UnrefStep ==
    ASSUME DesktopInv, NEW p \in Client, close_unref(p)
    PROVE  DesktopInv'
<1> USE Facts
<1>1. /\ pc[p] = "unref" /\ shm_close(shm[p]) /\ shm' = [shm EXCEPT ![p] = 0]
      /\ pc' = [pc EXCEPT ![p] = Done(p)] /\ windows' = windows /\ inbox' = inbox /\ reply' = reply
      /\ UNCHANGED win_vars
  BY DEF close_unref, Goto
<1>2. WinInv' /\ Shown' = Shown /\ g_wins' = g_wins /\ g_next_win_id' = g_next_win_id
  BY <1>1, WinSame DEF DesktopInv, win_vars
<1>3. Frame(p) /\ pc'[p] = Done(p) /\ Done(p) \in {"gone", "close"} /\ shm_next_id' = shm_next_id /\ mapped' = mapped
  BY <1>1 DEF Frame, Done, shm_close
<1>4. ClientTypes'
  BY <1>1 DEF ClientTypes, Done
<1>5. Counts'
  <2>1. windows[p] = << >> <=> Len(windows[p]) = 0
    OBVIOUS
  <2> QED BY <1>1, <1>3, <2>1 DEF DesktopInv, Counts, Done
<1>6. KeptBy(p) /\ AnswerTo(p) /\ OwnBy(p) /\ reply[p] = -1
  BY <1>1 DEF DesktopInv, Kept, Answers, AnswerTo, Own
<1>7. Requests' /\ Closing'
  <2>1. \A m \in Message : m.src = p => /\ Asked(m) => Asked(m)'
                                        /\ Leaving(m) => Leaving(m)'
    BY <1>1, <1>2, <1>3 DEF Asked, Leaving
  <2> QED BY <1>1, <1>2, <1>3, <2>1, SameInbox DEF DesktopInv
<1>8. Alone'
  <2>1. CASE p \in App
    BY <1>1, <1>3, <2>1, AloneLater, AppsLater
  <2>2. CASE p = Bg
    BY <1>1, <1>2, <1>3, <2>2 DEF DesktopInv, Alone
  <2> QED BY <2>1, <2>2 DEF Client
<1>9. Mapped' = Mapped
  BY <1>3 DEF Mapped
<1>10. HeldBy(p)' = HeldBy(p) \ {shm[p]} /\ shm[p] \in HeldBy(p)
  <2>1. HeldBy(p) = {windows[p][k].shm : k \in DOMAIN windows[p]} \cup {shm[p]}
    BY <1>1 DEF HeldBy
  <2>2. HeldBy(p)' = {windows[p][k].shm : k \in DOMAIN windows[p]}
    BY <1>1, <1>3 DEF HeldBy
  <2>3. \A k \in DOMAIN windows[p] : windows[p][k].shm # shm[p]
    BY <1>1, <1>6 DEF OwnBy
  <2> QED BY <2>1, <2>2, <2>3
<1>11. Kept' /\ Answers' /\ Own'
  <2>1. KeptBy(p)'
    BY <1>1, <1>2, <1>6 DEF KeptBy, Has
  <2>2. AnswerTo(p)'
    BY <1>1, <1>6 DEF AnswerTo
  <2>3. OwnBy(p)'
    BY <1>1, <1>3, <1>6, <1>10 DEF OwnBy
  <2> QED BY <1>1, <1>3, <1>6, <1>9, <1>10, <2>1, <2>2, <2>3, OneClient DEF DesktopInv
<1>12. Buffers'
  BY <1>1, <1>2, <1>3, <1>9 DEF DesktopInv, Buffers
<1>13. RefsExact' /\ MappedLive' /\ ShmTypes'
  <2>1. shm[p] \in Nat \ {0}
    BY <1>6, <1>10 DEF OwnBy
  <2>2. shm[p] \notin Others(p)
    BY <1>10 DEF DesktopInv, Own, Others
  <2>3. Held' = Held \ {shm[p]} /\ shm[p] \in Held
    BY <1>3, <1>10, <2>2, HeldSplit
  <2> QED BY <1>1, <1>2, <1>9, <2>1, <2>3, RefsClose DEF DesktopInv
<1> QED BY <1>2, <1>4, <1>5, <1>7, <1>8, <1>11, <1>12, <1>13 DEF DesktopInv

-----------------------------------------------------------------------------
(* The steps of the window manager                                         *)

\* What the clients hold and have is theirs also after a step of the window
\* manager that maps nothing new.
LEMMA OwnSame ==
    ASSUME Own, UNCHANGED <<pc, shm, windows, shm_next_id>>, Mapped' = Mapped
    PROVE  Own' /\ Held' = Held
<1>1. \A p \in Client : HeldBy(p)' = HeldBy(p)
  BY DEF HeldBy
<1>2. Held' = Held
  BY <1>1 DEF Held
<1>3. \A p \in Client : OwnBy(p)'
  BY <1>1 DEF Own, OwnBy
<1>4. \A p, q \in Client : p # q => HeldBy(p)' \cap HeldBy(q)' = {}
  BY <1>1 DEF Own
<1> QED BY <1>2, <1>3, <1>4 DEF Own

\* The window manager reads a message: the others stay what they were.
LEMMA Received ==
    ASSUME Requests, Closing, inbox \in Seq(Message), inbox # << >>, inbox' = Tail(inbox),
           \A n \in Message : \A k \in DOMAIN inbox : n = inbox[k] /\ k # 1 =>
             /\ n.type = "create" /\ Asked(n) => Asked(n)'
             /\ n.type = "close" /\ Leaving(n) => Leaving(n)'
    PROVE  /\ Requests' /\ Closing' /\ inbox' \in Seq(Message)
           /\ \A k \in DOMAIN inbox' : k + 1 \in DOMAIN inbox /\ k + 1 # 1 /\ k \in Nat /\ inbox'[k] = inbox[k + 1]
<1>1. /\ inbox' \in Seq(Message)
      /\ \A k \in DOMAIN inbox' : k + 1 \in DOMAIN inbox /\ inbox'[k] = inbox[k + 1]
  BY Receive DEF Shifted
<1>2. \A k \in DOMAIN inbox' : k + 1 # 1 /\ k \in Nat /\ inbox'[k] \in Message
  BY <1>1
<1>3. ASSUME NEW n \in Message, NEW k \in DOMAIN inbox', n = inbox'[k]
      PROVE  (n.type = "create" => Asked(n)') /\ (n.type = "close" => Leaving(n)')
  <2>1. k + 1 \in DOMAIN inbox /\ n = inbox[k + 1] /\ k + 1 # 1
    BY <1>1, <1>2, <1>3
  <2>2. (n.type = "create" => Asked(n)) /\ (n.type = "close" => Leaving(n))
    BY <2>1 DEF Requests, Closing
  <2> QED BY <2>1, <2>2
<1>4. ASSUME NEW j \in DOMAIN inbox', NEW k \in DOMAIN inbox', inbox'[j].type = "create",
             inbox'[k].type = "create", inbox'[j].src = inbox'[k].src
      PROVE  j = k
  <2>1. j + 1 = k + 1
    BY <1>1, <1>4 DEF Requests
  <2> QED BY <1>2, <2>1
<1>5. Requests'
  BY <1>2, <1>3, <1>4 DEF Requests, Asked, Kind
<1>6. Closing'
  BY <1>2, <1>3 DEF Closing, Leaving
<1> QED BY <1>1, <1>2, <1>5, <1>6

\* The buffers of the requests that are left.
LEMMA BuffersLeft ==
    ASSUME Buffers, Mapped' = Mapped, mapped'[Wm] \subseteq Mapped, Shown' \subseteq Mapped,
           \A k \in DOMAIN inbox' : k + 1 \in DOMAIN inbox /\ k + 1 # 1 /\ k \in Nat /\ inbox'[k] = inbox[k + 1],
           \A r, s \in Content(g_wins') : r.shm = s.shm => r = s,
           \A k \in DOMAIN inbox : k # 1 /\ inbox[k].type = "create" => inbox[k].arg \notin Shown'
    PROVE  Buffers'
<1>1. \A k \in DOMAIN inbox' : inbox'[k].type = "create" => inbox'[k].arg \in Mapped' \ Shown'
  BY DEF Buffers
<1>2. ASSUME NEW j \in DOMAIN inbox', NEW k \in DOMAIN inbox', inbox'[j].type = "create",
             inbox'[k].type = "create", inbox'[j].arg = inbox'[k].arg
      PROVE  j = k
  <2>1. j + 1 = k + 1
    BY <1>2 DEF Buffers
  <2> QED BY <2>1
<1> QED BY <1>1, <1>2 DEF Buffers

\* A message that is not granted changes nothing but the endpoint and, for a
\* CREATE, the answer: 0.
LEMMA RefusedStep ==
    ASSUME DesktopInv, inbox # << >>, inbox' = Tail(inbox),
           UNCHANGED <<win_vars, shm_vars, pc, shm, windows>>,
           NEW m \in Message, m = inbox[1],
           reply' = IF m.type = "create" /\ pc[m.src] = "wait" THEN [reply EXCEPT ![m.src] = 0] ELSE reply
    PROVE  DesktopInv'
<1> USE Facts
<1>1. WinInv' /\ Shown' = Shown /\ g_wins' = g_wins /\ g_next_win_id' = g_next_win_id
  BY WinSame DEF DesktopInv, win_vars
<1>2. /\ shm_objs' = shm_objs /\ shm_next_id' = shm_next_id /\ mapped' = mapped
      /\ ShmTypes' /\ Mapped' = Mapped
  BY DEF DesktopInv, ShmTypes, Mapped, shm_vars
<1>3. Own' /\ Held' = Held
  BY <1>2, OwnSame DEF DesktopInv
<1>4. m.src \in Client /\ 1 \in DOMAIN inbox
  BY Senders
<1>5. /\ reply' \in [Client -> Nat \cup {-1}]
      /\ \A q \in Client : reply'[q] = reply[q] \/ (reply'[q] = 0 /\ q = m.src /\ m.type = "create" /\ pc[q] = "wait")
  BY <1>4
<1>6. \A k \in DOMAIN inbox : k # 1 /\ inbox[k].type = "create" /\ m.type = "create" => inbox[k].src # m.src
  BY <1>4 DEF DesktopInv, Requests
<1>7. /\ Requests' /\ Closing' /\ inbox' \in Seq(Message)
      /\ \A k \in DOMAIN inbox' : k + 1 \in DOMAIN inbox /\ k + 1 # 1 /\ k \in Nat /\ inbox'[k] = inbox[k + 1]
  <2>1. ASSUME NEW n \in Message, NEW k \in DOMAIN inbox, n = inbox[k], k # 1
        PROVE  /\ n.type = "create" /\ Asked(n) => Asked(n)'
               /\ n.type = "close" /\ Leaving(n) => Leaving(n)'
    <3>1. n.src \in Client
      BY Senders
    <3>2. n.type = "create" => reply'[n.src] = reply[n.src]
      BY <1>5, <1>6, <2>1, <3>1
    <3>3. n.type = "create" /\ Asked(n) => Asked(n)'
      BY <3>2 DEF Asked, Kind
    <3>4. n.type = "close" /\ Leaving(n) => Leaving(n)'
      BY <1>1, <1>5, <3>1 DEF Leaving
    <3> QED BY <3>3, <3>4
  <2> QED BY <2>1, Received DEF DesktopInv
<1>8. ClientTypes' /\ Counts'
  BY <1>5, <1>7 DEF DesktopInv, ClientTypes, Counts
<1>9. Alone'
  <2> SUFFICES ASSUME pc[Bg] # "up" PROVE Alone'
    BY DEF Alone
  <2>1. /\ \A q \in App : pc'[q] = "shm_create"
        /\ \A r \in Content(g_wins') : r.kind # "normal"
        /\ pc[Bg] \notin {"shm_create", "shm_map"}
        /\ \A k \in DOMAIN inbox : /\ inbox[k].src = Bg
                                   /\ pc[Bg] = "wait" => inbox[k].type = "create"
                                   /\ inbox[k].type = "create" => k = 1 /\ Used(g_wins) \subseteq IF inbox[k].kind = "background" THEN {} ELSE {1}
    BY <1>1 DEF DesktopInv, Alone
  <2>2. \A k \in DOMAIN inbox' : inbox'[k].src = Bg /\ inbox'[k].type # "create"
    BY <1>7, <2>1
  <2>3. pc[Bg] = "wait" => inbox' = << >> /\ Used(g_wins') \subseteq {1}
    <3> SUFFICES ASSUME pc[Bg] = "wait" PROVE inbox' = << >> /\ Used(g_wins') \subseteq {1}
      OBVIOUS
    <3>1. \A k \in DOMAIN inbox : k = 1
      BY <2>1
    <3>2. inbox' = << >>
      BY <3>1, Receive
    <3>3. Used(g_wins) \subseteq {1}
      BY <1>4, <2>1
    <3> QED BY <1>1, <3>2, <3>3
  <2>4. pc[Bg] = "wait" => \A k \in DOMAIN inbox' : inbox'[k].type = "create"
    BY <2>3
  <2> QED BY <2>1, <2>2, <2>3, <2>4 DEF Alone
<1>10. Kept'
  BY <1>1 DEF DesktopInv, Kept, KeptBy, Has
<1>11. Answers'
  <2> SUFFICES ASSUME NEW q \in Client PROVE AnswerTo(q)'
    BY DEF Answers
  <2>1. AnswerTo(q)
    BY DEF DesktopInv, Answers
  <2>2. CASE reply'[q] = reply[q]
    BY <1>1, <2>1, <2>2 DEF AnswerTo, Has
  <2>3. CASE reply'[q] = 0 /\ pc[q] = "wait"
    BY <2>3 DEF AnswerTo
  <2> QED BY <1>5, <2>2, <2>3
<1>12. Buffers'
  <2>1. /\ mapped'[Wm] \subseteq Mapped /\ Shown' \subseteq Mapped
        /\ \A r, s \in Content(g_wins') : r.shm = s.shm => r = s
        /\ \A k \in DOMAIN inbox : inbox[k].type = "create" => inbox[k].arg \notin Shown'
    BY <1>1, <1>2 DEF DesktopInv, Buffers
  <2> QED BY <1>2, <1>7, <2>1, BuffersLeft DEF DesktopInv
<1>13. RefsExact' /\ MappedLive'
  BY <1>1, <1>2, <1>3, RefsSame DEF DesktopInv
<1> QED BY <1>1, <1>2, <1>3, <1>7, <1>8, <1>9, <1>10, <1>11, <1>12, <1>13 DEF DesktopInv

\* A CREATE that is granted.
LEMMA GrantedStep ==
    ASSUME DesktopInv, inbox # << >>, inbox' = Tail(inbox),
           UNCHANGED <<pc, shm, windows>>,
           NEW m \in Message, m = inbox[1], m.type = "create",
           reply' = IF pc[m.src] # "wait" THEN reply ELSE [reply EXCEPT ![m.src] = g_next_win_id],
           shm_map(Wm, m.arg), create_window(m.src, m.kind, m.arg)
    PROVE  DesktopInv'
<1> USE Facts
<1> DEFINE new == [id |-> g_next_win_id, owner |-> m.src, kind |-> m.kind, shm |-> m.arg]
<1>1. m.src \in Client /\ m.arg \in Nat /\ 1 \in DOMAIN inbox
  BY Senders
<1>2. /\ Asked(m) /\ m.arg \in Mapped \ Shown
      /\ \A k \in DOMAIN inbox : k # 1 /\ inbox[k].type = "create" => inbox[k].src # m.src /\ inbox[k].arg # m.arg
  BY <1>1 DEF DesktopInv, Requests, Buffers
<1>3. /\ m.kind \in {"background", "bar", "normal"}
      /\ m.src \in App => m.kind = "normal"
      /\ m.kind = "normal" => m.src \in App
      /\ m.src \notin App => m.src = Bg
  BY <1>1, <1>2 DEF Asked, Client
<1>4. /\ m.kind = "background" => Used(g_wins) = {}
      /\ m.kind = "bar" => Used(g_wins) \subseteq {1}
  <2> SUFFICES ASSUME m.kind \in {"background", "bar"}
               PROVE  Used(g_wins) \subseteq IF m.kind = "background" THEN {} ELSE {1}
    OBVIOUS
  <2>1. m.src = Bg /\ pc[Bg] # "up"
    BY <1>2, <1>3 DEF Asked
  <2> QED BY <1>1, <2>1 DEF DesktopInv, Alone
<1>5. /\ WinInv' /\ Content(g_wins') = Content(g_wins) \cup {new}
      /\ g_next_win_id' = g_next_win_id + 1
      /\ m.kind = "background" => Used(g_wins') = {1}
  BY <1>1, <1>3, <1>4, CreateTable DEF DesktopInv
<1>6. g_next_win_id \in Nat \ {0} /\ \A r \in Content(g_wins) : r.id < g_next_win_id /\ r.id \in Nat
  <2>1. Table(g_wins) /\ g_next_win_id \in Nat \ {0} /\ \A r \in Content(g_wins) : r.id < g_next_win_id
    BY DEF DesktopInv, WinInv, TableInv
  <2> QED BY <2>1, ContentDistinct DEF Window
<1>7. new.id = g_next_win_id /\ new.owner = m.src /\ new.kind = m.kind /\ new.shm = m.arg
  OBVIOUS
<1>8. /\ ShmTypes' /\ shm_next_id' = shm_next_id /\ mapped' = [mapped EXCEPT ![Wm] = @ \cup {m.arg}]
  BY ShmMap DEF DesktopInv
<1>9. Mapped' = Mapped /\ mapped'[Wm] \subseteq Mapped
  <2>1. \A q \in Client : mapped'[q] = mapped[q]
    BY <1>8
  <2>2. Mapped' = Mapped
    BY ONLY <2>1 DEF Mapped
  <2>3. mapped'[Wm] = mapped[Wm] \cup {m.arg}
    BY <1>8
  <2>4. mapped[Wm] \subseteq Mapped
    BY DEF DesktopInv, Buffers
  <2> QED BY <1>2, <2>2, <2>3, <2>4
<1> HIDE DEF new
<1>10. Shown' = Shown \cup {m.arg}
  BY <1>5, <1>7 DEF Shown
<1>11. Own' /\ Held' = Held
  BY <1>8, <1>9, OwnSame DEF DesktopInv
<1>12. /\ reply' \in [Client -> Nat \cup {-1}]
       /\ \A q \in Client : \/ reply'[q] = reply[q]
                            \/ reply'[q] = g_next_win_id /\ q = m.src /\ pc[q] = "wait"
  BY <1>1, <1>6
<1>13. /\ Requests' /\ Closing' /\ inbox' \in Seq(Message)
       /\ \A k \in DOMAIN inbox' : k + 1 \in DOMAIN inbox /\ k + 1 # 1 /\ k \in Nat /\ inbox'[k] = inbox[k + 1]
  <2>1. ASSUME NEW n \in Message, NEW k \in DOMAIN inbox, n = inbox[k], k # 1
        PROVE  /\ n.type = "create" /\ Asked(n) => Asked(n)'
               /\ n.type = "close" /\ Leaving(n) => Leaving(n)'
    <3>1. n.src \in Client /\ n.arg \in Nat
      BY Senders
    <3>2. n.type = "create" => reply'[n.src] = reply[n.src]
      BY <1>2, <1>12, <2>1, <3>1
    <3>3. n.type = "create" /\ Asked(n) => Asked(n)'
      BY <3>2 DEF Asked, Kind
    <3>4. n.type = "close" /\ Leaving(n) => Leaving(n)'
      BY <1>5, <1>6, <1>12, <3>1 DEF Leaving
    <3> QED BY <3>3, <3>4
  <2> QED BY <2>1, Received DEF DesktopInv
<1>14. ClientTypes' /\ Counts'
  BY <1>12, <1>13 DEF DesktopInv, ClientTypes, Counts
<1>15. Alone'
  <2> SUFFICES ASSUME pc[Bg] # "up" PROVE Alone'
    BY DEF Alone
  <2>1. /\ \A q \in App : pc'[q] = "shm_create"
        /\ \A r \in Content(g_wins) : r.kind # "normal"
        /\ pc[Bg] \notin {"shm_create", "shm_map"}
        /\ \A k \in DOMAIN inbox : /\ inbox[k].src = Bg
                                   /\ pc[Bg] = "wait" => inbox[k].type = "create"
                                   /\ inbox[k].type = "create" => k = 1
    BY DEF DesktopInv, Alone
  <2>2. m.src = Bg /\ m.kind # "normal"
    BY <1>1, <1>3, <2>1
  <2>3. \A r \in Content(g_wins') : r.kind # "normal"
    BY <1>5, <1>7, <2>1, <2>2
  <2>4. \A k \in DOMAIN inbox' : inbox'[k].src = Bg /\ inbox'[k].type # "create"
    BY <1>13, <2>1
  <2>5. pc[Bg] = "wait" => inbox' = << >>
    <3> SUFFICES ASSUME pc[Bg] = "wait" PROVE inbox' = << >>
      OBVIOUS
    <3>1. \A k \in DOMAIN inbox : k = 1
      BY <2>1
    <3> QED BY <3>1, Receive
  <2>6. pc[Bg] = "wait" => \A k \in DOMAIN inbox' : inbox'[k].type = "create"
    BY <2>5
  <2>7. pc[Bg] = "wait" /\ windows[Bg] = << >> => Used(g_wins') \subseteq {1}
    <3> SUFFICES ASSUME pc[Bg] = "wait", windows[Bg] = << >> PROVE Used(g_wins') \subseteq {1}
      OBVIOUS
    <3>1. m.kind = "background"
      BY <1>2, <2>2 DEF Asked, Kind
    <3> QED BY <1>5, <3>1
  <2> QED BY <2>1, <2>3, <2>4, <2>5, <2>6, <2>7 DEF Alone
<1>16. Kept'
  BY <1>5 DEF DesktopInv, Kept, KeptBy, Has
<1>17. Answers'
  <2> SUFFICES ASSUME NEW q \in Client PROVE AnswerTo(q)'
    BY DEF Answers
  <2>1. AnswerTo(q) /\ KeptBy(q)
    BY DEF DesktopInv, Answers, Kept
  <2>2. CASE reply'[q] = reply[q]
    BY <1>5, <2>1, <2>2 DEF AnswerTo, Has
  <2>3. CASE reply'[q] = g_next_win_id /\ q = m.src /\ pc[q] = "wait"
    <3>1. m.arg = shm[q]
      BY <1>2, <2>3 DEF Asked
    <3>2. \E r \in Content(g_wins') : r.id = reply'[q] /\ r.owner = q /\ r.shm = shm'[q]
      BY <1>5, <1>7, <2>3, <3>1
    <3>3. \A k \in DOMAIN windows[q] : windows[q][k].id # g_next_win_id
      <4>1. \A k \in DOMAIN windows[q] : \E r \in Content(g_wins) : r.id = windows[q][k].id
        BY <2>1 DEF KeptBy, Has
      <4>2. \A r \in Content(g_wins) : r.id # g_next_win_id
        BY <1>6
      <4> QED BY ONLY <4>1, <4>2
    <3> QED BY <2>3, <3>2, <3>3 DEF AnswerTo, Has
  <2> QED BY <1>12, <2>2, <2>3
<1>18. Buffers'
  <2>1. \A r, s \in Content(g_wins') : r.shm = s.shm => r = s
    <3>1. \A r \in Content(g_wins) : r.shm # m.arg
      BY <1>2 DEF Shown
    <3> QED BY <1>5, <1>7, <3>1 DEF DesktopInv, Buffers
  <2>2. \A k \in DOMAIN inbox : k # 1 /\ inbox[k].type = "create" => inbox[k].arg \notin Shown'
    BY <1>2, <1>10 DEF DesktopInv, Buffers
  <2>3. Shown' \subseteq Mapped
    BY <1>2, <1>10
  <2> QED BY <1>9, <1>13, <2>1, <2>2, <2>3, BuffersLeft DEF DesktopInv
<1>19. RefsExact' /\ MappedLive'
  BY <1>2, <1>9, <1>10, <1>11, RefsMap DEF DesktopInv
<1> QED BY <1>5, <1>8, <1>11, <1>13, <1>14, <1>15, <1>16, <1>17, <1>18, <1>19 DEF DesktopInv

\* A CLOSE of the sender's window.
LEMMA ClosedStep ==
    ASSUME DesktopInv, inbox # << >>, inbox' = Tail(inbox),
           UNCHANGED <<pc, shm, windows, reply>>,
           NEW m \in Message, m = inbox[1], m.type = "close",
           NEW s \in Used(g_wins), g_wins[s].id = m.arg, g_wins[s].owner = m.src,
           shm_close(g_wins[s].shm), close_window(m.arg)
    PROVE  DesktopInv'
<1> USE Facts
<1>1. m.src \in Client /\ 1 \in DOMAIN inbox
  BY Senders
<1>2. Leaving(m)
  BY <1>1 DEF DesktopInv, Closing
<1>3. /\ WinInv' /\ Content(g_wins') = Content(g_wins) \ {g_wins[s]}
      /\ Used(g_wins') \subseteq Used(g_wins) /\ g_next_win_id' = g_next_win_id
  BY CloseTable DEF DesktopInv
<1>4. PICK o : o = g_wins[s].shm
  OBVIOUS
<1>5. PICK w : w = g_wins[s]
  OBVIOUS
<1>6. w \in Content(g_wins) /\ w.shm = o /\ w.id = m.arg /\ w.owner = m.src
  BY <1>4, <1>5 DEF Content
<1>7. o \in Shown /\ Shown' = Shown \ {o}
  <2>1. \A r, t \in Content(g_wins) : r.shm = t.shm => r = t
    BY DEF DesktopInv, Buffers
  <2> QED BY <1>3, <1>5, <1>6, <2>1 DEF Shown
<1>8. o \in Nat \ {0} /\ shm_close(o)
  BY <1>4, <1>7
<1>9. mapped' = mapped /\ Mapped' = Mapped /\ shm_next_id' = shm_next_id
  BY DEF shm_close, Mapped
<1>10. Own' /\ Held' = Held
  BY <1>9, OwnSame DEF DesktopInv
<1>11. RefsExact' /\ MappedLive' /\ ShmTypes'
  BY <1>7, <1>8, <1>9, <1>10, RefsClose DEF DesktopInv
<1>12. /\ Requests' /\ Closing' /\ inbox' \in Seq(Message)
       /\ \A k \in DOMAIN inbox' : k + 1 \in DOMAIN inbox /\ k + 1 # 1 /\ k \in Nat /\ inbox'[k] = inbox[k + 1]
  <2>1. \A n \in Message : (Asked(n) => Asked(n)') /\ (Leaving(n) => Leaving(n)')
    BY <1>3 DEF Asked, Kind, Leaving
  <2> QED BY <2>1, Received DEF DesktopInv
<1>13. ClientTypes' /\ Counts'
  BY <1>12 DEF DesktopInv, ClientTypes, Counts
<1>14. Alone'
  <2> SUFFICES ASSUME pc[Bg] # "up" PROVE Alone'
    BY DEF Alone
  <2>1. /\ \A q \in App : pc'[q] = "shm_create"
        /\ \A r \in Content(g_wins') : r.kind # "normal"
        /\ pc[Bg] \notin {"shm_create", "shm_map"}
        /\ pc[Bg] # "wait"
        /\ \A k \in DOMAIN inbox : /\ inbox[k].src = Bg
                                   /\ inbox[k].type = "create" => k = 1
    BY <1>1, <1>3 DEF DesktopInv, Alone
  <2>2. \A k \in DOMAIN inbox' : inbox'[k].src = Bg /\ inbox'[k].type # "create"
    BY <1>12, <2>1
  <2> QED BY <2>1, <2>2 DEF Alone
<1>16. Kept'
  <2> SUFFICES ASSUME NEW q \in Client PROVE KeptBy(q)'
    BY DEF Kept
  <2>1. KeptBy(q) /\ \A k \in DOMAIN windows[q] : q = m.src => windows[q][k].id # m.arg
    BY <1>2 DEF DesktopInv, Kept, Leaving
  <2> QED BY <1>3, <1>5, <1>6, <2>1 DEF KeptBy, Has
<1>17. Answers'
  <2> SUFFICES ASSUME NEW q \in Client PROVE AnswerTo(q)'
    BY DEF Answers
  <2>1. AnswerTo(q) /\ (q = m.src => reply[q] # m.arg)
    BY <1>2 DEF DesktopInv, Answers, Leaving
  <2> QED BY <1>3, <1>5, <1>6, <2>1 DEF AnswerTo, Has
<1>18. Buffers'
  <2>1. /\ mapped'[Wm] \subseteq Mapped /\ Shown' \subseteq Mapped
        /\ \A r, t \in Content(g_wins') : r.shm = t.shm => r = t
        /\ \A k \in DOMAIN inbox : inbox[k].type = "create" => inbox[k].arg \notin Shown'
    BY <1>3, <1>7, <1>9 DEF DesktopInv, Buffers
  <2> QED BY <1>9, <1>12, <2>1, BuffersLeft DEF DesktopInv
<1> QED BY <1>3, <1>10, <1>11, <1>12, <1>13, <1>14, <1>16, <1>17, <1>18 DEF DesktopInv

\* An input event.
LEMMA InputStep ==
    ASSUME DesktopInv, UNCHANGED <<shm_vars, client_vars>>, WinInv',
           Content(g_wins') = Content(g_wins), g_next_win_id' = g_next_win_id,
           (\A r \in Content(g_wins) : r.kind # "normal") => g_wins' = g_wins
    PROVE  DesktopInv'
<1>1. /\ pc' = pc /\ shm' = shm /\ windows' = windows /\ inbox' = inbox /\ reply' = reply
      /\ shm_objs' = shm_objs /\ shm_next_id' = shm_next_id /\ mapped' = mapped
  BY DEF shm_vars, client_vars
<1>2. Shown' = Shown /\ Mapped' = Mapped
  BY <1>1 DEF Shown, Mapped
<1>3. Own' /\ Held' = Held
  BY <1>1, <1>2, OwnSame DEF DesktopInv
<1>4. RefsExact' /\ MappedLive' /\ ShmTypes'
  <2>1. ShmTypes'
    BY <1>1 DEF DesktopInv, ShmTypes
  <2> QED BY <1>1, <1>2, <1>3, <2>1, RefsSame DEF DesktopInv
<1>5. ClientTypes' /\ Counts'
  BY <1>1 DEF DesktopInv, ClientTypes, Counts
<1>6. Requests'
  BY <1>1 DEF DesktopInv, Requests, Asked, Kind
<1>7. Alone'
  BY <1>1 DEF DesktopInv, Alone
<1>8. Kept' /\ Answers'
  BY <1>1 DEF DesktopInv, Kept, KeptBy, Answers, AnswerTo, Has
<1>9. Closing'
  BY <1>1 DEF DesktopInv, Closing, Leaving
<1>10. Buffers'
  BY <1>1, <1>2 DEF DesktopInv, Buffers
<1> QED BY <1>3, <1>4, <1>5, <1>6, <1>7, <1>8, <1>9, <1>10 DEF DesktopInv

-----------------------------------------------------------------------------
(* The theorems                                                            *)

\* At the start there is nothing.
LEMMA InitInv ==
    ASSUME Init
    PROVE  DesktopInv
<1> USE DEF Init
<1>1. /\ \A i \in Slots : g_wins[i] = NoWin
      /\ g_wins \in [Slots -> Window \cup {NoWin}]
  BY DEF WinInit
<1>2. Used(g_wins) = {} /\ Content(g_wins) = {} /\ Ids(g_wins) = {}
  BY <1>1 DEF Used, Content, Ids, NoWin
<1>3. Table(g_wins)
  BY <1>1, <1>2 DEF Table, Distinct, Layered
<1>4. TableInv
  BY <1>2, <1>3 DEF TableInv, WinInit
<1>5. FocusExact
  <2>1. topmost_focusable_window(g_wins) = 0
    BY <1>2, <1>3, Topmost
  <2> QED BY <2>1 DEF FocusExact, WinInit
<1>6. FocusTold /\ NoDangling
  BY DEF FocusTold, NoDangling, WinInit
<1>7. /\ Bg \in Client /\ App \subseteq Client /\ Client \subseteq Process /\ Wm \in Process
  BY DesktopAssumption DEF Client
<1>8. /\ \A p \in Client : pc[p] = "shm_create" /\ windows[p] = << >> /\ reply[p] = -1 /\ shm[p] = 0
      /\ inbox = << >>
  OBVIOUS
<1>9. ClientTypes
  <2>1. windows \in [Client -> Seq(Opened)] /\ inbox \in Seq(Message)
    OBVIOUS
  <2>2. reply \in [Client -> Nat \cup {-1}] /\ shm \in [Client -> Nat]
    OBVIOUS
  <2> QED BY <2>1, <2>2 DEF ClientTypes
<1>10. Counts
  <2>1. Len(<< >>) = 0
    OBVIOUS
  <2> QED BY <1>7, <1>8, <2>1 DEF Counts
<1>11. \A k \in DOMAIN inbox : FALSE
  BY <1>8
<1>12. Requests /\ Closing
  BY <1>11 DEF Requests, Closing
<1>13. Alone
  BY <1>2, <1>7, <1>8, <1>11 DEF Alone
<1>14. \A p \in Client : \A k \in DOMAIN windows[p] : FALSE
  BY <1>8
<1>15. Kept /\ Answers
  BY <1>8, <1>14 DEF Kept, KeptBy, Answers, AnswerTo
<1>16. /\ \A i \in Entries : shm_objs[i].id = 0 /\ shm_objs[i].refcount = 0
       /\ shm_objs \in [Entries -> [id : Nat, refcount : Nat]]
       /\ shm_next_id = 1 /\ \A p \in Process : mapped[p] = {}
       /\ mapped \in [Process -> SUBSET (1..(shm_next_id - 1))]
  BY DEF ShmInit, FreeEntry
<1>17. ShmTypes
  BY <1>16 DEF ShmTypes
<1>18. Mapped = {} /\ Shown = {} /\ \A p \in Client : HeldBy(p) = {}
  BY <1>2, <1>7, <1>8, <1>14, <1>16 DEF Mapped, Shown, HeldBy
<1>19. Own
  BY <1>8, <1>14, <1>18 DEF Own, OwnBy
<1>20. Buffers
  BY <1>2, <1>7, <1>11, <1>16, <1>18 DEF Buffers
<1>21. RefsExact /\ MappedLive
  BY <1>16, <1>18 DEF RefsExact, MappedLive
<1> QED BY <1>4, <1>5, <1>6, <1>9, <1>10, <1>12, <1>13, <1>15, <1>17, <1>19, <1>20, <1>21
        DEF DesktopInv, WinInv

\* Every step keeps the invariant.
LEMMA NextInv ==
    ASSUME DesktopInv, [Next]_vars
    PROVE  DesktopInv'
<1>1. CASE UNCHANGED vars
  <2>1. UNCHANGED win_vars /\ UNCHANGED <<shm_vars, client_vars>>
    BY <1>1 DEF vars
  <2>2. WinInv' /\ g_wins' = g_wins /\ g_next_win_id' = g_next_win_id
    BY <2>1, WinSame DEF DesktopInv, win_vars
  <2> QED BY <2>1, <2>2, InputStep
<1>2. ASSUME NEW p \in Client, open_shm_create(p) PROVE DesktopInv'
  <2>1. pc[p] = "shm_create" /\ Started(p) /\ UNCHANGED <<win_vars, windows, inbox, reply>>
    BY <1>2 DEF open_shm_create
  <2>2. \/ shm_create /\ shm' = [shm EXCEPT ![p] = shm_next_id] /\ pc' = [pc EXCEPT ![p] = "shm_map"]
        \/ pc' = [pc EXCEPT ![p] = Done(p)] /\ UNCHANGED <<shm_vars, shm>>
    BY <1>2 DEF open_shm_create, Goto
  <2> QED BY <2>1, <2>2, CreateBufferStep, NoBufferStep
<1>3. ASSUME NEW p \in Client, open_reply(p) PROVE DesktopInv'
  <2>1. CASE reply[p] = 0
    <3>1. /\ pc[p] = "wait" /\ pc' = [pc EXCEPT ![p] = "unref"] /\ reply' = [reply EXCEPT ![p] = -1]
          /\ UNCHANGED <<win_vars, shm_vars, shm, windows, inbox>>
      BY <1>3, <2>1 DEF open_reply, Goto
    <3> QED BY <3>1, GiveUpStep
  <2>2. CASE reply[p] # 0
    <3>1. pc[p] = "wait" /\ reply[p] # -1
      BY <1>3 DEF open_reply
    <3> QED BY <1>3, <2>2, <3>1, OpenedStep
  <2> QED BY <2>1, <2>2
<1>4. ASSUME NEW p \in Client, open_timeout(p) PROVE DesktopInv'
  BY <1>4, GiveUpStep DEF open_timeout, Goto
<1>5. ASSUME wm_create PROVE DesktopInv'
  <2>1. inbox \in Seq(Message) /\ inbox # << >> /\ inbox' = Tail(inbox)
    BY <1>5 DEF wm_create, DesktopInv, ClientTypes
  <2>2. PICK m \in Message : m = inbox[1]
    BY <2>1, Receive
  <2>3. m.type = "create" /\ UNCHANGED <<pc, shm, windows>>
    BY <1>5, <2>2 DEF wm_create
  <2> DEFINE ok == FreeSlots(g_wins) # {} /\ Live(m.arg)
  <2>4. reply' = IF pc[m.src] # "wait" THEN reply ELSE [reply EXCEPT ![m.src] = IF ok THEN g_next_win_id ELSE 0]
    BY <1>5, <2>2 DEF wm_create
  <2>5. \/ ok /\ shm_map(Wm, m.arg) /\ create_window(m.src, m.kind, m.arg)
        \/ ~ok /\ UNCHANGED <<win_vars, shm_vars>>
    BY <1>5, <2>2 DEF wm_create
  <2> HIDE DEF ok
  <2>6. CASE ok
    BY <2>1, <2>2, <2>3, <2>4, <2>5, <2>6, GrantedStep
  <2>7. CASE ~ok
    BY <2>1, <2>2, <2>3, <2>4, <2>5, <2>7, RefusedStep
  <2> QED BY <2>6, <2>7
<1>6. ASSUME wm_close PROVE DesktopInv'
  <2>1. inbox \in Seq(Message) /\ inbox # << >> /\ inbox' = Tail(inbox)
    BY <1>6 DEF wm_close, DesktopInv, ClientTypes
  <2>2. PICK m \in Message : m = inbox[1]
    BY <2>1, Receive
  <2>3. m.type = "close" /\ UNCHANGED <<pc, shm, windows, reply>>
    BY <1>6, <2>2 DEF wm_close
  <2>4. \/ \E i \in Used(g_wins) : /\ g_wins[i].id = m.arg /\ g_wins[i].owner = m.src
                                   /\ shm_close(g_wins[i].shm) /\ close_window(m.arg)
        \/ UNCHANGED <<win_vars, shm_vars>>
    BY <1>6, <2>2 DEF wm_close
  <2>5. CASE UNCHANGED <<win_vars, shm_vars>>
    BY <2>1, <2>2, <2>3, <2>5, RefusedStep
  <2>6. ASSUME NEW i \in Used(g_wins), g_wins[i].id = m.arg, g_wins[i].owner = m.src,
               shm_close(g_wins[i].shm), close_window(m.arg)
        PROVE  DesktopInv'
    BY <2>1, <2>2, <2>3, <2>6, ClosedStep
  <2> QED BY <2>4, <2>5, <2>6
<1>7. ASSUME wm_mouse PROVE DesktopInv'
  <2>1. PICK left \in BOOLEAN, moved \in BOOLEAN, under \in win_at(g_wins) : mouse_event(left, moved, under)
    BY <1>7 DEF wm_mouse
  <2>2. UNCHANGED <<shm_vars, client_vars>>
    BY <1>7 DEF wm_mouse
  <2> QED BY <2>1, <2>2, MouseTable, InputStep DEF DesktopInv
<1>8. ASSUME wm_kbd PROVE DesktopInv'
  <2>1. PICK under \in win_at(g_wins) : kbd_event(under)
    BY <1>8 DEF wm_kbd
  <2>2. UNCHANGED <<shm_vars, client_vars>>
    BY <1>8 DEF wm_kbd
  <2>3. UNCHANGED win_vars
    BY <2>1, KbdTable DEF DesktopInv
  <2>4. WinInv' /\ g_wins' = g_wins /\ g_next_win_id' = g_next_win_id
    BY <2>3, WinSame DEF DesktopInv, win_vars
  <2> QED BY <2>2, <2>4, InputStep
<1> QED BY <1>1, <1>2, <1>3, <1>4, <1>5, <1>6, <1>7, <1>8, RequestStep, CloseSendStep, UnrefStep
        DEF Next, ClientStep

\* The inductive invariant holds throughout.
LEMMA DesktopInvariant == Spec => []DesktopInv
<1>1. Init => DesktopInv
  BY InitInv
<1>2. DesktopInv /\ [Next]_vars => DesktopInv'
  BY NextInv
<1> QED BY <1>1, <1>2, PTL DEF Spec

\* The keyboard's target is a normal window that exists, and none only when
\* there is no normal window, whatever is opened, raised and closed in whatever
\* order: wm.c's recovery of the focus is never needed.
THEOREM FocusIsRight == Spec => []FocusExact
<1>1. DesktopInv => FocusExact
  BY DEF DesktopInv, WinInv
<1> QED BY <1>1, DesktopInvariant, PTL

\* Exactly the focused window believes it has the focus (update_focus and the
\* close of a focused window tell everybody concerned).
THEOREM FocusEventsAgree == Spec => []FocusTold
<1>1. DesktopInv => FocusTold
  BY DEF DesktopInv, WinInv
<1> QED BY <1>1, DesktopInvariant, PTL

\* The background stays below and the bar above every other window, through
\* raise_window's swaps and moves.
THEOREM LayersKept == Spec => []LayersOrdered
<1>1. DesktopInv => LayersOrdered
  <2> SUFFICES ASSUME DesktopInv, NEW i \in Used(g_wins), NEW j \in Used(g_wins), i < j
               PROVE  g_wins[j].kind # "background" /\ g_wins[i].kind # "bar"
    BY DEF LayersOrdered
  <2>1. Layered(g_wins)
    BY DEF DesktopInv, WinInv, TableInv, Table
  <2>2. i \in 1..MAX_WINS /\ j \in 1..MAX_WINS
    BY DEF Used, Slots
  <2> QED BY <2>1, <2>2, WinMgrAssumption DEF Layered
<1> QED BY <1>1, DesktopInvariant, PTL

\* Neither the hovered nor the dragged window is ever one that was closed, and
\* a drag ends with the button.
THEOREM NoDanglingWindow == Spec => []NoDangling
<1>1. DesktopInv => NoDangling
  BY DEF DesktopInv, WinInv
<1> QED BY <1>1, DesktopInvariant, PTL

\* A window that open_window returned stays in the table, once, with its owner
\* and its buffer, until its client closes it.
THEOREM WindowsStay == Spec => []WindowsKept
<1>1. DesktopInv => WindowsKept
  <2> SUFFICES ASSUME DesktopInv, NEW p \in Client, NEW k \in DOMAIN windows[p]
               PROVE  Cardinality({i \in Slots : /\ g_wins[i].id = windows[p][k].id
                                                 /\ g_wins[i].owner = p
                                                 /\ g_wins[i].shm = windows[p][k].shm}) = 1
    BY DEF WindowsKept
  <2> DEFINE S == {i \in Slots : /\ g_wins[i].id = windows[p][k].id
                                 /\ g_wins[i].owner = p
                                 /\ g_wins[i].shm = windows[p][k].shm}
  <2>1. PICK i \in Used(g_wins) : /\ g_wins[i].id = windows[p][k].id
                                  /\ g_wins[i].owner = p
                                  /\ g_wins[i].shm = windows[p][k].shm
    BY DEF DesktopInv, Kept, KeptBy, Has, Content
  <2>2. \A j \in Slots : g_wins[j].id = g_wins[i].id => j = i
    BY DEF DesktopInv, WinInv, TableInv, Table, Distinct, Used
  <2>3. S = {i}
    BY <2>1, <2>2 DEF Used
  <2>4. Cardinality({i}) = 1
    BY FS_Singleton
  <2> HIDE DEF S
  <2>5. Cardinality(S) = 1
    BY <2>3, <2>4
  <2> QED BY <2>5 DEF S
<1> QED BY <1>1, DesktopInvariant, PTL

\* No frame of a shared buffer is given back while a running process maps it:
\* an object's count is the number of its users, of whom a mapping is one.
THEOREM BuffersOutliveMappings == Spec => []MappedAlive
<1>1. DesktopInv => MappedAlive
  <2> SUFFICES ASSUME DesktopInv, NEW p \in Process, NEW id \in mapped[p] PROVE Live(id)
    BY DEF MappedAlive
  <2>1. id \in Mapped
    <3>1. CASE p \in Client
      BY <3>1 DEF Mapped
    <3>2. CASE p = Wm
      BY <3>2 DEF DesktopInv, Buffers
    <3> QED BY <3>1, <3>2, Facts
  <2> QED BY <2>1 DEF DesktopInv, MappedLive
<1> QED BY <1>1, DesktopInvariant, PTL
=============================================================================
