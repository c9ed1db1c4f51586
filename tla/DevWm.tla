------------------------------- MODULE DevWm --------------------------------
(***************************************************************************)
(* /dev/wm, the message channel between the window manager and its clients *)
(* (kernel/src/fs/dev/dev_wm.c): the table of endpoints, the election of   *)
(* the server and the routing rule.  An endpoint's queue is the message    *)
(* queue WmQueue implements, bounded here by a number of messages.         *)
(* Endpoints are never released: the device is not told of exits.          *)
(***************************************************************************)
EXTENDS Integers, Sequences, FiniteSets

CONSTANTS Pid,        \* processes that use the device
          Nobody,     \* pid 0: a free slot, no server yet, "to the server"
          WM_ENDPOINTS,
          Type,       \* message types
          Cap         \* bound: messages an endpoint keeps

ASSUME DevWmAssumption == /\ Nobody \notin Pid
                          /\ WM_ENDPOINTS \in Nat \ {0} /\ Cap \in Nat \ {0}

VARIABLES g_eps,         \* pid of each endpoint
          queues,        \* its messages
          g_server_pid

vars == <<g_eps, queues, g_server_pid>>

Slots == 1..WM_ENDPOINTS

Init == /\ g_eps = [i \in Slots |-> Nobody]
        /\ queues = [i \in Slots |-> << >>]
        /\ g_server_pid = Nobody

HasEp(eps, pid) == \E i \in Slots : eps[i] = pid

find_ep(eps, pid) == CHOOSE i \in Slots : eps[i] = pid /\ \A j \in 1..(i - 1) : eps[j] # pid

\* Plausible bugs, used to test the properties.
EnsureWithoutFind(eps, pid) ==
    IF HasEp(eps, Nobody) THEN [eps EXCEPT ![find_ep(eps, Nobody)] = pid] ELSE eps
EnsureEvicts(eps, pid) ==
    IF HasEp(eps, pid) THEN eps
    ELSE IF HasEp(eps, Nobody) THEN [eps EXCEPT ![find_ep(eps, Nobody)] = pid]
    ELSE [eps EXCEPT ![1] = pid]
AnyoneToAnyone(src, dst, server) == TRUE

\* The table after ensure_ep: unchanged when pid is there or the table full.
ensure_ep(eps, pid) ==
    IF HasEp(eps, pid) \/ ~HasEp(eps, Nobody) THEN eps
    ELSE [eps EXCEPT ![find_ep(eps, Nobody)] = pid]

\* "Allow server to send to any pid; clients can only send to server."
MaySend(src, dst, server) == src = server \/ dst = server

\* Append, dropping the oldest message when the queue is full.
Enqueued(s, m) == IF Len(s) < Cap THEN Append(s, m) ELSE Append(Tail(s), m)

\* The first writer becomes the server; sender and destination get endpoints.
\* Fails (-1) when the routing rule refuses or the destination gets no slot.
dev_wm_write(src, to, type) ==
    LET server == IF g_server_pid = Nobody THEN src ELSE g_server_pid
        dst    == IF to = Nobody THEN server ELSE to
        eps1   == ensure_ep(g_eps, src)
        eps2   == IF MaySend(src, dst, server) THEN ensure_ep(eps1, dst) ELSE eps1
    IN  /\ g_server_pid' = server
        /\ g_eps' = eps2
        /\ queues' = IF MaySend(src, dst, server) /\ HasEp(eps2, dst)
                     THEN [queues EXCEPT ![find_ep(eps2, dst)] = Enqueued(@, [src |-> src, type |-> type])]
                     ELSE queues

\* The oldest message of the reader's endpoint; reading registers nobody.
dev_wm_read(pid) == /\ HasEp(g_eps, pid)
                    /\ queues[find_ep(g_eps, pid)] # << >>
                    /\ queues' = [queues EXCEPT ![find_ep(g_eps, pid)] = Tail(@)]
                    /\ UNCHANGED <<g_eps, g_server_pid>>

Next == \/ \E src \in Pid, to \in Pid \cup {Nobody}, type \in Type : dev_wm_write(src, to, type)
        \/ \E pid \in Pid : dev_wm_read(pid)

Spec == Init /\ [][Next]_vars

-----------------------------------------------------------------------------

\* The types of the device's state.
TypeOK == /\ g_eps \in [Slots -> Pid \cup {Nobody}]
          /\ queues \in [Slots -> Seq([src : Pid, type : Type])]
          /\ \A i \in Slots : Len(queues[i]) <= Cap
          /\ g_server_pid \in Pid \cup {Nobody}

\* A process has one endpoint, whatever order it is registered in as sender or
\* as destination: a second one would hide messages from find_ep.
OneEndpoint == \A i, j \in Slots : g_eps[i] # Nobody /\ g_eps[i] = g_eps[j] => i = j

\* Clients never reach each other, also not through messages queued before the
\* server was elected: what waits at a client's endpoint was sent by the server.
ClientsIsolated == \A i \in Slots :
    g_eps[i] # g_server_pid => \A k \in DOMAIN queues[i] : queues[i][k].src = g_server_pid

\* Once there is a server it keeps its endpoint, however many processes have
\* used up the table, so that a client can always reach it.
ServerReachable == g_server_pid # Nobody => HasEp(g_eps, g_server_pid)
=============================================================================
