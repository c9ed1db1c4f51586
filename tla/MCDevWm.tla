------------------------------ MODULE MCDevWm -------------------------------
(* The two layers of /dev/wm in one run: Init picks the one that runs.     *)
(* "bytes" is the ring of an endpoint, of eight bytes with two-byte        *)
(* headers and payloads of 0, 1 and 3 bytes, so that messages wrap at      *)
(* every offset and one may push out two; "messages" is the endpoint table *)
(* and the routing, with more processes than endpoints.                    *)
EXTENDS DevWm, WmQueue

VARIABLE layer

MCMsg == {[id |-> 1, len |-> 0], [id |-> 2, len |-> 0], [id |-> 3, len |-> 1], [id |-> 4, len |-> 3]}

MCInit == layer \in {"bytes", "messages"} /\ QInit /\ Init

MCNext == \/ layer = "bytes" /\ QNext /\ UNCHANGED <<layer, vars>>
          \/ layer = "messages" /\ Next /\ UNCHANGED <<layer, qvars>>

MCSpec == MCInit /\ [][MCNext]_<<layer, vars, qvars>>
=============================================================================
