------------------------------ MODULE MCDrivers ------------------------------
(* Drivers with every kind of key and small, large and negative movements. *)
EXTENDS Drivers

MCItem == {"a", "A", "1", "!"}
MCMoves == {[dx |-> 2, dy |-> -9], [dx |-> 12, dy |-> -3], [dx |-> 0, dy |-> 10],
            [dx |-> -200, dy |-> 1]}
=============================================================================
